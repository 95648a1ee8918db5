---------------------------- MODULE LifecycleProofs ----------------------------
(***************************************************************************)
(* Theorems about Lifecycle, for every value of the constants.             *)
(***************************************************************************)
EXTENDS Lifecycle, FiniteSetTheorems, TLAPS

\* Every variable keeps its type, through every step of both processes.
LEMMA TypeInit == Init => TypeOK
  BY CallsAssumption, ServiceAssumption
  DEF Init, CallsInit, ServiceInit, AgentInit, TypeOK, CallsTypeOK, ServiceTypeOK,
      AgentTypeOK, CreateCalls, StopCalls, StatusCalls, DestroyCalls, RowStates, RecPcs, Awaiting

\* TypeOK is inductive: one step for each action of the service, the agent
\* and the calls between them.
LEMMA TypeStep == TypeOK /\ [Next]_vars => TypeOK'
<1> SUFFICES ASSUME TypeOK, [Next]_vars PROVE TypeOK'
  OBVIOUS
<1> USE CallsAssumption, ServiceAssumption
    DEF TypeOK, CallsTypeOK, ServiceTypeOK, AgentTypeOK, callVars, rowVars, volVars, recVars,
        serviceVars, agentVars
<1>1. CASE OwnerRequest /\ UNCHANGED agentVars
  <2>1. ASSUME NEW id \in Ids, NEW w \in Wallets, NEW p \in Ips,
               NEW v \in Volumes \cup {NoVolume}, Create(id, w, p, v)
        PROVE  TypeOK'
    BY <1>1, <2>1 DEF Create, getOrCreatePersistentVolume, Kicked, RowStates, RecPcs, Awaiting, LiveVolumes
  <2>2. ASSUME NEW id \in Ids, StopCurrent(id) PROVE TypeOK'
    BY <1>1, <2>2 DEF StopCurrent, SendStop, RowStates, StopCalls
  <2>3. ASSUME NEW v \in Volumes, DestroyVolume(v) PROVE TypeOK'
    BY <1>1, <2>3 DEF DestroyVolume, DestroyCalls
  <2> QED BY <1>1, <2>1, <2>2, <2>3 DEF OwnerRequest
<1>2. CASE OwnerReply /\ UNCHANGED agentVars
  <2>1. ASSUME NEW id \in Ids, StopReply(id) PROVE TypeOK'
    BY <1>2, <2>1 DEF StopReply, StopSettles, Kicked, RowStates, StopCalls, RecPcs, Awaiting
  <2>2. ASSUME NEW v \in Volumes, DestroyReply(v) PROVE TypeOK'
    BY <1>2, <2>2 DEF DestroyReply, DestroyCalls
  <2> QED BY <1>2, <2>1, <2>2 DEF OwnerReply
<1>3. CASE Reconcile /\ UNCHANGED agentVars
  <2>1. CASE RecTimer \/ RecChecks \/ RecDone
    BY <1>3, <2>1 DEF RecTimer, RecChecks, RecDone, RecPcs, Awaiting, InState
  <2>2. CASE RecBegin
    BY <1>3, <2>2 DEF RecBegin, RecPcs, Awaiting, RowStates
  <2>3. CASE RecCapacity
    <3>1. Cardinality(InState({"running", "provisioning", "stopping"})) \in Nat
      <4>1. IsFiniteSet(InState({"running", "provisioning", "stopping"}))
        BY FS_Subset DEF InState
      <4> QED BY <4>1, FS_CardinalityType
    <3> QED BY <1>3, <2>3, <3>1 DEF RecCapacity, RecPcs, Awaiting
  <2>4. ASSUME NEW id \in Ids, RecStop(id) \/ RecStatus(id) PROVE TypeOK'
    BY <1>3, <2>4 DEF RecStop, RecStatus, SendStop, RecPcs, Awaiting, StopCalls, StatusCalls
  <2>5. ASSUME NEW id \in Ids, RecClaim(id) PROVE TypeOK'
    BY <1>3, <2>5 DEF RecClaim, RecPcs, Awaiting, RowStates, CreateCalls
  <2>6. ASSUME NEW id \in Ids, RecStatusReply(id) PROVE TypeOK'
    BY <1>3, <2>6 DEF RecStatusReply, Checked, RecPcs, Awaiting, RowStates, StatusCalls
  <2>7. ASSUME NEW id \in Ids, RecCreateReply(id) PROVE TypeOK'
    BY <1>3, <2>7 DEF RecCreateReply, RecPcs, Awaiting, RowStates
  <2> QED BY <1>3, <2>1, <2>2, <2>3, <2>4, <2>5, <2>6, <2>7 DEF Reconcile
<1>4. CASE ServiceFault /\ UNCHANGED agentVars
  <2>1. ASSUME NEW id \in Ids, RecStatusTimeout(id) \/ RecCreateTimeout(id) PROVE TypeOK'
    BY <1>4, <2>1 DEF RecStatusTimeout, RecCreateTimeout, Fault, RecPcs, Awaiting, StatusCalls
  <2>2. ASSUME NEW id \in Ids, StopTimeout(id) PROVE TypeOK'
    BY <1>4, <2>2 DEF StopTimeout, StopSettles, Fault, Kicked, RowStates, StopCalls, RecPcs, Awaiting
  <2>3. ASSUME NEW v \in Volumes, DestroyTimeout(v) PROVE TypeOK'
    BY <1>4, <2>3 DEF DestroyTimeout, Fault, DestroyCalls
  <2>4. CASE ControlCrash
    BY <1>4, <2>4 DEF ControlCrash, Fault, StopCalls, StatusCalls, DestroyCalls, RecPcs, Awaiting
  <2> QED BY <1>4, <2>1, <2>2, <2>3, <2>4 DEF ServiceFault
<1>5. CASE Agent
  <2>1. ASSUME NEW id \in Ids, CreateHandler(id) PROVE TypeOK'
    BY <1>5, <2>1 DEF Agent, CreateHandler, TakeCreate, PrepareDisks, PrepareFails, Spawn, Booted,
        Configured, GuestFails, CreateStep, Stop, Fault, CreateCalls, CreateStages
  <2>2. ASSUME NEW id \in Ids, HandleStop(id) \/ HandleStatus(id) PROVE TypeOK'
    BY <1>5, <2>2 DEF Agent, HandleStop, HandleStatus, Stop, Fault, StopCalls, StatusCalls,
        RuntimeStates
  <2>3. ASSUME NEW v \in Volumes, DestroyHandler(v) PROVE TypeOK'
    BY <1>5, <2>3 DEF Agent, DestroyHandler, HandleDestroy, FinishDestroy, Fault, DestroyCalls
  <2>4. CASE LateHandler
    BY <1>5, <2>4 DEF Agent, LateHandler, HandleLateStop, HandleLateDestroy, FinishLateDestroy, Stop
  <2>5. CASE Sweep \/ (\E id \in Ids : VmExit(id))
    BY <1>5, <2>5 DEF Agent, Sweep, VmExit
  <2>6. CASE AgentCrash
    BY <1>5, <2>6 DEF Agent, AgentCrash, Cut, Fault, CreateCalls, CreateStages, StopCalls, StatusCalls,
        DestroyCalls
  <2> QED BY <1>5, <2>1, <2>2, <2>3, <2>4, <2>5, <2>6 DEF Agent, AgentNext
<1>6. CASE Tick
  BY <1>6 DEF Tick
<1>7. CASE UNCHANGED vars
  BY <1>7 DEF vars
<1> QED BY <1>1, <1>2, <1>3, <1>4, <1>5, <1>6, <1>7 DEF Next, Service, ServiceNext

\* Every variable of the lifecycle keeps its type, in every behaviour.
THEOREM TypeCorrect == Spec => []TypeOK
  BY TypeInit, TypeStep, PTL DEF Spec

-------------------------------------------------------------------------------
(* The effect of a step on the rows, as WorkspaceQueue sees them. *)

Claimed == {id \in Ids : createCall[id] # "none"}

InClaims == recPc \in {"claims", "createWait"}

\* The capacity the reconciler holds is not touched.
CapKept == InClaims' => InClaims /\ recCap' = recCap

RowsSame == UNCHANGED <<state, wallet, ip, createdAt, Claimed>>

Effect ==
    \/ RowsSame /\ now' = now /\ (CapKept \/ RecCapacity)
    \/ RowsSame /\ now' = now + 1 /\ CapKept
    \/ (\E id \in Ids, w \in Wallets, p \in Ips : Queue!Request(id, w, p)) /\ CapKept
    \/ (\E id \in Ids : Queue!Confirm(id) \/ Queue!Lose(id) \/ Queue!End(id)) /\ CapKept
    \/ (\E S \in SUBSET Ids : Queue!Close(S)) /\ CapKept
    \/ \E id \in Ids : RecClaim(id)

\* The instance has its own copy of Cardinality.
LEMMA QueueCardinality == \A S : Queue!Cardinality(S) = Cardinality(S)
  BY Zenon DEF Queue!Cardinality, Cardinality

\* What a step does to the rows, as the arguments on slots and on the
\* abstract queue need it: it leaves them, admits, claims, ends or updates one.
LEMMA StepEffect == TypeOK /\ CallsFollowRows /\ [Next]_vars => Effect
<1> SUFFICES ASSUME TypeOK, CallsFollowRows, [Next]_vars PROVE Effect
  OBVIOUS
<1> USE CallsAssumption, ServiceAssumption
    DEF callVars, rowVars, volVars, recVars, serviceVars, agentVars, CapKept, InClaims,
        RowsSame, Claimed
<1> DEFINE Rows == RowsSame /\ now' = now /\ CapKept
<1>0. Rows => Effect
  BY DEF Effect
<1>1. CASE OwnerRequest /\ UNCHANGED agentVars
  <2>1. ASSUME NEW id \in Ids, NEW w \in Wallets, NEW p \in Ips,
               NEW v \in Volumes \cup {NoVolume}, Create(id, w, p, v)
        PROVE  Effect
    <3>1. Queue!Request(id, w, p)
      <4>1. {i \in InState(ACTIVE) : wallet[i] = w} = Queue!ActiveOf(wallet, w)
        BY DEF InState, ACTIVE, Queue!ActiveOf, Queue!Active
      <4>2. {i \in InState(ACTIVE) : ip[i] = p} = Queue!ActiveOf(ip, p)
        BY DEF InState, ACTIVE, Queue!ActiveOf, Queue!Active
      <4>3. InState({"queued"}) = Queue!Queue
        BY DEF InState, Queue!Queue
      <4> QED BY <2>1, <4>1, <4>2, <4>3, QueueCardinality DEF Create, WithinLimits, Queue!Request
    <3>2. CapKept
      BY <2>1 DEF Create, Kicked
    <3> QED BY <3>1, <3>2 DEF Effect
  <2>2. ASSUME NEW id \in Ids, StopCurrent(id) PROVE Effect
    <3>1. CapKept
      BY <2>2 DEF StopCurrent
    <3>2. CASE state[id] = "stopping"
      <4>1. state' = state
        BY <2>2, <3>2 DEF StopCurrent, TypeOK, ServiceTypeOK
      <4> QED BY <1>0, <2>2, <3>1, <4>1 DEF StopCurrent
    <3>3. CASE state[id] # "stopping"
      <4>1. Cardinality({id}) = 1
        BY FS_Singleton
      <4>2. state' = [i \in Ids |-> IF i \in {id} THEN "stopping" ELSE state[i]]
        BY <2>2 DEF StopCurrent, TypeOK, ServiceTypeOK
      <4>3. ~(Queue!Cardinality({id}) > 1)
        BY <4>1, QueueCardinality
      <4>4. state[id] \in {"queued", "provisioning", "running"}
        BY <2>2, <3>3 DEF StopCurrent, ACTIVE
      <4>5. Queue!Close({id})
        BY <2>2, <4>2, <4>3, <4>4 DEF StopCurrent, Queue!Close
      <4> QED BY <3>1, <4>5 DEF Effect
    <3> QED BY <3>2, <3>3
  <2>3. ASSUME NEW v \in Volumes, DestroyVolume(v) PROVE Effect
    BY <1>0, <2>3 DEF DestroyVolume
  <2> QED BY <1>1, <2>1, <2>2, <2>3 DEF OwnerRequest
<1>2. ASSUME NEW id \in Ids, NEW ok \in BOOLEAN, StopSettles(id, ok) PROVE Effect
  <2>1. CapKept
    BY <1>2 DEF StopSettles, Kicked
  <2>2. CASE ok /\ state[id] = "stopping"
    <3>1. Queue!End(id)
      BY <1>2, <2>2 DEF StopSettles, Queue!End, Queue!Move
    <3> QED BY <2>1, <3>1 DEF Effect
  <2>3. CASE ~(ok /\ state[id] = "stopping")
    BY <1>0, <1>2, <2>1, <2>3 DEF StopSettles
  <2> QED BY <2>2, <2>3
<1>3. CASE OwnerReply /\ UNCHANGED agentVars
  <2>1. ASSUME NEW id \in Ids, StopReply(id) PROVE Effect
    BY <1>2, <2>1 DEF StopReply
  <2>2. ASSUME NEW v \in Volumes, DestroyReply(v) PROVE Effect
    BY <1>0, <2>2 DEF DestroyReply
  <2> QED BY <1>3, <2>1, <2>2 DEF OwnerReply
<1>4. CASE Reconcile /\ UNCHANGED agentVars
  <2>1. CASE RecTimer \/ RecChecks \/ RecDone
    BY <1>0, <2>1 DEF RecTimer, RecChecks, RecDone
  <2>2. CASE RecBegin
    <3> DEFINE S == {id \in Ids : state[id] \in Stoppable /\ Expired(id)}
    <3>1. Queue!Close(S)
      BY <2>2 DEF RecBegin, Stoppable, Expired, Queue!Close
    <3>2. CapKept
      BY <2>2 DEF RecBegin
    <3> QED BY <3>1, <3>2 DEF Effect
  <2>3. CASE RecCapacity
    BY <2>3 DEF RecCapacity, Effect
  <2>4. ASSUME NEW id \in Ids, RecStop(id) \/ RecStatus(id) PROVE Effect
    BY <1>0, <2>4 DEF RecStop, RecStatus
  <2>5. ASSUME NEW id \in Ids, RecClaim(id) PROVE Effect
    BY <2>5 DEF Effect
  <2>6. ASSUME NEW id \in Ids, RecStatusReply(id) PROVE Effect
    <3>1. CapKept
      BY <2>6 DEF RecStatusReply
    <3>2. CASE statusCall[id] = "running" /\ state[id] = "provisioning"
      <4>1. Queue!Confirm(id)
        BY <2>6, <3>2 DEF RecStatusReply, Checked, Queue!Confirm, Queue!Move
      <4> QED BY <3>1, <4>1 DEF Effect
    <3>3. CASE statusCall[id] = "ended" /\ state[id] \in {"running", "provisioning"}
      <4>1. Queue!Lose(id)
        BY <2>6, <3>3 DEF RecStatusReply, Checked, Queue!Lose, Queue!Move
      <4> QED BY <3>1, <4>1 DEF Effect
    <3>4. CASE ~ \/ statusCall[id] = "running" /\ state[id] = "provisioning"
                 \/ statusCall[id] = "ended" /\ state[id] \in {"running", "provisioning"}
      BY <1>0, <2>6, <3>1, <3>4 DEF RecStatusReply, Checked
    <3> QED BY <3>2, <3>3, <3>4
  <2>7. ASSUME NEW id \in Ids, RecCreateReply(id) PROVE Effect
    <3>1. CapKept
      BY <2>7 DEF RecCreateReply
    <3>2. CASE createCall[id] = "ok" /\ state[id] = "provisioning"
      <4>1. Queue!Confirm(id)
        BY <2>7, <3>2 DEF RecCreateReply, Queue!Confirm, Queue!Move
      <4> QED BY <3>1, <4>1 DEF Effect
    <3>3. CASE ~(createCall[id] = "ok" /\ state[id] = "provisioning")
      BY <1>0, <2>7, <3>1, <3>3 DEF RecCreateReply
    <3> QED BY <3>2, <3>3
  <2> QED BY <1>4, <2>1, <2>2, <2>3, <2>4, <2>5, <2>6, <2>7 DEF Reconcile
<1>5. CASE ServiceFault /\ UNCHANGED agentVars
  <2>1. ASSUME NEW id \in Ids, RecStatusTimeout(id) \/ RecCreateTimeout(id) PROVE Effect
    BY <1>0, <2>1 DEF RecStatusTimeout, RecCreateTimeout
  <2>2. ASSUME NEW id \in Ids, StopTimeout(id) PROVE Effect
    BY <1>2, <2>2 DEF StopTimeout
  <2>3. ASSUME NEW v \in Volumes, DestroyTimeout(v) PROVE Effect
    BY <1>0, <2>3 DEF DestroyTimeout
  <2>4. CASE ControlCrash
    BY <1>0, <2>4 DEF ControlCrash
  <2> QED BY <1>5, <2>1, <2>2, <2>3, <2>4 DEF ServiceFault
<1>6. CASE Agent
  <2>1. ASSUME NEW id \in Ids, CreateHandler(id) PROVE Effect
    <3>1. UNCHANGED Claimed /\ now' = now
      BY <2>1 DEF CreateHandler, TakeCreate, PrepareDisks, PrepareFails, Spawn, Booted, Configured,
          GuestFails, CreateStep, TypeOK, CallsTypeOK
    <3> QED BY <1>0, <1>6, <3>1 DEF Agent
  <2>2. ASSUME NEW id \in Ids, HandleStop(id) \/ HandleStatus(id) PROVE Effect
    BY <1>0, <1>6, <2>2 DEF Agent, HandleStop, HandleStatus
  <2>3. ASSUME NEW v \in Volumes, DestroyHandler(v) PROVE Effect
    BY <1>0, <1>6, <2>3 DEF Agent, DestroyHandler, HandleDestroy, FinishDestroy
  <2>4. CASE LateHandler
    BY <1>0, <1>6, <2>4 DEF Agent, LateHandler, HandleLateStop, HandleLateDestroy, FinishLateDestroy
  <2>5. CASE Sweep \/ (\E id \in Ids : VmExit(id))
    BY <1>0, <1>6, <2>5 DEF Agent, Sweep, VmExit
  <2>6. CASE AgentCrash
    <3>1. UNCHANGED Claimed
      BY <2>6 DEF AgentCrash, Cut, CreateStages
    <3> QED BY <1>0, <1>6, <2>6, <3>1 DEF Agent, AgentCrash
  <2> QED BY <1>6, <2>1, <2>2, <2>3, <2>4, <2>5, <2>6 DEF Agent, AgentNext
<1>7. CASE Tick
  BY <1>7 DEF Tick, Effect
<1>8. CASE UNCHANGED vars
  BY <1>0, <1>8 DEF vars
<1> QED BY <1>1, <1>3, <1>4, <1>5, <1>6, <1>7, <1>8 DEF Next, Service, ServiceNext

-------------------------------------------------------------------------------
(* Slots: the reconciler's cached capacity never overstates what is free. *)

\* The slots are a finite set, so their number is a natural number.
LEMMA SlotsFinite == IsFiniteSet(Slots) /\ Cardinality(Slots) \in Nat
<1>1. IsFiniteSet(Slots)
  BY CallsAssumption, FS_Subset DEF Slots
<1> QED BY <1>1, FS_CardinalityType

\* Under CallsFollowRows the slots are those of WorkspaceQueue.
LEMMA SlotsAreQueueSlots == TypeOK /\ CallsFollowRows => Slots = Queue!Slots
  BY DEF TypeOK, ServiceTypeOK, RowStates, CallsFollowRows, Slots, HoldsSlot, Queue!Slots, Queue!Active

\* Only a claim takes a slot.
LEMMA EffectOnSlots ==
  ASSUME TypeOK, CallsFollowRows, Effect
  PROVE  /\ CallsFollowRows'
         /\ \/ Slots' \subseteq Slots /\ (CapKept \/ RecCapacity)
            \/ \E id \in Ids : RecClaim(id) /\ id \notin Slots /\ Slots' = Slots \cup {id}
<1> USE DEF TypeOK, ServiceTypeOK, CallsTypeOK, CallsFollowRows, Slots, HoldsSlot
<1>1. CASE RowsSame /\ (CapKept \/ RecCapacity)
  BY <1>1 DEF RowsSame, Claimed
<1>2. CASE (\E id \in Ids, w \in Wallets, p \in Ips : Queue!Request(id, w, p)) /\ CapKept
  BY <1>2 DEF Queue!Request
<1>3. CASE (\E id \in Ids : Queue!Confirm(id) \/ Queue!Lose(id) \/ Queue!End(id)) /\ CapKept
  BY <1>3 DEF Queue!Confirm, Queue!Lose, Queue!End, Queue!Move
<1>4. CASE (\E S \in SUBSET Ids : Queue!Close(S)) /\ CapKept
  BY <1>4 DEF Queue!Close
<1>5. ASSUME NEW id \in Ids, RecClaim(id)
      PROVE  CallsFollowRows' /\ id \notin Slots /\ Slots' = Slots \cup {id}
  BY <1>5 DEF RecClaim, Claimable, InState
<1> QED BY <1>1, <1>2, <1>3, <1>4, <1>5 DEF Effect

SlotInv == TypeOK /\ CapacitySound /\ SlotsReserved

\* A database without rows reserves no slot.
LEMMA SlotInit == Init => SlotInv
<1> SUFFICES ASSUME Init PROVE SlotInv
  OBVIOUS
<1>1. Slots = {}
  BY DEF Init, ServiceInit, Slots, HoldsSlot
<1>2. SlotsReserved
  BY <1>1, FS_EmptySet, ServiceAssumption DEF SlotsReserved
<1>3. CapacitySound
  BY DEF Init, CallsInit, ServiceInit, CapacitySound, CallsFollowRows
<1> QED BY <1>2, <1>3, TypeInit DEF SlotInv

\* SlotInv is inductive: a claim looks at the slots in the step that takes
\* one, and a slot once given back is not taken again by the same row.
LEMMA SlotStep == SlotInv /\ [Next]_vars => SlotInv'
<1> SUFFICES ASSUME SlotInv, [Next]_vars PROVE SlotInv'
  OBVIOUS
<1>1. TypeOK /\ CallsFollowRows /\ TypeOK' /\ Effect
  BY TypeStep, StepEffect DEF SlotInv, CapacitySound
<1>2. CallsFollowRows'
  BY <1>1, EffectOnSlots
<1>3. /\ IsFiniteSet(Slots) /\ IsFiniteSet(Slots')
      /\ Cardinality(Slots) \in Nat /\ Cardinality(Slots') \in Nat
  BY SlotsFinite, CallsAssumption, FS_Subset, FS_CardinalityType DEF Slots
<1>4. recCap \in 0..MaxRunning /\ recCap' \in 0..MaxRunning /\ MaxRunning \in Nat
  BY <1>1, ServiceAssumption DEF TypeOK, ServiceTypeOK
<1>5. CASE Slots' \subseteq Slots /\ CapKept
  <2>1. Cardinality(Slots') <= Cardinality(Slots)
    BY <1>3, <1>5, FS_Subset
  <2> QED BY <1>1, <1>2, <1>3, <1>4, <1>5, <2>1
          DEF SlotInv, CapacitySound, SlotsReserved, CapKept, InClaims
<1>6. CASE Slots' \subseteq Slots /\ RecCapacity
  <2> DEFINE Used == InState({"running", "provisioning", "stopping"})
  <2>1. Cardinality(Slots') <= Cardinality(Slots)
    BY <1>3, <1>6, FS_Subset
  <2>2. IsFiniteSet(Used) /\ Slots \subseteq Used
    BY CallsAssumption, FS_Subset DEF InState, Slots, HoldsSlot
  <2>3. Cardinality(Slots) <= Cardinality(Used) /\ Cardinality(Used) \in Nat
    BY <2>2, FS_Subset, FS_CardinalityType
  <2>4. recCap' = IF Cardinality(Used) < MaxRunning THEN MaxRunning - Cardinality(Used) ELSE 0
    BY <1>6 DEF RecCapacity
  <2> HIDE DEF Used
  <2> QED BY <1>1, <1>2, <1>3, <1>4, <2>1, <2>3, <2>4 DEF SlotInv, CapacitySound, SlotsReserved
<1>7. ASSUME NEW id \in Ids, RecClaim(id), id \notin Slots, Slots' = Slots \cup {id}
      PROVE  SlotInv'
  <2>1. Cardinality(Slots') = Cardinality(Slots) + 1
    BY <1>3, <1>7, FS_AddElement
  <2>2. recCap > 0 /\ recCap' = recCap - 1 /\ recPc = "claims"
    BY <1>7 DEF RecClaim
  <2> QED BY <1>1, <1>2, <1>3, <1>4, <2>1, <2>2 DEF SlotInv, CapacitySound, SlotsReserved
<1> QED BY <1>1, <1>5, <1>6, <1>7, EffectOnSlots

\* The rows that may have a VM never outnumber config.maxRunning.
THEOREM SlotsAlwaysReserved == Spec => []SlotsReserved
<1>1. SlotInv => SlotsReserved
  BY DEF SlotInv
<1> QED BY <1>1, SlotInit, SlotStep, PTL DEF Spec

-------------------------------------------------------------------------------
(* Lifecycle implements WorkspaceQueue. *)

\* The initial rows are those of the abstract queue.
LEMMA QueueInit == Init => Queue!Init
  BY DEF Init, CallsInit, ServiceInit, Queue!Init

\* Every step is a step of the abstract queue or leaves it unchanged.
LEMMA QueueStep == SlotInv /\ [Next]_vars => [Queue!Next]_(Queue!vars)
<1> SUFFICES ASSUME SlotInv, [Next]_vars PROVE [Queue!Next]_(Queue!vars)
  OBVIOUS
<1>1. TypeOK /\ CallsFollowRows /\ Effect
  BY StepEffect DEF SlotInv, CapacitySound
<1>2. ASSUME NEW id \in Ids, RecClaim(id) PROVE Queue!Claim(id)
  <2>1. Queue!Cardinality(Queue!Slots) < MaxRunning
    <3>1. Cardinality(Slots) + recCap <= MaxRunning /\ recCap > 0
      BY <1>2 DEF RecClaim, SlotInv, CapacitySound
    <3>2. recCap \in Nat /\ MaxRunning \in Nat
      BY <1>1, ServiceAssumption DEF TypeOK, ServiceTypeOK
    <3>3. Cardinality(Slots) < MaxRunning
      BY <3>1, <3>2, SlotsFinite
    <3> QED BY <1>1, <3>3, SlotsAreQueueSlots, QueueCardinality
  <2>2. Claimable = Queue!Waiting
    BY <1>1, CallsAssumption DEF Claimable, InState, Expired, Queue!Waiting, Queue!Queue, TypeOK, CallsTypeOK
  <2>3. {i \in Ids : createCall'[i] # "none"} = {i \in Ids : createCall[i] # "none"} \cup {id}
    BY <1>1, <1>2 DEF RecClaim, TypeOK, CallsTypeOK
  <2> QED BY <1>2, <2>1, <2>2, <2>3 DEF RecClaim, Queue!Claim, Queue!Move
<1>3. CASE RowsSame /\ now' = now
  BY <1>3 DEF RowsSame, Claimed, Queue!vars
<1>4. CASE RowsSame /\ now' = now + 1
  BY <1>4 DEF RowsSame, Claimed, Queue!Tick, Queue!Next
<1> QED BY <1>1, <1>2, <1>3, <1>4 DEF Effect, Queue!Next

\* What WorkspaceQueue promises of the rows, the service does: admission
\* under the limits, first come first served, at most MaxRunning slots.
THEOREM ImplementsQueue == Spec => QueueSpec
<1>1. Spec => []SlotInv
  BY SlotInit, SlotStep, PTL DEF Spec
<1> QED BY <1>1, QueueInit, QueueStep, PTL DEF Spec, QueueSpec, Queue!Spec

-------------------------------------------------------------------------------
(* Volumes: destroyingVolumes, an in-memory set keyed by wallet, is enough *)
(* to keep a volume and its destruction apart.                             *)

VolInv ==
    /\ TypeOK
    /\ VolumesExclusive
    /\ VolumesOwned
    /\ \A id \in Ids : volume[id] # NoVolume => state[id] # "none" /\ wallet[id] # NoWallet
    /\ \A v \in Volumes :
        /\ v \in destroyed => volOwner[v] # NoWallet
        /\ destroyCall[v] # "none" => volOwner[v] \in destroying /\ v \notin destroyed

\* What most steps have in common: no row is attached and nothing about
\* volumes is decided.
VolFrame ==
    /\ UNCHANGED <<volume, wallet, volOwner, destroyed, destroying>>
    /\ \A v \in Volumes : destroyCall'[v] # "none" => destroyCall[v] # "none"
    /\ \A id \in Ids : /\ state'[id] \in ACTIVE => state[id] \in ACTIVE
                       /\ state[id] # "none" => state'[id] # "none"

\* A step that leaves rows and volumes alone keeps VolInv.
LEMMA VolFrameStep == VolInv /\ TypeOK' /\ VolFrame => VolInv'
  BY DEF VolInv, VolFrame, VolumesExclusive, VolumesOwned, Attached, InState, LiveVolumes

\* There is no volume at first.
LEMMA VolInit == Init => VolInv
  BY TypeInit, ServiceAssumption
  DEF Init, CallsInit, ServiceInit, VolInv, VolumesExclusive, VolumesOwned, Attached, InState,
      LiveVolumes, ACTIVE

\* VolInv is inductive: creation, release and destruction of volumes.
LEMMA VolStep == VolInv /\ [Next]_vars => VolInv'
<1> SUFFICES ASSUME VolInv, [Next]_vars PROVE VolInv'
  OBVIOUS
<1>0. TypeOK /\ TypeOK' /\ (VolFrame => VolInv')
  BY TypeStep, VolFrameStep DEF VolInv
<1> USE CallsAssumption, ServiceAssumption
    DEF callVars, rowVars, volVars, recVars, serviceVars, agentVars
<1>1. CASE OwnerRequest /\ UNCHANGED agentVars
  <2>1. ASSUME NEW id \in Ids, NEW w \in Wallets, NEW p \in Ips,
               NEW v \in Volumes \cup {NoVolume}, Create(id, w, p, v)
        PROVE  VolInv'
    <3>1. CASE v = NoVolume
      BY <1>0, <2>1, <3>1 DEF Create, VolInv, VolumesExclusive, VolumesOwned, Attached, InState,
          LiveVolumes, ACTIVE, TypeOK, ServiceTypeOK, CallsTypeOK
    <3>2. CASE v # NoVolume
      <4>1. v \in Volumes /\ v \notin destroyed /\ destroyCall[v] = "none"
        BY <1>0, <2>1, <3>2 DEF Create, getOrCreatePersistentVolume, LiveVolumes, VolInv, TypeOK,
            ServiceTypeOK
      <4>2. /\ volOwner' = [volOwner EXCEPT ![v] = w]
            /\ volOwner[v] \in {w, NoWallet}
            /\ volOwner[v] = w \/ LiveVolumes(w) = {}
            /\ UNCHANGED <<destroyed, destroying, destroyCall>>
        BY <1>0, <2>1, <3>2 DEF Create, getOrCreatePersistentVolume, LiveVolumes, TypeOK, ServiceTypeOK
      <4>3. /\ volume' = [volume EXCEPT ![id] = v]
            /\ wallet' = [wallet EXCEPT ![id] = w]
            /\ state' = [state EXCEPT ![id] = "queued"]
        BY <2>1 DEF Create
      <4>4. VolumesOwned'
        BY <1>0, <4>1, <4>2, <4>3 DEF VolInv, VolumesOwned, TypeOK, ServiceTypeOK, CallsTypeOK
      <4>5. VolumesExclusive'
        <5>1. \A u \in Volumes : u \in destroyed' \/ destroyCall'[u] # "none" => u # v /\ ~Attached(u)
          BY <4>1, <4>2 DEF VolInv, VolumesExclusive
        <5>2. \A u \in Volumes : u # v /\ ~Attached(u) => ~Attached(u)'
          BY <1>0, <4>3 DEF Attached, InState, ACTIVE, TypeOK, ServiceTypeOK, CallsTypeOK
        <5>3. \A x \in Wallets : \A a, b \in LiveVolumes(x)' : a = b
          <6> SUFFICES ASSUME NEW x \in Wallets, NEW a \in LiveVolumes(x)', NEW b \in LiveVolumes(x)'
                       PROVE  a = b
            OBVIOUS
          <6>1. \A c \in LiveVolumes(x)' : c = v \/ c \in LiveVolumes(x)
            BY <1>0, <4>2 DEF LiveVolumes, TypeOK, ServiceTypeOK
          <6>2. v \in LiveVolumes(x)' => x = w
            BY <1>0, <4>1, <4>2 DEF LiveVolumes, TypeOK, ServiceTypeOK
          <6>3. x = w => v \in LiveVolumes(x) \/ LiveVolumes(x) = {}
            BY <4>1, <4>2 DEF LiveVolumes
          <6> QED BY <6>1, <6>2, <6>3 DEF VolInv, VolumesExclusive
        <5> QED BY <5>1, <5>2, <5>3 DEF VolumesExclusive
      <4>6. \A i \in Ids : volume'[i] # NoVolume => state'[i] # "none" /\ wallet'[i] # NoWallet
        BY <1>0, <4>3 DEF VolInv, TypeOK, ServiceTypeOK, CallsTypeOK
      <4>7. \A u \in Volumes :
              /\ u \in destroyed' => volOwner'[u] # NoWallet
              /\ destroyCall'[u] # "none" => volOwner'[u] \in destroying' /\ u \notin destroyed'
        BY <1>0, <4>1, <4>2 DEF VolInv, TypeOK, ServiceTypeOK
      <4> QED BY <1>0, <4>4, <4>5, <4>6, <4>7 DEF VolInv
    <3> QED BY <3>1, <3>2
  <2>2. ASSUME NEW id \in Ids, StopCurrent(id) PROVE VolInv'
    BY <1>0, <2>2 DEF StopCurrent, VolFrame, ACTIVE, TypeOK, ServiceTypeOK
  <2>3. ASSUME NEW v \in Volumes, DestroyVolume(v) PROVE VolInv'
    <3>1. VolumesExclusive' /\ VolumesOwned'
      BY <1>0, <2>3 DEF DestroyVolume, VolInv, VolumesExclusive, VolumesOwned, Attached, InState, LiveVolumes, TypeOK,
          CallsTypeOK
    <3>2. \A u \in Volumes : destroyCall'[u] # "none" =>
              volOwner'[u] \in destroying' /\ u \notin destroyed'
      BY <1>0, <2>3 DEF DestroyVolume, VolInv, TypeOK, CallsTypeOK
    <3> QED BY <1>0, <2>3, <3>1, <3>2 DEF DestroyVolume, VolInv
  <2> QED BY <1>1, <2>1, <2>2, <2>3 DEF OwnerRequest
<1>2. ASSUME NEW id \in Ids, NEW ok \in BOOLEAN, StopSettles(id, ok) PROVE VolInv'
  BY <1>0, <1>2 DEF StopSettles, VolFrame, ACTIVE, TypeOK, ServiceTypeOK
<1>3. ASSUME NEW v \in Volumes, DestroyReply(v) \/ DestroyTimeout(v) PROVE VolInv'
  <2>1. /\ UNCHANGED <<state, wallet, volume, volOwner>>
        /\ destroying' = destroying \ {volOwner[v]}
        /\ destroyCall' = [destroyCall EXCEPT ![v] = "none"]
        /\ destroyed' \in {destroyed, destroyed \cup {v}}
        /\ destroyCall[v] # "none"
    BY <1>3 DEF DestroyReply, DestroyTimeout
  <2>2. volOwner[v] \in Wallets /\ v \notin destroyed /\ ~Attached(v)
    BY <1>0, <2>1 DEF VolInv, VolumesExclusive, TypeOK, ServiceTypeOK
  <2>3. \A u \in Volumes : destroyCall'[u] # "none" => volOwner[u] \in destroying' /\ u \notin destroyed'
    <3> SUFFICES ASSUME NEW u \in Volumes, destroyCall'[u] # "none"
                 PROVE  volOwner[u] \in destroying' /\ u \notin destroyed'
      OBVIOUS
    <3>1. u # v /\ destroyCall[u] # "none"
      BY <1>0, <2>1 DEF TypeOK, CallsTypeOK
    <3>2. volOwner[u] \in destroying /\ u \notin destroyed
      BY <3>1 DEF VolInv
    <3>3. volOwner[u] # volOwner[v]
      BY <2>2, <3>1, <3>2 DEF VolInv, VolumesExclusive, LiveVolumes
    <3> QED BY <2>1, <3>1, <3>2, <3>3
  <2>4. VolumesExclusive' /\ VolumesOwned'
    BY <1>0, <2>1, <2>2 DEF VolInv, VolumesExclusive, VolumesOwned, Attached, InState, LiveVolumes, TypeOK, CallsTypeOK
  <2> QED BY <1>0, <2>1, <2>2, <2>3, <2>4 DEF VolInv
<1>4. CASE OwnerReply /\ UNCHANGED agentVars
  BY <1>2, <1>3, <1>4 DEF OwnerReply, StopReply
<1>5. CASE Reconcile /\ UNCHANGED agentVars
  <2>1. CASE RecTimer \/ RecChecks \/ RecDone \/ RecCapacity
    BY <1>0, <2>1 DEF RecTimer, RecChecks, RecDone, RecCapacity, VolFrame
  <2>2. CASE RecBegin
    BY <1>0, <2>2 DEF RecBegin, VolFrame, Stoppable, ACTIVE
  <2>3. ASSUME NEW id \in Ids, RecStop(id) \/ RecStatus(id) PROVE VolInv'
    BY <1>0, <2>3 DEF RecStop, RecStatus, VolFrame
  <2>4. ASSUME NEW id \in Ids, RecClaim(id) PROVE VolInv'
    BY <1>0, <2>4 DEF RecClaim, Claimable, InState, VolFrame, ACTIVE, TypeOK, ServiceTypeOK
  <2>5. ASSUME NEW id \in Ids, RecStatusReply(id) PROVE VolInv'
    BY <1>0, <2>5 DEF RecStatusReply, Checked, VolFrame, ACTIVE, TypeOK, ServiceTypeOK
  <2>6. ASSUME NEW id \in Ids, RecCreateReply(id) PROVE VolInv'
    BY <1>0, <2>6 DEF RecCreateReply, VolFrame, ACTIVE, TypeOK, ServiceTypeOK
  <2> QED BY <1>5, <2>1, <2>2, <2>3, <2>4, <2>5, <2>6 DEF Reconcile
<1>6. CASE ServiceFault /\ UNCHANGED agentVars
  <2>1. ASSUME NEW id \in Ids, RecStatusTimeout(id) \/ RecCreateTimeout(id) PROVE VolInv'
    BY <1>0, <2>1 DEF RecStatusTimeout, RecCreateTimeout, VolFrame
  <2>2. CASE ControlCrash
    BY <1>0, <2>2 DEF ControlCrash, VolInv, VolumesExclusive, VolumesOwned, Attached, InState, LiveVolumes
  <2> QED BY <1>2, <1>3, <1>6, <2>1, <2>2 DEF ServiceFault, StopTimeout
<1>7. CASE Agent
  <2>1. UNCHANGED <<state, volume, wallet, volOwner, destroyed, destroying>>
    BY <1>7 DEF Agent
  <2>2. \A v \in Volumes : destroyCall'[v] # "none" => destroyCall[v] # "none"
    <3>1. ASSUME NEW id \in Ids, CreateHandler(id) \/ HandleStop(id) \/ HandleStatus(id)
          PROVE  UNCHANGED destroyCall
      BY <3>1 DEF CreateHandler, TakeCreate, PrepareDisks, PrepareFails, Spawn, Booted, Configured,
          GuestFails, CreateStep, HandleStop, HandleStatus
    <3>2. CASE \E v \in Volumes : DestroyHandler(v)
      BY <1>0, <3>2 DEF DestroyHandler, HandleDestroy, FinishDestroy, TypeOK, CallsTypeOK
    <3>3. CASE LateHandler \/ Sweep \/ \E id \in Ids : VmExit(id)
      BY <3>3 DEF LateHandler, HandleLateStop, HandleLateDestroy, FinishLateDestroy, Sweep, VmExit
    <3>4. CASE AgentCrash
      BY <3>4 DEF AgentCrash, Cut
    <3> QED BY <1>7, <3>1, <3>2, <3>3, <3>4 DEF Agent, AgentNext
  <2> QED BY <1>0, <2>1, <2>2 DEF VolFrame
<1>8. CASE Tick
  BY <1>0, <1>8 DEF Tick, VolFrame
<1>9. CASE UNCHANGED vars
  BY <1>0, <1>9 DEF vars, VolFrame
<1> QED BY <1>1, <1>4, <1>5, <1>6, <1>7, <1>8, <1>9 DEF Next, Service, ServiceNext

\* A destroyed volume, or one whose destruction the service awaits, is not
\* attached to an active row, a wallet has one live volume, and a row's volume
\* belongs to the row's wallet.
THEOREM VolumesAlwaysSafe == Spec => []VolumesSafe
<1>1. VolInv => VolumesSafe
  BY DEF VolInv, VolumesSafe
<1> QED BY <1>1, VolInit, VolStep, PTL DEF Spec

-------------------------------------------------------------------------------
(* VMs: a creation that failed stops what it spawned. *)

\* Most steps start no VM and leave every creation where it is.
VmFrame == vms' \subseteq vms /\ createCall' = createCall

\* The service starts VMs only by claiming a row, whose creation was not sent yet.
LEMMA ServiceOnVms ==
    ASSUME [Next]_vars, ~Agent
    PROVE  VmFrame \/ \E id \in Ids : vms' = vms /\ RecClaim(id)
<1> USE DEF callVars, rowVars, volVars, recVars, serviceVars, agentVars, VmFrame
<1>1. CASE OwnerRequest /\ UNCHANGED agentVars
  BY <1>1 DEF OwnerRequest, Create, StopCurrent, SendStop, DestroyVolume
<1>2. CASE OwnerReply /\ UNCHANGED agentVars
  BY <1>2 DEF OwnerReply, StopReply, StopSettles, DestroyReply
<1>3. CASE Reconcile /\ UNCHANGED agentVars
  BY <1>3 DEF Reconcile, RecTimer, RecBegin, RecChecks, RecCapacity, RecDone, RecStop, SendStop,
              RecStatus, RecStatusReply, RecCreateReply
<1>4. CASE ServiceFault /\ UNCHANGED agentVars
  BY <1>4 DEF ServiceFault, RecStatusTimeout, RecCreateTimeout, StopTimeout, StopSettles,
              DestroyTimeout, ControlCrash
<1>5. CASE Tick \/ UNCHANGED vars
  BY <1>5 DEF Tick, vars
<1> QED BY <1>1, <1>2, <1>3, <1>4, <1>5 DEF Next, Service, ServiceNext

\* The property is inductive with the types and with creations following rows.
LEMMA VmStep ==
    SlotInv /\ FailedCreateLeavesNoVm /\ [Next]_vars => FailedCreateLeavesNoVm'
<1> SUFFICES ASSUME SlotInv, FailedCreateLeavesNoVm, [Next]_vars PROVE FailedCreateLeavesNoVm'
  OBVIOUS
<1>1. createCall \in [Ids -> CreateCalls] /\ CallsFollowRows
  BY DEF SlotInv, CapacitySound, TypeOK, CallsTypeOK
<1>2. CASE VmFrame
  BY <1>2 DEF VmFrame, FailedCreateLeavesNoVm
<1>3. ASSUME NEW id \in Ids, vms' = vms, RecClaim(id) PROVE FailedCreateLeavesNoVm'
  <2>1. state[id] = "queued" /\ createCall' = [createCall EXCEPT ![id] = "sent"]
    BY <1>3 DEF RecClaim, Claimable, InState
  <2>2. id \notin vms
    BY <1>1, <2>1 DEF CallsFollowRows, FailedCreateLeavesNoVm
  <2> QED BY <1>1, <1>3, <2>1, <2>2 DEF FailedCreateLeavesNoVm
<1>4. CASE Agent
  <2>1. ASSUME NEW id \in Ids, CreateHandler(id) PROVE FailedCreateLeavesNoVm'
    <3>1. ASSUME NEW from \in CreateCalls, NEW to, CreateStep(id, from, to),
                 vms' \in {vms, vms \ {id}, vms \cup {id}},
                 id \in vms' => to \in {"booting", "configuring", "ok"}
          PROVE  FailedCreateLeavesNoVm'
      BY <1>1, <3>1 DEF CreateStep, FailedCreateLeavesNoVm
    <3>2. CASE TakeCreate(id)
      <4>1. id \notin vms
        BY <3>2 DEF TakeCreate, CreateStep, FailedCreateLeavesNoVm
      <4> QED BY <3>1, <3>2, <4>1 DEF TakeCreate, agentVars, CreateCalls
    <3>3. CASE PrepareDisks(id)
      <4>1. id \notin vms
        BY <3>3 DEF PrepareDisks, CreateStep, FailedCreateLeavesNoVm
      <4> QED BY <3>1, <3>3, <4>1 DEF PrepareDisks, CreateCalls, CreateStages
    <3>4. CASE PrepareFails(id)
      <4>1. id \notin vms
        BY <3>4 DEF PrepareFails, CreateStep, FailedCreateLeavesNoVm
      <4> QED BY <3>1, <3>4, <4>1 DEF PrepareFails, agentVars, CreateCalls, CreateStages
    <3>5. CASE Spawn(id)
      BY <3>1, <3>5 DEF Spawn, CreateCalls, CreateStages
    <3>6. CASE Booted(id) \/ Configured(id)
      BY <3>1, <3>6 DEF Booted, Configured, agentVars, CreateCalls, CreateStages
    <3>7. CASE GuestFails(id)
      BY <3>1, <3>7 DEF GuestFails, Stop, CreateCalls, CreateStages
    <3> QED BY <2>1, <3>2, <3>3, <3>4, <3>5, <3>6, <3>7 DEF CreateHandler
  <2>2. CASE AgentCrash
    BY <2>2 DEF AgentCrash, FailedCreateLeavesNoVm
  <2>3. ASSUME ~(\E id \in Ids : CreateHandler(id)), ~AgentCrash PROVE VmFrame
    BY <1>4, <2>3 DEF Agent, AgentNext, HandleStop, HandleStatus, DestroyHandler, HandleDestroy,
        FinishDestroy, LateHandler, HandleLateStop, HandleLateDestroy, FinishLateDestroy, VmExit,
        Sweep, Stop, VmFrame, agentVars, callVars
  <2> QED BY <1>2, <2>1, <2>2, <2>3
<1> QED BY <1>2, <1>3, <1>4, ServiceOnVms

\* A VM runs only for a creation that goes on or succeeded: a guest that missed
\* its deadline, a failed spawn and a crash of the agent leave none behind.
THEOREM FailedCreateNeverLeavesVm == Spec => []FailedCreateLeavesNoVm
<1>1. Init => FailedCreateLeavesNoVm
  BY DEF Init, AgentInit, FailedCreateLeavesNoVm
<1>2. Spec => []SlotInv
  BY SlotInit, SlotStep, PTL DEF Spec
<1> QED BY <1>1, <1>2, VmStep, PTL DEF Spec

================================================================================

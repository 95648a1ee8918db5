-------------------------------- MODULE SignIn --------------------------------
(***************************************************************************)
(* Signing in with a wallet (control/auth.ts, control/session.ts and the   *)
(* /api/auth routes of control/server.ts).  The database keeps challenges  *)
(* and sessions; a verify request reads a challenge, awaits the check of   *)
(* the signature and only then consumes the challenge, so that requests    *)
(* with the same signature, the janitor, newer challenges and a restart of *)
(* the control plane come in between.                                      *)
(***************************************************************************)
EXTENDS Integers, FiniteSets

CONSTANTS
    Nonces,         \* challenges (generateSiweNonce: never the same twice)
    Wallets,
    Ips,            \* network fingerprints
    Requests,       \* POST /api/auth/verify requests in progress
    Tokens,         \* sessions
    DevWallet,      \* the wallet of /api/auth/dev
    NoNonce, NoWallet, NoIp,
    ChallengeTtl,   \* challengeTtlMs, in clock ticks
    SessionTtl,     \* sessionTtlMs
    Minute,         \* the window of the challenge limits, and the grace of expired rows
    MaxPerIp,       \* challenges of one network in a window
    MaxGlobal,      \* challenges of all networks in a window
    MaxTime         \* bound: the last clock value a behaviour reaches

ASSUME SignInAssumption ==
    /\ IsFiniteSet(Nonces)
    /\ DevWallet \in Wallets
    /\ NoNonce \notin Nonces
    /\ NoWallet \notin Wallets
    /\ NoIp \notin Ips
    /\ ChallengeTtl \in Nat /\ SessionTtl \in Nat
    /\ Minute \in Nat /\ Minute <= ChallengeTtl
    /\ MaxPerIp \in Nat /\ MaxGlobal \in Nat
    /\ MaxTime \in Nat

VARIABLES
    now,
    challenge,  \* a row of auth_challenges: "unused", "fresh", "consumed" or "deleted"
    issuedTo,   \* its ip_hash
    issuedAt,   \* its issued_at; it expires ChallengeTtl later
    signed,     \* the messages that were signed: pairs of a wallet and a nonce
    request,    \* a verify request: "idle" or "verifying" (awaiting verifyMessage)
    claim,      \* its nonce, address and network
    session,    \* a row of sessions: "unused", "live" or "deleted"
    holder,     \* its wallet and ip_hash
    origin,     \* the challenge it was made for (not in the database)
    expiresAt   \* its expires_at

challengeVars == <<challenge, issuedTo, issuedAt>>
requestVars   == <<request, claim>>
sessionVars   == <<session, holder, origin, expiresAt>>
vars == <<now, challengeVars, signed, requestVars, sessionVars>>

Claims   == [nonce : Nonces, wallet : Wallets, ip : Ips]
NoClaim  == [nonce |-> NoNonce, wallet |-> NoWallet, ip |-> NoIp]
Holders  == [wallet : Wallets, ip : Ips]
NoHolder == [wallet |-> NoWallet, ip |-> NoIp]

\* Every variable has its type.
TypeOK ==
    /\ now \in 0..MaxTime
    /\ challenge \in [Nonces -> {"unused", "fresh", "consumed", "deleted"}]
    /\ issuedTo \in [Nonces -> Ips \cup {NoIp}]
    /\ issuedAt \in [Nonces -> Nat]
    /\ signed \in SUBSET (Wallets \X Nonces)
    /\ request \in [Requests -> {"idle", "verifying"}]
    /\ claim \in [Requests -> Claims \cup {NoClaim}]
    /\ session \in [Tokens -> {"unused", "live", "deleted"}]
    /\ holder \in [Tokens -> Holders \cup {NoHolder}]
    /\ origin \in [Tokens -> Nonces \cup {NoNonce}]
    /\ expiresAt \in [Tokens -> Nat]

Init ==
    /\ now = 0
    /\ challenge = [n \in Nonces |-> "unused"]
    /\ issuedTo = [n \in Nonces |-> NoIp]
    /\ issuedAt = [n \in Nonces |-> 0]
    /\ signed = {}
    /\ request = [r \in Requests |-> "idle"]
    /\ claim = [r \in Requests |-> NoClaim]
    /\ session = [t \in Tokens |-> "unused"]
    /\ holder = [t \in Tokens |-> NoHolder]
    /\ origin = [t \in Tokens |-> NoNonce]
    /\ expiresAt = [t \in Tokens |-> 0]

-------------------------------------------------------------------------------
(* Challenges *)

InTable(n) == challenge[n] \in {"fresh", "consumed"}

\* The rows a window of the limits counts.
Recent(n) == InTable(n) /\ issuedAt[n] > now - Minute

\* GET /api/auth/challenge: 429 for a network, 503 for all.
MayIssue(p) ==
    /\ Cardinality({n \in Nonces : Recent(n) /\ issuedTo[n] = p}) < MaxPerIp
    /\ Cardinality({n \in Nonces : Recent(n)}) < MaxGlobal

\* issueChallenge deletes the rows that expired a minute ago and every
\* consumed one, then inserts the new one.
IssueChallenge(n, p) ==
    /\ MayIssue(p)
    /\ challenge[n] = "unused"
    /\ challenge' = [m \in Nonces |->
            IF m = n THEN "fresh"
            ELSE IF challenge[m] = "consumed"
                    \/ (challenge[m] = "fresh" /\ issuedAt[m] + ChallengeTtl < now - Minute)
                 THEN "deleted"
                 ELSE challenge[m]]
    /\ issuedTo' = [issuedTo EXCEPT ![n] = p]
    /\ issuedAt' = [issuedAt EXCEPT ![n] = now]
    /\ UNCHANGED <<now, signed, requestVars, sessionVars>>

\* The wallet's owner signs the message of a challenge.
WalletSigns(w, n) ==
    /\ challenge[n] # "unused"
    /\ signed' = signed \cup {<<w, n>>}
    /\ UNCHANGED <<now, challengeVars, requestVars, sessionVars>>

-------------------------------------------------------------------------------
(* POST /api/auth/verify *)

\* Mutant: the challenge is not bound to the network.
UsableAnywhere(n, p) ==
    /\ challenge[n] = "fresh"
    /\ issuedAt[n] + ChallengeTtl >= now

\* The checks before the await.
Usable(n, p) ==
    /\ challenge[n] = "fresh"
    /\ issuedAt[n] + ChallengeTtl >= now
    /\ issuedTo[n] = p

VerifyBegin(r, n, w, p) ==
    /\ request[r] = "idle"
    /\ Usable(n, p)
    /\ request' = [request EXCEPT ![r] = "verifying"]
    /\ claim' = [claim EXCEPT ![r] = [nonce |-> n, wallet |-> w, ip |-> p]]
    /\ UNCHANGED <<now, challengeVars, signed, sessionVars>>

\* verifyMessage says no, which a request may always deserve, or another
\* request or a deletion was first.
VerifyFails(r) ==
    /\ request[r] = "verifying"
    /\ request' = [request EXCEPT ![r] = "idle"]
    /\ claim' = [claim EXCEPT ![r] = NoClaim]
    /\ UNCHANGED <<now, challengeVars, signed, sessionVars>>

\* createSession: a new row for the wallet and the network.
CreateSession(t, h, n) ==
    /\ session[t] = "unused"
    /\ session' = [session EXCEPT ![t] = "live"]
    /\ holder' = [holder EXCEPT ![t] = h]
    /\ origin' = [origin EXCEPT ![t] = n]
    /\ expiresAt' = [expiresAt EXCEPT ![t] = now + SessionTtl]

\* Mutant: the UPDATE does not ask for consumed_at IS NULL.
ConsumeAgain(n) ==
    /\ InTable(n)
    /\ challenge' = [challenge EXCEPT ![n] = "consumed"]
    /\ UNCHANGED <<issuedTo, issuedAt>>

\* UPDATE ... WHERE nonce = ? AND consumed_at IS NULL changes one row; the
\* expiry is not looked at again.
Consume(n) ==
    /\ challenge[n] = "fresh"
    /\ challenge' = [challenge EXCEPT ![n] = "consumed"]
    /\ UNCHANGED <<issuedTo, issuedAt>>

VerifyEnd(r, t) ==
    /\ request[r] = "verifying"
    /\ <<claim[r].wallet, claim[r].nonce>> \in signed
    /\ Consume(claim[r].nonce)
    /\ CreateSession(t, [wallet |-> claim[r].wallet, ip |-> claim[r].ip], claim[r].nonce)
    /\ request' = [request EXCEPT ![r] = "idle"]
    /\ claim' = [claim EXCEPT ![r] = NoClaim]
    /\ UNCHANGED <<now, signed>>

-------------------------------------------------------------------------------
(* Sessions *)

\* POST /api/auth/dev, where devAuth is on.
DevLogin(t, p) ==
    /\ CreateSession(t, [wallet |-> DevWallet, ip |-> p], NoNonce)
    /\ UNCHANGED <<now, challengeVars, signed, requestVars>>

\* readSession finds a row that has not expired; logout deletes it.
Logout(t) ==
    /\ session[t] = "live"
    /\ expiresAt[t] > now
    /\ session' = [session EXCEPT ![t] = "deleted"]
    /\ UNCHANGED <<now, challengeVars, signed, requestVars, holder, origin, expiresAt>>

\* Deletion of what has expired, at every start and every hour.
Expire ==
    /\ challenge' = [n \in Nonces |->
            IF InTable(n) /\ issuedAt[n] + ChallengeTtl < now THEN "deleted" ELSE challenge[n]]
    /\ session' = [t \in Tokens |->
            IF session[t] = "live" /\ expiresAt[t] < now THEN "deleted" ELSE session[t]]
    /\ UNCHANGED <<now, issuedTo, issuedAt, signed, holder, origin, expiresAt>>

Maintenance == Expire /\ UNCHANGED requestVars

\* The control plane restarts: the requests in progress are gone, the rows
\* are not.
Restart ==
    /\ Expire
    /\ request' = [r \in Requests |-> "idle"]
    /\ claim' = [r \in Requests |-> NoClaim]

Tick ==
    /\ now < MaxTime
    /\ now' = now + 1
    /\ UNCHANGED <<challengeVars, signed, requestVars, sessionVars>>

Next ==
    \/ \E n \in Nonces, p \in Ips : IssueChallenge(n, p)
    \/ \E w \in Wallets, n \in Nonces : WalletSigns(w, n)
    \/ \E r \in Requests, n \in Nonces, w \in Wallets, p \in Ips : VerifyBegin(r, n, w, p)
    \/ \E r \in Requests : VerifyFails(r)
    \/ \E r \in Requests, t \in Tokens : VerifyEnd(r, t)
    \/ \E t \in Tokens, p \in Ips : DevLogin(t, p)
    \/ \E t \in Tokens : Logout(t)
    \/ Maintenance
    \/ Restart
    \/ Tick

Spec == Init /\ [][Next]_vars

-------------------------------------------------------------------------------
(* Properties *)

\* docs/threat-model.md, "single-use nonce": one signature makes one session
\* for ever, also when two requests check it at the same time, or its row is
\* deleted between the check and the use.
SingleUse ==
    \A s, t \in Tokens : s # t /\ origin[s] # NoNonce => origin[s] # origin[t]

\* A session belongs to a wallet that signed the challenge, and to the
\* network the challenge was issued to; only /api/auth/dev makes another.
SessionsProven ==
    \A t \in Tokens : session[t] # "unused" =>
        IF origin[t] = NoNonce
        THEN holder[t].wallet = DevWallet
        ELSE /\ <<holder[t].wallet, origin[t]>> \in signed
             /\ holder[t].ip = issuedTo[origin[t]]

===============================================================================

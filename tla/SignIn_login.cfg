SPECIFICATION Spec
CONSTANTS
    Nonces = {n1, n2}
    Wallets = {w1, dev}
    DevWallet = dev
    Ips = {p1, p2}
    Requests = {r1, r2}
    Tokens = {t1, t2}
    NoNonce = NoNonce
    NoWallet = NoWallet
    NoIp = NoIp
    ChallengeTtl = 1
    SessionTtl = 1
    Minute = 1
    MaxPerIp = 1
    MaxGlobal = 2
    MaxTime = 3
INVARIANTS SingleUse SessionsProven
SYMMETRY Symmetry
CHECK_DEADLOCK FALSE

SPECIFICATION FairSpec
CONSTANTS
    p1 = p1
    p2 = p2
    k1 = k1
    k2 = k2
    k3 = k3
    Procs = {p1, p2}
    Keys = {k1, k2, k3}
    Workloads <- MCWorkloads
INVARIANTS
    TypeOK
    NoReplay
    StateAsAgreed
    SignedIsExecutable
PROPERTY UnrollCompletes
CHECK_DEADLOCK FALSE

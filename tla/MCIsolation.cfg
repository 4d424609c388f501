SPECIFICATION FairSpec
CONSTANTS
    MaxProcesses = 3
    Quantum = 2
    DemoSteps = 1
    EipCount = 1
    App <- IsolationApps
    Present <- IsolationApps
    Unmapped = {"empty"}
    Dynamic = {"dyn"}
    ProofApps = {"bad_read", "bad_write"}
    V39App = "hello"
    ExitCodes = {0}
    Exceptions = {}
INVARIANTS
    IsolationProved
PROPERTIES
    DispatchReturns
    StarvationFree

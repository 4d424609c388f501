SPECIFICATION Spec
CONSTANTS
    MaxProcesses = 3
    Quantum = 2
    DemoSteps = 2
    EipCount = 2
    App = {"good", "missing"}
    Present = {"good"}
    Unmapped = {}
    Dynamic = {}
    ProofApps = {"good"}
    V39App = "good"
    ExitCodes <- ExitValues
    Exceptions = {"gpf"}
INVARIANTS
    ReadyIffQueued
    NoProcessStranded
    AddressSpaceMatches
    AttributedToOwner

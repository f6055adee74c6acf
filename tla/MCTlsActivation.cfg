SPECIFICATION TlsSpec
CONSTANTS
    Updaters = {web, shell}
    Versions = {1, 2, 3}
    Broken = {2}
    Installed = 1
    CandidateHomes = {"any", "candidate"}
    Faults = {"command", "kill", "slow", "tls"}
    MaxRuns = 2
    None = None
    Activations = {a1, a2}
INVARIANTS
    OneUpdater
    RunsActive
    PairIsServed
PROPERTIES
    SuccessIsReal
    RollbackRestores
CHECK_DEADLOCK FALSE
SYMMETRY Symmetry

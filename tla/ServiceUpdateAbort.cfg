SPECIFICATION Spec
CONSTANTS
    Updaters = {web, shell}
    Versions = {1, 2, 3}
    Broken = {}
    Installed = 1
    CandidateHomes = {"any"}
    Faults = {"command"}
    MaxRuns = 3
    None = None
PROPERTIES
    FailureRestoresService
CHECK_DEADLOCK FALSE

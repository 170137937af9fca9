SPECIFICATION PartSpec
CONSTANTS
    Endpoints = {e1, e2, e3, e4, e5, e6}
    None = None
    Presets = {None, e1}
    TokenUses = 3
    MintUses = 2
    MaxFaults = 2
    MaxCrashes = 2
    Tasks = {t1}
    MaxTasks = 1
    MaxTaskCrashes = 1
    Identities = {"e1", "e2", "e3"}
    MaxConnFaults = 3
    MaxRotations = 2
INVARIANTS PartTypeOK ExtraEnrollmentsExplained
PROPERTIES  TaskCompletes 

CONSTANTS
    Tasks = {t1, t2}
    MaxTasks = 2
    MaxTaskCrashes = 1
SPECIFICATION TasksSpec
SYMMETRY Symmetry
CHECK_DEADLOCK FALSE
INVARIANT ResultFromExecution
INVARIANT LateRunsBounded

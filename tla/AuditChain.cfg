SPECIFICATION Spec
CONSTANTS
    N = 3
    PageSize = 2
    MaxAlters = 1
INVARIANTS AlteredNeverVerifies NoFalseAlarm
PROPERTIES QuietSealCloses RefusedRowFails
CHECK_DEADLOCK FALSE

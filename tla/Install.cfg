SPECIFICATION Spec
CONSTANTS
    MaxCommands = 3
    MaxFaults = 1
    FindTries = 2
    PredeleteFlags <- ChartFlags
INVARIANTS TypeOK Registered Uninstalled
PROPERTY HooksEnd
CHECK_DEADLOCK FALSE

SPECIFICATION Spec
CONSTANTS
    CmdCapacity = 16
    ControlCapacity = 8
    ReportCapacity = 8
    Instances <- EarlyBegin
PROPERTY CommandsAnswered
CHECK_DEADLOCK FALSE

SPECIFICATION Spec
CONSTANTS
    CmdCapacity = 16
    ControlCapacity = 8
    ReportCapacity = 8
    Instances <- SessionInstances
INVARIANT SessionConsistent
PROPERTIES SwapIsQuiet SealedAdmitsNothing ProbeSparesCommands SessionProgresses

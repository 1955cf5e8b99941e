\* All programs of three modules, one JSON file and at most two imports a module.
CONSTANTS
    Programs <- MCPrograms
    Main = "a"
    Native = "native-js"
    ResolveSuffixes <- MCSuffixes
    StackLimit = 4
SPECIFICATION Spec
CHECK_DEADLOCK FALSE
INVARIANTS
    TypeOK
    RunsIfTree
    RunsInOrder
PROPERTIES
    GoodProgramsLoad

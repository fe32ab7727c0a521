CONSTANTS
    Types <- MCTypes
    Builtins <- MCBuiltins
    Aliases <- MCAliases
    Programs <- MCPrograms
SPECIFICATION Spec
INVARIANTS WellScoped CallsAgree JumpsHaveTarget NothingDropped OrderFree
CHECK_DEADLOCK FALSE

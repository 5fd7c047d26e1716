\* A listener that exits, and what becomes of the process.
SPECIFICATION LiveSpec
CONSTANTS
    NumSpace = 268435456
    BaseSize = 16
    HasMbed = TRUE
    Env <- Envs
    Foreign <- Foreigns
PROPERTY
    AnyExitFatal

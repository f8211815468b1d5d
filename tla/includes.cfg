SPECIFICATION Spec
CONSTANTS
    FileSystems <- AllFiles
    Root <- R
    IncludePaths <- Paths
    SystemDir <- System
    deps_exclude_system = TRUE
    MAX_INCLUDE_DEPTH = 2
    MAX_DEPENDENCIES = 2
    MAX_FILEPATH_LENGTH = 4
INVARIANTS
    TypeOK
    ExpandsExactly
    TrackerReleased
    DependenciesListed

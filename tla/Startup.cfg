SPECIFICATION Spec
CONSTANTS
    Zips = {"py.zip", "app.zip"}
    DefaultPython <- MCDefaultPython
    SystemRequirements <- MCSystem
    Machines <- MCMachines
    Inputs <- MCInputs
    Unparsable = {"://", "never"}
    NonPositive = {"0s"}
    MaxRules = 68
    Lists <- MCLists
    CodeReads = {"fstat", "lseek", "read"}
INVARIANTS
    DiscoveryDecides
    LibPathsUsable
    DownIffFatal
    CodeIsConfined
    StopsForCause
PROPERTIES
    RequestSettles
CHECK_DEADLOCK FALSE

CONSTANTS
    Cores = {cpu1}
    Entries = {e1, e2}
    None = none
    MaxBoots = 2
SPECIFICATION Spec
PROPERTY FlagReleasesCore
CHECK_DEADLOCK FALSE

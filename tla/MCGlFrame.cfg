CONSTANTS
    Textures = {a, b}
    Layers = {a}
    NoTexture = none
    UNITS = 2
    VERSIONS = 2
    QMAX = 2
SPECIFICATION Spec
INVARIANTS FreshAtSwap DrawBinding GpuKept

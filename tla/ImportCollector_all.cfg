\* Every import graph of three names, deep and shallow.
SPECIFICATION Spec
CONSTANTS
    Names <- MCNames
    Dirs <- MCDirs
    LibPaths <- MCLibPaths
    Disks <- MCDisks
    Roots <- MCRoots
    MaxDepth = 6
INVARIANTS TypeOK CollectsImports ReturnedIsReadable
PROPERTY ReturnsWithoutCycle
CHECK_DEADLOCK FALSE

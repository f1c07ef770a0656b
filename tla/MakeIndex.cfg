SPECIFICATION Spec
CONSTANTS
    Corrupt = Corrupt
    Dir <- AllDirs
    Describes <- AllDescribes
INVARIANTS NoOverrun RightEnd RightIndex
PROPERTY Terminates

SPECIFICATION Spec
CONSTANTS
    Missing = Missing
    Short = Short
    Blank = Blank
    Pairs = {k1, k2, k3}
SYMMETRY AnyPair
CHECK_DEADLOCK FALSE
INVARIANTS
    TypeOK
    NoMixture
PROPERTIES
    KeysKept

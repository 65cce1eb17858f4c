\* Three imports, the range 3..7 (the full scan visits 1..3), ports 8 and 9 above it.
CONSTANTS
    Names = {n1, n2, n3}
    NoName = NoName
    startPort = 3
    endPort = 8
    MaxPort = 9
SPECIFICATION Spec
INVARIANTS LeasesInverse
PROPERTIES ImplementsPortLeases

CONSTANTS
    Item = {i1, i2, i3, i4}
    Type = {"String", "Array", "Object"}
    Key = {"a", "A"}
    Literal = {"a"}
    Lower <- TheLower
    MaxRoom = 5
    MaxHeld = 2
    MaxMixed = 3
SPECIFICATION Spec
SYMMETRY Addresses
INVARIANT NothingIsLost
PROPERTY ImplementsTree

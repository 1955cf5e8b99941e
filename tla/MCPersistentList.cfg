\* Four nodes give every order of freeing and reusing three of them
\* while the fourth stays live.
CONSTANTS
    o1 = o1
    o2 = o2
    Objects = {o1, o2}
    NoObject = NoObject
    MaxNodes = 4
SPECIFICATION ListSpec
INVARIANTS
    ListSound
PROPERTIES
    ImplementsPool

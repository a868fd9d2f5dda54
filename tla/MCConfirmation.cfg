SPECIFICATION Spec
CONSTANTS
    o1 = o1  o2 = o2  h1 = h1  h2 = h2
    NoOrder = NoOrder
    Orders = {o1, o2}
    Handlers = {h1}
    MaxStores = 2
    MaxVotes = 3
    MaxLostWrites = 1
SYMMETRY Symmetry
INVARIANTS
    TypeOK
    DecisionsAreVoted
    AnsweredOnce

SPECIFICATION Spec
CONSTANTS
  Requests = {s1, s2}
  Valids <- SomeMasks
SYMMETRY Symmetry
INVARIANTS TypeOK AskedShows OnlyAsked InOrder
PROPERTIES TimeComesBack

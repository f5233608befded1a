SPECIFICATION Spec
CONSTANTS
  WORD_SIZE = 2
  N_WORDS = 3
  MaxCounter = 9
  Receivers = {r1, r2}
SYMMETRY Symmetry
INVARIANTS
  WindowExact
  AtMostOnce
PROPERTY
  ImplementsAntiReplay

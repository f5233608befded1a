CONSTANTS
  Workers = {w1, w2}
  Resetters = {r1}
  Peers = {p1}
  Addrs = {a1, a2}
  NoAddr = NoAddr
  Limit = 1
  RESET_PERIOD = 2
  COOKIE_REFRESH = 4
  REKEY_TIMEOUT = 1
  COOKIE_EXPIRATION_TIME = 4
  MaxTime = 5
  MaxInits = 3
  MaxOthers = 1
  MaxMoves = 1
SPECIFICATION Spec
INVARIANTS RateIsBounded CookieIsRecent NeverRefusedThrice
CHECK_DEADLOCK FALSE
SYMMETRY Symmetry

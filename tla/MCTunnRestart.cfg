SPECIFICATION Spec
CONSTANTS
  N_SESSIONS = 2
  MAX_QUEUE_DEPTH = 1
  INDEX_MOD = 4
  REKEY_AFTER_TIME = 2
  REJECT_AFTER_TIME = 5
  REKEY_ATTEMPT_TIME = 3
  REKEY_TIMEOUT = 1
  KEEPALIVE_TIMEOUT = 2
  COOKIE_EXPIRATION_TIME = 2
  PERSISTENT_KEEPALIVE = 0
  Peers = {a, b}
  Horizon = 1
  MaxEphs = 4
  Handlers = 1
  MaxPackets = 1
  MaxRestarts = 1
INVARIANTS
  NonceUnique
  DeliveredOnce
  KeyAgreement
SYMMETRY Symmetry
CHECK_DEADLOCK FALSE

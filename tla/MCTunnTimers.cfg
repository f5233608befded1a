SPECIFICATION Spec
CONSTANTS
  N_SESSIONS = 2
  MAX_QUEUE_DEPTH = 1
  INDEX_MOD = 4
  REKEY_AFTER_TIME = 2
  REJECT_AFTER_TIME = 5
  REKEY_ATTEMPT_TIME = 3
  REKEY_TIMEOUT = 1
  KEEPALIVE_TIMEOUT = 2
  COOKIE_EXPIRATION_TIME = 2
  PERSISTENT_KEEPALIVE = 3
  Horizon = 7
  MaxEvents = 4
INVARIANTS
  NeverSilent
  NoStaleSession
  ExpiredIsEmpty
  AttemptIsBounded
PROPERTIES
  SilenceIsNoticed
  DataIsAcknowledged
CHECK_DEADLOCK FALSE

CONSTANTS
  ServerMessages = {m1, m2}
  MaxMessages = 1
SPECIFICATION ChatSpec
INVARIANT TimestampIsMillis

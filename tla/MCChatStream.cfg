CONSTANTS
  ServerMessages = {m1, m2}
  MaxMessages = 3
SPECIFICATION ChatSpec
INVARIANTS ChatTypeOK LogFollowsStream
PROPERTIES StreamIsLogged

CONSTANTS
  Addresses <- MCAddresses
  Options = {insecure}
  Calls = {c1, c2, c3}
  NoPort = NoPort
  NoDate = NoDate
SPECIFICATION PoolSpec
INVARIANTS PoolTypeOK CallsKeepTheirChannel
PROPERTIES IdleChannelIsDestroyed

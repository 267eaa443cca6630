SPECIFICATION NetworkSpec
CONSTANTS
  Hosts = {"a", "b", "c"}
  Dials <- MCDials
  AlertTable <- MCAlerts
  MaxNow = 1
  MaxBreaks = 1
  Sites = {"a", "b", "c"}
  Routes <- MCDials
  Day = 1
  LastHour = 2
  Ends = {"a", "b"}
  Outbound = "a"
  MsgScript <- MCMsgScript
  UiScript <- MCUiScript
  MaxAborts = 1
  MaxGarbled = 1
  SendBufferSize = 12
  ReceiveBufferSize = 10
  MAX_SIZE = 9
  Seeders = {"s1", "s2"}
  HomeAddresses = {"h1", "h2"}
  HomeSettings <- MCSettings
  IrcChannels = {0}
  MaxSessions = 3
  MaxIrcBreaks = 1
  MaxPings = 1
CHECK_DEADLOCK FALSE
INVARIANTS
  NetworkIsSound
  Recovers

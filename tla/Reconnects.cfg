SPECIFICATION FairPageSpec
CONSTANTS
  Servers = {s1, s2}
  Impatient = {s2}
  Clients = {1, 2}
  Flaky = {1}
  Page = {1, 2}
  AddCap = 1
  DelCap = 1
  BcCap = 1
  SendCap = 1
  MaxIngested = 2
INVARIANTS
  TypeOK
  NoSendOnClosed
  ServedWhileRead
  NewestLast
PROPERTIES
  FeedSpec
  PageServed
  JoinsServed
  LeaversRemoved
  ConnectionsEnd
CHECK_DEADLOCK FALSE

SPECIFICATION Spec
CONSTANTS
  Server = "server"
  Client = {"c1", "c2"}
  Message <- Messages
  PayloadSize = 2
  BufferSize = 4
  Junk = 9
  MaxFailures = 1
INVARIANTS
  TypeOK
  SendsReverse
  PrintsAnswer
  AtMostOneMore
PROPERTIES
  SignalEndsServer

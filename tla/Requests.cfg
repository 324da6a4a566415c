SPECIFICATION RequestsSpec
CONSTANTS
  File = {f1, f2, f3}
  Foreign = f3
  Kind <- MCKind
  Closed = Closed
  Ports = {1, 2}
  Wildcard = Wildcard
  Ip = Ip
INVARIANTS
  FilterExact
  OwnFile
  NoStrayDescriptor
  ExecSupervised
  ReservationRestores
PROPERTIES
  StartsUp
CHECK_DEADLOCK FALSE

CONSTANTS
  Modes = {"plan", "event", "queue", "socket", "http"}
  Kinds = {"data"}
  NFilter = 1
  NAction = 1
  NHandler = 1
  NCustom = 1
  MaxReader = 2
  MaxDivert = 1
SPECIFICATION Spec
INVARIANTS TypeOK RespondedOnce Responded ActionChecked  ReadersClosed
 

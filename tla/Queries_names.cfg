\* At most six bytes are kept of a name that is sent, four units are told of one.
SPECIFICATION Spec
CONSTANTS
  MaxBytes = 6
  MaxUnits = 4
  NameMax = 5
  Max32 = 0
  NoName = NoName
  None = None
  Confs <- Cases
  MaxEntries = 2
VIEW ButReply
INVARIANTS TypeOK SizeHolds NameAsSent ResentSame AnswersAgree
CHECK_DEADLOCK FALSE

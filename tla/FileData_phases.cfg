SPECIFICATION Spec
CONSTANTS
  HeaderSize = 1
  TxBuffer = 4
  RxBuffer = 2
  CacheSize = 4
  PacketSize = 2
  Word = 12
  MaxSize = 14
  Confs <- ReadOrWritten
INVARIANTS TypeOK SentIsFile EndSeenOnce OkIsComplete StoredIsGiven

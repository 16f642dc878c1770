\* A ring of two slots, four bytes typed: it wraps, fills and evicts.
CONSTANTS
  a = a
  b = b
  Byte <- MCByte
  Nul = a
  TX_ECHO_BUF_SIZE = 2
  MaxSent = 4
  MaxOwn = 2
  MaxChunk = 2
SPECIFICATION Spec
INVARIANT TypeOK RingCoherent EchoExactlyRemoved LossAccounted
PROPERTY RefinesQueue
CHECK_DEADLOCK FALSE

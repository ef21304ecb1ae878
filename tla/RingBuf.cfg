SPECIFICATION RingSpec
CONSTANTS
  U8 <- MCByte
  RingSize <- MCSize
INVARIANT PointersAgree
PROPERTIES FifoSpec

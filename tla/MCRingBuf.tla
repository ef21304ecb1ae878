------------------------------ MODULE MCRingBuf ------------------------------
EXTENDS RingBuf

MCByte == {0, 1}
MCSize == 4
=============================================================================

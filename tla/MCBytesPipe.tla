---------------------------- MODULE MCBytesPipe ----------------------------
EXTENDS BytesPipe
CONSTANTS r1, w1, w2, c1
=============================================================================

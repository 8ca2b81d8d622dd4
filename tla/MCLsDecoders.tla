---------------------------- MODULE MCLsDecoders ----------------------------
EXTENDS LsDecoders

\* Angles in parts of a packet: 8 units are a packet at 10 Hz, 16 at 20 Hz.  The
\* window of C16_v3 (5 degrees) holds a packet of 4.8 degrees at 10 Hz, those of
\* the others (5, 10 and 20 degrees) one of 4.8, 9.6 and 19.2 degrees at 20 Hz.
LsWidths == [narrow |-> 9, wide |-> 17]
=============================================================================

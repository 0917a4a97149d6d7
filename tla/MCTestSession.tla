--------------------------- MODULE MCTestSession ---------------------------
(* Tests of one and of three packets, enough for a lost packet at either    *)
(* end and in between, and the unlimited test, cut off after MaxPackets.   *)
EXTENDS TestSession

MCNumPackets == {0, 1, 3}
MCLimited == {1}
=============================================================================

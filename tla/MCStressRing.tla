---------------------------- MODULE MCStressRing ----------------------------
(* Three workers, one slot per channel, and one message less than there    *)
(* are places: the fullest ring that still moves.                          *)
EXTENDS StressRing
=============================================================================

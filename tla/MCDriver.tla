------------------------------ MODULE MCDriver ------------------------------
(* The two halves of the trace driver's judgement, each for itself: "half" *)
(* says which the behaviour is about.  For the ranges, four payload        *)
(* addresses in a heap of eight: payloads that fit, touch and overlap on   *)
(* either side, in every order of addresses.  For the bytes, two payloads  *)
(* of one, three or five bytes with two written at either end: all of the  *)
(* payload is written, the two ends meet, or there is a gap between them.  *)
EXTENDS RangeSet, Driver

VARIABLE half

MCKey == {1, 3, 5, 7}
MCIndex == 1..2
MCRequest == {1, 3, 5}

RangeTurn == half = "ranges" /\ Next /\ UNCHANGED <<half, driverVars>>
ByteTurn == half = "bytes" /\ DriverNext /\ UNCHANGED <<half, vars>>
Turn == RangeTurn \/ ByteTurn

Inits ==
  /\ half \in {"ranges", "bytes"}
  /\ Init /\ DriverInit
  /\ half = "ranges" => mode = "util"

HalvesSpec == Inits /\ [][Turn]_<<half, vars, driverVars>>
=============================================================================

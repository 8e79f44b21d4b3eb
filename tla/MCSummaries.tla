---------------------------- MODULE MCSummaries ----------------------------
(***************************************************************************)
(* Instances of Summaries for TLC: an hour of two windows, one of which    *)
(* was finalized more than once with different detections.                 *)
(***************************************************************************)
EXTENDS Summaries

CONSTANTS first, again, once_more, second, w00, w15

TwoWindows == [b \in Buckets |-> IF b = second THEN w15 ELSE w00]

=============================================================================

------------------------------ MODULE MCSignals ------------------------------
(***************************************************************************)
(* An instance of Signals for TLC: the windows of one day that are still   *)
(* on their way when a replay has filled the table.                        *)
(***************************************************************************)
EXTENDS Signals

CONSTANTS alarm, novelty

Day == 6 * 1440
Yesterday == 5 * 1440

Fragment(type, detections, anomalous, peak) ==
  [type |-> type, detections |-> detections, anomalous |-> anomalous, peak |-> peak]
Delivery(h, q, frags) == [start |-> Hour(Day, h) + 15 * q, frags |-> frags]

\* Someone at 05:00, 07:00 in two versions, a slow late morning.
MCDeliveries ==
  {Delivery(5, 0, {Fragment("person", 4, TRUE, Hour(Day, 5) + 3)}),
   Delivery(7, 0, {Fragment("person", 30, FALSE, NoPeak)}),
   Delivery(7, 0, {Fragment("person", 30, FALSE, NoPeak), Fragment("vehicle", 3, TRUE, NoPeak)}),
   Delivery(10, 1, {Fragment("person", 20, FALSE, NoPeak)})}

MCMaxInputs == [s \in Scenarios |->
  CASE s = "late_start_by_3h" -> 3 [] s = "steady" -> 2 [] OTHER -> 1]

MCTrigger == [i \in Images |-> IF i = alarm THEN "alert" ELSE "novelty"]

=============================================================================

----------------------------- MODULE MCFramePull -----------------------------
(* A small instance of the Search API for TLC: frames pulled by threads. *)
EXTENDS FramePull, TLC

MCSource == << >>

MCMax == [l \in Limiters |-> 2]

=============================================================================

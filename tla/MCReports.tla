----------------------------- MODULE MCReports -----------------------------
(***************************************************************************)
(* Instances of Reports for TLC: one report, with processes that are alike.*)
(***************************************************************************)
EXTENDS Reports, TLC

NoDownstream == [j \in Jobs |-> {}]

Alike == Permutations(Workers) \cup Permutations(Reclaimers) \cup Permutations(Clients)

\* What is promised of a report ends with a race, and raced stays: the states
\* behind it are left to the theorem ResetsAreFenced.  Requests that read the
\* status before the last message may write after it: what they send is beyond
\* the bound.
Explored == ~raced /\ sent[report] <= MaxRequests

=============================================================================

---------------------------- MODULE JobLifecycle ----------------------------
(***************************************************************************)
(* What the queue promises of each job row, whatever happens to workers,   *)
(* messages and leases below: the lifecycle at the head of                 *)
(* src/shared/utils/leases.py, as the code writes it.                      *)
(*                                                                         *)
(*   absent --insert--> pending --claim--> leased --release--> succeeded   *)
(*                         ^                  |           +--> retry_wait  *)
(*                         |                  |           +--> failed_...  *)
(*                         +---- reclaim -----+------------ while attempts *)
(*                                            are left, else failed_...    *)
(***************************************************************************)
EXTENDS Naturals

CONSTANTS Jobs, MaxAttempts, Downstream

VARIABLES state, attempts

rowVars == <<state, attempts>>

LifecycleInit ==
  /\ state = [j \in Jobs |-> "absent"]
  /\ attempts = [j \in Jobs |-> 0]

Insert(j) ==
  /\ state[j] = "absent"
  /\ state' = [state EXCEPT ![j] = "pending"]
  /\ UNCHANGED attempts

Claim(j) ==
  /\ state[j] = "pending"
  /\ attempts[j] < MaxAttempts
  /\ state' = [state EXCEPT ![j] = "leased"]
  /\ attempts' = [attempts EXCEPT ![j] = @ + 1]

\* The results of j and the rows it brings along appear in one step.
Succeed(j) ==
  /\ state[j] = "leased"
  /\ state' = [c \in Jobs |->
       IF c = j THEN "succeeded"
       ELSE IF c \in Downstream[j] /\ state[c] = "absent" THEN "pending"
       ELSE state[c]]
  /\ UNCHANGED attempts

Fail(j) ==
  /\ state[j] = "leased"
  /\ \E s \in {"retry_wait", "failed_terminal"} : state' = [state EXCEPT ![j] = s]
  /\ UNCHANGED attempts

Reclaim(j) ==
  /\ state[j] \in {"leased", "retry_wait"}
  /\ state' = [state EXCEPT ![j] =
       IF attempts[j] < MaxAttempts THEN "pending" ELSE "failed_terminal"]
  /\ UNCHANGED attempts

Attempted(j) == Succeed(j) \/ Fail(j) \/ Reclaim(j)

LifecycleNext == \E j \in Jobs : Insert(j) \/ Claim(j) \/ Attempted(j)

LifecycleSpec == LifecycleInit /\ [][LifecycleNext]_rowVars

=============================================================================

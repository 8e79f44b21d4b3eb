------------------------------- MODULE Limiter -------------------------------
(***************************************************************************)
(* The sliding-window limiters of the two HTTP services:                   *)
(*   src/services/search_api/pull_frame.py   _rate_limit_check             *)
(*   src/services/panoptic_agent/app.py      _SlidingWindowLimiter         *)
(*                                                                         *)
(* One deque of timestamps per limiter and process, under a lock.  The     *)
(* clock is read before the lock is taken, so that a request may wait for  *)
(* the lock with a time that is long past: the deque need not be sorted.   *)
(***************************************************************************)
EXTENDS Naturals, Sequences, FiniteSets

CONSTANTS
  Limiters,  \* names of the limiters
  Max,       \* [Limiters -> Nat]: how many requests a window admits
  Window,    \* length of the window (60 s)
  EndOfTime  \* bound: the clock stops here

ASSUME LimiterAssumption ==
  /\ Max \in [Limiters -> Nat]
  /\ Window \in Nat
  /\ EndOfTime \in Nat

VARIABLES
  clock,   \* the clock of the host; never stepped back
  window,  \* [Limiters -> sequence of stamps]: the deque
  passed   \* history: [Limiters -> sequence of [stamp, at]] of this process

limiterVars == <<clock, window, passed>>

\* Earlier requests, all just now, may have filled some of the windows.
LimiterInit ==
  /\ clock = 0
  /\ \E full \in SUBSET Limiters :
       LET earlier(l) == 1 .. (IF l \in full THEN Max[l] ELSE 0)
       IN  /\ window = [l \in Limiters |-> [k \in earlier(l) |-> 0]]
           /\ passed = [l \in Limiters |-> [k \in earlier(l) |-> [stamp |-> 0, at |-> 0]]]

Tick ==
  /\ clock < EndOfTime
  /\ clock' = clock + 1
  /\ UNCHANGED <<window, passed>>

\* Mutant: an entry that is exactly one window old is dropped too.
KeptHalfOpen(w, stamp) ==
  LET n == CHOOSE k \in 0 .. Len(w) :
             /\ \A i \in 1 .. k : w[i] + Window <= stamp
             /\ k < Len(w) => w[k + 1] + Window > stamp
  IN  SubSeq(w, n + 1, Len(w))

\* popleft while the oldest is before the cutoff: an old stamp behind a
\* younger one stays.
Kept(w, stamp) ==
  LET n == CHOOSE k \in 0 .. Len(w) :
             /\ \A i \in 1 .. k : w[i] + Window < stamp
             /\ k < Len(w) => w[k + 1] + Window >= stamp
  IN  SubSeq(w, n + 1, Len(w))

\* The request with this stamp holds the lock and is let through.
Admit(l, stamp) ==
  LET kept == Kept(window[l], stamp)
  IN  /\ Len(kept) < Max[l]
      /\ window' = [window EXCEPT ![l] = Append(kept, stamp)]
      /\ passed' = [passed EXCEPT ![l] = Append(@, [stamp |-> stamp, at |-> clock])]
      /\ UNCHANGED clock

\* 429.
Refuse(l, stamp) ==
  LET kept == Kept(window[l], stamp)
  IN  /\ Len(kept) >= Max[l]
      /\ window' = [window EXCEPT ![l] = kept]
      /\ UNCHANGED <<clock, passed>>

\* The process of the limiter restarts: its memory is gone.
Forget(l) ==
  /\ window' = [window EXCEPT ![l] = << >>]
  /\ passed' = [passed EXCEPT ![l] = << >>]
  /\ UNCHANGED clock

-----------------------------------------------------------------------------
(***************************************************************************)
(* No window of Window time units sees more than Max requests come in and  *)
(* pass ("10 pulls/minute across the process", pull_frame.py:59-64), both  *)
(* ends of the window included.  Requests that read the clock before the   *)
(* window and got the lock within it come on top: that is all the code     *)
(* promises, since the clock is read outside the lock.                     *)
(***************************************************************************)
AdmittedPerWindow ==
  \A l \in Limiters : \A start \in 0 .. clock :
    Cardinality({k \in DOMAIN passed[l] : /\ passed[l][k].stamp >= start
                                         /\ passed[l][k].at <= start + Window}) <= Max[l]

=============================================================================

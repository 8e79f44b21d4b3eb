------------------------------ MODULE AtomicPull ------------------------------
(***************************************************************************)
(* What pulling a frame promises to its clients, as if a request took one  *)
(* step: it finds the frame or brings it, row, file and caption job at     *)
(* once, or fails and changes nothing, unless the database loses the word  *)
(* of a commit.  Of all requests for a frame one at most is told that it   *)
(* created it, and a frame once stored stays.                              *)
(*   src/services/search_api/pull_frame.py   run_pull_frame                *)
(***************************************************************************)
CONSTANTS Threads, Frames, NoFrame

VARIABLES
  request,  \* [Threads -> the frame asked for, or NoFrame]
  response, \* [Threads -> what the client is told, "none" before that]
  stored    \* frames with row, file and caption job

atomicVars == <<request, response, stored>>

Errors == {"403", "404", "429", "500", "502"}

AtomicInit ==
  /\ request = [t \in Threads |-> NoFrame]
  /\ response = [t \in Threads |-> "none"]
  /\ stored = {}

Ask(t, f) ==
  /\ request[t] = NoFrame
  /\ request' = [request EXCEPT ![t] = f]
  /\ UNCHANGED <<response, stored>>

Waits(t) == request[t] \in Frames /\ response[t] = "none"

Create(t) ==
  /\ Waits(t)
  /\ request[t] \notin stored
  /\ stored' = stored \cup {request[t]}
  /\ response' = [response EXCEPT ![t] = "created"]
  /\ UNCHANGED request

\* The frame is there, and the client is told 500.
CreateUnheard(t) ==
  /\ Waits(t)
  /\ request[t] \notin stored
  /\ stored' = stored \cup {request[t]}
  /\ response' = [response EXCEPT ![t] = "500"]
  /\ UNCHANGED request

Find(t) ==
  /\ Waits(t)
  /\ request[t] \in stored
  /\ response' = [response EXCEPT ![t] = "already_exists"]
  /\ UNCHANGED <<request, stored>>

Refuse(t) ==
  /\ Waits(t)
  /\ \E e \in Errors : response' = [response EXCEPT ![t] = e]
  /\ UNCHANGED <<request, stored>>

Take(t) ==
  /\ response[t] # "none"
  /\ request' = [request EXCEPT ![t] = NoFrame]
  /\ response' = [response EXCEPT ![t] = "none"]
  /\ UNCHANGED stored

\* The API restarts: requests are forgotten, frames are not.
ForgetAll ==
  /\ request' = [t \in Threads |-> NoFrame]
  /\ response' = [t \in Threads |-> "none"]
  /\ UNCHANGED stored

AtomicNext ==
  \/ \E t \in Threads : \E f \in Frames : Ask(t, f)
  \/ \E t \in Threads : Create(t) \/ CreateUnheard(t) \/ Find(t) \/ Refuse(t) \/ Take(t)
  \/ ForgetAll

AtomicSpec == AtomicInit /\ [][AtomicNext]_atomicVars

=============================================================================

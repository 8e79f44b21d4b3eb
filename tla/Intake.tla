------------------------------- MODULE Intake -------------------------------
(***************************************************************************)
(* How the fragments of one bucket window of one camera become a bucket.   *)
(* The trailer posts one fragment per object type; the webhook gathers     *)
(* them in a Redis hash and its finalizer ingests a hash that has been     *)
(* quiet for a while:                                                      *)
(*   src/services/trailer_webhook/app.py    receive_bucket, finalizer loop *)
(*   src/shared/clients/trailer_intake.py   store_fragment,                *)
(*       scan_and_finalize, _finalize_one, transform_to_bucket_record      *)
(*   src/shared/clients/cognia.py           ingest_bucket                  *)
(*                                                                         *)
(* The webhook is one process whose handlers and finalizer run on one      *)
(* event loop and never await between Redis commands: pc says which of     *)
(* them is under way, and only failures and expiries come in between.  One *)
(* action is one Redis command (or a few that fail alike) or the ingest    *)
(* transaction.  The job of an ingested bucket is a Submit of LeaseQueue.  *)
(***************************************************************************)
EXTENDS Naturals, FiniteSets

CONSTANTS
  Fragments,  \* the fragments of the window, one event_id and object type each
  NoFragment,
  Faults      \* which failures the environment may inject

(***************************************************************************)
(* "crash"   the webhook dies, or Redis or Postgres raises an exception,   *)
(*           between two commands of a handler or of the finalizer         *)
(* "lost"    the trailer does not hear the answer and posts again          *)
(* "late"    a fragment comes later than the done marker's TTL of an hour  *)
(* "outage"  ingest fails until the hash's TTL of an hour is over          *)
(***************************************************************************)
FaultKinds == {"crash", "lost", "late", "outage"}

ASSUME IntakeAssumption ==
  /\ NoFragment \notin Fragments
  /\ Faults \subseteq FaultKinds

VARIABLES
  trailer, \* what the trailer has heard about each fragment
  seen,    \* panoptic:webhook:seen:{event_id}
  hash,    \* the fields of the aggregation hash
  stamped, \* its field _updated_at
  quiet,   \* _updated_at is FINALIZE_QUIET_SECONDS old
  active,  \* the hash is in panoptic:agg:active
  done,    \* the done marker of the window
  buckets, \* rows of panoptic_buckets: bucket_id hashes the fragments
  pc, cur, \* the webhook: what it is doing, and the fragment in hand
  timedOut \* history: the keys of the window that outlived their TTL

redis   == <<seen, hash, stamped, quiet, active, done>>
webhook == <<pc, cur>>
vars    == <<trailer, redis, buckets, webhook, timedOut>>

Answer   == {"accepted", "duplicate", "late_fragment_discarded"}
Storing  == {"storing", "stamping", "tracking"}
Pc       == {"idle", "checking", "finalizing", "marking", "deleting", "untracking"} \cup Storing

TypeOK ==
  /\ trailer \in [Fragments -> Answer \cup {"posting"}]
  /\ seen \in SUBSET Fragments
  /\ hash \in SUBSET Fragments
  /\ stamped \in BOOLEAN
  /\ quiet \in BOOLEAN
  /\ active \in BOOLEAN
  /\ done \in BOOLEAN
  /\ buckets \in SUBSET ((SUBSET Fragments) \ {{}})
  /\ pc \in Pc
  /\ cur \in Fragments \cup {NoFragment}
  /\ timedOut \in SUBSET {"done", "hash"}
  /\ pc \in {"checking"} \cup Storing => cur \in Fragments

Init ==
  /\ trailer = [f \in Fragments |-> "posting"]
  /\ seen = {}
  /\ hash = {}
  /\ stamped = FALSE
  /\ quiet = FALSE
  /\ active = FALSE
  /\ done = FALSE
  /\ buckets = {}
  /\ pc = "idle"
  /\ cur = NoFragment
  /\ timedOut = {}

-----------------------------------------------------------------------------
(* receive_bucket *)

\* The answer, and whether the trailer hears it.
Respond(f, answer) ==
  /\ \/ trailer' = [trailer EXCEPT ![f] = answer]
     \/ "lost" \in Faults /\ UNCHANGED trailer
  /\ pc' = "idle"
  /\ cur' = NoFragment

\* Mutant: the handler goes on without its payload.
ReceiveNobody(f) ==
  /\ pc = "idle"
  /\ trailer[f] = "posting"
  /\ f \notin seen
  /\ seen' = seen \cup {f}
  /\ pc' = "checking"
  /\ UNCHANGED <<trailer, hash, stamped, quiet, active, done, buckets, cur, timedOut>>

\* SET panoptic:webhook:seen:{event_id} NX.
ReceiveNew(f) ==
  /\ pc = "idle"
  /\ trailer[f] = "posting"
  /\ f \notin seen
  /\ seen' = seen \cup {f}
  /\ pc' = "checking"
  /\ cur' = f
  /\ UNCHANGED <<trailer, hash, stamped, quiet, active, done, buckets, timedOut>>

ReceiveDuplicate(f) ==
  /\ pc = "idle"
  /\ trailer[f] = "posting"
  /\ f \in seen
  /\ Respond(f, "duplicate")
  /\ UNCHANGED <<redis, buckets, timedOut>>

\* EXISTS of the done marker, before any Redis state is created.
CheckDone ==
  /\ pc = "checking"
  /\ IF done THEN Respond(cur, "late_fragment_discarded")
             ELSE pc' = "storing" /\ UNCHANGED <<trailer, cur>>
  /\ UNCHANGED <<redis, buckets, timedOut>>

\* Mutant: the hash is replaced where its field should be set.
ReplaceHash ==
  /\ pc = "storing"
  /\ hash' = {cur}
  /\ pc' = "stamping"
  /\ UNCHANGED <<trailer, seen, stamped, quiet, active, done, buckets, cur, timedOut>>

\* HSET object_type.
StoreField ==
  /\ pc = "storing"
  /\ hash' = hash \cup {cur}
  /\ pc' = "stamping"
  /\ UNCHANGED <<trailer, seen, stamped, quiet, active, done, buckets, cur, timedOut>>

\* HSET _updated_at, EXPIRE.
StampUpdated ==
  /\ pc = "stamping"
  /\ stamped' = TRUE
  /\ quiet' = FALSE
  /\ pc' = "tracking"
  /\ UNCHANGED <<trailer, seen, hash, active, done, buckets, cur, timedOut>>

\* Mutant: SADD forgotten.
TrackNothing ==
  /\ pc = "tracking"
  /\ Respond(cur, "accepted")
  /\ UNCHANGED <<redis, buckets, timedOut>>

\* SADD panoptic:agg:active.
TrackActive ==
  /\ pc = "tracking"
  /\ active' = TRUE
  /\ Respond(cur, "accepted")
  /\ UNCHANGED <<seen, hash, stamped, quiet, done, buckets, timedOut>>

-----------------------------------------------------------------------------
(* scan_and_finalize, _finalize_one *)

\* A member of the active set whose hash is gone.
DropGone ==
  /\ pc = "idle"
  /\ active
  /\ ~stamped
  /\ active' = FALSE
  /\ UNCHANGED <<trailer, seen, hash, stamped, quiet, done, buckets, webhook, timedOut>>

StartFinalize ==
  /\ pc = "idle"
  /\ active
  /\ stamped
  /\ quiet
  /\ pc' = "finalizing"
  /\ UNCHANGED <<trailer, redis, buckets, cur, timedOut>>

\* HGETALL finds no field any more: DEL, SREM.
CleanUpEmpty ==
  /\ pc = "finalizing"
  /\ hash = {}
  /\ stamped' = FALSE
  /\ quiet' = FALSE
  /\ active' = FALSE
  /\ pc' = "idle"
  /\ UNCHANGED <<trailer, seen, hash, done, buckets, cur, timedOut>>

\* HGETALL, transform, and the ingest transaction: ON CONFLICT (bucket_id)
\* leaves a bucket of the same fragments alone.
IngestWindow ==
  /\ pc = "finalizing"
  /\ hash # {}
  /\ buckets' = buckets \cup {hash}
  /\ pc' = "marking"
  /\ UNCHANGED <<trailer, redis, cur, timedOut>>

\* Mutant: the marker is forgotten.
MarkNothing ==
  /\ pc = "marking"
  /\ pc' = "deleting"
  /\ UNCHANGED <<trailer, redis, buckets, cur, timedOut>>

\* "Set done marker BEFORE deleting hash".
MarkDone ==
  /\ pc = "marking"
  /\ done' = TRUE
  /\ pc' = "deleting"
  /\ UNCHANGED <<trailer, seen, hash, stamped, quiet, active, buckets, cur, timedOut>>

ClearHash ==
  /\ hash' = {}
  /\ stamped' = FALSE
  /\ quiet' = FALSE

DeleteHash ==
  /\ pc = "deleting"
  /\ ClearHash
  /\ pc' = "untracking"
  /\ UNCHANGED <<trailer, seen, active, done, buckets, cur, timedOut>>

Untrack ==
  /\ pc = "untracking"
  /\ active' = FALSE
  /\ pc' = "idle"
  /\ UNCHANGED <<trailer, seen, hash, stamped, quiet, done, buckets, cur, timedOut>>

-----------------------------------------------------------------------------
(* Time and failures *)

\* FINALIZE_QUIET_SECONDS pass after the last fragment.
BecomeQuiet ==
  /\ stamped
  /\ ~quiet
  /\ quiet' = TRUE
  /\ UNCHANGED <<trailer, seen, hash, stamped, active, done, buckets, webhook, timedOut>>

\* A 5xx or no answer to the trailer; a finalizer that starts over.
Interrupt ==
  /\ "crash" \in Faults
  /\ pc # "idle"
  /\ pc' = "idle"
  /\ cur' = NoFragment
  /\ UNCHANGED <<trailer, redis, buckets, timedOut>>

DoneExpires ==
  /\ "late" \in Faults
  /\ done
  /\ done' = FALSE
  /\ timedOut' = timedOut \cup {"done"}
  /\ UNCHANGED <<trailer, seen, hash, stamped, quiet, active, buckets, webhook>>

\* An hour after the last fragment, nothing having been finalized.
HashExpires ==
  /\ "outage" \in Faults
  /\ quiet
  /\ ClearHash
  /\ timedOut' = timedOut \cup {"hash"}
  /\ UNCHANGED <<trailer, seen, active, done, buckets, webhook>>

-----------------------------------------------------------------------------
(* Specification *)

Receive(f) == ReceiveNew(f) \/ ReceiveDuplicate(f)

Handle == CheckDone \/ StoreField \/ StampUpdated \/ TrackActive

Finalize == IngestWindow \/ MarkDone \/ DeleteHash \/ Untrack

Next ==
  \/ \E f \in Fragments : Receive(f)
  \/ Handle
  \/ DropGone \/ StartFinalize \/ CleanUpEmpty \/ Finalize
  \/ BecomeQuiet \/ Interrupt \/ DoneExpires \/ HashExpires

Spec == Init /\ [][Next]_vars

(***************************************************************************)
(* The event loop runs, the finalizer comes round every few seconds, and   *)
(* an ingest that is tried again and again succeeds some day.              *)
(***************************************************************************)
Fairness ==
  /\ WF_vars(Handle)
  /\ WF_vars(DropGone \/ StartFinalize \/ CleanUpEmpty \/ Finalize)
  /\ SF_vars(IngestWindow)
  /\ WF_vars(BecomeQuiet)

FairSpec == Spec /\ Fairness

-----------------------------------------------------------------------------
(* Properties *)

Ingested(f) == \E b \in buckets : f \in b

(***************************************************************************)
(* A fragment that was accepted is kept, in the hash or in a bucket, until *)
(* the hash dies of an outage of an hour (_AGG_HASH_TTL, "safety net"):    *)
(* no crash of a handler or of the finalizer loses it.                     *)
(***************************************************************************)
AcceptedIsKept ==
  \A f \in Fragments :
    trailer[f] = "accepted" => f \in hash \/ Ingested(f) \/ "hash" \in timedOut

(***************************************************************************)
(* ... and is in a bucket in the end.                                      *)
(***************************************************************************)
AcceptedIsIngested ==
  \A f \in Fragments :
    trailer[f] = "accepted" ~> Ingested(f) \/ "hash" \in timedOut

(***************************************************************************)
(* Where a failure leads to several buckets of one window, each takes up   *)
(* the fragments of the one before ("Set done marker BEFORE deleting       *)
(* hash"): the summary that supersedes never knows less.  Only a fragment  *)
(* later than the TTL of the marker, or of the hash, starts anew.          *)
(***************************************************************************)
BucketsNested ==
  timedOut = {} => \A a, b \in buckets : a \subseteq b \/ b \subseteq a

(***************************************************************************)
(* "Trailer pushes during the outage return 5xx - trailer retries via its  *)
(* at-least-once semantics" (FAILURE_MODES.md): a retry answered duplicate *)
(* is one of a fragment that is kept, or that came after the window was    *)
(* finalized.                                                              *)
(***************************************************************************)
DuplicateIsKept ==
  \A f \in Fragments :
    trailer[f] = "duplicate" => f \in hash \/ Ingested(f) \/ buckets # {}

-----------------------------------------------------------------------------
(* Inductive strengthenings of the invariants above *)

\* While a fragment is being stored or accepted it is in the hash; the hash is
\* deleted only once it is a bucket.
HashInv ==
  /\ pc \in {"stamping", "tracking"} => cur \in hash \/ "hash" \in timedOut
  /\ pc \in {"marking", "deleting"} => hash \in buckets \/ "hash" \in timedOut

\* No fragment is being stored once the window is marked; until the hash is
\* deleted it holds whatever any bucket holds.
WindowInv ==
  timedOut = {} =>
    /\ pc \in Storing => ~done
    /\ pc = "deleting" => done
    /\ (done /\ hash = {}) \/ \A b \in buckets : b \subseteq hash

\* An event that has been seen is kept, came too late, or is in hand.
SeenInv ==
  /\ \A f \in seen : \/ f \in hash \/ Ingested(f) \/ buckets # {}
                     \/ f = cur /\ pc \in {"checking", "storing"}
  /\ done => buckets # {}

=============================================================================

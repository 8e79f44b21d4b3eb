------------------------------ MODULE FramePull ------------------------------
(***************************************************************************)
(* Pulling a frame from a trailer on demand:                               *)
(*   src/services/search_api/pull_frame.py   run_pull_frame                *)
(*   src/shared/clients/continuum.py         fetch_frame                   *)
(*                                                                         *)
(* A request runs in a thread of the Search API.  Its image_id is made of  *)
(* trailer, camera and time: requests for one moment work on one row and   *)
(* one file.  The row and its caption job are one transaction; the file is *)
(* written within it.                                                      *)
(***************************************************************************)
EXTENDS SearchAPI, Limiter

CONSTANTS
  Threads,      \* threads of the Search API
  NoFrame,      \* a thread without request
  MaxAttempts,  \* _MAX_ATTEMPTS of the trailer client
  MaxPulls      \* bound: requests of one run of the API

ASSUME FramePullAssumption ==
  /\ NoFrame \notin Ids
  /\ MaxAttempts \in Nat
  /\ MaxPulls \in Nat
  /\ "pulls" \in Limiters

VARIABLES
  pull,        \* [Threads -> request at hand]
  requested,   \* bound: requests since the API started
  file,        \* [Frames -> "absent", "torn" or "whole"]
  captionJobs  \* frames with an image_caption job in Postgres

pullVars == <<pull, requested, file, captionJobs>>
frameVars == <<limiterVars, records, pullVars>>

Phases == {"idle", "limit", "look", "fetch", "insert", "reload", "write", "commit", "done"}

Answers == {"none", "created", "already_exists",
            "403", "404", "429", "500", "500: no row", "502"}

Idle == [phase |-> "idle", frame |-> NoFrame, stamp |-> 0, attempts |-> 0, answer |-> "none"]

PullInit ==
  /\ SearchInit
  /\ LimiterInit
  /\ pull = [t \in Threads |-> Idle]
  /\ requested = 0
  /\ file = [f \in Frames |-> "absent"]
  /\ captionJobs = {}

ToPhase(t, phase) == pull' = [pull EXCEPT ![t].phase = phase]

\* The response is ready: what it says, or the status of the error.
Respond(t, answer) == pull' = [pull EXCEPT ![t].phase = "done", ![t].answer = answer]

At(t, phase) == pull[t].phase = phase

\* A row another transaction has inserted and not committed yet.
Uncommitted(f) == \E t \in Threads : pull[t].frame = f /\ pull[t].phase \in {"write", "commit"}

-----------------------------------------------------------------------------
(* _rate_limit_check *)

RequestPull(t, f) ==
  /\ At(t, "idle")
  /\ requested < MaxPulls
  /\ requested' = requested + 1
  /\ pull' = [pull EXCEPT ![t] = [Idle EXCEPT !.phase = "limit", !.frame = f, !.stamp = clock]]
  /\ UNCHANGED <<limiterVars, records, file, captionJobs>>

PassLimiter(t) ==
  /\ At(t, "limit")
  /\ Admit("pulls", pull[t].stamp)
  /\ ToPhase(t, "look")
  /\ UNCHANGED <<records, requested, file, captionJobs>>

RefusePull(t) ==
  /\ At(t, "limit")
  /\ Refuse("pulls", pull[t].stamp)
  /\ Respond(t, "429")
  /\ UNCHANGED <<records, requested, file, captionJobs>>

-----------------------------------------------------------------------------
(* run_pull_frame *)

\* Mutant: the row of a transaction that is still open counts as well.
DirtyRowExists(f) == row[f] = "stored" \/ Uncommitted(f)

\* _load_existing, in a transaction of its own.
RowExists(f) == row[f] = "stored"

LookUp(t) ==
  /\ At(t, "look")
  /\ IF RowExists(pull[t].frame) THEN Respond(t, "already_exists") ELSE ToPhase(t, "fetch")
  /\ UNCHANGED <<limiterVars, records, requested, file, captionJobs>>

\* 403; 404: no recording, or a frame over 5 MB; 500: any other status.
FetchFrame(t) ==
  /\ At(t, "fetch")
  /\ ToPhase(t, "insert") \/ \E status \in {"403", "404", "500"} : Respond(t, status)
  /\ UNCHANGED <<limiterVars, records, requested, file, captionJobs>>

\* Network error or timeout: another attempt, after the last one 502.
FetchFails(t) ==
  /\ At(t, "fetch")
  /\ IF pull[t].attempts + 1 < MaxAttempts
     THEN pull' = [pull EXCEPT ![t].attempts = @ + 1]
     ELSE Respond(t, "502")
  /\ UNCHANGED <<limiterVars, records, requested, file, captionJobs>>

\* Mutant: no unique key, no conflict.
InsertBlind(t) ==
  /\ At(t, "insert")
  /\ ToPhase(t, "write")
  /\ UNCHANGED <<limiterVars, records, requested, file, captionJobs>>

\* Mutant: all who are about to insert hold a shared lock and wait to have it alone.
InsertAlone(t) ==
  /\ At(t, "insert")
  /\ ~Uncommitted(pull[t].frame)
  /\ \A u \in Threads \ {t} : pull[u].frame = pull[t].frame => ~At(u, "insert")
  /\ ToPhase(t, IF row[pull[t].frame] = "stored" THEN "reload" ELSE "write")
  /\ UNCHANGED <<limiterVars, records, requested, file, captionJobs>>

\* INSERT ... ON CONFLICT DO NOTHING waits for the other's transaction.
InsertRow(t) ==
  /\ At(t, "insert")
  /\ ~Uncommitted(pull[t].frame)
  /\ ToPhase(t, IF row[pull[t].frame] = "stored" THEN "reload" ELSE "write")
  /\ UNCHANGED <<limiterVars, records, requested, file, captionJobs>>

\* The race is lost: 500 when the winner's row is not to be seen.
ReloadExisting(t) ==
  /\ At(t, "reload")
  /\ Respond(t, IF RowExists(pull[t].frame) THEN "already_exists" ELSE "500: no row")
  /\ UNCHANGED <<limiterVars, records, requested, file, captionJobs>>

WriteFile(t) ==
  /\ At(t, "write")
  /\ file' = [file EXCEPT ![pull[t].frame] = "whole"]
  /\ ToPhase(t, "commit")
  /\ UNCHANGED <<limiterVars, records, requested, captionJobs>>

\* The row is deleted and that committed; what was written so far stays.
FileFails(t) ==
  /\ At(t, "write")
  /\ file' \in {file, [file EXCEPT ![pull[t].frame] = "torn"]}
  /\ Respond(t, "500")
  /\ UNCHANGED <<limiterVars, records, requested, captionJobs>>

\* Row and caption job; that the XADD fails changes nothing here.
CommitPull(t) ==
  /\ At(t, "commit")
  /\ row' = [row EXCEPT ![pull[t].frame] = "stored"]
  /\ captionJobs' = captionJobs \cup {pull[t].frame}
  /\ Respond(t, "created")
  /\ UNCHANGED <<limiterVars, indexed, requested, file>>

\* The database fails before the commit: no row and no job, only the file.
RollBack(t) ==
  /\ pull[t].phase \in {"look", "insert", "reload", "commit"}
  /\ Respond(t, "500")
  /\ UNCHANGED <<limiterVars, records, requested, file, captionJobs>>

\* The commit takes effect and the connection breaks before that is known:
\* the frame and its job are stored, no message is sent, the client is told 500.
CommitUnheard(t) ==
  /\ At(t, "commit")
  /\ row' = [row EXCEPT ![pull[t].frame] = "stored"]
  /\ captionJobs' = captionJobs \cup {pull[t].frame}
  /\ Respond(t, "500")
  /\ UNCHANGED <<limiterVars, indexed, requested, file>>

\* What the database may do to a thread, and need not.
DatabaseFails(t) == RollBack(t) \/ CommitUnheard(t)

\* Everything a thread does between the request and its response.
PullStep(t) ==
  \/ PassLimiter(t) \/ RefusePull(t)
  \/ LookUp(t) \/ FetchFrame(t) \/ FetchFails(t)
  \/ InsertRow(t) \/ ReloadExisting(t)
  \/ WriteFile(t) \/ FileFails(t) \/ CommitPull(t)

\* The client has the response, or no longer waits for it.
Collect(t) ==
  /\ At(t, "done")
  /\ pull' = [pull EXCEPT ![t] = Idle]
  /\ UNCHANGED <<limiterVars, records, requested, file, captionJobs>>

\* The threads die; a file that was being written may be torn, and what
\* they had not committed is rolled back.
ApiRestart ==
  /\ Forget("pulls")
  /\ pull' = [t \in Threads |-> Idle]
  /\ requested' = 0
  /\ \E torn \in SUBSET {pull[t].frame : t \in {u \in Threads : At(u, "write")}} :
       file' = [f \in Frames |-> IF f \in torn THEN "torn" ELSE file[f]]
  /\ UNCHANGED <<records, captionJobs>>

PullNext ==
  \/ \E t \in Threads, f \in Frames : RequestPull(t, f)
  \/ \E t \in Threads : PullStep(t) \/ DatabaseFails(t) \/ Collect(t)
  \/ ApiRestart
  \/ Tick /\ UNCHANGED <<records, pullVars>>

\* A thread goes on: each call it makes has a timeout or is local.  Only the
\* INSERT may wait without one, and no error of the database ends that wait.
PullSpec == PullInit /\ [][PullNext]_frameVars /\ \A t \in Threads : WF_frameVars(PullStep(t))

-----------------------------------------------------------------------------
PullTypeOK ==
  /\ row \in [Ids -> {"absent", "stored", "gone"}]
  /\ indexed \subseteq Images \cup Frames
  /\ clock \in 0 .. EndOfTime
  /\ window \in [Limiters -> Seq(Nat)]
  /\ passed \in [Limiters -> Seq([stamp : Nat, at : Nat])]
  /\ pull \in [Threads -> [phase : Phases, frame : Frames \cup {NoFrame}, stamp : Nat,
                           attempts : Nat, answer : Answers]]
  /\ \A t \in Threads : pull[t].frame = NoFrame <=> pull[t].phase = "idle"
  /\ file \in [Frames -> {"absent", "torn", "whole"}]
  /\ captionJobs \subseteq Frames

(***************************************************************************)
(* What a pull leaves and what it says agree: a stored frame has its whole *)
(* file and its caption job ("so we don't leave an orphan DB record        *)
(* pointing to a missing file", pull_frame.py:230-231), a response that    *)
(* names the frame is about a row that is committed, however many requests *)
(* race for it, and the collision "but no row visible" (pull_frame.py:215) *)
(* never happens.                                                          *)
(***************************************************************************)
PulledIsStored ==
  /\ \A f \in Frames : row[f] = "stored" => file[f] = "whole" /\ f \in captionJobs
  /\ \A t \in Threads :
       /\ pull[t].answer \in {"created", "already_exists"} => row[pull[t].frame] = "stored"
       /\ pull[t].answer # "500: no row"

(***************************************************************************)
(* Every request to pull a frame gets its response: the threads that wait  *)
(* for the row of another (ON CONFLICT) never wait for each other, though  *)
(* no timeout and no error of the database takes them out of the wait.     *)
(***************************************************************************)
EveryPullEnds ==
  \A t \in Threads : At(t, "limit") ~> pull[t].phase \in {"done", "idle"}

-----------------------------------------------------------------------------
(* The pulls as their clients see them *)

\* A frame that is all there: what a reader of the row can count on.
Complete == {f \in Frames : row[f] = "stored" /\ file[f] = "whole" /\ f \in captionJobs}

Atomic == INSTANCE AtomicPull WITH
  request  <- [t \in Threads |-> pull[t].frame],
  response <- [t \in Threads |-> pull[t].answer],
  stored   <- Complete

(***************************************************************************)
(* Every pull is as good as atomic, whatever other pulls of the same frame *)
(* do between its look-up, its fetch, its INSERT and its commit: it takes  *)
(* effect in one step, it is told "created" only when it was the one that  *)
(* brought the frame, an error leaves nothing that counts as stored but    *)
(* when only the word of the commit was lost, and no restart in the middle *)
(* of a write tears the file of a stored frame.                            *)
(***************************************************************************)
PullsAreAtomic == Atomic!AtomicSpec

=============================================================================

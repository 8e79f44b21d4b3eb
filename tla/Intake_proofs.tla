---------------------------- MODULE Intake_proofs ----------------------------
(***************************************************************************)
(* Theorems about Intake for any number of fragments and any failures, but *)
(* for the failures each theorem excludes by its assumption.               *)
(***************************************************************************)
EXTENDS Intake, TLAPS

LEMMA TypeInit == Init => TypeOK
BY IntakeAssumption DEF Init, TypeOK, Pc, Storing, Answer

LEMMA TypeStep == TypeOK /\ [Next]_vars => TypeOK'
<1>. SUFFICES ASSUME TypeOK, [Next]_vars PROVE TypeOK'
  OBVIOUS
<1>. USE DEF TypeOK, Pc, Storing, Answer
<1>1. ASSUME NEW f \in Fragments, Receive(f) PROVE TypeOK'
  BY <1>1 DEF Receive, ReceiveNew, ReceiveDuplicate, Respond, redis
<1>2. CASE Handle
  <2>1. CASE CheckDone
    BY <2>1 DEF CheckDone, Respond, redis
  <2>2. CASE StoreField \/ StampUpdated \/ TrackActive
    BY <2>2 DEF StoreField, StampUpdated, TrackActive, Respond
  <2>. QED
    BY <1>2, <2>1, <2>2 DEF Handle
<1>3. CASE DropGone \/ StartFinalize \/ CleanUpEmpty
  BY <1>3 DEF DropGone, StartFinalize, CleanUpEmpty, webhook, redis
<1>4. CASE Finalize
  <2>1. CASE IngestWindow
    BY <2>1 DEF IngestWindow, redis
  <2>2. CASE MarkDone \/ DeleteHash \/ Untrack
    BY <2>2 DEF MarkDone, DeleteHash, Untrack, ClearHash
  <2>. QED
    BY <1>4, <2>1, <2>2 DEF Finalize
<1>5. CASE BecomeQuiet \/ Interrupt \/ DoneExpires \/ HashExpires
  BY <1>5 DEF BecomeQuiet, Interrupt, DoneExpires, HashExpires, ClearHash, webhook, redis
<1>6. CASE UNCHANGED vars
  BY <1>6 DEF vars, redis, webhook
<1>. QED
  BY <1>1, <1>2, <1>3, <1>4, <1>5, <1>6 DEF Next

(***************************************************************************)
(* Type correctness.                                                       *)
(***************************************************************************)
THEOREM TypeCorrect == Spec => []TypeOK
BY TypeInit, TypeStep, PTL DEF Spec

-----------------------------------------------------------------------------
(* Buckets of a window are nested *)

LEMMA WindowStep == TypeOK /\ WindowInv /\ [Next]_vars => WindowInv'
<1>. SUFFICES ASSUME TypeOK, WindowInv, [Next]_vars PROVE WindowInv'
  OBVIOUS
<1>. USE DEF TypeOK, WindowInv, Storing
<1>1. ASSUME NEW f \in Fragments, Receive(f) PROVE WindowInv'
  BY <1>1 DEF Receive, ReceiveNew, ReceiveDuplicate, Respond, redis
<1>2. CASE Handle
  BY <1>2 DEF Handle, CheckDone, StoreField, StampUpdated, TrackActive, Respond, redis
<1>3. CASE DropGone \/ StartFinalize \/ CleanUpEmpty
  BY <1>3 DEF DropGone, StartFinalize, CleanUpEmpty, webhook, redis
<1>4. CASE Finalize
  BY <1>4 DEF Finalize, IngestWindow, MarkDone, DeleteHash, Untrack, ClearHash, redis
<1>5. CASE BecomeQuiet \/ Interrupt
  BY <1>5 DEF BecomeQuiet, Interrupt, webhook, redis
<1>6. CASE DoneExpires \/ HashExpires
  <2>. timedOut' # {}
    BY <1>6 DEF DoneExpires, HashExpires
  <2>. QED
    OBVIOUS
<1>7. CASE UNCHANGED vars
  BY <1>7 DEF vars, redis, webhook
<1>. QED
  BY <1>1, <1>2, <1>3, <1>4, <1>5, <1>6, <1>7 DEF Next

\* A bucket is added only while every earlier one is still within the hash.
LEMMA NestedStep ==
  ASSUME TypeOK, WindowInv, BucketsNested, [Next]_vars
  PROVE  BucketsNested'
<1>1. CASE IngestWindow
  <2>. SUFFICES ASSUME timedOut' = {} PROVE (\A a, b \in buckets : a \subseteq b \/ b \subseteq a)'
    BY DEF BucketsNested
  <2>1. \A b \in buckets : b \subseteq hash
    BY <1>1 DEF IngestWindow, WindowInv
  <2>. QED
    BY <1>1, <2>1 DEF IngestWindow, BucketsNested
<1>2. CASE ~IngestWindow
  <2>1. /\ UNCHANGED buckets
        /\ timedOut' = {} => timedOut = {}
    <3>1. ASSUME NEW f \in Fragments, Receive(f) PROVE UNCHANGED <<buckets, timedOut>>
      BY <3>1 DEF Receive, ReceiveNew, ReceiveDuplicate
    <3>2. CASE Handle
      BY <3>2 DEF Handle, CheckDone, StoreField, StampUpdated, TrackActive
    <3>3. CASE DropGone \/ StartFinalize \/ CleanUpEmpty \/ Finalize
      BY <1>2, <3>3 DEF DropGone, StartFinalize, CleanUpEmpty, Finalize, MarkDone, DeleteHash,
                        Untrack
    <3>4. CASE BecomeQuiet \/ Interrupt \/ DoneExpires \/ HashExpires
      BY <3>4 DEF BecomeQuiet, Interrupt, DoneExpires, HashExpires
    <3>. QED
      BY <3>1, <3>2, <3>3, <3>4 DEF Next, vars
  <2>. QED
    BY <2>1 DEF BucketsNested
<1>. QED
  BY <1>1, <1>2

(***************************************************************************)
(* However often the webhook is interrupted, of two buckets of a window    *)
(* one holds all the fragments of the other, as long as no key of the      *)
(* window outlives its TTL: _finalize_one sets the done marker before it   *)
(* deletes the hash, and store_fragment looks at it before it writes.      *)
(***************************************************************************)
THEOREM NestedBuckets == Spec => []BucketsNested
<1>1. Init => WindowInv /\ BucketsNested
  BY DEF Init, WindowInv, BucketsNested, Storing
<1>2. TypeOK /\ WindowInv /\ BucketsNested /\ [Next]_vars => (WindowInv /\ BucketsNested)'
  BY WindowStep, NestedStep
<1>. QED
  BY TypeCorrect, <1>1, <1>2, PTL DEF Spec

-----------------------------------------------------------------------------
(* What was accepted is kept *)

Kept == HashInv /\ AcceptedIsKept

LEMMA KeptStep == TypeOK /\ Kept /\ [Next]_vars => Kept'
<1>. SUFFICES ASSUME TypeOK, Kept, [Next]_vars PROVE Kept'
  OBVIOUS
<1>. USE DEF TypeOK, Kept, HashInv, AcceptedIsKept, Ingested, Answer
<1>1. ASSUME NEW f \in Fragments, Receive(f) PROVE Kept'
  <2>1. CASE ReceiveNew(f)
    BY <2>1 DEF ReceiveNew
  <2>2. CASE ReceiveDuplicate(f)
    BY <2>2 DEF ReceiveDuplicate, Respond, redis
  <2>. QED
    BY <1>1, <2>1, <2>2 DEF Receive
<1>2. CASE Handle
  <2>1. CASE CheckDone
    BY <2>1 DEF CheckDone, Respond, redis
  <2>2. CASE StoreField
    BY <2>2 DEF StoreField
  <2>3. CASE StampUpdated
    BY <2>3 DEF StampUpdated
  <2>4. CASE TrackActive
    BY <2>4 DEF TrackActive, Respond
  <2>. QED
    BY <1>2, <2>1, <2>2, <2>3, <2>4 DEF Handle
<1>3. CASE DropGone \/ StartFinalize \/ CleanUpEmpty
  BY <1>3 DEF DropGone, StartFinalize, CleanUpEmpty, webhook, redis
<1>4. CASE Finalize
  <2>1. CASE IngestWindow
    BY <2>1 DEF IngestWindow, redis
  <2>2. CASE MarkDone
    BY <2>2 DEF MarkDone
  <2>3. CASE DeleteHash
    BY <2>3 DEF DeleteHash, ClearHash
  <2>4. CASE Untrack
    BY <2>4 DEF Untrack
  <2>. QED
    BY <1>4, <2>1, <2>2, <2>3, <2>4 DEF Finalize
<1>5. CASE BecomeQuiet \/ Interrupt \/ DoneExpires
  BY <1>5 DEF BecomeQuiet, Interrupt, DoneExpires, webhook, redis
<1>6. CASE HashExpires
  BY <1>6 DEF HashExpires, ClearHash, webhook
<1>7. CASE UNCHANGED vars
  BY <1>7 DEF vars, redis, webhook
<1>. QED
  BY <1>1, <1>2, <1>3, <1>4, <1>5, <1>6, <1>7 DEF Next

LEMMA KeptAlways == Spec => []Kept
<1>1. Init => Kept
  BY DEF Init, Kept, HashInv, AcceptedIsKept
<1>. QED
  BY TypeCorrect, KeptStep, <1>1, PTL DEF Spec

(***************************************************************************)
(* A fragment answered accepted is in the hash or in a bucket whatever     *)
(* fails, until the hash dies of its TTL.                                  *)
(***************************************************************************)
THEOREM AcceptedKept == Spec => []AcceptedIsKept
<1>1. Kept => AcceptedIsKept
  BY DEF Kept
<1>. QED
  BY KeptAlways, <1>1, PTL

-----------------------------------------------------------------------------
(* What was called a duplicate is kept *)

\* Every command that is started is completed, and ingest never fails for an hour.
NothingFails == Faults \cap {"crash", "outage"} = {}

Acknowledged == SeenInv /\ DuplicateIsKept

LEMMA AcknowledgedStep ==
  ASSUME NothingFails, TypeOK, Acknowledged, Kept, [Next]_vars, timedOut \subseteq {"done"}
  PROVE  Acknowledged'
<1>. USE DEF TypeOK, Kept, HashInv, Acknowledged, SeenInv, DuplicateIsKept, Ingested, Answer
<1>1. ASSUME NEW f \in Fragments, Receive(f) PROVE Acknowledged'
  <2>1. CASE ReceiveNew(f)
    BY <2>1 DEF ReceiveNew
  <2>2. CASE ReceiveDuplicate(f)
    BY <2>2 DEF ReceiveDuplicate, Respond, redis
  <2>. QED
    BY <1>1, <2>1, <2>2 DEF Receive
<1>2. CASE Handle
  <2>1. CASE CheckDone
    BY <2>1 DEF CheckDone, Respond, redis
  <2>2. CASE StoreField
    BY <2>2 DEF StoreField
  <2>3. CASE StampUpdated
    BY <2>3 DEF StampUpdated
  <2>4. CASE TrackActive
    BY <2>4 DEF TrackActive, Respond
  <2>. QED
    BY <1>2, <2>1, <2>2, <2>3, <2>4 DEF Handle
<1>3. CASE DropGone \/ StartFinalize \/ CleanUpEmpty
  BY <1>3 DEF DropGone, StartFinalize, CleanUpEmpty, webhook, redis
<1>4. CASE Finalize
  <2>1. CASE IngestWindow
    BY <2>1 DEF IngestWindow, redis
  <2>2. CASE MarkDone
    BY <2>2 DEF MarkDone
  <2>3. CASE DeleteHash
    BY <2>3 DEF DeleteHash, ClearHash
  <2>4. CASE Untrack
    BY <2>4 DEF Untrack
  <2>. QED
    BY <1>4, <2>1, <2>2, <2>3, <2>4 DEF Finalize
<1>5. CASE BecomeQuiet \/ DoneExpires
  BY <1>5 DEF BecomeQuiet, DoneExpires, webhook
<1>6. ~Interrupt /\ ~HashExpires
  BY DEF NothingFails, Interrupt, HashExpires
<1>7. CASE UNCHANGED vars
  BY <1>7 DEF vars, redis, webhook
<1>. QED
  BY <1>1, <1>2, <1>3, <1>4, <1>5, <1>6, <1>7 DEF Next

LEMMA HashOutlives ==
  ASSUME NothingFails
  PROVE  Spec => [](timedOut \subseteq {"done"})
<1>1. Init => timedOut \subseteq {"done"}
  BY DEF Init
<1>2. timedOut \subseteq {"done"} /\ [Next]_vars => (timedOut \subseteq {"done"})'
  <2>. SUFFICES ASSUME timedOut \subseteq {"done"}, [Next]_vars
                PROVE  (timedOut \subseteq {"done"})'
    OBVIOUS
  <2>1. ASSUME NEW f \in Fragments, Receive(f) PROVE UNCHANGED timedOut
    BY <2>1 DEF Receive, ReceiveNew, ReceiveDuplicate
  <2>2. CASE Handle
    BY <2>2 DEF Handle, CheckDone, StoreField, StampUpdated, TrackActive
  <2>3. CASE DropGone \/ StartFinalize \/ CleanUpEmpty \/ Finalize
    BY <2>3 DEF DropGone, StartFinalize, CleanUpEmpty, Finalize, IngestWindow, MarkDone,
                DeleteHash, Untrack
  <2>4. CASE BecomeQuiet \/ Interrupt \/ DoneExpires \/ HashExpires
    BY <2>4 DEF NothingFails, BecomeQuiet, Interrupt, DoneExpires, HashExpires
  <2>. QED
    BY <2>1, <2>2, <2>3, <2>4 DEF Next, vars
<1>. QED
  BY <1>1, <1>2, PTL DEF Spec

(***************************************************************************)
(* While no command fails, a retry is called a duplicate only of what is   *)
(* kept, whatever answers get lost and however late the fragments come:    *)
(* the counterexample to DuplicateIsKept needs a failure after the SET NX. *)
(***************************************************************************)
THEOREM DuplicatesKept == NothingFails => (Spec => []DuplicateIsKept)
<1>. SUFFICES ASSUME NothingFails PROVE Spec => []DuplicateIsKept
  OBVIOUS
<1>1. Init => Acknowledged
  BY DEF Init, Acknowledged, SeenInv, DuplicateIsKept
<1>2. TypeOK /\ Kept /\ timedOut \subseteq {"done"} /\ Acknowledged /\ [Next]_vars => Acknowledged'
  BY AcknowledgedStep
<1>3. Acknowledged => DuplicateIsKept
  BY DEF Acknowledged
<1>. QED
  BY TypeCorrect, KeptAlways, HashOutlives, <1>1, <1>2, <1>3, PTL DEF Spec

=============================================================================

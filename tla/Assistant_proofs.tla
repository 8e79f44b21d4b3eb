-------------------------- MODULE Assistant_proofs --------------------------
(***************************************************************************)
(* Theorems about Assistant for any number of questions, threads, records  *)
(* and backends, any markers, and whatever the models say.                 *)
(***************************************************************************)
EXTENDS Assistant, FramePull_proofs

\* Ids of records that are stored or were until they were pruned.
Real == {x \in Ids : row[x] # "absent"}

Question == [phase : AskPhases, stamp : Nat, left : 0 .. MaxIterations,
             kind : Kinds, thread : Threads \cup {NoThread},
             known : SUBSET Words, asked : SUBSET Words, cited : SUBSET Words]

Waits(q) ==
  /\ q.phase = "calling" <=> q.thread \in Threads
  /\ q.phase = "calling" => q.left > 0

AsksOK ==
  /\ ask \in [Asks -> Question]
  /\ \A a \in Asks : Waits(ask[a]) /\ ask[a].stamp <= clock

\* What a tool found is real; the rest of what a turn knows the model said.
Grounded(real, q) == q.known \subseteq real \cup q.asked /\ q.cited \subseteq real \cup q.asked

\* What is always there, and what has a point, is real.
RealInv == Images \cup Buckets \cup indexed \subseteq Real

AssistantInv ==
  /\ PullInv
  /\ RealInv
  /\ available \subseteq Backends
  /\ AsksOK
  /\ \A a \in Asks : Grounded(Real, ask[a])

-----------------------------------------------------------------------------
(* What the reads show *)

LEMMA ShownIsReal == RealInv => \A x \in Real : Shown(x) \subseteq Real
<1>. SUFFICES ASSUME RealInv, NEW x \in Real PROVE Shown(x) \subseteq Real
  OBVIOUS
<1>1. CASE x \in Events
  BY <1>1, SearchAssumption DEF Shown, RealInv
<1>2. CASE x \notin Events
  BY <1>2 DEF Shown
<1>. QED
  BY <1>1, <1>2

LEMMA ListingIsReal ==
  ASSUME RealInv, NEW S \in SUBSET Real, NEW hits \in Listing(S)
  PROVE  hits \subseteq Real
<1>1. PICK T \in SUBSET S : hits = UNION {Shown(x) : x \in T}
  BY DEF Listing
<1>. QED
  BY <1>1, ShownIsReal

LEMMA SearchIsReal == RealInv => \A hits \in Search \cup Verify \cup Browse : hits \subseteq Real
<1>. SUFFICES ASSUME RealInv PROVE \A hits \in Search \cup Verify \cup Browse : hits \subseteq Real
  OBVIOUS
<1>1. ImageHits \cup EventHits \cup SummaryHits \subseteq Real
  BY DEF RealInv, ImageHits, EventHits, SummaryHits, Stored, Real
<1>2. \A hits \in Search : hits \subseteq Real
  BY <1>1, ListingIsReal DEF Search
<1>3. \A hits \in Verify : hits \subseteq Real
  BY <1>2 DEF Verify, Supporting
<1>4. Events \cap Stored \subseteq Real
  BY DEF Stored, Real
<1>5. \A hits \in Browse : hits \subseteq Real
  BY <1>4, ListingIsReal DEF Browse
<1>. QED
  BY <1>2, <1>3, <1>5

LEMMA ListsAreReal ==
  RealInv => \A shown \in SummarizePeriod \cup TrailerDay \cup FleetOverview \cup ListReports :
               shown \subseteq Real
<1>. SUFFICES ASSUME RealInv
              PROVE  \A shown \in SummarizePeriod \cup TrailerDay \cup FleetOverview
                                    \cup ListReports : shown \subseteq Real
  OBVIOUS
<1>1. Stored \subseteq Real
  BY DEF Stored, Real
<1>2. Evidence \cup (Stored \cap Reports) \in SUBSET Real /\ Stored \cap Reports \in SUBSET Real
  BY <1>1 DEF Evidence
<1>3. \A shown \in TrailerDay \cup FleetOverview \cup ListReports : shown \subseteq Real
  BY <1>2, ListingIsReal DEF TrailerDay, FleetOverview, ListReports
<1>4. \A shown \in SummarizePeriod : shown \subseteq Real
  BY <1>2 DEF SummarizePeriod
<1>. QED
  BY <1>3, <1>4

\* Or it repeats the id it was asked for.
LEMMA DetailIsReal ==
  ASSUME RealInv, NEW x \in Words, NEW shown \in RecordDetail(x) \cup ReportDetail(x)
  PROVE  shown \subseteq Real \cup {x}
<1>1. CASE shown \in RecordDetail(x)
  <2>1. CASE shown = {x}
    BY <2>1
  <2>2. CASE x \in Stored /\ shown = Shown(x)
    BY <2>2, ShownIsReal DEF Stored, Real
  <2>. QED
    BY <1>1, <2>1, <2>2 DEF RecordDetail
<1>2. CASE shown \in ReportDetail(x)
  BY <1>2 DEF ReportDetail, Real
<1>. QED
  BY <1>1, <1>2

-----------------------------------------------------------------------------
(* The initial states *)

LEMMA NewAskOK ==
  ASSUME NEW phase \in AskPhases \ {"calling"}, NEW real
  PROVE  LET q == [NewAsk EXCEPT !.phase = phase]
         IN  q \in Question /\ Waits(q) /\ q.stamp = 0 /\ Grounded(real, q)
<1>. DEFINE q == [NewAsk EXCEPT !.phase = phase]
<1>1. q = [phase |-> phase, stamp |-> 0, left |-> MaxIterations, kind |-> "question",
           thread |-> NoThread, known |-> {}, asked |-> {}, cited |-> {}]
  BY DEF NewAsk
<1>2. MaxIterations \in 0 .. MaxIterations /\ NoThread \notin Threads
  BY AssistantAssumption
<1>3. q \in Question
  BY <1>1, <1>2 DEF Question, Kinds
<1>. QED
  BY <1>1, <1>2, <1>3 DEF Waits, Grounded

LEMMA AssistantInitInv == Init => AssistantInv
<1>. SUFFICES ASSUME Init PROVE AssistantInv
  OBVIOUS
<1>1. PullInv
  BY PullInitInv DEF Init
<1>2. RealInv
  BY SearchAssumption DEF Init, PullInit, SearchInit, RealInv, Real, Ids
<1>3. available \subseteq Backends
  BY DEF Init, Probes
<1>4. [NewAsk EXCEPT !.phase = "new"] = NewAsk /\ "new" \in AskPhases \ {"calling"}
  BY DEF NewAsk, AskPhases
<1>5. NewAsk \in Question /\ Waits(NewAsk) /\ NewAsk.stamp = 0 /\ Grounded(Real, NewAsk)
  BY <1>4, NewAskOK
<1>6. clock = 0 /\ ask = [a \in Asks |-> NewAsk]
  BY DEF Init, PullInit, LimiterInit
<1>. QED
  BY <1>1, <1>2, <1>3, <1>5, <1>6 DEF AssistantInv, AsksOK

-----------------------------------------------------------------------------
(* The records and the pulls *)

\* A question's step that neither pulls nor passes the limiter.
Asking(a) ==
  \/ SearchTool(a) \/ BrowseTool(a) \/ PeriodTool(a) \/ ReportsTool(a)
  \/ DetailTool(a) \/ ToolFails(a) \/ WriteReport(a) \/ WriteBlocked(a) \/ ParseFails(a)

\* One that leaves everything but itself.
Ending(a) ==
  \/ \E b \in Backends \cup {NoBackend} : RefuseBackend(a, b)
  \/ \E b \in Backends \cup {NoBackend}, kind \in Kinds : ReceiveAsk(a, b, kind)
  \/ \E markers \in SUBSET Markers : Answer(a, markers)
  \/ BackendRejects(a) \/ AnswerReplaced(a) \/ GiveUp(a) \/ AskFails(a) \/ PullTimesOut(a)

LEMMA StepCases ==
  ASSUME [Next]_vars
  PROVE  \/ \E a \in Asks : Ending(a)
         \/ \E a \in Asks : AllowAsk(a) \/ RefuseAsk(a)
         \/ \E a \in Asks : Asking(a)
         \/ \E a \in Asks : \E t \in Threads, f \in Frames : PullFrame(a, t, f)
         \/ \E a \in Asks : PullReturns(a)
         \/ \E t \in Threads : PullRuns(t) \/ DropResponse(t)
         \/ \E t \in Threads, f \in Frames : OtherPull(t, f)
         \/ Tick /\ UNCHANGED <<records, pullVars, assistantVars>>
         \/ \E f \in Frames : IndexFrame(f) /\ UNCHANGED <<limiterVars, pullVars, assistantVars>>
         \/ \E i \in Images : PruneImage(i) /\ UNCHANGED <<limiterVars, pullVars, assistantVars>>
         \/ ApiDies
         \/ AgentDies
         \/ UNCHANGED vars
<1>1. CASE Next
  BY <1>1, Zenon DEF Next, AskStep, Asking, Ending, Surroundings
<1>. QED
  BY <1>1

\* A step around the pulls keeps what is proved of them.
LEMMA AroundPulls ==
  ASSUME PullInv, LimiterInv', clock' \in 0 .. EndOfTime, clock <= clock',
         UNCHANGED pullVars,
         \A f \in Frames : row'[f] = row[f],
         row' \in [Ids -> {"absent", "stored", "gone"}], indexed' \subseteq Images \cup Frames
  PROVE  PullInv'
<1>0. PullTypeOK /\ PullsOK /\ StampInv /\ FrameInv /\ NoFrame \notin Ids
  BY FramePullAssumption DEF PullInv, PullTypeOK, PullsOK, Pull
<1>1. /\ window' \in [Limiters -> Seq(Nat)]
      /\ passed' \in [Limiters -> Seq([stamp : Nat, at : Nat])]
  BY DEF LimiterInv, LimiterTypeOK, Request
<1>2. PullTypeOK'
  BY <1>0, <1>1 DEF PullTypeOK, pullVars
<1>3. StampInv'
  <2>1. \A t \in Threads : pull[t].stamp \in Nat
    BY <1>0 DEF PullTypeOK
  <2>2. clock \in Nat /\ clock' \in Nat
    BY <1>0, <1>2 DEF PullTypeOK
  <2>. QED
    BY <1>0, <2>1, <2>2 DEF StampInv, pullVars
<1>4. FrameInv'
  <2>1. Filed(row', file', captionJobs') /\ Apart(pull')
    BY <1>0 DEF FrameInv, Filed, pullVars
  <2>2. ASSUME NEW t \in Threads PROVE Good(row', file', pull'[t])
    <3>1. Good(row, file, pull[t]) /\ pull' = pull /\ file' = file
      BY <1>0 DEF FrameInv, pullVars
    <3>2. pull[t].frame \in Frames \/ pull[t].phase = "idle"
      BY <1>0 DEF PullTypeOK
    <3>. QED
      BY <3>1, <3>2 DEF Good, Open
  <2>. QED
    BY <2>1, <2>2 DEF FrameInv
<1>. QED
  BY <1>2, <1>3, <1>4 DEF PullInv

LEMMA LimiterStays == LimiterInv /\ UNCHANGED limiterVars => LimiterInv'
BY DEF LimiterInv, LimiterTypeOK, limiterVars

\* What a step outside the pulls may do to the records.
RecordStep ==
  \/ UNCHANGED records
  \/ \E f \in Frames : IndexFrame(f)
  \/ \E i \in Images : PruneImage(i)
  \/ \E r \in Reports : GenerateDailyReport(r)

LEMMA RecordsAroundPulls ==
  ASSUME PullInv, RecordStep
  PROVE  /\ \A f \in Frames : row'[f] = row[f]
         /\ row' \in [Ids -> {"absent", "stored", "gone"}] /\ indexed' \subseteq Images \cup Frames
<1>. USE DEF PullInv, PullTypeOK
<1>1. CASE UNCHANGED records
  BY <1>1 DEF records
<1>2. ASSUME NEW f \in Frames, IndexFrame(f) 
      PROVE  /\ \A g \in Frames : row'[g] = row[g]
             /\ row' \in [Ids -> {"absent", "stored", "gone"}]
             /\ indexed' \subseteq Images \cup Frames
  BY <1>2 DEF IndexFrame
<1>3. ASSUME NEW i \in Images, PruneImage(i) 
      PROVE  /\ \A g \in Frames : row'[g] = row[g]
             /\ row' \in [Ids -> {"absent", "stored", "gone"}]
             /\ indexed' \subseteq Images \cup Frames
  BY <1>3, SearchAssumption DEF PruneImage, Ids
<1>4. ASSUME NEW r \in Reports, GenerateDailyReport(r) 
      PROVE  /\ \A g \in Frames : row'[g] = row[g]
             /\ row' \in [Ids -> {"absent", "stored", "gone"}]
             /\ indexed' \subseteq Images \cup Frames
  BY <1>4, SearchAssumption DEF GenerateDailyReport, Ids
<1>. QED
  BY <1>1, <1>2, <1>3, <1>4, Zenon DEF RecordStep

\* Nothing real is forgotten, and only what is real gets a point.
LEMMA RecordsStayReal ==
  ASSUME PullTypeOK, RealInv, RecordStep
  PROVE  Real \subseteq Real' /\ RealInv'
<1>. USE DEF PullTypeOK
<1>0. row \in [Ids -> {"absent", "stored", "gone"}]
  OBVIOUS
<1>1. CASE UNCHANGED records
  BY <1>1 DEF records, RealInv, Real
<1>2. ASSUME NEW f \in Frames, IndexFrame(f) PROVE Real \subseteq Real' /\ RealInv'
  BY <1>2 DEF IndexFrame, RealInv, Real, Ids
<1>3. ASSUME NEW i \in Images, PruneImage(i) PROVE Real \subseteq Real' /\ RealInv'
  <2>1. \A x \in Ids : row'[x] = IF x = i THEN "gone" ELSE row[x]
    BY <1>0, <1>3 DEF PruneImage
  <2>2. indexed' \subseteq indexed
    BY <1>3 DEF PruneImage
  <2>3. Real \subseteq Real'
    BY <2>1 DEF Real
  <2>. QED
    BY <2>2, <2>3 DEF RealInv
<1>4. ASSUME NEW r \in Reports, GenerateDailyReport(r) PROVE Real \subseteq Real' /\ RealInv'
  <2>1. \A x \in Ids : row'[x] = IF x = r THEN "stored" ELSE row[x]
    BY <1>0, <1>4 DEF GenerateDailyReport
  <2>2. indexed' = indexed
    BY <1>4 DEF GenerateDailyReport
  <2>3. Real \subseteq Real'
    BY <2>1 DEF Real
  <2>. QED
    BY <2>2, <2>3 DEF RealInv
<1>. QED
  BY <1>1, <1>2, <1>3, <1>4, Zenon DEF RecordStep

LEMMA PullsStayReal ==
  ASSUME PullInv, RealInv, [PullNext]_frameVars
  PROVE  Real \subseteq Real' /\ RealInv'
<1>1. CASE UNCHANGED records
  BY <1>1 DEF records, RealInv, Real
<1>2. ASSUME NEW t \in Threads, CommitPull(t) \/ CommitUnheard(t)
      PROVE  Real \subseteq Real' /\ RealInv'
  <2>1. \A x \in Ids : row[x] # "absent" => row'[x] # "absent"
    BY <1>2 DEF PullInv, PullTypeOK, CommitPull, CommitUnheard
  <2>2. indexed' = indexed
    BY <1>2 DEF CommitPull, CommitUnheard
  <2>3. Real \subseteq Real'
    BY <2>1 DEF Real
  <2>. QED
    BY <2>2, <2>3 DEF RealInv
<1>3. \/ UNCHANGED records
      \/ \E t \in Threads : CommitPull(t) \/ CommitUnheard(t)
  BY NextCases, Zenon
     DEF RequestPull, PassLimiter, RefusePull, Rest, LookUp, FetchFrame, FetchFails, InsertRow,
         ReloadExisting, WriteFile, FileFails, DatabaseFails, RollBack, Collect, ApiRestart,
         frameVars
<1>. QED
  BY <1>1, <1>2, <1>3

-----------------------------------------------------------------------------
(* The questions *)

\* A question moves on to q, or no question moves.
LEMMA OneAskMoves ==
  ASSUME AssistantInv, Real \subseteq Real', clock' \in Nat, clock <= clock',
         NEW a \in Asks, NEW q \in Question, Waits(q), q.stamp <= clock', Grounded(Real', q),
         ask' = [ask EXCEPT ![a] = q]
  PROVE  AsksOK' /\ \A b \in Asks : Grounded(Real', ask'[b])
<1>0. /\ ask \in [Asks -> Question] /\ clock \in Nat
      /\ \A b \in Asks : Waits(ask[b]) /\ ask[b].stamp <= clock /\ ask[b].stamp \in Nat
      /\ \A b \in Asks : Grounded(Real, ask[b])
  BY DEF AssistantInv, AsksOK, PullInv, PullTypeOK, Question
<1>1. ask' \in [Asks -> Question] /\ \A b \in Asks : ask'[b] = IF b = a THEN q ELSE ask[b]
  BY <1>0
<1>2. \A b \in Asks : Waits(ask'[b])
  BY <1>0, <1>1
<1>3. \A b \in Asks : ask'[b].stamp <= clock'
  BY <1>0, <1>1
<1>4. \A b \in Asks : Grounded(Real', ask'[b])
  BY <1>0, <1>1 DEF Grounded
<1>. QED
  BY <1>1, <1>2, <1>3, <1>4 DEF AsksOK

LEMMA NoAskMoves ==
  ASSUME AssistantInv, Real \subseteq Real', clock' \in Nat, clock <= clock', UNCHANGED ask
  PROVE  AsksOK' /\ \A b \in Asks : Grounded(Real', ask'[b])
<1>0. /\ ask \in [Asks -> Question] /\ clock \in Nat
      /\ \A b \in Asks : Waits(ask[b]) /\ ask[b].stamp <= clock /\ ask[b].stamp \in Nat
      /\ \A b \in Asks : Grounded(Real, ask[b])
  BY DEF AssistantInv, AsksOK, PullInv, PullTypeOK, Question
<1>. QED
  BY <1>0 DEF AsksOK, Grounded

\* What an answer of the model and a tool's output add.
LEMMA LearnedOK ==
  ASSUME AssistantInv, NEW real, Real \subseteq real, NEW a \in Asks, ask[a].left > 0,
         NEW said \in SUBSET Words, NEW output \in SUBSET Words, output \subseteq real \cup said
  PROVE  LET q == Learned(a, said, output)
         IN  /\ q \in Question /\ q.phase = ask[a].phase /\ q.thread = ask[a].thread
             /\ q.stamp = ask[a].stamp /\ Grounded(real, q)
<1>. DEFINE p == ask[a]
            q == Learned(a, said, output)
<1>0. p \in Question /\ Grounded(Real, p) /\ MaxIterations \in Nat
  BY AssistantAssumption DEF AssistantInv, AsksOK
<1>1. q = [p EXCEPT !.left = @ - 1, !.known = @ \cup output, !.asked = @ \cup said]
  BY DEF Learned
<1>. HIDE DEF q, p
<1>2. /\ q.phase = p.phase /\ q.stamp = p.stamp /\ q.left = p.left - 1 /\ q.kind = p.kind
      /\ q.thread = p.thread /\ q.known = p.known \cup output
      /\ q.asked = p.asked \cup said /\ q.cited = p.cited
  BY <1>0, <1>1 DEF Question
<1>3. p.left - 1 \in 0 .. MaxIterations
  BY <1>0 DEF Question, p
<1>4. q \in Question
  BY <1>0, <1>1, <1>3 DEF Question
<1>5. Grounded(real, q)
  BY <1>0, <1>2 DEF Grounded
<1>. QED
  BY <1>2, <1>4, <1>5 DEF q, p

\* The step of a tool, or of an output that is none.
LEMMA AskingLearns ==
  ASSUME AssistantInv, NEW a \in Asks, Asking(a)
  PROVE  /\ RecordStep
         /\ UNCHANGED <<limiterVars, pullVars, available>>
         /\ Thinking(a)
         /\ \E said \in SUBSET Words, output \in SUBSET Words :
              /\ output \subseteq Real' \cup said
              /\ ask' = [ask EXCEPT ![a] = Learned(a, said, output)]
<1>. DEFINE Learns == \E said \in SUBSET Words, output \in SUBSET Words :
              /\ output \subseteq Real' \cup said
              /\ ask' = [ask EXCEPT ![a] = Learned(a, said, output)]
<1>0. RealInv /\ PullTypeOK /\ Real \subseteq Words
  BY DEF AssistantInv, PullInv, Real, Words
<1>1. \A said \in Said : said \in SUBSET Words
  BY DEF Said
<1>2. UNCHANGED records => Real' = Real
  BY DEF records, Real
<1>3. /\ UNCHANGED <<limiterVars, pullVars, available>> /\ Thinking(a)
      /\ RecordStep
  <2>1. Thinking(a) /\ RecordStep
    BY Zenon DEF Asking, SearchTool, BrowseTool, PeriodTool, ReportsTool, DetailTool, ToolFails,
                 WriteReport, WriteBlocked, ParseFails, RecordStep
  <2>2. UNCHANGED <<limiterVars, pullVars, available>>
    BY Zenon DEF Asking, SearchTool, BrowseTool, PeriodTool, ReportsTool, DetailTool, ToolFails,
                 WriteReport, WriteBlocked, ParseFails, Learn
  <2>. QED
    BY <2>1, <2>2
<1>4. CASE SearchTool(a) \/ BrowseTool(a)
  <2>1. UNCHANGED records
    BY <1>4 DEF SearchTool, BrowseTool
  <2>2. \E hits \in Search \cup Verify \cup Browse, said \in Said \cup {{}} :
          ask' = [ask EXCEPT ![a] = Learned(a, said, said \cup hits)]
    <3>1. CASE SearchTool(a)
      BY <3>1, Zenon DEF SearchTool, Learn
    <3>2. CASE BrowseTool(a)
      <4>1. PICK hits \in Browse : ask' = [ask EXCEPT ![a] = Learned(a, {}, hits)]
        BY <3>2 DEF BrowseTool, Learn
      <4>2. {} \cup hits = hits
        OBVIOUS
      <4>. QED
        BY <4>1, <4>2, Zenon
    <3>. QED
      BY <1>4, <3>1, <3>2
  <2>3. PICK hits \in Search \cup Verify \cup Browse, said \in Said \cup {{}} :
          ask' = [ask EXCEPT ![a] = Learned(a, said, said \cup hits)]
    BY <2>2
  <2>4. hits \subseteq Real /\ said \in SUBSET Words
    BY <1>0, <1>1, SearchIsReal
  <2>5. said \cup hits \in SUBSET Words /\ said \cup hits \subseteq Real' \cup said
    BY <1>0, <1>2, <2>1, <2>4
  <2>. QED
    BY <1>3, <2>3, <2>4, <2>5, Zenon
<1>5. CASE PeriodTool(a) \/ ReportsTool(a)
  <2>1. UNCHANGED records
    BY <1>5 DEF PeriodTool, ReportsTool
  <2>. DEFINE Lists == SummarizePeriod \cup TrailerDay \cup FleetOverview \cup ListReports
  <2>2. \E shown \in Lists, said \in Said \cup {{}} :
          ask' = [ask EXCEPT ![a] = Learned(a, said, said \cup shown)]
    <3>1. CASE PeriodTool(a)
      BY <3>1, Zenon DEF PeriodTool, Learn
    <3>2. CASE ReportsTool(a)
      <4>1. PICK shown \in Lists : ask' = [ask EXCEPT ![a] = Learned(a, {}, shown)]
        BY <3>2, Zenon DEF ReportsTool, Learn
      <4>2. {} \cup shown = shown
        OBVIOUS
      <4>. QED
        BY <4>1, <4>2, Zenon
    <3>. QED
      BY <1>5, <3>1, <3>2
  <2>3. PICK shown \in Lists, said \in Said \cup {{}} :
          ask' = [ask EXCEPT ![a] = Learned(a, said, said \cup shown)]
    BY <2>2
  <2>4. shown \subseteq Real /\ said \in SUBSET Words
    BY <1>0, <1>1, ListsAreReal
  <2>5. said \cup shown \in SUBSET Words /\ said \cup shown \subseteq Real' \cup said
    BY <1>0, <1>2, <2>1, <2>4
  <2>. QED
    BY <1>3, <2>3, <2>4, <2>5, Zenon
<1>6. CASE DetailTool(a)
  <2>0. PICK x \in Words : \E shown \in RecordDetail(x) \cup ReportDetail(x) :
          ask' = [ask EXCEPT ![a] = Learned(a, {x}, shown)]
    BY <1>6, Zenon DEF DetailTool, Learn
  <2>1. PICK shown \in RecordDetail(x) \cup ReportDetail(x) :
          ask' = [ask EXCEPT ![a] = Learned(a, {x}, shown)]
    BY <2>0
  <2>2. shown \subseteq Real \cup {x} /\ Real' = Real
    BY <1>0, <1>2, <1>6, DetailIsReal DEF DetailTool
  <2>3. shown \in SUBSET Words /\ {x} \in SUBSET Words /\ shown \subseteq Real' \cup {x}
    BY <1>0, <2>2
  <2>. QED
    BY <1>3, <2>1, <2>3, Zenon
<1>7. CASE WriteReport(a)
  <2>0. PICK r \in Reports :
          /\ GenerateDailyReport(r)
          /\ \E output \in {{r}, {}} : ask' = [ask EXCEPT ![a] = Learned(a, {}, output)]
    BY <1>7, Zenon DEF WriteReport, Learn
  <2>1. PICK output \in {{r}, {}} : ask' = [ask EXCEPT ![a] = Learned(a, {}, output)]
    BY <2>0
  <2>2. row'[r] = "stored" /\ r \in Ids
    BY <1>0, <2>0 DEF PullTypeOK, GenerateDailyReport, Ids
  <2>3. output \in SUBSET Words /\ {} \in SUBSET Words /\ output \subseteq Real' \cup {}
    BY <2>1, <2>2 DEF Real, Words
  <2>. QED
    BY <1>3, <2>1, <2>3, Zenon
<1>8. CASE ToolFails(a) \/ WriteBlocked(a) \/ ParseFails(a)
  <2>1. PICK said \in Said : ask' = [ask EXCEPT ![a] = Learned(a, said, said)]
    BY <1>8 DEF ToolFails, WriteBlocked, ParseFails, Learn, Said
  <2>2. said \in SUBSET Words /\ said \subseteq Real' \cup said
    BY <1>1
  <2>. QED
    BY <1>3, <2>1, <2>2, Zenon
<1>. QED
  BY <1>4, <1>5, <1>6, <1>7, <1>8, Zenon DEF Asking

\* A question that is over, or lost.
LEMMA EndOK ==
  ASSUME NEW phase \in EndPhases, NEW real
  PROVE  LET q == [NewAsk EXCEPT !.phase = phase]
         IN  q \in Question /\ Waits(q) /\ q.stamp = 0 /\ Grounded(real, q)
<1>1. phase \in AskPhases \ {"calling"}
  BY DEF AskPhases, EndPhases
<1>. QED
  BY <1>1, NewAskOK

\* The loop has the output of the call it waited for.
LEMMA BackOK ==
  ASSUME AssistantInv, NEW real, Real \subseteq real, NEW a \in Asks, ask[a].left > 0,
         NEW output \in SUBSET Words, output \subseteq real
  PROVE  LET q == Back(a, output)
         IN  q \in Question /\ Waits(q) /\ Grounded(real, q) /\ q.stamp = ask[a].stamp
<1>. DEFINE p == Learned(a, {}, output)
            q == Back(a, output)
<1>1. p \in Question /\ Grounded(real, p) /\ p.stamp = ask[a].stamp
  BY LearnedOK
<1>2. q = [p EXCEPT !.phase = "thinking", !.thread = NoThread]
  BY DEF Back
<1>. HIDE DEF p, q
<1>3. /\ q \in Question /\ q.phase = "thinking" /\ q.thread = NoThread /\ q.stamp = p.stamp
      /\ q.known = p.known /\ q.asked = p.asked /\ q.cited = p.cited
  BY <1>1, <1>2 DEF Question, AskPhases
<1>4. Waits(q) /\ Grounded(real, q)
  BY <1>1, <1>3, AssistantAssumption DEF Waits, Grounded
<1>. QED
  BY <1>1, <1>3, <1>4 DEF p, q

\* A verified citation was known.
LEMMA CitedWasKnown ==
  ASSUME NEW known, NEW ms \in SUBSET Markers
  PROVE  UNION {Resolve(m, known) : m \in ms} \subseteq known
BY DEF Resolve

\* The step of a question that is refused, received, answered or given up.
LEMMA EndingStep ==
  ASSUME AssistantInv, NEW a \in Asks, Ending(a)
  PROVE  AsksOK' /\ \A b \in Asks : Grounded(Real', ask'[b])
<1>. DEFINE p == ask[a]
<1>0. /\ p \in Question /\ Waits(p) /\ Grounded(Real, p) /\ clock \in Nat
      /\ p.stamp <= clock
      /\ MaxIterations \in Nat
  BY AssistantAssumption DEF AssistantInv, AsksOK, PullInv, PullTypeOK
<1>1. UNCHANGED frameVars
  BY Zenon DEF Ending, RefuseBackend, ReceiveAsk, Answer, BackendRejects, AnswerReplaced, GiveUp,
               AskFails, PullTimesOut
<1>2. Real' = Real /\ Real \subseteq Real' /\ clock' = clock /\ clock' \in Nat /\ clock <= clock'
  BY <1>0, <1>1 DEF frameVars, limiterVars, records, Real
<1>3. ASSUME NEW q \in Question, Waits(q), q.stamp <= clock, Grounded(Real, q),
             ask' = [ask EXCEPT ![a] = q]
      PROVE  AsksOK' /\ \A b \in Asks : Grounded(Real', ask'[b])
  BY <1>2, <1>3, OneAskMoves
<1>4. CASE \E phase \in EndPhases : End(a, phase)
  <2>1. PICK phase \in EndPhases : ask' = [ask EXCEPT ![a] = [NewAsk EXCEPT !.phase = phase]]
    BY <1>4 DEF End
  <2>. DEFINE q == [NewAsk EXCEPT !.phase = phase]
  <2>2. q \in Question /\ Waits(q) /\ q.stamp = 0 /\ Grounded(Real, q)
    BY EndOK
  <2>3. ask' = [ask EXCEPT ![a] = q]
    BY <2>1
  <2>. HIDE DEF q
  <2>4. q.stamp <= clock
    BY <1>0, <2>2
  <2>. QED
    BY <1>3, <2>2, <2>3, <2>4
<1>5. ASSUME NEW b \in Backends \cup {NoBackend}, NEW kind \in Kinds, ReceiveAsk(a, b, kind)
      PROVE  AsksOK' /\ \A c \in Asks : Grounded(Real', ask'[c])
  <2>. DEFINE q == [p EXCEPT !.phase = "limit", !.stamp = clock, !.kind = kind]
  <2>1. ask' = [ask EXCEPT ![a] = q] /\ p.phase = "new"
    BY <1>5 DEF ReceiveAsk, Phase, AssistantInv, AsksOK
  <2>2. /\ q \in Question /\ q.phase = "limit" /\ q.stamp = clock /\ q.thread = p.thread
        /\ q.known = p.known /\ q.asked = p.asked /\ q.cited = p.cited
    BY <1>0 DEF Question, AskPhases
  <2>. HIDE DEF q
  <2>3. Waits(q) /\ Grounded(Real, q) /\ q.stamp <= clock
    BY <1>0, <2>1, <2>2 DEF Waits, Grounded
  <2>. QED
    BY <1>3, <2>1, <2>2, <2>3
<1>6. ASSUME NEW markers \in SUBSET Markers, Answer(a, markers)
      PROVE  AsksOK' /\ \A c \in Asks : Grounded(Real', ask'[c])
  <2>. DEFINE cited == UNION {Resolve(m, p.known) : m \in markers}
              asked == p.asked \cap cited
              q == [NewAsk EXCEPT !.phase = "answered", !.cited = cited, !.asked = asked]
  <2>1. ask' = [ask EXCEPT ![a] = q]
    BY <1>6 DEF Answer
  <2>2. cited \subseteq p.known
    BY CitedWasKnown
  <2>8. asked = p.asked \cap cited
    OBVIOUS
  <2>. HIDE DEF cited, asked
  <2>3. /\ q.phase = "answered" /\ q.stamp = 0 /\ q.thread = NoThread
        /\ q.known = {} /\ q.asked = asked /\ q.cited = cited
    BY DEF NewAsk
  <2>4. asked \in SUBSET Words /\ cited \in SUBSET Words
    BY <1>0, <2>2, <2>8 DEF Question
  <2>5. q \in Question
    <3>1. NewAsk \in Question
      BY NewAskOK, [NewAsk EXCEPT !.phase = "new"] = NewAsk, "new" \in AskPhases \ {"calling"}
         DEF NewAsk, AskPhases
    <3>. QED
      BY <2>4, <3>1 DEF Question, AskPhases, EndPhases
  <2>6. Waits(q) /\ q.stamp <= clock
    BY <1>0, <2>3, AssistantAssumption DEF Waits
  <2>7. Grounded(Real, q)
    BY <1>0, <2>2, <2>8, <2>3 DEF Grounded
  <2>. QED
    BY <1>3, <2>1, <2>5, <2>6, <2>7
<1>7. CASE PullTimesOut(a)
  <2>1. ask' = [ask EXCEPT ![a] = Back(a, {})] /\ p.left > 0
    BY <1>0, <1>7 DEF PullTimesOut, Phase, Waits
  <2>2. Back(a, {}) \in Question /\ Waits(Back(a, {})) /\ Grounded(Real, Back(a, {}))
        /\ Back(a, {}).stamp = p.stamp
    BY <2>1, BackOK
  <2>. QED
    BY <1>0, <1>3, <2>1, <2>2
<1>8. \/ \E phase \in EndPhases : End(a, phase)
      \/ \E b \in Backends \cup {NoBackend}, kind \in Kinds : ReceiveAsk(a, b, kind)
      \/ \E markers \in SUBSET Markers : Answer(a, markers)
      \/ PullTimesOut(a)
  BY Zenon DEF Ending, RefuseBackend, BackendRejects, AnswerReplaced, GiveUp, AskFails, EndPhases
<1>. QED
  BY <1>4, <1>5, <1>6, <1>7, <1>8

-----------------------------------------------------------------------------
(* The steps *)

\* What is left of AssistantInv when the rest is shown.
LEMMA AssistantInvBy ==
  ASSUME PullInv', RealInv', available' \subseteq Backends,
         AsksOK' /\ \A b \in Asks : Grounded(Real', ask'[b])
  PROVE  AssistantInv'
BY DEF AssistantInv

\* A step of the pulls, with what a question makes of it.
LEMMA PullsMove ==
  ASSUME AssistantInv, [PullNext]_frameVars
  PROVE  PullInv' /\ RealInv' /\ Real \subseteq Real' /\ clock' \in Nat /\ clock <= clock'
<1>1. PullInv' /\ Real \subseteq Real' /\ RealInv'
  BY PullStepInv, PullsStayReal DEF AssistantInv
<1>2. clock \in Nat /\ clock' \in Nat
  BY <1>1, LimiterAssumption DEF AssistantInv, PullInv, PullTypeOK
<1>3. clock' = clock \/ clock' = clock + 1
  <2>1. CASE UNCHANGED limiterVars
    BY <2>1 DEF limiterVars
  <2>2. CASE \E t \in Threads : PassLimiter(t) \/ RefusePull(t)
    BY <2>2 DEF PassLimiter, RefusePull, Admit, Refuse
  <2>3. CASE ApiRestart
    BY <2>3 DEF ApiRestart, Forget
  <2>4. CASE Tick
    BY <2>4 DEF Tick
  <2>. QED
    BY <2>1, <2>2, <2>3, <2>4, NextCases, RestLeavesLimiter, Zenon DEF RequestPull, frameVars
<1>. QED
  BY <1>1, <1>2, <1>3

\* A step that touches neither pulls nor limiters.
LEMMA OthersMove ==
  ASSUME AssistantInv, UNCHANGED <<limiterVars, pullVars>>, RecordStep
  PROVE  PullInv' /\ RealInv' /\ Real \subseteq Real' /\ clock' \in Nat /\ clock <= clock'
<1>1. PullInv /\ PullTypeOK /\ RealInv /\ LimiterInv /\ clock \in 0 .. EndOfTime
  BY DEF AssistantInv, PullInv, PullTypeOK
<1>2. clock' = clock /\ clock \in Nat
  BY <1>1 DEF limiterVars
<1>3. LimiterInv'
  BY <1>1, LimiterStays
<1>4. PullInv'
  BY <1>1, <1>2, <1>3, RecordsAroundPulls, AroundPulls
<1>5. Real \subseteq Real' /\ RealInv'
  BY <1>1, RecordsStayReal
<1>. QED
  BY <1>2, <1>4, <1>5

\* A step of the limiter of the questions.
LEMMA AskLimiterMoves ==
  ASSUME AssistantInv, UNCHANGED <<records, pullVars>>, clock' = clock,
         (\E a \in Asks : Admit("asks", ask[a].stamp) \/ Refuse("asks", ask[a].stamp))
           \/ Forget("asks")
  PROVE  PullInv' /\ RealInv' /\ Real' = Real /\ Real \subseteq Real' /\ clock \in Nat
<1>1. PullInv /\ PullTypeOK /\ RealInv /\ LimiterInv /\ clock \in 0 .. EndOfTime
  BY DEF AssistantInv, PullInv, PullTypeOK
<1>2. \A a \in Asks : ask[a].stamp \in Nat /\ ask[a].stamp <= clock
  BY DEF AssistantInv, AsksOK, Question
<1>3. "asks" \in Limiters /\ clock \in Nat
  BY <1>1, AssistantAssumption, LimiterAssumption
<1>4. LimiterInv'
  BY <1>1, <1>2, <1>3, AdmitLimiter, RefuseLimiter, ForgetLimiter
<1>5. RecordStep /\ Real' = Real
  BY DEF RecordStep, records, Real
<1>6. PullInv'
  BY <1>1, <1>3, <1>4, <1>5, RecordsAroundPulls, AroundPulls
<1>. QED
  BY <1>1, <1>3, <1>5, <1>6, RecordsStayReal

LEMMA AssistantStepInv == AssistantInv /\ [Next]_vars => AssistantInv'
<1>. SUFFICES ASSUME AssistantInv, [Next]_vars PROVE AssistantInv'
  OBVIOUS
<1>0. /\ AsksOK /\ available \subseteq Backends /\ PullInv /\ PullTypeOK
      /\ \A a \in Asks : ask[a] \in Question /\ Waits(ask[a]) /\ Grounded(Real, ask[a])
  BY DEF AssistantInv, AsksOK, PullInv
<1>1. ASSUME NEW a \in Asks, Ending(a) PROVE AssistantInv'
  <2>1. UNCHANGED <<frameVars, available>>
    BY <1>1, Zenon DEF Ending, RefuseBackend, ReceiveAsk, Answer, BackendRejects, AnswerReplaced,
                       GiveUp, AskFails, PullTimesOut
  <2>2. [PullNext]_frameVars
    BY <2>1
  <2>. QED
    BY <1>0, <1>1, <2>1, <2>2, EndingStep, PullsMove, AssistantInvBy
<1>2. ASSUME NEW a \in Asks, AllowAsk(a) \/ RefuseAsk(a) PROVE AssistantInv'
  <2>. DEFINE p == ask[a]
  <2>1. /\ UNCHANGED <<records, pullVars, available>> /\ clock' = clock /\ Phase(a, "limit")
        /\ Admit("asks", ask[a].stamp) \/ Refuse("asks", ask[a].stamp)
    BY <1>2 DEF AllowAsk, RefuseAsk, Admit, Refuse
  <2>2. PullInv' /\ RealInv' /\ Real' = Real /\ Real \subseteq Real' /\ clock \in Nat
    BY <2>1, AskLimiterMoves
  <2>3. ASSUME NEW q \in Question, Waits(q), q.stamp <= clock, Grounded(Real, q),
               ask' = [ask EXCEPT ![a] = q]
        PROVE  AsksOK' /\ \A b \in Asks : Grounded(Real', ask'[b])
    <3>1. clock' \in Nat /\ clock <= clock' /\ q.stamp <= clock' /\ Grounded(Real', q)
      BY <2>1, <2>2, <2>3
    <3>. QED
      BY <2>2, <2>3, <3>1, OneAskMoves
  <2>4. ASSUME ask' = [ask EXCEPT ![a].phase = "thinking"]
        PROVE  AsksOK' /\ \A b \in Asks : Grounded(Real', ask'[b])
    <3>. DEFINE q == [p EXCEPT !.phase = "thinking"]
    <3>1. ask' = [ask EXCEPT ![a] = q]
      BY <1>0, <2>4 DEF AsksOK
    <3>2. /\ q \in Question /\ q.phase = "thinking" /\ q.stamp = p.stamp /\ q.thread = p.thread
          /\ q.known = p.known /\ q.asked = p.asked /\ q.cited = p.cited
      BY <1>0 DEF Question, AskPhases
    <3>. HIDE DEF q
    <3>3. Waits(q) /\ Grounded(Real, q) /\ q.stamp <= clock
      BY <1>0, <2>1, <3>2 DEF Waits, Grounded, AsksOK, Phase
    <3>. QED
      BY <2>3, <3>1, <3>2, <3>3
  <2>5. ASSUME End(a, "429")
        PROVE  AsksOK' /\ \A b \in Asks : Grounded(Real', ask'[b])
    <3>. DEFINE q == [NewAsk EXCEPT !.phase = "429"]
    <3>1. ask' = [ask EXCEPT ![a] = q]
      BY <2>5 DEF End
    <3>2. q \in Question /\ Waits(q) /\ q.stamp = 0 /\ Grounded(Real, q)
      BY EndOK, "429" \in EndPhases DEF EndPhases
    <3>. HIDE DEF q
    <3>3. q.stamp <= clock
      BY <2>2, <3>2
    <3>. QED
      BY <2>3, <3>1, <3>2, <3>3
  <2>6. AsksOK' /\ \A b \in Asks : Grounded(Real', ask'[b])
    BY <1>2, <2>4, <2>5 DEF AllowAsk, RefuseAsk
  <2>. QED
    BY <1>0, <2>1, <2>2, <2>6, AssistantInvBy
<1>3. ASSUME NEW a \in Asks, Asking(a) PROVE AssistantInv'
  <2>1. /\ RecordStep /\ UNCHANGED <<limiterVars, pullVars, available>> /\ Thinking(a)
        /\ \E said \in SUBSET Words, output \in SUBSET Words :
             /\ output \subseteq Real' \cup said
             /\ ask' = [ask EXCEPT ![a] = Learned(a, said, output)]
    BY <1>3, AskingLearns
  <2>2. PullInv' /\ RealInv' /\ Real \subseteq Real' /\ clock' \in Nat /\ clock <= clock'
    BY <2>1, OthersMove
  <2>3. PICK said \in SUBSET Words, output \in SUBSET Words :
          /\ output \subseteq Real' \cup said
          /\ ask' = [ask EXCEPT ![a] = Learned(a, said, output)]
    BY <2>1
  <2>. DEFINE q == Learned(a, said, output)
  <2>4. /\ q \in Question /\ q.phase = ask[a].phase /\ q.thread = ask[a].thread
        /\ q.stamp = ask[a].stamp /\ Grounded(Real', q)
    BY <2>1, <2>2, <2>3, LearnedOK DEF Thinking
  <2>. HIDE DEF q
  <2>5. Waits(q)
    BY <1>0, <2>1, <2>4 DEF Waits, Thinking, Phase
  <2>6. q.stamp <= clock'
    BY <1>0, <2>2, <2>4 DEF AsksOK, Question, PullTypeOK
  <2>7. AsksOK' /\ \A b \in Asks : Grounded(Real', ask'[b])
    BY <2>2, <2>3, <2>4, <2>5, <2>6, OneAskMoves DEF q
  <2>. QED
    BY <1>0, <2>1, <2>2, <2>7, AssistantInvBy
<1>4. ASSUME NEW a \in Asks, NEW t \in Threads, NEW f \in Frames, PullFrame(a, t, f)
      PROVE  AssistantInv'
  <2>. DEFINE p == ask[a]
              q == [p EXCEPT !.phase = "calling", !.thread = t]
  <2>1. [PullNext]_frameVars /\ clock' = clock
    BY <1>4 DEF PullFrame, PullNext, RequestPull, limiterVars
  <2>2. PullInv' /\ RealInv' /\ Real \subseteq Real' /\ clock' \in Nat /\ clock <= clock'
    BY <2>1, PullsMove
  <2>3. ask' = [ask EXCEPT ![a] = q] /\ p.left > 0 /\ available' = available
    BY <1>0, <1>4 DEF PullFrame, AsksOK, Thinking
  <2>4. /\ q \in Question /\ q.phase = "calling" /\ q.stamp = p.stamp /\ q.thread = t
        /\ q.left = p.left /\ q.known = p.known /\ q.asked = p.asked /\ q.cited = p.cited
    BY <1>0 DEF Question, AskPhases
  <2>. HIDE DEF q
  <2>5. Waits(q) /\ Grounded(Real', q) /\ q.stamp <= clock'
    BY <1>0, <2>1, <2>2, <2>3, <2>4 DEF Waits, Grounded, AsksOK
  <2>. QED
    BY <1>0, <2>2, <2>3, <2>4, <2>5, OneAskMoves, AssistantInvBy
<1>5. ASSUME NEW a \in Asks, PullReturns(a) PROVE AssistantInv'
  <2>. DEFINE t == ask[a].thread
              said == IF pull[t].answer \in {"created", "already_exists"} THEN {pull[t].frame}
                      ELSE {}
  <2>1. /\ Collect(t) /\ ask' = [ask EXCEPT ![a] = Back(a, said)] /\ available' = available
        /\ ask[a].phase = "calling"
    BY <1>5 DEF PullReturns, Phase
  <2>2. t \in Threads /\ ask[a].left > 0
    BY <1>0, <2>1 DEF Waits
  <2>3. [PullNext]_frameVars /\ clock' = clock
    BY <2>1, <2>2, RestLeavesLimiter DEF PullNext, Rest, limiterVars
  <2>4. PullInv' /\ RealInv' /\ Real \subseteq Real' /\ clock' \in Nat /\ clock <= clock'
    BY <2>3, PullsMove
  <2>5. said \subseteq Real /\ said \in SUBSET Words
    <3>1. pull[t].answer \in {"created", "already_exists"} => row[pull[t].frame] = "stored"
      BY <1>0, <2>2 DEF PullInv, FrameInv, Good
    <3>2. pull[t].frame \in Ids
      BY <1>0, <2>1, <2>2 DEF PullTypeOK, Collect, At, Ids
    <3>. QED
      BY <3>1, <3>2 DEF Real, Words
  <2>. HIDE DEF said
  <2>6. /\ Back(a, said) \in Question /\ Waits(Back(a, said)) /\ Grounded(Real', Back(a, said))
        /\ Back(a, said).stamp = ask[a].stamp
    BY <2>2, <2>4, <2>5, BackOK
  <2>7. Back(a, said).stamp <= clock'
    BY <1>0, <2>3, <2>6 DEF AsksOK
  <2>. QED
    BY <1>0, <2>1, <2>4, <2>6, <2>7, OneAskMoves, AssistantInvBy
<1>6. ASSUME NEW t \in Threads, PullRuns(t) \/ DropResponse(t) PROVE AssistantInv'
  <2>1. [PullNext]_frameVars /\ UNCHANGED assistantVars
    BY <1>6, Zenon DEF PullRuns, DropResponse, PullNext
  <2>. QED
    BY <1>0, <2>1, PullsMove, NoAskMoves, AssistantInvBy DEF assistantVars
<1>7. ASSUME NEW t \in Threads, NEW f \in Frames, OtherPull(t, f) PROVE AssistantInv'
  <2>1. [PullNext]_frameVars /\ UNCHANGED assistantVars
    BY <1>7, Zenon DEF OtherPull, PullNext
  <2>. QED
    BY <1>0, <2>1, PullsMove, NoAskMoves, AssistantInvBy DEF assistantVars
<1>8. CASE Tick /\ UNCHANGED <<records, pullVars, assistantVars>>
  <2>1. [PullNext]_frameVars /\ UNCHANGED assistantVars
    BY <1>8, Zenon DEF PullNext
  <2>. QED
    BY <1>0, <2>1, PullsMove, NoAskMoves, AssistantInvBy DEF assistantVars
<1>9. ASSUME \/ \E f \in Frames : IndexFrame(f)
             \/ \E i \in Images : PruneImage(i),
             UNCHANGED <<limiterVars, pullVars, assistantVars>>
      PROVE  AssistantInv'
  <2>1. RecordStep
    BY <1>9 DEF RecordStep
  <2>. QED
    BY <1>0, <1>9, <2>1, OthersMove, NoAskMoves, AssistantInvBy DEF assistantVars
<1>10. CASE ApiDies
  <2>1. [PullNext]_frameVars /\ available' = available
    BY <1>10 DEF ApiDies, PullNext
  <2>2. PullInv' /\ RealInv' /\ Real \subseteq Real' /\ clock' \in Nat /\ clock <= clock'
    BY <2>1, PullsMove
  <2>3. \A b \in Asks : ask'[b] = IF Phase(b, "calling") THEN Back(b, {}) ELSE ask[b]
    BY <1>10 DEF ApiDies
  <2>4. ASSUME NEW b \in Asks
        PROVE  /\ ask'[b] \in Question /\ Waits(ask'[b]) /\ Grounded(Real', ask'[b])
               /\ ask'[b].stamp <= clock'
    <3>1. ask[b].stamp <= clock'
      BY <1>0, <2>2 DEF AsksOK, Question, PullTypeOK
    <3>2. CASE Phase(b, "calling")
      <4>1. ask[b].left > 0
        BY <1>0, <3>2 DEF Waits, Phase
      <4>2. /\ Back(b, {}) \in Question /\ Waits(Back(b, {})) /\ Grounded(Real', Back(b, {}))
            /\ Back(b, {}).stamp = ask[b].stamp
        BY <2>2, <4>1, BackOK
      <4>. QED
        BY <2>3, <3>1, <3>2, <4>2
    <3>3. CASE ~Phase(b, "calling")
      <4>1. ask'[b] = ask[b]
        BY <2>3, <3>3
      <4>. QED
        BY <1>0, <2>2, <3>1, <4>1 DEF Grounded
    <3>. QED
      BY <3>2, <3>3
  <2>5. ask' \in [Asks -> Question]
    BY <1>10, <2>3, <2>4 DEF ApiDies
  <2>6. AsksOK' /\ \A b \in Asks : Grounded(Real', ask'[b])
    BY <2>4, <2>5 DEF AsksOK
  <2>. QED
    BY <1>0, <2>1, <2>2, <2>6, AssistantInvBy
<1>11. CASE AgentDies
  <2>1. /\ Forget("asks") /\ UNCHANGED <<records, pullVars>> /\ clock' = clock
        /\ available' \subseteq Backends
    BY <1>11 DEF AgentDies, Forget, Probes
  <2>2. PullInv' /\ RealInv' /\ Real' = Real /\ Real \subseteq Real' /\ clock \in Nat
    BY <2>1, AskLimiterMoves
  <2>. DEFINE q == [NewAsk EXCEPT !.phase = "lost"]
  <2>3. \A b \in Asks : ask'[b] = ask[b] \/ ask'[b] = q
    BY <1>11 DEF AgentDies
  <2>4. q \in Question /\ Waits(q) /\ q.stamp = 0 /\ Grounded(Real, q)
    BY EndOK, "lost" \in EndPhases DEF EndPhases
  <2>5. ask' = [b \in Asks |-> ask'[b]]
    BY <1>11 DEF AgentDies
  <2>. HIDE DEF q
  <2>6. ASSUME NEW b \in Asks
        PROVE  /\ ask'[b] \in Question /\ Waits(ask'[b]) /\ Grounded(Real', ask'[b])
               /\ ask'[b].stamp <= clock'
    <3>1. ask[b].stamp <= clock
      BY <1>0 DEF AsksOK
    <3>2. CASE ask'[b] = ask[b]
      BY <1>0, <2>1, <2>2, <3>1, <3>2
    <3>3. CASE ask'[b] = q
      BY <2>1, <2>2, <2>4, <3>3
    <3>. QED
      BY <2>3, <3>2, <3>3
  <2>7. AsksOK' /\ \A b \in Asks : Grounded(Real', ask'[b])
    BY <2>5, <2>6 DEF AsksOK
  <2>. QED
    BY <2>1, <2>2, <2>7, AssistantInvBy
<1>12. CASE UNCHANGED vars
  <2>1. [PullNext]_frameVars /\ UNCHANGED assistantVars
    BY <1>12 DEF vars
  <2>. QED
    BY <1>0, <2>1, PullsMove, NoAskMoves, AssistantInvBy DEF assistantVars
<1>. QED
  BY <1>1, <1>2, <1>3, <1>4, <1>5, <1>6, <1>7, <1>8, <1>9, <1>10, <1>11, <1>12, StepCases, Zenon

-----------------------------------------------------------------------------
(* The theorems *)

LEMMA AssistantAlways == Spec => []AssistantInv
<1>. QED
  BY AssistantInitInv, AssistantStepInv, PTL DEF Spec

\* The type invariant of questions, pulls, limiters and records.
THEOREM AssistantTypeCorrect == Spec => []AssistantTypeOK
<1>1. AssistantInv => AssistantTypeOK
  BY DEF AssistantInv, AssistantTypeOK, AsksOK, Question, Waits, Phase, PullInv
<1>. QED
  BY <1>1, AssistantAlways, PTL

\* A verified citation is the id of a record, or the model put it into a call
\* of the turn itself, whatever the model says and whatever is pulled, written
\* or pruned meanwhile.
THEOREM CitationsAreRecords == Spec => []CitedIsRecord
<1>1. AssistantInv => CitedIsRecord
  BY DEF AssistantInv, CitedIsRecord, Grounded, Real
<1>. QED
  BY <1>1, AssistantAlways, PTL

\* The pulls keep their promise with the agent, the image workers and the
\* retention at work beside them.
THEOREM PulledFramesInUse == Spec => []PulledIsStored
<1>1. AssistantInv => PulledIsStored
  BY DEF AssistantInv, PullInv, FrameInv, Filed, Good, PulledIsStored
<1>. QED
  BY <1>1, AssistantAlways, PTL

\* Both limiters hold, that of the pulls and that of the questions.
THEOREM BothLimitsHold == Spec => []AdmittedPerWindow
<1>1. AssistantInv => AdmittedPerWindow
  BY LimiterInvAdmitted DEF AssistantInv, PullInv
<1>. QED
  BY <1>1, AssistantAlways, PTL

\* A step of the pulls, or one that leaves them and the rows of frames alone.
LEMMA PullsOrAround ==
  ASSUME AssistantInv, [Next]_vars
  PROVE  \/ [PullNext]_frameVars
         \/ UNCHANGED pullVars /\ \A f \in Frames : row'[f] = row[f]
<1>. DEFINE Apt == \/ [PullNext]_frameVars
                   \/ UNCHANGED pullVars /\ \A f \in Frames : row'[f] = row[f]
<1>. SUFFICES Apt
  OBVIOUS
<1>0. PullInv
  BY DEF AssistantInv
<1>1. ASSUME RecordStep, UNCHANGED pullVars PROVE Apt
  BY <1>0, <1>1, RecordsAroundPulls
<1>2. ASSUME UNCHANGED <<records, pullVars>> PROVE Apt
  BY <1>2 DEF records
<1>3. ASSUME PullNext \/ UNCHANGED frameVars PROVE Apt
  BY <1>3
<1>. HIDE DEF Apt
<1>4. ASSUME NEW a \in Asks, Ending(a) PROVE Apt
  BY <1>3, <1>4, Zenon DEF Ending, RefuseBackend, ReceiveAsk, Answer, BackendRejects,
                           AnswerReplaced, GiveUp, AskFails, PullTimesOut
<1>5. ASSUME NEW a \in Asks, AllowAsk(a) \/ RefuseAsk(a) PROVE Apt
  BY <1>2, <1>5 DEF AllowAsk, RefuseAsk
<1>6. ASSUME NEW a \in Asks, Asking(a) PROVE Apt
  BY <1>1, <1>6, AskingLearns, Zenon
<1>7. ASSUME NEW a \in Asks, NEW t \in Threads, NEW f \in Frames, PullFrame(a, t, f) PROVE Apt
  BY <1>3, <1>7, Zenon DEF PullFrame, PullNext
<1>8. ASSUME NEW a \in Asks, PullReturns(a) PROVE Apt
  <2>1. ask[a].thread \in Threads
    BY <1>8 DEF PullReturns, Phase, AssistantInv, AsksOK, Waits
  <2>. QED
    BY <1>3, <1>8, <2>1 DEF PullReturns, PullNext
<1>9. ASSUME NEW t \in Threads, PullRuns(t) \/ DropResponse(t) PROVE Apt
  BY <1>3, <1>9, Zenon DEF PullRuns, DropResponse, PullNext
<1>10. ASSUME NEW t \in Threads, NEW f \in Frames, OtherPull(t, f) PROVE Apt
  BY <1>3, <1>10, Zenon DEF OtherPull, PullNext
<1>11. CASE Tick /\ UNCHANGED <<records, pullVars, assistantVars>>
  BY <1>2, <1>11
<1>12. ASSUME NEW f \in Frames, IndexFrame(f) /\ UNCHANGED <<limiterVars, pullVars, assistantVars>>
       PROVE  Apt
  BY <1>1, <1>12 DEF RecordStep
<1>13. ASSUME NEW i \in Images, PruneImage(i) /\ UNCHANGED <<limiterVars, pullVars, assistantVars>>
       PROVE  Apt
  BY <1>1, <1>13 DEF RecordStep
<1>14. CASE ApiDies
  BY <1>3, <1>14, Zenon DEF ApiDies, PullNext
<1>15. CASE AgentDies
  BY <1>2, <1>15 DEF AgentDies
<1>16. CASE UNCHANGED vars
  BY <1>3, <1>16 DEF vars
<1>. QED
  BY <1>4, <1>5, <1>6, <1>7, <1>8, <1>9, <1>10, <1>11, <1>12, <1>13, <1>14, <1>15, <1>16,
     StepCases, Zenon

\* They are atomic among the steps of the agent too.
LEMMA AtomicInUse ==
  ASSUME AssistantInv, AnswerInv, [Next]_vars
  PROVE  AnswerInv' /\ [Atomic!AtomicNext]_Atomic!atomicVars
<1>1. CASE [PullNext]_frameVars
  BY <1>1, AtomicStep DEF AtomicInv, AssistantInv
<1>2. CASE UNCHANGED pullVars /\ \A f \in Frames : row'[f] = row[f]
  BY <1>2 DEF pullVars, AnswerInv, Atomic!atomicVars, Complete
<1>. QED
  BY <1>1, <1>2, PullsOrAround

\* For a tool of the agent as for any other client a pull is one step, while
\* tools time out, images are pruned and either service restarts.
THEOREM PullsAtomicInUse == Spec => PullsAreAtomic
<1>1. Init => AnswerInv /\ Atomic!AtomicInit
  BY AtomicStart DEF Init
<1>2. AssistantInv /\ AnswerInv /\ [Next]_vars => AnswerInv'
  BY AtomicInUse
<1>3. AssistantInv /\ AnswerInv /\ [Next]_vars => [Atomic!AtomicNext]_Atomic!atomicVars
  BY AtomicInUse
<1>. QED
  BY <1>1, <1>2, <1>3, AssistantAlways, PTL DEF Spec, PullsAreAtomic, Atomic!AtomicSpec

=============================================================================

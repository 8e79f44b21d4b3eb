------------------------------ MODULE Assistant ------------------------------
(***************************************************************************)
(* One question to the agent, with the Search API behind its tools:        *)
(*   src/services/panoptic_agent/app.py        the ask endpoint            *)
(*   src/services/panoptic_agent/agent.py      the loop                    *)
(*   src/services/panoptic_agent/tools.py, client.py        the tools      *)
(*   src/services/panoptic_agent/citations.py  the citation check          *)
(*   src/services/panoptic_agent/backends/     the models                  *)
(*                                                                         *)
(* What a model says is any of the things the loop tells apart.  Ids are   *)
(* 64 hex digits; what else the model may write in an answer is a marker,  *)
(* of which only the ids it is a prefix of count.                          *)
(***************************************************************************)
EXTENDS FramePull

CONSTANTS
  Asks,           \* questions, each asked once
  Backends,       \* registered models
  BackendOrder,   \* the sequence they are registered in
  Configured,     \* AGENT_DEFAULT_BACKEND
  Gemma,          \* the first choice when the configured one is down
  NoThread,       \* a question that waits for no pull
  NoBackend,      \* a question that names no backend
  MaxIterations,  \* AGENT_MAX_ITERATIONS (8)
  Invented,       \* strings of 64 hex digits that are no record's id
  Markers,        \* hex runs an answer may contain
  Matches,        \* [Markers -> sets of 64-digit strings they abbreviate]
  MaxMarkers      \* bound: hex runs in one answer

Words == Ids \cup Invented

ASSUME AssistantAssumption ==
  /\ Configured # NoBackend
  /\ NoBackend \notin Backends
  /\ NoThread \notin Threads
  /\ MaxIterations \in Nat
  /\ Invented \cap Ids = {}
  /\ Matches \in [Markers -> SUBSET Words]
  /\ "asks" \in Limiters

VARIABLES
  available,  \* backends whose probe succeeded when the agent started
  ask         \* [Asks -> the question's request]

assistantVars == <<available, ask>>
vars == <<frameVars, assistantVars>>

EndPhases == {"answered", "400", "429", "500", "503", "lost"}

AskPhases == {"new", "limit", "thinking", "calling"} \cup EndPhases

\* is_report_related_question: may the model call the tool that writes?
Kinds == {"question", "report"}

\* The backends that may answer the probes of a start.
Probes == SUBSET Backends

NewAsk == [phase |-> "new", stamp |-> 0, left |-> MaxIterations, kind |-> "question",
           thread |-> NoThread, known |-> {}, asked |-> {}, cited |-> {}]

Init ==
  /\ PullInit
  /\ available \in Probes
  /\ ask = [a \in Asks |-> NewAsk]

Phase(a, phase) == ask[a].phase = phase

End(a, phase) == ask' = [ask EXCEPT ![a] = [NewAsk EXCEPT !.phase = phase]]

-----------------------------------------------------------------------------
(* agent_ask: the backend, then the limiter *)

\* resolve_default, once at startup.
Default(av) ==
  LET up == {k \in DOMAIN BackendOrder : BackendOrder[k] \in av}
  IN  CASE Configured \in av               -> Configured
        [] Configured \notin av /\ Gemma \in av -> Gemma
        [] av \cap {Configured, Gemma} = {} ->
             IF up = {} THEN Configured
             ELSE BackendOrder[CHOOSE k \in up : \A j \in up : k <= j]

\* 400: the named backend is unknown or down.  503: so is the default.
RefuseBackend(a, b) ==
  /\ Phase(a, "new")
  /\ IF b = NoBackend
     THEN Default(available) \notin available /\ End(a, "503")
     ELSE b \notin available /\ End(a, "400")
  /\ UNCHANGED <<frameVars, available>>

ReceiveAsk(a, b, kind) ==
  /\ Phase(a, "new")
  /\ (IF b = NoBackend THEN Default(available) ELSE b) \in available
  /\ ask' = [ask EXCEPT ![a].phase = "limit", ![a].stamp = clock, ![a].kind = kind]
  /\ UNCHANGED <<frameVars, available>>

AllowAsk(a) ==
  /\ Phase(a, "limit")
  /\ Admit("asks", ask[a].stamp)
  /\ ask' = [ask EXCEPT ![a].phase = "thinking"]
  /\ UNCHANGED <<records, pullVars, available>>

RefuseAsk(a) ==
  /\ Phase(a, "limit")
  /\ Refuse("asks", ask[a].stamp)
  /\ End(a, "429")
  /\ UNCHANGED <<records, pullVars, available>>

-----------------------------------------------------------------------------
(* run_agent: one iteration is one answer of the model *)

Thinking(a) == Phase(a, "thinking") /\ ask[a].left > 0

\* A tool's output, whole, is what citations are checked against; the model
\* may have seen less.  said: ids the model put into the call itself.
Learned(a, said, output) ==
  [ask[a] EXCEPT !.left = @ - 1, !.known = @ \cup output, !.asked = @ \cup said]

Learn(a, said, output) ==
  /\ ask' = [ask EXCEPT ![a] = Learned(a, said, output)]
  /\ UNCHANGED <<limiterVars, pullVars, available>>

\* At most one id in the query, scope or tool name of a call.
Said == {{}} \cup {{w} : w \in Words}

\* A response repeats the request's query or scope.
SearchTool(a) ==
  /\ Thinking(a)
  /\ \E hits \in Search \cup Verify : \E said \in Said : Learn(a, said, said \cup hits)
  /\ UNCHANGED records

BrowseTool(a) ==
  /\ Thinking(a)
  /\ \E hits \in Browse : Learn(a, {}, hits)
  /\ UNCHANGED records

PeriodTool(a) ==
  /\ Thinking(a)
  /\ \E shown \in SummarizePeriod \cup TrailerDay : \E said \in Said :
       Learn(a, said, said \cup shown)
  /\ UNCHANGED records

ReportsTool(a) ==
  /\ Thinking(a)
  /\ \E shown \in FleetOverview \cup ListReports : Learn(a, {}, shown)
  /\ UNCHANGED records

\* get_event, get_summary, get_image, get_report: the error of a 404 is the
\* tool's output.
DetailTool(a) ==
  /\ Thinking(a)
  /\ \E w \in Words : \E shown \in RecordDetail(w) \cup ReportDetail(w) : Learn(a, {w}, shown)
  /\ UNCHANGED records

\* Any other error; that of an unknown tool repeats its name.
ToolFails(a) ==
  /\ Thinking(a)
  /\ \E said \in Said : Learn(a, said, said)
  /\ UNCHANGED records

\* The response may be late: then the row is there and the output an error.
WriteReport(a) ==
  /\ Thinking(a)
  /\ ask[a].kind = "report"
  /\ \E r \in Reports :
       /\ GenerateDailyReport(r)
       /\ \E output \in {{r}, {}} : Learn(a, {}, output)

\* PermissionError: the question did not ask for a report.
WriteBlocked(a) ==
  /\ Thinking(a)
  /\ ask[a].kind # "report"
  /\ Learn(a, {}, {})
  /\ UNCHANGED records

PullFrame(a, t, f) ==
  /\ Thinking(a)
  /\ RequestPull(t, f)
  /\ ask' = [ask EXCEPT ![a].phase = "calling", ![a].thread = t]
  /\ UNCHANGED available

\* Mutant: the call that is over is not forgotten.
BackOnly(a, output) == [Learned(a, {}, output) EXCEPT !.phase = "thinking"]

Back(a, output) == [Learned(a, {}, output) EXCEPT !.phase = "thinking", !.thread = NoThread]

PullReturns(a) ==
  /\ Phase(a, "calling")
  /\ LET t == ask[a].thread
         said == IF pull[t].answer \in {"created", "already_exists"} THEN {pull[t].frame} ELSE {}
     IN  /\ Collect(t)
         /\ ask' = [ask EXCEPT ![a] = Back(a, said)]
  /\ UNCHANGED available

\* Mutant: a client without timeout.
PullTimesOutNever(a) ==
  /\ Phase(a, "calling")
  /\ At(ask[a].thread, "idle")
  /\ ask' = [ask EXCEPT ![a] = Back(a, {})]
  /\ UNCHANGED <<frameVars, available>>

\* The client gives up after 20 s; the thread goes on.
PullTimesOut(a) ==
  /\ Phase(a, "calling")
  /\ ask' = [ask EXCEPT ![a] = Back(a, {})]
  /\ UNCHANGED <<frameVars, available>>

\* Not the JSON of the protocol, or an action it does not have.
ParseFails(a) ==
  /\ Thinking(a)
  /\ Learn(a, {}, {})
  /\ UNCHANGED records

\* Mutant: a marker of full length needs no match in the trace.
ResolveAny(m, known) == Matches[m]

\* The one known id the marker abbreviates; with several it is unverified.
Resolve(m, known) ==
  IF Cardinality(Matches[m] \cap known) = 1 THEN Matches[m] \cap known ELSE {}

Answer(a, markers) ==
  /\ Thinking(a)
  /\ LET cited == UNION {Resolve(m, ask[a].known) : m \in markers}
     IN  ask' = [ask EXCEPT ![a] = [NewAsk EXCEPT
           !.phase = "answered", !.cited = cited, !.asked = ask[a].asked \cap cited]]
  /\ UNCHANGED <<frameVars, available>>

\* The backend returned None, as on any error: the answer says so.
BackendRejects(a) ==
  /\ Thinking(a)
  /\ End(a, "answered")
  /\ UNCHANGED <<frameVars, available>>

\* The answer was no object; it is replaced by one that says so.
AnswerReplaced(a) ==
  /\ Thinking(a)
  /\ End(a, "answered")
  /\ UNCHANGED <<frameVars, available>>

\* The iteration cap.
GiveUp(a) ==
  /\ Phase(a, "thinking")
  /\ ask[a].left = 0
  /\ End(a, "answered")
  /\ UNCHANGED <<frameVars, available>>

\* An exception that leaves the adapter, as for a body that is no JSON: 500.
AskFails(a) ==
  /\ Thinking(a)
  /\ End(a, "500")
  /\ UNCHANGED <<frameVars, available>>

-----------------------------------------------------------------------------
(* Around it *)

OtherPull(t, f) == RequestPull(t, f) /\ UNCHANGED assistantVars

PullRuns(t) == (PullStep(t) \/ DatabaseFails(t)) /\ UNCHANGED assistantVars

Awaited(t) == \E a \in Asks : Phase(a, "calling") /\ ask[a].thread = t

\* Nobody waits for the response any more.
DropResponse(t) ==
  /\ ~Awaited(t)
  /\ Collect(t)
  /\ UNCHANGED assistantVars

\* The connections of waiting tools break: an error like any other.
ApiDies ==
  /\ ApiRestart
  /\ ask' = [a \in Asks |-> IF Phase(a, "calling") THEN Back(a, {}) ELSE ask[a]]
  /\ UNCHANGED available

Ended(a) == ask[a].phase \in EndPhases

\* Questions at work are lost; the backends are probed again.
AgentDies ==
  /\ Forget("asks")
  /\ available' \in Probes
  /\ ask' = [a \in Asks |-> IF Phase(a, "new") \/ Ended(a) THEN ask[a]
                            ELSE [NewAsk EXCEPT !.phase = "lost"]]
  /\ UNCHANGED <<records, pullVars>>

Surroundings ==
  \/ Tick /\ UNCHANGED <<records, pullVars, assistantVars>>
  \/ \E f \in Frames : IndexFrame(f) /\ UNCHANGED <<limiterVars, pullVars, assistantVars>>
  \/ \E i \in Images : PruneImage(i) /\ UNCHANGED <<limiterVars, pullVars, assistantVars>>
  \/ ApiDies
  \/ AgentDies

\* What the agent does with a question it has received.
AskStep(a) ==
  \/ AllowAsk(a) \/ RefuseAsk(a)
  \/ SearchTool(a) \/ BrowseTool(a) \/ PeriodTool(a) \/ ReportsTool(a)
  \/ DetailTool(a) \/ ToolFails(a) \/ WriteReport(a) \/ WriteBlocked(a)
  \/ \E t \in Threads, f \in Frames : PullFrame(a, t, f)
  \/ PullReturns(a) \/ PullTimesOut(a) \/ ParseFails(a)
  \/ \E markers \in {ms \in SUBSET Markers : Cardinality(ms) <= MaxMarkers} : Answer(a, markers)
  \/ BackendRejects(a) \/ AnswerReplaced(a) \/ GiveUp(a) \/ AskFails(a)

Next ==
  \/ \E a \in Asks : \E b \in Backends \cup {NoBackend} : RefuseBackend(a, b)
  \/ \E a \in Asks : \E b \in Backends \cup {NoBackend}, kind \in Kinds :
       ReceiveAsk(a, b, kind)
  \/ \E a \in Asks : AskStep(a)
  \/ \E t \in Threads : PullRuns(t) \/ DropResponse(t)
  \/ \E t \in Threads, f \in Frames : OtherPull(t, f)
  \/ Surroundings

\* The loop never waits without a timeout: for a model, the API or a lock.
Spec == Init /\ [][Next]_vars /\ \A a \in Asks : WF_vars(AskStep(a))

-----------------------------------------------------------------------------
AssistantTypeOK ==
  /\ PullTypeOK
  /\ available \subseteq Backends
  /\ ask \in [Asks -> [phase : AskPhases, stamp : Nat, left : 0 .. MaxIterations,
                       kind : Kinds, thread : Threads \cup {NoThread},
                       known : SUBSET Words, asked : SUBSET Words, cited : SUBSET Words]]
  /\ \A a \in Asks : Phase(a, "calling") <=> ask[a].thread \in Threads

(***************************************************************************)
(* A verified citation is the id of a record that exists or existed until  *)
(* it was pruned, or one the model itself put into a call of this turn:    *)
(* the responses and errors repeat it, and the check cannot tell it from   *)
(* what a tool found ("must reference a real ID that appeared in a tool    *)
(* output in this turn", docs/AGENT.md:173-174).                           *)
(***************************************************************************)
CitedIsRecord ==
  \A a \in Asks : \A x \in ask[a].cited :
    (x \in Ids /\ row[x] # "absent") \/ x \in ask[a].asked

(***************************************************************************)
(* Every question that is received is answered, refused, or lost with the  *)
(* agent: whatever the model says and the tools do, the iteration cap, the *)
(* client's timeout and the limiter bring it to an end.                    *)
(***************************************************************************)
EveryAskEnds == \A a \in Asks : ask[a].phase # "new" ~> Ended(a)

=============================================================================

---------------------------- MODULE AgentSessions ----------------------------
(***************************************************************************)
(* The agent of src/agent: LangChainAgentRuntime over AgentService, the    *)
(* MCP tools and the macro service, with the conversation context of each  *)
(* session.  A call takes its session's context and a hint from it, waits  *)
(* for the tools, is validated, and is then recorded as a turn: calls of   *)
(* one session overlap at the wait.                                        *)
(*                                                                         *)
(* A comparison's prior values are what the client was given of a stored   *)
(* snapshot.  Contexts are objects: clearing a session forgets the object, *)
(* and a call that holds it goes on with it.                               *)
(***************************************************************************)
EXTENDS MacroIngestion

CONSTANTS Calls,       \* invocations
          Sessions,    \* session ids; Nil stands for a request without one
          Countries,
          MaxTurns     \* max_context_turns

\* a context without room for a turn is refused: "max_turns must be >= 1"
ASSUME TurnsAssumption == MaxTurns \in Nat \ {0}

VARIABLES contexts,    \* sessions -> generation of the context stored, 0 for none
          turns,       \* <<session, generation>> -> its recorded turns
          active,      \* <<session, generation>> -> its active parameters
          call         \* what each invocation is doing

sessions == <<contexts, turns, active, call>>
agentVars == <<feed, now, ingestion, sessions>>

\* the per-instance context, of requests without a session, exists from the start
Keys == (Sessions \cup {Nil}) \X (1..2)
NoParameters == [country |-> Nil, target |-> Nil]
NotCalled == [pc |-> "new", request |-> Nil, key |-> Nil, hint |-> Nil, answer |-> Nil]

\* of the snapshot stored last, or none
Priors == {<<>>} \cup (IF snapshots = <<>> THEN {} ELSE {Latest.features})
SignalLists == {<<"hold_neutral", "recession_warning">>, <<"bull_market", "gone">>}
Requests ==
  [op : {"review"}, country : Countries, ids : SignalLists, prior : {Nil}]
    \cup [op : {"summarize"}, country : Countries, ids : {Nil}, prior : {Nil}]
    \cup [op : {"compare"}, country : Countries, ids : {Nil}, prior : Priors]

AgentInit ==
  /\ InitIngestion
  /\ contexts = [s \in Sessions \cup {Nil} |-> IF s = Nil THEN 1 ELSE 0]
  /\ turns = [k \in Keys |-> <<>>] /\ active = [k \in Keys |-> NoParameters]
  /\ call = [c \in Calls |-> NotCalled]

-----------------------------------------------------------------------------
(* The service: one answer per operation, an error instead of an exception *)

Failure(reason, category) == [success |-> FALSE, error |-> reason, category |-> category]

\* the MCP tools: get_snapshot raises when it has no feature
SnapshotTool(current) ==
  IF DOMAIN current = {} THEN Failure("no_snapshot", "unknown")
  ELSE [success |-> TRUE, features |-> Cardinality(DOMAIN current)]

SignalEngineTool(ids, current) ==
  IF \E n \in DOMAIN ids : ids[n] \notin DOMAIN Registry THEN Failure("unknown_signal", Nil)
  ELSE IF DOMAIN current = {} THEN Failure("no_snapshot", "unknown")
  ELSE [success |-> TRUE, counts |-> SignalCounts(ids)]

\* MCPToolError carries the message only: the category ends here
Called(response) == IF response.success THEN response ELSE Failure(response.error, Nil)

ReviewSignals(request, current) == Called(SignalEngineTool(request.ids, current))

SummarizeSnapshot(current) == Called(SnapshotTool(current))

CompareSnapshots(request, current) ==
  IF DOMAIN request.prior = {} THEN Failure("no_prior", Nil)
  ELSE IF DOMAIN current = {} THEN Failure("no_snapshot", Nil)
  ELSE [success |-> TRUE, changes |-> Comparison(current, request.prior)]

Answer(request, current) ==
  CASE request.op = "review" -> ReviewSignals(request, current)
    [] request.op = "summarize" -> SummarizeSnapshot(current)
    [] OTHER -> CompareSnapshots(request, current)

\* validate_runtime_result: signals are of the three directions
Valid(answer) ==
  answer.success /\ "counts" \in DOMAIN answer =>
    LET n == answer.counts IN n.generated = n.buy + n.sell + n.hold

-----------------------------------------------------------------------------
(* The runtime *)

\* a runtime that keeps one context for everybody
ResolveShared(s) == <<Nil, 1>>

\* _resolve_context: the session's, made when there is none; a request without a
\* session has the per-instance one
ResolveContext(s) == <<s, IF contexts[s] = 0 THEN 1 ELSE contexts[s]>>

LastTurns(list, n) == IF Len(list) <= n THEN list ELSE SubSeq(list, Len(list) - n + 1, Len(list))

Invoke(c, s, request) ==
  LET key == ResolveContext(s) IN
  /\ call[c].pc = "new"
  /\ contexts' = [contexts EXCEPT ![s] = key[2]]
  /\ call' = [call EXCEPT ![c] =
       [pc |-> "waiting", request |-> request, key |-> key, answer |-> Nil,
        hint |-> [session |-> s, active |-> active[key], turns |-> LastTurns(turns[key], 3)]]]
  /\ UNCHANGED <<feed, now, ingestion, turns, active>>

\* AnalysisParameters.merge: what the turn does not say is inherited
Merge(request, prior) ==
  [country |-> request.country,
   target |-> IF request.op = "compare" THEN request.prior ELSE prior.target]

\* a deque that keeps what came first
KeepFirst(list, turn) == IF Len(list) < MaxTurns THEN Append(list, turn) ELSE list

\* deque(maxlen = max_turns)
AddTurn(list, turn) == LastTurns(Append(list, turn), MaxTurns)

Return(c) ==
  /\ call[c].pc = "waiting"
  /\ LET current == SnapshotFeatures(Provider, feed)
         answer == Answer(call[c].request, current)
         key == call[c].key
         turn == [by |-> c, success |-> answer.success]
     IN /\ call' = [call EXCEPT ![c].pc = IF Valid(answer) THEN "answered" ELSE "raised",
                                ![c].answer = answer]
        /\ IF Valid(answer)
           THEN /\ turns' = [turns EXCEPT ![key] = AddTurn(@, turn)]
                /\ active' = [active EXCEPT ![key] = Merge(call[c].request, @)]
           ELSE UNCHANGED <<turns, active>>
  /\ UNCHANGED <<feed, now, ingestion, contexts>>

\* InMemoryContextStore.clear, then a new object on the next request
ClearSession(s) ==
  /\ contexts[s] = 1 /\ contexts' = [contexts EXCEPT ![s] = 2]
  /\ UNCHANGED <<feed, now, ingestion, turns, active, call>>

AgentNext ==
  \/ \E c \in Calls, s \in Sessions \cup {Nil}, request \in Requests : Invoke(c, s, request)
  \/ \E c \in Calls : Return(c)
  \/ \E s \in Sessions : ClearSession(s)
  \/ IngestionNext /\ UNCHANGED sessions

AgentSpec == AgentInit /\ [][AgentNext]_agentVars

-----------------------------------------------------------------------------
(* Properties *)

\* "no context leaks between different IDs": a call's hint was put together from
\* calls of its own session.
SessionsAreIsolated ==
  \A c \in Calls : call[c].pc # "new" =>
    \A n \in DOMAIN call[c].hint.turns :
      call[call[c].hint.turns[n].by].hint.session = call[c].hint.session

\* What the next hint is made of belongs together: calls overlap, but the active
\* country is that of the last turn the hint tells, and the turns kept are the
\* latest in the order of their answers.
HintIsOfTheLatest ==
  \A k \in Keys :
    turns[k] # <<>> => active[k].country = call[Last(turns[k]).by].request.country
=============================================================================

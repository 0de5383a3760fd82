---------------------------- MODULE CommandDesk -----------------------------
(***************************************************************************)
(* The two routes of main.py that wait for a language model: commands,     *)
(* answered by an agent on a worker thread or else by a fixed scenario,    *)
(* and the market brief with its cache.  Everything but the agent's tools  *)
(* and the model's calls runs on the event loop.                           *)
(*                                                                         *)
(* As in PortfolioViews the broker's book is the number of its last        *)
(* commit.  A market is what the regime and macro caches hold, as far as   *)
(* the brief tells markets apart: [name, VIX], VIX in hundredths.          *)
(***************************************************************************)
EXTENDS Synthesis

CONSTANTS Commands,     \* commands received
          Queries,      \* sets of words a command may consist of
          Readers,      \* pages that show the brief
          Markets,      \* states of the market
          BriefTTL,     \* _BRIEF_TTL
          MaxVersion,   \* bound: commits made to the book, plus one
          MaxChanges,   \* bound: changes of the market
          MaxFailures   \* bound: failures of the agent, its build and the database

Failed == 0                      \* what a failed read returns: {} or []

VARIABLES market, changes,
          version,      \* the committed book
          executor,     \* _AGENT_EXECUTOR is built
          agent,        \* the worker thread of a command: its state and the
                        \* commit of its last order
          route,        \* the coroutine of a command: where it is, the query and
                        \* whether it streams
          answer,       \* what a command was answered
          brief,        \* _BRIEF_CACHE, and the age _BRIEF_CACHE_TS gives it
          call,         \* the market a reader's call of the model describes, or Nil
          shown,        \* the market of the brief a reader was last shown, or Nil
          failures

commandVars == <<version, executor, agent, route, answer>>
briefVars == <<brief, call, shown>>
vars == <<market, changes, commandVars, briefVars, failures>>

NoAnswer == [kind |-> "none", status |-> "none", acc |-> Failed, hold |-> Failed]
NoBrief == [set |-> FALSE, of |-> Nil, source |-> "none", signal |-> "none", age |-> 0]

Init ==
  /\ market \in Markets /\ changes = 0
  /\ version = 1
  /\ executor = FALSE
  /\ agent = [c \in Commands |-> [at |-> "idle", own |-> Failed]]
  /\ route = [c \in Commands |-> [at |-> "none", words |-> {}, streams |-> FALSE]]
  /\ answer = [c \in Commands |-> NoAnswer]
  /\ brief = NoBrief
  /\ call = [r \in Readers |-> Nil]
  /\ shown = [r \in Readers |-> Nil]
  /\ failures = 0

\* Between its two reads a coroutine does not let the event loop go.
LoopFree == \A c \in Commands : route[c].at # "holdings"

Fails == failures < MaxFailures /\ failures' = failures + 1
Go(c, to) == route' = [route EXCEPT ![c].at = to]

-----------------------------------------------------------------------------
(* Around the two routes.                                                  *)

MarketMoves ==
  /\ changes < MaxChanges
  /\ changes' = changes + 1
  /\ market' \in Markets \ {market}
  /\ UNCHANGED <<commandVars, briefVars, failures>>

\* An order or a reset of somebody else commits.
BookChanges ==
  /\ version < MaxVersion
  /\ version' = version + 1
  /\ UNCHANGED <<market, changes, executor, agent, route, answer, briefVars, failures>>

Tick ==
  /\ brief.set /\ brief.age < BriefTTL
  /\ brief' = [brief EXCEPT !.age = @ + 1]
  /\ UNCHANGED <<market, changes, commandVars, call, shown, failures>>

-----------------------------------------------------------------------------
(* Commands.                                                               *)

\* intelligence_command and intelligence_command_stream: the agent is built by
\* the first command that comes, and again by the next one if that raised.
Receive(c, words, streams) ==
  /\ route[c].at = "none" /\ LoopFree
  /\ \/ /\ executor' = TRUE
        /\ agent' = [agent EXCEPT ![c].at = "runs"]
        /\ route' = [route EXCEPT ![c] =
                       [at |-> "agent", words |-> words, streams |-> streams]]
        /\ UNCHANGED failures
     \/ /\ ~executor /\ Fails
        /\ route' = [route EXCEPT ![c] =
                       [at |-> "fallback", words |-> words, streams |-> streams]]
        /\ UNCHANGED <<executor, agent>>
  /\ UNCHANGED <<market, changes, version, answer, briefVars>>

\* An order placed by the agent's tool.
AgentOrders(c) ==
  /\ agent[c].at = "runs"
  /\ version < MaxVersion
  /\ version' = version + 1
  /\ agent' = [agent EXCEPT ![c].own = version']
  /\ UNCHANGED <<market, changes, executor, route, answer, briefVars, failures>>

\* invoke returns or raises, on the worker.
AgentEnds(c) ==
  /\ agent[c].at = "runs"
  /\ \/ agent' = [agent EXCEPT ![c].at = "returned"] /\ UNCHANGED failures
     \/ agent' = [agent EXCEPT ![c].at = "raised"] /\ Fails
  /\ UNCHANGED <<market, changes, version, executor, route, answer, briefVars>>

\* A streaming client goes: its coroutine ends, the worker thread does not.
Leave(c) ==
  /\ route[c].streams /\ route[c].at \in {"agent", "fallback", "told"} /\ LoopFree
  /\ Go(c, "left")
  /\ UNCHANGED <<market, changes, version, executor, agent, answer, briefVars, failures>>

\* A read of the book: what is committed, or nothing if the database fails.
Reading(v) ==
  \/ v = version /\ UNCHANGED failures
  \/ v = Failed /\ Fails

\* The summary not refreshed by force: any book it may have cached.
ReadCached(v) == v \in 1 .. version /\ UNCHANGED failures

\* _build_portfolio_summary(force_refresh=True): the cache is not looked at.
ReadForced(v) == Reading(v)

\* _run_agent_async goes on when the agent has returned: the engines run and the
\* summary reads the accounts.  What raises here leads to the fallback as well.
ReadAccounts(c) ==
  /\ route[c].at = "agent" /\ agent[c].at = "returned" /\ LoopFree
  /\ \/ /\ \E v \in 0 .. version : ReadForced(v) /\ answer' = [answer EXCEPT ![c].acc = v]
        /\ Go(c, "holdings")
     \/ Fails /\ Go(c, "fallback") /\ UNCHANGED answer
  /\ UNCHANGED <<market, changes, version, executor, agent, briefVars>>

\* ... and the holdings; the answer is complete.  A stream tells it word by word.
ReadHoldings(c) ==
  /\ route[c].at = "holdings"
  /\ \E v \in 0 .. version :
       /\ ReadForced(v)
       /\ answer' = [answer EXCEPT ![c] =
                       [kind |-> "agent", status |-> "ANALYZED", acc |-> @.acc, hold |-> v]]
  /\ Go(c, IF route[c].streams THEN "told" ELSE "done")
  /\ UNCHANGED <<market, changes, version, executor, agent, briefVars>>

AgentRaised(c) ==
  /\ route[c].at = "agent" /\ agent[c].at = "raised" /\ LoopFree
  /\ Go(c, "fallback")
  /\ UNCHANGED <<market, changes, version, executor, agent, answer, briefVars, failures>>

\* The scenarios of _OMNI_SCENARIOS, each with its keywords.
OmniScenarios ==
  << [name |-> "tech", keywords |-> {"tech", "q3", "exposure", "reduce", "trim"}],
     [name |-> "korea", keywords |-> {"korea", "kr", "semiconductor", "hbm", "samsung",
                                      "hynix", "memory"}],
     [name |-> "regime", keywords |-> {"regime", "cycle", "tightening", "contraction",
                                       "recession", "rate", "rates"}] >>

\* The answer without an agent: a scenario, and nothing about the book.
Fallback(c) ==
  /\ route[c].at = "fallback" /\ LoopFree
  /\ LET scenario == MatchScenario(route[c].words, OmniScenarios)
     IN  answer' = [answer EXCEPT ![c] =
                      [NoAnswer EXCEPT !.kind = scenario,
                         !.status = IF scenario = "default" THEN "SYNCING" ELSE "ANALYZED"]]
  /\ Go(c, IF route[c].streams THEN "told" ELSE "done")
  /\ UNCHANGED <<market, changes, version, executor, agent, briefVars, failures>>

\* The meta event, the words and the end of a stream have been sent.
Told(c) ==
  /\ route[c].at = "told" /\ LoopFree
  /\ Go(c, "done")
  /\ UNCHANGED <<market, changes, version, executor, agent, answer, briefVars, failures>>

CommandStep(c) ==
  \/ AgentEnds(c) \/ ReadAccounts(c) \/ ReadHoldings(c) \/ AgentRaised(c) \/ Fallback(c)
  \/ Told(c)

-----------------------------------------------------------------------------
(* The brief.                                                              *)

\* The age test left out.
BriefIsKept == brief.set

BriefIsFresh == brief.set /\ brief.age < BriefTTL

\* get_narrative_brief: the cached brief, or the market is described as it is now
\* and the model called with that on a worker thread.
AskBrief(r) ==
  /\ call[r] = Nil /\ LoopFree
  /\ IF BriefIsFresh
     THEN shown' = [shown EXCEPT ![r] = brief.of] /\ UNCHANGED call
     ELSE call' = [call EXCEPT ![r] = market] /\ UNCHANGED shown
  /\ UNCHANGED <<market, changes, commandVars, brief, failures>>

\* What a call comes to: the model's answer about the market it was told of,
\* well-formed or not, or the rules' about the market of this moment.
BriefOf(r) ==
  {[set |-> TRUE, of |-> call[r], source |-> "llm", signal |-> "the model's", age |-> 0],
   [set |-> TRUE, of |-> call[r], source |-> "llm_unstructured", signal |-> "NEUTRAL", age |-> 0],
   [set |-> TRUE, of |-> market, source |-> "fallback",
    signal |-> FallbackSignal(market, market), age |-> 0]}

\* Back on the event loop the result replaces whatever the cache holds by now.
StoreBrief(r) ==
  /\ call[r] # Nil /\ LoopFree
  /\ brief' \in BriefOf(r)
  /\ shown' = [shown EXCEPT ![r] = brief'.of]
  /\ call' = [call EXCEPT ![r] = Nil]
  /\ UNCHANGED <<market, changes, commandVars, failures>>

-----------------------------------------------------------------------------
Next ==
  \/ MarketMoves \/ BookChanges \/ Tick
  \/ \E c \in Commands, words \in Queries, streams \in BOOLEAN : Receive(c, words, streams)
  \/ \E c \in Commands : AgentOrders(c) \/ Leave(c) \/ CommandStep(c)
  \/ \E r \in Readers : AskBrief(r) \/ StoreBrief(r)

\* What was begun goes on and time passes; readers ask again and again.  Nobody
\* has to send a command.
Fairness ==
  /\ \A c \in Commands : WF_vars(CommandStep(c))
  /\ \A r \in Readers : WF_vars(StoreBrief(r)) /\ WF_vars(AskBrief(r))
  /\ WF_vars(Tick)

Spec == Init /\ [][Next]_vars
FairSpec == Spec /\ Fairness

-----------------------------------------------------------------------------
(* Properties.                                                             *)

\* A portfolio that an agent's answer shows holds the orders the agent has placed
\* for that command: neither cash nor positions are those from before.
AnswerHoldsItsOrders ==
  \A c \in Commands : answer[c].kind = "agent" =>
    \A seen \in {answer[c].acc, answer[c].hold} \ {Failed} : seen >= agent[c].own

\* Once the market rests every reader is shown a brief of it, for good: slow calls
\* that were told of an earlier market do not keep their answers in the cache.
BriefCatchesUp == <>[](\A r \in Readers : shown[r] = market)
=============================================================================

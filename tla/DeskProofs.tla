------------------------------ MODULE DeskProofs ------------------------------
(***************************************************************************)
(* The answers of src/main.py.  Commands: for any commands, any number of  *)
(* commits and failures, what an agent's answer shows of the portfolio is  *)
(* not older than the orders the agent placed for that command.  Engines:  *)
(* for any prices and any windows the backtest never looks ahead and meets *)
(* whoever acts on the live crosses; every persona is shown one regime;    *)
(* and whatever the caches hold, a scenario moves the conviction the way   *)
(* its name says.                                                          *)
(***************************************************************************)
EXTENDS CommandDesk, SignalDesk, FoldLemmas, SequenceTheorems, TLAPS

-----------------------------------------------------------------------------
(* Commands (CommandDesk) *)

Places == {"none", "agent", "holdings", "fallback", "told", "done", "left"}
Kinds == {"none", "agent", "tech", "korea", "regime", "default"}
States == {"idle", "runs", "returned", "raised"}

CommandTypes ==
  /\ version \in Nat \ {0}
  /\ agent \in [Commands -> [at : States, own : Nat]]
  /\ route \in [Commands -> [at : Places, words : {{}} \cup Queries, streams : BOOLEAN]]
  /\ answer \in [Commands -> [kind : Kinds, status : {"none", "SYNCING", "ANALYZED"},
                              acc : Nat, hold : Nat]]

\* Rows read after the orders of command c, if they could be read.
Holds(c, seen) == seen = Failed \/ seen >= agent[c].own

\* Of one command: its orders are committed; it reads the book only when its agent
\* has returned, and so has placed its last order.
CommandInv(c) ==
  /\ agent[c].own <= version
  /\ route[c].at = "holdings" => agent[c].at = "returned" /\ Holds(c, answer[c].acc)
  /\ answer[c].kind = "agent" =>
       /\ route[c].at \in {"told", "done", "left"} /\ agent[c].at = "returned"
       /\ Holds(c, answer[c].acc) /\ Holds(c, answer[c].hold)

IInv == CommandTypes /\ \A c \in Commands : CommandInv(c)

-----------------------------------------------------------------------------
\* The answer without an agent is never taken for an agent's.
LEMMA ScenarioNames ==
  ASSUME NEW words
  PROVE  MatchScenario(words, OmniScenarios) \in {"tech", "korea", "regime", "default"}
<1> DEFINE hit == {n \in DOMAIN OmniScenarios : OmniScenarios[n].keywords \cap words # {}}
<1>1. /\ DOMAIN OmniScenarios = 1 .. 3
      /\ \A n \in 1 .. 3 : OmniScenarios[n].name \in {"tech", "korea", "regime"}
  BY DEF OmniScenarios
<1>2. hit \subseteq 1 .. 3
  BY <1>1
<1>3. MatchScenario(words, OmniScenarios) =
        IF hit = {} THEN "default" ELSE OmniScenarios[Min(hit)].name
  BY DEF MatchScenario
<1> HIDE DEF hit
<1>4. ASSUME hit # {} PROVE Min(hit) \in hit
  <2>1. \E x \in hit : \A y \in hit : x <= y
    <3>1. CASE 1 \in hit
      BY <1>2, <3>1
    <3>2. CASE 1 \notin hit /\ 2 \in hit
      BY <1>2, <3>2
    <3>3. CASE 1 \notin hit /\ 2 \notin hit
      <4>1. PICK n \in hit : TRUE
        BY <1>4
      <4>2. \A m \in hit : m = 3
        BY <1>2, <3>3
      <4>3. QED
        BY <4>1, <4>2
    <3>4. QED
      BY <3>1, <3>2, <3>3
  <2>2. QED
    BY <2>1 DEF Min
<1>5. QED
  BY <1>1, <1>2, <1>3, <1>4

LEMMA InitIInv == Init => IInv
<1> SUFFICES ASSUME Init PROVE IInv
  OBVIOUS
<1>1. CommandTypes
  BY DEF Init, CommandTypes, NoAnswer, Failed, Places, Kinds, States
<1>2. ASSUME NEW c \in Commands PROVE CommandInv(c)
  BY DEF Init, CommandInv, NoAnswer, Failed
<1>3. QED
  BY <1>1, <1>2 DEF IInv

\* Steps of which no command takes notice.
LEMMA OtherStep ==
  ASSUME IInv, UNCHANGED <<agent, route, answer>>,
         version' = version \/ version' = version + 1
  PROVE  IInv'
<1>1. CommandTypes'
  BY DEF IInv, CommandTypes
<1>2. ASSUME NEW c \in Commands PROVE CommandInv(c)'
  BY DEF IInv, CommandTypes, CommandInv, Holds
<1>3. QED
  BY <1>1, <1>2 DEF IInv

\* A step of command c leaves the others as they are.
LEMMA OneCommand ==
  ASSUME IInv, NEW c \in Commands, CommandTypes', version' >= version, CommandInv(c)',
         \A d \in Commands \ {c} :
           agent'[d] = agent[d] /\ route'[d] = route[d] /\ answer'[d] = answer[d]
  PROVE  IInv'
<1>1. ASSUME NEW d \in Commands \ {c} PROVE CommandInv(d)'
  BY <1>1 DEF IInv, CommandTypes, CommandInv, Holds
<1>2. QED
  BY <1>1 DEF IInv

LEMMA ReceiveStep ==
  ASSUME IInv, NEW c \in Commands, NEW words \in Queries, NEW streams \in BOOLEAN,
         Receive(c, words, streams)
  PROVE  IInv'
<1>1. UNCHANGED <<version, answer>> /\ route[c].at = "none"
  BY DEF Receive
<1>2. PICK at \in {"agent", "fallback"} :
        route' = [route EXCEPT ![c] = [at |-> at, words |-> words, streams |-> streams]]
  BY DEF Receive
<1>3. agent' = [agent EXCEPT ![c].at = "runs"] \/ agent' = agent
  BY DEF Receive
<1>4. CommandTypes'
  <2>1. route' \in [Commands -> [at : Places, words : {{}} \cup Queries, streams : BOOLEAN]]
    BY <1>2 DEF IInv, CommandTypes, Places
  <2>2. agent' \in [Commands -> [at : States, own : Nat]]
    BY <1>3 DEF IInv, CommandTypes, States
  <2>3. QED
    BY <1>1, <2>1, <2>2 DEF IInv, CommandTypes
<1>5. CommandInv(c)'
  BY <1>1, <1>2, <1>3 DEF IInv, CommandTypes, CommandInv
<1>6. QED
  BY <1>1, <1>2, <1>3, <1>4, <1>5, OneCommand DEF IInv, CommandTypes

LEMMA AgentSteps ==
  ASSUME IInv, NEW c \in Commands, AgentOrders(c) \/ AgentEnds(c)
  PROVE  IInv'
<1>1. UNCHANGED <<route, answer>> /\ agent[c].at = "runs" /\ version \in Nat \ {0}
  BY DEF AgentOrders, AgentEnds, IInv, CommandTypes
<1>2. agent \in [Commands -> [at : States, own : Nat]]
  BY DEF IInv, CommandTypes
<1>3. version' = version \/ version' = version + 1
  BY DEF AgentOrders, AgentEnds
<1>4. /\ agent' \in [Commands -> [at : States, own : Nat]]
      /\ \A d \in Commands \ {c} : agent'[d] = agent[d]
      /\ agent'[c].own \in {agent[c].own, version'}
  <2>1. CASE AgentOrders(c)
    BY <1>1, <1>2, <1>3, <2>1 DEF AgentOrders
  <2>2. CASE AgentEnds(c)
    <3>1. PICK s \in {"returned", "raised"} : agent' = [agent EXCEPT ![c].at = s]
      BY <2>2 DEF AgentEnds
    <3>2. QED
      BY <1>2, <3>1 DEF States
  <2>3. QED
    BY <2>1, <2>2
<1>5. CommandTypes'
  BY <1>1, <1>3, <1>4 DEF IInv, CommandTypes
<1>6. CommandInv(c)'
  BY <1>1, <1>3, <1>4 DEF IInv, CommandTypes, CommandInv
<1>7. QED
  BY <1>1, <1>3, <1>4, <1>5, <1>6, OneCommand

\* Steps that move the coroutine of c and may answer it.
LEMMA RouteStep ==
  ASSUME IInv, NEW c \in Commands, UNCHANGED <<version, agent>>,
         NEW at \in Places, Go(c, at),
         NEW told \in [kind : Kinds, status : {"none", "SYNCING", "ANALYZED"},
                       acc : Nat, hold : Nat],
         answer' = [answer EXCEPT ![c] = told],
         at = "holdings" => agent[c].at = "returned" /\ Holds(c, told.acc),
         told.kind = "agent" =>
           /\ at \in {"told", "done", "left"} /\ agent[c].at = "returned"
           /\ Holds(c, told.acc) /\ Holds(c, told.hold)
  PROVE  IInv'
<1>1. /\ route' \in [Commands -> [at : Places, words : {{}} \cup Queries, streams : BOOLEAN]]
      /\ route'[c].at = at /\ \A d \in Commands \ {c} : route'[d] = route[d]
  BY DEF Go, IInv, CommandTypes
<1>2. /\ answer' \in [Commands -> [kind : Kinds, status : {"none", "SYNCING", "ANALYZED"},
                                   acc : Nat, hold : Nat]]
      /\ answer'[c] = told /\ \A d \in Commands \ {c} : answer'[d] = answer[d]
  BY DEF IInv, CommandTypes
<1>3. CommandTypes'
  BY <1>1, <1>2 DEF IInv, CommandTypes
<1>4. CommandInv(c)'
  BY <1>1, <1>2 DEF IInv, CommandInv, Holds
<1>5. QED
  BY <1>1, <1>2, <1>3, <1>4, OneCommand DEF IInv, CommandTypes

\* A read of the book sees every order that is committed, or nothing.
LEMMA ReadHolds ==
  ASSUME IInv, NEW c \in Commands, NEW v \in 0 .. version, ReadForced(v)
  PROVE  v \in Nat /\ Holds(c, v)
BY DEF IInv, CommandTypes, CommandInv, ReadForced, Reading, Holds

LEMMA CoroutineSteps ==
  ASSUME IInv, NEW c \in Commands,
         ReadAccounts(c) \/ ReadHoldings(c) \/ AgentRaised(c) \/ Fallback(c) \/ Told(c) \/ Leave(c)
  PROVE  IInv'
<1>1. /\ answer[c] \in [kind : Kinds, status : {"none", "SYNCING", "ANALYZED"},
                        acc : Nat, hold : Nat]
      /\ answer = [answer EXCEPT ![c] = answer[c]]
      /\ CommandInv(c)
  BY DEF IInv, CommandTypes
<1>2. UNCHANGED <<version, agent>>
  BY DEF ReadAccounts, ReadHoldings, AgentRaised, Fallback, Told, Leave
<1>3. CASE ReadAccounts(c)
  <2>1. agent[c].at = "returned" /\ answer[c].kind # "agent"
    BY <1>1, <1>3 DEF ReadAccounts, CommandInv
  <2>2. CASE Go(c, "fallback") /\ UNCHANGED answer
    BY <1>1, <1>2, <2>1, <2>2, RouteStep DEF Places
  <2>3. ASSUME NEW v \in 0 .. version, ReadForced(v),
               answer' = [answer EXCEPT ![c].acc = v], Go(c, "holdings")
        PROVE  IInv'
    <3> DEFINE told == [answer[c] EXCEPT !.acc = v]
    <3>1. v \in Nat /\ Holds(c, v)
      BY <2>3, ReadHolds
    <3>2. /\ told \in [kind : Kinds, status : {"none", "SYNCING", "ANALYZED"},
                       acc : Nat, hold : Nat]
          /\ told.acc = v /\ told.kind = answer[c].kind
      BY <1>1, <3>1
    <3>3. answer' = [answer EXCEPT ![c] = told]
      BY <2>3 DEF IInv, CommandTypes
    <3> HIDE DEF told
    <3>4. QED
      BY <1>2, <2>1, <2>3, <3>1, <3>2, <3>3, RouteStep DEF Places
  <2>4. QED
    BY <1>3, <2>2, <2>3 DEF ReadAccounts
<1>4. CASE ReadHoldings(c)
  <2>1. PICK v \in 0 .. version :
          /\ ReadForced(v)
          /\ answer' = [answer EXCEPT ![c] = [kind |-> "agent", status |-> "ANALYZED",
                                              acc |-> @.acc, hold |-> v]]
    BY <1>4 DEF ReadHoldings
  <2> DEFINE told == [kind |-> "agent", status |-> "ANALYZED", acc |-> answer[c].acc, hold |-> v]
  <2>2. v \in Nat /\ Holds(c, v)
    BY <2>1, ReadHolds
  <2>3. /\ told \in [kind : Kinds, status : {"none", "SYNCING", "ANALYZED"}, acc : Nat, hold : Nat]
        /\ told.acc = answer[c].acc /\ told.hold = v
    BY <1>1, <2>2 DEF Kinds
  <2>4. answer' = [answer EXCEPT ![c] = told]
    BY <2>1 DEF IInv, CommandTypes
  <2> HIDE DEF told
  <2>5. agent[c].at = "returned" /\ Holds(c, answer[c].acc)
    BY <1>1, <1>4 DEF ReadHoldings, CommandInv
  <2>6. PICK at \in {"told", "done"} : Go(c, at)
    BY <1>4 DEF ReadHoldings
  <2>7. QED
    BY <1>2, <2>2, <2>3, <2>4, <2>5, <2>6, RouteStep DEF Places
<1>5. CASE AgentRaised(c)
  BY <1>1, <1>2, <1>5, RouteStep DEF AgentRaised, CommandInv, Places
<1>6. CASE Fallback(c)
  <2> DEFINE scenario == MatchScenario(route[c].words, OmniScenarios)
             told == [NoAnswer EXCEPT !.kind = scenario,
                        !.status = IF scenario = "default" THEN "SYNCING" ELSE "ANALYZED"]
  <2>1. scenario \in Kinds \ {"none", "agent"}
    BY ScenarioNames DEF Kinds
  <2>2. answer' = [answer EXCEPT ![c] = told]
    BY <1>6 DEF Fallback
  <2> HIDE DEF scenario
  <2>3. /\ told \in [kind : Kinds, status : {"none", "SYNCING", "ANALYZED"}, acc : Nat, hold : Nat]
        /\ told.kind # "agent"
    BY <2>1 DEF NoAnswer, Failed
  <2> HIDE DEF told
  <2>4. PICK at \in {"told", "done"} : Go(c, at)
    BY <1>6 DEF Fallback
  <2>5. QED
    BY <1>2, <2>2, <2>3, <2>4, RouteStep DEF Places
<1>7. CASE Told(c)
  BY <1>1, <1>2, <1>7, RouteStep DEF Told, CommandInv, Places
<1>8. CASE Leave(c)
  BY <1>1, <1>2, <1>8, RouteStep DEF Leave, CommandInv, Places
<1>9. QED
  BY <1>3, <1>4, <1>5, <1>6, <1>7, <1>8

LEMMA NextIInv == IInv /\ [Next]_vars => IInv'
<1> SUFFICES ASSUME IInv, [Next]_vars PROVE IInv'
  OBVIOUS
<1>1. CASE MarketMoves \/ BookChanges \/ Tick
  BY <1>1, OtherStep DEF MarketMoves, BookChanges, Tick, commandVars
<1>2. ASSUME NEW c \in Commands, NEW words \in Queries, NEW streams \in BOOLEAN,
             Receive(c, words, streams)
      PROVE  IInv'
  BY <1>2, ReceiveStep
<1>3. ASSUME NEW c \in Commands, AgentOrders(c) \/ Leave(c) \/ CommandStep(c) PROVE IInv'
  BY <1>3, AgentSteps, CoroutineSteps DEF CommandStep
<1>4. ASSUME NEW r \in Readers, AskBrief(r) \/ StoreBrief(r) PROVE IInv'
  BY <1>4, OtherStep DEF AskBrief, StoreBrief, commandVars
<1>5. CASE UNCHANGED vars
  BY <1>5, OtherStep DEF vars, commandVars
<1>6. QED
  BY <1>1, <1>2, <1>3, <1>4, <1>5 DEF Next

-----------------------------------------------------------------------------
\* A command reads the book only when its agent has placed its last order
\* (_run_agent_async, _build_portfolio_summary).
THEOREM CommandsInduct == Spec => []IInv
BY InitIInv, NextIInv, PTL DEF Spec

\* The portfolio of an agent's answer holds the orders placed for it.
THEOREM AnswersAreComplete == Spec => []AnswerHoldsItsOrders
<1>1. IInv => AnswerHoldsItsOrders
  BY DEF IInv, CommandInv, Holds, AnswerHoldsItsOrders
<1>2. QED
  BY <1>1, CommandsInduct, PTL

-----------------------------------------------------------------------------
(* Moving averages *)

\* What the folds of the community modules make of a function is its sum.
LEMMA SumFunctionOnSetIsSum ==
  ASSUME NEW w, NEW S
  PROVE  SumFunctionOnSet(w, S) = Sum(w, S)
<1>1. \A g : IsSum(g, w, S) <=>
        g = [s \in SUBSET S |-> IF s = {} THEN 0
                                ELSE w[CHOOSE x \in s : TRUE] + g[s \ {CHOOSE x \in s : TRUE}]]
  BY DEF IsSum, Chosen
<1>2. QED
  BY <1>1 DEF Sum, SumFunctionOnSet, FoldFunctionOnSet, MapThenFoldSet

\* The total of a window is that of any frame with the same bars.
LEMMA TotalAgrees ==
  ASSUME NEW f, NEW g, NEW k \in Int, NEW w \in Int, \A j \in (k - w + 1) .. k : f[j] = g[j]
  PROVE  Total(f, k, w) = Total(g, k, w)
BY SumFunctionOnSetIsSum, SumAgrees DEF Total

\* A window over bars of a frame of numbers has a total.
LEMMA TotalType ==
  ASSUME NEW f, NEW k \in Int, NEW w \in Int, \A j \in (k - w + 1) .. k : f[j] \in Int
  PROVE  Total(f, k, w) \in Int
<1> DEFINE S == (k - w + 1) .. k
           h == [j \in S |-> f[j]]
<1>1. IsFiniteSet(S)
  BY FS_Interval
<1>2. h \in [S -> Int]
  OBVIOUS
<1>3. Sum(h, S) \in Int
  <2> HIDE DEF h, S
  <2>1. QED
    BY <1>1, <1>2, SumType
<1>4. Sum(f, S) = Sum(h, S)
  <2>1. \A j \in S : f[j] = h[j]
    OBVIOUS
  <2> HIDE DEF h, S
  <2>2. QED
    BY <2>1, SumAgrees
<1>5. QED
  BY <1>3, <1>4, SumFunctionOnSetIsSum DEF Total

\* The averages of a bar read no later bar.
LEMMA SpreadAgrees ==
  ASSUME NEW f, NEW g, NEW k \in Nat, k >= Slow, \A j \in 1 .. k : f[j] = g[j]
  PROVE  Spread(f, k) = Spread(g, k)
<1>1. Fast \in Nat /\ Slow \in Nat /\ Fast < Slow
  BY WindowsAssumption
<1>2. \A j \in (k - Fast + 1) .. k : f[j] = g[j]
  BY <1>1
<1>3. \A j \in (k - Slow + 1) .. k : f[j] = g[j]
  BY <1>1
<1>4. Total(f, k, Fast) = Total(g, k, Fast) /\ Total(f, k, Slow) = Total(g, k, Slow)
  BY <1>1, <1>2, <1>3, TotalAgrees
<1>5. QED
  BY <1>4 DEF Spread

\* The spread is a number once the slow window is full.
LEMMA SpreadType ==
  ASSUME NEW f \in Seq(Int), NEW k \in Slow .. Len(f)
  PROVE  Spread(f, k) \in Int
<1>1. Fast \in Nat /\ Slow \in Nat \ {0} /\ Fast < Slow /\ Len(f) \in Nat
  BY WindowsAssumption, LenProperties
<1>2. \A j \in 1 .. Len(f) : f[j] \in Int
  BY ElementOfSeq
<1>3. k \in Int /\ \A j \in (k - Fast + 1) .. k : f[j] \in Int
  BY <1>1, <1>2
<1>4. \A j \in (k - Slow + 1) .. k : f[j] \in Int
  BY <1>1, <1>2
<1>5. Total(f, k, Fast) \in Int /\ Total(f, k, Slow) \in Int
  BY <1>1, <1>3, <1>4, TotalType
<1>6. QED
  BY <1>1, <1>5 DEF Spread

-----------------------------------------------------------------------------
(* The backtest *)

\* The bars up to k at which the backtest crosses.
Crosses(f, k) == {j \in 1 .. k : BacktestGolden(f, j) \/ BacktestDead(f, j)}

\* What is to be shown of bar n by induction: the position is long exactly while the
\* fast average is above, and then there was one entry more than exits.
Alternates(f, n) ==
  /\ IsFiniteSet(Crosses(f, n))
  /\ Position(f, n) <=> Bullish(f, n)
  /\ Cardinality(Crosses(f, n)) % 2 = 1 <=> Bullish(f, n)

LEMMA CrossesAlternate ==
  ASSUME NEW f, NEW n \in Nat
  PROVE  Alternates(f, n)
<1> DEFINE Bad == {m \in Nat : ~Alternates(f, m)}
<1> SUFFICES ASSUME Bad # {} PROVE FALSE
  OBVIOUS
<1>1. PICK m \in Bad : \A i \in Bad : m <= i
  <2>1. Bad \subseteq Nat
    OBVIOUS
  <2> HIDE DEF Bad
  <2>2. QED
    BY <2>1, LeastNat
<1>2. m \in Nat /\ ~Alternates(f, m)
  OBVIOUS
<1>3. Slow \in Nat \ {0}
  BY WindowsAssumption
<1>4. m # 0
  <2> SUFFICES ASSUME m = 0 PROVE Alternates(f, m)
    BY <1>2
  <2>1. Crosses(f, 0) = {}
    BY DEF Crosses
  <2>2. ~Bullish(f, 0)
    BY <1>3 DEF Bullish
  <2>3. ~Position(f, 0)
    BY <2>1 DEF Position, Crosses
  <2>4. IsFiniteSet({}) /\ Cardinality({}) = 0
    BY FS_EmptySet
  <2>5. QED
    BY <2>1, <2>2, <2>3, <2>4 DEF Alternates
<1>5. m - 1 \in Nat /\ Alternates(f, m - 1)
  <2>1. m - 1 \in Nat /\ ~(m <= m - 1)
    BY <1>2, <1>4
  <2>2. m - 1 \notin Bad
    BY <1>1, <2>1
  <2>3. QED
    BY <2>1, <2>2
<1> HIDE DEF Bad
<1> DEFINE P == Crosses(f, m - 1)
<1>6. IsFiniteSet(P) /\ Cardinality(P) \in Nat /\ m \notin P
  BY <1>5, FS_CardinalityType DEF Alternates, Crosses
<1>7. CASE BacktestGolden(f, m) \/ BacktestDead(f, m)
  <2>1. Crosses(f, m) = P \cup {m}
    BY <1>2, <1>4, <1>7 DEF Crosses
  <2>2. IsFiniteSet(Crosses(f, m)) /\ Cardinality(Crosses(f, m)) = Cardinality(P) + 1
    BY <1>6, <2>1, FS_AddElement
  <2>3. m \in Crosses(f, m) /\ \A j \in Crosses(f, m) : m >= j /\ j \in Nat
    BY <1>2, <1>4, <1>7 DEF Crosses
  <2>4. Max(Crosses(f, m)) = m
    BY <1>2, <2>3 DEF Max
  <2>5. Position(f, m) <=> BacktestGolden(f, m)
    BY <2>3, <2>4 DEF Position, Crosses
  <2>6. Position(f, m) <=> Bullish(f, m)
    BY <1>7, <2>5 DEF BacktestGolden, BacktestDead
  <2>7. Bullish(f, m) <=> ~Bullish(f, m - 1)
    BY <1>7 DEF BacktestGolden, BacktestDead
  <2>8. Cardinality(P) % 2 = 1 <=> ~((Cardinality(P) + 1) % 2 = 1)
    <3> DEFINE c == Cardinality(P)
    <3> HIDE DEF c
    <3>1. c \in Nat => (c % 2 = 1 <=> ~((c + 1) % 2 = 1))
      OBVIOUS
    <3>2. QED
      BY <1>6, <3>1 DEF c
  <2>9. QED
    BY <1>2, <1>5, <2>2, <2>6, <2>7, <2>8 DEF Alternates
<1>8. CASE ~(BacktestGolden(f, m) \/ BacktestDead(f, m))
  <2>1. Crosses(f, m) = P
    BY <1>2, <1>4, <1>8 DEF Crosses
  <2>2. Bullish(f, m) <=> Bullish(f, m - 1)
    BY <1>8 DEF BacktestGolden, BacktestDead
  <2>3. Position(f, m) <=> Position(f, m - 1)
    BY <2>1 DEF Position, Crosses
  <2>4. QED
    BY <1>2, <1>5, <2>1, <2>2, <2>3 DEF Alternates
<1>9. QED
  BY <1>7, <1>8

\* The position after bar k is the same on any frame with the same bars up to k.
LEMMA PositionAgrees ==
  ASSUME NEW f, NEW g, NEW k \in Nat, \A j \in 1 .. k : f[j] = g[j]
  PROVE  Position(f, k) = Position(g, k)
<1>1. Bullish(f, k) = Bullish(g, k)
  <2>1. CASE k >= Slow
    BY <2>1, SpreadAgrees DEF Bullish
  <2>2. CASE ~(k >= Slow)
    BY <2>2 DEF Bullish
  <2>3. QED
    BY <2>1, <2>2
<1>2. (Position(f, k) <=> Bullish(f, k)) /\ (Position(g, k) <=> Bullish(g, k))
  BY CrossesAlternate DEF Alternates
<1>3. Position(f, k) \in BOOLEAN /\ Position(g, k) \in BOOLEAN
  BY DEF Position
<1>4. QED
  BY <1>1, <1>2, <1>3

\* w is the equity curve of the first n bars of f.
IsCurve(w, f, n) ==
  w = [k \in 1 .. n |-> IF k = 1 THEN <<1, 1>>
                         ELSE Earned(f, k, Position(f, k - 1), w[k - 1])]

\* A bar of a curve.
LEMMA CurveBar ==
  ASSUME NEW w, NEW f, NEW n, IsCurve(w, f, n), NEW k \in 1 .. n
  PROVE  w[k] = IF k = 1 THEN <<1, 1>> ELSE Earned(f, k, Position(f, k - 1), w[k - 1])
BY DEF IsCurve

\* Every frame has a curve up to every bar.
LEMMA CurveExists ==
  ASSUME NEW f, NEW n \in Nat
  PROVE  \E w : IsCurve(w, f, n)
<1> DEFINE Bad == {m \in Nat : ~\E w : IsCurve(w, f, m)}
<1> SUFFICES ASSUME Bad # {} PROVE FALSE
  OBVIOUS
<1>1. PICK m \in Bad : \A i \in Bad : m <= i
  <2>1. Bad \subseteq Nat
    OBVIOUS
  <2> HIDE DEF Bad
  <2>2. QED
    BY <2>1, LeastNat
<1>2. m \in Nat /\ ~\E w : IsCurve(w, f, m)
  OBVIOUS
<1>3. CASE m = 0
  <2> DEFINE none == [k \in 1 .. 0 |-> 0]
  <2>1. IsCurve(none, f, 0)
    BY DEF IsCurve
  <2>2. QED
    BY <1>2, <1>3, <2>1
<1>4. CASE m # 0
  <2>1. m - 1 \in Nat /\ m - 1 \notin Bad
    <3>1. m - 1 \in Nat /\ ~(m <= m - 1)
      BY <1>2, <1>4
    <3>2. QED
      BY <1>1, <3>1
  <2>2. PICK v : IsCurve(v, f, m - 1)
    BY <2>1
  <2> HIDE DEF Bad
  <2> DEFINE w == [k \in 1 .. m |-> IF k = 1 THEN <<1, 1>>
                                    ELSE Earned(f, k, Position(f, k - 1), v[k - 1])]
  <2>3. ASSUME NEW k \in 1 .. m, k # 1 PROVE w[k - 1] = v[k - 1]
    <3>1. k - 1 \in 1 .. m /\ k - 1 \in 1 .. (m - 1)
      BY <1>2, <2>3
    <3>2. w[k - 1] = IF k - 1 = 1 THEN <<1, 1>>
                     ELSE Earned(f, k - 1, Position(f, k - 1 - 1), v[k - 1 - 1])
      BY <3>1
    <3>3. v[k - 1] = IF k - 1 = 1 THEN <<1, 1>>
                     ELSE Earned(f, k - 1, Position(f, k - 1 - 1), v[k - 1 - 1])
      BY <2>2, <3>1, CurveBar
    <3>4. QED
      BY <3>2, <3>3
  <2>4. \A k \in 1 .. m : w[k] = IF k = 1 THEN <<1, 1>>
                                  ELSE Earned(f, k, Position(f, k - 1), w[k - 1])
    <3> SUFFICES ASSUME NEW k \in 1 .. m
                 PROVE  w[k] = IF k = 1 THEN <<1, 1>>
                               ELSE Earned(f, k, Position(f, k - 1), w[k - 1])
      OBVIOUS
    <3>1. w[k] = IF k = 1 THEN <<1, 1>> ELSE Earned(f, k, Position(f, k - 1), v[k - 1])
      OBVIOUS
    <3> HIDE DEF w
    <3>2. QED
      BY <2>3, <3>1
  <2>5. w = [k \in 1 .. m |-> w[k]]
    OBVIOUS
  <2> HIDE DEF w
  <2>6. IsCurve(w, f, m)
    BY <2>4, <2>5 DEF IsCurve
  <2>7. QED
    BY <1>2, <2>6
<1>5. QED
  BY <1>3, <1>4

\* The equity is the curve of the whole frame.
LEMMA EquityIsCurve ==
  ASSUME NEW f, Len(f) \in Nat
  PROVE  IsCurve(Equity(f), f, Len(f))
<1>1. \E w : IsCurve(w, f, Len(f))
  BY CurveExists
<1>2. Equity(f) = CHOOSE w : IsCurve(w, f, Len(f))
  BY DEF Equity, IsCurve
<1>3. QED
  BY <1>1, <1>2

\* Curves of frames with the same bars up to bar n are the same up to bar n.
LEMMA CurvesAgree ==
  ASSUME NEW f, NEW g, NEW n \in Nat, NEW l \in Nat, n <= l, \A j \in 1 .. n : f[j] = g[j],
         NEW v, IsCurve(v, f, n), NEW w, IsCurve(w, g, l), NEW k \in 1 .. n
  PROVE  v[k] = w[k]
<1> DEFINE Bad == {m \in 1 .. n : v[m] # w[m]}
<1> SUFFICES ASSUME Bad # {} PROVE FALSE
  OBVIOUS
<1>1. PICK m \in Bad : \A i \in Bad : m <= i
  <2>1. Bad \subseteq Nat
    OBVIOUS
  <2> HIDE DEF Bad
  <2>2. QED
    BY <2>1, LeastNat
<1>2. m \in 1 .. n /\ m \in 1 .. l /\ v[m] # w[m]
  OBVIOUS
<1>3. v[m] = IF m = 1 THEN <<1, 1>> ELSE Earned(f, m, Position(f, m - 1), v[m - 1])
  BY <1>2, CurveBar
<1>4. w[m] = IF m = 1 THEN <<1, 1>> ELSE Earned(g, m, Position(g, m - 1), w[m - 1])
  BY <1>2, CurveBar
<1>5. CASE m = 1
  BY <1>2, <1>3, <1>4, <1>5
<1>6. CASE m # 1
  <2>1. m - 1 \in 1 .. n /\ m - 1 \in Nat /\ ~(m <= m - 1)
    BY <1>2, <1>6
  <2>2. v[m - 1] = w[m - 1]
    BY <1>1, <2>1
  <2>3. Position(f, m - 1) = Position(g, m - 1)
    <3>1. \A j \in 1 .. m - 1 : f[j] = g[j]
      BY <1>2
    <3>2. QED
      BY <2>1, <3>1, PositionAgrees
  <2>4. f[m] = g[m] /\ f[m - 1] = g[m - 1]
    BY <1>2, <2>1
  <2>5. Earned(f, m, Position(f, m - 1), v[m - 1]) = Earned(g, m, Position(g, m - 1), w[m - 1])
    BY <2>2, <2>3, <2>4 DEF Earned
  <2>6. QED
    BY <1>2, <1>3, <1>4, <1>6, <2>5
<1>7. QED
  BY <1>5, <1>6

-----------------------------------------------------------------------------
(* The frame and who follows its crosses (SignalDesk) *)

\* A bar that closes leaves the bars before it alone.
LEMMA LongerFrame ==
  ASSUME frame \in Seq(Int), NEW p \in Prices, Bar(p)
  PROVE  /\ frame' = Append(frame, p) /\ frame' \in Seq(Int)
         /\ Len(frame) \in Nat /\ Len(frame') = Len(frame) + 1
         /\ \A j \in 1 .. Len(frame) : frame'[j] = frame[j]
<1>1. frame' = Append(frame, p)
  BY DEF Bar
<1>2. p \in Int
  BY PricesAssumption
<1>3. QED
  BY <1>1, <1>2, AppendProperties, LenProperties

\* Only a bar changes the frame or the follower.
LEMMA OthersKeepFrame ==
  ASSUME [DeskNext]_deskVars
  PROVE  (\E p \in Prices : Bar(p)) \/ UNCHANGED <<frame, follower>>
BY DEF DeskNext, deskVars, Headlines, MacroCollected, HistoryCollected

\* An empty frame: no bar has closed.
LEMMA NoBars == <<>> \in Seq(Int) /\ Len(<<>>) = 0
OBVIOUS

\* A bar that closes leaves the curve drawn so far, and moves its end only while long.
LEMMA BarDrawsOn ==
  ASSUME frame \in Seq(Int), NEW p \in Prices, Bar(p),
         NEW old \in Backtest(frame), NEW new \in Backtest(frame')
  PROVE  /\ \A k \in 1 .. old.bars : new.equity[k] = old.equity[k]
         /\ ~Position(frame, old.bars) => new.equity[new.bars] = old.equity[old.bars]
<1> DEFINE n == Len(frame)
<1>1. n \in Nat /\ Len(frame') = n + 1 /\ \A j \in 1 .. n : frame[j] = frame'[j]
  BY LongerFrame
<1>2. old.bars = n /\ old.equity = Equity(frame) /\ n >= Slow
  BY <1>1, WindowsAssumption DEF Backtest
<1>3. new.bars = n + 1 /\ new.equity = Equity(frame')
  BY <1>1 DEF Backtest
<1>4. IsCurve(old.equity, frame, n) /\ IsCurve(new.equity, frame', n + 1)
  BY <1>1, <1>2, <1>3, EquityIsCurve
<1> HIDE DEF n
<1>5. ASSUME NEW k \in 1 .. n PROVE new.equity[k] = old.equity[k]
  <2>1. n + 1 \in Nat /\ n <= n + 1
    BY <1>1
  <2>2. QED
    BY <1>1, <1>4, <2>1, CurvesAgree
<1>6. ASSUME ~Position(frame, n) PROVE new.equity[n + 1] = old.equity[n]
  <2>1. n \in 1 .. n /\ n + 1 \in 1 .. (n + 1) /\ n + 1 # 1 /\ n + 1 - 1 = n
    BY <1>1, <1>2, WindowsAssumption
  <2>2. Position(frame', n) = Position(frame, n)
    BY <1>1, PositionAgrees
  <2>3. new.equity[n + 1] = Earned(frame', n + 1, Position(frame', n), new.equity[n])
    BY <1>4, <2>1, CurveBar
  <2>4. new.equity[n + 1] = new.equity[n]
    BY <1>6, <2>2, <2>3 DEF Earned
  <2>5. QED
    BY <1>5, <2>1, <2>4
<1>7. QED
  BY <1>2, <1>3, <1>5, <1>6

\* "No look-ahead bias": however long the prices, no point of the equity curve is
\* redrawn by a later bar, and none is earned by the decision of its own bar.
THEOREM PointsStayDrawn == DeskSpec => NoLookAhead
<1>1. DeskInit => frame \in Seq(Int)
  BY NoBars DEF DeskInit
<1>2. frame \in Seq(Int) /\ [DeskNext]_deskVars => (frame \in Seq(Int))'
  BY LongerFrame, OthersKeepFrame
<1>3. ASSUME frame \in Seq(Int), [DeskNext]_deskVars
      PROVE  [\A old \in Backtest(frame), new \in Backtest(frame') :
               /\ \A k \in 1..old.bars : new.equity[k] = old.equity[k]
               /\ ~Position(frame, old.bars) => new.equity[new.bars] = old.equity[old.bars]]_deskVars
  <2>1. CASE \E p \in Prices : Bar(p)
    BY <1>3, <2>1, BarDrawsOn
  <2>2. CASE UNCHANGED <<frame, follower>>
    <3>1. frame' = frame
      BY <2>2
    <3>2. ASSUME NEW old \in Backtest(frame), NEW new \in Backtest(frame') PROVE old = new
      BY <3>1, <3>2 DEF Backtest
    <3>3. QED
      BY <3>2
  <2>3. QED
    BY <1>3, <2>1, <2>2, OthersKeepFrame
<1>4. QED
  BY <1>1, <1>2, <1>3, PTL DEF DeskSpec, NoLookAhead

\* What the live crosses and the backtest have in common.
FollowerInv ==
  /\ frame \in Seq(Int)
  /\ follower \in [long : BOOLEAN, since : Nat]
  /\ Len(frame) <= Slow => ~follower.long /\ follower.since = 0
  /\ Len(frame) > Slow /\ follower.long => Spread(frame, Len(frame)) >= 0
  /\ Len(frame) > Slow /\ follower.since > 0 /\ ~follower.long
       => Spread(frame, Len(frame)) <= 0

LEMMA BarKeepsFollower ==
  ASSUME FollowerInv, NEW p \in Prices, Bar(p)
  PROVE  FollowerInv'
<1> DEFINE n == Len(frame)
           now == Spread(frame', n + 1)
           before == Spread(frame', n)
           golden == n + 1 > Slow /\ now > 0 /\ before <= 0
           dead == n + 1 > Slow /\ now < 0 /\ before >= 0
<1>1. /\ frame \in Seq(Int) /\ frame' \in Seq(Int) /\ n \in Nat /\ Len(frame') = n + 1
      /\ \A j \in 1 .. n : frame'[j] = frame[j]
      /\ frame' = Append(frame, p)
  BY LongerFrame DEF FollowerInv
<1>2. Slow \in Nat \ {0}
  BY WindowsAssumption
<1>3. n >= Slow => before = Spread(frame, n) /\ before \in Int /\ now \in Int
  <2> SUFFICES ASSUME n >= Slow PROVE before = Spread(frame, n) /\ before \in Int /\ now \in Int
    OBVIOUS
  <2>1. before = Spread(frame, n)
    BY <1>1, <1>2, SpreadAgrees
  <2>2. n \in Slow .. Len(frame') /\ n + 1 \in Slow .. Len(frame')
    BY <1>1, <1>2
  <2>3. QED
    BY <1>1, <2>1, <2>2, SpreadType
<1>4. follower' = IF golden THEN [long |-> TRUE, since |-> n + 1]
                  ELSE IF dead THEN [long |-> FALSE, since |-> n + 1] ELSE follower
  <2> DEFINE q == Quant(Stock, frame')
  <2>1. follower' = IF q.golden THEN [long |-> TRUE, since |-> n + 1]
                    ELSE IF q.dead THEN [long |-> FALSE, since |-> n + 1] ELSE follower
    BY <1>1 DEF Bar
  <2>2. q.golden = golden /\ q.dead = dead
    <3>1. n + 1 - 1 = n
      BY <1>1
    <3>2. CASE n + 1 < Slow
      <4>1. q = Neutral
        BY <1>1, <3>2 DEF Quant
      <4>2. ~golden /\ ~dead
        BY <1>1, <1>2, <3>2
      <4>3. golden = FALSE /\ dead = FALSE
        BY <4>2
      <4> HIDE DEF q, golden, dead
      <4>4. QED
        BY <4>1, <4>3 DEF Neutral
    <3>3. CASE ~(n + 1 < Slow)
      <4>1. q.golden = GoldenCross(frame', n + 1) /\ q.dead = DeadCross(frame', n + 1)
        BY <1>1, <3>3 DEF Quant
      <4> HIDE DEF q
      <4>2. QED
        BY <3>1, <4>1 DEF GoldenCross, DeadCross
    <3>4. QED
      BY <3>2, <3>3
  <2> HIDE DEF q
  <2>3. QED
    BY <2>1, <2>2
<1>5. /\ follower.long \in BOOLEAN /\ follower.since \in Nat
      /\ follower = [long |-> follower.long, since |-> follower.since]
      /\ n <= Slow => ~follower.long /\ follower.since = 0
      /\ n > Slow /\ follower.long => before >= 0
      /\ n > Slow /\ follower.since > 0 /\ ~follower.long => before <= 0
  BY <1>1, <1>2, <1>3 DEF FollowerInv
<1> HIDE DEF n, now, before
<1>6. CASE golden
  <2>1. follower' = [long |-> TRUE, since |-> n + 1]
    BY <1>4, <1>6
  <2>2. QED
    BY <1>1, <1>2, <1>3, <1>6, <2>1 DEF FollowerInv, now
<1>7. CASE dead
  <2>1. follower' = [long |-> FALSE, since |-> n + 1]
    BY <1>1, <1>2, <1>3, <1>4, <1>7
  <2>2. QED
    BY <1>1, <1>2, <1>3, <1>7, <2>1 DEF FollowerInv, now
<1>8. CASE ~golden /\ ~dead
  <2>1. follower' = follower
    BY <1>4, <1>8
  <2>2. n + 1 > Slow /\ follower.long => now >= 0
    BY <1>1, <1>2, <1>3, <1>5, <1>8
  <2>3. n + 1 > Slow /\ follower.since > 0 /\ ~follower.long => now <= 0
    BY <1>1, <1>2, <1>3, <1>5, <1>8
  <2>4. n + 1 <= Slow => n <= Slow
    BY <1>1, <1>2
  <2>5. follower' \in [long : BOOLEAN, since : Nat]
    BY <2>1 DEF FollowerInv
  <2> HIDE DEF golden, dead
  <2>6. QED
    BY <1>1, <1>5, <2>1, <2>2, <2>3, <2>4, <2>5 DEF FollowerInv, now
<1>9. QED
  BY <1>6, <1>7, <1>8

\* For any prices and any windows: who acts on the live crosses is long exactly while
\* the backtest is, once they acted and except where the averages meet, and the backtest
\* pairs its trades.
THEOREM CrossesMeet == DeskSpec => []LiveAndBacktestMeet
<1>1. DeskInit => FollowerInv
  BY NoBars, WindowsAssumption DEF DeskInit, FollowerInv
<1>2. FollowerInv /\ [DeskNext]_deskVars => FollowerInv'
  <2>1. FollowerInv /\ UNCHANGED <<frame, follower>> => FollowerInv'
    BY DEF FollowerInv
  <2>2. QED
    BY <2>1, BarKeepsFollower, OthersKeepFrame
<1>3. FollowerInv => LiveAndBacktestMeet
  <2> SUFFICES ASSUME FollowerInv PROVE LiveAndBacktestMeet
    OBVIOUS
  <2> DEFINE n == Len(frame)
             spread == Spread(frame, n)
  <2>1. n \in Nat /\ Slow \in Nat /\ (n >= Slow => spread \in Int)
    BY SpreadType, LenProperties, WindowsAssumption DEF FollowerInv
  <2>2. Alternates(frame, n)
    BY <2>1, CrossesAlternate
  <2>3. Trades(frame) = Cardinality(Crosses(frame, n))
    BY DEF Trades, Crosses
  <2>4. Position(frame, n) \in BOOLEAN /\ (Trades(frame) % 2 = 1) \in BOOLEAN
    BY DEF Position
  <2>5. Position(frame, n) = (Trades(frame) % 2 = 1)
    BY <2>2, <2>3, <2>4 DEF Alternates
  <2>6. follower.long \in BOOLEAN /\ follower.since \in Nat
    BY DEF FollowerInv
  <2>7. follower.long /\ n >= Slow => spread >= 0
    BY <2>1 DEF FollowerInv
  <2>8. ASSUME follower.since > 0, spread # 0 PROVE follower.long = Position(frame, n)
    <3>1. n > Slow
      BY <2>1, <2>6, <2>8 DEF FollowerInv
    <3>2. Position(frame, n) <=> spread > 0
      BY <2>1, <2>2, <3>1 DEF Alternates, Bullish
    <3>3. follower.long <=> spread > 0
      BY <2>1, <2>6, <2>8, <3>1 DEF FollowerInv
    <3>4. QED
      BY <2>4, <2>6, <3>2, <3>3
  <2>9. QED
    BY <2>5, <2>7, <2>8 DEF LiveAndBacktestMeet
<1>4. QED
  BY <1>1, <1>2, <1>3, PTL DEF DeskSpec

-----------------------------------------------------------------------------
(* One regime for all clients *)

\* The rows of a payload switch and spike as the headlines and the prices say,
\* whatever the persona they are built for.
LEMMA RowsTell ==
  ASSUME NEW persona
  PROVE  /\ (\E r \in Rows(persona) : r.switch) <=> Sentiment(news).crisis
         /\ (\E r \in Rows(persona) : r.spike)
              <=> \E t \in {Stock, Etf} : Quant(t, frame).spike
<1> DEFINE s == Sentiment(news)
           late == regime.phase \in {"LATE_CYCLE", "CONTRACTION"}
           Shown(t) == Row(Quant(t, frame), s, Persona(persona, Quant(t, frame), s, frame), late)
<1>1. Rows(persona) = {Shown(t) : t \in {Stock, Etf}}
  BY DEF Rows
<1>2. \A t : Shown(t).switch = s.crisis /\ Shown(t).spike = Quant(t, frame).spike
  BY DEF Row
<1> HIDE DEF s, Shown
<1>3. (\E r \in Rows(persona) : r.switch) <=> s.crisis
  BY <1>1, <1>2
<1>4. (\E r \in Rows(persona) : r.spike) <=> \E t \in {Stock, Etf} : Quant(t, frame).spike
  BY <1>1, <1>2
<1>5. QED
  BY <1>3, <1>4 DEF s

\* The regime a client is shown does not depend on its persona, whatever is cached.
THEOREM RegimeIsShared == DeskSpec => []EscalationIsShared
<1>1. EscalationIsShared
  <2> SUFFICES ASSUME NEW p \in Personas, NEW q \in Personas
               PROVE  LiveRegime(Rows(p)) = LiveRegime(Rows(q))
    BY DEF EscalationIsShared
  <2>1. (\E r \in Rows(p) : r.switch) <=> (\E r \in Rows(q) : r.switch)
    BY RowsTell
  <2>2. (\E r \in Rows(p) : r.spike) <=> (\E r \in Rows(q) : r.spike)
    BY RowsTell
  <2>3. QED
    BY <2>1, <2>2 DEF LiveRegime
<1>2. QED
  BY <1>1, PTL

-----------------------------------------------------------------------------
(* Scenarios *)

\* The two parts of a penalty.
VarPart(var) == Between((var - 100) * 10, 0, 5000)
DrawdownPart(mdd) == Between(((-mdd - 1000) * 100) \div 60, 0, 5000)

LEMMA PenaltyParts ==
  ASSUME NEW var \in Int, NEW mdd \in Int
  PROVE  /\ RiskPenalty(var, mdd) = VarPart(var) + DrawdownPart(mdd)
         /\ VarPart(var) \in Int /\ 0 <= VarPart(var) /\ VarPart(var) <= 5000
         /\ DrawdownPart(mdd) \in Int /\ 0 <= DrawdownPart(mdd) /\ DrawdownPart(mdd) <= 5000
<1>1. (var - 100) * 10 \in Int
  OBVIOUS
<1>2. ((-mdd - 1000) * 100) \div 60 \in Int
  OBVIOUS
<1>3. VarPart(var) \in Int /\ 0 <= VarPart(var) /\ VarPart(var) <= 5000
  BY <1>1 DEF VarPart, Between
<1>4. DrawdownPart(mdd) \in Int /\ 0 <= DrawdownPart(mdd) /\ DrawdownPart(mdd) <= 5000
  BY <1>2 DEF DrawdownPart, Between
<1>5. RiskPenalty(var, mdd) = VarPart(var) + DrawdownPart(mdd)
  BY DEF RiskPenalty, VarPart, DrawdownPart
<1>6. QED
  BY <1>3, <1>4, <1>5

\* The parts of the risks the scenarios assume.
LEMMA AssumedParts ==
  /\ VarPart(650) = 5000 /\ VarPart(800) = 5000 /\ VarPart(80) = 0
  /\ VarPart(250) = 1500 /\ VarPart(150) = 500
  /\ DrawdownPart(-4500) = 5000 /\ DrawdownPart(-1500) = 833 /\ DrawdownPart(-800) = 0
BY DEF VarPart, DrawdownPart, Between

\* The inputs of a synthesis that two engines at least contribute to.
Fields == {"regime", "confidence", "quant", "conflict", "var", "mdd"}
Informed(in) ==
  /\ in.quant \notin Placeholders /\ in.conflict \notin Placeholders
  /\ in.confidence \in Int /\ in.var \in Int /\ in.mdd \in Int

Conviction(confidence, var, mdd) ==
  Between(Between(confidence, 0, 100) * 100 - RiskPenalty(var, mdd), 0, 10000)

\* A synthesis of two engines always has a conviction.
LEMMA InformedConviction ==
  ASSUME NEW in, Informed(in)
  PROVE  SynthesisView(in).conviction = Conviction(in.confidence, in.var, in.mdd)
<1> DEFINE F == {f \in {"regime", "quant", "conflict"} : in[f] \notin Placeholders}
<1>1. Cardinality(F) \in Nat /\ Cardinality(F) >= 2
  <2>1. IsFiniteSet({"regime", "quant", "conflict"})
    <3>1. IsFiniteSet({"regime"})
      BY FS_Singleton
    <3>2. IsFiniteSet({"regime"} \cup {"quant"})
      BY <3>1, FS_AddElement
    <3>3. IsFiniteSet(({"regime"} \cup {"quant"}) \cup {"conflict"})
      BY <3>2, FS_AddElement
    <3>4. {"regime", "quant", "conflict"} = ({"regime"} \cup {"quant"}) \cup {"conflict"}
      OBVIOUS
    <3>5. QED
      BY <3>3, <3>4
  <2>2. IsFiniteSet(F) /\ {"quant", "conflict"} \subseteq F
    BY <2>1, FS_Subset DEF Informed
  <2>3. Cardinality({"quant", "conflict"}) = 2
    <3>1. IsFiniteSet({"quant"}) /\ Cardinality({"quant"}) = 1
      BY FS_Singleton
    <3>2. {"quant", "conflict"} = {"quant"} \cup {"conflict"} /\ "conflict" \notin {"quant"}
      OBVIOUS
    <3>3. QED
      BY <3>1, <3>2, FS_AddElement
  <2> HIDE DEF F
  <2>4. QED
    BY <2>2, <2>3, FS_Subset, FS_CardinalityType
<1>2. EngineCount(in) >= 2
  <2>1. EngineCount(in) = Cardinality(F) + (IF in.var > 0 THEN 1 ELSE 0)
    BY DEF EngineCount
  <2> HIDE DEF F
  <2>2. QED
    BY <1>1, <2>1
<1>3. EngineCount(in) \in Int
  <2>1. EngineCount(in) = Cardinality(F) + (IF in.var > 0 THEN 1 ELSE 0)
    BY DEF EngineCount
  <2> HIDE DEF F
  <2>2. QED
    BY <1>1, <2>1
<1>4. Status(in)[1] # "insufficient_data"
  BY <1>2, <1>3 DEF Status
<1>5. QED
  BY <1>4 DEF SynthesisView, Conviction

\* What a scenario changes is the difference of two convictions.
LEMMA ScenarioDelta ==
  ASSUME NEW in, DOMAIN in = Fields, Informed(in), NEW s,
         OrElse(s.quant, in.quant) \notin Placeholders,
         OrElse(s.conflict, in.conflict) \notin Placeholders,
         NEW c \in Int, NEW v \in Int, NEW m \in Int,
         OrElse(s.confidence, in.confidence) = c,
         OrElse(s.var, in.var) = v, OrElse(s.mdd, in.mdd) = m
  PROVE  WhatIf(s, in).delta = Conviction(c, v, m) - Conviction(in.confidence, in.var, in.mdd)
<1> DEFINE projected == [f \in DOMAIN in |-> OrElse(s[f], in[f])]
<1>1. WhatIf(s, in).delta = SynthesisView(projected).conviction - SynthesisView(in).conviction
  BY DEF WhatIf
<1>2. /\ projected.quant = OrElse(s.quant, in.quant)
      /\ projected.conflict = OrElse(s.conflict, in.conflict)
      /\ projected.confidence = c /\ projected.var = v /\ projected.mdd = m
  BY DEF Fields
<1> HIDE DEF projected
<1>3. Informed(projected)
  BY <1>2 DEF Informed
<1>4. QED
  BY <1>1, <1>2, <1>3, InformedConviction

\* More penalty and no more confidence is no more conviction.
LEMMA ConvictionFalls ==
  ASSUME NEW c \in Int, NEW v \in Int, NEW m \in Int, NEW w \in Int, NEW n \in Int,
         VarPart(v) <= VarPart(w), DrawdownPart(m) <= DrawdownPart(n)
  PROVE  /\ Conviction(c, w, n) - Conviction(c, v, m) <= 0
         /\ Conviction(c, v, m) - Conviction(c, w, n) >= 0
<1> DEFINE conf == Between(c, 0, 100)
<1>1. conf \in 0 .. 100
  BY DEF Between
<1> HIDE DEF conf
<1>2. /\ RiskPenalty(v, m) \in Int /\ RiskPenalty(w, n) \in Int
      /\ RiskPenalty(v, m) <= RiskPenalty(w, n)
  <2>1. /\ RiskPenalty(v, m) = VarPart(v) + DrawdownPart(m)
        /\ VarPart(v) \in Int /\ DrawdownPart(m) \in Int
    BY PenaltyParts
  <2>2. /\ RiskPenalty(w, n) = VarPart(w) + DrawdownPart(n)
        /\ VarPart(w) \in Int /\ DrawdownPart(n) \in Int
    BY PenaltyParts
  <2>3. QED
    BY <2>1, <2>2
<1>3. QED
  BY <1>1, <1>2 DEF Conviction, Between, conf

-----------------------------------------------------------------------------
(* Risk *)

\* Max and Min find the extremes of a finite set of numbers.
LEMMA MaxMinIn ==
  ASSUME NEW S, IsFiniteSet(S), S \subseteq Int, S # {}
  PROVE  Max(S) \in S /\ Min(S) \in S /\ \A x \in S : Min(S) <= x /\ x <= Max(S)
<1>1. (\E m \in S : \A n \in S : m <= n) /\ (\E m \in S : \A n \in S : n <= m)
  BY FiniteExtremes
<1>2. \A m, n \in S : n <= m <=> m >= n
  OBVIOUS
<1>3. /\ \E x \in S : \A y \in S : x >= y
      /\ \E x \in S : \A y \in S : x =< y
  BY <1>1, <1>2
<1>4. /\ Max(S) \in S /\ \A y \in S : Max(S) >= y
      /\ Min(S) \in S /\ \A y \in S : Min(S) =< y
  BY <1>3 DEF Max, Min
<1>5. QED
  BY <1>2, <1>4

LEMMA PricesOf ==
  ASSUME NEW prices \in Seq(Nat \ {0})
  PROVE  Len(prices) \in Nat /\ \A k \in 1 .. Len(prices) : prices[k] \in Nat \ {0}
BY LenProperties, ElementOfSeq

\* The quotient of an integer by a positive one is an integer.
LEMMA QuotientType == \A a \in Int, b \in Nat \ {0} : a \div b \in Int
OBVIOUS

\* A VaR is a number: a day with the worst return counts among the worst.
LEMMA VarType ==
  ASSUME NEW prices \in Seq(Nat \ {0}), Len(prices) >= 2, NEW minObs
  PROVE  Var95(prices, minObs) \in Int
<1> DEFINE N == Len(prices)
           returns == 2 .. N
           R == [k \in returns |-> DailyReturn(prices, k)]
           Below(k) == Cardinality({j \in returns : R[j] < R[k]})
           worst == {k \in returns : 20 * Below(k) <= N - 2}
           S == {R[k] : k \in returns}
           W == {R[k] : k \in worst}
<1>1. N \in Nat /\ N >= 2 /\ \A k \in 1 .. N : prices[k] \in Nat \ {0}
  BY PricesOf
<1>2. R \in [returns -> Int]
  <2> SUFFICES ASSUME NEW k \in returns
               PROVE  DailyReturn(prices, k) \in Int
    OBVIOUS
  <2>1. k \in 1 .. N /\ k - 1 \in 1 .. N
    BY <1>1
  <2>2. prices[k] \in Nat \ {0} /\ prices[k - 1] \in Nat \ {0}
    BY <1>1, <2>1
  <2>3. (prices[k] - prices[k - 1]) * 10000 \in Int
    BY <2>2
  <2>4. QED
    BY <2>2, <2>3, QuotientType DEF DailyReturn
<1>3. IsFiniteSet(returns) /\ 2 \in returns
  BY <1>1, FS_Interval
<1>4. Var95(prices, minObs) = IF Cardinality(returns) < minObs THEN 0
                              ELSE Between(-Max(W), 0, 10000)
  <2>1. \A k \in returns : R[k] = DailyReturn(prices, k)
    OBVIOUS
  <2> HIDE DEF R
  <2>2. \A k \in returns :
          {j \in returns : R[j] < R[k]}
            = {j \in returns : DailyReturn(prices, j) < DailyReturn(prices, k)}
    BY <2>1
  <2> DEFINE daily ==
        {k \in returns :
           20 * Cardinality({j \in returns : DailyReturn(prices, j) < DailyReturn(prices, k)})
             <= N - 2}
  <2>3. worst = daily
    BY <2>2
  <2>4. W = {DailyReturn(prices, k) : k \in daily}
    BY <2>1, <2>3
  <2>5. Var95(prices, minObs) =
          IF Cardinality(returns) < minObs THEN 0
          ELSE Between(-Max({DailyReturn(prices, k) : k \in daily}), 0, 10000)
    BY DEF Var95
  <2> HIDE DEF W, daily
  <2>6. QED
    BY <2>4, <2>5
<1> HIDE DEF R
<1>5. S \subseteq Int /\ S # {} /\ IsFiniteSet(S)
  BY <1>2, <1>3, FiniteImage
<1>6. PICK k \in returns : \A j \in returns : R[k] <= R[j]
  <2> HIDE DEF S
  <2>1. Min(S) \in S /\ \A x \in S : Min(S) <= x
    BY <1>5, MaxMinIn
  <2>2. QED
    BY <2>1 DEF S
<1>7. k \in worst
  <2>1. R[k] \in Int /\ \A j \in returns : R[j] \in Int
    BY <1>2
  <2>2. {j \in returns : R[j] < R[k]} = {}
    BY <1>6, <2>1
  <2>3. Below(k) = 0
    BY <2>2, FS_EmptySet
  <2>4. QED
    BY <1>1, <2>3
<1>8. W \subseteq Int /\ W # {} /\ IsFiniteSet(W)
  <2>1. IsFiniteSet(worst)
    BY <1>3, FS_Subset
  <2>2. IsFiniteSet({R[i] : i \in worst})
    <3> HIDE DEF worst
    <3>1. QED
      BY <2>1, FiniteImage
  <2>3. QED
    BY <1>2, <1>7, <2>2
<1>9. Max(W) \in Int
  <2> HIDE DEF W
  <2>1. QED
    BY <1>8, MaxMinIn
<1> HIDE DEF W
<1>10. QED
  BY <1>4, <1>9 DEF Between

\* A drawdown is a number: it is measured from a peak, which is a price.
LEMMA DrawdownType ==
  ASSUME NEW prices \in Seq(Nat \ {0})
  PROVE  MaxDrawdown(prices) \in Int
<1> DEFINE N == Len(prices)
           Peak(k) == Max({prices[j] : j \in 1 .. k})
           D == [k \in 1 .. N |-> ((prices[k] - Peak(k)) * 10000) \div Peak(k)]
           S == {D[k] : k \in 1 .. N}
<1>1. N \in Nat /\ DOMAIN prices = 1 .. N /\ \A k \in 1 .. N : prices[k] \in Nat \ {0}
  BY PricesOf
<1>2. CASE N < 2
  BY <1>2 DEF MaxDrawdown
<1>3. CASE ~(N < 2)
  <2>1. ASSUME NEW k \in 1 .. N PROVE Peak(k) \in Nat \ {0}
    <3> DEFINE P == {prices[j] : j \in 1 .. k}
    <3>1. P \subseteq Nat \ {0} /\ P \subseteq Int /\ P # {}
      BY <1>1, <2>1
    <3>2. IsFiniteSet(1 .. k)
      BY <1>1, <2>1, FS_Interval
    <3>3. IsFiniteSet(P)
      BY <3>2, FiniteImage
    <3> HIDE DEF P
    <3>4. Max(P) \in P
      BY <3>1, <3>3, MaxMinIn
    <3>5. QED
      BY <3>1, <3>4 DEF P
  <2> HIDE DEF Peak
  <2>2. D \in [1 .. N -> Int]
    <3> SUFFICES ASSUME NEW k \in 1 .. N
                 PROVE  ((prices[k] - Peak(k)) * 10000) \div Peak(k) \in Int
      OBVIOUS
    <3>1. prices[k] \in Int /\ Peak(k) \in Nat \ {0}
      BY <1>1, <2>1
    <3>2. (prices[k] - Peak(k)) * 10000 \in Int
      BY <3>1
    <3>3. QED
      BY <3>1, <3>2, QuotientType
  <2>3. MaxDrawdown(prices) = Min(S)
    <3>1. S = {((prices[k] - Peak(k)) * 10000) \div Peak(k) : k \in DOMAIN prices}
      BY <1>1
    <3> HIDE DEF S
    <3>2. QED
      BY <1>3, <3>1 DEF MaxDrawdown, Peak
  <2> HIDE DEF D
  <2>4. S \subseteq Int /\ S # {} /\ IsFiniteSet(S)
    <3>1. IsFiniteSet(1 .. N)
      BY <1>1, FS_Interval
    <3>2. 1 \in 1 .. N
      BY <1>1, <1>3
    <3>3. QED
      BY <2>2, <3>1, <3>2, FiniteImage
  <2> HIDE DEF S
  <2>5. QED
    BY <2>3, <2>4, MaxMinIn
<1>4. QED
  BY <1>2, <1>3

\* What may be cached of the price histories.
HistoryOK == history = <<>> \/ history \in Histories

\* The risk read from any of them is a pair of numbers.
LEMMA RiskType ==
  ASSUME HistoryOK
  PROVE  RiskRead.var \in Int /\ RiskRead.mdd \in Int
<1> DEFINE held == {u \in DOMAIN history : Len(history[u]) >= 2}
           told == [t \in held |-> TickerRisk(history[t], MinObservations)]
<1>1. IsFiniteSet(held) /\ \A t \in held : history[t] \in Seq(Nat \ {0}) /\ Len(history[t]) >= 2
  <2>1. CASE history = <<>>
    <3>1. DOMAIN history = {}
      BY <2>1
    <3>2. held = {}
      BY <3>1
    <3>3. QED
      BY <3>2, FS_EmptySet
  <2>2. CASE history \in Histories
    BY <2>2, HistoriesAssumption, FS_Subset
  <2>3. QED
    BY <2>1, <2>2 DEF HistoryOK
<1>2. \A t \in held : told[t].var \in Int /\ told[t].mdd \in Int
  BY <1>1, VarType, DrawdownType DEF TickerRisk
<1>3. RiskRead = RiskFigures(told)
  BY DEF RiskRead
<1>4. DOMAIN told = held
  OBVIOUS
<1> HIDE DEF told, held
<1>5. CASE held = {}
  BY <1>3, <1>4, <1>5 DEF RiskFigures
<1>6. CASE held # {}
  <2> DEFINE losses == [t \in held |-> told[t].var]
             mdds == [t \in held |-> told[t].mdd]
             lows == {mdds[t] : t \in held}
  <2>1. losses \in [held -> Int] /\ DOMAIN losses = held
    BY <1>2
  <2>2. SumFunction(losses) \in Int
    <3> HIDE DEF losses
    <3>1. SumFunction(losses) = Sum(losses, held)
      BY <2>1, SumFunctionOnSetIsSum DEF SumFunction
    <3>2. Sum(losses, held) \in Int
      BY <1>1, <2>1, SumType
    <3>3. QED
      BY <3>1, <3>2
  <2>3. Cardinality(held) \in Nat \ {0}
    BY <1>1, <1>6, FS_EmptySet, FS_CardinalityType
  <2>4. lows \subseteq Int /\ lows # {} /\ IsFiniteSet(lows)
    BY <1>1, <1>2, <1>6, FiniteImage
  <2>5. lows = {told[t].mdd : t \in held}
    OBVIOUS
  <2>6. RiskRead.var = SumFunction(losses) \div Cardinality(held) /\ RiskRead.mdd = Min(lows)
    <3> HIDE DEF lows
    <3>1. QED
      BY <1>3, <1>4, <1>6, <2>5 DEF RiskFigures
  <2>7. Min(lows) \in Int
    <3> HIDE DEF lows
    <3>1. QED
      BY <2>4, MaxMinIn
  <2> HIDE DEF losses, lows
  <2>8. QED
    BY <2>2, <2>3, <2>6, <2>7, QuotientType
<1>7. QED
  BY <1>5, <1>6

\* The inputs of a synthesis are always informed: the indicators are cached from the start.
LEMMA InputsInformed ==
  ASSUME NEW r, r.confidence \in Int, NEW m, NEW risk, risk.var \in Int, risk.mdd \in Int
  PROVE  LET in == SynthesisInputs(r, m, risk)
         IN  /\ DOMAIN in = Fields /\ Informed(in)
             /\ in.confidence = r.confidence /\ in.var = risk.var /\ in.mdd = risk.mdd
<1> DEFINE in == SynthesisInputs(r, m, risk)
           spread == m.T10Y - m.T3M
<1>1. /\ DOMAIN in = Fields
      /\ in.confidence = r.confidence /\ in.var = risk.var /\ in.mdd = risk.mdd
      /\ in.quant = DeriveQuantSupport(m.VIX, spread)
      /\ \E label : in.conflict = DeriveConflictStatus(label, m.VIX, spread)
  BY DEF SynthesisInputs, Fields
<1> HIDE DEF in, spread
<1>2. \A v, s : DeriveQuantSupport(v, s) \notin Placeholders
  BY DEF DeriveQuantSupport, Placeholders
<1>3. \A l, v, s : DeriveConflictStatus(l, v, s) \notin Placeholders
  BY DEF DeriveConflictStatus, Placeholders
<1>4. Informed(in)
  BY <1>1, <1>2, <1>3 DEF Informed
<1>5. QED
  BY <1>1, <1>4 DEF in

\* A scenario that leaves the confidence alone, from any informed inputs.
LEMMA PresetDelta ==
  ASSUME NEW in, DOMAIN in = Fields, Informed(in),
         NEW s, s.quant = Nil \/ s.quant \notin Placeholders,
         s.conflict = Nil \/ s.conflict \notin Placeholders, s.confidence = Nil, NEW v \in Int, NEW m \in Int,
         v = OrElse(s.var, in.var), m = OrElse(s.mdd, in.mdd)
  PROVE  WhatIf(s, in).delta
           = Conviction(in.confidence, v, m) - Conviction(in.confidence, in.var, in.mdd)
<1>1. /\ OrElse(s.quant, in.quant) \notin Placeholders
      /\ OrElse(s.conflict, in.conflict) \notin Placeholders
      /\ OrElse(s.confidence, in.confidence) = in.confidence
      /\ in.confidence \in Int
  BY DEF OrElse, Informed
<1>2. QED
  BY <1>1, ScenarioDelta

\* The presets of both servers, with the fields the deltas rest on.
LEMMA WhatIfPresetFacts ==
  /\ \A s \in {"vix_spike", "yield_inversion", "market_crash", "soft_landing"} :
       /\ WhatIfPresets[s].quant = Nil \/ WhatIfPresets[s].quant \notin Placeholders
       /\ WhatIfPresets[s].conflict = Nil \/ WhatIfPresets[s].conflict \notin Placeholders
       /\ WhatIfPresets[s].confidence = Nil
  /\ WhatIfPresets["vix_spike"].var = 650 /\ WhatIfPresets["vix_spike"].mdd = Nil
  /\ WhatIfPresets["yield_inversion"].var = Nil /\ WhatIfPresets["yield_inversion"].mdd = Nil
  /\ WhatIfPresets["market_crash"].var = 800 /\ WhatIfPresets["market_crash"].mdd = -4500
  /\ WhatIfPresets["soft_landing"].var = 80 /\ WhatIfPresets["soft_landing"].mdd = Nil
BY DEF WhatIfPresets, Preset, Placeholders

LEMMA ToolPresetFacts ==
  LET crisis == ToolPresets["crisis"]  goldilocks == ToolPresets["goldilocks"]
  IN /\ crisis.quant \notin Placeholders /\ crisis.conflict \notin Placeholders
     /\ crisis.confidence = 30 /\ crisis.var = 800 /\ crisis.mdd = -4500
     /\ goldilocks.quant \notin Placeholders /\ goldilocks.conflict \notin Placeholders
     /\ goldilocks.confidence = 85 /\ goldilocks.var = 150 /\ goldilocks.mdd = -800
BY DEF ToolPresets, ToolPreset, Placeholders

\* A number overrides the one it stands for.
LEMMA NumbersOverride == \A n \in Int : \A d : OrElse(n, d) = n /\ OrElse(Nil, d) = d
BY AbsentAssumption DEF OrElse

\* The presets of the page, from the inputs of any moment.
LEMMA PresetsMoveAsNamed ==
  ASSUME NEW in, DOMAIN in = Fields, Informed(in)
  PROVE  /\ \A s \in {"vix_spike", "yield_inversion", "market_crash"} :
               WhatIf(WhatIfPresets[s], in).delta <= 0
         /\ WhatIf(WhatIfPresets["soft_landing"], in).delta >= 0
<1> DEFINE c == in.confidence
           v == in.var
           m == in.mdd
<1>1. c \in Int /\ v \in Int /\ m \in Int
  BY DEF Informed
<1> HIDE DEF c, v, m
<1>2. /\ VarPart(v) \in Int /\ 0 <= VarPart(v) /\ VarPart(v) <= 5000
      /\ DrawdownPart(m) \in Int /\ DrawdownPart(m) <= 5000 /\ DrawdownPart(m) <= DrawdownPart(m)
      /\ VarPart(v) <= VarPart(v)
  <2>1. /\ VarPart(v) \in Int /\ 0 <= VarPart(v) /\ VarPart(v) <= 5000
        /\ DrawdownPart(m) \in Int /\ DrawdownPart(m) <= 5000
    BY <1>1, PenaltyParts
  <2>2. QED
    BY <2>1
<1>3. WhatIf(WhatIfPresets["vix_spike"], in).delta <= 0
  <2>1. 650 = OrElse(650, v) /\ m = OrElse(Nil, m)
    BY NumbersOverride
  <2>2. WhatIf(WhatIfPresets["vix_spike"], in).delta = Conviction(c, 650, m) - Conviction(c, v, m)
    BY <1>1, <2>1, PresetDelta, WhatIfPresetFacts DEF c, v, m
  <2>3. 650 \in Int /\ VarPart(v) <= VarPart(650)
    BY <1>2, AssumedParts
  <2>4. Conviction(c, 650, m) - Conviction(c, v, m) <= 0
    BY <1>1, <1>2, <2>3, ConvictionFalls
  <2>5. QED
    BY <2>2, <2>4
<1>4. WhatIf(WhatIfPresets["yield_inversion"], in).delta <= 0
  <2>1. v = OrElse(Nil, v) /\ m = OrElse(Nil, m)
    BY NumbersOverride
  <2>2. WhatIf(WhatIfPresets["yield_inversion"], in).delta = Conviction(c, v, m) - Conviction(c, v, m)
    BY <1>1, <2>1, PresetDelta, WhatIfPresetFacts DEF c, v, m
  <2>3. QED
    BY <1>1, <1>2, <2>2, ConvictionFalls
<1>5. WhatIf(WhatIfPresets["market_crash"], in).delta <= 0
  <2>1. 800 = OrElse(800, v) /\ -4500 = OrElse(-4500, m)
    BY NumbersOverride
  <2>2. WhatIf(WhatIfPresets["market_crash"], in).delta
          = Conviction(c, 800, -4500) - Conviction(c, v, m)
    BY <1>1, <2>1, PresetDelta, WhatIfPresetFacts DEF c, v, m
  <2>3. /\ 800 \in Int /\ -4500 \in Int
        /\ VarPart(v) <= VarPart(800) /\ DrawdownPart(m) <= DrawdownPart(-4500)
    BY <1>2, AssumedParts
  <2>4. Conviction(c, 800, -4500) - Conviction(c, v, m) <= 0
    BY <1>1, <1>2, <2>3, ConvictionFalls
  <2>5. QED
    BY <2>2, <2>4
<1>6. WhatIf(WhatIfPresets["soft_landing"], in).delta >= 0
  <2>1. 80 = OrElse(80, v) /\ m = OrElse(Nil, m)
    BY NumbersOverride
  <2>2. WhatIf(WhatIfPresets["soft_landing"], in).delta = Conviction(c, 80, m) - Conviction(c, v, m)
    BY <1>1, <2>1, PresetDelta, WhatIfPresetFacts DEF c, v, m
  <2>3. 80 \in Int /\ VarPart(80) <= VarPart(v)
    BY <1>2, AssumedParts
  <2>4. Conviction(c, 80, m) - Conviction(c, v, m) >= 0
    BY <1>1, <1>2, <2>3, ConvictionFalls
  <2>5. QED
    BY <2>2, <2>4
<1>7. QED
  BY <1>3, <1>4, <1>5, <1>6

\* The agent's tool, from the regime and the indicators of any moment.
LEMMA ToolMovesAsNamed ==
  ASSUME NEW r, r.confidence \in Int, NEW m
  PROVE  /\ RunScenarioTool(ToolPresets["crisis"], r, m).delta <= 0
         /\ RunScenarioTool(ToolPresets["goldilocks"], r, m).delta >= 0
<1> DEFINE in == SynthesisInputs(r, m, ToolRisk)
           Of(s) == WhatIf(ToolPresets[s], in).delta
           now == Conviction(in.confidence, 250, -1500)
<1>1. ToolRisk.var = 250 /\ ToolRisk.mdd = -1500
  BY DEF ToolRisk
<1>2. DOMAIN in = Fields /\ Informed(in) /\ in.var = 250 /\ in.mdd = -1500
      /\ in.confidence \in Int
  BY <1>1, InputsInformed
<1>3. /\ RunScenarioTool(ToolPresets["crisis"], r, m).delta = Of("crisis")
      /\ RunScenarioTool(ToolPresets["goldilocks"], r, m).delta = Of("goldilocks")
  BY DEF RunScenarioTool
<1> HIDE DEF in
<1>4. /\ OrElse(800, in.var) = 800 /\ OrElse(-4500, in.mdd) = -4500
      /\ OrElse(30, in.confidence) = 30
      /\ OrElse(150, in.var) = 150 /\ OrElse(-800, in.mdd) = -800
      /\ OrElse(85, in.confidence) = 85
      /\ \A x, d : x \notin Placeholders /\ d \notin Placeholders => OrElse(x, d) \notin Placeholders
  <2>1. \A x, d : x \notin Placeholders /\ d \notin Placeholders => OrElse(x, d) \notin Placeholders
    BY DEF OrElse
  <2>2. QED
    BY <2>1, NumbersOverride
<1>5. Of("crisis") = Conviction(30, 800, -4500) - now
  BY <1>2, <1>4, ScenarioDelta, ToolPresetFacts DEF Informed
<1>6. Of("goldilocks") = Conviction(85, 150, -800) - now
  BY <1>2, <1>4, ScenarioDelta, ToolPresetFacts DEF Informed
<1>7. Conviction(30, 800, -4500) = 0 /\ Conviction(85, 150, -800) = 8000
  <2>1. RiskPenalty(800, -4500) = 10000 /\ RiskPenalty(150, -800) = 500
    BY PenaltyParts, AssumedParts
  <2>2. QED
    BY <2>1 DEF Conviction, Between
<1>8. now \in Int /\ 0 <= now /\ now <= 7667
  <2>1. RiskPenalty(250, -1500) = 2333
    BY PenaltyParts, AssumedParts
  <2> DEFINE conf == Between(in.confidence, 0, 100)
  <2>2. conf \in 0 .. 100
    BY <1>2 DEF Between
  <2>3. now = Between(conf * 100 - 2333, 0, 10000)
    BY <2>1 DEF Conviction
  <2> HIDE DEF conf, now
  <2>4. QED
    BY <2>2, <2>3 DEF Between
<1> HIDE DEF Of, now
<1>9. Of("crisis") <= 0
  BY <1>5, <1>7, <1>8
<1>10. Of("goldilocks") >= 0
  BY <1>6, <1>7, <1>8
<1>11. QED
  BY <1>3, <1>9, <1>10

\* Whatever the regime, the indicators and the histories of the day, a scenario named for a
\* shock never raises the conviction, and the soft landing never lowers it.
THEOREM ScenariosKeepTheirNames == DeskSpec => []ScenariosMoveAsNamed
<1> DEFINE Inv == regime \in Regimes /\ HistoryOK
<1>1. DeskInit => Inv
  BY DEF DeskInit, HistoryOK
<1>2. Inv /\ [DeskNext]_deskVars => Inv'
  BY DEF DeskNext, deskVars, Bar, Headlines, MacroCollected, HistoryCollected, HistoryOK
<1>3. Inv => ScenariosMoveAsNamed
  <2> SUFFICES ASSUME Inv PROVE ScenariosMoveAsNamed
    OBVIOUS
  <2>1. regime.confidence \in Int /\ RiskRead.var \in Int /\ RiskRead.mdd \in Int
    BY RegimesAssumption, RiskType
  <2>2. DOMAIN CurrentInputs = Fields /\ Informed(CurrentInputs)
    BY <2>1, InputsInformed DEF CurrentInputs
  <2>3. QED
    BY <2>1, <2>2, PresetsMoveAsNamed, ToolMovesAsNamed DEF ScenariosMoveAsNamed, Scenario
<1>4. QED
  BY <1>1, <1>2, <1>3, PTL DEF DeskSpec
=============================================================================

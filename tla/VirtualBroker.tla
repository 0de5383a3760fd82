--------------------------- MODULE VirtualBroker ---------------------------
(***************************************************************************)
(* The virtual broker as it runs: worker threads (agent tools, the reset   *)
(* endpoint) execute execute_virtual_order and reset_virtual_portfolio     *)
(* statement by statement, each in one READ COMMITTED transaction, while   *)
(* the server process may be killed and started again.                     *)
(*                                                                         *)
(* The tables accounts, cash, holdings, orders and audit hold committed    *)
(* data.  A transaction's own writes are applied when it commits; what it  *)
(* read, and the row locks it took, are kept per thread.                   *)
(***************************************************************************)
EXTENDS OrderMath

CONSTANTS Threads,    \* worker threads that call the broker
          NoThread    \* owner of a lock nobody holds

ASSUME ThreadAssumption == NoThread \notin Threads

VARIABLES accounts, cash, holdings, orders, audit,
          nextId,     \* next value of the SERIAL sequence; survives rollbacks
          acctLock,   \* transaction holding each virtual_accounts row
          holdLock,   \* transaction holding each portfolio_holdings row
          pc,         \* next statement of each thread
          req,        \* the order each thread is executing
          seenCash,   \* cash_balance its SELECT ... FOR UPDATE returned
          seenHold,   \* holding row its SELECT ... FOR UPDATE returned
          orderId,    \* id its INSERT INTO virtual_orders returned
          scanAt,     \* account row a reset's UPDATE is at
          doomed,     \* holding rows a reset's DELETE saw
          reply,      \* what the last call of each thread returned
          up          \* the server process is running

tables == <<accounts, cash, holdings, orders, audit>>
txState == <<pc, req, seenCash, seenHold, orderId, scanAt, doomed>>
vars == <<tables, nextId, acctLock, holdLock, txState, reply, up>>

Ledger == INSTANCE PaperLedger
          WITH accounts <- accounts, cash <- cash, holdings <- holdings,
               orders <- orders, audit <- audit

OrderSteps == {"account", "holding", "write", "commit"}
ResetSteps == {"reset_accounts", "reset_holdings", "reset_orders"}
Steps == {"idle"} \cup OrderSteps \cup ResetSteps

NoReply == [status |-> "NONE", order_id |-> 0]
Replies == [status : {"NONE", "FILLED", "REJECTED", "ERROR", "RESET"}, order_id : Nat]

OrderRows == [order_id : OrderIds, ticker : Tickers, side : Sides,
              quantity : Nat, fill_price : Nat]
AuditRows == [order_id : OrderIds, ticker : Tickers, side : Sides, quantity : Nat,
              fill_price : Nat, notional : Nat, commission : Nat]

TypeOK ==
  /\ accounts \subseteq Currencies
  /\ cash \in [Currencies -> Int]
  /\ holdings \in [Tickers -> Holding]
  /\ orders \subseteq OrderRows
  /\ audit \subseteq AuditRows
  /\ nextId \in Nat
  /\ acctLock \in [Currencies -> Threads \cup {NoThread}]
  /\ holdLock \in [Tickers -> Threads \cup {NoThread}]
  /\ pc \in [Threads -> Steps]
  /\ req \in [Threads -> Requests]
  /\ seenCash \in [Threads -> Int]
  /\ seenHold \in [Threads -> Holding]
  /\ orderId \in [Threads -> Nat]
  /\ scanAt \in [Threads -> Currencies]
  /\ doomed \in [Threads -> SUBSET Tickers]
  /\ reply \in [Threads -> Replies]
  /\ up \in BOOLEAN

Init ==
  /\ Ledger!Init
  /\ nextId = 1
  /\ acctLock = [c \in Currencies |-> NoThread]
  /\ holdLock = [t \in Tickers |-> NoThread]
  /\ pc = [th \in Threads |-> "idle"]
  /\ req = [th \in Threads |-> AnyRequest]
  /\ seenCash = [th \in Threads |-> 0]
  /\ seenHold = [th \in Threads |-> NoHolding]
  /\ orderId = [th \in Threads |-> 0]
  /\ scanAt = [th \in Threads |-> "KRW"]
  /\ doomed = [th \in Threads |-> {}]
  /\ reply = [th \in Threads |-> NoReply]
  /\ up = FALSE

---------------------------------------------------------------------------
(* Transactions end by giving up every row lock they hold.                 *)

Unlock(lock, th) == [x \in DOMAIN lock |-> IF lock[x] = th THEN NoThread ELSE lock[x]]

\* Forget a finished call: the locals of the Python frame are gone.
ForgetLocals(th) ==
  /\ seenCash' = [seenCash EXCEPT ![th] = 0]
  /\ seenHold' = [seenHold EXCEPT ![th] = NoHolding]
  /\ orderId' = [orderId EXCEPT ![th] = 0]
  /\ req' = [req EXCEPT ![th] = AnyRequest]
  /\ scanAt' = [scanAt EXCEPT ![th] = "KRW"]
  /\ doomed' = [doomed EXCEPT ![th] = {}]

\* The transaction of th is over and its caller gets this status.
EndTx(th, status, id) ==
  /\ pc' = [pc EXCEPT ![th] = "idle"]
  /\ acctLock' = Unlock(acctLock, th)
  /\ holdLock' = Unlock(holdLock, th)
  /\ reply' = [reply EXCEPT ![th] = [status |-> status, order_id |-> id]]
  /\ ForgetLocals(th)

---------------------------------------------------------------------------
(* Orders.                                                                 *)

\* Refused before a connection is leased.
RefuseOrder(th, r) ==
  /\ up /\ pc[th] = "idle" /\ ~WellFormed(r)
  /\ reply' = [reply EXCEPT ![th] = [status |-> "REJECTED", order_id |-> 0]]
  /\ UNCHANGED <<tables, nextId, acctLock, holdLock, txState, up>>

BeginOrder(th, r) ==
  /\ up /\ pc[th] = "idle" /\ WellFormed(r)
  /\ pc' = [pc EXCEPT ![th] = "account"]
  /\ req' = [req EXCEPT ![th] = r]
  /\ reply' = [reply EXCEPT ![th] = NoReply]
  /\ UNCHANGED <<tables, nextId, acctLock, holdLock, seenCash, seenHold, orderId,
                 scanAt, doomed, up>>

\* The account SELECT without FOR UPDATE.
LockAccountPlainSelect(th) ==
  LET c == TickerCurrency(req[th].ticker)
  IN  /\ pc[th] = "account" /\ c \in accounts
      /\ seenCash' = [seenCash EXCEPT ![th] = cash[c]]
      /\ pc' = [pc EXCEPT ![th] = "holding"]
      /\ UNCHANGED <<tables, nextId, acctLock, holdLock, req, seenHold, orderId,
                     scanAt, doomed, reply, up>>

\* SELECT cash_balance ... FOR UPDATE; blocks while another transaction has the row.
LockAccount(th) ==
  LET c == TickerCurrency(req[th].ticker)
  IN  /\ pc[th] = "account" /\ c \in accounts
      /\ acctLock[c] = NoThread
      /\ acctLock' = [acctLock EXCEPT ![c] = th]
      /\ seenCash' = [seenCash EXCEPT ![th] = cash[c]]
      /\ pc' = [pc EXCEPT ![th] = "holding"]
      /\ UNCHANGED <<tables, nextId, holdLock, req, seenHold, orderId, scanAt,
                     doomed, reply, up>>

\* No row for the currency: refused; no table at all: an exception.
NoAccount(th) ==
  /\ pc[th] = "account" /\ TickerCurrency(req[th].ticker) \notin accounts
  /\ \E status \in {"REJECTED", "ERROR"} : EndTx(th, status, 0)
  /\ UNCHANGED <<tables, nextId, up>>

\* SELECT quantity, avg_cost ... FOR UPDATE: locks the row only if there is one.
LockHolding(th) ==
  LET t == req[th].ticker
  IN  /\ pc[th] = "holding"
      /\ IF holdings[t].row
         THEN holdLock[t] = NoThread /\ holdLock' = [holdLock EXCEPT ![t] = th]
         ELSE UNCHANGED holdLock
      /\ seenHold' = [seenHold EXCEPT ![th] = holdings[t]]
      /\ pc' = [pc EXCEPT ![th] = "write"]
      /\ UNCHANGED <<tables, nextId, acctLock, req, seenCash, orderId, scanAt,
                     doomed, reply, up>>

\* A rejection that leaves its transaction open.
RejectOrderLeaksTx(th) ==
  /\ pc[th] = "write" /\ ~Affordable(req[th], seenCash[th], seenHold[th])
  /\ pc' = [pc EXCEPT ![th] = "idle"]
  /\ reply' = [reply EXCEPT ![th] = [status |-> "REJECTED", order_id |-> 0]]
  /\ ForgetLocals(th)
  /\ UNCHANGED <<tables, nextId, acctLock, holdLock, up>>

\* Insufficient cash or holdings: the with block is left with nothing written.
RejectOrder(th) ==
  /\ pc[th] = "write" /\ ~Affordable(req[th], seenCash[th], seenHold[th])
  /\ EndTx(th, "REJECTED", 0)
  /\ UNCHANGED <<tables, nextId, up>>

\* The holding, account, order and audit statements; RETURNING id takes the
\* next value of the sequence.
WriteOrder(th) ==
  /\ pc[th] = "write" /\ Affordable(req[th], seenCash[th], seenHold[th])
  /\ nextId \in OrderIds
  /\ orderId' = [orderId EXCEPT ![th] = nextId]
  /\ nextId' = nextId + 1
  /\ pc' = [pc EXCEPT ![th] = "commit"]
  /\ UNCHANGED <<tables, acctLock, holdLock, req, seenCash, seenHold, scanAt,
                 doomed, reply, up>>

\* The sequence is used up: the INSERT raises.
IdsExhausted(th) ==
  /\ pc[th] = "write" /\ Affordable(req[th], seenCash[th], seenHold[th])
  /\ nextId \notin OrderIds
  /\ EndTx(th, "ERROR", 0)
  /\ UNCHANGED <<tables, nextId, up>>

\* The audit INSERT left out of the transaction.
ApplyOrderUnaudited(th) ==
  LET r == req[th]
      c == TickerCurrency(r.ticker)
  IN  /\ cash' = [cash EXCEPT ![c] = @ + CashFlow(r)]
      /\ holdings' = [holdings EXCEPT ![r.ticker] = HoldingAfter(r, seenHold[th])]
      /\ orders' = orders \cup {OrderRow(r, orderId[th])}
      /\ UNCHANGED <<accounts, audit>>

\* The committed effect: the account UPDATE is relative to the row, the holding
\* row is overwritten with values computed from what was read.
ApplyOrder(th) ==
  LET r == req[th]
      c == TickerCurrency(r.ticker)
  IN  /\ cash' = [cash EXCEPT ![c] = @ + CashFlow(r)]
      /\ holdings' = [holdings EXCEPT ![r.ticker] = HoldingAfter(r, seenHold[th])]
      /\ orders' = orders \cup {OrderRow(r, orderId[th])}
      /\ audit' = audit \cup {AuditRow(r, orderId[th])}
      /\ UNCHANGED accounts

\* conn.commit(); if the connection breaks after the server committed, the
\* caller is told ERROR although the order is in the book.
CommitOrder(th) ==
  /\ pc[th] = "commit"
  /\ ApplyOrder(th)
  /\ \/ EndTx(th, "FILLED", orderId[th])
     \/ EndTx(th, "ERROR", 0)
  /\ UNCHANGED <<nextId, up>>

---------------------------------------------------------------------------
(* Reset: UPDATE all accounts, DELETE holdings, DELETE orders, commit.     *)

\* The UPDATE scans the account rows in heap order, which the rows' update
\* history decides: any order is possible.  On an empty or missing table the
\* call ends at once.
BeginReset(th) ==
  /\ up /\ pc[th] = "idle" /\ accounts # {}
  /\ \E c \in accounts : scanAt' = [scanAt EXCEPT ![th] = c]
  /\ pc' = [pc EXCEPT ![th] = "reset_accounts"]
  /\ reply' = [reply EXCEPT ![th] = NoReply]
  /\ UNCHANGED <<tables, nextId, acctLock, holdLock, req, seenCash, seenHold,
                 orderId, doomed, up>>

\* The reset of one account only.
ResetLockOneRow(th) ==
  LET c == scanAt[th]
  IN  /\ pc[th] = "reset_accounts"
      /\ acctLock[c] = NoThread
      /\ acctLock' = [acctLock EXCEPT ![c] = th]
      /\ pc' = [pc EXCEPT ![th] = "reset_holdings"]
      /\ UNCHANGED <<tables, nextId, holdLock, req, seenCash, seenHold, orderId,
                     scanAt, doomed, reply, up>>

\* One row of the UPDATE, waiting for its lock.
ResetLock(th) ==
  LET c    == scanAt[th]
      left == {d \in accounts : d # c /\ acctLock[d] # th}
  IN  /\ pc[th] = "reset_accounts"
      /\ acctLock[c] = NoThread
      /\ acctLock' = [acctLock EXCEPT ![c] = th]
      /\ IF left = {}
         THEN pc' = [pc EXCEPT ![th] = "reset_holdings"] /\ UNCHANGED scanAt
         ELSE /\ \E d \in left : scanAt' = [scanAt EXCEPT ![th] = d]
              /\ UNCHANGED pc
      /\ UNCHANGED <<tables, nextId, holdLock, req, seenCash, seenHold, orderId,
                     doomed, reply, up>>

\* DELETE FROM portfolio_holdings: the rows committed by now, once unlocked.
ResetHoldings(th) ==
  LET seen == {t \in Tickers : holdings[t].row}
  IN  /\ pc[th] = "reset_holdings"
      /\ \A t \in seen : holdLock[t] = NoThread
      /\ holdLock' = [t \in Tickers |-> IF t \in seen THEN th ELSE holdLock[t]]
      /\ doomed' = [doomed EXCEPT ![th] = seen]
      /\ pc' = [pc EXCEPT ![th] = "reset_orders"]
      /\ UNCHANGED <<tables, nextId, acctLock, req, seenCash, seenHold, orderId,
                     scanAt, reply, up>>

\* The deletion of the orders forgotten.
ResetKeepsOrders(th) ==
  /\ pc[th] = "reset_orders"
  /\ cash' = [c \in Currencies |-> IF acctLock[c] = th THEN SeedBalance[c] ELSE cash[c]]
  /\ holdings' = [t \in Tickers |-> IF t \in doomed[th] THEN NoHolding ELSE holdings[t]]
  /\ EndTx(th, "RESET", 0)
  /\ UNCHANGED <<accounts, orders, audit, nextId, up>>

\* DELETE FROM virtual_orders, and the commit when the with block is left.
ResetCommit(th) ==
  /\ pc[th] = "reset_orders"
  /\ cash' = [c \in Currencies |-> IF acctLock[c] = th THEN SeedBalance[c] ELSE cash[c]]
  /\ holdings' = [t \in Tickers |-> IF t \in doomed[th] THEN NoHolding ELSE holdings[t]]
  /\ orders' = {}
  /\ EndTx(th, "RESET", 0)
  /\ UNCHANGED <<accounts, audit, nextId, up>>

---------------------------------------------------------------------------
(* Failures.                                                               *)

\* Any statement may raise (lost connection, pool timeout, full disk): the
\* transaction rolls back and the call answers ERROR.
FailTx(th) ==
  /\ pc[th] # "idle"
  /\ EndTx(th, "ERROR", 0)
  /\ UNCHANGED <<tables, nextId, up>>

\* Two resets that wait for each other's account row: PostgreSQL's deadlock
\* detector aborts one.
DeadlockAbort(th) ==
  /\ pc[th] = "reset_accounts"
  /\ \E u \in Threads \ {th} :
       /\ pc[u] = "reset_accounts"
       /\ acctLock[scanAt[th]] = u
       /\ acctLock[scanAt[u]] = th
  /\ EndTx(th, "ERROR", 0)
  /\ UNCHANGED <<tables, nextId, up>>

\* The process dies: every open transaction is rolled back, every lock freed.
Crash ==
  /\ up
  /\ up' = FALSE
  /\ acctLock' = [c \in Currencies |-> NoThread]
  /\ holdLock' = [t \in Tickers |-> NoThread]
  /\ pc' = [th \in Threads |-> "idle"]
  /\ req' = [th \in Threads |-> AnyRequest]
  /\ seenCash' = [th \in Threads |-> 0]
  /\ seenHold' = [th \in Threads |-> NoHolding]
  /\ orderId' = [th \in Threads |-> 0]
  /\ scanAt' = [th \in Threads |-> "KRW"]
  /\ doomed' = [th \in Threads |-> {}]
  /\ reply' = [th \in Threads |-> NoReply]
  /\ UNCHANGED <<tables, nextId>>

\* ON CONFLICT DO UPDATE in place of DO NOTHING.
SeedAccountsOverwriting == cash' = [c \in Currencies |-> SeedBalance[c]]

\* INSERT ... ON CONFLICT (currency) DO NOTHING for every seed currency.
SeedAccounts ==
  cash' = [c \in Currencies |-> IF c \in accounts THEN cash[c] ELSE SeedBalance[c]]

\* Startup runs init_db; if it fails the server starts all the same.
Startup ==
  /\ ~up
  /\ up' = TRUE
  /\ \/ accounts' = Currencies /\ SeedAccounts
     \/ UNCHANGED <<accounts, cash>>
  /\ UNCHANGED <<holdings, orders, audit, nextId, acctLock, holdLock, txState, reply>>

---------------------------------------------------------------------------
OrderStep(th) ==
  \/ LockAccount(th) \/ NoAccount(th) \/ LockHolding(th)
  \/ RejectOrder(th) \/ WriteOrder(th) \/ IdsExhausted(th) \/ CommitOrder(th)

ResetStep(th) ==
  \/ ResetLock(th) \/ ResetHoldings(th) \/ ResetCommit(th) \/ DeadlockAbort(th)

Next ==
  \/ \E th \in Threads, r \in Requests : RefuseOrder(th, r) \/ BeginOrder(th, r)
  \/ \E th \in Threads : BeginReset(th)
  \/ \E th \in Threads : OrderStep(th) \/ ResetStep(th) \/ FailTx(th)
  \/ Crash
  \/ Startup

\* A thread that can run its next statement runs it; PostgreSQL grants a row
\* lock to its waiters in the order they came, hence strong fairness where a
\* statement may wait for one.
Fairness ==
  \A th \in Threads :
    /\ SF_vars(LockAccount(th) \/ ResetLock(th))
    /\ WF_vars(OrderStep(th)) /\ WF_vars(ResetStep(th))

Spec == Init /\ [][Next]_vars

FairSpec == Spec /\ Fairness

---------------------------------------------------------------------------
(* Properties.                                                             *)

\* No interleaving of orders, resets, failures and restarts overdraws an
\* account: the affordability test of execute_virtual_order is made on a
\* balance that no other transaction can lower before this one commits.
CashNeverNegative == \A c \in Currencies : cash[c] >= 0

\* The book adds up in every reachable state: see LedgerReconciles.
BooksReconcile == Ledger!LedgerReconciles

\* A position is carried at a cost between its cheapest and its dearest fill,
\* whoever bought, sold and reset at the same time: see AvgCostWithinFills.
CostWithinFills == Ledger!AvgCostWithinFills

\* Whoever has locked a holding row has locked the account row of its currency:
\* the account lock alone serialises orders on a ticker that has no row yet, and
\* no order ever waits for a holding row.
AccountLockCoversHolding ==
  \A t \in Tickers :
    holdLock[t] # NoThread => acctLock[TickerCurrency(t)] = holdLock[t]

\* A caller that was told FILLED finds its order in the append-only audit trail,
\* after later resets and restarts too, and every order row has its payload.
FillsAreAudited ==
  /\ \A th \in Threads : reply[th].status = "FILLED" =>
       \E a \in audit : a.order_id = reply[th].order_id
  /\ \A o \in orders : \E a \in audit : a.order_id = o.order_id /\ a.ticker = o.ticker

\* Every order and every reset takes effect at one instant, on the book as it
\* stands at that instant, or not at all.
LedgerSpec == Ledger!Spec

InOrder(th) == pc[th] \in {"holding", "write", "commit"}
InReset(th) == pc[th] \in {"reset_holdings", "reset_orders"}

\* The account row of an order in progress, and every account row of a reset
\* that has finished its UPDATE, is locked by that transaction.
AccountsLocked ==
  /\ \A th \in Threads : InOrder(th) => acctLock[TickerCurrency(req[th].ticker)] = th
  /\ \A th \in Threads : InReset(th) => \A c \in accounts : acctLock[c] = th
  /\ \A th \in Threads : pc[th] \in ResetSteps => scanAt[th] \in accounts
  /\ \A c \in Currencies : acctLock[c] # NoThread => c \in accounts

\* What a transaction read is what the tables still hold when it uses it.
SnapshotsCurrent ==
  /\ \A th \in Threads : InOrder(th) =>
       seenCash[th] = cash[TickerCurrency(req[th].ticker)]
  /\ \A th \in Threads : pc[th] \in {"write", "commit"} =>
       seenHold[th] = holdings[req[th].ticker]
  /\ \A th \in Threads : pc[th] = "commit" =>
       Affordable(req[th], seenCash[th], seenHold[th])
  /\ \A th \in Threads : pc[th] = "reset_orders" =>
       doomed[th] = {t \in Tickers : holdings[t].row}

\* An id is handed out once: the ids in the audit trail and the ids of orders
\* about to commit are pairwise different, whatever was rolled back before.
IdsUnique ==
  /\ \A a \in audit : a.order_id < nextId
  /\ \A th \in Threads : pc[th] = "commit" =>
       /\ orderId[th] \in OrderIds /\ orderId[th] < nextId
       /\ \A a \in audit : a.order_id # orderId[th]
  /\ \A th, u \in Threads :
       th # u /\ pc[th] = "commit" /\ pc[u] = "commit" => orderId[th] # orderId[u]

\* Nothing runs while the process is down, only well-formed orders run, a
\* missing holding row carries no quantity, and no ticker is held in a currency
\* that has no account.
Bookkeeping ==
  /\ ~up => \A th \in Threads : pc[th] = "idle"
  /\ \A th \in Threads : pc[th] \in OrderSteps => WellFormed(req[th])
  /\ \A t \in Tickers : ~holdings[t].row => holdings[t] = NoHolding
  /\ \A t \in Tickers : holdings[t].row => TickerCurrency(t) \in accounts

\* The inductive invariant: two transactions that touch the same rows never
\* overlap between their first read and their commit, so every commit acts on
\* the book that its transaction read.
TransactionsIsolated ==
  /\ TypeOK
  /\ CashNeverNegative
  /\ AccountLockCoversHolding
  /\ AccountsLocked
  /\ SnapshotsCurrent
  /\ IdsUnique
  /\ Bookkeeping
  /\ FillsAreAudited

\* The next statement of th locks a row that u has locked.
WaitsFor(th, u) ==
  \/ pc[th] = "account" /\ acctLock[TickerCurrency(req[th].ticker)] = u
  \/ pc[th] = "holding" /\ holdLock[req[th].ticker] = u
  \/ pc[th] = "reset_accounts" /\ acctLock[scanAt[th]] = u
  \/ pc[th] = "reset_holdings" /\ \E t \in Tickers : holdings[t].row /\ holdLock[t] = u

\* Two resets, each of which has the account row that the other is at.
CrossedResets(th, u) ==
  /\ th # u /\ pc[th] = "reset_accounts" /\ pc[u] = "reset_accounts"
  /\ acctLock[scanAt[th]] = u /\ acctLock[scanAt[u]] = th

\* Transactions that wait for each other in a circle, of whatever length, have two
\* crossed resets among them, which the deadlock detector sees: no circle is made
\* of orders, since an order waits only before it has locked anything.
OnlyResetsDeadlock ==
  \A waiting \in SUBSET Threads :
    waiting # {} /\ (\A th \in waiting : \E u \in waiting : WaitsFor(th, u)) =>
      \E th, u \in waiting : CrossedResets(th, u)

\* Every call returns: orders never wait in a circle, and the one circle there
\* is, between two resets, is broken by the deadlock detector.
CallsReturn == \A th \in Threads : pc[th] # "idle" ~> pc[th] = "idle"
=============================================================================

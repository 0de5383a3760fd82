---------------------------- MODULE PaperLedger ----------------------------
(***************************************************************************)
(* What the virtual broker promises: a paper-trading book on which every   *)
(* order is filled in one indivisible step against the book as it stands,  *)
(* or not at all, and a reset puts the whole book back in one step.        *)
(***************************************************************************)
EXTENDS OrderMath, FiniteSetsExt

VARIABLES accounts,   \* currencies with a virtual_accounts row
          cash,       \* cash_balance by currency
          holdings,   \* portfolio_holdings by ticker
          orders,     \* virtual_orders
          audit       \* audit_log

ledger == <<accounts, cash, holdings, orders, audit>>

Init ==
  /\ accounts = {}
  /\ cash = [c \in Currencies |-> 0]
  /\ holdings = [t \in Tickers |-> NoHolding]
  /\ orders = {}
  /\ audit = {}

\* Accounts that have no row get one with the seed balance; others keep theirs.
Seed ==
  /\ accounts' = Currencies
  /\ cash' = [c \in Currencies |-> IF c \in accounts THEN cash[c] ELSE SeedBalance[c]]
  /\ UNCHANGED <<holdings, orders, audit>>

\* An order fills entirely, against the current balance and the current row.
Fill(r, id) ==
  LET c == TickerCurrency(r.ticker)
      t == r.ticker
  IN  /\ WellFormed(r)
      /\ c \in accounts
      /\ \A a \in audit : a.order_id # id
      /\ Affordable(r, cash[c], holdings[t])
      /\ cash' = [cash EXCEPT ![c] = @ + CashFlow(r)]
      /\ holdings' = [holdings EXCEPT ![t] = HoldingAfter(r, holdings[t])]
      /\ orders' = orders \cup {OrderRow(r, id)}
      /\ audit' = audit \cup {AuditRow(r, id)}
      /\ UNCHANGED accounts

\* Cash restored, holdings and orders cleared; the audit trail stays.
Reset ==
  /\ cash' = [c \in Currencies |-> IF c \in accounts THEN SeedBalance[c] ELSE cash[c]]
  /\ holdings' = [t \in Tickers |-> NoHolding]
  /\ orders' = {}
  /\ UNCHANGED <<accounts, audit>>

Next ==
  \/ Seed
  \/ \E r \in Requests, id \in OrderIds : Fill(r, id)
  \/ Reset

Spec == Init /\ [][Next]_ledger

---------------------------------------------------------------------------
(* Properties of the book.                                                 *)

\* The audit payloads of the orders of ticker set T that are still in virtual_orders.
LiveAudit(T) ==
  {a \in audit : a.ticker \in T /\ \E o \in orders : o.order_id = a.order_id}

AuditedFlow(a) ==
  IF a.side = "BUY" THEN -(a.notional + a.commission) ELSE a.notional - a.commission

SignedQuantity(o) == IF o.side = "BUY" THEN o.quantity ELSE -o.quantity

\* Each balance is the seed balance plus the audited cash flows of the orders
\* placed since the last reset, and (for quantities the columns hold exactly)
\* each holding is the sum of those orders: no fill is lost or applied twice, a
\* restart re-seeds nothing, and a reset clears the orders it pays back.
LedgerReconciles ==
  /\ \A c \in accounts :
       cash[c] = SeedBalance[c]
         + MapThenSumSet(AuditedFlow, LiveAudit({t \in Tickers : TickerCurrency(t) = c}))
  /\ \A t \in Tickers :
       holdings[t].quantity = MapThenSumSet(SignedQuantity, {o \in orders : o.ticker = t})

\* Whole shares are carried at an average cost between the cheapest and the
\* dearest BUY fill since the last reset, up to the rounding of the column: the
\* blended cost of execute_virtual_order never drifts outside its own fills.
AvgCostWithinFills ==
  \A t \in Tickers :
    holdings[t].row =>
      LET fills == {a.fill_price : a \in {b \in LiveAudit({t}) : b.side = "BUY"}}
      IN  /\ \E p \in fills : p \div 100 <= holdings[t].avg_cost
          /\ \E p \in fills : holdings[t].avg_cost <= (p + 99) \div 100

\* A SELL that uses up a position deletes its row: no row of quantity zero is
\* ever left in portfolio_holdings.
NoEmptyHolding == \A t \in Tickers : holdings[t].row => holdings[t].quantity > 0
=============================================================================

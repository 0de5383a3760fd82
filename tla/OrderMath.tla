----------------------------- MODULE OrderMath -----------------------------
(***************************************************************************)
(* The arithmetic of a virtual order: what execute_virtual_order computes  *)
(* before and between its SQL statements.  Money and prices are integers   *)
(* in units of 1e-4, the scale of the NUMERIC(20,4) columns; fill prices   *)
(* are integers in units of 1e-6, the scale of round(..., 6); quantities   *)
(* are integers in sub-units, QtyUnit of them to a share and Grain of them *)
(* to one step of the NUMERIC(20,6) quantity columns.                      *)
(***************************************************************************)
EXTENDS Integers

CONSTANTS Tickers,      \* every tradable ticker
          KRTickers,    \* the 6-digit numeric ones
          Quantities,   \* quantities a caller may ask for, in sub-units
          Prices,       \* live prices a caller may fill at
          SeedBalance,  \* _VIRTUAL_ACCOUNT_SEED
          QtyUnit,      \* sub-units per share
          Grain,        \* sub-units per step of the quantity columns
          OrderIds      \* values the SERIAL primary key of virtual_orders can take

Currencies == {"KRW", "USD"}

ASSUME TickerAssumption == KRTickers \subseteq Tickers
ASSUME AmountAssumption == Quantities \subseteq Int /\ Prices \subseteq Int
ASSUME RequestAssumption == Tickers # {} /\ Quantities # {} /\ Prices # {}
ASSUME SeedAssumption == SeedBalance \in [Currencies -> Nat]
ASSUME UnitAssumption == QtyUnit \in Nat \ {0} /\ Grain \in Nat \ {0}
ASSUME IdAssumption == OrderIds \subseteq Nat

Sides == {"BUY", "SELL"}

Requests == [ticker : Tickers, side : Sides, quantity : Quantities, price : Prices]

\* A placeholder for threads that execute no order.
AnyRequest == CHOOSE r \in Requests : TRUE

TickerCurrency(t) == IF t \in KRTickers THEN "KRW" ELSE "USD"

\* The nearest integer to n / d, ties upwards (n >= 0, d > 0).
Round(n, d) == (2 * n + d) \div (2 * d)

\* quantity <= 0 and price <= 0 are refused before any connection is leased.
WellFormed(r) == r.quantity > 0 /\ r.price > 0

\* 0.1 % slippage against the caller, kept to six decimals.
FillPrice(r) == Round(r.price * (IF r.side = "BUY" THEN 1001 ELSE 999), 10)

Notional(r) == Round(r.quantity * FillPrice(r), 100 * QtyUnit)

\* 0.025 % of the notional.
Commission(r) == Round(Notional(r), 4000)

TotalDebit(r) == Notional(r) + Commission(r)

NetProceeds(r) == Notional(r) - Commission(r)

\* What the order adds to the cash balance.
CashFlow(r) == IF r.side = "BUY" THEN -TotalDebit(r) ELSE NetProceeds(r)

\* What a quantity column keeps of a quantity.
Stored(q) == Grain * Round(q, Grain)

\* What the fill_price NUMERIC(20,4) column keeps of a fill price.
StoredPrice(p) == Round(p, 100)

NoHolding == [row |-> FALSE, quantity |-> 0, avg_cost |-> 0]

Holding == [row : BOOLEAN, quantity : Nat, avg_cost : Nat]

\* The order can be filled from this cash balance and this holding row.
Affordable(r, balance, h) ==
  IF r.side = "BUY" THEN TotalDebit(r) <= balance ELSE r.quantity <= h.quantity

\* The commission blended into the cost.
BoughtAtTotalDebit(r, h) ==
  LET q == h.quantity + r.quantity
  IN  [row |-> TRUE, quantity |-> Stored(q),
       avg_cost |-> Round(h.quantity * h.avg_cost + TotalDebit(r) * QtyUnit, q)]

Bought(r, h) ==
  LET q == h.quantity + r.quantity
  IN  [row |-> TRUE, quantity |-> Stored(q),
       avg_cost |-> Round(h.quantity * h.avg_cost + Notional(r) * QtyUnit, q)]

Sold(r, h) ==
  IF h.quantity - r.quantity <= 0
  THEN NoHolding
  ELSE [h EXCEPT !.quantity = Stored(h.quantity - r.quantity)]

\* The holding row after the order fills.
HoldingAfter(r, h) == IF r.side = "BUY" THEN Bought(r, h) ELSE Sold(r, h)

\* The virtual_orders row and the audit_log payload of a fill.
OrderRow(r, id) ==
  [order_id |-> id, ticker |-> r.ticker, side |-> r.side,
   quantity |-> Stored(r.quantity), fill_price |-> StoredPrice(FillPrice(r))]

AuditRow(r, id) ==
  [order_id |-> id, ticker |-> r.ticker, side |-> r.side, quantity |-> r.quantity,
   fill_price |-> FillPrice(r), notional |-> Notional(r), commission |-> Commission(r)]
=============================================================================

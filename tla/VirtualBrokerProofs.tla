------------------------ MODULE VirtualBrokerProofs ------------------------
(***************************************************************************)
(* Proofs about the virtual broker, for every set of threads, tickers,     *)
(* prices and quantities, every column grain and every seed balance.       *)
(***************************************************************************)
EXTENDS VirtualBroker, FoldLemmas, TLAPS

---------------------------------------------------------------------------
(* The arithmetic of an order.                                             *)

\* Rounding a natural number to a positive unit gives a natural number.
LEMMA RoundNat ==
  ASSUME NEW n \in Nat, NEW d \in Nat, d > 0
  PROVE  Round(n, d) \in Nat
BY DEF Round

\* A well-formed request has a positive quantity and a positive price.
LEMMA RequestTypes ==
  ASSUME NEW r \in Requests, WellFormed(r)
  PROVE  /\ r.ticker \in Tickers /\ r.side \in Sides
         /\ r.quantity \in Nat \ {0} /\ r.price \in Nat \ {0}
<1>1. /\ r.ticker \in Tickers /\ r.side \in Sides
      /\ r.quantity \in Quantities /\ r.price \in Prices
  BY DEF Requests
<1>2. r.quantity \in Int /\ r.price \in Int
  BY <1>1, AmountAssumption
<1> QED
  BY <1>1, <1>2 DEF WellFormed

\* A fill price is not negative.
LEMMA FillPriceNat ==
  ASSUME NEW r \in Requests, WellFormed(r)
  PROVE  FillPrice(r) \in Nat
BY RequestTypes DEF FillPrice, Round, Sides

\* A notional is not negative.
LEMMA NotionalNat ==
  ASSUME NEW r \in Requests, WellFormed(r)
  PROVE  Notional(r) \in Nat
<1>1. r.quantity \in Nat
  BY RequestTypes
<1>2. r.quantity * FillPrice(r) \in Nat
  BY <1>1, FillPriceNat
<1>3. 100 * QtyUnit \in Nat /\ 100 * QtyUnit > 0
  BY UnitAssumption
<1> QED
  BY <1>2, <1>3, RoundNat DEF Notional

\* The commission never exceeds the notional, so a SELL never costs cash.
LEMMA CommissionBounds ==
  ASSUME NEW r \in Requests, WellFormed(r)
  PROVE  Commission(r) \in Nat /\ Commission(r) <= Notional(r)
BY NotionalNat DEF Commission, Round

\* What a fill writes to each table has the type of the table's rows.
LEMMA RowTypes ==
  ASSUME NEW r \in Requests, WellFormed(r), NEW id \in OrderIds
  PROVE  OrderRow(r, id) \in OrderRows /\ AuditRow(r, id) \in AuditRows
<1>1. Grain \in Nat /\ Round(r.quantity, Grain) \in Nat
  BY RequestTypes, UnitAssumption, RoundNat
<1>2. Stored(r.quantity) \in Nat
  BY <1>1 DEF Stored
<1>3. StoredPrice(FillPrice(r)) \in Nat
  BY FillPriceNat DEF StoredPrice, Round
<1> QED
  BY <1>2, <1>3, RequestTypes, FillPriceNat, NotionalNat, CommissionBounds
  DEF OrderRow, AuditRow, OrderRows, AuditRows

\* Filling an affordable order leaves a well-typed holding, and no quantity
\* behind where the row is gone.
LEMMA HoldingTypes ==
  ASSUME NEW r \in Requests, WellFormed(r), NEW h \in Holding, NEW b \in Int,
         Affordable(r, b, h), ~h.row => h = NoHolding
  PROVE  /\ HoldingAfter(r, h) \in Holding
         /\ ~HoldingAfter(r, h).row => HoldingAfter(r, h) = NoHolding
<1>1. h.quantity \in Nat /\ h.avg_cost \in Nat /\ h.row \in BOOLEAN
  BY DEF Holding
<1>2. r.quantity \in Nat \ {0} /\ r.side \in Sides
  BY RequestTypes
<1>3. NoHolding \in Holding
  BY DEF NoHolding, Holding
<1>4. \A q \in Nat : Stored(q) \in Nat
  BY UnitAssumption, RoundNat DEF Stored
<1>5. CASE r.side = "BUY"
  <2> DEFINE q == h.quantity + r.quantity
             paid == h.quantity * h.avg_cost + Notional(r) * QtyUnit
  <2>1. q \in Nat /\ q > 0
    BY <1>1, <1>2
  <2>2. h.quantity * h.avg_cost \in Nat /\ Notional(r) * QtyUnit \in Nat
    BY <1>1, NotionalNat, UnitAssumption
  <2>3. paid \in Nat
    BY <2>2
  <2>4. Round(paid, q) \in Nat
    BY <2>1, <2>3, RoundNat
  <2>5. HoldingAfter(r, h) = [row |-> TRUE, quantity |-> Stored(q), avg_cost |-> Round(paid, q)]
    BY <1>5 DEF HoldingAfter, Bought
  <2> QED
    BY <1>4, <2>1, <2>4, <2>5 DEF Holding
<1>6. CASE r.side = "SELL" /\ h.quantity - r.quantity <= 0
  BY <1>3, <1>6 DEF HoldingAfter, Sold
<1>7. CASE r.side = "SELL" /\ ~(h.quantity - r.quantity <= 0)
  <2>1. h.row
    BY <1>1, <1>2, <1>7 DEF NoHolding
  <2>2. Stored(h.quantity - r.quantity) \in Nat
    BY <1>1, <1>2, <1>4, <1>7
  <2>3. HoldingAfter(r, h) = [h EXCEPT !.quantity = Stored(h.quantity - r.quantity)]
    BY <1>7 DEF HoldingAfter, Sold
  <2> QED
    BY <2>1, <2>2, <2>3 DEF Holding
<1> QED
  BY <1>2, <1>5, <1>6, <1>7 DEF Sides

\* An affordable order leaves the account with a balance that is not negative.
LEMMA CashStaysCovered ==
  ASSUME NEW r \in Requests, WellFormed(r), NEW h \in Holding, NEW b \in Int,
         Affordable(r, b, h), b >= 0
  PROVE  b + CashFlow(r) \in Int /\ b + CashFlow(r) >= 0
<1>1. Notional(r) \in Nat /\ Commission(r) \in Nat /\ Commission(r) <= Notional(r)
  BY NotionalNat, CommissionBounds
<1> QED
  BY <1>1 DEF Affordable, CashFlow, TotalDebit, NetProceeds

---------------------------------------------------------------------------
(* The initial state.                                                      *)

\* The placeholder request is a request: there is one.
LEMMA AnyRequestType == AnyRequest \in Requests
<1>1. PICK t \in Tickers, q \in Quantities, p \in Prices : TRUE
  BY RequestAssumption
<1>2. [ticker |-> t, side |-> "BUY", quantity |-> q, price |-> p] \in Requests
  BY <1>1 DEF Requests, Sides
<1> QED
  BY <1>2 DEF AnyRequest

\* Every ticker has one of the two currencies.
LEMMA CurrencyType == \A t : TickerCurrency(t) \in Currencies
BY DEF TickerCurrency, Currencies

\* Before the first start nothing runs and the book is empty.
LEMMA InitIsolated == Init => TransactionsIsolated
<1> SUFFICES ASSUME Init PROVE TransactionsIsolated
  OBVIOUS
<1> USE DEF Init, Ledger!Init, Ledger!NoHolding, Ledger!Currencies
<1>1. NoHolding \in Holding
  BY DEF NoHolding, Holding
<1>2. TypeOK
  <2>1. /\ accounts \subseteq Currencies /\ orders \subseteq OrderRows
        /\ audit \subseteq AuditRows /\ cash \in [Currencies -> Int]
    BY DEF Currencies
  <2>2. holdings \in [Tickers -> Holding]
    BY <1>1 DEF NoHolding
  <2>3. NoReply \in Replies
    BY DEF NoReply, Replies
  <2>4. reply \in [Threads -> Replies] /\ pc \in [Threads -> Steps]
    BY <2>3 DEF Steps
  <2>5. /\ nextId \in Nat /\ up \in BOOLEAN
        /\ acctLock \in [Currencies -> Threads \cup {NoThread}]
        /\ holdLock \in [Tickers -> Threads \cup {NoThread}]
    OBVIOUS
  <2>6. /\ req \in [Threads -> Requests] /\ seenCash \in [Threads -> Int]
        /\ seenHold \in [Threads -> Holding] /\ orderId \in [Threads -> Nat]
        /\ scanAt \in [Threads -> Currencies] /\ doomed \in [Threads -> SUBSET Tickers]
    BY <1>1, AnyRequestType DEF Currencies
  <2> QED
    BY <2>1, <2>2, <2>4, <2>5, <2>6 DEF TypeOK
<1>3. CashNeverNegative
  BY DEF CashNeverNegative, Currencies
<1>4. AccountLockCoversHolding
  BY DEF AccountLockCoversHolding
<1>5. AccountsLocked
  BY DEF AccountsLocked, InOrder, InReset, ResetSteps
<1>6. SnapshotsCurrent
  BY DEF SnapshotsCurrent, InOrder
<1>7. IdsUnique
  BY DEF IdsUnique
<1>8. Bookkeeping
  BY DEF Bookkeeping, OrderSteps, NoHolding
<1>9. FillsAreAudited
  BY DEF FillsAreAudited, NoReply
<1> QED
  BY <1>2, <1>3, <1>4, <1>5, <1>6, <1>7, <1>8, <1>9 DEF TransactionsIsolated

---------------------------------------------------------------------------
(* Each step keeps transactions isolated.                                  *)

\* A transaction that ends without writing leaves the tables to the others.
LEMMA RollbackStep ==
  ASSUME TransactionsIsolated, NEW th \in Threads,
         NEW status \in {"REJECTED", "ERROR"}, EndTx(th, status, 0),
         UNCHANGED <<tables, nextId, up>>
  PROVE  TransactionsIsolated'
<1> USE DEF EndTx, ForgetLocals, Unlock, tables
<1>0. TypeOK /\ CashNeverNegative /\ AccountLockCoversHolding /\ AccountsLocked
      /\ SnapshotsCurrent /\ IdsUnique /\ Bookkeeping /\ FillsAreAudited
  BY DEF TransactionsIsolated
<1>r. AnyRequest \in Requests /\ NoHolding \in Holding
  BY AnyRequestType DEF NoHolding, Holding
<1>1. TypeOK'
  BY <1>0, <1>r, ThreadAssumption DEF TypeOK, Steps, Replies, Currencies
<1>2. CashNeverNegative'
  BY <1>0, <1>r, ThreadAssumption DEF CashNeverNegative, TypeOK
<1>3. AccountLockCoversHolding'
  <2> SUFFICES ASSUME NEW t \in Tickers, holdLock'[t] # NoThread
               PROVE  acctLock'[TickerCurrency(t)] = holdLock'[t]
    BY DEF AccountLockCoversHolding
  <2>1. DOMAIN holdLock = Tickers /\ DOMAIN acctLock = Currencies
    BY <1>0 DEF TypeOK
  <2>2. holdLock'[t] = holdLock[t] /\ holdLock[t] # th
    BY <2>1
  <2>3. acctLock[TickerCurrency(t)] = holdLock[t]
    BY <1>0, <2>2 DEF AccountLockCoversHolding
  <2> QED
    BY <2>1, <2>2, <2>3, CurrencyType
<1>4. AccountsLocked'
  <2>1. DOMAIN acctLock = Currencies /\ accounts \subseteq Currencies
    BY <1>0 DEF TypeOK
  <2>2. \A u \in Threads : InOrder(u)' => u # th /\ InOrder(u) /\ req'[u] = req[u]
    BY <1>0 DEF InOrder, TypeOK
  <2>3. \A u \in Threads : InReset(u)' => u # th /\ InReset(u)
    BY <1>0 DEF InReset, TypeOK
  <2>4. \A u \in Threads : u # th => \A c \in Currencies :
          acctLock[c] = u => acctLock'[c] = u
    BY <2>1
  <2>5. \A u \in Threads : InOrder(u)' => acctLock'[TickerCurrency(req'[u].ticker)] = u
    BY <1>0, <2>2, <2>4, CurrencyType DEF AccountsLocked
  <2>6. \A u \in Threads : InReset(u)' => \A c \in accounts' : acctLock'[c] = u
    BY <1>0, <2>1, <2>3, <2>4 DEF AccountsLocked
  <2>7. \A u \in Threads : pc'[u] \in ResetSteps => scanAt'[u] \in accounts'
    BY <1>0 DEF AccountsLocked, ResetSteps, TypeOK
  <2>8. \A c \in Currencies : acctLock'[c] # NoThread => c \in accounts'
    BY <1>0, <2>1 DEF AccountsLocked
  <2> QED
    BY <2>5, <2>6, <2>7, <2>8 DEF AccountsLocked
<1>5. SnapshotsCurrent'
  BY <1>0, <1>r, ThreadAssumption DEF SnapshotsCurrent, InOrder, TypeOK
<1>6. IdsUnique'
  BY <1>0, <1>r, ThreadAssumption DEF IdsUnique, TypeOK
<1>7. Bookkeeping'
  BY <1>0, <1>r, ThreadAssumption DEF Bookkeeping, OrderSteps, TypeOK
<1>8. FillsAreAudited'
  BY <1>0, <1>r, ThreadAssumption DEF FillsAreAudited, TypeOK
<1> QED
  BY <1>1, <1>2, <1>3, <1>4, <1>5, <1>6, <1>7, <1>8 DEF TransactionsIsolated

\* A request refused at the door touches nothing.
LEMMA RefuseOrderStep ==
  ASSUME TransactionsIsolated, NEW th \in Threads, NEW r \in Requests,
         RefuseOrder(th, r)
  PROVE  TransactionsIsolated'
<1> USE DEF RefuseOrder, tables, txState
<1>0. TypeOK /\ CashNeverNegative /\ AccountLockCoversHolding /\ AccountsLocked
      /\ SnapshotsCurrent /\ IdsUnique /\ Bookkeeping /\ FillsAreAudited
  BY DEF TransactionsIsolated
<1>1. TypeOK'
  BY <1>0 DEF TypeOK, Replies
<1>2. CashNeverNegative'
  BY <1>0 DEF CashNeverNegative, TypeOK
<1>3. AccountLockCoversHolding'
  BY <1>0 DEF AccountLockCoversHolding, TypeOK
<1>4. AccountsLocked'
  BY <1>0 DEF AccountsLocked, InOrder, InReset, ResetSteps, TypeOK
<1>5. SnapshotsCurrent'
  BY <1>0 DEF SnapshotsCurrent, InOrder, TypeOK
<1>6. IdsUnique'
  BY <1>0 DEF IdsUnique, TypeOK
<1>7. Bookkeeping'
  BY <1>0 DEF Bookkeeping, OrderSteps, TypeOK
<1>8. FillsAreAudited'
  BY <1>0 DEF FillsAreAudited, TypeOK
<1> QED
  BY <1>1, <1>2, <1>3, <1>4, <1>5, <1>6, <1>7, <1>8 DEF TransactionsIsolated

\* A new order holds no lock and has read nothing.
LEMMA BeginOrderStep ==
  ASSUME TransactionsIsolated, NEW th \in Threads, NEW r \in Requests,
         BeginOrder(th, r)
  PROVE  TransactionsIsolated'
<1> USE DEF BeginOrder, tables, NoReply
<1>0. TypeOK /\ CashNeverNegative /\ AccountLockCoversHolding /\ AccountsLocked
      /\ SnapshotsCurrent /\ IdsUnique /\ Bookkeeping /\ FillsAreAudited
  BY DEF TransactionsIsolated
<1>1. TypeOK'
  BY <1>0 DEF TypeOK, Steps, Replies, OrderSteps
<1>2. CashNeverNegative'
  BY <1>0 DEF CashNeverNegative, TypeOK
<1>3. AccountLockCoversHolding'
  BY <1>0 DEF AccountLockCoversHolding, TypeOK
<1>4. AccountsLocked'
  BY <1>0 DEF AccountsLocked, InOrder, InReset, ResetSteps, TypeOK
<1>5. SnapshotsCurrent'
  BY <1>0 DEF SnapshotsCurrent, InOrder, TypeOK
<1>6. IdsUnique'
  BY <1>0 DEF IdsUnique, TypeOK
<1>7. Bookkeeping'
  BY <1>0 DEF Bookkeeping, OrderSteps, TypeOK
<1>8. FillsAreAudited'
  BY <1>0 DEF FillsAreAudited, TypeOK
<1> QED
  BY <1>1, <1>2, <1>3, <1>4, <1>5, <1>6, <1>7, <1>8 DEF TransactionsIsolated

\* An order takes the free account row and reads its balance.
LEMMA LockAccountStep ==
  ASSUME TransactionsIsolated, NEW th \in Threads, LockAccount(th)
  PROVE  TransactionsIsolated'
<1> USE DEF LockAccount, tables
<1>0. TypeOK /\ CashNeverNegative /\ AccountLockCoversHolding /\ AccountsLocked
      /\ SnapshotsCurrent /\ IdsUnique /\ Bookkeeping /\ FillsAreAudited
  BY DEF TransactionsIsolated
<1>1. TypeOK'
  BY <1>0, CurrencyType, ThreadAssumption DEF TypeOK, Steps, OrderSteps
<1>2. CashNeverNegative'
  BY <1>0, CurrencyType, ThreadAssumption DEF CashNeverNegative, TypeOK
<1>3. AccountLockCoversHolding'
  BY <1>0, CurrencyType, ThreadAssumption DEF AccountLockCoversHolding, TypeOK
<1>4. AccountsLocked'
  BY <1>0, CurrencyType, ThreadAssumption DEF AccountsLocked, InOrder, InReset, ResetSteps, TypeOK
<1>5. SnapshotsCurrent'
  BY <1>0, CurrencyType, ThreadAssumption DEF SnapshotsCurrent, InOrder, TypeOK
<1>6. IdsUnique'
  BY <1>0, CurrencyType, ThreadAssumption DEF IdsUnique, TypeOK
<1>7. Bookkeeping'
  BY <1>0, CurrencyType, ThreadAssumption DEF Bookkeeping, OrderSteps, TypeOK
<1>8. FillsAreAudited'
  BY <1>0, CurrencyType, ThreadAssumption DEF FillsAreAudited, TypeOK
<1> QED
  BY <1>1, <1>2, <1>3, <1>4, <1>5, <1>6, <1>7, <1>8 DEF TransactionsIsolated

\* An order reads the holding row under its account lock.
LEMMA LockHoldingStep ==
  ASSUME TransactionsIsolated, NEW th \in Threads, LockHolding(th)
  PROVE  TransactionsIsolated'
<1> USE DEF LockHolding, tables
<1>0. TypeOK /\ CashNeverNegative /\ AccountLockCoversHolding /\ AccountsLocked
      /\ SnapshotsCurrent /\ IdsUnique /\ Bookkeeping /\ FillsAreAudited
  BY DEF TransactionsIsolated
<1>1. TypeOK'
  BY <1>0, CurrencyType, ThreadAssumption DEF TypeOK, Steps, OrderSteps, Requests
<1>2. CashNeverNegative'
  BY <1>0, CurrencyType, ThreadAssumption DEF CashNeverNegative, TypeOK
<1>3. AccountLockCoversHolding'
  <2>1. acctLock[TickerCurrency(req[th].ticker)] = th
    BY <1>0 DEF AccountsLocked, InOrder
  <2>2. \/ holdLock' = holdLock
        \/ holdLock' = [holdLock EXCEPT ![req[th].ticker] = th]
    OBVIOUS
  <2>3. DOMAIN holdLock = Tickers
    BY <1>0 DEF TypeOK
  <2> QED
    BY <1>0, <2>1, <2>2, <2>3 DEF AccountLockCoversHolding
<1>4. AccountsLocked'
  BY <1>0, CurrencyType, ThreadAssumption DEF AccountsLocked, InOrder, InReset, ResetSteps, TypeOK
<1>5. SnapshotsCurrent'
  BY <1>0, CurrencyType, ThreadAssumption DEF SnapshotsCurrent, InOrder, TypeOK
<1>6. IdsUnique'
  BY <1>0, CurrencyType, ThreadAssumption DEF IdsUnique, TypeOK
<1>7. Bookkeeping'
  BY <1>0, CurrencyType, ThreadAssumption DEF Bookkeeping, OrderSteps, TypeOK
<1>8. FillsAreAudited'
  BY <1>0, CurrencyType, ThreadAssumption DEF FillsAreAudited, TypeOK
<1> QED
  BY <1>1, <1>2, <1>3, <1>4, <1>5, <1>6, <1>7, <1>8 DEF TransactionsIsolated

\* An order takes the next id, which nobody has.
LEMMA WriteOrderStep ==
  ASSUME TransactionsIsolated, NEW th \in Threads, WriteOrder(th)
  PROVE  TransactionsIsolated'
<1> USE DEF WriteOrder, tables
<1>0. TypeOK /\ CashNeverNegative /\ AccountLockCoversHolding /\ AccountsLocked
      /\ SnapshotsCurrent /\ IdsUnique /\ Bookkeeping /\ FillsAreAudited
  BY DEF TransactionsIsolated
<1>1. TypeOK'
  BY <1>0, IdAssumption DEF TypeOK, Steps, OrderSteps
<1>2. CashNeverNegative'
  BY <1>0, IdAssumption DEF CashNeverNegative, TypeOK
<1>3. AccountLockCoversHolding'
  BY <1>0, IdAssumption DEF AccountLockCoversHolding, TypeOK
<1>4. AccountsLocked'
  BY <1>0, IdAssumption DEF AccountsLocked, InOrder, InReset, ResetSteps, TypeOK
<1>5. SnapshotsCurrent'
  BY <1>0, IdAssumption DEF SnapshotsCurrent, InOrder, TypeOK
<1>6. IdsUnique'
  <2>1. nextId \in Nat /\ nextId' = nextId + 1 /\ audit' = audit
    BY <1>0 DEF TypeOK
  <2>2. \A u \in Threads : orderId'[u] = IF u = th THEN nextId ELSE orderId[u]
    BY <1>0 DEF TypeOK
  <2>3. \A u \in Threads : u # th => pc'[u] = pc[u]
    BY <1>0 DEF TypeOK
  <2>4. \A a \in audit : a.order_id < nextId /\ a.order_id \in Nat
    BY <1>0, IdAssumption DEF IdsUnique, TypeOK, AuditRows
  <2>5. \A a \in audit' : a.order_id < nextId'
    BY <2>1, <2>4
  <2>6. \A u \in Threads : pc'[u] = "commit" =>
          /\ orderId'[u] \in OrderIds /\ orderId'[u] < nextId'
          /\ \A a \in audit' : a.order_id # orderId'[u]
    <3> TAKE u \in Threads
    <3> HAVE pc'[u] = "commit"
    <3>1. CASE u = th
      BY <2>1, <2>2, <2>4, <3>1
    <3>2. CASE u # th
      <4>1. /\ orderId[u] \in OrderIds /\ orderId[u] < nextId /\ orderId[u] \in Nat
            /\ \A a \in audit : a.order_id # orderId[u]
        BY <1>0, <2>3, <3>2, IdAssumption DEF IdsUnique
      <4> QED
        BY <2>1, <2>2, <3>2, <4>1
    <3> QED
      BY <3>1, <3>2
  <2>7. \A u, v \in Threads :
          u # v /\ pc'[u] = "commit" /\ pc'[v] = "commit" => orderId'[u] # orderId'[v]
    <3>1. \A u \in Threads : u # th /\ pc'[u] = "commit" =>
            orderId[u] \in Nat /\ orderId[u] < nextId
      BY <1>0, <2>3, IdAssumption DEF IdsUnique
    <3>2. \A u \in Threads : u # th /\ pc'[u] = "commit" => orderId[u] # nextId
      BY <2>1, <3>1
    <3> QED
      BY <1>0, <2>2, <2>3, <3>2 DEF IdsUnique
  <2> QED
    BY <2>5, <2>6, <2>7 DEF IdsUnique
<1>7. Bookkeeping'
  BY <1>0, IdAssumption DEF Bookkeeping, OrderSteps, TypeOK
<1>8. FillsAreAudited'
  BY <1>0, IdAssumption DEF FillsAreAudited, TypeOK
<1> QED
  BY <1>1, <1>2, <1>3, <1>4, <1>5, <1>6, <1>7, <1>8 DEF TransactionsIsolated

\* A reset starts at some account row and holds none yet.
LEMMA BeginResetStep ==
  ASSUME TransactionsIsolated, NEW th \in Threads, BeginReset(th)
  PROVE  TransactionsIsolated'
<1> USE DEF BeginReset, tables, NoReply
<1>0. TypeOK /\ CashNeverNegative /\ AccountLockCoversHolding /\ AccountsLocked
      /\ SnapshotsCurrent /\ IdsUnique /\ Bookkeeping /\ FillsAreAudited
  BY DEF TransactionsIsolated
<1>1. TypeOK'
  <2>1. PICK c \in accounts : scanAt' = [scanAt EXCEPT ![th] = c]
    OBVIOUS
  <2>2. scanAt' \in [Threads -> Currencies]
    BY <1>0, <2>1 DEF TypeOK
  <2>3. pc' \in [Threads -> Steps] /\ reply' \in [Threads -> Replies]
    BY <1>0 DEF TypeOK, Steps, ResetSteps, Replies
  <2> QED
    BY <1>0, <2>2, <2>3 DEF TypeOK
<1>2. CashNeverNegative'
  BY <1>0 DEF CashNeverNegative, TypeOK
<1>3. AccountLockCoversHolding'
  BY <1>0 DEF AccountLockCoversHolding, TypeOK
<1>4. AccountsLocked'
  BY <1>0 DEF AccountsLocked, InOrder, InReset, ResetSteps, TypeOK
<1>5. SnapshotsCurrent'
  BY <1>0 DEF SnapshotsCurrent, InOrder, TypeOK
<1>6. IdsUnique'
  BY <1>0 DEF IdsUnique, TypeOK
<1>7. Bookkeeping'
  BY <1>0 DEF Bookkeeping, OrderSteps, TypeOK
<1>8. FillsAreAudited'
  BY <1>0 DEF FillsAreAudited, TypeOK
<1> QED
  BY <1>1, <1>2, <1>3, <1>4, <1>5, <1>6, <1>7, <1>8 DEF TransactionsIsolated

\* A reset takes the next free account row.
LEMMA ResetLockStep ==
  ASSUME TransactionsIsolated, NEW th \in Threads, ResetLock(th)
  PROVE  TransactionsIsolated'
<1> USE DEF ResetLock, tables
<1>0. TypeOK /\ CashNeverNegative /\ AccountLockCoversHolding /\ AccountsLocked
      /\ SnapshotsCurrent /\ IdsUnique /\ Bookkeeping /\ FillsAreAudited
  BY DEF TransactionsIsolated
<1>1. TypeOK'
  <2>1. acctLock' \in [Currencies -> Threads \cup {NoThread}]
    BY <1>0 DEF TypeOK
  <2>2. scanAt' \in [Threads -> Currencies] /\ pc' \in [Threads -> Steps]
    BY <1>0 DEF TypeOK, Steps, ResetSteps
  <2> QED
    BY <1>0, <2>1, <2>2 DEF TypeOK
<1>2. CashNeverNegative'
  BY <1>0, ThreadAssumption DEF CashNeverNegative, TypeOK
<1>3. AccountLockCoversHolding'
  BY <1>0, ThreadAssumption DEF AccountLockCoversHolding, TypeOK
<1>4. AccountsLocked'
  BY <1>0, ThreadAssumption DEF AccountsLocked, InOrder, InReset, ResetSteps, TypeOK
<1>5. SnapshotsCurrent'
  BY <1>0, ThreadAssumption DEF SnapshotsCurrent, InOrder, TypeOK
<1>6. IdsUnique'
  BY <1>0, ThreadAssumption DEF IdsUnique, TypeOK
<1>7. Bookkeeping'
  BY <1>0, ThreadAssumption DEF Bookkeeping, OrderSteps, TypeOK
<1>8. FillsAreAudited'
  BY <1>0, ThreadAssumption DEF FillsAreAudited, TypeOK
<1> QED
  BY <1>1, <1>2, <1>3, <1>4, <1>5, <1>6, <1>7, <1>8 DEF TransactionsIsolated

\* With every account row locked, the holding rows a reset sees are all there are.
LEMMA ResetHoldingsStep ==
  ASSUME TransactionsIsolated, NEW th \in Threads, ResetHoldings(th)
  PROVE  TransactionsIsolated'
<1> USE DEF ResetHoldings, tables
<1>0. TypeOK /\ CashNeverNegative /\ AccountLockCoversHolding /\ AccountsLocked
      /\ SnapshotsCurrent /\ IdsUnique /\ Bookkeeping /\ FillsAreAudited
  BY DEF TransactionsIsolated
<1>1. TypeOK'
  <2>1. holdLock' \in [Tickers -> Threads \cup {NoThread}]
    BY <1>0 DEF TypeOK
  <2>2. doomed' \in [Threads -> SUBSET Tickers] /\ pc' \in [Threads -> Steps]
    BY <1>0 DEF TypeOK, Steps, ResetSteps
  <2> QED
    BY <1>0, <2>1, <2>2 DEF TypeOK
<1>2. CashNeverNegative'
  BY <1>0, CurrencyType, ThreadAssumption DEF CashNeverNegative, TypeOK
<1>3. AccountLockCoversHolding'
  <2>1. \A c \in accounts : acctLock[c] = th
    BY <1>0 DEF AccountsLocked, InReset
  <2>2. \A t \in Tickers : holdings[t].row => acctLock[TickerCurrency(t)] = th
    BY <1>0, <2>1 DEF Bookkeeping
  <2> QED
    BY <1>0, <2>2 DEF AccountLockCoversHolding
<1>4. AccountsLocked'
  BY <1>0, CurrencyType, ThreadAssumption DEF AccountsLocked, InOrder, InReset, ResetSteps, TypeOK
<1>5. SnapshotsCurrent'
  BY <1>0, CurrencyType, ThreadAssumption DEF SnapshotsCurrent, InOrder, TypeOK
<1>6. IdsUnique'
  BY <1>0, CurrencyType, ThreadAssumption DEF IdsUnique, TypeOK
<1>7. Bookkeeping'
  BY <1>0, CurrencyType, ThreadAssumption DEF Bookkeeping, OrderSteps, TypeOK
<1>8. FillsAreAudited'
  BY <1>0, CurrencyType, ThreadAssumption DEF FillsAreAudited, TypeOK
<1> QED
  BY <1>1, <1>2, <1>3, <1>4, <1>5, <1>6, <1>7, <1>8 DEF TransactionsIsolated

\* A reset pays back the seed balances, clears the rows it saw and frees the locks.
LEMMA ResetCommitStep ==
  ASSUME TransactionsIsolated, NEW th \in Threads, ResetCommit(th)
  PROVE  TransactionsIsolated'
<1> USE DEF ResetCommit, EndTx, ForgetLocals, Unlock
<1>0. TypeOK /\ CashNeverNegative /\ AccountLockCoversHolding /\ AccountsLocked
      /\ SnapshotsCurrent /\ IdsUnique /\ Bookkeeping /\ FillsAreAudited
  BY DEF TransactionsIsolated
<1>r. AnyRequest \in Requests /\ NoHolding \in Holding
  BY AnyRequestType DEF NoHolding, Holding
<1>1. TypeOK'
  BY <1>0, <1>r, ThreadAssumption, SeedAssumption DEF TypeOK, Steps, Replies, Currencies
<1>2. CashNeverNegative'
  BY <1>0, <1>r, ThreadAssumption, SeedAssumption DEF CashNeverNegative, TypeOK
<1>3. AccountLockCoversHolding'
  <2> SUFFICES ASSUME NEW t \in Tickers, holdLock'[t] # NoThread
               PROVE  acctLock'[TickerCurrency(t)] = holdLock'[t]
    BY DEF AccountLockCoversHolding
  <2>1. DOMAIN holdLock = Tickers /\ DOMAIN acctLock = Currencies
    BY <1>0 DEF TypeOK
  <2>2. holdLock'[t] = holdLock[t] /\ holdLock[t] # th
    BY <2>1
  <2>3. acctLock[TickerCurrency(t)] = holdLock[t]
    BY <1>0, <2>2 DEF AccountLockCoversHolding
  <2> QED
    BY <2>1, <2>2, <2>3, CurrencyType
<1>4. AccountsLocked'
  <2>1. \A c \in accounts : acctLock[c] = th
    BY <1>0 DEF AccountsLocked, InReset
  <2>2. scanAt[th] \in accounts
    BY <1>0 DEF AccountsLocked, ResetSteps
  <2>3. \A u \in Threads : ~InOrder(u)
    <3> SUFFICES ASSUME NEW u \in Threads, InOrder(u) PROVE FALSE
      OBVIOUS
    <3>1. acctLock[TickerCurrency(req[u].ticker)] = u
      BY <1>0 DEF AccountsLocked
    <3>2. TickerCurrency(req[u].ticker) \in accounts
      BY <1>0, <3>1, CurrencyType, ThreadAssumption DEF AccountsLocked
    <3>3. u = th
      BY <2>1, <3>1, <3>2
    <3> QED
      BY <3>3 DEF InOrder
  <2>4. \A u \in Threads : InReset(u) => u = th
    BY <1>0, <2>1, <2>2 DEF AccountsLocked

  <2>5. DOMAIN acctLock = Currencies /\ accounts' = accounts
    BY <1>0 DEF TypeOK
  <2>6. \A u \in Threads : u # th => pc'[u] = pc[u] /\ scanAt'[u] = scanAt[u]
    BY <1>0 DEF TypeOK
  <2>7. pc'[th] = "idle"
    BY <1>0 DEF TypeOK
  <2>8. \A u \in Threads : ~InOrder(u)' /\ ~InReset(u)'
    BY <2>3, <2>4, <2>6, <2>7 DEF InOrder, InReset
  <2>9. \A u \in Threads : pc'[u] \in ResetSteps => scanAt'[u] \in accounts'
    BY <1>0, <2>5, <2>6, <2>7 DEF AccountsLocked, ResetSteps
  <2>10. \A c \in Currencies : acctLock'[c] # NoThread => c \in accounts'
    BY <1>0, <2>5 DEF AccountsLocked
  <2> QED
    BY <2>8, <2>9, <2>10 DEF AccountsLocked
<1>5. SnapshotsCurrent'
  <2>1. \A c \in accounts : acctLock[c] = th
    BY <1>0 DEF AccountsLocked, InReset
  <2>2. scanAt[th] \in accounts
    BY <1>0 DEF AccountsLocked, ResetSteps
  <2>3. \A u \in Threads : ~InOrder(u)
    <3> SUFFICES ASSUME NEW u \in Threads, InOrder(u) PROVE FALSE
      OBVIOUS
    <3>1. acctLock[TickerCurrency(req[u].ticker)] = u
      BY <1>0 DEF AccountsLocked
    <3>2. TickerCurrency(req[u].ticker) \in accounts
      BY <1>0, <3>1, CurrencyType, ThreadAssumption DEF AccountsLocked
    <3>3. u = th
      BY <2>1, <3>1, <3>2
    <3> QED
      BY <3>3 DEF InOrder
  <2>4. \A u \in Threads : InReset(u) => u = th
    BY <1>0, <2>1, <2>2 DEF AccountsLocked

  <2>5. \A u \in Threads : u # th => pc'[u] = pc[u]
    BY <1>0 DEF TypeOK
  <2>6. pc'[th] = "idle"
    BY <1>0 DEF TypeOK
  <2>7. \A u \in Threads : ~InOrder(u)' /\ ~InReset(u)'
    BY <2>3, <2>4, <2>5, <2>6 DEF InOrder, InReset
  <2> QED
    BY <2>7 DEF SnapshotsCurrent, InOrder, InReset
<1>6. IdsUnique'
  BY <1>0, <1>r, ThreadAssumption, SeedAssumption DEF IdsUnique, TypeOK
<1>7. Bookkeeping'
  BY <1>0, <1>r, ThreadAssumption, SeedAssumption DEF Bookkeeping, OrderSteps, TypeOK
<1>8. FillsAreAudited'
  BY <1>0, <1>r, ThreadAssumption, SeedAssumption DEF FillsAreAudited, TypeOK
<1> QED
  BY <1>1, <1>2, <1>3, <1>4, <1>5, <1>6, <1>7, <1>8 DEF TransactionsIsolated

\* A crash rolls every transaction back and frees every lock.
LEMMA CrashStep ==
  ASSUME TransactionsIsolated, Crash
  PROVE  TransactionsIsolated'
<1> USE DEF Crash, tables
<1>0. TypeOK /\ CashNeverNegative /\ AccountLockCoversHolding /\ AccountsLocked
      /\ SnapshotsCurrent /\ IdsUnique /\ Bookkeeping /\ FillsAreAudited
  BY DEF TransactionsIsolated
<1>r. AnyRequest \in Requests /\ NoHolding \in Holding
  BY AnyRequestType DEF NoHolding, Holding
<1>1. TypeOK'
  <2>1. NoReply \in Replies
    BY DEF NoReply, Replies
  <2>2. reply' \in [Threads -> Replies] /\ pc' \in [Threads -> Steps]
    BY <2>1 DEF Steps
  <2>3. /\ acctLock' \in [Currencies -> Threads \cup {NoThread}]
        /\ holdLock' \in [Tickers -> Threads \cup {NoThread}]
        /\ up' \in BOOLEAN
    OBVIOUS
  <2>4. /\ req' \in [Threads -> Requests] /\ seenCash' \in [Threads -> Int]
        /\ seenHold' \in [Threads -> Holding] /\ orderId' \in [Threads -> Nat]
        /\ scanAt' \in [Threads -> Currencies] /\ doomed' \in [Threads -> SUBSET Tickers]
    BY <1>r DEF Currencies
  <2> QED
    BY <1>0, <2>2, <2>3, <2>4 DEF TypeOK
<1>2. CashNeverNegative'
  BY <1>0, <1>r DEF CashNeverNegative, TypeOK
<1>3. AccountLockCoversHolding'
  BY <1>0, <1>r DEF AccountLockCoversHolding, TypeOK
<1>4. AccountsLocked'
  BY <1>0, <1>r DEF AccountsLocked, InOrder, InReset, ResetSteps, TypeOK
<1>5. SnapshotsCurrent'
  BY <1>0, <1>r DEF SnapshotsCurrent, InOrder, TypeOK
<1>6. IdsUnique'
  BY <1>0, <1>r DEF IdsUnique, TypeOK
<1>7. Bookkeeping'
  BY <1>0, <1>r DEF Bookkeeping, OrderSteps, TypeOK
<1>8. FillsAreAudited'
  <2>1. \A th \in Threads : reply'[th].status # "FILLED"
    BY DEF NoReply
  <2> QED
    BY <1>0, <2>1 DEF FillsAreAudited
<1> QED
  BY <1>1, <1>2, <1>3, <1>4, <1>5, <1>6, <1>7, <1>8 DEF TransactionsIsolated

\* Starting up seeds the accounts that are missing and leaves the others alone.
LEMMA StartupStep ==
  ASSUME TransactionsIsolated, Startup
  PROVE  TransactionsIsolated'
<1> USE DEF Startup, SeedAccounts, txState
<1>0. TypeOK /\ CashNeverNegative /\ AccountLockCoversHolding /\ AccountsLocked
      /\ SnapshotsCurrent /\ IdsUnique /\ Bookkeeping /\ FillsAreAudited
  BY DEF TransactionsIsolated
<1>1. TypeOK'
  BY <1>0, SeedAssumption, CurrencyType DEF TypeOK
<1>2. CashNeverNegative'
  BY <1>0, SeedAssumption, CurrencyType DEF CashNeverNegative, TypeOK
<1>3. AccountLockCoversHolding'
  BY <1>0, SeedAssumption, CurrencyType DEF AccountLockCoversHolding, TypeOK
<1>4. AccountsLocked'
  <2>1. \A th \in Threads : pc'[th] = "idle"
    BY <1>0 DEF Bookkeeping
  <2>2. accounts \subseteq accounts'
    BY <1>0 DEF TypeOK
  <2>3. \A c \in Currencies : acctLock'[c] # NoThread => c \in accounts'
    BY <1>0, <2>2 DEF AccountsLocked
  <2> QED
    BY <2>1, <2>3 DEF AccountsLocked, InOrder, InReset, ResetSteps
<1>5. SnapshotsCurrent'
  <2>1. \A th \in Threads : pc'[th] = "idle"
    BY <1>0 DEF Bookkeeping
  <2> QED
    BY <2>1 DEF SnapshotsCurrent, InOrder
<1>6. IdsUnique'
  BY <1>0, SeedAssumption, CurrencyType DEF IdsUnique, TypeOK
<1>7. Bookkeeping'
  BY <1>0, SeedAssumption, CurrencyType DEF Bookkeeping, OrderSteps, TypeOK
<1>8. FillsAreAudited'
  BY <1>0, SeedAssumption, CurrencyType DEF FillsAreAudited, TypeOK
<1> QED
  BY <1>1, <1>2, <1>3, <1>4, <1>5, <1>6, <1>7, <1>8 DEF TransactionsIsolated

\* A commit acts on the balance and the row its transaction read.
LEMMA CommitOrderStep ==
  ASSUME TransactionsIsolated, NEW th \in Threads, CommitOrder(th)
  PROVE  TransactionsIsolated'
<1> USE DEF CommitOrder, EndTx, ForgetLocals, Unlock
<1>0. TypeOK /\ CashNeverNegative /\ AccountLockCoversHolding /\ AccountsLocked
      /\ SnapshotsCurrent /\ IdsUnique /\ Bookkeeping /\ FillsAreAudited
  BY DEF TransactionsIsolated
<1> DEFINE r == req[th]
           c == TickerCurrency(r.ticker)
           t == r.ticker
<1>a. /\ r \in Requests /\ WellFormed(r) /\ t \in Tickers /\ c \in Currencies
      /\ acctLock[c] = th /\ c \in accounts
      /\ seenCash[th] = cash[c] /\ seenHold[th] = holdings[t]
      /\ Affordable(r, cash[c], holdings[t])
      /\ orderId[th] \in OrderIds /\ orderId[th] \in Nat
  BY <1>0, CurrencyType, ThreadAssumption, RequestTypes, IdAssumption
  DEF TypeOK, AccountsLocked, SnapshotsCurrent, IdsUnique, Bookkeeping, InOrder, OrderSteps
<1>b. /\ cash' = [cash EXCEPT ![c] = @ + CashFlow(r)]
      /\ holdings' = [holdings EXCEPT ![t] = HoldingAfter(r, holdings[t])]
      /\ orders' = orders \cup {OrderRow(r, orderId[th])}
      /\ audit' = audit \cup {AuditRow(r, orderId[th])}
      /\ accounts' = accounts
  BY <1>a DEF ApplyOrder
<1>c. cash[c] \in Int /\ cash[c] >= 0 /\ holdings[t] \in Holding
      /\ (~holdings[t].row => holdings[t] = NoHolding)
  BY <1>0, <1>a DEF TypeOK, CashNeverNegative, Bookkeeping
<1>d. /\ HoldingAfter(r, holdings[t]) \in Holding
      /\ ~HoldingAfter(r, holdings[t]).row => HoldingAfter(r, holdings[t]) = NoHolding
  BY <1>a, <1>c, HoldingTypes
<1>e. cash[c] + CashFlow(r) \in Int /\ cash[c] + CashFlow(r) >= 0
  BY <1>a, <1>c, CashStaysCovered
<1>f. AnyRequest \in Requests /\ NoHolding \in Holding
  BY AnyRequestType DEF NoHolding, Holding
<1>g. pc'[th] = "idle" /\ \A u \in Threads : u # th =>
        /\ pc'[u] = pc[u] /\ req'[u] = req[u] /\ seenCash'[u] = seenCash[u]
        /\ seenHold'[u] = seenHold[u] /\ orderId'[u] = orderId[u]
        /\ scanAt'[u] = scanAt[u] /\ doomed'[u] = doomed[u] /\ reply'[u] = reply[u]
  BY <1>0 DEF TypeOK
<1>h. \A u \in Threads : u # th /\ InOrder(u) =>
        TickerCurrency(req[u].ticker) # c /\ req[u].ticker # t
  BY <1>0, <1>a DEF AccountsLocked
<1>i. \A u \in Threads : ~InReset(u)
  <2> SUFFICES ASSUME NEW u \in Threads, InReset(u) PROVE FALSE
    OBVIOUS
  <2>1. u = th
    BY <1>0, <1>a DEF AccountsLocked
  <2> QED
    BY <2>1 DEF InReset
<1>j. DOMAIN cash = Currencies /\ DOMAIN holdings = Tickers
      /\ DOMAIN acctLock = Currencies /\ DOMAIN holdLock = Tickers
  BY <1>0 DEF TypeOK
<1>k. \A u \in Threads : u # th => \A d \in Currencies : acctLock[d] = u => acctLock'[d] = u
  BY <1>j
<1>1. TypeOK'
  <2>1. cash' \in [Currencies -> Int] /\ holdings' \in [Tickers -> Holding]
    BY <1>0, <1>b, <1>d, <1>e DEF TypeOK
  <2>2. orders' \subseteq OrderRows /\ audit' \subseteq AuditRows /\ accounts' \subseteq Currencies
    BY <1>0, <1>a, <1>b, RowTypes DEF TypeOK
  <2>3. reply' \in [Threads -> Replies] /\ pc' \in [Threads -> Steps]
    <3>1. PICK status \in {"FILLED", "ERROR"}, id \in Nat :
            reply' = [reply EXCEPT ![th] = [status |-> status, order_id |-> id]]
      BY <1>a
    <3>2. [status |-> status, order_id |-> id] \in Replies
      BY <3>1 DEF Replies
    <3> QED
      BY <1>0, <3>1, <3>2 DEF TypeOK, Steps
  <2>4. /\ acctLock' \in [Currencies -> Threads \cup {NoThread}]
        /\ holdLock' \in [Tickers -> Threads \cup {NoThread}]
        /\ up' \in BOOLEAN /\ nextId' \in Nat
    BY <1>0 DEF TypeOK
  <2>5. /\ req' \in [Threads -> Requests] /\ seenCash' \in [Threads -> Int]
        /\ seenHold' \in [Threads -> Holding] /\ orderId' \in [Threads -> Nat]
        /\ scanAt' \in [Threads -> Currencies] /\ doomed' \in [Threads -> SUBSET Tickers]
    <3>1. /\ req' = [req EXCEPT ![th] = AnyRequest]
          /\ seenCash' = [seenCash EXCEPT ![th] = 0]
          /\ seenHold' = [seenHold EXCEPT ![th] = NoHolding]
          /\ orderId' = [orderId EXCEPT ![th] = 0]
          /\ scanAt' = [scanAt EXCEPT ![th] = "KRW"]
          /\ doomed' = [doomed EXCEPT ![th] = {}]
      OBVIOUS
    <3> QED
      BY <1>0, <1>f, <3>1 DEF TypeOK, Currencies
  <2> QED
    BY <2>1, <2>2, <2>3, <2>4, <2>5 DEF TypeOK
<1>2. CashNeverNegative'
  BY <1>0, <1>b, <1>e, <1>j DEF CashNeverNegative
<1>3. AccountLockCoversHolding'
  <2> SUFFICES ASSUME NEW x \in Tickers, holdLock'[x] # NoThread
               PROVE  acctLock'[TickerCurrency(x)] = holdLock'[x]
    BY DEF AccountLockCoversHolding
  <2>1. holdLock'[x] = holdLock[x] /\ holdLock[x] # th
    BY <1>j
  <2>2. acctLock[TickerCurrency(x)] = holdLock[x]
    BY <1>0, <2>1 DEF AccountLockCoversHolding
  <2> QED
    BY <1>j, <2>1, <2>2, CurrencyType
<1>4. AccountsLocked'
  <2>1. \A u \in Threads : InOrder(u)' => acctLock'[TickerCurrency(req'[u].ticker)] = u
    <3> SUFFICES ASSUME NEW u \in Threads, InOrder(u)'
                 PROVE  acctLock'[TickerCurrency(req'[u].ticker)] = u
      OBVIOUS
    <3>1. u # th /\ InOrder(u) /\ req'[u] = req[u]
      BY <1>g DEF InOrder
    <3> QED
      BY <1>0, <1>k, <3>1, CurrencyType DEF AccountsLocked
  <2>2. \A u \in Threads : ~InReset(u)'
    BY <1>g, <1>i DEF InReset
  <2>3. \A u \in Threads : pc'[u] \in ResetSteps => scanAt'[u] \in accounts'
    BY <1>0, <1>b, <1>g DEF AccountsLocked, ResetSteps
  <2>4. \A d \in Currencies : acctLock'[d] # NoThread => d \in accounts'
    BY <1>0, <1>b, <1>j DEF AccountsLocked
  <2> QED
    BY <2>1, <2>2, <2>3, <2>4 DEF AccountsLocked
<1>5. SnapshotsCurrent'
  <2> SUFFICES ASSUME NEW u \in Threads
      PROVE /\ InOrder(u)' => seenCash'[u] = cash'[TickerCurrency(req'[u].ticker)]
            /\ pc'[u] \in {"write", "commit"} => seenHold'[u] = holdings'[req'[u].ticker]
            /\ pc'[u] = "commit" => Affordable(req'[u], seenCash'[u], seenHold'[u])
            /\ pc'[u] = "reset_orders" => doomed'[u] = {x \in Tickers : holdings'[x].row}
    BY DEF SnapshotsCurrent
  <2>1. ~(pc'[u] = "reset_orders")
    BY <1>g, <1>i DEF InReset
  <2>2. CASE u = th
    BY <1>g, <2>1, <2>2 DEF InOrder
  <2>3. CASE u # th /\ InOrder(u)
    <3>1. /\ req[u].ticker \in Tickers
          /\ TickerCurrency(req[u].ticker) # c /\ req[u].ticker # t
      BY <1>0, <1>h, <2>3 DEF TypeOK, Requests
    <3>2. /\ cash'[TickerCurrency(req[u].ticker)] = cash[TickerCurrency(req[u].ticker)]
          /\ holdings'[req[u].ticker] = holdings[req[u].ticker]
      BY <1>b, <1>j, <3>1, CurrencyType
    <3> QED
      BY <1>0, <1>g, <2>1, <2>3, <3>2 DEF SnapshotsCurrent
  <2>4. CASE u # th /\ ~InOrder(u)
    BY <1>g, <2>1, <2>4 DEF InOrder
  <2> QED
    BY <2>2, <2>3, <2>4
<1>6. IdsUnique'
  <2>1. \A a \in audit' : a \in audit \/ a.order_id = orderId[th]
    BY <1>b DEF AuditRow
  <2>2. \A a \in audit' : a.order_id < nextId'
    BY <1>0, <2>1 DEF IdsUnique
  <2>3. \A u \in Threads : pc'[u] = "commit" => u # th /\ pc[u] = "commit"
    BY <1>g
  <2>4. \A u \in Threads : pc'[u] = "commit" =>
          /\ orderId'[u] \in OrderIds /\ orderId'[u] < nextId'
          /\ \A a \in audit' : a.order_id # orderId'[u]
    BY <1>0, <1>g, <2>1, <2>3 DEF IdsUnique
  <2>5. \A u, v \in Threads :
          u # v /\ pc'[u] = "commit" /\ pc'[v] = "commit" => orderId'[u] # orderId'[v]
    BY <1>0, <1>g, <2>3 DEF IdsUnique
  <2> QED
    BY <2>2, <2>4, <2>5 DEF IdsUnique
<1>7. Bookkeeping'
  <2>1. \A u \in Threads : pc'[u] \in OrderSteps => WellFormed(req'[u])
    BY <1>0, <1>g DEF Bookkeeping, OrderSteps
  <2>2. \A x \in Tickers : ~holdings'[x].row => holdings'[x] = NoHolding
    BY <1>0, <1>b, <1>d, <1>j DEF Bookkeeping
  <2>3. \A x \in Tickers : holdings'[x].row => TickerCurrency(x) \in accounts'
    BY <1>0, <1>a, <1>b, <1>j DEF Bookkeeping
  <2>4. ~up' => \A u \in Threads : pc'[u] = "idle"
    BY <1>0 DEF Bookkeeping
  <2> QED
    BY <2>1, <2>2, <2>3, <2>4 DEF Bookkeeping
<1>8. FillsAreAudited'
  <2>1. AuditRow(r, orderId[th]) \in audit' /\ AuditRow(r, orderId[th]).order_id = orderId[th]
      /\ AuditRow(r, orderId[th]).ticker = t
    BY <1>b DEF AuditRow
  <2>2. reply'[th].order_id = orderId[th] \/ reply'[th].status # "FILLED"
    BY <1>0 DEF TypeOK
  <2>3. \A u \in Threads : reply'[u].status = "FILLED" =>
          \E a \in audit' : a.order_id = reply'[u].order_id
    BY <1>0, <1>b, <1>g, <2>1, <2>2 DEF FillsAreAudited
  <2>4. \A o \in orders' : o \in orders \/ (o.order_id = orderId[th] /\ o.ticker = t)
    <3> DEFINE new == OrderRow(r, orderId[th])
    <3>1. new.order_id = orderId[th] /\ new.ticker = t
      BY DEF OrderRow
    <3>2. \A o \in orders' : o \in orders \/ o = new
      BY <1>b
    <3> HIDE DEF new
    <3> QED
      BY <3>1, <3>2
  <2>5. \A o \in orders' : \E a \in audit' : a.order_id = o.order_id /\ a.ticker = o.ticker
    <3> SUFFICES ASSUME NEW o \in orders'
                 PROVE  \E a \in audit' : a.order_id = o.order_id /\ a.ticker = o.ticker
      OBVIOUS
    <3>1. CASE o \in orders
      BY <1>0, <1>b, <3>1 DEF FillsAreAudited
    <3>2. CASE o.order_id = orderId[th] /\ o.ticker = t
      BY <2>1, <3>2
    <3> QED
      BY <2>4, <3>1, <3>2
  <2> QED
    BY <2>3, <2>5 DEF FillsAreAudited
<1> QED
  BY <1>1, <1>2, <1>3, <1>4, <1>5, <1>6, <1>7, <1>8 DEF TransactionsIsolated

---------------------------------------------------------------------------
(* The theorems.                                                           *)

\* Every step of the broker keeps transactions isolated.
LEMMA StepIsolated == TransactionsIsolated /\ [Next]_vars => TransactionsIsolated'
<1> SUFFICES ASSUME TransactionsIsolated, [Next]_vars PROVE TransactionsIsolated'
  OBVIOUS
<1>1. ASSUME NEW th \in Threads, NEW r \in Requests,
             RefuseOrder(th, r) \/ BeginOrder(th, r)
      PROVE  TransactionsIsolated'
  BY <1>1, RefuseOrderStep, BeginOrderStep
<1>2. ASSUME NEW th \in Threads, BeginReset(th)
      PROVE  TransactionsIsolated'
  BY <1>2, BeginResetStep
<1>3. ASSUME NEW th \in Threads, OrderStep(th)
      PROVE  TransactionsIsolated'
  <2>1. CASE LockAccount(th) \/ LockHolding(th) \/ WriteOrder(th) \/ CommitOrder(th)
    BY <2>1, LockAccountStep, LockHoldingStep, WriteOrderStep, CommitOrderStep
  <2>2. CASE NoAccount(th)
    BY <2>2, RollbackStep DEF NoAccount
  <2>3. CASE RejectOrder(th)
    BY <2>3, RollbackStep DEF RejectOrder
  <2>4. CASE IdsExhausted(th)
    BY <2>4, RollbackStep DEF IdsExhausted
  <2> QED
    BY <1>3, <2>1, <2>2, <2>3, <2>4 DEF OrderStep
<1>4. ASSUME NEW th \in Threads, ResetStep(th)
      PROVE  TransactionsIsolated'
  <2>1. CASE ResetLock(th) \/ ResetHoldings(th) \/ ResetCommit(th)
    BY <2>1, ResetLockStep, ResetHoldingsStep, ResetCommitStep
  <2>2. CASE DeadlockAbort(th)
    BY <2>2, RollbackStep DEF DeadlockAbort
  <2> QED
    BY <1>4, <2>1, <2>2 DEF ResetStep
<1>5. ASSUME NEW th \in Threads, FailTx(th)
      PROVE  TransactionsIsolated'
  BY <1>5, RollbackStep DEF FailTx
<1>6. CASE Crash
  BY <1>6, CrashStep
<1>7. CASE Startup
  BY <1>7, StartupStep
<1>8. CASE UNCHANGED vars
  BY <1>8 DEF vars, tables, txState, TransactionsIsolated, TypeOK, CashNeverNegative,
     AccountLockCoversHolding, AccountsLocked, SnapshotsCurrent, IdsUnique, Bookkeeping,
     FillsAreAudited, InOrder, InReset
<1> QED
  BY <1>1, <1>2, <1>3, <1>4, <1>5, <1>6, <1>7, <1>8 DEF Next

\* Whatever the threads, tickers, prices and seed balances: transactions that
\* touch the same rows never overlap between their first read and their commit.
THEOREM Isolation == Spec => []TransactionsIsolated
BY InitIsolated, StepIsolated, PTL DEF Spec

\* The variables keep their types.
THEOREM TypeCorrect == Spec => []TypeOK
<1>1. TransactionsIsolated => TypeOK
  BY DEF TransactionsIsolated
<1> QED
  BY <1>1, Isolation, PTL

\* No run overdraws an account.
THEOREM NeverOverdrawn == Spec => []CashNeverNegative
<1>1. TransactionsIsolated => CashNeverNegative
  BY DEF TransactionsIsolated
<1> QED
  BY <1>1, Isolation, PTL

\* The account lock alone serialises the orders of a currency.
THEOREM LockHierarchy == Spec => []AccountLockCoversHolding
<1>1. TransactionsIsolated => AccountLockCoversHolding
  BY DEF TransactionsIsolated
<1> QED
  BY <1>1, Isolation, PTL

\* A fill that was reported, and every order row, is in the audit trail.
THEOREM AuditComplete == Spec => []FillsAreAudited
<1>1. TransactionsIsolated => FillsAreAudited
  BY DEF TransactionsIsolated
<1> QED
  BY <1>1, Isolation, PTL

---------------------------------------------------------------------------
(* Nobody waits in a circle but resets.                                    *)

\* Who has locked a row is past the statement that locks it, and a reset is at a
\* row it has not locked.
LocksInTurn ==
  /\ \A c \in Currencies : acctLock[c] # NoThread =>
       pc[acctLock[c]] \in {"holding", "write", "commit"} \cup ResetSteps
  /\ \A t \in Tickers : holdLock[t] # NoThread =>
       pc[holdLock[t]] \in {"write", "commit", "reset_orders"}
  /\ \A th \in Threads : pc[th] = "reset_accounts" => acctLock[scanAt[th]] # th

LEMMA InitInTurn == Init => LocksInTurn
BY DEF Init, LocksInTurn

\* A transaction that ends, well or not, keeps no row.
LEMMA EndInTurn ==
  ASSUME TypeOK, LocksInTurn, NEW th \in Threads, NEW status, NEW id, EndTx(th, status, id)
  PROVE  LocksInTurn'
<1>1. /\ acctLock' = [c \in Currencies |-> IF acctLock[c] = th THEN NoThread ELSE acctLock[c]]
      /\ holdLock' = [t \in Tickers |-> IF holdLock[t] = th THEN NoThread ELSE holdLock[t]]
  BY DEF EndTx, Unlock, TypeOK
<1>2. pc' = [pc EXCEPT ![th] = "idle"] /\ scanAt' = [scanAt EXCEPT ![th] = "KRW"]
  BY DEF EndTx, ForgetLocals
<1>3. ASSUME NEW u \in Threads, pc'[u] = "reset_accounts" PROVE acctLock'[scanAt'[u]] # u
  <2>1. u # th /\ pc[u] = "reset_accounts" /\ scanAt'[u] = scanAt[u] /\ scanAt[u] \in Currencies
    BY <1>2, <1>3 DEF TypeOK
  <2>2. acctLock[scanAt[u]] # u
    BY <2>1 DEF LocksInTurn
  <2> QED
    BY <1>1, <2>1, <2>2, ThreadAssumption
<1>4. \A c \in Currencies : acctLock'[c] # NoThread =>
        pc'[acctLock'[c]] \in {"holding", "write", "commit"} \cup ResetSteps
  BY <1>1, <1>2 DEF LocksInTurn, TypeOK
<1>5. \A t \in Tickers : holdLock'[t] # NoThread =>
        pc'[holdLock'[t]] \in {"write", "commit", "reset_orders"}
  BY <1>1, <1>2 DEF LocksInTurn, TypeOK
<1> QED
  BY <1>3, <1>4, <1>5 DEF LocksInTurn

\* A statement of an order locks a row for its own transaction.
LEMMA OrderInTurn ==
  ASSUME TypeOK, LocksInTurn, NEW th \in Threads, OrderStep(th)
  PROVE  LocksInTurn'
<1>1. CASE LockAccount(th)
  BY <1>1, ThreadAssumption, CurrencyType DEF LockAccount, LocksInTurn, TypeOK, ResetSteps
<1>2. CASE LockHolding(th)
  BY <1>2, ThreadAssumption, CurrencyType DEF LockHolding, LocksInTurn, TypeOK, ResetSteps
<1>3. CASE WriteOrder(th)
  BY <1>3 DEF WriteOrder, LocksInTurn, TypeOK, ResetSteps
<1>4. CASE NoAccount(th) \/ RejectOrder(th) \/ IdsExhausted(th) \/ CommitOrder(th)
  BY <1>4, EndInTurn DEF NoAccount, RejectOrder, IdsExhausted, CommitOrder
<1> QED
  BY <1>1, <1>2, <1>3, <1>4 DEF OrderStep

\* A reset moves on to account rows it does not have.
LEMMA ResetInTurn ==
  ASSUME TypeOK, LocksInTurn, NEW th \in Threads, BeginReset(th) \/ ResetStep(th)
  PROVE  LocksInTurn'
<1>1. CASE BeginReset(th)
  <2>1. PICK c \in accounts : scanAt' = [scanAt EXCEPT ![th] = c]
    BY <1>1 DEF BeginReset
  <2>2. c \in Currencies /\ acctLock[c] # th
    BY <1>1, ThreadAssumption DEF BeginReset, LocksInTurn, TypeOK, ResetSteps
  <2> QED
    BY <1>1, <2>1, <2>2 DEF BeginReset, LocksInTurn, TypeOK, ResetSteps
<1>2. CASE ResetLock(th)
  BY <1>2, ThreadAssumption DEF ResetLock, LocksInTurn, TypeOK, ResetSteps
<1>3. CASE ResetHoldings(th)
  BY <1>3, ThreadAssumption DEF ResetHoldings, LocksInTurn, TypeOK, ResetSteps
<1>4. CASE ResetCommit(th) \/ DeadlockAbort(th)
  BY <1>4, EndInTurn DEF ResetCommit, DeadlockAbort
<1> QED
  BY <1>1, <1>2, <1>3, <1>4 DEF ResetStep

LEMMA StepInTurn ==
  ASSUME TypeOK, LocksInTurn, [Next]_vars
  PROVE  LocksInTurn'
<1>1. ASSUME NEW th \in Threads, NEW r \in Requests, RefuseOrder(th, r) PROVE LocksInTurn'
  BY <1>1 DEF RefuseOrder, txState, LocksInTurn
<1>2. ASSUME NEW th \in Threads, NEW r \in Requests, BeginOrder(th, r) PROVE LocksInTurn'
  BY <1>2 DEF BeginOrder, LocksInTurn, TypeOK, ResetSteps
<1>3. ASSUME NEW th \in Threads, BeginReset(th) \/ OrderStep(th) \/ ResetStep(th)
      PROVE  LocksInTurn'
  BY <1>3, OrderInTurn, ResetInTurn
<1>4. ASSUME NEW th \in Threads, FailTx(th) PROVE LocksInTurn'
  BY <1>4, EndInTurn DEF FailTx
<1>5. CASE Crash
  BY <1>5 DEF Crash, LocksInTurn
<1>6. CASE Startup \/ UNCHANGED vars
  BY <1>6 DEF Startup, vars, txState, LocksInTurn
<1> QED
  BY <1>1, <1>2, <1>3, <1>4, <1>5, <1>6 DEF Next

\* What a transaction waits for is an account row: nobody else has the holding rows
\* of the accounts it has locked.
LEMMA WaitsForAccount ==
  ASSUME TransactionsIsolated, LocksInTurn,
         NEW th \in Threads, NEW u \in Threads, WaitsFor(th, u)
  PROVE  /\ pc[th] \in {"account", "reset_accounts"}
         /\ \E c \in Currencies : acctLock[c] = u
<1>1. TypeOK /\ AccountLockCoversHolding /\ AccountsLocked /\ Bookkeeping
  BY DEF TransactionsIsolated
<1>2. \A t \in Tickers : holdLock[t] = u => acctLock[TickerCurrency(t)] = u
  BY <1>1, ThreadAssumption DEF AccountLockCoversHolding
<1>3. req[th].ticker \in Tickers
  BY <1>1 DEF TypeOK, Requests
<1>4. \A t \in Tickers : holdLock[t] = u => pc[u] \in {"write", "commit", "reset_orders"}
  BY ThreadAssumption DEF LocksInTurn
<1>5. pc[th] # "holding"
  <2> SUFFICES ASSUME pc[th] = "holding" PROVE FALSE
    OBVIOUS
  <2>1. holdLock[req[th].ticker] = u
    BY DEF WaitsFor
  <2>2. acctLock[TickerCurrency(req[th].ticker)] = th
    BY <1>1 DEF AccountsLocked, InOrder
  <2>3. u = th
    BY <1>2, <1>3, <2>1, <2>2
  <2> QED
    BY <1>3, <1>4, <2>1, <2>3
<1>6. pc[th] # "reset_holdings"
  <2> SUFFICES ASSUME pc[th] = "reset_holdings" PROVE FALSE
    OBVIOUS
  <2>1. PICK t \in Tickers : holdings[t].row /\ holdLock[t] = u
    BY DEF WaitsFor
  <2>2. acctLock[TickerCurrency(t)] = th
    BY <1>1, <2>1 DEF AccountsLocked, InReset, Bookkeeping
  <2>3. u = th
    BY <1>2, <2>1, <2>2
  <2> QED
    BY <1>4, <2>1, <2>3
<1>7. scanAt[th] \in Currencies
  BY <1>1 DEF TypeOK
<1> QED
  BY <1>5, <1>6, <1>7, CurrencyType DEF WaitsFor

\* Who is waited for and waits itself is a reset at the account rows.
LEMMA WaitingHolderResets ==
  ASSUME TransactionsIsolated, LocksInTurn, NEW th \in Threads, NEW u \in Threads,
         NEW v \in Threads, WaitsFor(th, u), WaitsFor(u, v)
  PROVE  /\ pc[u] = "reset_accounts" /\ acctLock[scanAt[u]] = v /\ v # u
         /\ \E c \in Currencies : acctLock[c] = u
<1>1. PICK c \in Currencies : acctLock[c] = u
  BY WaitsForAccount
<1>2. pc[u] \in {"holding", "write", "commit"} \cup ResetSteps
  BY <1>1, ThreadAssumption DEF LocksInTurn
<1>3. pc[u] = "reset_accounts"
  BY <1>2, WaitsForAccount DEF ResetSteps
<1>4. acctLock[scanAt[u]] = v
  BY <1>3 DEF WaitsFor
<1> QED
  BY <1>1, <1>3, <1>4 DEF LocksInTurn

\* There are two account rows, so two resets that wait have them both.
LEMMA CircleIsCrossed ==
  ASSUME TransactionsIsolated, LocksInTurn, NEW waiting \in SUBSET Threads, waiting # {},
         \A th \in waiting : \E u \in waiting : WaitsFor(th, u)
  PROVE  \E th, u \in waiting : CrossedResets(th, u)
<1>1. PICK a \in waiting : TRUE
  OBVIOUS
<1>2. PICK b \in waiting : WaitsFor(a, b)
  OBVIOUS
<1>3. PICK c \in waiting : WaitsFor(b, c)
  OBVIOUS
<1>4. PICK d \in waiting : WaitsFor(c, d)
  OBVIOUS
<1>5. a \in Threads /\ b \in Threads /\ c \in Threads /\ d \in Threads
  OBVIOUS
<1>6. /\ pc[b] = "reset_accounts" /\ acctLock[scanAt[b]] = c /\ c # b
      /\ \E x \in Currencies : acctLock[x] = b
  BY <1>2, <1>3, <1>5, WaitingHolderResets
<1>7. pc[c] = "reset_accounts" /\ acctLock[scanAt[c]] = d /\ d # c
  BY <1>3, <1>4, <1>5, WaitingHolderResets
<1>8. scanAt[b] \in Currencies /\ scanAt[c] \in Currencies
  BY <1>5 DEF TransactionsIsolated, TypeOK
<1>9. PICK x \in Currencies : acctLock[x] = b
  BY <1>6
<1>10. x # scanAt[b] /\ scanAt[c] # scanAt[b]
  BY <1>6, <1>7, <1>9
<1>11. scanAt[c] = x
  BY <1>8, <1>9, <1>10 DEF Currencies
<1> QED
  BY <1>6, <1>7, <1>9, <1>11 DEF CrossedResets

\* For any number of threads: a circle of transactions that wait for each other's
\* rows contains two crossed resets, so the deadlock detector ends it.
THEOREM OnlyCrossedResetsWait == Spec => []OnlyResetsDeadlock
<1>1. TransactionsIsolated /\ LocksInTurn /\ [Next]_vars => LocksInTurn'
  BY StepInTurn DEF TransactionsIsolated
<1>2. TransactionsIsolated /\ LocksInTurn => OnlyResetsDeadlock
  BY CircleIsCrossed DEF OnlyResetsDeadlock
<1> QED
  BY InitInTurn, Isolation, <1>1, <1>2, PTL DEF Spec

---------------------------------------------------------------------------
(* The broker implements the ledger.                                       *)

\* The ledger's arithmetic is the broker's.
LEMMA SameArithmetic ==
  ASSUME NEW r, NEW h, NEW b, NEW id
  PROVE  /\ Ledger!WellFormed(r) = WellFormed(r)
         /\ Ledger!TickerCurrency(r.ticker) = TickerCurrency(r.ticker)
         /\ Ledger!Affordable(r, b, h) = Affordable(r, b, h)
         /\ Ledger!CashFlow(r) = CashFlow(r)
         /\ Ledger!HoldingAfter(r, h) = HoldingAfter(r, h)
         /\ Ledger!OrderRow(r, id) = OrderRow(r, id)
         /\ Ledger!AuditRow(r, id) = AuditRow(r, id)
         /\ Ledger!NoHolding = NoHolding
         /\ Ledger!Currencies = Currencies
         /\ Ledger!Requests = Requests
<1>1. \A n, d : Ledger!Round(n, d) = Round(n, d)
  BY DEF Ledger!Round, Round
<1>2. Ledger!FillPrice(r) = FillPrice(r)
  BY <1>1 DEF Ledger!FillPrice, FillPrice
<1>3. Ledger!Notional(r) = Notional(r)
  BY <1>1, <1>2 DEF Ledger!Notional, Notional
<1>4. Ledger!Commission(r) = Commission(r)
  BY <1>1, <1>3 DEF Ledger!Commission, Commission
<1>5. \A q : Ledger!Stored(q) = Stored(q)
  BY <1>1 DEF Ledger!Stored, Stored
<1>6. Ledger!TotalDebit(r) = TotalDebit(r) /\ Ledger!NetProceeds(r) = NetProceeds(r)
  BY <1>3, <1>4 DEF Ledger!TotalDebit, TotalDebit, Ledger!NetProceeds, NetProceeds
<1>7. Ledger!Bought(r, h) = Bought(r, h)
  BY <1>1, <1>3, <1>5 DEF Ledger!Bought, Bought
<1>8. Ledger!Sold(r, h) = Sold(r, h)
  BY <1>5 DEF Ledger!Sold, Sold, Ledger!NoHolding, NoHolding
<1>9. Ledger!OrderRow(r, id) = OrderRow(r, id)
  BY <1>1, <1>2, <1>5 DEF Ledger!OrderRow, OrderRow, Ledger!StoredPrice, StoredPrice
<1>10. Ledger!AuditRow(r, id) = AuditRow(r, id)
  BY <1>2, <1>3, <1>4 DEF Ledger!AuditRow, AuditRow
<1>11. Ledger!Affordable(r, b, h) = Affordable(r, b, h)
  BY <1>6 DEF Ledger!Affordable, Affordable
<1>12. Ledger!CashFlow(r) = CashFlow(r) /\ Ledger!HoldingAfter(r, h) = HoldingAfter(r, h)
  BY <1>6, <1>7, <1>8 DEF Ledger!CashFlow, CashFlow, Ledger!HoldingAfter, HoldingAfter
<1>13. /\ Ledger!WellFormed(r) = WellFormed(r)
       /\ Ledger!TickerCurrency(r.ticker) = TickerCurrency(r.ticker)
       /\ Ledger!NoHolding = NoHolding
       /\ Ledger!Currencies = Currencies
       /\ Ledger!Requests = Requests
  BY DEF Ledger!WellFormed, WellFormed, Ledger!TickerCurrency, TickerCurrency,
     Ledger!NoHolding, NoHolding, Ledger!Currencies, Currencies, Ledger!Requests,
     Requests, Ledger!Sides, Sides
<1> QED
  BY <1>9, <1>10, <1>11, <1>12, <1>13

\* A commit is the ledger's Fill of that order.
LEMMA CommitIsFill ==
  ASSUME TransactionsIsolated, NEW th \in Threads, CommitOrder(th)
  PROVE  Ledger!Fill(req[th], orderId[th])
<1> DEFINE r == req[th]
           c == TickerCurrency(r.ticker)
<1>1. /\ TypeOK /\ AccountsLocked /\ SnapshotsCurrent /\ IdsUnique /\ Bookkeeping
      /\ pc[th] = "commit"
  BY DEF TransactionsIsolated, CommitOrder
<1>2. /\ WellFormed(r) /\ acctLock[c] = th
      /\ seenCash[th] = cash[c] /\ seenHold[th] = holdings[r.ticker]
      /\ Affordable(r, cash[c], holdings[r.ticker])
      /\ \A a \in audit : a.order_id # orderId[th]
  BY <1>1 DEF AccountsLocked, SnapshotsCurrent, IdsUnique, Bookkeeping, InOrder, OrderSteps
<1>3. c \in accounts
  BY <1>1, <1>2, CurrencyType, ThreadAssumption DEF AccountsLocked
<1>4. /\ cash' = [cash EXCEPT ![c] = @ + CashFlow(r)]
      /\ holdings' = [holdings EXCEPT ![r.ticker] = HoldingAfter(r, holdings[r.ticker])]
      /\ orders' = orders \cup {OrderRow(r, orderId[th])}
      /\ audit' = audit \cup {AuditRow(r, orderId[th])}
      /\ accounts' = accounts
  BY <1>2 DEF CommitOrder, ApplyOrder
<1> QED
  BY <1>2, <1>3, <1>4, SameArithmetic DEF Ledger!Fill

\* A committing reset is the ledger's Reset.
LEMMA ResetCommitIsReset ==
  ASSUME TransactionsIsolated, NEW th \in Threads, ResetCommit(th)
  PROVE  Ledger!Reset
<1>1. /\ TypeOK /\ AccountsLocked /\ SnapshotsCurrent /\ Bookkeeping
      /\ pc[th] = "reset_orders"
  BY DEF TransactionsIsolated, ResetCommit
<1>2. \A c \in Currencies : acctLock[c] = th <=> c \in accounts
  BY <1>1, ThreadAssumption DEF AccountsLocked, InReset
<1>3. \A t \in Tickers : t \notin doomed[th] => holdings[t] = NoHolding
  BY <1>1 DEF SnapshotsCurrent, Bookkeeping
<1>4. cash' = [c \in Currencies |-> IF c \in accounts THEN SeedBalance[c] ELSE cash[c]]
  BY <1>2 DEF ResetCommit
<1>5. holdings' = [t \in Tickers |-> NoHolding]
  BY <1>3 DEF ResetCommit
<1>6. orders' = {} /\ accounts' = accounts /\ audit' = audit
  BY DEF ResetCommit
<1>7. Ledger!Currencies = Currencies /\ Ledger!NoHolding = NoHolding
  BY SameArithmetic
<1> QED
  BY <1>4, <1>5, <1>6, <1>7 DEF Ledger!Reset

\* Every step of the broker is a step of the ledger or changes no table.
LEMMA StepRefines == TransactionsIsolated /\ [Next]_vars => [Ledger!Next]_(Ledger!ledger)
<1> SUFFICES ASSUME TransactionsIsolated, [Next]_vars
             PROVE  [Ledger!Next]_(Ledger!ledger)
  OBVIOUS
<1>1. ASSUME UNCHANGED tables PROVE UNCHANGED Ledger!ledger
  BY <1>1 DEF tables, Ledger!ledger
<1>2. ASSUME NEW th \in Threads, NEW r \in Requests,
             RefuseOrder(th, r) \/ BeginOrder(th, r)
      PROVE  UNCHANGED tables
  BY <1>2 DEF RefuseOrder, BeginOrder, tables
<1>3. ASSUME NEW th \in Threads, BeginReset(th) \/ FailTx(th) PROVE UNCHANGED tables
  BY <1>3 DEF BeginReset, FailTx, tables
<1>4. ASSUME NEW th \in Threads, OrderStep(th), ~CommitOrder(th) PROVE UNCHANGED tables
  BY <1>4 DEF OrderStep, LockAccount, NoAccount, LockHolding, RejectOrder, WriteOrder,
     IdsExhausted, tables
<1>5. ASSUME NEW th \in Threads, CommitOrder(th) PROVE Ledger!Next
  <2>1. req[th] \in Ledger!Requests /\ orderId[th] \in OrderIds
    BY <1>5, SameArithmetic DEF TransactionsIsolated, TypeOK, IdsUnique, CommitOrder
  <2> QED
    BY <1>5, <2>1, CommitIsFill DEF Ledger!Next
<1>6. ASSUME NEW th \in Threads, ResetStep(th), ~ResetCommit(th) PROVE UNCHANGED tables
  BY <1>6 DEF ResetStep, ResetLock, ResetHoldings, DeadlockAbort, tables
<1>7. ASSUME NEW th \in Threads, ResetCommit(th) PROVE Ledger!Next
  BY <1>7, ResetCommitIsReset DEF Ledger!Next
<1>8. ASSUME Crash PROVE UNCHANGED tables
  BY <1>8 DEF Crash, tables
<1>9. ASSUME Startup PROVE Ledger!Next \/ UNCHANGED tables
  <2>1. CASE accounts' = Currencies /\ SeedAccounts
    <3>1. Ledger!Seed
      BY <1>9, <2>1, SameArithmetic DEF Startup, SeedAccounts, Ledger!Seed
    <3> QED
      BY <3>1 DEF Ledger!Next
  <2>2. CASE UNCHANGED <<accounts, cash>>
    BY <1>9, <2>2 DEF Startup, tables
  <2> QED
    BY <1>9, <2>1, <2>2 DEF Startup
<1>10. CASE UNCHANGED vars
  BY <1>10 DEF vars, tables, Ledger!ledger
<1>11. CASE Next
  BY <1>1, <1>2, <1>3, <1>4, <1>5, <1>6, <1>7, <1>8, <1>9, <1>11 DEF Next
<1> QED
  BY <1>10, <1>11

\* Every order and every reset of the multi-threaded broker takes effect at one
\* instant, on the book as it stands at that instant.
THEOREM BrokerImplementsLedger == Spec => LedgerSpec
<1>1. Init => Ledger!Init
  BY DEF Init
<1> QED
  BY <1>1, StepRefines, Isolation, PTL DEF Spec, LedgerSpec, Ledger!Spec

---------------------------------------------------------------------------
(* Rounding.                                                               *)

\* Division by a positive number leaves a remainder below it.
LEMMA DivBounds ==
  ASSUME NEW n \in Int, NEW d \in Nat \ {0}
  PROVE  n \div d \in Int /\ d * (n \div d) <= n /\ n < d * (n \div d) + d
OBVIOUS

\* A common positive factor may be dropped from an inequality ...
LEMMA Cancel ==
  ASSUME NEW a \in Int, NEW b \in Int, NEW d \in Nat \ {0}, d * a < d * b
  PROVE  a < b
<1> SUFFICES ASSUME b <= a PROVE FALSE
  OBVIOUS
<1>1. PICK k \in Nat : a = b + k
  <2>1. a - b \in Nat /\ a = b + (a - b)
    OBVIOUS
  <2> QED
    BY <2>1
<1>2. d * a = d * b + d * k /\ d * k \in Nat /\ d * b \in Int
  BY <1>1
<1> QED
  BY <1>2

\* Rounding to a unit is off by at most half of it.
LEMMA RoundBounds ==
  ASSUME NEW n \in Int, NEW d \in Nat \ {0}
  PROVE  /\ Round(n, d) \in Int
         /\ d * (2 * Round(n, d)) <= 2 * n + d
         /\ 2 * n + d < d * (2 * Round(n, d)) + 2 * d
<1> DEFINE N == 2 * n + d
           D == 2 * d
           x == N \div D
<1>1. N \in Int /\ D \in Nat \ {0}
  OBVIOUS
<1>2. x \in Int /\ D * x <= N /\ N < D * x + D
  <2> HIDE DEF N, D
  <2> QED
    BY <1>1, DivBounds
<1>3. Round(n, d) = x
  BY DEF Round
<1> HIDE DEF x
<1>4. D * x = d * (2 * x)
  BY <1>2
<1> QED
  BY <1>2, <1>3, <1>4

\* Rounding never falls below a multiple of the unit that the number reaches ...
LEMMA RoundLow ==
  ASSUME NEW n \in Int, NEW d \in Nat \ {0}, NEW m \in Int, d * m <= n
  PROVE  m <= Round(n, d)
<1> DEFINE x == Round(n, d)
<1>1. x \in Int /\ 2 * n + d < d * (2 * x) + 2 * d
  BY RoundBounds
<1> HIDE DEF x
<1>2. d * (2 * m) = 2 * (d * m) /\ d * (2 * x + 1) = d * (2 * x) + d
  BY <1>1
<1>3. d * (2 * m) < d * (2 * x + 1)
  BY <1>1, <1>2
<1>4. 2 * m < 2 * x + 1
  BY <1>1, <1>3, Cancel
<1> QED
  BY <1>1, <1>4 DEF x

\* ... and never rises above one that it does not exceed.
LEMMA RoundHigh ==
  ASSUME NEW n \in Int, NEW d \in Nat \ {0}, NEW m \in Int, n <= d * m
  PROVE  Round(n, d) <= m
<1> DEFINE x == Round(n, d)
<1>1. x \in Int /\ d * (2 * x) <= 2 * n + d
  BY RoundBounds
<1> HIDE DEF x
<1>2. d * (2 * m + 2) = 2 * (d * m) + 2 * d /\ d * (2 * x) \in Int
  BY <1>1
<1>3. d * (2 * x) < d * (2 * m + 2)
  BY <1>1, <1>2
<1>4. 2 * x < 2 * m + 2
  BY <1>1, <1>3, Cancel
<1> QED
  BY <1>1, <1>4 DEF x

\* A multiple of the unit is not changed by rounding.
LEMMA RoundExact ==
  ASSUME NEW k \in Int, NEW d \in Nat \ {0}
  PROVE  Round(d * k, d) = k
<1> DEFINE n == d * k
<1>1. n \in Int /\ d * k <= n /\ n <= d * k
  OBVIOUS
<1> HIDE DEF n
<1>2. k <= Round(n, d) /\ Round(n, d) <= k /\ Round(n, d) \in Int
  BY <1>1, RoundLow, RoundHigh, RoundBounds
<1> QED
  BY <1>2 DEF n

\* ... and a factor that is not negative may be put on.
LEMMA ScaleUp ==
  ASSUME NEW d \in Nat, NEW a \in Int, NEW b \in Int, d # 0 => a <= b
  PROVE  d * a <= d * b /\ d * a \in Int /\ d * b \in Int
<1>1. CASE d = 0
  BY <1>1
<1>2. CASE d # 0
  <2>1. PICK k \in Nat : b = a + k
    <3>1. b - a \in Nat /\ b = a + (b - a)
      BY <1>2
    <3> QED
      BY <3>1
  <2>2. d * b = d * a + d * k /\ d * k \in Nat /\ d * a \in Int
    BY <2>1
  <2> QED
    BY <2>2
<1> QED
  BY <1>1, <1>2

\* The sign of a product with a positive factor is that of the other factor.
LEMMA ProductPositive ==
  ASSUME NEW d \in Nat \ {0}, NEW n \in Int
  PROVE  d * n \in Int /\ (d * n > 0 <=> n > 0)
<1>1. CASE n > 0
  BY <1>1
<1>2. CASE n <= 0
  BY <1>2
<1> QED
  BY <1>1, <1>2

---------------------------------------------------------------------------
(* The book adds up.                                                       *)

\* Every quantity a caller may ask for is one that the quantity columns keep as it is.
ColumnsAreExact == \A q \in Quantities : Stored(q) = q

\* What each audit row and each order row contributes.
Flow == [a \in AuditRows |-> Ledger!AuditedFlow(a)]
Signed == [o \in OrderRows |-> Ledger!SignedQuantity(o)]

TickersOf(c) == {t \in Tickers : TickerCurrency(t) = c}
OrdersOf(t) == {o \in orders : o.ticker = t}

\* The parts of the invariant: a sum needs finitely many rows, a start seeds no account
\* that an audited order has used, and the sums themselves.
RowsFinite == IsFiniteSet(audit) /\ IsFiniteSet(orders)
AuditedInAccounts == \A a \in audit : TickerCurrency(a.ticker) \in accounts
CashAddsUp ==
  \A c \in accounts : cash[c] = SeedBalance[c] + Sum(Flow, Ledger!LiveAudit(TickersOf(c)))
QuantitiesAddUp ==
  \A t \in Tickers :
    /\ holdings[t].quantity = Sum(Signed, OrdersOf(t))
    /\ Stored(holdings[t].quantity) = holdings[t].quantity
    /\ holdings[t].row => holdings[t].quantity > 0

\* The first half of LedgerReconciles, which needs nothing of the columns.
CashReconciles ==
  \A c \in accounts :
    cash[c] = SeedBalance[c]
      + Ledger!MapThenSumSet(Ledger!AuditedFlow,
          Ledger!LiveAudit({t \in Tickers : Ledger!TickerCurrency(t) = c}))

BookInv ==
  /\ RowsFinite
  /\ AuditedInAccounts
  /\ CashAddsUp
  /\ ColumnsAreExact => QuantitiesAddUp

\* Flows and signed quantities are integers.
LEMMA FlowTypes == Flow \in [AuditRows -> Int] /\ Signed \in [OrderRows -> Int]
<1>1. \A a \in AuditRows : Ledger!AuditedFlow(a) \in Int
  BY DEF AuditRows, Ledger!AuditedFlow
<1>2. \A o \in OrderRows : Ledger!SignedQuantity(o) \in Int
  BY DEF OrderRows, Ledger!SignedQuantity
<1> QED
  BY <1>1, <1>2 DEF Flow, Signed

\* The sum of nothing.
LEMMA EmptySum == \A w : Sum(w, {}) = 0
BY SumStep, FS_EmptySet

\* Exact quantities stay exact under addition and subtraction.
LEMMA StoredSums ==
  ASSUME NEW p \in Int, NEW q \in Int, Stored(p) = p, Stored(q) = q
  PROVE  Stored(p + q) = p + q /\ Stored(p - q) = p - q
<1> DEFINE i == Round(p, Grain)
           j == Round(q, Grain)
<1>1. Grain \in Nat \ {0}
  BY UnitAssumption
<1>2. i \in Int /\ j \in Int
  BY <1>1, RoundBounds
<1>3. p = Grain * i /\ q = Grain * j
  BY DEF Stored
<1> HIDE DEF i, j
<1>4. p + q = Grain * (i + j) /\ p - q = Grain * (i - j)
  BY <1>1, <1>2, <1>3
<1>5. Round(Grain * (i + j), Grain) = i + j /\ Round(Grain * (i - j), Grain) = i - j
  BY <1>1, <1>2, RoundExact
<1>6. Stored(Grain * (i + j)) = Grain * (i + j) /\ Stored(Grain * (i - j)) = Grain * (i - j)
  BY <1>5 DEF Stored
<1> QED
  BY <1>4, <1>6

\* The column keeps zero.
LEMMA StoredZero == Stored(0) = 0
<1>1. Round(Grain * 0, Grain) = 0 /\ Grain * 0 = 0
  BY UnitAssumption, RoundExact
<1> QED
  BY <1>1 DEF Stored

\* What the ledger's Fill does, told with the broker's arithmetic.
LEMMA FillFacts ==
  ASSUME TransactionsIsolated, NEW r \in Requests, NEW id \in OrderIds, Ledger!Fill(r, id)
  PROVE  /\ WellFormed(r) /\ TickerCurrency(r.ticker) \in accounts
         /\ \A a \in audit : a.order_id # id
         /\ \A o \in orders : o.order_id # id
         /\ Affordable(r, cash[TickerCurrency(r.ticker)], holdings[r.ticker])
         /\ cash' = [cash EXCEPT ![TickerCurrency(r.ticker)] = @ + CashFlow(r)]
         /\ holdings' = [holdings EXCEPT ![r.ticker] = HoldingAfter(r, holdings[r.ticker])]
         /\ orders' = orders \cup {OrderRow(r, id)}
         /\ audit' = audit \cup {AuditRow(r, id)}
         /\ accounts' = accounts
<1>1. \A o \in orders : \E a \in audit : a.order_id = o.order_id
  BY DEF TransactionsIsolated, FillsAreAudited
<1>2. \A a \in audit : a.order_id # id
  BY DEF Ledger!Fill
<1> QED
  BY <1>1, <1>2, SameArithmetic DEF Ledger!Fill

\* Of a row that is added, only the new order is added to what is live.
LEMMA LiveAfterFill ==
  ASSUME TransactionsIsolated, NEW r \in Requests, NEW id \in OrderIds, Ledger!Fill(r, id),
         NEW T
  PROVE  Ledger!LiveAudit(T)' =
           Ledger!LiveAudit(T) \cup (IF r.ticker \in T THEN {AuditRow(r, id)} ELSE {})
<1> DEFINE A == AuditRow(r, id)
           O == OrderRow(r, id)
<1>1. A.order_id = id /\ A.ticker = r.ticker /\ O.order_id = id
  BY DEF AuditRow, OrderRow
<1>2. /\ orders' = orders \cup {O} /\ audit' = audit \cup {A}
      /\ \A a \in audit : a.order_id # id
      /\ \A o \in orders : o.order_id # id
  BY FillFacts
<1> HIDE DEF A, O
<1>3. Ledger!LiveAudit(T)' =
        {a \in audit' : a.ticker \in T /\ \E o \in orders' : o.order_id = a.order_id}
  BY DEF Ledger!LiveAudit
<1>4. Ledger!LiveAudit(T) =
        {a \in audit : a.ticker \in T /\ \E o \in orders : o.order_id = a.order_id}
  BY DEF Ledger!LiveAudit
<1>5. Ledger!LiveAudit(T)' = Ledger!LiveAudit(T) \cup (IF r.ticker \in T THEN {A} ELSE {})
  BY <1>1, <1>2, <1>3, <1>4
<1> QED
  BY <1>5 DEF A

\* Before the first start the book is empty, and adds up.
LEMMA BookInit == Init => BookInv
<1> SUFFICES ASSUME Init PROVE BookInv
  OBVIOUS
<1>1. /\ accounts = {} /\ orders = {} /\ audit = {}
      /\ holdings = [t \in Tickers |-> NoHolding]
  BY SameArithmetic DEF Init, Ledger!Init
<1>2. RowsFinite /\ AuditedInAccounts /\ CashAddsUp
  BY <1>1, FS_EmptySet DEF RowsFinite, AuditedInAccounts, CashAddsUp
<1>3. QuantitiesAddUp
  BY <1>1, EmptySum, StoredZero DEF QuantitiesAddUp, OrdersOf, NoHolding
<1> QED
  BY <1>2, <1>3 DEF BookInv

\* A fill moves the balance by what its audit row says and the holding by what its
\* order row says.
LEMMA BookFill ==
  ASSUME TransactionsIsolated, BookInv,
         NEW r \in Requests, NEW id \in OrderIds, Ledger!Fill(r, id)
  PROVE  BookInv'
<1> DEFINE A == AuditRow(r, id)
           O == OrderRow(r, id)
           k == TickerCurrency(r.ticker)
           h == holdings[r.ticker]
<1>1. TypeOK /\ Bookkeeping /\ RowsFinite /\ AuditedInAccounts /\ CashAddsUp
      /\ (ColumnsAreExact => QuantitiesAddUp)
  BY DEF TransactionsIsolated, BookInv
<1>2. /\ WellFormed(r) /\ k \in accounts
      /\ \A a \in audit : a.order_id # id
      /\ \A o \in orders : o.order_id # id
      /\ Affordable(r, cash[k], h)
      /\ cash' = [cash EXCEPT ![k] = @ + CashFlow(r)]
      /\ holdings' = [holdings EXCEPT ![r.ticker] = HoldingAfter(r, h)]
      /\ orders' = orders \cup {O}
      /\ audit' = audit \cup {A}
      /\ accounts' = accounts
  BY FillFacts
<1>3. A \in AuditRows /\ O \in OrderRows
  BY <1>2, RowTypes
<1>4. /\ A.order_id = id /\ A.ticker = r.ticker /\ Ledger!AuditedFlow(A) = CashFlow(r)
      /\ O.order_id = id /\ O.ticker = r.ticker
      /\ O.side = r.side /\ O.quantity = Stored(r.quantity)
  BY NotionalNat, CommissionBounds, <1>2
  DEF AuditRow, OrderRow, Ledger!AuditedFlow, CashFlow, TotalDebit, NetProceeds
<1>5. r.ticker \in Tickers /\ r.quantity \in Nat \ {0} /\ r.side \in Sides
      /\ (ColumnsAreExact => Stored(r.quantity) = r.quantity)
  <2>1. r.quantity \in Quantities
    BY DEF Requests
  <2> QED
    BY <1>2, <2>1, RequestTypes DEF ColumnsAreExact
<1>6. /\ audit \subseteq AuditRows /\ orders \subseteq OrderRows /\ accounts \subseteq Currencies
      /\ cash \in [Currencies -> Int] /\ holdings \in [Tickers -> Holding]
  BY <1>1 DEF TypeOK
<1> HIDE DEF A, O
<1>7. RowsFinite'
  BY <1>1, <1>2, FS_AddElement DEF RowsFinite
<1>8. AuditedInAccounts'
  BY <1>1, <1>2, <1>4 DEF AuditedInAccounts
<1>9. CashAddsUp'
  <2> SUFFICES ASSUME NEW c \in accounts'
               PROVE  cash'[c] = SeedBalance[c] + Sum(Flow, Ledger!LiveAudit(TickersOf(c))')
    BY DEF CashAddsUp
  <2> DEFINE L == Ledger!LiveAudit(TickersOf(c))
  <2>1. L' = L \cup (IF r.ticker \in TickersOf(c) THEN {A} ELSE {})
    BY LiveAfterFill DEF A
  <2>2. L \subseteq audit
    BY DEF Ledger!LiveAudit
  <2>3. IsFiniteSet(L) /\ L \subseteq AuditRows /\ A \notin L
    BY <1>1, <1>2, <1>4, <1>6, <2>2, FS_Subset DEF RowsFinite
  <2>4. r.ticker \in TickersOf(c) <=> c = k
    BY <1>5 DEF TickersOf
  <2>5. cash[c] = SeedBalance[c] + Sum(Flow, L) /\ c \in Currencies
    BY <1>1, <1>2, <1>6 DEF CashAddsUp
  <2>6. CASE c = k
    <3>1. L' = L \cup {A}
      BY <2>1, <2>4, <2>6
    <3> HIDE DEF L
    <3>2. Sum(Flow, L \cup {A}) = Sum(Flow, L) + Flow[A] /\ Sum(Flow, L) \in Int
      BY <1>3, <2>3, FlowTypes, SumInsert, SumType
    <3>3. Flow[A] = CashFlow(r) /\ Flow[A] \in Int
      BY <1>3, <1>4, FlowTypes DEF Flow
    <3>4. cash'[c] = cash[c] + CashFlow(r)
      BY <1>2, <1>6, <2>5, <2>6
    <3>5. SeedBalance[c] \in Int
      BY <2>5, SeedAssumption
    <3> QED
      BY <2>5, <3>1, <3>2, <3>3, <3>4, <3>5 DEF L
  <2>7. CASE c # k
    <3>1. L' = L
      BY <2>1, <2>4, <2>7
    <3>2. cash'[c] = cash[c]
      BY <1>2, <1>6, <2>5, <2>7
    <3> QED
      BY <2>5, <3>1, <3>2
  <2> QED
    BY <2>6, <2>7
<1>10. ASSUME ColumnsAreExact
       PROVE  /\ HoldingAfter(r, h).quantity = h.quantity + Ledger!SignedQuantity(O)
              /\ Stored(HoldingAfter(r, h).quantity) = HoldingAfter(r, h).quantity
              /\ HoldingAfter(r, h).row => HoldingAfter(r, h).quantity > 0
  <2>0. Stored(r.quantity) = r.quantity
    BY <1>5, <1>10
  <2>1. h.quantity \in Nat /\ Stored(h.quantity) = h.quantity
    BY <1>1, <1>5, <1>6, <1>10 DEF QuantitiesAddUp, Holding
  <2>2. /\ Stored(h.quantity + r.quantity) = h.quantity + r.quantity
        /\ Stored(h.quantity - r.quantity) = h.quantity - r.quantity
    <3>1. h.quantity \in Int /\ r.quantity \in Int
      BY <1>5, <2>1
    <3> QED
      BY <2>0, <2>1, <3>1, StoredSums
  <2>3. CASE r.side = "BUY"
    <3>1. HoldingAfter(r, h).quantity = Stored(h.quantity + r.quantity)
      BY <2>3 DEF HoldingAfter, Bought
    <3>2. Ledger!SignedQuantity(O) = r.quantity
      BY <1>4, <2>0, <2>3 DEF Ledger!SignedQuantity
    <3>3. h.quantity + r.quantity > 0
      BY <1>5, <2>1
    <3> QED
      BY <2>2, <3>1, <3>2, <3>3
  <2>4. CASE r.side = "SELL" /\ h.quantity - r.quantity <= 0
    <3>1. h.quantity = r.quantity
      BY <1>2, <1>5, <2>1, <2>4 DEF Affordable
    <3>2. HoldingAfter(r, h).quantity = 0 /\ ~HoldingAfter(r, h).row
      BY <2>4 DEF HoldingAfter, Sold, NoHolding
    <3>3. Ledger!SignedQuantity(O) = -r.quantity
      BY <1>4, <1>5, <2>0, <2>4 DEF Ledger!SignedQuantity
    <3>4. h.quantity - r.quantity = 0
      BY <1>5, <2>0, <2>1, <3>1
    <3> QED
      BY <1>5, <2>0, <2>1, <2>2, <3>1, <3>2, <3>3, <3>4
  <2>5. CASE r.side = "SELL" /\ ~(h.quantity - r.quantity <= 0)
    <3>1. HoldingAfter(r, h) = [h EXCEPT !.quantity = Stored(h.quantity - r.quantity)]
      BY <2>5 DEF HoldingAfter, Sold
    <3>2. h \in Holding
      BY <1>5, <2>0, <1>6
    <3>3. HoldingAfter(r, h).quantity = h.quantity - r.quantity
      BY <2>2, <3>1, <3>2 DEF Holding
    <3>4. Ledger!SignedQuantity(O) = -r.quantity
      BY <1>4, <1>5, <2>0, <2>5 DEF Ledger!SignedQuantity
    <3>5. h.quantity - r.quantity > 0 /\ h.quantity - r.quantity = h.quantity + (-r.quantity)
      BY <1>5, <2>1, <2>5
    <3> QED
      BY <2>2, <3>3, <3>4, <3>5
  <2> QED
    BY <1>5, <2>0, <2>3, <2>4, <2>5 DEF Sides
<1>11. ASSUME ColumnsAreExact PROVE QuantitiesAddUp'
  <2> SUFFICES ASSUME NEW t \in Tickers
               PROVE  /\ holdings'[t].quantity = Sum(Signed, OrdersOf(t)')
                      /\ Stored(holdings'[t].quantity) = holdings'[t].quantity
                      /\ holdings'[t].row => holdings'[t].quantity > 0
    BY DEF QuantitiesAddUp
  <2> DEFINE R == OrdersOf(t)
  <2>1. R' = R \cup (IF r.ticker = t THEN {O} ELSE {})
    BY <1>2, <1>4 DEF OrdersOf
  <2>2. R \subseteq orders
    BY DEF OrdersOf
  <2>3. IsFiniteSet(R) /\ R \subseteq OrderRows /\ O \notin R
    BY <1>1, <1>2, <1>4, <1>6, <2>2, FS_Subset DEF RowsFinite
  <2>4. /\ holdings[t].quantity = Sum(Signed, R)
        /\ Stored(holdings[t].quantity) = holdings[t].quantity
        /\ holdings[t].row => holdings[t].quantity > 0
    BY <1>1, <1>11 DEF QuantitiesAddUp
  <2> HIDE DEF R
  <2>5. CASE t = r.ticker
    <3>1. Sum(Signed, R \cup {O}) = Sum(Signed, R) + Signed[O]
      BY <1>3, <2>3, FlowTypes, SumInsert
    <3>2. Signed[O] = Ledger!SignedQuantity(O)
      BY <1>3 DEF Signed
    <3>3. holdings'[t] = HoldingAfter(r, h)
      BY <1>2, <1>6, <2>5
    <3> QED
      BY <1>10, <1>11, <2>1, <2>4, <2>5, <3>1, <3>2, <3>3 DEF R
  <2>6. CASE t # r.ticker
    <3>1. holdings'[t] = holdings[t] /\ R' = R
      BY <1>2, <1>6, <2>1, <2>6
    <3> QED
      BY <2>4, <3>1 DEF R
  <2> QED
    BY <2>5, <2>6
<1> QED
  BY <1>7, <1>8, <1>9, <1>11 DEF BookInv, ColumnsAreExact

\* A reset clears the orders whose flows it pays back.
LEMMA BookReset ==
  ASSUME TransactionsIsolated, BookInv, Ledger!Reset
  PROVE  BookInv'
<1>1. TypeOK /\ RowsFinite /\ AuditedInAccounts /\ CashAddsUp
      /\ (ColumnsAreExact => QuantitiesAddUp)
  BY DEF TransactionsIsolated, BookInv
<1>2. /\ cash' = [c \in Currencies |-> IF c \in accounts THEN SeedBalance[c] ELSE cash[c]]
      /\ holdings' = [t \in Tickers |-> NoHolding]
      /\ orders' = {} /\ accounts' = accounts /\ audit' = audit
  BY SameArithmetic DEF Ledger!Reset
<1>3. RowsFinite' /\ AuditedInAccounts'
  BY <1>1, <1>2, FS_EmptySet DEF RowsFinite, AuditedInAccounts
<1>4. CashAddsUp'
  <2> SUFFICES ASSUME NEW c \in accounts'
               PROVE  cash'[c] = SeedBalance[c] + Sum(Flow, Ledger!LiveAudit(TickersOf(c))')
    BY DEF CashAddsUp
  <2>1. Ledger!LiveAudit(TickersOf(c))' = {}
    BY <1>2 DEF Ledger!LiveAudit
  <2>2. Sum(Flow, Ledger!LiveAudit(TickersOf(c))') = 0
    BY <2>1, EmptySum
  <2>3. c \in Currencies /\ c \in accounts
    BY <1>1, <1>2 DEF TypeOK
  <2>4. cash'[c] = SeedBalance[c] /\ SeedBalance[c] \in Int
    BY <1>2, <2>3, SeedAssumption
  <2> QED
    BY <2>2, <2>4
<1>5. QuantitiesAddUp'
  <2>1. \A t : OrdersOf(t)' = {}
    BY <1>2 DEF OrdersOf
  <2>2. \A t : Sum(Signed, OrdersOf(t)') = 0
    BY <2>1, EmptySum
  <2> QED
    BY <1>2, <2>2, StoredZero DEF QuantitiesAddUp, NoHolding
<1> QED
  BY <1>3, <1>4, <1>5 DEF BookInv

\* A start seeds the accounts that are missing, which no order has touched.
LEMMA BookSeed ==
  ASSUME TransactionsIsolated, BookInv, Ledger!Seed
  PROVE  BookInv'
<1>1. TypeOK /\ RowsFinite /\ AuditedInAccounts /\ CashAddsUp
      /\ (ColumnsAreExact => QuantitiesAddUp)
  BY DEF TransactionsIsolated, BookInv
<1>2. /\ accounts' = Currencies
      /\ cash' = [c \in Currencies |-> IF c \in accounts THEN cash[c] ELSE SeedBalance[c]]
      /\ holdings' = holdings /\ orders' = orders /\ audit' = audit
  BY SameArithmetic DEF Ledger!Seed
<1>3. RowsFinite' /\ AuditedInAccounts'
  BY <1>1, <1>2, CurrencyType DEF RowsFinite, AuditedInAccounts
<1>4. CashAddsUp'
  <2> SUFFICES ASSUME NEW c \in Currencies
               PROVE  cash'[c] = SeedBalance[c] + Sum(Flow, Ledger!LiveAudit(TickersOf(c))')
    BY <1>2 DEF CashAddsUp
  <2> DEFINE L == Ledger!LiveAudit(TickersOf(c))
  <2>1. L' = L
    BY <1>2 DEF Ledger!LiveAudit
  <2>2. CASE c \in accounts
    BY <1>1, <1>2, <2>1, <2>2 DEF CashAddsUp
  <2>3. CASE c \notin accounts
    <3>1. L = {}
      BY <1>1, <2>3 DEF Ledger!LiveAudit, TickersOf, AuditedInAccounts
    <3>2. Sum(Flow, L') = 0
      BY <2>1, <3>1, EmptySum
    <3>3. cash'[c] = SeedBalance[c] /\ SeedBalance[c] \in Int
      BY <1>2, <2>3, SeedAssumption
    <3> QED
      BY <3>2, <3>3
  <2> QED
    BY <2>2, <2>3
<1>5. QuantitiesAddUp => QuantitiesAddUp'
  <2>1. \A t : OrdersOf(t)' = OrdersOf(t)
    BY <1>2 DEF OrdersOf
  <2> QED
    BY <1>2, <2>1 DEF QuantitiesAddUp
<1> QED
  BY <1>1, <1>3, <1>4, <1>5 DEF BookInv, ColumnsAreExact

\* The sum of LedgerReconciles over audit rows is this module's Sum.
LEMMA FlowSum ==
  ASSUME NEW S, IsFiniteSet(S), S \subseteq AuditRows
  PROVE  Ledger!MapThenSumSet(Ledger!AuditedFlow, S) = Sum(Flow, S)
<1> DEFINE P(g) == g = [s \in SUBSET S |->
                   IF s = {} THEN 0 ELSE LET x == CHOOSE x \in s : TRUE
                                         IN  Ledger!AuditedFlow(x) + g[s \ {x}]]
           it == CHOOSE g : P(g)
<1>1. Ledger!MapThenSumSet(Ledger!AuditedFlow, S) = it[S]
  BY DEF Ledger!MapThenSumSet, Ledger!MapThenFoldSet
<1>2. ASSUME NEW g
      PROVE  IsSum(g, Flow, S) <=> P(g)
  <2>1. \A s \in SUBSET S : s # {} => Flow[Chosen(s)] = Ledger!AuditedFlow(Chosen(s))
    <3> SUFFICES ASSUME NEW s \in SUBSET S, s # {}
                 PROVE  Flow[Chosen(s)] = Ledger!AuditedFlow(Chosen(s))
      OBVIOUS
    <3>1. Chosen(s) \in AuditRows
      BY ChosenIn
    <3> QED
      BY <3>1 DEF Flow
  <2> QED
    BY <2>1 DEF IsSum, Chosen
<1> HIDE DEF P
<1>3. PICK g : IsSum(g, Flow, S)
  BY SumExists
<1>4. P(it)
  BY <1>2, <1>3
<1>5. IsSum(it, Flow, S)
  BY <1>2, <1>4
<1> HIDE DEF it
<1>6. Sum(Flow, S) = (CHOOSE f : IsSum(f, Flow, S))[S] /\ IsSum(CHOOSE f : IsSum(f, Flow, S), Flow, S)
  BY <1>3 DEF Sum
<1> QED
  BY <1>1, <1>5, <1>6, SumUnique

\* The sum of LedgerReconciles over order rows is this module's Sum.
LEMMA SignedSum ==
  ASSUME NEW S, IsFiniteSet(S), S \subseteq OrderRows
  PROVE  Ledger!MapThenSumSet(Ledger!SignedQuantity, S) = Sum(Signed, S)
<1> DEFINE P(g) == g = [s \in SUBSET S |->
                   IF s = {} THEN 0 ELSE LET x == CHOOSE x \in s : TRUE
                                         IN  Ledger!SignedQuantity(x) + g[s \ {x}]]
           it == CHOOSE g : P(g)
<1>1. Ledger!MapThenSumSet(Ledger!SignedQuantity, S) = it[S]
  BY DEF Ledger!MapThenSumSet, Ledger!MapThenFoldSet
<1>2. ASSUME NEW g
      PROVE  IsSum(g, Signed, S) <=> P(g)
  <2>1. \A s \in SUBSET S : s # {} => Signed[Chosen(s)] = Ledger!SignedQuantity(Chosen(s))
    <3> SUFFICES ASSUME NEW s \in SUBSET S, s # {}
                 PROVE  Signed[Chosen(s)] = Ledger!SignedQuantity(Chosen(s))
      OBVIOUS
    <3>1. Chosen(s) \in OrderRows
      BY ChosenIn
    <3> QED
      BY <3>1 DEF Signed
  <2> QED
    BY <2>1 DEF IsSum, Chosen
<1> HIDE DEF P
<1>3. PICK g : IsSum(g, Signed, S)
  BY SumExists
<1>4. P(it)
  BY <1>2, <1>3
<1>5. IsSum(it, Signed, S)
  BY <1>2, <1>4
<1> HIDE DEF it
<1>6. Sum(Signed, S) = (CHOOSE f : IsSum(f, Signed, S))[S] /\ IsSum(CHOOSE f : IsSum(f, Signed, S), Signed, S)
  BY <1>3 DEF Sum
<1> QED
  BY <1>1, <1>5, <1>6, SumUnique

\* The invariant says what the properties say.
LEMMA BookReconciled ==
  ASSUME TransactionsIsolated, BookInv
  PROVE  CashReconciles /\ (ColumnsAreExact => BooksReconcile)
<1>1. /\ audit \subseteq AuditRows /\ orders \subseteq OrderRows
      /\ RowsFinite /\ CashAddsUp /\ (ColumnsAreExact => QuantitiesAddUp)
  BY DEF TransactionsIsolated, BookInv, TypeOK
<1>2. \A c : {t \in Tickers : Ledger!TickerCurrency(t) = c} = TickersOf(c)
  BY DEF TickersOf, Ledger!TickerCurrency, TickerCurrency
<1>3. ASSUME NEW c \in accounts
      PROVE  cash[c] = SeedBalance[c]
               + Ledger!MapThenSumSet(Ledger!AuditedFlow,
                   Ledger!LiveAudit({t \in Tickers : Ledger!TickerCurrency(t) = c}))
  <2> DEFINE L == Ledger!LiveAudit(TickersOf(c))
  <2>1. L \subseteq audit
    BY DEF Ledger!LiveAudit
  <2>2. IsFiniteSet(L) /\ L \subseteq AuditRows
    BY <1>1, <2>1, FS_Subset DEF RowsFinite
  <2>3. Ledger!MapThenSumSet(Ledger!AuditedFlow, L) = Sum(Flow, L)
    <3> HIDE DEF L
    <3> QED
      BY <2>2, FlowSum
  <2>4. cash[c] = SeedBalance[c] + Sum(Flow, L)
    BY <1>1 DEF CashAddsUp
  <2> QED
    BY <1>2, <2>3, <2>4
<1>4. ASSUME ColumnsAreExact, NEW t \in Tickers
      PROVE  holdings[t].quantity =
               Ledger!MapThenSumSet(Ledger!SignedQuantity, {o \in orders : o.ticker = t})
  <2> DEFINE R == OrdersOf(t)
  <2>1. R \subseteq orders
    BY DEF OrdersOf
  <2>2. IsFiniteSet(R) /\ R \subseteq OrderRows
    BY <1>1, <2>1, FS_Subset DEF RowsFinite
  <2>3. Ledger!MapThenSumSet(Ledger!SignedQuantity, R) = Sum(Signed, R)
    <3> HIDE DEF R
    <3> QED
      BY <2>2, SignedSum
  <2>4. holdings[t].quantity = Sum(Signed, R)
    BY <1>1, <1>4 DEF QuantitiesAddUp
  <2> QED
    BY <2>3, <2>4 DEF OrdersOf
<1> QED
  BY <1>3, <1>4 DEF CashReconciles, BooksReconcile, Ledger!LedgerReconciles

\* Every step of the broker keeps the book adding up.
LEMMA BookStep == TransactionsIsolated /\ BookInv /\ [Next]_vars => BookInv'
<1> SUFFICES ASSUME TransactionsIsolated, BookInv, [Next]_vars PROVE BookInv'
  OBVIOUS
<1>1. [Ledger!Next]_(Ledger!ledger)
  BY StepRefines
<1>2. ASSUME NEW r \in Ledger!Requests, NEW id \in OrderIds, Ledger!Fill(r, id)
      PROVE  BookInv'
  BY <1>2, SameArithmetic, BookFill
<1>3. CASE UNCHANGED Ledger!ledger
  <2>1. UNCHANGED <<accounts, cash, holdings, orders, audit>>
    BY <1>3 DEF Ledger!ledger
  <2> QED
    BY <2>1 DEF BookInv, RowsFinite, AuditedInAccounts, CashAddsUp, QuantitiesAddUp,
       ColumnsAreExact, OrdersOf, Ledger!LiveAudit
<1> QED
  BY <1>1, <1>2, <1>3, BookSeed, BookReset DEF Ledger!Next

\* The book adds up in every reachable state.
LEMMA BookKept == Spec => []BookInv
BY BookInit, BookStep, Isolation, PTL DEF Spec

\* Whatever the grain of the quantity columns, each cash balance is the seed balance
\* plus the audited flows of the orders placed since the last reset.
THEOREM CashAlwaysReconciles == Spec => []CashReconciles
<1>1. TransactionsIsolated /\ BookInv => CashReconciles
  BY BookReconciled
<1> QED
  BY <1>1, BookKept, Isolation, PTL

\* With quantities the columns keep exactly, holdings add up to their orders as well.
THEOREM BooksAlwaysReconcile == ColumnsAreExact => (Spec => []BooksReconcile)
<1>1. ASSUME ColumnsAreExact PROVE Spec => []BooksReconcile
  <2>1. TransactionsIsolated /\ BookInv => BooksReconcile
    BY <1>1, BookReconciled
  <2> QED
    BY <2>1, BookKept, Isolation, PTL
<1> QED
  BY <1>1

\* With such quantities no row of quantity zero is left behind by a SELL.
THEOREM RowsHoldShares == ColumnsAreExact => (Spec => []Ledger!NoEmptyHolding)
<1>1. ASSUME ColumnsAreExact PROVE Spec => []Ledger!NoEmptyHolding
  <2>1. BookInv => Ledger!NoEmptyHolding
    BY <1>1 DEF BookInv, QuantitiesAddUp, Ledger!NoEmptyHolding
  <2> QED
    BY <2>1, BookKept, PTL
<1> QED
  BY <1>1

---------------------------------------------------------------------------
(* A position is carried at a cost between its fills.                      *)

\* Every quantity a caller may ask for is a whole number of shares.
WholeShares == \A q \in Quantities : \E n \in Int : q = QtyUnit * n

\* A fill price rounded down and up to the cents the column keeps.
Floor(p) == p \div 100
Ceiling(p) == (p + 99) \div 100

\* A whole number of shares costs between that many floors and that many
\* ceilings of its fill price.
LEMMA NotionalBounds ==
  ASSUME NEW r \in Requests, WellFormed(r), NEW n \in Nat \ {0}, r.quantity = QtyUnit * n
  PROVE  /\ n * Floor(FillPrice(r)) <= Notional(r)
         /\ Notional(r) <= n * Ceiling(FillPrice(r))
<1> DEFINE p == FillPrice(r)
           D == 100 * QtyUnit
           N == (QtyUnit * n) * p
           lo == n * Floor(p)
           hi == n * Ceiling(p)
<1>1. p \in Nat /\ QtyUnit \in Nat \ {0}
  BY FillPriceNat, UnitAssumption
<1>2. Notional(r) = Round(N, D)
  BY DEF Notional
<1> HIDE DEF p
<1>3. /\ Floor(p) \in Int /\ 100 * Floor(p) <= p
      /\ Ceiling(p) \in Int /\ p <= 100 * Ceiling(p)
  BY <1>1 DEF Floor, Ceiling
<1>4. N \in Int /\ D \in Nat \ {0} /\ lo \in Int /\ hi \in Int
  BY <1>1, <1>3
<1> DEFINE m == QtyUnit * n
<1>5. m \in Nat /\ D * lo = m * (100 * Floor(p)) /\ D * hi = m * (100 * Ceiling(p))
  BY <1>1, <1>3
<1>6. D * lo <= N /\ N <= D * hi
  <2> DEFINE f == 100 * Floor(p)
             g == 100 * Ceiling(p)
  <2>1. f \in Int /\ g \in Int /\ f <= p /\ p <= g
    BY <1>3
  <2> HIDE DEF m, f, g
  <2>2. m * f <= m * p /\ m * p <= m * g
    BY <1>1, <1>5, <2>1, ScaleUp
  <2> QED
    BY <1>5, <2>2 DEF f, g, m
<1> HIDE DEF N, D, lo, hi
<1>7. lo <= Round(N, D) /\ Round(N, D) <= hi
  BY <1>4, <1>6, RoundLow, RoundHigh
<1> QED
  BY <1>2, <1>7 DEF lo, hi, p

\* A weighted average is not below a bound both of its parts respect ...
LEMMA AverageLow ==
  ASSUME NEW q \in Nat, NEW a \in Int, NEW n \in Nat \ {0}, NEW N \in Int, NEW m \in Int,
         q # 0 => m <= a, n * m <= N
  PROVE  m <= Round(q * a + N * QtyUnit, q + QtyUnit * n)
<1> DEFINE d == q + QtyUnit * n
           paid == q * a + N * QtyUnit
<1>1. QtyUnit \in Nat \ {0} /\ d \in Nat \ {0} /\ paid \in Int
  BY UnitAssumption, ProductPositive
<1>2. q * m <= q * a
  BY ScaleUp
<1>3. QtyUnit * (n * m) <= QtyUnit * N
  <2> DEFINE x == n * m
  <2>1. x \in Int /\ x <= N
    OBVIOUS
  <2> HIDE DEF x
  <2>2. QtyUnit * x <= QtyUnit * N
    BY <1>1, <2>1, ScaleUp
  <2> QED
    BY <2>2 DEF x
<1>4. d * m = q * m + QtyUnit * (n * m)
  BY <1>1
<1>5. d * m <= paid
  BY <1>1, <1>2, <1>3, <1>4
<1> HIDE DEF d, paid
<1>6. m <= Round(paid, d)
  BY <1>1, <1>5, RoundLow
<1> QED
  BY <1>6 DEF d, paid

\* ... and not above one.
LEMMA AverageHigh ==
  ASSUME NEW q \in Nat, NEW a \in Int, NEW n \in Nat \ {0}, NEW N \in Int, NEW m \in Int,
         q # 0 => a <= m, N <= n * m
  PROVE  Round(q * a + N * QtyUnit, q + QtyUnit * n) <= m
<1> DEFINE d == q + QtyUnit * n
           paid == q * a + N * QtyUnit
<1>1. QtyUnit \in Nat \ {0} /\ d \in Nat \ {0} /\ paid \in Int
  BY UnitAssumption, ProductPositive
<1>2. q * a <= q * m
  BY ScaleUp
<1>3. QtyUnit * N <= QtyUnit * (n * m)
  <2> DEFINE x == n * m
  <2>1. x \in Int /\ N <= x
    OBVIOUS
  <2> HIDE DEF x
  <2>2. QtyUnit * N <= QtyUnit * x
    BY <1>1, <2>1, ScaleUp
  <2> QED
    BY <2>2 DEF x
<1>4. d * m = q * m + QtyUnit * (n * m)
  BY <1>1
<1>5. paid <= d * m
  BY <1>1, <1>2, <1>3, <1>4
<1> HIDE DEF d, paid
<1>6. Round(paid, d) <= m
  BY <1>1, <1>5, RoundHigh
<1> QED
  BY <1>6 DEF d, paid

\* The fill prices of the BUY orders on t since the last reset.
BuyPrices(t) == {a.fill_price : a \in {b \in Ledger!LiveAudit({t}) : b.side = "BUY"}}

\* A fill on t only ever adds to the BUY fills of t.
LEMMA PricesAfterFill ==
  ASSUME TransactionsIsolated, NEW r \in Requests, NEW id \in OrderIds, Ledger!Fill(r, id),
         NEW t
  PROVE  /\ BuyPrices(t) \subseteq BuyPrices(t)'
         /\ r.ticker = t /\ r.side = "BUY" => FillPrice(r) \in BuyPrices(t)'
<1> DEFINE A == AuditRow(r, id)
           L == Ledger!LiveAudit({t})
<1>1. A.side = r.side /\ A.fill_price = FillPrice(r)
  BY DEF AuditRow
<1>2. L' = L \cup (IF r.ticker \in {t} THEN {A} ELSE {})
  BY LiveAfterFill
<1>3. /\ BuyPrices(t) = {a.fill_price : a \in {b \in L : b.side = "BUY"}}
      /\ BuyPrices(t)' = {a.fill_price : a \in {b \in L' : b.side = "BUY"}}
  BY DEF BuyPrices
<1> HIDE DEF A, L
<1>4. BuyPrices(t) \subseteq BuyPrices(t)'
  BY <1>2, <1>3
<1>5. ASSUME r.ticker = t, r.side = "BUY" PROVE FillPrice(r) \in BuyPrices(t)'
  <2>1. A \in L'
    BY <1>2, <1>5
  <2> QED
    BY <1>1, <1>3, <1>5, <2>1
<1> QED
  BY <1>4, <1>5

\* A fill keeps the cost of every ticker within its BUY fills.
LEMMA CostFill ==
  ASSUME WholeShares, TransactionsIsolated, CostWithinFills,
         NEW r \in Requests, NEW id \in OrderIds, Ledger!Fill(r, id)
  PROVE  CostWithinFills'
<1> SUFFICES ASSUME NEW t \in Tickers, holdings'[t].row
             PROVE  /\ \E p \in BuyPrices(t)' : Floor(p) <= holdings'[t].avg_cost
                    /\ \E p \in BuyPrices(t)' : holdings'[t].avg_cost <= Ceiling(p)
  BY DEF CostWithinFills, Ledger!AvgCostWithinFills, BuyPrices, Floor, Ceiling
<1> DEFINE k == TickerCurrency(r.ticker)
           h == holdings[t]
           fp == FillPrice(r)
<1>1. TypeOK /\ Bookkeeping
  BY DEF TransactionsIsolated
<1>2. /\ WellFormed(r)
      /\ Affordable(r, cash[k], holdings[r.ticker])
      /\ holdings' = [holdings EXCEPT ![r.ticker] = HoldingAfter(r, holdings[r.ticker])]
  BY FillFacts
<1>3. /\ r.ticker \in Tickers /\ r.side \in Sides /\ r.quantity \in Nat \ {0}
      /\ fp \in Nat /\ Notional(r) \in Nat
  BY <1>2, RequestTypes, FillPriceNat, NotionalNat
<1>4. /\ holdings \in [Tickers -> Holding] /\ h \in Holding
      /\ h.quantity \in Nat /\ h.avg_cost \in Nat
      /\ ~h.row => h = NoHolding
  BY <1>1 DEF TypeOK, Holding, Bookkeeping
<1>5. h.row => /\ \E p \in BuyPrices(t) : Floor(p) <= h.avg_cost
               /\ \E p \in BuyPrices(t) : h.avg_cost <= Ceiling(p)
  BY DEF CostWithinFills, Ledger!AvgCostWithinFills, BuyPrices, Floor, Ceiling
<1>6. BuyPrices(t) \subseteq BuyPrices(t)'
  BY PricesAfterFill
<1>7. CASE r.ticker # t
  BY <1>2, <1>4, <1>5, <1>6, <1>7
<1>8. CASE r.ticker = t /\ r.side = "SELL"
  <2>1. holdings'[t] = Sold(r, h)
    BY <1>2, <1>3, <1>4, <1>8 DEF HoldingAfter
  <2>2. holdings'[t] # NoHolding
    BY DEF NoHolding
  <2>3. holdings'[t] = [h EXCEPT !.quantity = Stored(h.quantity - r.quantity)]
    BY <2>1, <2>2 DEF Sold
  <2>4. h.row /\ holdings'[t].avg_cost = h.avg_cost
    BY <1>4, <2>3 DEF Holding
  <2> QED
    BY <1>5, <1>6, <2>4
<1>9. CASE r.ticker = t /\ r.side = "BUY"
  <2> DEFINE avg == Round(h.quantity * h.avg_cost + Notional(r) * QtyUnit, h.quantity + r.quantity)
  <2>1. holdings'[t].avg_cost = avg
    BY <1>2, <1>3, <1>4, <1>9 DEF HoldingAfter, Bought
  <2>2. fp \in BuyPrices(t)'
    BY <1>9, PricesAfterFill
  <2>3. PICK n \in Nat \ {0} : r.quantity = QtyUnit * n
    <3>1. r.quantity \in Quantities
      BY DEF Requests
    <3>2. PICK n \in Int : r.quantity = QtyUnit * n
      BY <3>1 DEF WholeShares
    <3>3. n > 0
      BY <1>3, <3>2, UnitAssumption, ProductPositive
    <3> QED
      BY <3>2, <3>3
  <2>4. /\ n * Floor(fp) <= Notional(r) /\ Notional(r) <= n * Ceiling(fp)
        /\ Floor(fp) \in Int /\ Ceiling(fp) \in Int
    BY <1>2, <1>3, <2>3, NotionalBounds DEF Floor, Ceiling
  <2> HIDE DEF fp, h
  <2>5. ASSUME NEW m \in Int, h.quantity # 0 => m <= h.avg_cost, m <= Floor(fp)
        PROVE  m <= avg
    <3>1. n * m <= n * Floor(fp) /\ n * Floor(fp) \in Int /\ n * m \in Int
      BY <2>4, <2>5, ScaleUp
    <3>2. n * m <= Notional(r)
      BY <1>3, <2>4, <3>1
    <3> DEFINE q == h.quantity
               a == h.avg_cost
               N == Notional(r)
    <3>3. q \in Nat /\ a \in Int /\ N \in Int /\ (q # 0 => m <= a) /\ n * m <= N
      BY <1>3, <1>4, <2>5, <3>2
    <3>4. avg = Round(q * a + N * QtyUnit, q + QtyUnit * n)
      BY <2>3
    <3> HIDE DEF q, a, N, avg
    <3> QED
      BY <3>3, <3>4, AverageLow
  <2>6. ASSUME NEW m \in Int, h.quantity # 0 => h.avg_cost <= m, Ceiling(fp) <= m
        PROVE  avg <= m
    <3>1. n * Ceiling(fp) <= n * m /\ n * Ceiling(fp) \in Int /\ n * m \in Int
      BY <2>4, <2>6, ScaleUp
    <3>2. Notional(r) <= n * m
      BY <1>3, <2>4, <3>1
    <3> DEFINE q == h.quantity
               a == h.avg_cost
               N == Notional(r)
    <3>3. q \in Nat /\ a \in Int /\ N \in Int /\ (q # 0 => a <= m) /\ N <= n * m
      BY <1>3, <1>4, <2>6, <3>2
    <3>4. avg = Round(q * a + N * QtyUnit, q + QtyUnit * n)
      BY <2>3
    <3> HIDE DEF q, a, N, avg
    <3> QED
      BY <3>3, <3>4, AverageHigh
  <2>7. h.quantity = 0 \/ h.row
    BY <1>4 DEF NoHolding
  <2>8. BuyPrices(t) \subseteq Int
    BY <1>1 DEF TypeOK, BuyPrices, Ledger!LiveAudit, AuditRows
  <2>9. \E p \in BuyPrices(t)' : Floor(p) <= avg
    <3>1. CASE h.quantity = 0
      BY <2>2, <2>4, <2>5, <3>1
    <3>2. CASE h.quantity # 0
      <4>1. PICK p \in BuyPrices(t) : Floor(p) <= h.avg_cost
        BY <1>5, <2>7, <3>2
      <4>2. Floor(p) \in Int
        BY <2>8 DEF Floor
      <4>3. CASE Floor(p) <= Floor(fp)
        BY <1>6, <2>5, <4>1, <4>2, <4>3
      <4>4. CASE Floor(fp) <= Floor(p)
        <5>1. Floor(fp) <= h.avg_cost
          BY <1>4, <2>4, <4>1, <4>2, <4>4
        <5> QED
          BY <2>2, <2>4, <2>5, <5>1
      <4> QED
        BY <2>4, <4>2, <4>3, <4>4
    <3> QED
      BY <3>1, <3>2
  <2>10. \E p \in BuyPrices(t)' : avg <= Ceiling(p)
    <3>1. CASE h.quantity = 0
      BY <2>2, <2>4, <2>6, <3>1
    <3>2. CASE h.quantity # 0
      <4>1. PICK p \in BuyPrices(t) : h.avg_cost <= Ceiling(p)
        BY <1>5, <2>7, <3>2
      <4>2. Ceiling(p) \in Int
        BY <2>8 DEF Ceiling
      <4>3. CASE Ceiling(fp) <= Ceiling(p)
        BY <1>6, <2>6, <4>1, <4>2, <4>3
      <4>4. CASE Ceiling(p) <= Ceiling(fp)
        <5>1. h.avg_cost <= Ceiling(fp)
          BY <1>4, <2>4, <4>1, <4>2, <4>4
        <5> QED
          BY <2>2, <2>4, <2>6, <5>1
      <4> QED
        BY <2>4, <4>2, <4>3, <4>4
    <3> QED
      BY <3>1, <3>2
  <2> HIDE DEF avg
  <2> QED
    BY <2>1, <2>9, <2>10
<1> QED
  BY <1>3, <1>7, <1>8, <1>9 DEF Sides

\* Every step of the broker does.
LEMMA CostStep ==
  ASSUME WholeShares, TransactionsIsolated, CostWithinFills, [Next]_vars
  PROVE  CostWithinFills'
<1> USE DEF CostWithinFills, Ledger!AvgCostWithinFills
<1>1. [Ledger!Next]_(Ledger!ledger)
  BY StepRefines
<1>2. ASSUME NEW r \in Ledger!Requests, NEW id \in OrderIds, Ledger!Fill(r, id)
      PROVE  CostWithinFills'
  BY <1>2, SameArithmetic, CostFill
<1>3. CASE UNCHANGED Ledger!ledger
  <2>1. UNCHANGED <<holdings, orders, audit>>
    BY <1>3 DEF Ledger!ledger
  <2> QED
    BY <2>1 DEF Ledger!LiveAudit
<1>4. CASE Ledger!Seed
  <2>1. UNCHANGED <<holdings, orders, audit>>
    BY <1>4 DEF Ledger!Seed
  <2> QED
    BY <2>1 DEF Ledger!LiveAudit
<1>5. CASE Ledger!Reset
  <2>1. \A t \in Tickers : ~holdings'[t].row
    BY <1>5 DEF Ledger!Reset, Ledger!NoHolding
  <2> QED
    BY <2>1
<1> QED
  BY <1>1, <1>2, <1>3, <1>4, <1>5 DEF Ledger!Next

\* Orders for whole shares leave each position at an average cost between its cheapest
\* and its dearest BUY fill since the last reset, whatever runs at the same time.
THEOREM CostStaysWithinFills == WholeShares => (Spec => []CostWithinFills)
<1>1. Init => CostWithinFills
  BY DEF Init, Ledger!Init, Ledger!NoHolding, CostWithinFills, Ledger!AvgCostWithinFills
<1>2. ASSUME WholeShares PROVE Spec => []CostWithinFills
  <2>1. TransactionsIsolated /\ CostWithinFills /\ [Next]_vars => CostWithinFills'
    BY <1>2, CostStep
  <2> QED
    BY <1>1, <2>1, Isolation, PTL DEF Spec
<1> QED
  BY <1>2
=============================================================================

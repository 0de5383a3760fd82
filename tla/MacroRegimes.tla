----------------------------- MODULE MacroRegimes -----------------------------
(***************************************************************************)
(* The secondary API's macro stores and everything that writes or reads    *)
(* them: the start-up seeder and the hourly refresh (apps/api/main.py and  *)
(* startup_seeder.py), the snapshot and regime services, and the regimes,  *)
(* signals and explanations routers.                                       *)
(*                                                                         *)
(* Stores live in memory, one process, one event loop: a service call does *)
(* not suspend.  The seeder suspends once, while a thread reads the        *)
(* database; midnight, requests and other callers fall in that gap.        *)
(***************************************************************************)
EXTENDS RegimeSignals

CONSTANTS Feeds,      \* what a caller of the services may hand over: sequences of
                      \* [ind, age, value, lag], age in days before the as-of date
          Readings,   \* what the seeder's query may return: functions from a
                      \* subset of the series it asks for to values
          MaxDay, MaxSnapshots, MaxRegimes, MaxRuns

ASSUME MaxDayAssumption == MaxDay \in Nat \ {0}

VARIABLES day,        \* date.today()
          seeder,     \* [phase, target, force]: "down", "fetching", "sleeping", "off"
          snapshots,  \* the snapshot store, in insertion order
          regimes,    \* the regime store, in insertion order
          explained   \* the explanation store: explanation id -> explanation

macroVars == <<day, seeder, snapshots, regimes, explained>>

Days == 1..MaxDay
Serving == seeder.phase = "sleeping" \/ seeder.phase = "off" \/ seeder.force
\* the series the seeder knows: neither PMI nor retail sales is among them
SeriesToIndicator == {"inflation", "unemployment", "yield_10y"}

-----------------------------------------------------------------------------
(* The stores *)

\* max() over as_of_date keeps the first inserted of the latest date
LatestOnOrBefore(store, d) ==
  LET upto == {k \in DOMAIN store : store[k].on <= d}
      newest == {k \in upto : \A j \in upto : store[j].on <= store[k].on}
  IN IF upto = {} THEN Nil ELSE store[Min(newest)]

\* list_recent sorts by date, then by the time of creation, newest first
ListRecent(store, d, limit) ==
  LET upto == {k \in DOMAIN store : store[k].on <= d}
      Later(k, j) == \/ store[k].on > store[j].on
                     \/ store[k].on = store[j].on /\ k > j
      order == SetToSortSeq(upto, Later)
  IN [n \in 1..(IF Len(order) < limit THEN Len(order) ELSE limit) |-> store[order[n]]]

\* GET /api/regimes/latest, /compare and /history (their 404s are Nil)
LatestRegime(d) == LatestOnOrBefore(regimes, d)
ComparePair(d) ==
  LET current == LatestRegime(d) IN
  IF current = Nil THEN Nil
  ELSE <<current, LatestOnOrBefore(regimes, current.on - 1)>>
CompareResponse(d) ==
  LET pair == ComparePair(d) IN
  IF pair = Nil THEN Nil
  ELSE [baseline |-> pair[2] # Nil, changed |-> pair[1].transition.changed,
        type |-> pair[1].transition.type,
        delta |-> IF pair[2] = Nil THEN Nil ELSE DetectRegimeChange(pair[1], pair[2])]
HistoryRecord(r) ==
  [id |-> r.id, on |-> r.on, label |-> r.label, confidence |-> r.confidence,
   transition |-> r.transition, warnings |-> r.warnings, seeded |-> r.seeded]
HistoryBundle(d, limit) ==
  LET recent == ListRecent(regimes, d, limit)
      Nth(n) == IF Len(recent) >= n THEN recent[n].id ELSE Nil
  IN [records |-> [n \in DOMAIN recent |-> HistoryRecord(recent[n])],
      latest |-> Nth(1), previous |-> Nth(2)]

-----------------------------------------------------------------------------
(* The services *)

SavedSnapshot(obs, d) ==
  LET s == BuildSnapshot(Len(snapshots) + 1, obs, d)
      cmp == CompareSnapshotStates(s, LatestOnOrBefore(snapshots, d - 1))
  IN [s EXCEPT !.comparison = cmp, !.keyChanges = cmp.indicators]

\* a build that compares with the regime saved last, whatever its day
SavedRegimeAgainstLast(store, d) ==
  LET r == BuildRegime(Len(regimes) + 1, LatestOnOrBefore(store, d))
      prev == IF regimes = <<>> THEN Nil ELSE regimes[Len(regimes)]
  IN [r EXCEPT !.asked = d, !.transition = RegimeTransition(r, prev)]

\* the baseline is looked up before the requested day; the regime carries the
\* day of its snapshot
SavedRegime(store, d) ==
  LET r == BuildRegime(Len(regimes) + 1, LatestOnOrBefore(store, d))
      prev == LatestOnOrBefore(regimes, d - 1)
  IN [r EXCEPT !.asked = d, !.transition = RegimeTransition(r, prev)]

BuildAndSaveSnapshot(d, feed) ==
  /\ Serving /\ Len(snapshots) < MaxSnapshots
  /\ snapshots' = Append(snapshots, SavedSnapshot(
       [k \in DOMAIN feed |-> [ind |-> feed[k].ind, on |-> d - feed[k].age,
                               value |-> feed[k].value, lag |-> feed[k].lag]], d))
  /\ UNCHANGED <<day, seeder, regimes, explained>>

\* without any snapshot on or before the day the service raises
BuildAndSaveRegime(d) ==
  /\ Serving /\ Len(regimes) < MaxRegimes
  /\ LatestOnOrBefore(snapshots, d) # Nil
  /\ regimes' = Append(regimes, SavedRegime(snapshots, d))
  /\ UNCHANGED <<day, seeder, snapshots, explained>>

-----------------------------------------------------------------------------
(* The seeder *)

\* the series read are observations of the target day, fresh by decree
SyntheticObservations(values, d) ==
  SetToSeq({[ind |-> i, on |-> d, value |-> values[i], lag |-> "fresh"] : i \in DOMAIN values})

\* the stamp put on the regime after it was saved: the flag comes from this
\* read, the warnings from this read's snapshot
Stamped(r, snapshot, values) ==
  [r EXCEPT !.seeded = (values = <<>>),
            !.warnings = RegimeWarnings(snapshot, r.label, r.confidence, r.missing, values = <<>>)]

\* lifespan: with SEED_ON_STARTUP false nothing is seeded or refreshed
Start(seed) ==
  /\ seeder.phase = "down"
  /\ seeder' = IF seed THEN [phase |-> "fetching", target |-> day, force |-> FALSE]
               ELSE [seeder EXCEPT !.phase = "off"]
  /\ UNCHANGED <<day, snapshots, regimes, explained>>

\* The thread has answered.  Unless forced, a store that already answers for the
\* day is left alone; the first seeding finds an empty one, since no request is
\* served before it, so only an unforced refresh could skip.
Seed(values) ==
  /\ seeder.phase = "fetching"
  /\ Len(snapshots) < MaxSnapshots /\ Len(regimes) < MaxRegimes
  /\ seeder' = [seeder EXCEPT !.phase = "sleeping"]
  /\ LET s == SavedSnapshot(SyntheticObservations(values, seeder.target), seeder.target)
         store == Append(snapshots, s)
     IN IF ~seeder.force /\ LatestRegime(seeder.target) # Nil
        THEN UNCHANGED <<snapshots, regimes>>
        ELSE /\ snapshots' = store
             /\ regimes' = Append(regimes, Stamped(SavedRegime(store, seeder.target), s, values))
  /\ UNCHANGED <<day, explained>>

\* a refresh loop that does not force, and so skips for ever
HourlyRefreshUnforced ==
  /\ seeder.phase = "sleeping"
  /\ seeder' = [phase |-> "fetching", target |-> day, force |-> FALSE]
  /\ UNCHANGED <<day, snapshots, regimes, explained>>

\* _hourly_refresh_loop wakes: force_refresh, for the day it is now
HourlyRefresh ==
  /\ seeder.phase = "sleeping"
  /\ seeder' = [phase |-> "fetching", target |-> day, force |-> TRUE]
  /\ UNCHANGED <<day, snapshots, regimes, explained>>

\* shutdown cancels the loop; the stores end with the process
Stop ==
  /\ seeder.phase # "down"
  /\ seeder' = [phase |-> "down", target |-> day, force |-> FALSE]
  /\ snapshots' = <<>> /\ regimes' = <<>> /\ explained' = <<>>
  /\ UNCHANGED day

Midnight == day < MaxDay /\ day' = day + 1 /\ UNCHANGED <<seeder, snapshots, regimes, explained>>

-----------------------------------------------------------------------------
(* The routers that write: signals and explanations *)

\* GET /api/signals/latest: the run's explanations, one per signal, or one for
\* a run without signals; the run is grounded in today's latest regime
GetLatestSignals(ids) ==
  LET r == LatestRegime(day)
      run == Cardinality({e \in DOMAIN explained : e[1] = "run"}) + 1
      signals == IF r # Nil THEN RegimeGroundedSignals(r) ELSE FallbackSignals(ids)
  IN /\ Serving /\ run <= MaxRuns
     /\ explained' = (<<"run", run>> :> [regime |-> IF r = Nil THEN Nil ELSE r.id,
                                         signals |-> signals]) @@ explained
     /\ UNCHANGED <<day, seeder, snapshots, regimes>>

\* GET /api/explanations/regime/latest: saved under the regime's id, replaced
\* on the next request
GetRegimeExplanation ==
  LET r == LatestRegime(day) IN
  /\ Serving /\ r # Nil
  /\ RegimeExplanation(r) # Nil
  /\ explained' = (<<"regime", r.id>> :> RegimeExplanation(r)) @@ explained
  /\ UNCHANGED <<day, seeder, snapshots, regimes>>

MacroInit ==
  /\ day = 1
  /\ seeder = [phase |-> "down", target |-> 1, force |-> FALSE]
  /\ snapshots = <<>> /\ regimes = <<>> /\ explained = <<>>

MacroNext ==
  \/ \E seed \in BOOLEAN : Start(seed)
  \/ \E values \in Readings : Seed(values)
  \/ HourlyRefresh \/ Stop \/ Midnight
  \/ \E d \in Days : d <= day /\ BuildAndSaveRegime(d)
  \/ \E d \in Days, feed \in Feeds : d <= day /\ BuildAndSaveSnapshot(d, feed)
  \/ GetLatestSignals(<<"bull_market", "recession_warning", "hold_neutral">>)
  \/ GetRegimeExplanation

\* the event loop runs the refresh, and the thread's answer arrives, the query
\* having a connect timeout of three seconds: SeedDone is the seeder's side of Seed
SeedDone == /\ seeder.phase = "fetching" /\ seeder' = [seeder EXCEPT !.phase = "sleeping"]
            /\ Len(snapshots) < MaxSnapshots /\ Len(regimes) < MaxRegimes
MacroSpec == MacroInit /\ [][MacroNext]_macroVars /\ WF_macroVars(HourlyRefresh) /\ WF_seeder(SeedDone)

-----------------------------------------------------------------------------
(* Properties *)

\* The shapes of the stores: identifiers are positions, a regime's snapshot is
\* in the snapshot store with the regime's day.
StoresOK ==
  /\ day \in Days /\ seeder.phase \in {"down", "fetching", "sleeping", "off"}
  /\ seeder.target \in Days /\ seeder.target <= day /\ seeder.force \in BOOLEAN
  /\ \A k \in DOMAIN snapshots : snapshots[k].id = k /\ snapshots[k].on \in Days
  /\ \A k \in DOMAIN regimes :
       /\ regimes[k].id = k /\ regimes[k].label \in Labels
       /\ regimes[k].confidence \in Confidences
       /\ regimes[k].snapshot \in DOMAIN snapshots
       /\ regimes[k].on = snapshots[regimes[k].snapshot].on

\* The transition stored with a regime and the change report computed afresh
\* by /compare agree on whether anything changed, unless a day was filled in
\* later or the regime had to take an older snapshot (compare_regimes,
\* build_and_save_regime).
ChangeReportsAgree ==
  \A d \in Days :
    LET pair == ComparePair(d) IN
    pair # Nil =>
      LET backfilled == \E k \in DOMAIN regimes : k > pair[1].id /\ regimes[k].on < pair[1].on
          report == CompareResponse(d).delta
      IN backfilled \/ pair[1].asked # pair[1].on \/
           IF report = Nil THEN pair[1].transition.type = "initial"
           ELSE pair[1].transition.changed = (report.severity # "unchanged")

\* Two lists written apart agree: the status token of the regimes router is
\* success exactly when the signal service marks no signal degraded, and every
\* degraded signal says why.
DegradedIsToldAlike ==
  \A k \in DOMAIN regimes :
    /\ (RegimeStatus(regimes[k]) = "success") = ~SignalsDegraded(regimes[k])
    /\ SignalsDegraded(regimes[k]) = (Caveat(regimes[k]) # Nil)

\* Every day the process lives through gets a regime of its own: the refresh
\* that was in flight over midnight wrote yesterday's, the next one writes
\* today's (unless the process stops, is not seeding, or a store is at its bound).
EveryDayIsCovered ==
  \A d \in Days :
    day = d /\ seeder.phase = "sleeping" ~>
      \/ day # d \/ seeder.phase \in {"down", "off"}
      \/ Len(regimes) = MaxRegimes \/ Len(snapshots) = MaxSnapshots
      \/ LatestRegime(d) # Nil /\ LatestRegime(d).on = d

\* "hourly InMemoryStore refresh so data stays current without restart": what
\* the last completed refresh of today stored is what /latest serves.
RefreshIsServed ==
  seeder.phase = "sleeping" /\ seeder.force /\ seeder.target = day =>
    LatestRegime(day).id = Len(regimes)
=============================================================================

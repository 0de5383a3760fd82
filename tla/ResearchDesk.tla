------------------------------ MODULE ResearchDesk ------------------------------
(***************************************************************************)
(* The stores behind /api/alerts and /api/events of the secondary API, fed *)
(* the way the tests of the engines feed them: a regime is compared with   *)
(* the one before it and the alerts that fire are saved, external events   *)
(* are normalised and saved, in any order and again when a provider sends  *)
(* them again, analysts acknowledge and snooze.  The events that explain   *)
(* today's changes are those the event store lists.                        *)
(***************************************************************************)
EXTENDS ResearchRules

CONSTANTS Rules,       \* the alert rules, a sequence
          Regimes,     \* the regimes that may follow each other
          Clock,       \* the days on which something happens, ascending
          EventIds, RawEvents,
          SnoozeTimes, \* the days an alert may be snoozed until
          Indicators,
          ListLimit,   \* the limit of list_recent
          MaxRegimes,  \* bound: regimes evaluated
          MaxChanges   \* bound: acknowledgements and snoozes

ASSUME RulesAssumption == Rules \in Seq(Range(Rules))
ASSUME RegimesAssumption == Nil \notin Regimes
ASSUME ClockAssumption == Clock \in Seq(Int) /\ Clock # <<>>
ASSUME ListLimitAssumption == ListLimit \in Nat
ASSUME RawEventsAssumption == \A raw \in RawEvents : raw.occurred \in Int

VARIABLES day,         \* index into Clock
          regimes,     \* evaluated so far
          alerts,      \* InMemoryAlertStore._store, a dict in insertion order
          events,      \* InMemoryEventStore._store, likewise
          changes

vars == <<day, regimes, alerts, events, changes>>

now == Clock[day]

Init == day = 1 /\ regimes = <<>> /\ alerts = <<>> /\ events = <<>> /\ changes = 0

-----------------------------------------------------------------------------
(* The stores *)

NewAlert(fired) ==
  [rule |-> fired.rule, trigger |-> fired.trigger, from |-> fired.from, to |-> fired.to,
   at |-> now, state |-> "active", acknowledged |-> Nil, snoozed |-> Nil]

\* a store that holds one alert of each rule
SavedByRule(list, fired) ==
  LET SavedOver(held, alert) ==
        IF \E n \in DOMAIN held : held[n].rule = alert.rule
        THEN [n \in DOMAIN held |-> IF held[n].rule = alert.rule THEN alert ELSE held[n]]
        ELSE Append(held, alert)
  IN FoldLeft(SavedOver, list, [n \in DOMAIN fired |-> NewAlert(fired[n])])

\* InMemoryAlertStore.save of one alert after the other: each has an id of its own
Saved(list, fired) == list \o [n \in DOMAIN fired |-> NewAlert(fired[n])]

\* InMemoryEventStore.save: an id that is known keeps its place
SavedEvent(list, event) ==
  IF \E n \in DOMAIN list : list[n].id = event.id
  THEN [n \in DOMAIN list |-> IF list[n].id = event.id THEN event ELSE list[n]]
  ELSE Append(list, event)

\* a list of the events as they were saved
ListedAsSaved(list) == list

\* The places given, by occurred_at, newest first; sort is stable.
NewestFirst(list, places) ==
  InOrder(places, LAMBDA m, n :
    \/ list[m].occurred > list[n].occurred
    \/ list[m].occurred = list[n].occurred /\ m < n)

\* so many events are listed
Listed(list) == 1 .. Min({ListLimit, Len(list)})

\* the limit taken off the store, before the sort
CutBeforeSorting(list) ==
  LET order == NewestFirst(list, Listed(list)) IN [n \in Listed(list) |-> list[order[n]]]

\* list_recent without filters: sorted, then cut
ListRecent(list) ==
  LET order == NewestFirst(list, DOMAIN list) IN [n \in Listed(list) |-> list[order[n]]]

\* update_acknowledgement: the time that is not given becomes None
Updated(alert, state, acknowledged, snoozed) ==
  [alert EXCEPT !.state = state, !.acknowledged = acknowledged, !.snoozed = snoozed]

-----------------------------------------------------------------------------
(* Steps *)

Tick == day < Len(Clock) /\ day' = day + 1 /\ UNCHANGED <<regimes, alerts, events, changes>>

\* AlertRuleEngine.evaluate and the saves of what fired
EvaluateRegime(r) ==
  /\ Len(regimes) < MaxRegimes
  /\ LET prev == IF regimes = <<>> THEN Nil ELSE Last(regimes)
         fired == EvaluateRules(Rules, r, prev)
     IN alerts' = Saved(alerts, fired)
  /\ regimes' = Append(regimes, r)
  /\ UNCHANGED <<day, events, changes>>

SaveEvent(id, raw) ==
  /\ events' = SavedEvent(events, NormalizeEvent(id, raw, now))
  /\ UNCHANGED <<day, regimes, alerts, changes>>

Acknowledge(n) ==
  /\ changes < MaxChanges /\ changes' = changes + 1
  /\ alerts' = [alerts EXCEPT ![n] = Updated(@, "acknowledged", now, Nil)]
  /\ UNCHANGED <<day, regimes, events>>

\* AlertSnoozeRequest: any time is taken
Snooze(n, until) ==
  /\ changes < MaxChanges /\ changes' = changes + 1
  /\ alerts' = [alerts EXCEPT ![n] = Updated(@, "snoozed", Nil, until)]
  /\ UNCHANGED <<day, regimes, events>>

Next ==
  \/ Tick
  \/ \E r \in Regimes : EvaluateRegime(r)
  \/ \E id \in EventIds, raw \in RawEvents : SaveEvent(id, raw)
  \/ \E n \in DOMAIN alerts : Acknowledge(n)
  \/ \E n \in DOMAIN alerts, d \in SnoozeTimes : Snooze(n, d)

Spec == Init /\ [][Next]_vars

-----------------------------------------------------------------------------
(* Properties *)

\* had each indicator changed today
Verdict(i) ==
  RunAttribution([j \in Indicators |-> "increased"], ListRecent(events), now)[i]

\* "high: exact rule match AND lag <= 50% of max_lag_days AND tier_1 or tier_2"
\* (attribution_engine.py): for the event that is named, under a rule of its own,
\* in whatever order the events were saved.
HighIsWithinHalfLag ==
  \A i \in Indicators : Verdict(i).confidence = "high" =>
    LET e == Verdict(i).primary IN
    /\ e.tier \in {"tier_1", "tier_2"}
    /\ \E r \in AttributionRules : /\ r.type = e.type /\ r.ind = i
                                   /\ now - e.occurred <= Max({1, r.maxLag \div 2})

\* The same of events in the order they were saved in, which the engine's doc, to
\* which the order is nothing, promises as well; it does not hold there: the nearest
\* event is judged by the rule of the event that was saved first.
HighInAnyOrder ==
  \A i \in Indicators :
    LET v == AttributeDelta(i, ListedAsSaved(events), now) IN v.confidence = "high" =>
      \E r \in AttributionRules : /\ r.type = v.primary.type /\ r.ind = i
                                 /\ now - v.primary.occurred <= Max({1, r.maxLag \div 2})

\* "the closest (most recent) event within the lag window is selected"
\* (attribution_engine.py), of all events stored, though the list ends at its limit
\* and is headed by events yet to come: no stored event of the past that matches as
\* well is nearer than the one a verdict names.
NearestIsNamed ==
  \A i \in Indicators : \A n \in DOMAIN events :
    LET v == Verdict(i)
        e == events[n]
        heuristic == i \in HeuristicFallback[e.type] /\ now - e.occurred <= 30
    IN (/\ v.primary # Nil /\ e.occurred <= now
        /\ RuleFor(e, i, now) # {} \/ (v.confidence = "low" /\ heuristic))
         => e.occurred <= v.primary.occurred

\* Every move into contraction or stagflation risk, and every move between regime
\* families, has an alert of each rule that asks for major changes, however the
\* alerts before it were acknowledged or snoozed.
MajorTransitionsAlert ==
  \A n \in DOMAIN regimes : \A k \in DOMAIN Rules :
    LET cur == regimes[n]  prev == regimes[n - 1]  rule == Rules[k] IN
    (/\ n > 1 /\ cur.label # prev.label
     /\ cur.label \in HighSeverityLabels \/ RegimeFamily[cur.label] # RegimeFamily[prev.label]
     /\ rule.trigger = "regime_transition" /\ rule.min = "major" /\ rule.enabled
     /\ rule.source = Nil /\ rule.target = Nil) =>
       \E a \in DOMAIN alerts :
         alerts[a].rule = rule.id /\ alerts[a].from = prev.label /\ alerts[a].to = cur.label

\* "does not mutate the underlying analytical facts" (alerts/models.py): whatever an
\* analyst does and whatever fires later, an alert stays in the store and says what
\* it said.
AlertFactsStand ==
  [][\A n \in DOMAIN alerts :
       /\ n \in DOMAIN alerts'
       /\ \A f \in {"rule", "trigger", "from", "to", "at"} : alerts'[n][f] = alerts[n][f]]_vars

=============================================================================

---------------------------- MODULE RegimeAlerts ----------------------------
(***************************************************************************)
(* Regime-transition alerts.  Every stream client's payload names the live *)
(* regime; a change since the last payload, whoever it was built for,      *)
(* creates a task of the event loop that records the alert in the ring     *)
(* _ALERT_RING, sends an e-mail, pushes to the stored subscriptions one by *)
(* one and deletes those it could not reach.  Tasks start in the order     *)
(* they were created and then overtake each other at every await; clients  *)
(* subscribe and unsubscribe meanwhile, and the process may restart.       *)
(***************************************************************************)
EXTENDS Integers, Sequences, SequencesExt

CONSTANTS MacroRegimes,   \* what _load_regime_from_db may find
          Endpoints,      \* push endpoints
          RingMax,        \* _ALERT_RING_MAX
          MaxTransitions, \* bound: transitions per life of the process
          MaxFailures,    \* bound: database calls that fail
          MaxRestarts     \* bound: restarts of the process

Regimes == MacroRegimes \cup {"CRISIS_MODE", "VOLATILITY_REGIME"}
NoRegime == ""
Transitions == [old : Regimes, new : Regimes]
Tasks == 1 .. MaxTransitions

ASSUME RingAssumption == RingMax \in Nat \ {0} /\ MaxTransitions \in Nat
ASSUME RegimeAssumption == NoRegime \notin MacroRegimes

VARIABLES macro,        \* _REGIME_CACHE["regime_name"]
          lastNotified, \* _LAST_NOTIFIED_REGIME
          ring,         \* _ALERT_RING, newest first
          pc,           \* where each broadcast is; tasks are numbered as created
          change,       \* the transition each broadcast announces
          todo,         \* subscriptions a broadcast has still to push to
          stale,        \* subscriptions it could not reach
          subs,         \* push_subscriptions, in id order
          gone,         \* endpoints that answer 410 Gone
          failures, restarts

broadcast == <<pc, change, todo, stale>>
vars == <<macro, lastNotified, ring, broadcast, subs, gone, failures, restarts>>

Created == {n \in Tasks : pc[n] # "none"}
Nothing == [old |-> NoRegime, new |-> NoRegime]

TypeOK ==
  /\ macro \in MacroRegimes
  /\ lastNotified \in Regimes \cup {NoRegime}
  /\ ring \in Seq(Transitions) /\ Len(ring) <= RingMax
  /\ pc \in [Tasks -> {"none", "ready", "email", "list", "push", "done"}]
  /\ change \in [Tasks -> Transitions \cup {Nothing}]
  /\ \A s \in {subs} \cup Range(todo) \cup Range(stale) :
       s \in Seq(Endpoints) /\ IsInjective(s)
  /\ gone \subseteq Endpoints
  /\ failures \in 0 .. MaxFailures
  /\ restarts \in 0 .. MaxRestarts

\* The memory of a process that has just started.
Fresh ==
  [pc |-> [n \in Tasks |-> "none"], change |-> [n \in Tasks |-> Nothing],
   queue |-> [n \in Tasks |-> <<>>]]

Init ==
  /\ macro \in MacroRegimes
  /\ lastNotified = NoRegime
  /\ ring = <<>>
  /\ pc = Fresh.pc /\ change = Fresh.change
  /\ todo = Fresh.queue /\ stale = Fresh.queue
  /\ subs = <<>> /\ gone = {}
  /\ failures = 0 /\ restarts = 0

---------------------------------------------------------------------------
(* The payload builder.                                                    *)

LiveRegime(regimeSwitch, volSpike) ==
  IF regimeSwitch THEN "CRISIS_MODE"
  ELSE IF volSpike THEN "VOLATILITY_REGIME" ELSE macro

\* _build_payload for any client: no transition before the first payload, nor
\* when the regime stays.
BuildPayload(regime) ==
  /\ lastNotified' = regime
  /\ IF lastNotified \in {NoRegime, regime}
     THEN UNCHANGED broadcast
     ELSE \E n \in Tasks :
            /\ Created = 1 .. (n - 1)
            /\ pc' = [pc EXCEPT ![n] = "ready"]
            /\ change' = [change EXCEPT ![n] = [old |-> lastNotified, new |-> regime]]
            /\ UNCHANGED <<todo, stale>>
  /\ UNCHANGED <<macro, ring, subs, gone, failures, restarts>>

---------------------------------------------------------------------------
(* _broadcast_regime_alert.                                                *)

\* Entries appended at the end while the last one is dropped.
RecordedLast(entry) ==
  IF Len(ring) = RingMax THEN ring ELSE Append(ring, entry)

\* _record_regime_alert: insert at 0, pop the last if there are too many.
Recorded(entry) ==
  LET inserted == <<entry>> \o ring
  IN  IF Len(inserted) > RingMax THEN Front(inserted) ELSE inserted

\* A task created first starts first.  It runs to its first await.
StartBroadcast(n) ==
  /\ pc[n] = "ready" /\ \A m \in 1 .. n - 1 : pc[m] # "ready"
  /\ ring' = Recorded(change[n])
  /\ pc' = [pc EXCEPT ![n] = "email"]
  /\ UNCHANGED <<macro, lastNotified, change, todo, stale, subs, gone, failures, restarts>>

\* An e-mail failure that escapes, and kills the task.
EmailRaises(n) ==
  /\ pc[n] = "email"
  /\ \E outcome \in {"list", "dead"} : pc' = [pc EXCEPT ![n] = outcome]
  /\ UNCHANGED <<macro, lastNotified, ring, change, todo, stale, subs, gone, failures,
                 restarts>>

\* send_email_alert: sent, refused, timed out or skipped, the task goes on.
Email(n) ==
  /\ pc[n] = "email"
  /\ pc' = [pc EXCEPT ![n] = "list"]
  /\ UNCHANGED <<macro, lastNotified, ring, change, todo, stale, subs, gone, failures,
                 restarts>>

\* A database call that works, or one that fails and is only logged.
Works == UNCHANGED failures
Fails == failures < MaxFailures /\ failures' = failures + 1

\* list_push_subscriptions on a worker thread.
ListSubscriptions(n) ==
  /\ pc[n] = "list"
  /\ pc' = [pc EXCEPT ![n] = "push"]
  /\ \/ Works /\ todo' = [todo EXCEPT ![n] = subs]
     \/ Fails /\ UNCHANGED todo
  /\ UNCHANGED <<macro, lastNotified, ring, change, stale, subs, gone, restarts>>

\* Any answer of the push service taken for a delivery, 410 included.
PushTrustsAnswers(n) ==
  /\ pc[n] = "push" /\ todo[n] # <<>>
  /\ todo' = [todo EXCEPT ![n] = Tail(@)]
  /\ UNCHANGED <<macro, lastNotified, ring, pc, change, stale, subs, gone, failures, restarts>>

\* send_web_push: it may succeed unless the endpoint is gone, and it may always
\* fail (rate limit, server error, time-out, bad key).
Push(n) ==
  /\ pc[n] = "push" /\ todo[n] # <<>>
  /\ todo' = [todo EXCEPT ![n] = Tail(@)]
  /\ \/ Head(todo[n]) \notin gone /\ UNCHANGED stale
     \/ stale' = [stale EXCEPT ![n] = Append(@, Head(todo[n]))]
  /\ UNCHANGED <<macro, lastNotified, ring, pc, change, subs, gone, failures, restarts>>

Without(e) == SelectSeq(subs, LAMBDA f : f # e)

\* delete_push_subscription for one endpoint that failed.
DeleteStale(n) ==
  /\ pc[n] = "push" /\ todo[n] = <<>> /\ stale[n] # <<>>
  /\ stale' = [stale EXCEPT ![n] = Tail(@)]
  /\ \/ Works /\ subs' = Without(Head(stale[n]))
     \/ Fails /\ UNCHANGED subs
  /\ UNCHANGED <<macro, lastNotified, ring, pc, change, todo, gone, restarts>>

Finish(n) ==
  /\ pc[n] = "push" /\ todo[n] = <<>> /\ stale[n] = <<>>
  /\ pc' = [pc EXCEPT ![n] = "done"]
  /\ UNCHANGED <<macro, lastNotified, ring, change, todo, stale, subs, gone, failures,
                 restarts>>

---------------------------------------------------------------------------
(* Browsers, push services, restarts.                                      *)

\* subscribe_push: a new endpoint gets the next id, a known one keeps its own.
Subscribe(e) ==
  /\ e \notin gone
  /\ subs' = IF e \in Range(subs) THEN subs ELSE Append(subs, e)
  /\ UNCHANGED <<macro, lastNotified, ring, broadcast, gone, failures, restarts>>

\* unsubscribe_push.
Unsubscribe(e) ==
  /\ subs' = Without(e)
  /\ UNCHANGED <<macro, lastNotified, ring, broadcast, gone, failures, restarts>>

\* The push service drops a subscription for good.
ExpireEndpoint(e) ==
  /\ e \notin gone /\ gone' = gone \cup {e}
  /\ UNCHANGED <<macro, lastNotified, ring, broadcast, subs, failures, restarts>>

\* The process stops and starts: only the table survives.
Restart ==
  /\ restarts < MaxRestarts /\ restarts' = restarts + 1
  /\ macro' \in MacroRegimes
  /\ lastNotified' = NoRegime
  /\ ring' = <<>>
  /\ pc' = Fresh.pc /\ change' = Fresh.change
  /\ todo' = Fresh.queue /\ stale' = Fresh.queue
  /\ UNCHANGED <<subs, gone, failures>>

---------------------------------------------------------------------------
BroadcastStep(n) ==
  \/ StartBroadcast(n) \/ Email(n) \/ ListSubscriptions(n)
  \/ Push(n) \/ DeleteStale(n) \/ Finish(n)

Next ==
  \/ \E regimeSwitch, volSpike \in BOOLEAN : BuildPayload(LiveRegime(regimeSwitch, volSpike))
  \/ \E n \in Tasks : BroadcastStep(n)
  \/ \E e \in Endpoints : Subscribe(e) \/ Unsubscribe(e) \/ ExpireEndpoint(e)
  \/ Restart

\* The event loop runs every task it holds; each await has a time-out.
Fairness == \A n \in Tasks : WF_vars(BroadcastStep(n))

Spec == Init /\ [][Next]_vars
FairSpec == Spec /\ Fairness

---------------------------------------------------------------------------
(* Properties.                                                             *)

Started == {n \in Created : pc[n] # "ready"}

\* The ring lists the latest transitions of this life of the process, newest
\* first and none missing, and they join up: each starts from the regime the one
\* before ended in, the last ends in the regime shown now.
RingHoldsLatest ==
  LET started == CHOOSE k \in 0 .. MaxTransitions : Started = 1 .. k
      latest == CHOOSE k \in 0 .. MaxTransitions : Created = 1 .. k
  IN  /\ ring = [i \in 1 .. (IF started < RingMax THEN started ELSE RingMax) |->
                   change[started - i + 1]]
      /\ \A n \in Created :
           /\ change[n].old # change[n].new
           /\ change[n].new = IF n = latest THEN lastNotified ELSE change[n + 1].old

\* "Both channels are attempted independently; a failure in one does not suppress
\* the other": every transition's broadcast gets past the e-mail and through its
\* subscriptions, unless the process stops first.
TransitionsAnnounced ==
  \A n \in Tasks : n \in Created ~> pc[n] \in {"done", "none"}

\* An endpoint that is gone when a broadcast is about to list the subscriptions
\* is off the list in the end, if the database works and the process runs from
\* then on.
GoneAreRemoved ==
  \A e \in Endpoints, n \in Tasks :
    (pc[n] = "list" /\ e \in gone /\ failures = MaxFailures)
      ~> (pc[n] = "none" \/ e \notin Range(subs))

\* "Remove subscriptions that responded with 410 Gone": a broadcast deletes no
\* other (its DeleteStale is the step that shortens a list of failures).
OnlyGoneAreDeleted ==
  [][\A e \in Endpoints :
       (e \in Range(subs) /\ e \notin Range(subs') /\ stale' # stale) => e \in gone]_vars
=============================================================================

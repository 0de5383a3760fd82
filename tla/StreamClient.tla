---------------------------- MODULE StreamClient ----------------------------
(***************************************************************************)
(* useAlephStream: the one EventSource all mounted components of the       *)
(* browser page share, its retry timer with exponential backoff, and the   *)
(* connection status each component displays.  JavaScript runs one handler *)
(* at a time, so every handler is one action; rendering a component and    *)
(* running its effect are two.                                             *)
(***************************************************************************)
EXTENDS Integers, FiniteSets

CONSTANTS Hooks,        \* components that call useAlephStream
          MaxOutages    \* bound: times the server becomes unreachable

ASSUME OutageAssumption == MaxOutages \in Nat

VARIABLES phase,        \* each component: "out", "rendered" or "mounted"
          shown,        \* the status each component displays
          es,           \* _es is an open EventSource
          retryTimer,   \* _retryTimer is set
          retryCount,   \* _retryCount
          lastStatus,   \* _lastStatus
          visible,      \* document.visibilityState
          serverUp,     \* the API answers and builds its payloads
          outages

pageVars == <<phase, shown, es, retryTimer, retryCount, lastStatus, visible, serverUp, outages>>

Statuses == {"CONNECTING", "LIVE", "ERROR"}
MaxRetryCount == 5

PageTypeOK ==
  /\ phase \in [Hooks -> {"out", "rendered", "mounted"}]
  /\ shown \in [Hooks -> Statuses]
  /\ es \in BOOLEAN /\ retryTimer \in BOOLEAN
  /\ retryCount \in 0 .. MaxRetryCount
  /\ lastStatus \in Statuses
  /\ visible \in BOOLEAN /\ serverUp \in BOOLEAN
  /\ outages \in 0 .. MaxOutages

PageInit ==
  /\ phase = [h \in Hooks |-> "out"]
  /\ shown = [h \in Hooks |-> "CONNECTING"]
  /\ es = FALSE /\ retryTimer = FALSE /\ retryCount = 0
  /\ lastStatus = "CONNECTING"
  /\ visible = TRUE /\ serverUp = TRUE /\ outages = 0

Listeners == {h \in Hooks : phase[h] = "mounted"}

\* _notify: the components in ls, and the module, take the new status.
Notify(ls, status) ==
  /\ lastStatus' = status
  /\ shown' = [h \in Hooks |-> IF h \in ls THEN status ELSE shown[h]]

\* _connect, on behalf of the listeners ls.
Connect(ls) ==
  IF es THEN UNCHANGED <<es, lastStatus, shown>>
  ELSE es' = TRUE /\ Notify(ls, "CONNECTING")

\* useState captures the module's status when the component renders.
Render(h) ==
  /\ phase[h] = "out"
  /\ phase' = [phase EXCEPT ![h] = "rendered"]
  /\ shown' = [shown EXCEPT ![h] = lastStatus]
  /\ UNCHANGED <<es, retryTimer, retryCount, lastStatus, visible, serverUp, outages>>

\* The effect adds the listener and connects.
Mount(h) ==
  /\ phase[h] = "rendered"
  /\ phase' = [phase EXCEPT ![h] = "mounted"]
  /\ Connect(Listeners \cup {h})
  /\ UNCHANGED <<retryTimer, retryCount, visible, serverUp, outages>>

\* The teardown that forgets to clear the timer.
DisconnectKeepsTimer == es' = FALSE /\ UNCHANGED retryTimer

\* _disconnect.
Disconnect == es' = FALSE /\ retryTimer' = FALSE

\* The clean-up removes the listener; the last one disconnects.
Unmount(h) ==
  /\ phase[h] = "mounted"
  /\ phase' = [phase EXCEPT ![h] = "out"]
  /\ shown' = [shown EXCEPT ![h] = "CONNECTING"]
  /\ IF Listeners = {h} THEN Disconnect ELSE UNCHANGED <<es, retryTimer>>
  /\ UNCHANGED <<retryCount, lastStatus, visible, serverUp, outages>>

\* handleFrame with a payload whose status is not ERROR.
Frame ==
  /\ es /\ serverUp
  /\ retryCount' = 0
  /\ Notify(Listeners, "LIVE")
  /\ UNCHANGED <<phase, es, retryTimer, visible, serverUp, outages>>

\* A retry that is given up after five attempts.
ScheduleRetryGivesUp ==
  IF retryTimer \/ retryCount = MaxRetryCount
  THEN UNCHANGED <<retryTimer, retryCount, lastStatus, shown>>
  ELSE retryTimer' = TRUE /\ retryCount' = retryCount + 1 /\ Notify(Listeners, "ERROR")

\* _scheduleRetry, once the EventSource is gone: a retry already scheduled is
\* left alone, and then neither the counter nor the status moves.
ScheduleRetry ==
  IF retryTimer THEN UNCHANGED <<retryTimer, retryCount, lastStatus, shown>>
  ELSE /\ retryTimer' = TRUE
       /\ retryCount' = IF retryCount < MaxRetryCount THEN retryCount + 1 ELSE MaxRetryCount
       /\ Notify(Listeners, "ERROR")

\* es.onerror: the connection broke, or the server sent its event named "error".
OnError ==
  /\ es /\ ~serverUp
  /\ es' = FALSE
  /\ ScheduleRetry
  /\ UNCHANGED <<phase, visible, serverUp, outages>>

\* A callback that trusts the status instead of the connection.
TimerFiresUnlessLive ==
  /\ retryTimer
  /\ retryTimer' = FALSE
  /\ IF lastStatus = "LIVE" THEN UNCHANGED <<es, lastStatus, shown>> ELSE Connect(Listeners)
  /\ UNCHANGED <<phase, retryCount, visible, serverUp, outages>>

\* The retry timer's callback.
TimerFires ==
  /\ retryTimer
  /\ retryTimer' = FALSE
  /\ Connect(Listeners)
  /\ UNCHANGED <<phase, retryCount, visible, serverUp, outages>>

TabHidden ==
  /\ visible /\ visible' = FALSE
  /\ UNCHANGED <<phase, shown, es, retryTimer, retryCount, lastStatus, serverUp, outages>>

\* The visibilitychange handler.
TabVisible ==
  /\ ~visible /\ visible' = TRUE
  /\ IF Listeners # {} /\ ~es /\ ~retryTimer
     THEN retryCount' = 0 /\ Connect(Listeners)
     ELSE UNCHANGED <<retryCount, es, lastStatus, shown>>
  /\ UNCHANGED <<phase, retryTimer, serverUp, outages>>

\* The server becomes unreachable (or fails to build a payload) and comes back.
ServerFails ==
  /\ serverUp /\ outages < MaxOutages
  /\ serverUp' = FALSE /\ outages' = outages + 1
  /\ UNCHANGED <<phase, shown, es, retryTimer, retryCount, lastStatus, visible>>

ServerRecovers ==
  /\ ~serverUp /\ serverUp' = TRUE
  /\ UNCHANGED <<phase, shown, es, retryTimer, retryCount, lastStatus, visible, outages>>

PageNext ==
  \/ \E h \in Hooks : Render(h) \/ Mount(h) \/ Unmount(h)
  \/ Frame \/ OnError \/ TimerFires
  \/ TabHidden \/ TabVisible
  \/ ServerFails \/ ServerRecovers

\* Frames arrive, errors are reported and timers fire; users and servers do as
\* they please.
PageFairness == SF_pageVars(Frame) /\ WF_pageVars(OnError) /\ SF_pageVars(TimerFires)

PageSpec == PageInit /\ [][PageNext]_pageVars
FairPageSpec == PageSpec /\ PageFairness

---------------------------------------------------------------------------
(* Properties.                                                             *)

\* While a component is mounted the page is connected or a retry is due; once
\* none is, neither an EventSource nor a timer is left behind.
ConnectedOrWaiting == (Listeners # {}) <=> (es \/ retryTimer)

\* A component that stays mounted in front of a server that stays up ends up
\* showing LIVE for good, whatever outages, re-mounts and tab switches it met and
\* whatever it missed between its rendering and its effect.
StreamRecovers ==
  \A h \in Hooks :
    <>[](serverUp /\ phase[h] = "mounted") => <>[](shown[h] = "LIVE" /\ es)

\* LIVE may be on display without a connection (an error while an older retry is
\* still scheduled leaves the status alone), but not for ever.
StaleLiveEnds ==
  (lastStatus = "LIVE" /\ ~es /\ Listeners # {}) ~> (es \/ Listeners = {})
=============================================================================

---------------------------- MODULE MacroIngestion ----------------------------
(***************************************************************************)
(* src/pipelines/ingestion/macro_ingestion_service.py over a feature store *)
(* (src/agent/adapters/repositories): the in-memory one, or the one on     *)
(* Supabase's PostgreSQL, over one connection it makes on demand.          *)
(*                                                                         *)
(* A run is suspended while its source answers; from then on it does not   *)
(* yield.  psycopg2 learns that the server has dropped a connection only   *)
(* when it is next used; the statement raises and the object is closed.    *)
(***************************************************************************)
EXTENDS MacroFeeds

CONSTANTS Jobs,       \* ingestion runs that may overlap
          Provider,   \* the source adapter
          Stores,     \* the stores it may be configured with: "memory", "supabase"
          Published,  \* the observations it may publish, Nil for a missing one
          MaxRuns,    \* bound: runs started
          MaxDrops,   \* bound: connections the server drops
          MaxTime     \* bound: the clock

VARIABLES store,      \* the one it is configured with
          feed,       \* what the provider would answer
          now,
          job,        \* job -> when its run started, Nil when it is not running
          snapshots,  \* saved snapshots, in the order of the saves
          conn,       \* _conn: "none", "open", "dropped" (unnoticed) or "closed"
          lost,       \* runs whose save raised, since the last one that did not
          counted,    \* PIPELINE_RUNS_TOTAL
          started, drops

ingestion == <<store, job, snapshots, conn, lost, counted, started, drops>>

Clean == [error |-> Nil, obs |-> <<1>>]

InitIngestion ==
  /\ store \in Stores /\ feed = [i \in Indicators |-> Clean] /\ now = 0
  /\ job = [j \in Jobs |-> Nil] /\ snapshots = <<>>
  /\ conn = "none" /\ lost = 0 /\ counted = [success |-> 0, failure |-> 0]
  /\ started = 0 /\ drops = 0

StartRun(j) ==
  /\ job[j] = Nil /\ started < MaxRuns
  /\ job' = [job EXCEPT ![j] = now] /\ started' = started + 1
  /\ UNCHANGED <<store, feed, now, snapshots, conn, lost, counted, drops>>

\* FeatureSnapshot(...): dated when it is built, not when its run began
IngestedAtStart(j) == job[j]

IngestedAt(j) == now

\* _get_connection: one that is closed is made anew
ConnectionKept == IF conn = "none" THEN "open" ELSE conn

Connection == IF conn \in {"none", "closed"} THEN "open" ELSE conn

SaveFails == store = "supabase" /\ Connection # "open"

\* The source has answered.  Without features the run fails and is counted; an
\* error of the store is neither.
FinishRun(j) ==
  /\ job[j] # Nil /\ job' = [job EXCEPT ![j] = Nil]
  /\ LET features == FetchRaw(Provider, Indicators, feed)
         n == Cardinality(DOMAIN features)
     IN IF n = 0
        THEN /\ counted' = [counted EXCEPT !.failure = @ + 1]
             /\ UNCHANGED <<snapshots, conn, lost>>
        ELSE /\ conn' = IF store = "memory" THEN conn
                        ELSE IF SaveFails THEN "closed" ELSE "open"
             /\ IF SaveFails
                THEN lost' = lost + 1 /\ UNCHANGED <<snapshots, counted>>
                ELSE /\ lost' = 0
                     /\ snapshots' = Append(snapshots, [features |-> features, at |-> IngestedAt(j)])
                     /\ counted' = [counted EXCEPT !.success = @ + 1]
  /\ UNCHANGED <<store, feed, now, started, drops>>

\* get_latest_snapshot: the last one appended, or the one ingested last
Latest ==
  IF snapshots = <<>> THEN Nil
  ELSE IF store = "memory" THEN Last(snapshots)
  ELSE LET newest == {n \in DOMAIN snapshots :
                        \A m \in DOMAIN snapshots : snapshots[m].at <= snapshots[n].at}
       IN snapshots[CHOOSE n \in newest : \A m \in newest : m <= n]

\* a read uses the connection as a save does: it may be what finds it dropped
ReadLatest ==
  /\ store = "supabase" /\ conn' = IF SaveFails THEN "closed" ELSE "open"
  /\ UNCHANGED <<store, feed, now, job, snapshots, lost, counted, started, drops>>

\* the provider publishes, fails or answers again
FeedMoves(i) ==
  /\ \/ \E v \in Published : feed' = [feed EXCEPT ![i] = [error |-> Nil, obs |-> <<v, 1>>]]
     \/ feed' = [feed EXCEPT ![i].error = IF @ = Nil THEN "http" ELSE Nil]
  /\ feed' # feed /\ now < MaxTime /\ now' = now + 1
  /\ UNCHANGED ingestion

DropConnection ==
  /\ conn = "open" /\ drops < MaxDrops
  /\ conn' = "dropped" /\ drops' = drops + 1 /\ lost' = 0
  /\ UNCHANGED <<store, feed, now, job, snapshots, counted, started>>

IngestionNext ==
  \/ \E j \in Jobs : StartRun(j) \/ FinishRun(j)
  \/ \E i \in Indicators : FeedMoves(i)
  \/ ReadLatest
  \/ DropConnection

-----------------------------------------------------------------------------
(* Properties *)

\* The snapshot a reader is given as the latest one was ingested after every
\* other, also when two runs overlap and the one that began first ends last:
\* both stores then answer alike.
LatestIsNewest ==
  \A n \in DOMAIN snapshots : snapshots[n].at <= Latest.at

\* A connection the server has dropped costs at most one save, however often it
\* drops one: the next run makes a new one.
DropCostsOneSave == lost <= 1
=============================================================================

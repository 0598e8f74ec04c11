---- MODULE Monitoring ----
(***************************************************************************)
(* The monitoring service (src/monitoring/monitoring_service.js): what *)
(* it counts of the blocks it hears about, the gauges its timer refreshes, *)
(* the alerts it derives from them, and the four Redis keys it saves them  *)
(* under, one awaited write after the other, and loads them from at start. *)
(* The process may be killed at any point; what Redis holds survives.      *)
(*                                                                         *)
(* A start, a stop, a timer's save and a stop's save are each in flight    *)
(* once at most, but next to each other.                                   *)
(***************************************************************************)
EXTENDS Integers, Sequences, FiniteSets

CONSTANTS
    Proposer,      \* the validators that blocks are credited to
    HistorySize,   \* selections kept (100 in the code)
    SamplesKept,   \* block times and histogram samples kept (100 in the code)
    HalvingEvery,  \* blocks between halvings (210000 in the code)
    LowPeers,      \* the peer-count thresholds an owner may set
    DefaultLowPeers, \* the threshold of a new service
    MaxMonitored,  \* bound: blocks announced
    MaxStarts,     \* bound: calls of start
    MaxMonitorKills, \* bound: kills
    MaxAsides      \* bound: events that concern no block, and collections

ASSUME MonitoringAssumption ==
    /\ HistorySize \in Nat \ {0}
    /\ SamplesKept \in Nat \ {0}
    /\ HalvingEvery \in Nat \ {0}
    /\ LowPeers \subseteq Nat /\ DefaultLowPeers \in LowPeers
    /\ MaxMonitored \in Nat
    /\ MaxStarts \in Nat
    /\ MaxMonitorKills \in Nat
    /\ MaxAsides \in Nat

VARIABLES
    metrics,      \* this.metrics
    blockTimes,   \* length of this.blockTimes
    samples,      \* length of a histogram of this.histograms
    seen,         \* this.lastBlockTimestamp is set
    alerts,       \* levels of the alerts held about the peer count
    lowPeers,     \* alertThresholds.network.peerCount
    running,
    timers,       \* the three intervals are armed
    listeners,    \* handlers registered with the monitored components
    loading,      \* the start in flight: the key it waits for, and its answer
    saving,       \* per caller of persistMetrics: the next key it writes
    collecting,   \* collectMetrics between its awaits, and the height it got
    saved,        \* the four keys in Redis
    stored,       \* the store's height
    outside,      \* peers connected and transactions pending
    startsLeft, monitorKillsLeft, asidesLeft

counts == <<metrics, blockTimes, samples, seen>>
service == <<running, timers, listeners, loading, saving, collecting>>
world == <<saved, stored, outside>>
budget == <<startsLeft, monitorKillsLeft, asidesLeft>>
monitorVars == <<counts, alerts, lowPeers, service, world, budget>>

\* A key of Redis holds one value or none.
Unset == {}
Held(key) == CHOOSE value \in key : TRUE
NextKey(key) ==
    CASE key = "metrics" -> "histograms" [] key = "histograms" -> "blockTimes"
      [] key = "blockTimes" -> "alerts" [] key = "alerts" -> "idle"

EmptyMetrics ==
    [blockCount |-> 0, height |-> 0, lastBlock |-> 0, epoch |-> 0,
     selectionHistory |-> <<>>, proposedBlocks |-> [v \in {} |-> 0],
     peerCount |-> 0, pending |-> 0]

NoLoad == [key |-> "idle", got |-> Unset]
NotCollecting == [at |-> "idle", height |-> 0]

NotSaving == [by \in {"timer", "stop"} |-> "idle"]

MonitoringInit ==
    /\ metrics = EmptyMetrics
    /\ blockTimes = 0 /\ samples = 0 /\ seen = FALSE
    /\ alerts = {} /\ lowPeers = DefaultLowPeers
    /\ running = FALSE /\ timers = FALSE /\ listeners = 0
    /\ loading = NoLoad /\ saving = NotSaving /\ collecting = NotCollecting
    /\ saved = [metrics |-> Unset, histograms |-> Unset,
                blockTimes |-> Unset, alerts |-> Unset]
    /\ stored = 0
    /\ outside = [peers |-> 0, pending |-> 0]
    /\ startsLeft = MaxStarts
    /\ monitorKillsLeft = MaxMonitorKills
    /\ asidesLeft = MaxAsides

----------------------------------------------------------------------------
(* Blocks *)

\* Mutant: the oldest selection is never shifted out.
NeverTrimmed(seq, n) == seq

Keep(seq, n) == IF Len(seq) > n THEN Tail(seq) ELSE seq
AtMost(n, bound) == IF n > bound THEN bound ELSE n

\* recordValidatorSelection: the selection joins the history, whose oldest
\* entry makes room, and the validator's count grows.
Selected(m, v) ==
    LET counted == DOMAIN m.proposedBlocks
    IN  [m EXCEPT
        !.selectionHistory = Keep(Append(@, v), HistorySize),
        !.proposedBlocks = [u \in counted \union {v} |->
            (IF u \in counted THEN @[u] ELSE 0) + (IF u = v THEN 1 ELSE 0)]]

\* One call of handleNewBlock, on the metrics alone.
Handled(m, height, v) ==
    Selected([m EXCEPT !.height = height,
                       !.lastBlock = height,
                       !.blockCount = @ + 1,
                       !.epoch = height \div HalvingEvery], v)

\* The handlers called one after the other
HandledBy(calls, m, height, v) ==
    LET After[n \in 0..calls] ==
            IF n = 0 THEN m ELSE Handled(After[n - 1], height, v)
    IN  After[calls]

\* The store announces a block: every handler that was ever registered runs,
\* stop having removed none of them.
NewBlock ==
    /\ stored < MaxMonitored
    /\ stored' = stored + 1
    /\ \E v \in Proposer :
        LET calls == IF running THEN listeners ELSE 0
        IN  /\ metrics' = HandledBy(calls, metrics, stored', v)
            /\ blockTimes' = IF calls = 0 THEN blockTimes
                             ELSE AtMost(blockTimes + calls - (IF seen THEN 0 ELSE 1),
                                         SamplesKept)
            /\ seen' = (seen \/ calls > 0)
    /\ UNCHANGED <<samples, alerts, lowPeers, service, saved, outside, budget>>

----------------------------------------------------------------------------
(* Gauges and alerts *)

\* Every event of this part but the alerts' timer takes from one bound.
Aside ==
    /\ asidesLeft > 0 /\ asidesLeft' = asidesLeft - 1
    /\ UNCHANGED <<startsLeft, monitorKillsLeft>>

LevelsFor(peers) == IF peers <= lowPeers THEN {"low"} ELSE {}

\* checkAlerts: the alerts held are replaced by those of the metrics now.
CheckAlerts ==
    /\ timers /\ running
    /\ alerts' = LevelsFor(metrics.peerCount)
    /\ UNCHANGED <<counts, lowPeers, service, world, budget>>

\* A peer connects or disconnects: the handler of the first works on a
\* stopped service too.
PeersChange ==
    /\ Aside
    /\ \E n \in {0, 1} \ {outside.peers} :
        /\ outside' = [outside EXCEPT !.peers = n]
        /\ metrics' = IF listeners > 0 /\ (running \/ n > outside.peers)
                      THEN [metrics EXCEPT !.peerCount = n] ELSE metrics
    /\ UNCHANGED <<blockTimes, samples, seen, alerts, lowPeers, service,
                   saved, stored>>

\* A transaction joins or leaves the pool.
PoolChanges ==
    /\ Aside
    /\ \E n \in {0, 1} \ {outside.pending} :
        /\ outside' = [outside EXCEPT !.pending = n]
        /\ metrics' = IF listeners > 0 /\ running
                      THEN [metrics EXCEPT !.pending = n] ELSE metrics
    /\ UNCHANGED <<blockTimes, samples, seen, alerts, lowPeers, service,
                   saved, stored>>

\* recordMetric of the peer count: taken by a stopped service too, and the
\* alerts follow at once when it runs.
RecordPeerCount ==
    /\ Aside
    /\ \E n \in {0, 1} \ {metrics.peerCount} :
        /\ metrics' = [metrics EXCEPT !.peerCount = n]
        /\ alerts' = IF running THEN LevelsFor(n) ELSE alerts
    /\ UNCHANGED <<blockTimes, samples, seen, lowPeers, service, world>>

\* recordTransactionVerificationTime and its like: one more sample.
RecordSample ==
    /\ Aside
    /\ running
    /\ samples' = AtMost(samples + 1, SamplesKept)
    /\ UNCHANGED <<metrics, blockTimes, seen, alerts, lowPeers, service, world>>

SetAlertThresholds ==
    /\ Aside
    /\ lowPeers' \in LowPeers \ {lowPeers}
    /\ UNCHANGED <<counts, alerts, service, world>>

\* clearAlerts: without a type.  With one it keeps every alert, for no alert
\* has the field it compares.
ClearAlerts ==
    /\ Aside
    /\ alerts' = {}
    /\ UNCHANGED <<counts, lowPeers, service, world>>

\* collectMetrics up to its first await, which asks the store's height ...
Collect ==
    /\ Aside
    /\ timers /\ running /\ collecting.at = "idle"
    /\ collecting' = [at |-> "height", height |-> stored]
    /\ UNCHANGED <<counts, alerts, lowPeers, running, timers, listeners,
                   loading, saving, world>>

\* ... the height is taken over and its block asked for ...
CollectHeight ==
    /\ collecting.at = "height"
    /\ metrics' = [metrics EXCEPT !.height = collecting.height]
    /\ collecting' = [collecting EXCEPT !.at = "block"]
    /\ UNCHANGED <<blockTimes, samples, seen, alerts, lowPeers, running, timers,
                   listeners, loading, saving, world, budget>>

\* ... and the block's hash, the pool's and the network's gauges follow.
CollectRest ==
    /\ collecting.at = "block"
    /\ metrics' = [metrics EXCEPT
        !.lastBlock = IF collecting.height = 0 THEN @ ELSE collecting.height,
        !.pending = outside.pending,
        !.peerCount = outside.peers]
    /\ collecting' = NotCollecting
    /\ UNCHANGED <<blockTimes, samples, seen, alerts, lowPeers, running, timers,
                   listeners, loading, saving, world, budget>>

----------------------------------------------------------------------------
(* Redis *)

InMemory == [metrics |-> {metrics}, histograms |-> {samples},
             blockTimes |-> {blockTimes}, alerts |-> {alerts}]

\* The persist timer.
PersistTimer ==
    /\ timers /\ running /\ saving["timer"] = "idle"
    /\ saving' = [saving EXCEPT !["timer"] = "metrics"]
    /\ UNCHANGED <<counts, alerts, lowPeers, running, timers, listeners,
                   loading, collecting, world, budget>>

\* One write of persistMetrics, of the value held now; a failing one ends it.
Persist(by) ==
    /\ saving[by] # "idle"
    /\ \E ok \in BOOLEAN :
        /\ saved' = IF ok THEN [saved EXCEPT ![saving[by]] = InMemory[saving[by]]]
                    ELSE saved
        /\ saving' = [saving EXCEPT ![by] = IF ok THEN NextKey(@) ELSE "idle"]
    /\ running' = (running /\ ~(by = "stop" /\ saving'[by] = "idle"))
    /\ UNCHANGED <<counts, alerts, lowPeers, timers, listeners, loading,
                   collecting, stored, outside, budget>>

\* Mutant: a merge that keeps the counters of the running process.
MergedOwnCounts(m, loaded) == [loaded EXCEPT !.proposedBlocks = m.proposedBlocks]

\* deepMergeMetrics: what was loaded wins, except that a validator counted
\* here and not there keeps its count.
Merged(m, loaded) ==
    LET kept == DOMAIN m.proposedBlocks
        other == DOMAIN loaded.proposedBlocks
    IN  [loaded EXCEPT !.proposedBlocks =
            [v \in kept \union other |-> IF v \in other THEN @[v] ELSE m.proposedBlocks[v]]]

\* start: a running service returns; with Redis connected the first key is
\* asked for, without it nothing is loaded.
Start ==
    /\ ~running /\ loading = NoLoad
    /\ startsLeft > 0 /\ startsLeft' = startsLeft - 1
    /\ \/ /\ loading' = [key |-> "metrics", got |-> saved.metrics]
          /\ UNCHANGED <<running, timers, listeners>>
       \/ /\ running' = TRUE /\ timers' = TRUE
          /\ listeners' = listeners + 1
          /\ UNCHANGED loading
    /\ UNCHANGED <<counts, alerts, lowPeers, saving, collecting, world, monitorKillsLeft, asidesLeft>>

\* The answer to a get is taken over and the next key asked for; after the
\* last, or after a get that fails, start registers its handlers and arms its timers.
Load ==
    /\ loading.key # "idle"
    /\ LET key == loading.key
           got(k, now) == IF key = k /\ loading.got # Unset THEN Held(loading.got) ELSE now
       IN \E ok \in BOOLEAN :
        /\ metrics' = IF ok /\ key = "metrics" /\ loading.got # Unset
                      THEN Merged(metrics, Held(loading.got)) ELSE metrics
        /\ samples' = IF ok THEN got("histograms", samples) ELSE samples
        /\ blockTimes' = IF ok THEN got("blockTimes", blockTimes) ELSE blockTimes
        /\ alerts' = IF ok THEN got("alerts", alerts) ELSE alerts
        /\ LET next == IF ok THEN NextKey(key) ELSE "idle" IN
            IF next = "idle"
            THEN /\ loading' = NoLoad
                 /\ running' = TRUE /\ timers' = TRUE
                 /\ listeners' = listeners + 1
            ELSE /\ loading' = [key |-> next, got |-> saved[next]]
                 /\ UNCHANGED <<running, timers, listeners>>
    /\ UNCHANGED <<seen, lowPeers, saving, collecting, world, budget>>

\* stop: the timers go at once, the service still runs until its save is over.
\* The handlers stay: removeListener is given fresh functions.
Stop ==
    /\ running /\ saving["stop"] = "idle"
    /\ timers' = FALSE
    /\ \/ /\ saving' = [saving EXCEPT !["stop"] = "metrics"]
          /\ UNCHANGED running
       \/ /\ running' = FALSE
          /\ UNCHANGED saving
    /\ UNCHANGED <<counts, alerts, lowPeers, listeners, loading, collecting, world, budget>>

MonitorKill ==
    /\ monitorKillsLeft > 0 /\ monitorKillsLeft' = monitorKillsLeft - 1
    /\ metrics' = EmptyMetrics
    /\ blockTimes' = 0 /\ samples' = 0 /\ seen' = FALSE
    /\ alerts' = {} /\ lowPeers' = DefaultLowPeers
    /\ running' = FALSE /\ timers' = FALSE /\ listeners' = 0
    /\ loading' = NoLoad /\ saving' = NotSaving /\ collecting' = NotCollecting
    /\ UNCHANGED <<world, startsLeft, asidesLeft>>

MonitoringNext ==
    \/ NewBlock \/ PeersChange \/ PoolChanges
    \/ CheckAlerts \/ RecordPeerCount \/ RecordSample
    \/ SetAlertThresholds \/ ClearAlerts
    \/ Collect \/ CollectHeight \/ CollectRest
    \/ PersistTimer \/ \E by \in {"timer", "stop"} : Persist(by)
    \/ Start \/ Load \/ Stop \/ MonitorKill

MonitoringSpec == MonitoringInit /\ [][MonitoringNext]_monitorVars

----------------------------------------------------------------------------

MetricsType(m) ==
    /\ m.blockCount \in Nat /\ m.height \in Nat /\ m.lastBlock \in Nat /\ m.epoch \in Nat
    /\ m.selectionHistory \in Seq(Proposer) /\ Len(m.selectionHistory) <= HistorySize
    /\ DOMAIN m.proposedBlocks \subseteq Proposer
    /\ m.peerCount \in Nat /\ m.pending \in Nat

\* Counters are naturals, the history and the samples within their limits, in
\* memory and in Redis.
MonitoringTypeOK ==
    /\ MetricsType(metrics)
    /\ \A m \in saved.metrics : MetricsType(m)
    /\ blockTimes \in 0..SamplesKept /\ samples \in 0..SamplesKept
    /\ alerts \subseteq {"low"} /\ lowPeers \in LowPeers
    /\ running \in BOOLEAN /\ timers \in BOOLEAN /\ listeners \in Nat

SelectionsIn(m, v) ==
    Cardinality({i \in DOMAIN m.selectionHistory : m.selectionHistory[i] = v})

\* A validator is credited with at least the selections the history shows of
\* it, whatever mixture of saves, restarts, kills and loads made the two:
\* calculateStakeWeightedFairness weighs one by the other, and a history
\* without its counts would make the score a comparison with nothing.
HistoryCounted ==
    \A v \in Proposer : SelectionsIn(metrics, v) > 0 =>
        /\ v \in DOMAIN metrics.proposedBlocks
        /\ metrics.proposedBlocks[v] >= SelectionsIn(metrics, v)
====

----------------------------- MODULE PeerScoring -----------------------------
(***************************************************************************)
(* The scores of peers (src/network/peer_scoring.js).  Every call is       *)
(* synchronous and one action.                                             *)
(*                                                                         *)
(* Scores are fractions in the code.  Here they are counted in units of    *)
(* 1/(100*Grain): a weight is in hundredths, a category in 1/Grain, and    *)
(* what a decay takes is rounded down to that.  The measurements behind    *)
(* the four measured categories are abstracted to the score they lead to;  *)
(* time is whether a peer has gone without an update for a decay period.   *)
(***************************************************************************)
EXTENDS Integers, FiniteSets, FiniteSetsExt

CONSTANTS
    ScoredPeer,
    Grain,             \* parts of one point of behaviour
    Weight,            \* options.weights, in hundredths
    Low, High,         \* the thresholds crossed downwards and upwards, in points
    DecayPercent,      \* 100 * (1 - decayFactor)
    Mark,              \* bound of the model: the marks a measurement gives
    MaxBehavior,       \* bound of the model: points of behaviour a peer may reach
    MaxRecords         \* bound of the model: behaviours recorded

Measured == {"latency", "uptime", "block_propagation", "transaction_relay"}
Category == Measured \cup {"validator_status", "behavior"}

ASSUME ScoringAssumption ==
    /\ Weight \in [Category -> Nat] /\ Low \cup High \subseteq -100..100
    /\ Low \cap High = {} /\ Mark \subseteq 0..10 /\ DecayPercent \in 0..100
    /\ {Grain, MaxBehavior, MaxRecords} \subseteq Nat /\ Grain > 0

VARIABLES
    known,         \* the peers that have an entry
    category,      \* categories, in 1/Grain
    total,         \* totalScore, in 1/(100*Grain)
    stale,         \* peers not updated for a decay period
    decaying,      \* decayTimer is set
    crossed,       \* thresholds a peer was last reported to have crossed
    records        \* behaviours recorded so far

scoringVars == <<known, category, total, stale, decaying, crossed, records>>

-----------------------------------------------------------------------------
(* The total of a peer, and its thresholds *)

Points(x) == x * Grain
Clamp(x) == LET top == 100 * Points(100)
            IN  IF x > top THEN top ELSE IF x < -top THEN -top ELSE x

\* calculateTotalScore
TotalScore(c) == Clamp(MapThenSumSet(LAMBDA k : Weight[k] * c[k], Category))

AtLow(t, score) == score <= 100 * Points(t)
AtHigh(t, score) == score >= 100 * Points(t)

\* Mutant: only the first threshold that a change crosses is reported.
FirstCrossed(old, new) ==
    LET all == {t \in Low : ~AtLow(t, old) /\ AtLow(t, new)}
    IN  IF all = {} THEN {t \in High : ~AtHigh(t, old) /\ AtHigh(t, new)} ELSE {Min(all)}

\* checkThresholds: what it emits
Crossed(old, new) ==
    {t \in Low : ~AtLow(t, old) /\ AtLow(t, new)} \cup
    {t \in High : ~AtHigh(t, old) /\ AtHigh(t, new)}

Beyond(t, score) == IF t \in Low THEN AtLow(t, score) ELSE AtHigh(t, score)

\* Every update ends so: the new total, the time, the thresholds.
Rescored(p, c) ==
    LET new == TotalScore(c) IN
    /\ category' = [category EXCEPT ![p] = c]
    /\ total' = [total EXCEPT ![p] = new]
    /\ stale' = stale \ {p}
    /\ known' = known \cup {p}
    /\ crossed' = [crossed EXCEPT ![p] =
          {t \in @ : Beyond(t, new)} \cup Crossed(total[p], new)]

FreshScore(isValidator) ==
    [k \in Category |-> IF k = "validator_status" /\ isValidator THEN Points(10) ELSE 0]

\* initPeer: a validator starts with a total of 10, whatever the weights give.
Entry(p, isValidator) ==
    /\ known' = known \cup {p}
    /\ category' = [category EXCEPT ![p] = FreshScore(isValidator)]
    /\ total' = [total EXCEPT ![p] = IF isValidator THEN 100 * Points(10) ELSE 0]
    /\ stale' = stale \ {p}
    /\ crossed' = [crossed EXCEPT ![p] = {}]

-----------------------------------------------------------------------------
(* What is said of a peer *)

InitPeer(p, isValidator) ==
    /\ p \notin known /\ Entry(p, isValidator)
    /\ UNCHANGED <<decaying, records>>

\* The change of the score by what a peer did
ScoreChange(behavior) ==
    CASE behavior = "good_block" -> 2
      [] behavior = "bad_block" -> -5
      [] behavior \in {"good_transaction", "reconnect", "relay_success"} -> 1
      [] behavior = "bad_transaction" -> -2
      [] behavior = "spam" -> -10
      [] behavior = "invalid_message" -> -3
      [] behavior \in {"timeout", "disconnect", "relay_failure"} -> -1

\* recordBehavior, also of a peer without an entry
RecordBehavior(p, behavior) ==
    LET b == category[p]["behavior"] + Points(ScoreChange(behavior)) IN
    /\ records < MaxRecords /\ b \in -Points(MaxBehavior)..Points(MaxBehavior)
    /\ Rescored(p, [category[p] EXCEPT !["behavior"] = b])
    /\ records' = records + 1
    /\ UNCHANGED decaying

\* What the averages of a peer's measurements can lead to
LatencyMarks == {10, 8, 5, 2, 0}
UptimeMarks == {10, 8, 6, 4, 2, 0}

\* The share of valid blocks or transactions, and the time they took
BlockPropagationMarks == {valid + time : valid \in {0, 1, 3, 5, 7}, time \in 0..3}
TransactionRelayMarks == {valid + time : valid \in {0, 1, 3, 5, 7}, time \in 0..3}

Marks(k) ==
    Mark \cap (CASE k = "latency" -> LatencyMarks
                 [] k = "uptime" -> UptimeMarks
                 [] k = "block_propagation" -> BlockPropagationMarks
                 [] k = "transaction_relay" -> TransactionRelayMarks)

\* updateLatency, updateUptime, updateBlockPropagation and updateTransactionRelay;
\* the last two do no more than initPeer for a peer that nothing came from.
Measure(p, k, mark) ==
    /\ p \in known \/ k \in {"latency", "uptime"}
    /\ p \notin known \/ category[p][k] # Points(mark)
    /\ Rescored(p, [category[p] EXCEPT ![k] = Points(mark)])
    /\ UNCHANGED <<decaying, records>>

\* updateValidatorStatus: of a peer without an entry it is initPeer.
UpdateValidatorStatus(p, isValidator) ==
    /\ p \in known
    /\ Rescored(p, [category[p] EXCEPT !["validator_status"] =
          FreshScore(isValidator)["validator_status"]])
    /\ UNCHANGED <<decaying, records>>

ResetScore(p, isValidator) ==
    /\ Entry(p, isValidator)
    /\ UNCHANGED <<decaying, records>>

-----------------------------------------------------------------------------
(* Decay *)

Abs(x) == IF x < 0 THEN -x ELSE x

Larger(x, y) == IF x > y THEN x ELSE y

\* A decay takes DecayPercent of the behaviour, and one point at least.
DecayAmount(b) == Larger(Points(1), (Abs(b) * DecayPercent) \div 100)

Decayed(b) == IF DecayAmount(b) >= Abs(b) THEN 0
              ELSE IF b > 0 THEN b - DecayAmount(b) ELSE b + DecayAmount(b)

PeriodPasses == decaying /\ stale # known /\ stale' = known
                /\ UNCHANGED <<known, category, total, decaying, crossed, records>>

\* decayScores of one peer: the entries do not touch one another.
DecayScore(p) ==
    /\ decaying /\ p \in stale
    /\ Rescored(p, [category[p] EXCEPT !["behavior"] = Decayed(@)])
    /\ UNCHANGED <<decaying, records>>

CloseScoring ==
    /\ decaying
    /\ decaying' = FALSE
    /\ known' = {} /\ stale' = {}
    /\ category' = [p \in ScoredPeer |-> FreshScore(FALSE)]
    /\ total' = [p \in ScoredPeer |-> 0]
    /\ crossed' = [p \in ScoredPeer |-> {}]
    /\ UNCHANGED records

-----------------------------------------------------------------------------
\* The constructor starts the timer.
ScoringInit ==
    /\ known = {} /\ stale = {} /\ decaying = TRUE /\ records = 0
    /\ category = [p \in ScoredPeer |-> FreshScore(FALSE)]
    /\ total = [p \in ScoredPeer |-> 0]
    /\ crossed = [p \in ScoredPeer |-> {}]

Behavior == {"good_block", "bad_block", "good_transaction", "bad_transaction", "spam",
             "invalid_message", "timeout", "disconnect", "reconnect", "relay_success",
             "relay_failure"}

ScoringNext ==
    \/ \E p \in ScoredPeer, isValidator \in BOOLEAN :
          InitPeer(p, isValidator) \/ UpdateValidatorStatus(p, isValidator)
          \/ ResetScore(p, isValidator)
    \/ \E p \in ScoredPeer, behavior \in Behavior : RecordBehavior(p, behavior)
    \/ \E p \in ScoredPeer, k \in Measured : \E mark \in Marks(k) : Measure(p, k, mark)
    \/ PeriodPasses \/ CloseScoring
    \/ \E p \in ScoredPeer : DecayScore(p)

ScoringSpec == ScoringInit /\ [][ScoringNext]_scoringVars

ScoringTypeOK ==
    /\ known \subseteq ScoredPeer /\ stale \subseteq known
    /\ category \in [ScoredPeer -> [Category -> Int]]
    /\ total = [p \in ScoredPeer |-> Clamp(total[p])]
    /\ decaying \in BOOLEAN
    /\ crossed \in [ScoredPeer -> SUBSET (Low \cup High)]
    /\ records \in Nat

-----------------------------------------------------------------------------
(* Properties *)

\* The listeners have been told of every threshold a peer is at or beyond, and
\* of no other one, however a score got there: several at once, by decay, or
\* by a change of category after the score had recovered.
CrossingsReported ==
    \A p \in ScoredPeer : crossed[p] = {t \in Low \cup High : Beyond(t, total[p])}

=============================================================================

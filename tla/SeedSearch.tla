----------------------------- MODULE SeedSearch -----------------------------
(***************************************************************************)
(* The search for the addresses a node starts with                         *)
(* (src/network/dns_seeds.js): the stored addresses, then the seeds that   *)
(* answer, each name server and each seed with its own timeout.            *)
(***************************************************************************)
EXTENDS Integers, FiniteSetsExt

CONSTANTS
    SeedAddress,
    DnsSeed,           \* names, asked one after the other
    Hardcoded,         \* hardcodedSeeds
    BatchSize, Enough, \* 5 seeds are tried at a time, until 5 answer
    Few,               \* with fewer stored addresses the DNS seeds are asked
    MaxSearches        \* bound of the model

ASSUME SearchAssumption ==
    /\ Hardcoded \subseteq SeedAddress
    /\ {BatchSize, Enough, Few, MaxSearches} \subseteq Nat /\ BatchSize > 0

VARIABLES
    peersDat,      \* the addresses peer_storage.js has written to peers.dat
    peersJson,     \* those in peers.json
    search,        \* what the search waits for
    stored,        \* persistedPeers
    asked,         \* DNS seeds asked
    seeds,         \* seedNodes not tried yet
    trying,        \* seeds of the batch, with what is known of them
    reachable,     \* reachableSeeds
    wanted,        \* what peers.dat held when the search began
    searches

fileVars == <<peersDat, peersJson>>
searchVars == <<fileVars, search, stored, asked, seeds, trying, reachable, wanted, searches>>

SearchTypeOK ==
    /\ {peersDat, peersJson, stored, seeds, reachable, wanted} \subseteq SUBSET SeedAddress
    /\ search \in {"none", "resolving", "trying", "answered"}
    /\ asked \subseteq DnsSeed
    /\ trying \in [SeedAddress -> {"no", "awaited", "reached", "failed"}]
    /\ searches \in 0..MaxSearches

\* savePeers of peer_storage.js
PeersWritten(as) ==
    /\ peersDat' = as
    /\ UNCHANGED <<peersJson, search, stored, asked, seeds, trying, reachable, wanted, searches>>

Untried == [a \in SeedAddress |-> "no"]

\* getBootstrapPeers begins with peers.json, which no part of a node writes.
Search ==
    /\ search \in {"none", "answered"} /\ searches < MaxSearches
    /\ searches' = searches + 1
    /\ stored' = peersJson /\ wanted' = peersDat
    /\ search' = "resolving"
    /\ asked' = IF Cardinality(stored') < Few THEN {} ELSE DnsSeed
    /\ seeds' = Hardcoded /\ reachable' = {} /\ trying' = Untried
    /\ UNCHANGED fileVars

\* resolveDNSSeeds: a seed answers, or fails, or is given up after the timeout
Resolved(d, answer) ==
    /\ search = "resolving" /\ d \notin asked
    /\ asked' = asked \cup {d}
    /\ seeds' = seeds \cup answer
    /\ UNCHANGED <<fileVars, search, stored, trying, reachable, wanted, searches>>

UnderWay == {a \in SeedAddress : trying[a] = "awaited"}

\* The next batch, or the end when there are no seeds left
Batch(rest) ==
    IF rest = {} THEN search' = "answered" /\ seeds' = {} /\ trying' = Untried
    ELSE /\ search' = "trying"
         /\ \E next \in kSubset(Min({BatchSize, Cardinality(rest)}), rest) :
               /\ seeds' = rest \ next
               /\ trying' = [a \in SeedAddress |-> IF a \in next THEN "awaited" ELSE "no"]

TryFirst ==
    /\ search = "resolving" /\ asked = DnsSeed
    /\ Batch(seeds)
    /\ UNCHANGED <<fileVars, stored, asked, reachable, wanted, searches>>

\* checkSeedNodeReachable: a connection, a timeout or an error, the first of them
Tried(a, outcome) ==
    /\ a \in UnderWay
    /\ trying' = [trying EXCEPT ![a] = outcome]
    /\ UNCHANGED <<fileVars, search, stored, asked, seeds, reachable, wanted, searches>>

SeedsSuffice(found) == Cardinality(found) >= Enough

BatchDone ==
    LET found == reachable \cup {a \in SeedAddress : trying[a] = "reached"}
    IN  /\ search = "trying" /\ UnderWay = {}
        /\ reachable' = found
        /\ IF SeedsSuffice(found)
           THEN search' = "answered" /\ trying' = Untried /\ UNCHANGED seeds
           ELSE Batch(seeds)
        /\ UNCHANGED <<fileVars, stored, asked, wanted, searches>>

SearchInit ==
    /\ peersDat = {} /\ peersJson = {}
    /\ search = "none" /\ stored = {} /\ asked = {} /\ seeds = {} /\ reachable = {}
    /\ wanted = {} /\ searches = 0
    /\ trying = Untried

SearchNext ==
    \/ \E as \in SUBSET SeedAddress : PeersWritten(as)
    \/ Search \/ TryFirst \/ BatchDone
    \/ \E d \in DnsSeed, answer \in SUBSET SeedAddress : Resolved(d, answer)
    \/ \E a \in SeedAddress, outcome \in {"reached", "failed"} : Tried(a, outcome)

SearchSpec == SearchInit /\ [][SearchNext]_searchVars

-----------------------------------------------------------------------------
(* Properties *)

\* The answer of a search holds the addresses the node had saved before
\* (docs/SEED_NODE_SYSTEM.md: the resolver provides bootstrap peers combining
\* persisted peers, hardcoded seeds and DNS seeds).
SavedAreOffered == search = "answered" => wanted \subseteq stored \cup reachable
=============================================================================

------------------------------ MODULE UTXOStore ------------------------------
(***************************************************************************)
(* The store of unspent outputs (src/storage/utxo_store.js): sets in       *)
(* memory, and a log file that is replayed when a process starts.          *)
(*                                                                         *)
(* A call changes the memory at once and then writes its entry piece by    *)
(* piece, waiting for each piece; whatever position it names, the piece    *)
(* goes to the end of the file, which is opened for appending.  Compaction *)
(* writes the unspent outputs to another file, one at a time, and puts     *)
(* that in the place of the log.  Writes survive the end of the process,   *)
(* so fsync is left out, and with it the flag dirty.                       *)
(*                                                                         *)
(* An output is created by one transaction, and its address is part of it. *)
(***************************************************************************)
EXTENDS Integers, FiniteSets, Sequences, SequencesExt

CONSTANTS
    Outpoint,
    Address,
    Owner,                \* the address of each output
    Caller,               \* bounds the calls under way at a time
    CompactionThreshold,  \* in percent
    ErrorListener,        \* TRUE when somebody listens to 'error'
    NoOutpoint,
    MaxEntries            \* bounds the entries of the log

ASSUME OutputAssumption ==
    /\ IsFiniteSet(Outpoint) /\ NoOutpoint \notin Outpoint
    /\ Owner \in [Outpoint -> Address]
ASSUME SettingAssumption ==
    /\ CompactionThreshold \in 1..100
    /\ ErrorListener \in BOOLEAN
    /\ MaxEntries \in Nat

VARIABLES
    up, isOpen,
    utxoSet, utxoIndex, spentOutputs, totalUtxoCount, spentUtxoCount,
    handle,      \* utxoFileHandle: "open", "closed" or "null"
    call,        \* what each caller has under way
    compaction,  \* the compaction under way
    timers,      \* the interval that checks for compaction is there
    closing,     \* how far close() has come
    file,        \* the log on disk
    created,     \* history: outputs ever added
    disturbed    \* history: a call overlapped another, a compaction or close(),
                 \* or was cut off

sets == <<utxoSet, utxoIndex, spentOutputs, totalUtxoCount, spentUtxoCount>>
history == <<created, disturbed>>
vars == <<up, isOpen, sets, handle, call, compaction, timers, closing, file, history>>

Entry == [type : {"add", "spend"}, of : Outpoint]

\* type, length and outpoint, and for an addition the length and the output
Pieces(type) == IF type = "add" THEN 5 ELSE 3

Idle == [pc |-> "idle"]

Quiet == \A c \in Caller : call[c] = Idle

NoCompaction == [pc |-> "no"]

-----------------------------------------------------------------------------
(***************************************************************************)
(* The log.  It is read entry by entry; once entries have mixed, or follow *)
(* one that was cut off, how the bytes after that are read depends on      *)
(* their values, and every entry there may be found or missed.             *)
(***************************************************************************)
EmptyFile == [log |-> <<>>, doubtful |-> <<>>, damaged |-> FALSE, tail |-> "whole"]

\* What an entry that was cut off is to the next reader: reading fails, but
\* for a spending without its outpoint, which spends the outpoint ''.
LeftBy(c) ==
    LET k == call[c] IN
    IF k = Idle THEN "whole"
    ELSE IF k.n = 0 \/ ~k.here THEN "whole"
    ELSE IF k.type = "spend" /\ k.n = 2 THEN "nameless" ELSE "cut"

Unfinished(c) == LeftBy(c) # "whole"

\* The file when the entry of c is given up.
CutOff(c) == IF Unfinished(c) THEN [file EXCEPT !.tail = LeftBy(c)] ELSE file

\* The file with one more piece of the entry of c.
Written(c) ==
    LET k == call[c]
        mixed == \/ file.damaged \/ file.tail # "whole"
                 \/ k.n > 0 /\ ~k.here
                 \/ \E d \in Caller \ {c} : Unfinished(d)
        entry == [type |-> k.type, of |-> k.of]
        last  == k.n + 1 = Pieces(k.type)
    IN
    [file EXCEPT !.damaged = mixed,
                 !.log = IF last /\ ~mixed THEN Append(@, entry) ELSE @,
                 !.doubtful = IF last /\ mixed THEN Append(@, entry) ELSE @]

Entries == Len(file.log) + Len(file.doubtful)

\* the outputs that are unspent after a log was read
Unspent(log) ==
    {o \in Outpoint :
        \E i \in DOMAIN log :
            /\ log[i] = [type |-> "add", of |-> o]
            /\ \A j \in i + 1..Len(log) : log[j] # [type |-> "spend", of |-> o]}

-----------------------------------------------------------------------------
(* Adding and spending *)

\* addUTXO and spendUTXO up to the first await
Begins(c, type, o) ==
    /\ up /\ isOpen /\ call[c] = Idle
    /\ Entries + Cardinality({d \in Caller : call[d] # Idle}) < MaxEntries
    /\ call' = [call EXCEPT ![c] = [pc |-> "writing", type |-> type, of |-> o,
                                    n |-> 0, here |-> TRUE]]
    /\ disturbed' = (disturbed \/ ~Quiet \/ compaction # NoCompaction \/ closing # "no")
    /\ UNCHANGED <<up, isOpen, handle, compaction, timers, closing, file>>

AddUTXO(c, o) ==
    /\ Begins(c, "add", o)
    /\ o \notin created
    /\ created' = created \cup {o}
    /\ utxoSet' = utxoSet \cup {o}
    /\ totalUtxoCount' = totalUtxoCount + 1
    /\ utxoIndex' = [utxoIndex EXCEPT ![Owner[o]] = @ \cup {o}]
    /\ UNCHANGED <<spentOutputs, spentUtxoCount>>

Unindexed(o) == [utxoIndex EXCEPT ![Owner[o]] = @ \ {o}]

SpendUTXO(c, o) ==
    /\ Begins(c, "spend", o)
    /\ o \in utxoSet
    /\ utxoSet' = utxoSet \ {o}
    /\ spentOutputs' = spentOutputs \cup {o}
    /\ spentUtxoCount' = spentUtxoCount + 1
    /\ utxoIndex' = Unindexed(o)
    /\ UNCHANGED <<totalUtxoCount, created>>

\* The next piece arrives in the file.
WritePiece(c) ==
    /\ up /\ call[c] # Idle /\ handle = "open"
    /\ file' = Written(c)
    /\ call' = IF call[c].n + 1 = Pieces(call[c].type)
               THEN [call EXCEPT ![c] = Idle]
               ELSE [call EXCEPT ![c].n = @ + 1]
    /\ UNCHANGED <<up, isOpen, sets, handle, compaction, timers, closing, history>>

\* The call fails; its change of the memory stays.
WriteFails(c) ==
    /\ up /\ call[c] # Idle /\ handle # "open"
    /\ file' = CutOff(c)
    /\ call' = [call EXCEPT ![c] = Idle]
    /\ UNCHANGED <<up, isOpen, sets, handle, compaction, timers, closing, history>>

-----------------------------------------------------------------------------
(* Compaction *)

\* Mutant: exactly at the threshold nothing is done.
AboveThreshold == spentUtxoCount * 100 > totalUtxoCount * CompactionThreshold

\* the ratio 0 / 0 is not a number and never large enough
NeedsCompaction ==
    /\ spentUtxoCount * 100 >= totalUtxoCount * CompactionThreshold
    /\ spentUtxoCount > 0

\* The iterator of a map also visits what is added meanwhile, and not what is
\* deleted before it came there.
NextCopies(done) ==
    IF utxoSet \subseteq done THEN {NoOutpoint} ELSE utxoSet \ done

compactionFrame == <<up, isOpen, utxoSet, utxoIndex, call, timers, closing, created>>

\* checkCompaction, by its timer
CheckCompaction ==
    /\ up /\ isOpen /\ timers /\ compaction = NoCompaction
    /\ NeedsCompaction
    /\ compaction' = [pc |-> "begin"]
    /\ disturbed' = (disturbed \/ ~Quiet)
    /\ UNCHANGED <<compactionFrame, spentOutputs, totalUtxoCount, spentUtxoCount, handle, file>>

\* The temporary file is open and empty.
TempOpened ==
    /\ up /\ compaction.pc = "begin"
    /\ \E o \in NextCopies({}) :
            compaction' = [pc |-> "copy", copied |-> {}, copying |-> o]
    /\ UNCHANGED <<compactionFrame, spentOutputs, totalUtxoCount, spentUtxoCount, handle,
                   file, disturbed>>

\* One more output is in the temporary file.
Copied ==
    /\ up /\ compaction.pc = "copy" /\ compaction.copying # NoOutpoint
    /\ LET done == compaction.copied \cup {compaction.copying} IN
       \E o \in NextCopies(done) :
            compaction' = [pc |-> "copy", copied |-> done, copying |-> o]
    /\ UNCHANGED <<compactionFrame, spentOutputs, totalUtxoCount, spentUtxoCount, handle,
                   file, disturbed>>

\* All are, and the log is closed unless close() has taken its handle away.
LogClosed ==
    /\ up /\ compaction.pc = "copy" /\ compaction.copying = NoOutpoint
    /\ handle # "null"
    /\ handle' = "closed"
    /\ compaction' = [compaction EXCEPT !.pc = "rename"]
    /\ UNCHANGED <<compactionFrame, spentOutputs, totalUtxoCount, spentUtxoCount, file, disturbed>>

\* The files of a process survive it; what it held in memory does not.
Dies ==
    /\ up' = FALSE /\ isOpen' = FALSE
    /\ utxoSet' = {} /\ utxoIndex' = [a \in Address |-> {}] /\ spentOutputs' = {}
    /\ totalUtxoCount' = 0 /\ spentUtxoCount' = 0
    /\ handle' = "null"
    /\ call' = [c \in Caller |-> Idle]
    /\ compaction' = NoCompaction /\ closing' = "no" /\ timers' = FALSE
    /\ file' = IF \E c \in Caller : Unfinished(c)
               THEN CutOff(CHOOSE c \in Caller : Unfinished(c)) ELSE file
    /\ disturbed' = (disturbed \/ ~Quiet)
    /\ UNCHANGED created

CompactionFails ==
    /\ up /\ compaction.pc = "copy" /\ compaction.copying = NoOutpoint
    /\ handle = "null"
    /\ IF ErrorListener
       THEN /\ compaction' = NoCompaction
            /\ UNCHANGED <<compactionFrame, spentOutputs, totalUtxoCount, spentUtxoCount,
                           handle, file, disturbed>>
       ELSE Dies

\* Mutant: what was spent meanwhile, or before, is in the new file too.
EveryOutput == compaction.copied \cup spentOutputs

Compacted == compaction.copied

\* Calls that have begun their entry in the old file go on in the new one.
Renamed ==
    /\ up /\ compaction.pc = "rename"
    /\ file' = [EmptyFile EXCEPT !.log =
                    SetToSeq({[type |-> "add", of |-> o] : o \in Compacted})]
    /\ call' = [c \in Caller |-> IF call[c] # Idle /\ call[c].n > 0
                                 THEN [call[c] EXCEPT !.here = FALSE] ELSE call[c]]
    /\ compaction' = [compaction EXCEPT !.pc = "open"]
    /\ UNCHANGED <<up, isOpen, sets, handle, timers, closing, history>>

\* Mutant: the spent outputs are still counted.
SpentStays == spentUtxoCount

SpentAfterCompaction == 0

Reopened ==
    /\ up /\ compaction.pc = "open"
    /\ handle' = "open"
    /\ spentOutputs' = {} /\ spentUtxoCount' = SpentAfterCompaction
    /\ totalUtxoCount' = Cardinality(utxoSet)
    /\ compaction' = NoCompaction
    /\ UNCHANGED <<compactionFrame, file, disturbed>>

-----------------------------------------------------------------------------
(* Closing and starting *)

closeFrame == <<up, sets, call, compaction, file, created>>

\* close() up to the sync, which fails on a log that a compaction has closed,
\* unless nothing was written since the last.  The timers are gone either way.
Close ==
    /\ up /\ isOpen /\ closing = "no"
    /\ timers' = FALSE
    /\ closing' \in IF handle = "closed" THEN {"sync", "no"} ELSE {"sync"}
    /\ disturbed' = (disturbed \/ ~Quiet)
    /\ UNCHANGED <<closeFrame, isOpen, handle>>

CloseLog ==
    /\ up /\ closing = "sync"
    /\ closing' = "log"
    /\ handle' = IF handle = "open" THEN "closed" ELSE handle
    /\ UNCHANGED <<closeFrame, isOpen, timers, disturbed>>

CloseIndex ==
    /\ up /\ closing = "log"
    /\ closing' = "index"
    /\ handle' = "null"
    /\ UNCHANGED <<closeFrame, isOpen, timers, disturbed>>

Closed ==
    /\ up /\ closing = "index"
    /\ closing' = "no"
    /\ isOpen' = FALSE
    /\ UNCHANGED <<closeFrame, handle, timers, disturbed>>

Kill == up /\ Dies

\* The entries at some places of the doubtful part, in their order.
Found(places) ==
    LET order == SetToSortSeq(places, <) IN
    [i \in DOMAIN order |-> file.doubtful[order[i]]]

\* What a reader finds: everything up to the first damage, and some of the
\* rest.  It fails on an entry that was cut off.
Readings ==
    IF file.damaged THEN {file.log \o Found(places) : places \in SUBSET DOMAIN file.doubtful}
    ELSE IF file.tail = "cut" THEN {}
    ELSE {file.log}

\* initialize, in a new process
Initialize ==
    /\ ~up
    /\ \E log \in Readings :
        LET spends == {i \in DOMAIN log : log[i].type = "spend"} IN
        /\ utxoSet' = Unspent(log)
        /\ utxoIndex' = [a \in Address |-> {o \in utxoSet' : Owner[o] = a}]
        /\ spentOutputs' = {log[i].of : i \in spends}
        /\ totalUtxoCount' = Len(log) - Cardinality(spends)
        /\ spentUtxoCount' = Cardinality(spends)
                + IF ~file.damaged /\ file.tail = "nameless" THEN 1 ELSE 0
    /\ up' = TRUE /\ isOpen' = TRUE /\ timers' = TRUE
    /\ handle' = "open"
    /\ UNCHANGED <<call, compaction, closing, file, history>>

-----------------------------------------------------------------------------
(* The specification *)

Init ==
    /\ up = FALSE /\ isOpen = FALSE
    /\ utxoSet = {} /\ utxoIndex = [a \in Address |-> {}] /\ spentOutputs = {}
    /\ totalUtxoCount = 0 /\ spentUtxoCount = 0
    /\ handle = "null"
    /\ call = [c \in Caller |-> Idle]
    /\ compaction = NoCompaction /\ timers = FALSE /\ closing = "no"
    /\ file = EmptyFile
    /\ created = {} /\ disturbed = FALSE

CallStep(c) ==
    \/ \E o \in Outpoint : AddUTXO(c, o) \/ SpendUTXO(c, o)
    \/ WritePiece(c)
    \/ WriteFails(c)

CompactionStep ==
    \/ TempOpened
    \/ Copied
    \/ LogClosed
    \/ CompactionFails
    \/ Renamed
    \/ Reopened

ProcessStep ==
    \/ Close
    \/ CloseLog
    \/ CloseIndex
    \/ Closed
    \/ Kill
    \/ Initialize

Next ==
    \/ \E c \in Caller : CallStep(c)
    \/ CheckCompaction
    \/ CompactionStep
    \/ ProcessStep

Spec == Init /\ [][Next]_vars

\* The interval of the compaction fires, and its file operations end.
Fairness == WF_vars(CheckCompaction) /\ WF_vars(CompactionStep)

FairSpec == Spec /\ Fairness

-----------------------------------------------------------------------------
(* Properties *)

\* What is kept beside the set of unspent outputs is true of it: the index
\* that balances are read from always; and as long as no call is disturbed the
\* counters that decide about compaction, and that no output is spent and
\* unspent, after any number of restarts and compactions.
BooksAgree ==
    /\ \A a \in Address : utxoIndex[a] = {o \in utxoSet : Owner[o] = a}
    /\ up /\ ~disturbed =>
        /\ totalUtxoCount - spentUtxoCount = Cardinality(utxoSet)
        /\ utxoSet \cap spentOutputs = {}

\* What is unspent: in memory, or for whoever reads the log when no process
\* has it open.
UnspentNow == IF up THEN utxoSet ELSE Unspent(file.log)

Promise == INSTANCE Outputs WITH unspent <- UnspentNow

\* The store implements Outputs: until a call is disturbed no output is lost
\* and none that was spent comes back, whenever the process ends, also in the
\* middle of a compaction.
ImplementsOutputs == Promise!Spec

MostlySpent ==
    spentUtxoCount > 0 /\ spentUtxoCount * 100 >= totalUtxoCount * CompactionThreshold

\* A log of which enough is spent is compacted, unless somebody tries to close
\* the store or the process ends.
Compacts == isOpen /\ MostlySpent ~> ~MostlySpent \/ ~timers

=============================================================================

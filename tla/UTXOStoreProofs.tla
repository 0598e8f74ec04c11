--------------------------- MODULE UTXOStoreProofs ---------------------------
(***************************************************************************)
(* What holds of the store of unspent outputs for any set of outputs,      *)
(* addresses and callers: what it keeps beside the outputs is true of      *)
(* them, and it implements Outputs.                                        *)
(*                                                                         *)
(* Neither is inductive.  Until a call is disturbed at most one is under   *)
(* way (OneCall), the log is whole and says what is unspent but for the    *)
(* entry of that call (Sound), no log spends an output twice or adds a     *)
(* spent one again (GoodLog), and a compaction copies what is unspent and  *)
(* nothing else (CopyGood); the counters of a store that starts are right  *)
(* because a good log has two entries for an output that is spent and one  *)
(* for an output that is not.                                              *)
(***************************************************************************)
EXTENDS UTXOStore, FiniteSetTheorems, TLAPS

\* The calls and the compaction under way
Writer == [pc : {"writing"}, type : {"add", "spend"}, of : Outpoint, n : Nat, here : BOOLEAN]

Copying == [pc : {"copy", "rename", "open"}, copied : SUBSET Outpoint,
            copying : Outpoint \cup {NoOutpoint}]

Calls ==
    /\ call \in [Caller -> {Idle} \cup Writer] /\ disturbed \in BOOLEAN
    /\ compaction \in {NoCompaction, [pc |-> "begin"]} \cup Copying
    /\ ~up => compaction = NoCompaction

\* The index by address, and the handle that calls of an open store write with
Indexed ==
    /\ utxoSet \subseteq Outpoint
    /\ utxoIndex = [a \in Address |-> {o \in utxoSet : Owner[o] = a}]

HandleOpen ==
    up /\ isOpen /\ closing = "no" /\ compaction.pc \in {"no", "begin", "copy"}
      => handle = "open"

Spendings(log) == {i \in DOMAIN log : log[i].type = "spend"}

SpentBy(log) == {log[i].of : i \in Spendings(log)}

\* A log of outputs that were created, in which no output is spent before it is
\* added or added again.
GoodLog(log) ==
    /\ log \in Seq(Entry)
    /\ \A i \in DOMAIN log : log[i].of \in created
    /\ Unspent(log) \cap SpentBy(log) = {}
    /\ Len(log) - 2 * Cardinality(Spendings(log)) = Cardinality(Unspent(log))

\* One call at a time, beside nothing else; its entry is on its way to the log.
OneCall ==
    /\ \A c, d \in Caller : call[c] # Idle /\ call[d] # Idle => c = d
    /\ \A c \in Caller : call[c] # Idle =>
          /\ up /\ isOpen /\ compaction = NoCompaction /\ closing = "no" /\ call[c].here
          /\ call[c].type = "add" =>
                /\ utxoSet = Unspent(file.log) \cup {call[c].of} /\ call[c].of \in created
                /\ \A i \in DOMAIN file.log : file.log[i].of # call[c].of
          /\ call[c].type = "spend" =>
                call[c].of \in Unspent(file.log) /\ utxoSet = Unspent(file.log) \ {call[c].of}

\* What is kept beside the outputs
Books ==
    /\ totalUtxoCount \in Int /\ spentUtxoCount \in Int
    /\ totalUtxoCount - spentUtxoCount = Cardinality(utxoSet)
    /\ utxoSet \cap spentOutputs = {}
    /\ spentOutputs \subseteq created /\ utxoSet \subseteq created

\* What a compaction has copied is what will be unspent.
CopyGood ==
    /\ compaction.pc = "copy" =>
          /\ compaction.copied \subseteq utxoSet
          /\ IF compaction.copying = NoOutpoint THEN compaction.copied = utxoSet
             ELSE compaction.copying \in utxoSet
    /\ compaction.pc = "rename" => compaction.copied = utxoSet

\* No damage, and nothing after it.
WholeFile == [log : Seq(Entry), doubtful : {<<>>}, damaged : {FALSE}, tail : {"whole"}]

Sound ==
    /\ file \in WholeFile /\ GoodLog(file.log)
    /\ OneCall
    /\ Quiet /\ up => utxoSet = Unspent(file.log)
    /\ ~up => Quiet
    /\ up => Books /\ CopyGood

OutputInv == Calls /\ Indexed /\ HandleOpen /\ (~disturbed => Sound)

-----------------------------------------------------------------------------
(* What is unspent after a log *)

Added(o) == [type |-> "add", of |-> o]
Spent(o) == [type |-> "spend", of |-> o]

LEMMA UnspentOutputs == ASSUME NEW log PROVE Unspent(log) \subseteq Outpoint
BY DEF Unspent

\* What is unspent after a log was named in it.
LEMMA UnspentNamed ==
    ASSUME NEW log \in Seq(Entry), NEW o \in Unspent(log)
    PROVE  \E i \in DOMAIN log : log[i].of = o
BY DEF Unspent

LEMMA FiniteUnspent == ASSUME NEW S \in SUBSET Outpoint PROVE IsFiniteSet(S) /\ Cardinality(S) \in Nat
BY OutputAssumption, FS_Subset, FS_CardinalityType

LEMMA FiniteSpendings ==
    ASSUME NEW log \in Seq(Entry)
    PROVE  IsFiniteSet(Spendings(log)) /\ Cardinality(Spendings(log)) \in Nat
<1>1. Len(log) \in Nat /\ DOMAIN log = 1..Len(log)
  OBVIOUS
<1>2. IsFiniteSet(1..Len(log))
  BY <1>1, FS_Interval
<1>3. Spendings(log) \subseteq 1..Len(log)
  BY <1>1 DEF Spendings
<1>4. QED
  BY <1>2, <1>3, FS_Subset, FS_CardinalityType

\* The places of a log that has got one more entry
LEMMA Appended ==
    ASSUME NEW log \in Seq(Entry), NEW e \in Entry
    PROVE  /\ Append(log, e) \in Seq(Entry)
           /\ Len(log) \in Nat /\ Len(Append(log, e)) = Len(log) + 1
           /\ DOMAIN log = 1..Len(log) /\ DOMAIN Append(log, e) = 1..Len(log) + 1
           /\ Append(log, e)[Len(log) + 1] = e
           /\ \A i \in 1..Len(log) : Append(log, e)[i] = log[i]
OBVIOUS

LEMMA UnspentAfterAdd ==
    ASSUME NEW log \in Seq(Entry), NEW o \in Outpoint,
           \A i \in DOMAIN log : log[i].of # o
    PROVE  /\ Unspent(Append(log, Added(o))) = Unspent(log) \cup {o}
           /\ Spendings(Append(log, Added(o))) = Spendings(log)
           /\ SpentBy(Append(log, Added(o))) = SpentBy(log)
<1> DEFINE e == Added(o)
           l == Append(log, e)
           n == Len(log)
<1>1. e \in Entry /\ e.type = "add" /\ e.of = o
  BY DEF Entry, Added
<1>2. /\ n \in Nat /\ DOMAIN log = 1..n /\ DOMAIN l = 1..n + 1 /\ Len(l) = n + 1
      /\ l[n + 1] = e /\ \A i \in 1..n : l[i] = log[i]
  BY <1>1, Appended
<1>3. \A i \in 1..n : log[i] \in Entry
  BY <1>2
<1> HIDE DEF e, l, n
<1>4. Spendings(l) = Spendings(log)
  BY <1>1, <1>2 DEF Spendings
<1>5. SpentBy(l) = SpentBy(log)
  BY <1>2, <1>4 DEF SpentBy, Spendings
<1>6. ASSUME NEW p \in Outpoint PROVE p \in Unspent(l) <=> p \in Unspent(log) \cup {o}
  <2>1. CASE p = o
    <3>1. l[n + 1] = [type |-> "add", of |-> o]
      BY <1>2 DEF e, Added
    <3>2. n + 1 \in DOMAIN l /\ \A j \in (n + 1) + 1..Len(l) : FALSE
      BY <1>2
    <3>3. o \in Unspent(l)
      BY <3>1, <3>2 DEF Unspent
    <3>4. QED
      BY <2>1, <3>3
  <2>2. CASE p # o
    <3>1. ASSUME p \in Unspent(log) PROVE p \in Unspent(l)
      <4>1. PICK i \in 1..n : /\ log[i] = [type |-> "add", of |-> p]
                              /\ \A j \in i + 1..n : log[j] # [type |-> "spend", of |-> p]
        BY <1>2, <3>1 DEF Unspent, n
      <4>2. \A j \in i + 1..n + 1 : l[j] # [type |-> "spend", of |-> p]
        <5>1. TAKE j \in i + 1..n + 1
        <5>2. CASE j = n + 1
          BY <1>1, <1>2, <5>2
        <5>3. CASE j # n + 1
          BY <1>2, <4>1, <5>3
        <5>4. QED
          BY <5>2, <5>3
      <4>3. i \in DOMAIN l /\ l[i] = [type |-> "add", of |-> p] /\ Len(l) = n + 1
        BY <1>2, <4>1
      <4>4. QED
        BY <4>2, <4>3 DEF Unspent
    <3>2. ASSUME p \in Unspent(l) PROVE p \in Unspent(log)
      <4>1. PICK i \in 1..n + 1 : /\ l[i] = [type |-> "add", of |-> p]
                                  /\ \A j \in i + 1..n + 1 : l[j] # [type |-> "spend", of |-> p]
        BY <1>2, <3>2 DEF Unspent
      <4>2. i # n + 1
        BY <1>1, <1>2, <2>2, <4>1
      <4>3. i \in 1..n /\ log[i] = [type |-> "add", of |-> p]
        BY <1>2, <4>1, <4>2
      <4>4. \A j \in i + 1..n : log[j] # [type |-> "spend", of |-> p]
        BY <1>2, <4>1, <4>3
      <4>5. QED
        BY <1>2, <4>3, <4>4 DEF Unspent, n
    <3>3. QED
      BY <2>2, <3>1, <3>2
  <2>3. QED
    BY <2>1, <2>2
<1>7. Unspent(l) = Unspent(log) \cup {o}
  BY <1>6, UnspentOutputs
<1>8. QED
  BY <1>4, <1>5, <1>7 DEF l, e

LEMMA UnspentAfterSpend ==
    ASSUME NEW log \in Seq(Entry), NEW o \in Outpoint
    PROVE  /\ Unspent(Append(log, Spent(o))) = Unspent(log) \ {o}
           /\ Spendings(Append(log, Spent(o))) = Spendings(log) \cup {Len(log) + 1}
           /\ SpentBy(Append(log, Spent(o))) = SpentBy(log) \cup {o}
           /\ Len(log) + 1 \notin Spendings(log)
<1> DEFINE e == Spent(o)
           l == Append(log, e)
           n == Len(log)
<1>1. e \in Entry /\ e.type = "spend" /\ e.of = o /\ e = [type |-> "spend", of |-> o]
  BY DEF Entry, Spent
<1>2. /\ n \in Nat /\ DOMAIN log = 1..n /\ DOMAIN l = 1..n + 1 /\ Len(l) = n + 1
      /\ l[n + 1] = e /\ \A i \in 1..n : l[i] = log[i]
  BY <1>1, Appended
<1> HIDE DEF e, l, n
<1>3. n + 1 \notin Spendings(log)
  BY <1>2 DEF Spendings
<1>4. Spendings(l) = Spendings(log) \cup {n + 1}
  <2>1. ASSUME NEW i PROVE i \in Spendings(l) <=> i \in Spendings(log) \cup {n + 1}
    <3>1. CASE i = n + 1
      BY <1>1, <1>2, <3>1 DEF Spendings
    <3>2. CASE i # n + 1
      BY <1>2, <3>2 DEF Spendings
    <3>3. QED
      BY <3>1, <3>2
  <2>2. QED
    BY <2>1
<1>5. SpentBy(l) = SpentBy(log) \cup {o}
  <2>1. \A i \in Spendings(log) : i \in 1..n /\ l[i] = log[i]
    BY <1>2 DEF Spendings
  <2>2. l[n + 1].of = o
    BY <1>1, <1>2
  <2>3. QED
    BY <1>4, <2>1, <2>2 DEF SpentBy
<1>6. ASSUME NEW p \in Outpoint PROVE p \in Unspent(l) <=> p \in Unspent(log) \ {o}
  <2>1. ASSUME p \in Unspent(l) PROVE p \in Unspent(log) /\ p # o
    <3>1. PICK i \in 1..n + 1 : /\ l[i] = [type |-> "add", of |-> p]
                                /\ \A j \in i + 1..n + 1 : l[j] # [type |-> "spend", of |-> p]
      BY <1>2, <2>1 DEF Unspent
    <3>2. i # n + 1
      BY <1>1, <1>2, <3>1
    <3>3. i \in 1..n /\ n + 1 \in i + 1..n + 1
      BY <1>2, <3>1, <3>2
    <3>4. p # o
      BY <1>1, <1>2, <3>1, <3>3
    <3>5. log[i] = [type |-> "add", of |-> p]
      BY <1>2, <3>1, <3>3
    <3>6. \A j \in i + 1..n : log[j] # [type |-> "spend", of |-> p]
      BY <1>2, <3>1, <3>3
    <3>7. QED
      BY <1>2, <3>3, <3>4, <3>5, <3>6 DEF Unspent, n
  <2>2. ASSUME p \in Unspent(log), p # o PROVE p \in Unspent(l)
    <3>1. PICK i \in 1..n : /\ log[i] = [type |-> "add", of |-> p]
                            /\ \A j \in i + 1..n : log[j] # [type |-> "spend", of |-> p]
      BY <1>2, <2>2 DEF Unspent, n
    <3>2. \A j \in i + 1..n + 1 : l[j] # [type |-> "spend", of |-> p]
      <4>1. TAKE j \in i + 1..n + 1
      <4>2. CASE j = n + 1
        BY <1>1, <1>2, <2>2, <4>2
      <4>3. CASE j # n + 1
        BY <1>2, <3>1, <4>3
      <4>4. QED
        BY <4>2, <4>3
    <3>3. i \in DOMAIN l /\ l[i] = [type |-> "add", of |-> p] /\ Len(l) = n + 1
      BY <1>2, <3>1
    <3>4. QED
      BY <3>2, <3>3 DEF Unspent
  <2>3. QED
    BY <2>1, <2>2
<1>7. Unspent(l) = Unspent(log) \ {o}
  BY <1>6, UnspentOutputs
<1>8. QED
  BY <1>3, <1>4, <1>5, <1>7 DEF l, e, n

\* The log of a compaction: an entry for each output and no other.
LEMMA CompactedLog ==
    ASSUME NEW U \in SUBSET Outpoint
    PROVE  LET log == SetToSeq({[type |-> "add", of |-> o] : o \in U}) IN
           /\ log \in Seq(Entry) /\ Spendings(log) = {} /\ SpentBy(log) = {}
           /\ \A i \in DOMAIN log : log[i].of \in U
           /\ Unspent(log) = U /\ Len(log) = Cardinality(U)
<1> DEFINE A == {[type |-> "add", of |-> o] : o \in U}
           log == SetToSeq(A)
           n == Cardinality(A)
<1>1. IsFiniteSet(U)
  BY FiniteUnspent
<1>2. IsFiniteSet(A) /\ n = Cardinality(U)
  <2> DEFINE f == [o \in U |-> [type |-> "add", of |-> o]]
  <2>1. f \in [U -> A] /\ \A p, q \in U : f[p] = f[q] => p = q
    OBVIOUS
  <2>2. \A a \in A : \E o \in U : f[o] = a
    OBVIOUS
  <2>3. f \in Bijection(U, A)
    BY <2>1, <2>2 DEF Bijection, Injection, Surjection, IsInjective
  <2>4. QED
    BY <1>1, <2>3, FS_Bijection DEF ExistsBijection
<1>3. n \in Nat /\ ExistsBijection(1..n, A)
  BY <1>2, FS_CardinalityType
<1>4. log \in [1..n -> A] /\ IsInjective(log)
  <2>1. \E f \in [1..n -> A] : IsInjective(f)
    BY <1>3 DEF ExistsBijection, Bijection, Injection
  <2>2. QED
    BY <2>1 DEF SetToSeq
<1>5. log \in Surjection(1..n, A)
  <2>1. log \in Injection(1..n, A)
    BY <1>4 DEF Injection
  <2>2. Cardinality(1..n) = n
    BY <1>3, FS_Interval
  <2>3. QED
    BY <1>2, <2>1, <2>2, FS_Injection
<1> HIDE DEF log, n
<1>6. A \subseteq Entry /\ \A a \in A : a.type = "add" /\ a.of \in U
  BY DEF Entry
<1>7. log \in Seq(Entry) /\ DOMAIN log = 1..n /\ Len(log) = n
  BY <1>3, <1>4, <1>6
<1>8. \A i \in DOMAIN log : log[i] \in A
  BY <1>4, <1>7
<1> HIDE DEF A
<1>9. Spendings(log) = {} /\ SpentBy(log) = {}
  BY <1>6, <1>8 DEF Spendings, SpentBy
<1>10. \A i \in DOMAIN log : log[i].of \in U
  BY <1>6, <1>8
<1>11. Unspent(log) = U
  <2>1. ASSUME NEW o \in U PROVE o \in Unspent(log)
    <3>1. PICK i \in 1..n : log[i] = [type |-> "add", of |-> o]
      BY <1>5 DEF Surjection, A
    <3>2. \A j \in i + 1..Len(log) : log[j] # [type |-> "spend", of |-> o]
      <4>1. TAKE j \in i + 1..Len(log)
      <4>2. j \in DOMAIN log
        BY <1>7, <3>1
      <4>3. log[j].type = "add"
        BY <1>6, <1>8, <4>2
      <4>4. QED
        BY <4>3
    <3>3. QED
      BY <1>7, <3>1, <3>2 DEF Unspent
  <2>2. ASSUME NEW o \in Unspent(log) PROVE o \in U
    BY <1>7, <1>10, <2>2, UnspentNamed
  <2>3. QED
    BY <2>1, <2>2
<1>12. QED
  BY <1>2, <1>7, <1>9, <1>10, <1>11 DEF log, A, n

-----------------------------------------------------------------------------
(* What holds whether or not a call was disturbed *)

LEMMA CallsStep == Calls /\ Indexed /\ [Next]_vars => Calls'
<1> SUFFICES ASSUME Calls, Indexed, [Next]_vars PROVE Calls'
  OBVIOUS
<1>1. ASSUME NEW c \in Caller, CallStep(c) PROVE Calls'
  <2>1. ASSUME NEW o \in Outpoint, NEW type \in {"add", "spend"}, Begins(c, type, o) PROVE Calls'
    BY <2>1, Zenon DEF Begins, Calls, Writer
  <2>2. ASSUME WritePiece(c) \/ WriteFails(c) PROVE Calls'
    <3>1. call[c] \in Writer /\ call[c].n + 1 \in Nat
      BY <2>2 DEF WritePiece, WriteFails, Calls, Writer
    <3>2. call' = [call EXCEPT ![c] = Idle]
          \/ call' = [call EXCEPT ![c] = [call[c] EXCEPT !.n = call[c].n + 1]]
      BY <2>2 DEF WritePiece, WriteFails
    <3>3. [call[c] EXCEPT !.n = call[c].n + 1] \in Writer
      BY <3>1 DEF Writer
    <3>4. call' \in [Caller -> {Idle} \cup Writer]
      BY <3>2, <3>3 DEF Calls
    <3>5. QED
      BY <2>2, <3>4 DEF WritePiece, WriteFails, Calls, history
  <2>3. QED
    BY <1>1, <2>1, <2>2 DEF CallStep, AddUTXO, SpendUTXO
<1>2. ASSUME NEW o \in NextCopies({}) \cup NextCopies(compaction.copied \cup {compaction.copying})
      PROVE  o \in Outpoint \cup {NoOutpoint}
  BY <1>2 DEF NextCopies, Indexed
<1>3. CASE CheckCompaction
  BY <1>3 DEF CheckCompaction, Calls, compactionFrame
<1>4. CASE TempOpened
  BY <1>2, <1>4 DEF TempOpened, Calls, compactionFrame, Copying
<1>5. CASE Copied
  <2>1. compaction \in Copying /\ compaction.copying \in Outpoint
    BY <1>5 DEF Copied, Calls, Copying, NoCompaction
  <2>2. PICK o \in NextCopies(compaction.copied \cup {compaction.copying}) :
          compaction' = [pc |-> "copy", copied |-> compaction.copied \cup {compaction.copying},
                         copying |-> o]
    BY <1>5 DEF Copied
  <2>3. compaction' \in Copying
    BY <1>2, <2>1, <2>2 DEF Copying
  <2>4. QED
    BY <1>5, <2>3 DEF Copied, Calls, compactionFrame
<1>6. CASE LogClosed
  <2>1. compaction \in Copying /\ compaction' = [compaction EXCEPT !.pc = "rename"]
    BY <1>6 DEF LogClosed, Calls, Copying, NoCompaction
  <2>2. compaction' \in Copying
    BY <2>1 DEF Copying
  <2>3. QED
    BY <1>6, <2>2 DEF LogClosed, Calls, compactionFrame
<1>7. ASSUME Dies PROVE Calls'
  BY <1>7, Zenon DEF Dies, Calls
<1>8. CASE CompactionFails
  BY <1>7, <1>8 DEF CompactionFails, Calls, compactionFrame
<1>9. CASE Renamed
  <2>1. compaction \in Copying /\ compaction' = [compaction EXCEPT !.pc = "open"]
    BY <1>9 DEF Renamed, Calls, Copying, NoCompaction
  <2>2. compaction' \in Copying
    BY <2>1 DEF Copying
  <2>3. call' \in [Caller -> {Idle} \cup Writer]
    BY <1>9 DEF Renamed, Calls, Writer
  <2>4. QED
    BY <1>9, <2>2, <2>3 DEF Renamed, Calls, history
<1>10. CASE Reopened
  BY <1>10 DEF Reopened, Calls, compactionFrame
<1>11. CASE Close
  BY <1>11, Zenon DEF Close, Calls, closeFrame
<1>12. CASE CloseLog \/ CloseIndex \/ Closed
  BY <1>12 DEF CloseLog, CloseIndex, Closed, Calls, closeFrame
<1>13. CASE Kill
  BY <1>7, <1>13 DEF Kill
<1>14. CASE Initialize
  BY <1>14 DEF Initialize, Calls, history
<1>15. CASE UNCHANGED vars
  BY <1>15 DEF vars, Calls, history
<1>16. QED
  BY <1>1, <1>3, <1>4, <1>5, <1>6, <1>8, <1>9, <1>10, <1>11, <1>12, <1>13, <1>14, <1>15
  DEF Next, CompactionStep, ProcessStep

LEMMA IndexedStep == Indexed /\ [Next]_vars => Indexed'
<1> SUFFICES ASSUME Indexed, [Next]_vars PROVE Indexed'
  OBVIOUS
<1>1. Owner \in [Outpoint -> Address]
  BY OutputAssumption
<1>2. ASSUME UNCHANGED <<utxoSet, utxoIndex>> PROVE Indexed'
  BY <1>2 DEF Indexed
<1>3. ASSUME NEW c \in Caller, NEW o \in Outpoint, AddUTXO(c, o) PROVE Indexed'
  <2>1. /\ utxoSet' = utxoSet \cup {o}
        /\ utxoIndex' = [utxoIndex EXCEPT ![Owner[o]] = utxoIndex[Owner[o]] \cup {o}]
    BY <1>3 DEF AddUTXO
  <2>2. \A a \in Address : utxoIndex'[a] = {p \in utxoSet' : Owner[p] = a}
    BY <1>1, <2>1 DEF Indexed
  <2>3. DOMAIN utxoIndex' = Address
    BY <2>1 DEF Indexed
  <2>4. utxoIndex' = [a \in Address |-> utxoIndex'[a]]
    BY <2>1, <2>3
  <2>5. utxoIndex' = [a \in Address |-> {p \in utxoSet' : Owner[p] = a}]
    BY <2>2, <2>4, Zenon
  <2>6. utxoSet' \subseteq Outpoint
    BY <2>1 DEF Indexed
  <2>7. QED
    BY <2>5, <2>6 DEF Indexed
<1>4. ASSUME NEW c \in Caller, NEW o \in Outpoint, SpendUTXO(c, o) PROVE Indexed'
  <2>1. /\ utxoSet' = utxoSet \ {o}
        /\ utxoIndex' = [utxoIndex EXCEPT ![Owner[o]] = utxoIndex[Owner[o]] \ {o}]
    BY <1>4 DEF SpendUTXO, Unindexed
  <2>2. \A a \in Address : utxoIndex'[a] = {p \in utxoSet' : Owner[p] = a}
    BY <1>1, <2>1 DEF Indexed
  <2>3. DOMAIN utxoIndex' = Address
    BY <2>1 DEF Indexed
  <2>4. utxoIndex' = [a \in Address |-> utxoIndex'[a]]
    BY <2>1, <2>3
  <2>5. utxoIndex' = [a \in Address |-> {p \in utxoSet' : Owner[p] = a}]
    BY <2>2, <2>4, Zenon
  <2>6. utxoSet' \subseteq Outpoint
    BY <2>1 DEF Indexed
  <2>7. QED
    BY <2>5, <2>6 DEF Indexed
<1>5. ASSUME Dies PROVE Indexed'
  BY <1>5 DEF Dies, Indexed
<1>6. CASE Initialize
  <2>1. PICK log : utxoSet' = Unspent(log)
    BY <1>6 DEF Initialize
  <2>2. utxoIndex' = [a \in Address |-> {o \in utxoSet' : Owner[o] = a}]
    BY <1>6 DEF Initialize
  <2>3. QED
    BY <2>1, <2>2, UnspentOutputs DEF Indexed
<1>7. ASSUME NEW c \in Caller, CallStep(c) PROVE Indexed'
  BY <1>2, <1>3, <1>4, <1>7 DEF CallStep, WritePiece, WriteFails, sets
<1>8. CASE CheckCompaction \/ CompactionStep
  BY <1>2, <1>5, <1>8 DEF CheckCompaction, CompactionStep, TempOpened, Copied, LogClosed,
     CompactionFails, Renamed, Reopened, compactionFrame, sets
<1>9. CASE ProcessStep
  BY <1>2, <1>5, <1>6, <1>9 DEF ProcessStep, Close, CloseLog, CloseIndex, Closed, Kill,
     closeFrame, sets
<1>10. CASE UNCHANGED vars
  BY <1>2, <1>10 DEF vars, sets
<1>11. QED
  BY <1>7, <1>8, <1>9, <1>10 DEF Next

LEMMA HandleStep == Calls /\ HandleOpen /\ [Next]_vars => HandleOpen'
<1> SUFFICES ASSUME Calls, HandleOpen, [Next]_vars PROVE HandleOpen'
  OBVIOUS
<1>1. ASSUME UNCHANGED <<up, isOpen, closing, compaction, handle>> PROVE HandleOpen'
  BY <1>1 DEF HandleOpen
<1>2. ASSUME NEW c \in Caller, CallStep(c) PROVE HandleOpen'
  BY <1>1, <1>2 DEF CallStep, AddUTXO, SpendUTXO, Begins, WritePiece, WriteFails
<1>3. CASE CheckCompaction
  BY <1>3 DEF CheckCompaction, HandleOpen, compactionFrame, NoCompaction
<1>4. CASE TempOpened \/ Copied
  BY <1>4 DEF TempOpened, Copied, HandleOpen, compactionFrame
<1>5. CASE LogClosed
  <2>1. compaction'.pc = "rename"
    BY <1>5 DEF LogClosed, Calls, Copying, NoCompaction
  <2>2. QED
    BY <2>1 DEF HandleOpen
<1>6. ASSUME Dies PROVE HandleOpen'
  BY <1>6 DEF Dies, HandleOpen
<1>7. CASE CompactionFails
  BY <1>6, <1>7 DEF CompactionFails, HandleOpen, compactionFrame
<1>8. CASE Renamed
  <2>1. compaction'.pc = "open"
    BY <1>8 DEF Renamed, Calls, Copying, NoCompaction
  <2>2. QED
    BY <2>1 DEF HandleOpen
<1>9. CASE Reopened
  BY <1>9 DEF Reopened, HandleOpen
<1>10. CASE Close
  BY <1>10 DEF Close, HandleOpen, closeFrame
<1>11. CASE CloseLog \/ CloseIndex \/ Closed
  BY <1>11 DEF CloseLog, CloseIndex, Closed, HandleOpen, closeFrame
<1>12. CASE Kill
  BY <1>6, <1>12 DEF Kill
<1>13. CASE Initialize
  BY <1>13 DEF Initialize, HandleOpen
<1>14. CASE UNCHANGED vars
  BY <1>1, <1>14 DEF vars
<1>15. QED
  BY <1>2, <1>3, <1>4, <1>5, <1>7, <1>8, <1>9, <1>10, <1>11, <1>12, <1>13, <1>14
  DEF Next, CompactionStep, ProcessStep

-----------------------------------------------------------------------------
(* As long as no call is disturbed *)

LEMMA GoodAfterAdd ==
    ASSUME NEW log, GoodLog(log), NEW o \in Outpoint, o \in created,
           \A i \in DOMAIN log : log[i].of # o
    PROVE  GoodLog(Append(log, Added(o)))
<1> DEFINE l == Append(log, Added(o))
<1>1. log \in Seq(Entry) /\ Added(o) \in Entry /\ Added(o).of = o
  BY DEF GoodLog, Entry, Added
<1>2. /\ l \in Seq(Entry) /\ Len(log) \in Nat /\ Len(l) = Len(log) + 1
      /\ \A i \in DOMAIN l : l[i].of \in created
  BY <1>1, Appended DEF GoodLog
<1>3. /\ Unspent(l) = Unspent(log) \cup {o} /\ Spendings(l) = Spendings(log)
      /\ SpentBy(l) = SpentBy(log)
  BY <1>1, UnspentAfterAdd
<1>4. o \notin Unspent(log) /\ o \notin SpentBy(log)
  BY <1>1, UnspentNamed DEF SpentBy, Spendings
<1>5. Cardinality(Unspent(l)) = Cardinality(Unspent(log)) + 1
  BY <1>3, <1>4, FiniteUnspent, UnspentOutputs, FS_AddElement
<1>6. Cardinality(Spendings(log)) \in Nat /\ Cardinality(Unspent(log)) \in Nat
  BY <1>1, FiniteSpendings, FiniteUnspent, UnspentOutputs
<1> HIDE DEF l
<1>7. Len(l) - 2 * Cardinality(Spendings(l)) = Cardinality(Unspent(l))
  BY <1>2, <1>3, <1>5, <1>6 DEF GoodLog
<1>8. Unspent(l) \cap SpentBy(l) = {}
  BY <1>3, <1>4 DEF GoodLog
<1>9. QED
  BY <1>2, <1>7, <1>8 DEF GoodLog, l

LEMMA GoodAfterSpend ==
    ASSUME NEW log, GoodLog(log), NEW o \in Unspent(log)
    PROVE  GoodLog(Append(log, Spent(o)))
<1> DEFINE l == Append(log, Spent(o))
<1>1. /\ log \in Seq(Entry) /\ o \in Outpoint /\ Spent(o) \in Entry /\ Spent(o).of = o
      /\ o \in created
  BY UnspentOutputs, UnspentNamed DEF GoodLog, Entry, Spent
<1>2. /\ l \in Seq(Entry) /\ Len(log) \in Nat /\ Len(l) = Len(log) + 1
      /\ \A i \in DOMAIN l : l[i].of \in created
  BY <1>1, Appended DEF GoodLog
<1>3. /\ Unspent(l) = Unspent(log) \ {o} /\ Spendings(l) = Spendings(log) \cup {Len(log) + 1}
      /\ SpentBy(l) = SpentBy(log) \cup {o} /\ Len(log) + 1 \notin Spendings(log)
  BY <1>1, UnspentAfterSpend
<1>4. Cardinality(Unspent(l)) = Cardinality(Unspent(log)) - 1
  BY <1>3, FiniteUnspent, UnspentOutputs, FS_RemoveElement
<1>5. Cardinality(Spendings(l)) = Cardinality(Spendings(log)) + 1
  BY <1>1, <1>3, FiniteSpendings, FS_AddElement
<1>6. Cardinality(Spendings(log)) \in Nat /\ Cardinality(Unspent(log)) \in Nat
  BY <1>1, FiniteSpendings, FiniteUnspent, UnspentOutputs
<1> HIDE DEF l
<1>7. Len(l) - 2 * Cardinality(Spendings(l)) = Cardinality(Unspent(l))
  <2>1. Len(log) - 2 * Cardinality(Spendings(log)) = Cardinality(Unspent(log))
    BY DEF GoodLog
  <2>2. \A n, s, u \in Nat : n - 2 * s = u => (n + 1) - 2 * (s + 1) = u - 1
    OBVIOUS
  <2>3. (Len(log) + 1) - 2 * (Cardinality(Spendings(log)) + 1) = Cardinality(Unspent(log)) - 1
    BY <1>2, <1>6, <2>1, <2>2
  <2>4. QED
    BY <1>2, <1>4, <1>5, <2>3
<1>8. Unspent(l) \cap SpentBy(l) = {}
  BY <1>3 DEF GoodLog
<1>9. QED
  BY <1>2, <1>7, <1>8 DEF GoodLog, l

\* Sound, when no call is under way
Quietly ==
    /\ Quiet /\ file \in WholeFile /\ GoodLog(file.log)
    /\ up => utxoSet = Unspent(file.log) /\ Books /\ CopyGood

LEMMA Alone ==
    ASSUME Sound, ~up \/ ~isOpen \/ compaction # NoCompaction \/ closing # "no"
    PROVE  Quiet
BY DEF Sound, OneCall, Quiet

LEMMA SoundQuietly == Sound /\ Quiet => Quietly /\ UnspentNow = Unspent(file.log)
BY DEF Sound, Quietly, UnspentNow

\* A step that leaves no call under way, and the same outputs unspent in the log
LEMMA QuietStep ==
    ASSUME Sound, Quiet, Quiet', (file \in WholeFile)', GoodLog(file.log)',
           Unspent(file'.log) = Unspent(file.log),
           up' => utxoSet' = Unspent(file.log) /\ Books' /\ CopyGood'
    PROVE  Sound' /\ UnspentNow' = UnspentNow
<1>1. UnspentNow = Unspent(file.log)
  BY SoundQuietly
<1>2. Unspent(file.log)' = Unspent(file'.log)
  BY DEF Unspent
<1>3. UnspentNow' = Unspent(file.log)
  BY <1>2 DEF UnspentNow
<1>4. OneCall'
  BY DEF OneCall, Quiet
<1>5. QED
  BY <1>1, <1>2, <1>3, <1>4 DEF Sound

LEMMA LogFrame ==
    ASSUME file \in WholeFile, GoodLog(file.log), UNCHANGED <<file, created>>
    PROVE  /\ (file \in WholeFile)' /\ GoodLog(file.log)'
           /\ Unspent(file'.log) = Unspent(file.log)
           /\ Unspent(file.log)' = Unspent(file.log)
<1>1. (file \in WholeFile)'
  BY DEF WholeFile
<1>2. GoodLog(file.log)'
  BY DEF GoodLog, Unspent, Spendings, SpentBy
<1>3. Unspent(file'.log) = Unspent(file.log) /\ Unspent(file.log)' = Unspent(file.log)
  BY DEF Unspent
<1>4. QED
  BY <1>1, <1>2, <1>3

\* The same when the log stays as it is
LEMMA QuietFrame ==
    ASSUME Sound, Quiet, Quiet', UNCHANGED <<file, created>>,
           up' => utxoSet' = Unspent(file.log) /\ Books' /\ CopyGood'
    PROVE  Sound' /\ UnspentNow' = UnspentNow
<1>1. (file \in WholeFile)' /\ GoodLog(file.log)' /\ Unspent(file'.log) = Unspent(file.log)
  BY LogFrame DEF Sound
<1>2. QED
  BY <1>1, QuietStep

\* What a call has begun is undisturbed when it is alone.
LEMMA Beginning ==
    ASSUME NEW c \in Caller, NEW type \in {"add", "spend"}, NEW o \in Outpoint,
           Begins(c, type, o), ~disturbed', OutputInv
    PROVE  /\ ~disturbed /\ Sound /\ Quiet /\ up /\ isOpen
           /\ compaction = NoCompaction /\ closing = "no"
           /\ utxoSet = Unspent(file.log) /\ Books /\ GoodLog(file.log) /\ file \in WholeFile
           /\ UNCHANGED <<up, isOpen, compaction, closing, file>>
           /\ call'[c] = [pc |-> "writing", type |-> type, of |-> o, n |-> 0, here |-> TRUE]
           /\ call'[c] # Idle
           /\ \A d \in Caller \ {c} : call'[d] = Idle
<1>1. ~disturbed /\ Quiet /\ compaction = NoCompaction /\ closing = "no" /\ up /\ isOpen
  BY DEF Begins
<1>2. Sound /\ call \in [Caller -> {Idle} \cup Writer]
  BY <1>1 DEF OutputInv, Calls
<1>3. /\ call'[c] = [pc |-> "writing", type |-> type, of |-> o, n |-> 0, here |-> TRUE]
      /\ \A d \in Caller \ {c} : call'[d] = Idle
  BY <1>1, <1>2 DEF Begins, Quiet
<1>4. call'[c] # Idle
  BY <1>3 DEF Idle
<1>5. UNCHANGED <<up, isOpen, compaction, closing, file>>
  BY DEF Begins
<1>6. QED
  BY <1>1, <1>2, <1>3, <1>4, <1>5 DEF Sound

LEMMA AddSound ==
    ASSUME NEW c \in Caller, NEW o \in Outpoint, AddUTXO(c, o), ~disturbed', OutputInv
    PROVE  Sound' /\ UnspentNow' = UnspentNow \cup {o}
<1>1. Begins(c, "add", o)
  BY DEF AddUTXO
<1>2. /\ Quiet /\ up /\ isOpen /\ compaction = NoCompaction /\ closing = "no"
      /\ utxoSet = Unspent(file.log) /\ Books /\ GoodLog(file.log) /\ file \in WholeFile
      /\ UNCHANGED <<up, isOpen, compaction, closing, file>>
      /\ call'[c] = [pc |-> "writing", type |-> "add", of |-> o, n |-> 0, here |-> TRUE]
      /\ call'[c] # Idle
      /\ \A d \in Caller \ {c} : call'[d] = Idle
  BY <1>1, Beginning
<1>3. /\ o \notin created /\ created' = created \cup {o} /\ utxoSet' = utxoSet \cup {o}
      /\ totalUtxoCount' = totalUtxoCount + 1
      /\ UNCHANGED <<spentOutputs, spentUtxoCount>>
  BY DEF AddUTXO
<1>4. /\ file.log \in Seq(Entry) /\ \A i \in DOMAIN file.log : file.log[i].of # o
  BY <1>2, <1>3 DEF GoodLog
<1>5. Unspent(file.log)' = Unspent(file.log)
  BY <1>2 DEF Unspent
<1>6. OneCall'
  BY <1>2, <1>3, <1>4, <1>5 DEF OneCall
<1>7. GoodLog(file.log)'
  BY <1>2, <1>3, <1>5 DEF GoodLog, Spendings, SpentBy
<1>8. Cardinality(utxoSet \cup {o}) = Cardinality(utxoSet) + 1
  <2>1. utxoSet \in SUBSET Outpoint /\ o \notin utxoSet
    BY <1>2, <1>3, UnspentOutputs DEF Books
  <2>2. QED
    BY <2>1, FiniteUnspent, FS_AddElement
<1>9. Books'
  <2>1. Cardinality(utxoSet) \in Nat
    BY <1>2, FiniteUnspent, UnspentOutputs
  <2>2. totalUtxoCount' - spentUtxoCount' = Cardinality(utxoSet')
    BY <1>2, <1>3, <1>8, <2>1 DEF Books
  <2>3. totalUtxoCount' \in Int /\ spentUtxoCount' \in Int
    BY <1>2, <1>3 DEF Books
  <2>4. /\ utxoSet' \cap spentOutputs' = {}
        /\ spentOutputs' \subseteq created' /\ utxoSet' \subseteq created'
    BY <1>2, <1>3 DEF Books
  <2>5. QED
    BY <2>2, <2>3, <2>4 DEF Books
<1>10. CopyGood'
  BY <1>2 DEF CopyGood, NoCompaction
<1>11. (file \in WholeFile)'
  BY <1>2 DEF WholeFile
<1>12. ~Quiet'
  BY <1>2 DEF Quiet
<1>13. QED
  BY <1>2, <1>3, <1>6, <1>7, <1>9, <1>10, <1>11, <1>12 DEF Sound, UnspentNow

LEMMA SpendSound ==
    ASSUME NEW c \in Caller, NEW o \in Outpoint, SpendUTXO(c, o), ~disturbed', OutputInv
    PROVE  /\ Sound' /\ o \in UnspentNow /\ UnspentNow' = UnspentNow \ {o}
<1>1. Begins(c, "spend", o)
  BY DEF SpendUTXO
<1>2. /\ Quiet /\ up /\ isOpen /\ compaction = NoCompaction /\ closing = "no"
      /\ utxoSet = Unspent(file.log) /\ Books /\ GoodLog(file.log) /\ file \in WholeFile
      /\ UNCHANGED <<up, isOpen, compaction, closing, file>>
      /\ call'[c] = [pc |-> "writing", type |-> "spend", of |-> o, n |-> 0, here |-> TRUE]
      /\ call'[c] # Idle
      /\ \A d \in Caller \ {c} : call'[d] = Idle
  BY <1>1, Beginning
<1>3. /\ o \in utxoSet /\ created' = created /\ utxoSet' = utxoSet \ {o}
      /\ spentUtxoCount' = spentUtxoCount + 1 /\ spentOutputs' = spentOutputs \cup {o}
      /\ UNCHANGED totalUtxoCount
  BY DEF SpendUTXO
<1>4. Unspent(file.log)' = Unspent(file.log)
  BY <1>2 DEF Unspent
<1>5. OneCall'
  BY <1>2, <1>3, <1>4 DEF OneCall
<1>6. GoodLog(file.log)'
  BY <1>2, <1>3, <1>4 DEF GoodLog, Spendings, SpentBy
<1>7. Cardinality(utxoSet \ {o}) = Cardinality(utxoSet) - 1 /\ Cardinality(utxoSet) \in Nat
  BY <1>2, <1>3, FiniteUnspent, UnspentOutputs, FS_RemoveElement
<1>8. Books'
  <2>1. totalUtxoCount' - spentUtxoCount' = Cardinality(utxoSet')
    BY <1>2, <1>3, <1>7 DEF Books
  <2>2. totalUtxoCount' \in Int /\ spentUtxoCount' \in Int
    BY <1>2, <1>3 DEF Books
  <2>3. /\ utxoSet' \cap spentOutputs' = {}
        /\ spentOutputs' \subseteq created' /\ utxoSet' \subseteq created'
    BY <1>2, <1>3 DEF Books
  <2>4. QED
    BY <2>1, <2>2, <2>3 DEF Books
<1>9. CopyGood'
  BY <1>2 DEF CopyGood, NoCompaction
<1>10. (file \in WholeFile)'
  BY <1>2 DEF WholeFile
<1>11. ~Quiet'
  BY <1>2 DEF Quiet
<1>12. QED
  BY <1>2, <1>3, <1>5, <1>6, <1>8, <1>9, <1>10, <1>11 DEF Sound, UnspentNow

LEMMA WriteSound ==
    ASSUME NEW c \in Caller, WritePiece(c), ~disturbed', OutputInv
    PROVE  Sound' /\ UnspentNow' = UnspentNow
<1> DEFINE k == call[c]
           o == k.of
           log == file.log
<1>1. Sound /\ call \in [Caller -> {Idle} \cup Writer]
  BY DEF OutputInv, Calls, WritePiece, history
<1>2. /\ k # Idle /\ up /\ UNCHANGED <<up, isOpen, sets, compaction, closing, created>>
      /\ file' = Written(c)
      /\ call' = IF k.n + 1 = Pieces(k.type) THEN [call EXCEPT ![c] = Idle]
                 ELSE [call EXCEPT ![c] = [k EXCEPT !.n = k.n + 1]]
  BY DEF WritePiece, history
<1>3. k \in Writer /\ o \in Outpoint
  BY <1>1, <1>2 DEF Writer
<1>4. /\ file \in WholeFile /\ GoodLog(log) /\ OneCall /\ Books /\ CopyGood
  BY <1>1, <1>2 DEF Sound
<1>5. /\ isOpen /\ compaction = NoCompaction /\ closing = "no" /\ k.here
      /\ \A d \in Caller \ {c} : call[d] = Idle
  BY <1>2, <1>4 DEF OneCall
<1>6. UnspentNow' = UnspentNow
  BY <1>2 DEF UnspentNow, sets
<1>7. Books' /\ CopyGood'
  BY <1>2, <1>4 DEF Books, CopyGood, sets
<1>8. /\ Written(c) \in WholeFile
      /\ k.n + 1 = Pieces(k.type) => Written(c).log = Append(log, [type |-> k.type, of |-> o])
      /\ k.n + 1 # Pieces(k.type) => Written(c) = file
  <2> DEFINE last == k.n + 1 = Pieces(k.type)
             entry == [type |-> k.type, of |-> o]
  <2>1. ~file.damaged /\ file.tail = "whole"
    BY <1>4 DEF WholeFile
  <2>2. \A d \in Caller \ {c} : ~Unfinished(d)
    BY <1>5 DEF Unfinished, LeftBy
  <2>3. ~(\/ file.damaged \/ file.tail # "whole" \/ (k.n > 0 /\ ~k.here)
          \/ \E d \in Caller \ {c} : Unfinished(d))
    BY <1>5, <2>1, <2>2
  <2>4. entry \in Entry
    BY <1>3 DEF Entry, Writer
  <2>5. CASE last
    <3>1. Written(c) = [file EXCEPT !.damaged = FALSE, !.log = Append(log, entry), !.doubtful = @]
      BY <2>3, <2>5, Zenon DEF Written
    <3>2. Append(log, entry) \in Seq(Entry)
      BY <1>4, <2>4 DEF WholeFile
    <3> HIDE DEF entry
    <3>3. ASSUME NEW f \in WholeFile, NEW m \in Seq(Entry)
          PROVE  LET g == [f EXCEPT !.damaged = FALSE, !.log = m, !.doubtful = @] IN
                 g \in WholeFile /\ g.log = m
      BY DEF WholeFile
    <3>4. Written(c) \in WholeFile /\ Written(c).log = Append(log, entry)
      BY <1>4, <3>1, <3>2, <3>3, Zenon
    <3>5. QED
      BY <2>5, <3>4 DEF entry
  <2>6. CASE ~last
    <3>1. Written(c) = [file EXCEPT !.damaged = FALSE, !.log = @, !.doubtful = @]
      BY <2>3, <2>6, Zenon DEF Written
    <3>2. ASSUME NEW f \in WholeFile
          PROVE  [f EXCEPT !.damaged = FALSE, !.log = @, !.doubtful = @] = f
      BY DEF WholeFile
    <3>3. Written(c) = file
      BY <1>4, <3>1, <3>2, Zenon
    <3>4. QED
      BY <1>4, <2>6, <3>3, Zenon
  <2>7. QED
    BY <2>5, <2>6
<1>9. CASE k.n + 1 = Pieces(k.type)
  <2>1. Quiet'
    BY <1>1, <1>2, <1>5, <1>9 DEF Quiet
  <2>2. /\ file'.log = Append(log, [type |-> k.type, of |-> o])
        /\ (file \in WholeFile)'
    BY <1>2, <1>8, <1>9 DEF WholeFile
  <2>3. /\ GoodLog(file'.log) /\ utxoSet = Unspent(file'.log)
    <3>1. CASE k.type = "add"
      <4>1. /\ utxoSet = Unspent(log) \cup {o} /\ o \in created
            /\ \A i \in DOMAIN log : log[i].of # o
        BY <1>2, <1>4, <3>1 DEF OneCall
      <4>2. file'.log = Append(log, Added(o))
        BY <2>2, <3>1 DEF Added
      <4>3. log \in Seq(Entry)
        BY <1>4 DEF GoodLog
      <4>4. Unspent(file'.log) = Unspent(log) \cup {o}
        BY <1>3, <4>1, <4>2, <4>3, UnspentAfterAdd
      <4>5. GoodLog(file'.log)
        BY <1>3, <1>4, <4>1, <4>2, GoodAfterAdd
      <4>6. QED
        BY <4>1, <4>4, <4>5
    <3>2. CASE k.type = "spend"
      <4>1. o \in Unspent(log) /\ utxoSet = Unspent(log) \ {o}
        BY <1>2, <1>4, <3>2 DEF OneCall
      <4>2. file'.log = Append(log, Spent(o))
        BY <2>2, <3>2 DEF Spent
      <4>3. log \in Seq(Entry)
        BY <1>4 DEF GoodLog
      <4>4. Unspent(file'.log) = Unspent(log) \ {o}
        BY <1>3, <4>2, <4>3, UnspentAfterSpend
      <4>5. GoodLog(file'.log)
        BY <1>4, <4>1, <4>2, GoodAfterSpend
      <4>6. QED
        BY <4>1, <4>4, <4>5
    <3>3. QED
      BY <1>3, <3>1, <3>2 DEF Writer
  <2>4. GoodLog(file.log)'
    BY <1>2, <2>3 DEF GoodLog, Unspent, Spendings, SpentBy
  <2>5. utxoSet' = Unspent(file.log)'
    BY <1>2, <2>3 DEF Unspent, sets
  <2>6. OneCall'
    BY <2>1 DEF OneCall, Quiet
  <2>7. QED
    BY <1>6, <1>7, <2>1, <2>2, <2>4, <2>5, <2>6 DEF Sound
<1>10. CASE k.n + 1 # Pieces(k.type)
  <2>1. call' = [call EXCEPT ![c] = [k EXCEPT !.n = k.n + 1]] /\ file' = file
    BY <1>2, <1>4, <1>8, <1>10 DEF WholeFile
  <2>2. /\ call'[c].here = k.here /\ call'[c].type = k.type /\ call'[c].of = k.of
        /\ call'[c].pc = "writing" /\ \A d \in Caller \ {c} : call'[d] = Idle
    BY <1>1, <1>3, <1>5, <2>1 DEF Writer
  <2>3. call'[c] # Idle
    BY <2>2 DEF Idle
  <2>4. /\ Unspent(file.log)' = Unspent(log) /\ GoodLog(file.log)' /\ (file \in WholeFile)'
    BY <1>2, <1>4, <2>1, LogFrame
  <2>5. OneCall'
    <3>1. \A d \in Caller : call'[d] # Idle => d = c
      BY <2>2
    <3>2. /\ k.type = "add" =>
                /\ utxoSet' = Unspent(file.log)' \cup {o} /\ o \in created'
                /\ \A i \in DOMAIN file'.log : file'.log[i].of # o
          /\ k.type = "spend" =>
                o \in Unspent(file.log)' /\ utxoSet' = Unspent(file.log)' \ {o}
      BY <1>2, <1>4, <2>1, <2>4 DEF OneCall, sets
    <3>3. QED
      BY <1>2, <1>5, <2>2, <3>1, <3>2 DEF OneCall
  <2>6. ~Quiet'
    BY <2>3 DEF Quiet
  <2>7. QED
    BY <1>2, <1>6, <1>7, <2>4, <2>5, <2>6 DEF Sound
<1>11. QED
  BY <1>9, <1>10

LEMMA NoFailure ==
    ASSUME NEW c \in Caller, OutputInv, ~disturbed
    PROVE  ~WriteFails(c)
<1> SUFFICES ASSUME up, call[c] # Idle PROVE handle = "open"
  BY DEF WriteFails
<1>1. isOpen /\ closing = "no" /\ compaction = NoCompaction
  BY DEF OutputInv, Sound, OneCall
<1>2. QED
  BY <1>1 DEF OutputInv, HandleOpen, NoCompaction

\* A process that dies leaves a whole log when no call was under way.
LEMMA DiesSound ==
    ASSUME Dies, ~disturbed', OutputInv
    PROVE  Sound' /\ UnspentNow' = UnspentNow
<1>1. ~disturbed /\ Quiet
  BY DEF Dies
<1>2. Sound
  BY <1>1 DEF OutputInv
<1>3. \A c \in Caller : ~Unfinished(c)
  BY <1>1 DEF Quiet, Unfinished, LeftBy
<1>4. UNCHANGED <<file, created>>
  BY <1>3 DEF Dies
<1>5. Quiet' /\ ~up'
  BY DEF Dies, Quiet
<1>6. QED
  BY <1>1, <1>2, <1>4, <1>5, QuietFrame

LEMMA CompactionSound ==
    ASSUME CheckCompaction \/ CompactionStep, ~disturbed', OutputInv
    PROVE  Sound' /\ UnspentNow' = UnspentNow
<1>1. ASSUME ~disturbed, Quiet PROVE /\ Sound /\ GoodLog(file.log)
                                     /\ up => utxoSet = Unspent(file.log) /\ Books /\ CopyGood
  BY <1>1 DEF OutputInv, Sound
<1>2. CASE CheckCompaction
  <2>1. ~disturbed /\ Quiet /\ up
    BY <1>2 DEF CheckCompaction
  <2>2. UNCHANGED <<up, call, file, created, sets>> /\ compaction' = [pc |-> "begin"]
    BY <1>2 DEF CheckCompaction, compactionFrame, sets
  <2>3. Quiet' /\ Books' /\ CopyGood' /\ utxoSet' = Unspent(file.log)
    BY <1>1, <2>1, <2>2 DEF Quiet, Books, CopyGood, sets
  <2>4. QED
    BY <1>1, <2>1, <2>2, <2>3, QuietFrame
<1>3. ASSUME up, compaction.pc \in {"begin", "copy", "rename", "open"}, ~disturbed
      PROVE  /\ Quiet /\ Sound /\ GoodLog(file.log)
             /\ utxoSet = Unspent(file.log) /\ Books /\ CopyGood
  <2>1. Sound /\ compaction # NoCompaction
    BY <1>3 DEF OutputInv, NoCompaction
  <2>2. Quiet
    BY <2>1, Alone
  <2>3. QED
    BY <1>1, <1>3, <2>2
<1>4. NoOutpoint \notin utxoSet
  BY OutputAssumption DEF OutputInv, Indexed
<1>5. CASE TempOpened
  <2>1. PICK o \in NextCopies({}) :
          compaction' = [pc |-> "copy", copied |-> {}, copying |-> o]
    BY <1>5 DEF TempOpened
  <2>2. ~disturbed /\ up /\ compaction.pc = "begin" /\ UNCHANGED <<up, call, file, created, sets>>
    BY <1>5 DEF TempOpened, compactionFrame, sets
  <2>3. Quiet' /\ Books' /\ utxoSet' = Unspent(file.log)
    BY <1>3, <2>2 DEF Quiet, Books, sets
  <2>4. CopyGood'
    BY <1>4, <2>1, <2>2 DEF CopyGood, NextCopies, sets
  <2>5. QED
    BY <1>3, <2>2, <2>3, <2>4, QuietFrame
<1>6. CASE Copied
  <2> DEFINE done == compaction.copied \cup {compaction.copying}
  <2>1. PICK o \in NextCopies(done) :
          compaction' = [pc |-> "copy", copied |-> done, copying |-> o]
    BY <1>6 DEF Copied
  <2>2. /\ ~disturbed /\ up /\ compaction.pc = "copy" /\ compaction.copying # NoOutpoint
        /\ UNCHANGED <<up, call, file, created, sets>>
    BY <1>6 DEF Copied, compactionFrame, sets
  <2>3. Quiet' /\ Books' /\ utxoSet' = Unspent(file.log)
    BY <1>3, <2>2 DEF Quiet, Books, sets
  <2>4. done \subseteq utxoSet
    BY <1>3, <2>2 DEF CopyGood
  <2>5. CopyGood'
    BY <1>4, <2>1, <2>2, <2>4 DEF CopyGood, NextCopies, sets
  <2>6. QED
    BY <1>3, <2>2, <2>3, <2>5, QuietFrame
<1>7. CASE LogClosed
  <2>1. /\ ~disturbed /\ up /\ compaction.pc = "copy" /\ compaction.copying = NoOutpoint
        /\ UNCHANGED <<up, call, file, created, sets>>
        /\ compaction' = [compaction EXCEPT !.pc = "rename"]
    BY <1>7 DEF LogClosed, compactionFrame, sets
  <2>2. Quiet' /\ Books' /\ utxoSet' = Unspent(file.log)
    BY <1>3, <2>1 DEF Quiet, Books, sets
  <2>3. compaction \in Copying
    BY <2>1 DEF OutputInv, Calls, NoCompaction
  <2>4. compaction'.pc = "rename" /\ compaction'.copied = compaction.copied
    BY <2>1, <2>3 DEF Copying
  <2>5. CopyGood'
    BY <1>3, <2>1, <2>4 DEF CopyGood, sets
  <2>6. QED
    BY <1>3, <2>1, <2>2, <2>5, QuietFrame
<1>8. CASE CompactionFails
  <2>1. CASE Dies
    BY <2>1, DiesSound
  <2>2. CASE ~Dies
    <3>1. /\ ~disturbed /\ up /\ compaction.pc = "copy" /\ compaction' = NoCompaction
          /\ UNCHANGED <<up, call, file, created, sets>>
      BY <1>8, <2>2 DEF CompactionFails, compactionFrame, sets
    <3>2. Quiet' /\ Books' /\ utxoSet' = Unspent(file.log) /\ CopyGood'
      BY <1>3, <3>1 DEF Quiet, Books, CopyGood, NoCompaction, sets
    <3>3. QED
      BY <1>3, <3>1, <3>2, QuietFrame
  <2>3. QED
    BY <2>1, <2>2
<1>9. CASE Renamed
  <2> DEFINE new == SetToSeq({[type |-> "add", of |-> o] : o \in utxoSet})
  <2>1. /\ ~disturbed /\ up /\ compaction.pc = "rename"
        /\ UNCHANGED <<up, created, sets>>
        /\ compaction' = [compaction EXCEPT !.pc = "open"]
        /\ file' = [EmptyFile EXCEPT !.log =
                       SetToSeq({[type |-> "add", of |-> o] : o \in compaction.copied})]
    BY <1>9 DEF Renamed, sets, history, Compacted
  <2>2. /\ Quiet /\ Sound /\ GoodLog(file.log)
        /\ utxoSet = Unspent(file.log) /\ Books /\ compaction.copied = utxoSet
    BY <1>3, <2>1 DEF CopyGood
  <2>3. Quiet'
    BY <1>9, <2>2 DEF Renamed, Quiet
  <2>4. utxoSet \in SUBSET Outpoint
    BY <2>2, UnspentOutputs
  <2>5. /\ new \in Seq(Entry) /\ Spendings(new) = {} /\ SpentBy(new) = {}
        /\ \A i \in DOMAIN new : new[i].of \in utxoSet
        /\ Unspent(new) = utxoSet /\ Len(new) = Cardinality(utxoSet)
    BY <2>4, CompactedLog
  <2>6. file' = [log |-> new, doubtful |-> <<>>, damaged |-> FALSE, tail |-> "whole"]
    BY <2>1, <2>2 DEF EmptyFile
  <2> HIDE DEF new
  <2>7. (file \in WholeFile)' /\ Unspent(file'.log) = Unspent(file.log)
    BY <2>2, <2>5, <2>6 DEF WholeFile
  <2>8. GoodLog(file.log)'
    <3>1. Cardinality({}) = 0 /\ Cardinality(utxoSet) \in Nat
      BY <2>4, FiniteUnspent, FS_EmptySet
    <3>2. Len(new) - 2 * Cardinality(Spendings(new)) = Cardinality(Unspent(new))
      BY <2>5, <3>1
    <3>3. \A i \in DOMAIN new : new[i].of \in created'
      BY <2>1, <2>2, <2>5 DEF Books
    <3>4. file'.log = new
      BY <2>6
    <3>5. /\ Unspent(file.log)' = Unspent(new) /\ SpentBy(file.log)' = SpentBy(new)
          /\ Spendings(file.log)' = Spendings(new)
      BY <3>4 DEF Unspent, Spendings, SpentBy
    <3>6. QED
      BY <2>5, <3>2, <3>3, <3>4, <3>5 DEF GoodLog
  <2>9. compaction'.pc = "open"
    <3>1. compaction \in Copying
      BY <2>1 DEF OutputInv, Calls, NoCompaction
    <3>2. QED
      BY <2>1, <3>1 DEF Copying
  <2>10. Books' /\ CopyGood' /\ utxoSet' = Unspent(file.log)
    BY <2>1, <2>2, <2>9 DEF Books, CopyGood, sets
  <2>11. QED
    BY <2>2, <2>3, <2>7, <2>8, <2>10, QuietStep
<1>10. CASE Reopened
  <2>1. /\ ~disturbed /\ up /\ compaction.pc = "open" /\ compaction' = NoCompaction
        /\ UNCHANGED <<up, call, file, created, utxoSet>>
        /\ spentOutputs' = {} /\ spentUtxoCount' = 0
        /\ totalUtxoCount' = Cardinality(utxoSet)
    BY <1>10 DEF Reopened, compactionFrame, SpentAfterCompaction
  <2>2. Quiet' /\ utxoSet' = Unspent(file.log) /\ CopyGood'
    BY <1>3, <2>1 DEF Quiet, CopyGood, NoCompaction
  <2>3. Cardinality(utxoSet) \in Nat
    BY FiniteUnspent DEF OutputInv, Indexed
  <2>4. Books'
    BY <1>3, <2>1, <2>3 DEF Books
  <2>5. QED
    BY <1>3, <2>1, <2>2, <2>4, QuietFrame
<1>11. QED
  BY <1>2, <1>5, <1>6, <1>7, <1>8, <1>9, <1>10 DEF CompactionStep

LEMMA ProcessSound ==
    ASSUME ProcessStep, ~disturbed', OutputInv
    PROVE  Sound' /\ UnspentNow' = UnspentNow
<1>1. CASE Kill
  BY <1>1, DiesSound DEF Kill
<1>2. CASE Close \/ CloseLog \/ CloseIndex \/ Closed
  <2>1. ~disturbed /\ up /\ UNCHANGED <<up, sets, call, compaction, file, created>>
    <3>1. CASE Close
      BY <3>1, Zenon DEF Close, closeFrame
    <3>2. CASE CloseLog
      BY <3>2, Zenon DEF CloseLog, closeFrame
    <3>3. CASE CloseIndex
      BY <3>3, Zenon DEF CloseIndex, closeFrame
    <3>4. CASE Closed
      BY <3>4, Zenon DEF Closed, closeFrame
    <3>5. QED
      BY <1>2, <3>1, <3>2, <3>3, <3>4, Zenon
  <2>2. Sound
    BY <2>1 DEF OutputInv
  <2>3. Quiet
    <3>1. CASE Close
      BY <3>1, Zenon DEF Close
    <3>2. CASE CloseLog \/ CloseIndex \/ Closed
      BY <2>2, <3>2, Alone DEF CloseLog, CloseIndex, Closed
    <3>3. QED
      BY <1>2, <3>1, <3>2
  <2>4. Quiet' /\ Books' /\ CopyGood' /\ utxoSet' = Unspent(file.log)
    BY <2>1, <2>2, <2>3 DEF Sound, Quiet, Books, CopyGood, sets
  <2>5. QED
    BY <2>1, <2>2, <2>3, <2>4, QuietFrame
<1>3. CASE Initialize
  <2> DEFINE log == file.log
  <2>1. ~disturbed /\ ~up /\ UNCHANGED <<call, compaction, file, created>>
    BY <1>3 DEF Initialize, history
  <2>2. Sound /\ compaction = NoCompaction
    BY <2>1 DEF OutputInv, Calls
  <2>3. Quiet /\ GoodLog(log) /\ file \in WholeFile
    BY <2>1, <2>2 DEF Sound
  <2>4. ~file.damaged /\ file.tail = "whole"
    BY <2>3 DEF WholeFile
  <2>5. Readings = {log}
    BY <2>4 DEF Readings
  <2>6. /\ utxoSet' = Unspent(log)
        /\ spentOutputs' = SpentBy(log)
        /\ totalUtxoCount' = Len(log) - Cardinality(Spendings(log))
        /\ spentUtxoCount' = Cardinality(Spendings(log)) + 0
    <3>1. PICK l \in Readings :
             /\ utxoSet' = Unspent(l)
             /\ spentOutputs' = {l[i].of : i \in Spendings(l)}
             /\ totalUtxoCount' = Len(l) - Cardinality(Spendings(l))
             /\ spentUtxoCount' = Cardinality(Spendings(l))
                     + IF ~file.damaged /\ file.tail = "nameless" THEN 1 ELSE 0
      BY <1>3, Zenon DEF Initialize, Spendings
    <3>2. l = log
      BY <2>5
    <3>3. (IF ~file.damaged /\ file.tail = "nameless" THEN 1 ELSE 0) = 0
      BY <2>4
    <3>4. QED
      BY <3>1, <3>2, <3>3, Zenon DEF SpentBy
  <2>7. /\ log \in Seq(Entry) /\ Len(log) \in Nat
        /\ Cardinality(Spendings(log)) \in Nat /\ Cardinality(Unspent(log)) \in Nat
    BY <2>3, FiniteSpendings, FiniteUnspent, UnspentOutputs DEF GoodLog
  <2>8. totalUtxoCount' - spentUtxoCount' = Cardinality(utxoSet')
    <3>1. Len(log) - 2 * Cardinality(Spendings(log)) = Cardinality(Unspent(log))
      BY <2>3 DEF GoodLog
    <3>2. \A n, s, u \in Nat : n - 2 * s = u => (n - s) - (s + 0) = u
      OBVIOUS
    <3>3. (Len(log) - Cardinality(Spendings(log))) - (Cardinality(Spendings(log)) + 0)
            = Cardinality(Unspent(log))
      BY <2>7, <3>1, <3>2
    <3>4. QED
      BY <2>6, <3>3
  <2>9. utxoSet' \cap spentOutputs' = {}
    BY <2>3, <2>6 DEF GoodLog
  <2>10. spentOutputs' \subseteq created' /\ utxoSet' \subseteq created'
    <3>1. \A i \in DOMAIN log : log[i].of \in created
      BY <2>3 DEF GoodLog
    <3>2. SpentBy(log) \subseteq created
      BY <3>1 DEF SpentBy, Spendings
    <3>3. Unspent(log) \subseteq created
      BY <2>7, <3>1, UnspentNamed
    <3>4. QED
      BY <2>1, <2>6, <3>2, <3>3
  <2>11. totalUtxoCount' \in Int /\ spentUtxoCount' \in Int
    BY <2>6, <2>7
  <2>12. Books'
    BY <2>8, <2>9, <2>10, <2>11 DEF Books
  <2>13. Quiet' /\ CopyGood'
    BY <2>1, <2>2, <2>3 DEF Quiet, CopyGood, NoCompaction
  <2>14. QED
    BY <2>1, <2>2, <2>3, <2>6, <2>12, <2>13, QuietFrame
<1>4. QED
  BY <1>1, <1>2, <1>3 DEF ProcessStep

\* What was disturbed stays so, and only additions create.
LEMMA Undisturbed ==
    ASSUME CheckCompaction \/ CompactionStep \/ ProcessStep, ~disturbed'
    PROVE  ~disturbed /\ UNCHANGED created
<1>1. CASE CheckCompaction
  BY <1>1, Zenon DEF CheckCompaction, compactionFrame
<1>2. CASE TempOpened \/ Copied \/ LogClosed
  BY <1>2 DEF TempOpened, Copied, LogClosed, compactionFrame
<1>3. ASSUME Dies PROVE ~disturbed /\ UNCHANGED created
  BY <1>3, Zenon DEF Dies
<1>4. CASE CompactionFails
  BY <1>3, <1>4 DEF CompactionFails, compactionFrame
<1>5. CASE Renamed \/ Reopened
  BY <1>5 DEF Renamed, Reopened, compactionFrame, history
<1>6. CASE Close
  BY <1>6, Zenon DEF Close, closeFrame
<1>7. CASE CloseLog \/ CloseIndex \/ Closed
  BY <1>7 DEF CloseLog, CloseIndex, Closed, closeFrame
<1>8. CASE Kill \/ Initialize
  BY <1>3, <1>8 DEF Kill, Initialize, history
<1>9. QED
  BY <1>1, <1>2, <1>4, <1>5, <1>6, <1>7, <1>8 DEF CompactionStep, ProcessStep

\* What every undisturbed step does to the outputs
LEMMA OutputsStep ==
    ASSUME OutputInv, [Next]_vars, ~disturbed'
    PROVE  /\ Sound' /\ ~disturbed
           /\ \/ \E o \in Outpoint \ created : /\ created' = created \cup {o}
                                               /\ UnspentNow' = UnspentNow \cup {o}
              \/ \E o \in UnspentNow : UnspentNow' = UnspentNow \ {o} /\ UNCHANGED created
              \/ UNCHANGED <<UnspentNow, created>>
<1>1. ASSUME NEW c \in Caller, NEW o \in Outpoint, AddUTXO(c, o)
      PROVE  /\ Sound' /\ ~disturbed /\ o \notin created /\ created' = created \cup {o}
             /\ UnspentNow' = UnspentNow \cup {o}
  BY <1>1, AddSound DEF AddUTXO, Begins
<1>2. ASSUME NEW c \in Caller, NEW o \in Outpoint, SpendUTXO(c, o)
      PROVE  /\ Sound' /\ ~disturbed /\ UNCHANGED created
             /\ o \in UnspentNow /\ UnspentNow' = UnspentNow \ {o}
  BY <1>2, SpendSound DEF SpendUTXO, Begins
<1>3. ASSUME NEW c \in Caller, WritePiece(c)
      PROVE  Sound' /\ ~disturbed /\ UNCHANGED <<UnspentNow, created>>
  BY <1>3, WriteSound DEF WritePiece, history
<1>4. ASSUME NEW c \in Caller PROVE ~WriteFails(c)
  <2>1. WriteFails(c) => ~disturbed
    BY DEF WriteFails, history
  <2>2. QED
    BY <2>1, NoFailure
<1>5. ASSUME CheckCompaction \/ CompactionStep
      PROVE  Sound' /\ ~disturbed /\ UNCHANGED <<UnspentNow, created>>
  <2>1. ~disturbed /\ UNCHANGED created
    BY <1>5, Undisturbed
  <2>2. QED
    BY <1>5, <2>1, CompactionSound
<1>6. ASSUME ProcessStep PROVE Sound' /\ ~disturbed /\ UNCHANGED <<UnspentNow, created>>
  <2>1. ~disturbed /\ UNCHANGED created
    BY <1>6, Undisturbed
  <2>2. QED
    BY <1>6, <2>1, ProcessSound
<1>7. ASSUME UNCHANGED vars PROVE Sound' /\ ~disturbed /\ UNCHANGED <<UnspentNow, created>>
  <2>1. ~disturbed /\ Sound
    BY <1>7 DEF vars, history, OutputInv
  <2>2. UNCHANGED <<up, isOpen, utxoSet, utxoIndex, spentOutputs, totalUtxoCount,
                    spentUtxoCount, call, compaction, closing, file, created>>
    BY <1>7 DEF vars, sets, history
  <2>3. /\ (file \in WholeFile)' /\ GoodLog(file.log)' /\ Unspent(file.log)' = Unspent(file.log)
    BY <2>1, <2>2, LogFrame DEF Sound
  <2>4. UNCHANGED UnspentNow
    BY <2>2, <2>3 DEF UnspentNow
  <2>5. OneCall'
    BY <2>1, <2>2, <2>3 DEF Sound, OneCall
  <2>6. /\ (Quiet /\ up)' => utxoSet' = Unspent(file.log)' /\ (~up => Quiet)'
    BY <2>1, <2>2, <2>3 DEF Sound, Quiet
  <2>7. up' => Books' /\ CopyGood'
    BY <2>1, <2>2 DEF Sound, Books, CopyGood
  <2>8. (~up => Quiet)'
    BY <2>1, <2>2 DEF Sound, Quiet
  <2>9. QED
    BY <2>1, <2>2, <2>3, <2>4, <2>5, <2>6, <2>7, <2>8 DEF Sound
<1>8. QED
  BY <1>1, <1>2, <1>3, <1>4, <1>5, <1>6, <1>7 DEF Next, CallStep

LEMMA OutputInit == Init => OutputInv
<1> SUFFICES ASSUME Init PROVE OutputInv
  OBVIOUS
<1>1. Calls /\ Indexed /\ HandleOpen
  BY DEF Init, Calls, Indexed, HandleOpen
<1>2. file.log = <<>> /\ file \in WholeFile /\ <<>> \in Seq(Entry)
  BY DEF Init, EmptyFile, WholeFile
<1>3. Unspent(<<>>) = {} /\ Spendings(<<>>) = {} /\ SpentBy(<<>>) = {}
  BY DEF Unspent, Spendings, SpentBy
<1>4. GoodLog(file.log)
  <2>1. Len(<<>>) = 0 /\ DOMAIN <<>> = {} /\ Cardinality({}) = 0
    BY FS_EmptySet
  <2>2. Len(<<>>) - 2 * Cardinality(Spendings(<<>>)) = Cardinality(Unspent(<<>>))
    <3>1. Cardinality(Spendings(<<>>)) = 0 /\ Cardinality(Unspent(<<>>)) = 0
      BY <1>3, <2>1, Zenon
    <3>2. 0 - 2 * 0 = 0
      OBVIOUS
    <3>3. QED
      BY <2>1, <3>1, <3>2, Zenon
  <2>3. GoodLog(<<>>)
    BY <1>2, <1>3, <2>1, <2>2 DEF GoodLog
  <2>4. QED
    BY <1>2, <2>3
<1>5. Quiet /\ ~up
  BY DEF Init, Quiet
<1>6. Sound
  BY <1>2, <1>4, <1>5 DEF Sound, OneCall, Quiet
<1>7. QED
  BY <1>1, <1>6 DEF OutputInv

LEMMA OutputInvStep == OutputInv /\ [Next]_vars => OutputInv'
BY CallsStep, IndexedStep, HandleStep, OutputsStep DEF OutputInv

LEMMA OutputInvariance == Spec => []OutputInv
BY OutputInit, OutputInvStep, PTL DEF Spec

\* The index that balances are read from is always that of the unspent outputs,
\* and the counters that decide about compaction are right and no output is both
\* spent and unspent as long as no call was disturbed.
THEOREM OutputBooks == Spec => []BooksAgree
<1>1. OutputInv => BooksAgree
  BY DEF OutputInv, Indexed, Sound, Books, BooksAgree
<1>2. QED
  BY <1>1, OutputInvariance, PTL

\* Across restarts and compactions the store creates every output once and
\* spends it at most once: until a call is disturbed each of its steps creates
\* one, spends one, or leaves what is unspent, in memory or for the next reader
\* of the log, as it was.
THEOREM StoreImplementsOutputs == Spec => ImplementsOutputs
<1>1. Init => Promise!Init
  BY DEF Init, Promise!Init, UnspentNow, EmptyFile, Unspent
<1>2. OutputInv /\ [Next]_vars
        => [Promise!Step \/ disturbed']_<<UnspentNow, created, disturbed>>
  <2> SUFFICES ASSUME OutputInv, [Next]_vars, ~disturbed'
               PROVE  Promise!Step \/ UNCHANGED <<UnspentNow, created, disturbed>>
    OBVIOUS
  <2>1. /\ ~disturbed
        /\ \/ \E o \in Outpoint \ created : /\ created' = created \cup {o}
                                            /\ UnspentNow' = UnspentNow \cup {o}
           \/ \E o \in UnspentNow : UnspentNow' = UnspentNow \ {o} /\ UNCHANGED created
           \/ UNCHANGED <<UnspentNow, created>>
    BY OutputsStep
  <2>2. disturbed' = disturbed
    <3>1. disturbed \in BOOLEAN /\ disturbed' \in BOOLEAN
      BY OutputInvStep DEF OutputInv, Calls
    <3>2. QED
      BY <2>1, <3>1
  <2>3. QED
    BY <2>1, <2>2 DEF Promise!Step, Promise!Create, Promise!Spend
<1>3. QED
  BY <1>1, <1>2, OutputInvariance, PTL DEF Spec, ImplementsOutputs, Promise!Spec

=============================================================================

-------------------------- MODULE SqlHistoryStore --------------------------
(***************************************************************************)
(* The SQLite and PostgreSQL History Stores of one Instance, written by    *)
(* stores that nothing fences from one another.  A row is inserted per     *)
(* statement; conflicts with a unique index are verified against the row   *)
(* that is stored.  SQLite takes the database for a whole batch;           *)
(* PostgreSQL lets transactions interleave and makes an insert wait for    *)
(* an uncommitted row it conflicts with.                                   *)
(*                                                                         *)
(* A record is [kind, occ, value]; kind is the record family of the two    *)
(* one-terminal indexes, or "other".                                       *)
(***************************************************************************)
EXTENDS Integers, Sequences, FiniteSets, FiniteSetTheorems, SequenceTheorems, TLAPS

CONSTANTS
    Stores,     \* open store objects
    Batches,    \* batches a caller may append
    Serial,     \* SQLite's BEGIN IMMEDIATE
    JoinedTo,   \* stores whose caller holds the transaction
    MaxRows,    \* bound on the rows ever inserted
    None

VARIABLES
    table,    \* committed rows [seq, pos, rec]
    nextSeq,  \* the bigserial; in SQLite the insertion order
    memory,   \* _history of each store, or None
    tx,       \* rows inserted in the open transaction of each store
    job       \* the batch being written [rest, entered, pos], or None

vars == <<table, nextSeq, memory, tx, job>>

Init ==
    /\ table = {} /\ nextSeq = 1
    /\ memory = [s \in Stores |-> None]
    /\ tx = [s \in Stores |-> {}]
    /\ job = [s \in Stores |-> None]

InTransaction(s) == job[s] # None \/ tx[s] # {}

\* Rows in the order a load reads them, and their records.
InOrder(rows) ==
    [i \in 1..Cardinality(rows) |-> CHOOSE r \in rows : Cardinality({x \in rows : x.seq <= r.seq}) = i]
Loaded(rows) == LET ordered == InOrder(rows) IN [i \in DOMAIN ordered |-> ordered[i].rec]

\* SQLite refuses to load positions that are not dense.
Dense(rows) == LET ordered == InOrder(rows) IN \A i \in DOMAIN ordered : ordered[i].pos = i - 1

\* Construction over the recorded rows.
Open(s) ==
    /\ memory[s] = None
    /\ Serial => Dense(table)
    /\ memory' = [memory EXCEPT ![s] = Loaded(table)]
    /\ UNCHANGED <<table, nextSeq, tx, job>>

\* append and extend, after the whole batch was encoded.
Start(s, batch) ==
    /\ memory[s] # None /\ job[s] = None
    /\ Serial => \A other \in Stores : ~InTransaction(other)
    /\ job' = [job EXCEPT ![s] = [rest |-> batch, entered |-> <<>>, pos |-> Len(memory[s])]]
    /\ UNCHANGED <<table, nextSeq, memory, tx>>

\* Rows a unique index holds against inserting rec at pos: the event identity
\* and the terminal fact of the record's family.
AtPosition(rows, pos) == {r \in rows : r.pos = pos}

SameTerminal(rows, rec) == {r \in rows : rec.kind # "other" /\ r.rec.kind = rec.kind /\ r.rec.occ = rec.occ}
Conflicts(rows, rec, pos) == AtPosition(rows, pos) \cup SameTerminal(rows, rec)

\* The insert waits for another transaction's uncommitted row.
Waits(s, rec, pos) == \E other \in Stores \ {s} : Conflicts(tx[other], rec, pos) # {}

\* Mutant of Verdict: a terminal stored elsewhere takes a position here.
VerdictFillsAlways(visible, rec, pos) ==
    CASE Conflicts(visible, rec, pos) = {} -> "inserted"
      [] \E r \in Conflicts(visible, rec, pos) : r.rec = rec -> "fills"
      [] OTHER -> "refused"

\* _verify_conflict: the event identity is judged first; an equal fact there
\* fills the position, an equal terminal elsewhere is acknowledged without one.
Verdict(visible, rec, pos) ==
    CASE Conflicts(visible, rec, pos) = {} -> "inserted"
      [] \E r \in AtPosition(visible, pos) : r.rec = rec -> "fills"
      [] AtPosition(visible, pos) = {} /\ \E r \in SameTerminal(visible, rec) : r.rec = rec -> "elsewhere"
      [] OTHER -> "refused"

\* A statement that raises: an owned transaction is rolled back; a joined
\* one poisons what was built over the store, which is discarded.
Fails(s) ==
    /\ tx' = [tx EXCEPT ![s] = {}]
    /\ job' = [job EXCEPT ![s] = None]
    /\ memory' = [memory EXCEPT ![s] = IF s \in JoinedTo THEN None ELSE @]
    /\ UNCHANGED <<table, nextSeq>>

\* One INSERT ... ON CONFLICT DO NOTHING and its verification.
Insert(s) ==
    /\ job[s] # None /\ job[s].rest # <<>>
    /\ nextSeq <= MaxRows
    /\ LET rec == Head(job[s].rest)
           pos == job[s].pos
           verdict == Verdict(table \cup tx[s], rec, pos)
           enters == verdict \in {"inserted", "fills"}
       IN  /\ ~Waits(s, rec, pos)
           /\ IF verdict = "refused" THEN Fails(s)
              ELSE /\ tx' = [tx EXCEPT ![s] = IF verdict = "inserted"
                                                THEN @ \cup {[seq |-> nextSeq, pos |-> pos, rec |-> rec]} ELSE @]
                   /\ nextSeq' = IF verdict = "inserted" THEN nextSeq + 1 ELSE nextSeq
                   /\ job' = [job EXCEPT ![s] = [rest |-> Tail(@.rest),
                                                 entered |-> IF enters THEN Append(@.entered, rec) ELSE @.entered,
                                                 pos |-> IF enters THEN @.pos + 1 ELSE @.pos]]
                   /\ UNCHANGED <<table, memory>>

\* The batch is written: an owned transaction commits, and memory follows.
Finish(s) ==
    /\ job[s] # None /\ job[s].rest = <<>>
    /\ memory' = [memory EXCEPT ![s] = @ \o job[s].entered]
    /\ job' = [job EXCEPT ![s] = None]
    /\ IF s \in JoinedTo THEN UNCHANGED <<table, tx>>
       ELSE table' = table \cup tx[s] /\ tx' = [tx EXCEPT ![s] = {}]
    /\ UNCHANGED nextSeq

\* The caller commits the transaction the store joined.
CallerCommits(s) ==
    /\ s \in JoinedTo /\ job[s] = None /\ tx[s] # {}
    /\ table' = table \cup tx[s]
    /\ tx' = [tx EXCEPT ![s] = {}]
    /\ UNCHANGED <<nextSeq, memory, job>>

\* A statement fails, a waiting transaction is the deadlock victim, or the
\* caller rolls back.
Breaks(s) == InTransaction(s) /\ Fails(s)

\* The process dies, before its commit or after the server has committed but
\* before it learnt so.
Dies(s) ==
    /\ memory[s] # None
    /\ \/ UNCHANGED table
       \/ /\ s \in JoinedTo => job[s] = None
          /\ job[s] # None => job[s].rest = <<>>
          /\ table' = table \cup tx[s]
    /\ memory' = [memory EXCEPT ![s] = None]
    /\ tx' = [tx EXCEPT ![s] = {}]
    /\ job' = [job EXCEPT ![s] = None]
    /\ UNCHANGED nextSeq

Next ==
    \E s \in Stores :
        \/ Open(s)
        \/ \E batch \in Batches : Start(s, batch)
        \/ Insert(s) \/ Finish(s) \/ CallerCommits(s) \/ Breaks(s) \/ Dies(s)

Spec == Init /\ [][Next]_vars

-----------------------------------------------------------------------------
(* Properties. *)

\* What is loaded in insertion order is the history in position order, without
\* gaps: a row of a losing transaction never lands before one it follows.
LoadIsDense == Dense(table)

\* At most one terminal fact per family and occurrence is ever recorded,
\* whichever store wrote it.
OneTerminal ==
    \A a, b \in table : a.rec.kind # "other" /\ a.rec.kind = b.rec.kind /\ a.rec.occ = b.rec.occ => a = b

Prefix(a, b) == Len(a) <= Len(b) /\ \A i \in 1..Len(a) : a[i] = b[i]

\* The records a store holds in memory are what its transaction would load, up
\* to what others appended after it: an acknowledgement is not an append.
MemoryIsTruth ==
    \A s \in Stores : memory[s] # None => Prefix(memory[s], Loaded(table \cup tx[s]))

\* Two idle stores never disagree about a position: the second writer of a
\* different fact was refused.
StoresAgree ==
    \A s, t \in Stores :
        memory[s] # None /\ memory[t] # None /\ tx[s] = {} /\ tx[t] = {}
            => Prefix(memory[s], memory[t]) \/ Prefix(memory[t], memory[s])

\* The stores of one Instance hold one History, whoever of them wrote it.
StoresHoldOneHistory == LoadIsDense /\ OneTerminal /\ MemoryIsTruth /\ StoresAgree

-----------------------------------------------------------------------------
(* What is proved, for any stores, batches and faults. *)

\* The records callers append.
Facts == UNION {{b[i] : i \in DOMAIN b} : b \in Batches}
BatchesAreSequences == Batches \subseteq Seq(Facts)

\* None is not a batch.
NoneIsNoJob == \A r, e \in Seq(Facts), p \in Nat : [rest |-> r, entered |-> e, pos |-> p] # None

\* Rows whose insertion order is their position order, without gaps.
Chain(rows) ==
    /\ IsFiniteSet(rows)
    /\ \A r \in rows : r \in [seq : Nat, pos : 0..(Cardinality(rows) - 1), rec : Facts]
    /\ \A p \in 0..(Cardinality(rows) - 1) : \E r \in rows : r.pos = p
    /\ \A a, b \in rows : a.pos = b.pos => a = b
    /\ \A a, b \in rows : a.pos < b.pos => a.seq < b.seq

Terminals(rows) ==
    \A a, b \in rows : a.rec.kind # "other" /\ a.rec.kind = b.rec.kind /\ a.rec.occ = b.rec.occ => a = b

\* The records are those of the first positions.
Reads(records, rows) ==
    /\ records \in Seq(Facts)
    /\ Len(records) <= Cardinality(rows)
    /\ \A r \in rows : r.pos < Len(records) => records[r.pos + 1] = r.rec

\* The rows of a chain up to a position are as many as it says.
LEMMA ChainCount ==
    ASSUME NEW rows, Chain(rows), NEW k \in 0..Cardinality(rows)
    PROVE  Cardinality({x \in rows : x.pos < k}) = k
<1> DEFINE S == {x \in rows : x.pos < k}
           f == [i \in 1..k |-> CHOOSE r \in rows : r.pos = i - 1]
<1>1. Cardinality(rows) \in Nat /\ k \in Nat
  BY FS_CardinalityType DEF Chain
<1>2. \A i \in 1..k : f[i] \in rows /\ f[i].pos = i - 1
  BY <1>1 DEF Chain
<1>3. f \in [1..k -> S]
  BY <1>1, <1>2
<1>4. \A i, j \in 1..k : f[i] = f[j] => i = j
  BY <1>1, <1>2
<1>5. \A x \in S : \E i \in 1..k : f[i] = x
  <2> SUFFICES ASSUME NEW x \in S PROVE \E i \in 1..k : f[i] = x
    OBVIOUS
  <2>1. x.pos + 1 \in 1..k /\ x \in rows
    BY <1>1 DEF Chain
  <2>2. f[x.pos + 1] = x
    BY <1>1, <1>2, <2>1 DEF Chain
  <2> QED
    BY <2>1, <2>2
<1> HIDE DEF f, S
<1>6. f \in Bijection(1..k, S)
  BY <1>3, <1>4, <1>5 DEF Bijection, Injection, Surjection, IsInjective
<1>7. ExistsBijection(1..k, S)
  BY <1>6 DEF ExistsBijection
<1>8. Cardinality(S) = k
  BY <1>1, <1>7, FS_CountingElements
<1> QED
  BY <1>8 DEF S

\* What a load reads of a chain: its rows, each at its position.
LEMMA ChainOrder ==
    ASSUME NEW rows, Chain(rows)
    PROVE  /\ DOMAIN InOrder(rows) = 1..Cardinality(rows) /\ Cardinality(rows) \in Nat
           /\ \A i \in 1..Cardinality(rows) : InOrder(rows)[i] \in rows /\ InOrder(rows)[i].pos = i - 1
<1>1. Cardinality(rows) \in Nat
  BY FS_CardinalityType DEF Chain
<1>2. ASSUME NEW r \in rows
      PROVE  Cardinality({x \in rows : x.seq <= r.seq}) = r.pos + 1
  <2>1. \A x \in rows : x.seq <= r.seq <=> x.pos < r.pos + 1
    BY <1>1 DEF Chain
  <2>2. {x \in rows : x.seq <= r.seq} = {x \in rows : x.pos < r.pos + 1}
    BY <2>1
  <2>3. r.pos + 1 \in 0..Cardinality(rows)
    BY <1>1 DEF Chain
  <2> QED
    BY <2>2, <2>3, ChainCount
<1>3. ASSUME NEW i \in 1..Cardinality(rows)
      PROVE  InOrder(rows)[i] \in rows /\ InOrder(rows)[i].pos = i - 1
  <2>1. PICK r \in rows : r.pos = i - 1
    BY <1>1 DEF Chain
  <2>2. Cardinality({x \in rows : x.seq <= r.seq}) = i
    BY <1>1, <1>2, <2>1
  <2>3. InOrder(rows)[i] = CHOOSE q \in rows : Cardinality({x \in rows : x.seq <= q.seq}) = i
    BY Zenon DEF InOrder
  <2>4. InOrder(rows)[i] \in rows /\ Cardinality({x \in rows : x.seq <= InOrder(rows)[i].seq}) = i
    BY <2>2, <2>3, Zenon
  <2>5. InOrder(rows)[i].pos + 1 = i
    BY <1>2, <2>4
  <2> QED
    BY <1>1, <2>4, <2>5 DEF Chain
<1> QED
  BY <1>1, <1>3, Zenon DEF InOrder

\* A shorter chain is the beginning of a longer one.
LEMMA ChainGrows ==
    ASSUME NEW less, NEW more, Chain(less), Chain(more), less \subseteq more
    PROVE  /\ Cardinality(less) \in Nat /\ Cardinality(more) \in Nat
           /\ Cardinality(less) <= Cardinality(more)
           /\ \A r \in more : r.pos < Cardinality(less) => r \in less
           /\ more # less => \E r \in more \ less : r.pos = Cardinality(less)
<1>1. Cardinality(less) \in Nat /\ Cardinality(more) \in Nat
  BY FS_CardinalityType DEF Chain
<1>2. Cardinality(less) <= Cardinality(more) /\ (Cardinality(more) = Cardinality(less) => more = less)
  BY FS_Subset DEF Chain
<1>3. ASSUME NEW r \in more, r.pos < Cardinality(less)
      PROVE  r \in less
  <2>1. PICK q \in less : q.pos = r.pos
    BY <1>1, <1>3 DEF Chain
  <2> QED
    BY <2>1 DEF Chain
<1>4. ASSUME more # less
      PROVE  \E r \in more \ less : r.pos = Cardinality(less)
  <2>1. Cardinality(less) \in 0..(Cardinality(more) - 1)
    BY <1>1, <1>2, <1>4
  <2>2. PICK r \in more : r.pos = Cardinality(less)
    BY <2>1 DEF Chain
  <2>3. r \notin less
    BY <1>1, <2>2 DEF Chain
  <2> QED
    BY <2>2, <2>3
<1> QED
  BY <1>1, <1>2, <1>3, <1>4

\* What was read stays a beginning when rows are added behind it.
LEMMA ReadsGrow ==
    ASSUME NEW less, NEW more, Chain(less), Chain(more), less \subseteq more, NEW records, Reads(records, less)
    PROVE  Reads(records, more)
<1>1. /\ Cardinality(less) \in Nat /\ Cardinality(more) \in Nat
      /\ Cardinality(less) <= Cardinality(more)
      /\ \A r \in more : r.pos < Cardinality(less) => r \in less
  BY ChainGrows
<1>2. Len(records) \in Nat /\ \A r \in more : r.pos \in Nat
  BY <1>1 DEF Reads, Chain
<1> QED
  BY <1>1, <1>2 DEF Reads

\* A load reads all of a chain.
LEMMA LoadedReads ==
    ASSUME NEW rows, Chain(rows)
    PROVE  Reads(Loaded(rows), rows) /\ Len(Loaded(rows)) = Cardinality(rows)
<1>1. /\ DOMAIN InOrder(rows) = 1..Cardinality(rows) /\ Cardinality(rows) \in Nat
      /\ \A i \in 1..Cardinality(rows) : InOrder(rows)[i] \in rows /\ InOrder(rows)[i].pos = i - 1
  BY ChainOrder
<1>2. Loaded(rows) = [i \in 1..Cardinality(rows) |-> InOrder(rows)[i].rec]
  BY <1>1 DEF Loaded
<1>3. \A i \in 1..Cardinality(rows) : InOrder(rows)[i].rec \in Facts
  BY <1>1 DEF Chain
<1>4. Loaded(rows) \in Seq(Facts) /\ Len(Loaded(rows)) = Cardinality(rows)
  BY <1>1, <1>2, <1>3
<1>5. ASSUME NEW r \in rows, r.pos < Len(Loaded(rows))
      PROVE  Loaded(rows)[r.pos + 1] = r.rec
  <2>1. r.pos + 1 \in 1..Cardinality(rows)
    BY <1>1 DEF Chain
  <2>2. InOrder(rows)[r.pos + 1] = r
    BY <1>1, <2>1 DEF Chain
  <2> QED
    BY <1>2, <2>1, <2>2
<1> QED
  BY <1>1, <1>4, <1>5 DEF Reads

\* Two readings of one chain agree as far as both go.
LEMMA ReadsAgree ==
    ASSUME NEW rows, Chain(rows), NEW a, NEW b, Reads(a, rows), Reads(b, rows), Len(a) <= Len(b)
    PROVE  Prefix(a, b)
<1>1. Cardinality(rows) \in Nat /\ Len(a) \in Nat /\ Len(b) \in Nat
  BY FS_CardinalityType DEF Chain, Reads
<1>2. ASSUME NEW i \in 1..Len(a)
      PROVE  a[i] = b[i]
  <2>1. i - 1 \in 0..(Cardinality(rows) - 1) /\ i - 1 < Len(a) /\ i - 1 < Len(b)
    BY <1>1 DEF Reads
  <2>2. PICK r \in rows : r.pos = i - 1
    BY <2>1 DEF Chain
  <2> QED
    BY <1>1, <2>1, <2>2 DEF Reads
<1> QED
  BY <1>2 DEF Prefix

\* A row for the next position makes a longer chain.
LEMMA ChainAdds ==
    ASSUME NEW rows, Chain(rows), Terminals(rows), NEW seq \in Nat, NEW rec \in Facts,
           \A r \in rows : r.seq < seq, Conflicts(rows, rec, Cardinality(rows)) = {}
    PROVE  LET row == [seq |-> seq, pos |-> Cardinality(rows), rec |-> rec]
           IN  /\ Chain(rows \cup {row}) /\ Terminals(rows \cup {row})
               /\ Cardinality(rows \cup {row}) = Cardinality(rows) + 1
<1> DEFINE n == Cardinality(rows)
           row == [seq |-> seq, pos |-> n, rec |-> rec]
<1>1. n \in Nat
  BY FS_CardinalityType DEF Chain
<1>2. row \notin rows
  BY <1>1 DEF Chain
<1>3. IsFiniteSet(rows \cup {row}) /\ Cardinality(rows \cup {row}) = n + 1
  BY <1>2, FS_AddElement DEF Chain
<1>4. Chain(rows \cup {row})
  <2>1. \A r \in rows \cup {row} : r \in [seq : Nat, pos : 0..n, rec : Facts]
    BY <1>1 DEF Chain
  <2>2. ASSUME NEW p \in 0..n
        PROVE  \E r \in rows \cup {row} : r.pos = p
    <3>1. CASE p = n
      <4>1. row \in rows \cup {row} /\ row.pos = p
        BY <3>1
      <4> QED
        BY <4>1, Zenon
    <3>2. CASE p \in 0..(n - 1)
      BY <3>2 DEF Chain
    <3> QED
      BY <1>1, <3>1, <3>2
  <2>3. \A r \in rows : r.pos < n /\ r.seq < seq
    BY <1>1 DEF Chain
  <2>4. \A a, b \in rows \cup {row} : (a.pos = b.pos => a = b) /\ (a.pos < b.pos => a.seq < b.seq)
    BY <1>1, <2>1, <2>3 DEF Chain
  <2>5. Cardinality(rows \cup {row}) - 1 = n
    BY <1>1, <1>3
  <2> HIDE DEF row, n
  <2> QED
    BY <1>3, <2>1, <2>2, <2>4, <2>5, Zenon DEF Chain
<1>5. Terminals(rows \cup {row})
  BY DEF Terminals, Conflicts, SameTerminal
<1> QED
  BY <1>3, <1>4, <1>5

\* What a store stands on: the rows its transaction sees, of which an owned
\* transaction's are not yet in memory.
Seen(s) == table \cup tx[s]
Base(s) == IF s \in JoinedTo THEN Seen(s) ELSE table

RowsInv ==
    /\ nextSeq \in Nat
    /\ Chain(table) /\ Terminals(table)
    /\ \A s \in Stores : Chain(Seen(s)) /\ Terminals(Seen(s)) /\ \A r \in Seen(s) : r.seq < nextSeq

\* Only one store has uncommitted rows: another that comes to the end of the
\* History waits for it.
WriterInv ==
    /\ \A s, t \in Stores : tx[s] # {} /\ tx[t] # {} => s = t
    /\ \A s \in Stores : s \notin JoinedTo /\ job[s] = None => tx[s] = {}
    /\ \A s \in Stores : tx[s] \cap table = {}

MemoryInv == \A s \in Stores : memory[s] # None => Reads(memory[s], Base(s))

\* The batch under way is at the position after what it entered.
JobOk(s) ==
    /\ memory[s] # None
    /\ job[s] = [rest |-> job[s].rest, entered |-> job[s].entered, pos |-> job[s].pos]
    /\ job[s].rest \in Seq(Facts) /\ job[s].entered \in Seq(Facts)
    /\ job[s].pos = Len(memory[s]) + Len(job[s].entered)
    /\ Reads(memory[s] \o job[s].entered, Seen(s))

JobInv == \A s \in Stores : job[s] # None => JobOk(s)

ShapeInv ==
    /\ memory = [s \in Stores |-> memory[s]]
    /\ tx = [s \in Stores |-> tx[s]]
    /\ job = [s \in Stores |-> job[s]]

StoreInv == ShapeInv /\ RowsInv /\ WriterInv /\ MemoryInv /\ JobInv

\* Rows become durable: a commit, by the store, its caller or the server after
\* the process died.  Others have no uncommitted rows of their own.
LEMMA CommitKeeps ==
    ASSUME StoreInv, NEW s \in Stores,
           table' = Seen(s), tx' = [tx EXCEPT ![s] = {}], UNCHANGED nextSeq,
           memory' = [memory EXCEPT ![s] = memory'[s]],
           job' = [job EXCEPT ![s] = None],
           memory'[s] # None => Reads(memory'[s], Seen(s))
    PROVE  StoreInv'
<1> USE DEF StoreInv
<1>1. ShapeInv'
  BY Zenon DEF ShapeInv
<1>2. /\ tx'[s] = {} /\ job'[s] = None
      /\ \A t \in Stores \ {s} : tx'[t] = tx[t] /\ memory'[t] = memory[t] /\ job'[t] = job[t]
  BY DEF ShapeInv
<1>3. Chain(table) /\ Chain(Seen(s)) /\ table \subseteq Seen(s)
  BY DEF RowsInv, Seen
<1>4. \A t \in Stores : tx'[t] = {} \/ (table' = table /\ tx'[t] = tx[t])
  BY <1>2 DEF WriterInv, Seen
<1>5. \A t \in Stores : Seen(t)' = Seen(s) \/ Seen(t)' = Seen(t)
  BY <1>4 DEF Seen
<1>6. RowsInv'
  BY <1>5 DEF RowsInv
<1>7. WriterInv'
  BY <1>2, <1>4 DEF WriterInv
<1>8. ASSUME NEW t \in Stores \ {s}, NEW records
      PROVE  /\ Reads(records, Seen(t)) => Reads(records, Seen(t)')
             /\ Reads(records, Base(t)) => Reads(records, Base(t)')
  <2>1. CASE table' = table /\ tx'[t] = tx[t]
    BY <2>1 DEF Seen, Base
  <2>2. CASE tx'[t] = {}
    <3>1. Seen(t) = table /\ Base(t) = table /\ Seen(t)' = Seen(s) /\ Base(t)' = Seen(s)
      BY <1>2, <2>2 DEF Seen, Base
    <3> QED
      BY <1>3, <3>1, ReadsGrow
  <2> QED
    BY <1>4, <2>1, <2>2
<1>9. MemoryInv'
  <2>1. Base(s)' = Seen(s)
    BY <1>2 DEF Base, Seen
  <2> QED
    BY <1>2, <1>8, <2>1 DEF MemoryInv
<1>10. JobInv'
  BY <1>2, <1>8, Zenon DEF JobInv, JobOk
<1> QED
  BY <1>1, <1>6, <1>7, <1>9, <1>10

\* A transaction is rolled back, and memory does not know of its rows.
LEMMA RollbackKeeps ==
    ASSUME StoreInv, NEW s \in Stores,
           tx' = [tx EXCEPT ![s] = {}], job' = [job EXCEPT ![s] = None],
           memory' = [memory EXCEPT ![s] = memory'[s]], UNCHANGED <<table, nextSeq>>,
           memory'[s] = None \/ (s \notin JoinedTo /\ memory'[s] = memory[s])
    PROVE  StoreInv'
<1> USE DEF StoreInv
<1>1. ShapeInv'
  BY Zenon DEF ShapeInv
<1>2. /\ tx'[s] = {} /\ job'[s] = None
      /\ \A t \in Stores \ {s} : tx'[t] = tx[t] /\ memory'[t] = memory[t] /\ job'[t] = job[t]
  BY DEF ShapeInv
<1>3. /\ Seen(s)' = table /\ \A t \in Stores \ {s} : Seen(t)' = Seen(t) /\ Base(t)' = Base(t)
      /\ s \notin JoinedTo => Base(s)' = Base(s)
  BY <1>2 DEF Seen, Base
<1>4. RowsInv'
  <2>1. table \subseteq Seen(s)
    BY DEF Seen
  <2> QED
    BY <1>3, <2>1 DEF RowsInv
<1>5. WriterInv'
  BY <1>2 DEF WriterInv
<1>6. MemoryInv'
  BY <1>2, <1>3 DEF MemoryInv
<1>7. JobInv'
  <2>1. \A t \in Stores \ {s} : JobOk(t) => JobOk(t)'
    BY <1>2, <1>3, Zenon DEF JobOk
  <2> QED
    BY <1>2, <2>1 DEF JobInv
<1> QED
  BY <1>1, <1>4, <1>5, <1>6, <1>7

\* A batch begins at the end of what its store holds (append, extend).
LEMMA StartKeeps ==
    ASSUME BatchesAreSequences, StoreInv, NEW s \in Stores, NEW batch \in Batches, Start(s, batch)
    PROVE  StoreInv'
<1> USE DEF StoreInv
<1>1. ShapeInv' /\ RowsInv' /\ UNCHANGED <<table, nextSeq, memory, tx>>
  BY Zenon DEF Start, ShapeInv, RowsInv, Seen
<1>2. \A t \in Stores \ {s} : job'[t] = job[t]
  BY DEF Start, ShapeInv
<1>3. job'[s] = [rest |-> batch, entered |-> <<>>, pos |-> Len(memory[s])]
  BY DEF Start, ShapeInv
<1>4. WriterInv'
  BY <1>1, <1>2 DEF WriterInv, Start
<1>5. MemoryInv'
  BY <1>1 DEF MemoryInv, Base, Seen
<1>6. Reads(memory[s], Seen(s))
  <2>1. Chain(table) /\ Chain(Seen(s)) /\ table \subseteq Seen(s)
    BY DEF RowsInv, Seen
  <2> QED
    BY <2>1, ReadsGrow DEF Start, MemoryInv, Base
<1>7. JobOk(s)'
  <2>1. memory[s] \o <<>> = memory[s] /\ Len(memory[s]) \in Nat
    BY <1>6 DEF Reads
  <2>2. Seen(s)' = Seen(s) /\ memory'[s] # None
    BY <1>1 DEF Seen, Start
  <2> QED
    BY <1>1, <1>3, <1>6, <2>1, <2>2 DEF JobOk, BatchesAreSequences
<1>8. JobInv'
  BY <1>1, <1>2, <1>7, Zenon DEF JobInv, JobOk, Seen
<1> QED
  BY <1>1, <1>4, <1>5, <1>8

\* A store is constructed over the committed rows.
LEMMA OpenKeeps ==
    ASSUME StoreInv, NEW s \in Stores, Open(s)
    PROVE  StoreInv'
<1> USE DEF StoreInv
<1>1. ShapeInv' /\ RowsInv' /\ WriterInv' /\ UNCHANGED <<table, nextSeq, tx, job>>
  BY DEF Open, ShapeInv, RowsInv, WriterInv, Seen
<1>2. memory'[s] = Loaded(table) /\ \A t \in Stores \ {s} : memory'[t] = memory[t]
  BY DEF Open, ShapeInv
<1>3. Reads(Loaded(table), Base(s))
  <2>1. Chain(table) /\ Chain(Seen(s)) /\ table \subseteq Seen(s)
    BY DEF RowsInv, Seen
  <2> QED
    BY <2>1, LoadedReads, ReadsGrow DEF Base
<1>4. MemoryInv'
  BY <1>1, <1>2, <1>3 DEF MemoryInv, Base, Seen
<1>5. JobInv'
  BY <1>1, <1>2, Zenon DEF JobInv, JobOk, Seen, Open
<1> QED
  BY <1>1, <1>4, <1>5

\* The batch is written, in an owned or in a joined transaction.
LEMMA FinishKeeps ==
    ASSUME StoreInv, NEW s \in Stores, Finish(s)
    PROVE  StoreInv'
<1> USE DEF StoreInv
<1>1. JobOk(s) /\ memory'[s] = memory[s] \o job[s].entered
  BY DEF Finish, JobInv, ShapeInv
<1>2. Reads(memory'[s], Seen(s))
  BY <1>1 DEF JobOk
<1>3. CASE s \notin JoinedTo
  <2>1. table' = Seen(s) /\ memory' = [memory EXCEPT ![s] = memory'[s]]
    BY <1>1, <1>3, Zenon DEF Finish, Seen
  <2> QED
    BY <1>2, <1>3, <2>1, CommitKeeps, Zenon DEF Finish
<1>4. CASE s \in JoinedTo
  <2>1. UNCHANGED <<table, tx, nextSeq>> /\ ShapeInv' /\ job'[s] = None
    BY <1>4, Zenon DEF Finish, ShapeInv
  <2>2. \A t \in Stores \ {s} : memory'[t] = memory[t] /\ job'[t] = job[t]
    BY Zenon DEF Finish, ShapeInv
  <2>3. RowsInv' /\ WriterInv'
    BY <1>4, <2>1, <2>2 DEF RowsInv, WriterInv, Seen
  <2>4. MemoryInv'
    BY <1>2, <1>4, <2>1, <2>2 DEF MemoryInv, Base, Seen
  <2>5. JobInv'
    BY <2>1, <2>2, Zenon DEF JobInv, JobOk, Seen
  <2> QED
    BY <2>1, <2>3, <2>4, <2>5
<1> QED
  BY <1>3, <1>4

\* The batch's place in what its transaction sees: no later than its end, and
\* at the end only when no other store has uncommitted rows.
LEMMA AtTheEnd ==
    ASSUME StoreInv, NEW s \in Stores, job[s] # None, NEW rec, ~Waits(s, rec, job[s].pos),
           Conflicts(Seen(s), rec, job[s].pos) = {}
    PROVE  job[s].pos = Cardinality(Seen(s)) /\ \A t \in Stores \ {s} : tx[t] = {}
<1> USE DEF StoreInv
<1>1. JobOk(s) /\ Chain(Seen(s)) /\ Chain(table) /\ table \subseteq Seen(s)
  BY DEF JobInv, RowsInv, Seen
<1>2. Cardinality(Seen(s)) \in Nat
  BY <1>1, FS_CardinalityType DEF Chain
<1>3. job[s].pos \in Nat /\ job[s].pos <= Cardinality(Seen(s))
  <2>1. memory[s] \in Seq(Facts)
    <3>1. memory[s] # None
      BY <1>1 DEF JobOk
    <3> QED
      BY <3>1 DEF MemoryInv, Reads
  <2>2. job[s].entered \in Seq(Facts) /\ Len(memory[s] \o job[s].entered) <= Cardinality(Seen(s))
    BY <1>1, Zenon DEF JobOk, Reads
  <2>3. Len(memory[s] \o job[s].entered) = Len(memory[s]) + Len(job[s].entered)
    BY <2>1, <2>2
  <2>4. job[s].pos = Len(memory[s]) + Len(job[s].entered)
    BY <1>1, Zenon DEF JobOk
  <2>5. job[s].pos = Len(memory[s] \o job[s].entered)
    BY <2>3, <2>4, Zenon
  <2>6. Len(memory[s] \o job[s].entered) \in Nat
    BY <2>1, <2>2, ConcatProperties, LenProperties, Zenon
  <2> QED
    BY <2>2, <2>5, <2>6, Zenon
<1>4. job[s].pos \notin 0..(Cardinality(Seen(s)) - 1)
  BY <1>1 DEF Chain, Conflicts, AtPosition
<1>5. job[s].pos = Cardinality(Seen(s))
  BY <1>2, <1>3, <1>4
<1>6. ASSUME NEW t \in Stores \ {s}, tx[t] # {}
      PROVE  FALSE
  <2>1. tx[s] = {}
    BY <1>6 DEF WriterInv
  <2>2. Seen(s) = table
    BY <2>1 DEF Seen
  <2>3. Chain(Seen(t)) /\ table \subseteq Seen(t)
    BY DEF RowsInv, Seen
  <2>4. CASE Seen(t) = table
    <3>1. PICK r \in tx[t] : TRUE
      BY <1>6
    <3>2. tx[t] \subseteq table
      BY <2>4 DEF Seen
    <3> QED
      BY <3>1, <3>2 DEF WriterInv
  <2>5. CASE Seen(t) # table
    <3>1. PICK r \in Seen(t) \ table : r.pos = Cardinality(table)
      BY <1>1, <2>3, <2>5, ChainGrows, Zenon
    <3>2. r \in AtPosition(tx[t], job[s].pos)
      BY <1>5, <2>2, <3>1 DEF Seen, AtPosition
    <3> QED
      BY <3>2 DEF Waits, Conflicts
  <2> QED
    BY <2>4, <2>5
<1> QED
  BY <1>5, <1>6

\* One more record at the end of what was read.
LEMMA Appended ==
    ASSUME NEW a \in Seq(Facts), NEW b \in Seq(Facts), NEW e \in Facts
    PROVE  a \o Append(b, e) = Append(a \o b, e)
<1>1. <<e>> \in Seq(Facts) /\ a \o b \in Seq(Facts)
  BY ConcatProperties
<1>2. Append(b, e) = b \o <<e>> /\ Append(a \o b, e) = (a \o b) \o <<e>>
  BY <1>1, AppendIsConcat
<1> QED
  BY <1>1, <1>2, ConcatAssociative

\* The place after one more record.
LEMMA NextLength == \A a, b \in Nat : (a + b) + 1 = a + (b + 1)
  OBVIOUS

\* One statement of the batch, whatever its verdict.
LEMMA InsertKeeps ==
    ASSUME NoneIsNoJob, StoreInv, NEW s \in Stores, Insert(s)
    PROVE  StoreInv'
<1> DEFINE rec == Head(job[s].rest)
           pos == job[s].pos
           verdict == Verdict(Seen(s), rec, pos)
           row == [seq |-> nextSeq, pos |-> pos, rec |-> rec]
           read == memory[s] \o job[s].entered
<1> USE DEF StoreInv
<1>1. /\ job[s] # None /\ job[s].rest # <<>> /\ ~Waits(s, rec, pos)
      /\ JobOk(s) /\ Chain(Seen(s)) /\ Terminals(Seen(s)) /\ nextSeq \in Nat
      /\ \A r \in Seen(s) : r.seq < nextSeq
      /\ memory[s] # None /\ memory[s] \in Seq(Facts)
  <2>1. job[s] # None /\ job[s].rest # <<>> /\ ~Waits(s, rec, pos)
    BY DEF Insert
  <2>2. JobOk(s) /\ Chain(Seen(s)) /\ Terminals(Seen(s)) /\ nextSeq \in Nat /\ \A r \in Seen(s) : r.seq < nextSeq
    BY <2>1, Zenon DEF JobInv, RowsInv
  <2>3. memory[s] # None
    BY <2>2, Zenon DEF JobOk
  <2> QED
    BY <2>1, <2>2, <2>3 DEF MemoryInv, Reads
<1>2. /\ job[s].rest \in Seq(Facts) /\ job[s].entered \in Seq(Facts)
      /\ pos = Len(memory[s]) + Len(job[s].entered) /\ Reads(read, Seen(s))
  BY <1>1, Zenon DEF JobOk
<1>3. rec \in Facts /\ Tail(job[s].rest) \in Seq(Facts)
  BY <1>1, <1>2
<1>4. pos \in Nat /\ Len(read) = pos /\ read \in Seq(Facts)
  <2>1. read \in Seq(Facts) /\ Len(read) = Len(memory[s]) + Len(job[s].entered)
    BY <1>1, <1>2, ConcatProperties
  <2>2. Len(read) \in Nat
    BY <2>1, LenProperties, Zenon
  <2> QED
    BY <1>2, <2>1, <2>2, Zenon
<1>10. pos \in Nat
  BY <1>4, Zenon
<1>11. Len(memory[s]) \in Nat /\ Len(job[s].entered) \in Nat
  BY <1>1, <1>2, LenProperties
<1>12. pos = Len(memory[s]) + Len(job[s].entered)
  BY <1>2, Zenon
<1> HIDE DEF rec, pos, read
<1>5. CASE verdict = "refused"
  <2>1. Fails(s)
    BY <1>5 DEF Insert, Seen, rec, pos
  <2> QED
    BY <2>1, RollbackKeeps, Zenon DEF Fails, ShapeInv
<1>6. CASE verdict = "inserted"
  <2>1. Conflicts(Seen(s), rec, pos) = {}
    BY <1>6 DEF Verdict
  <2>2. pos = Cardinality(Seen(s)) /\ \A t \in Stores \ {s} : tx[t] = {}
    BY <1>1, <2>1, AtTheEnd, Zenon DEF pos
  <2>3. /\ Chain(Seen(s) \cup {row}) /\ Terminals(Seen(s) \cup {row})
        /\ Cardinality(Seen(s) \cup {row}) = pos + 1
    BY <1>1, <1>3, <2>1, <2>2, ChainAdds
  <2>4. /\ UNCHANGED <<table, memory>> /\ nextSeq' = nextSeq + 1
        /\ tx' = [tx EXCEPT ![s] = @ \cup {row}]
        /\ job' = [job EXCEPT ![s] = [rest |-> Tail(@.rest), entered |-> Append(@.entered, rec), pos |-> @.pos + 1]]
    BY <1>6 DEF Insert, Seen, rec, pos
  <2>5. /\ ShapeInv' /\ tx'[s] = tx[s] \cup {row}
        /\ job'[s] = [rest |-> Tail(job[s].rest), entered |-> Append(job[s].entered, rec), pos |-> pos + 1]
        /\ \A t \in Stores \ {s} : tx'[t] = {} /\ tx[t] = {} /\ job'[t] = job[t]
    BY <2>2, <2>4, Zenon DEF ShapeInv, pos
  <2>6. /\ Seen(s)' = Seen(s) \cup {row}
        /\ \A t \in Stores \ {s} : Seen(t)' = Seen(t) /\ Base(t)' = Base(t) /\ Seen(t) = table
    BY <2>4, <2>5, Zenon DEF Seen, Base
  <2>7. RowsInv'
    <3>1. \A r \in Seen(s) \cup {row} : r.seq < nextSeq + 1
      BY <1>1 DEF Chain
    <3>2. ASSUME NEW t \in Stores \ {s}
          PROVE  Chain(Seen(t)) /\ Terminals(Seen(t)) /\ \A r \in Seen(t) : r.seq < nextSeq + 1
      <4>1. Chain(Seen(t)) /\ Terminals(Seen(t)) /\ \A r \in Seen(t) : r.seq < nextSeq
        BY Zenon DEF RowsInv
      <4> QED
        BY <1>1, <4>1 DEF Chain
    <3>3. Chain(table') /\ Terminals(table')
      BY <2>4 DEF RowsInv
    <3>4. nextSeq' \in Nat /\ nextSeq' = nextSeq + 1
      BY <1>1, <2>4
    <3>5. ASSUME NEW t \in Stores
          PROVE  Chain(Seen(t)') /\ Terminals(Seen(t)') /\ \A r \in Seen(t)' : r.seq < nextSeq + 1
      BY <2>3, <2>6, <3>1, <3>2, Zenon
    <3> QED
      BY <3>3, <3>4, <3>5, Zenon DEF RowsInv
  <2>8. job'[s] # None /\ Append(job[s].entered, rec) \in Seq(Facts)
    <3>1. Append(job[s].entered, rec) \in Seq(Facts)
      BY <1>2, <1>3, AppendProperties
    <3>2. pos + 1 \in Nat
      BY <1>10
    <3> QED
      BY <1>3, <2>5, <3>1, <3>2, Zenon DEF NoneIsNoJob
  <2>9. WriterInv'
    <3>1. row \notin Seen(s)
      BY <1>1 DEF Chain
    <3>2. \A t, u \in Stores : tx'[t] # {} /\ tx'[u] # {} => t = u
      BY <2>5, Zenon
    <3>3. \A t \in Stores : t \notin JoinedTo /\ job'[t] = None => tx'[t] = {}
      BY <2>5, <2>8, Zenon
    <3>4. \A t \in Stores : tx'[t] \cap table' = {}
      BY <2>4, <2>5, <3>1 DEF WriterInv, Seen
    <3> QED
      BY <3>2, <3>3, <3>4, Zenon DEF WriterInv
  <2>10. Reads(read, Seen(s)') /\ (Reads(memory[s], Base(s)) => Reads(memory[s], Base(s)'))
    <3>1. Seen(s) \subseteq Seen(s)' /\ Chain(Seen(s)')
      BY <2>3, <2>6
    <3> QED
      BY <1>1, <1>2, <2>4, <3>1, ReadsGrow DEF Base
  <2>11. MemoryInv'
    BY <2>4, <2>6, <2>10 DEF MemoryInv
  <2>12. Reads(Append(read, rec), Seen(s)')
    <3>1. /\ Append(read, rec) \in Seq(Facts) /\ Len(Append(read, rec)) = pos + 1
          /\ \A i \in 1..pos : Append(read, rec)[i] = read[i]
          /\ Append(read, rec)[pos + 1] = rec
      BY <1>3, <1>4, AppendProperties
    <3>2. ASSUME NEW r \in Seen(s)', r.pos < pos + 1
          PROVE  Append(read, rec)[r.pos + 1] = r.rec
      <4>1. CASE r = row
        BY <3>1, <4>1
      <4>2. CASE r \in Seen(s)
        <5>1. r.pos \in 0..(pos - 1)
          BY <2>2, <4>2, <1>1 DEF Chain
        <5>2. r.pos < pos /\ r.pos + 1 \in 1..pos
          BY <1>10, <5>1
        <5>3. read[r.pos + 1] = r.rec
          BY <1>2, <1>4, <4>2, <5>2, Zenon DEF Reads
        <5> QED
          BY <3>1, <5>2, <5>3, Zenon
      <4> QED
        BY <2>6, <4>1, <4>2, Zenon
    <3>3. pos + 1 <= Cardinality(Seen(s)')
      BY <1>10, <2>3, <2>6
    <3> QED
      BY <3>1, <3>2, <3>3, Zenon DEF Reads
  <2>13. JobInv'
    <3>1. memory[s] \o Append(job[s].entered, rec) = Append(read, rec)
      BY <1>1, <1>2, <1>3, Appended, Zenon DEF read
    <3>2. Len(Append(job[s].entered, rec)) = Len(job[s].entered) + 1
      BY <1>2, <1>3, AppendProperties
    <3>3. pos + 1 = Len(memory[s]) + (Len(job[s].entered) + 1)
      BY <1>11, <1>12, NextLength, Zenon
    <3>4. JobOk(s)'
      <4>1. job'[s].rest = Tail(job[s].rest) /\ job'[s].entered = Append(job[s].entered, rec) /\ job'[s].pos = pos + 1
        BY <2>5
      <4>2. job'[s] = [rest |-> job'[s].rest, entered |-> job'[s].entered, pos |-> job'[s].pos]
        BY <2>5, <4>1, Zenon
      <4>3. memory'[s] = memory[s]
        BY <2>4
      <4>4. job'[s].pos = Len(memory'[s]) + Len(job'[s].entered)
        BY <3>2, <3>3, <4>1, <4>3, Zenon
      <4>5. Reads(memory'[s] \o job'[s].entered, Seen(s)')
        BY <2>12, <3>1, <4>1, <4>3, Zenon
      <4> QED
        BY <1>1, <1>3, <2>8, <4>1, <4>2, <4>3, <4>4, <4>5, Zenon DEF JobOk
    <3>5. \A t \in Stores \ {s} : JobOk(t) => JobOk(t)'
      BY <2>4, <2>5, <2>6, Zenon DEF JobOk
    <3> QED
      BY <2>5, <3>4, <3>5, Zenon DEF JobInv
  <2> QED
    BY <2>5, <2>7, <2>9, <2>11, <2>13
<1>7. ASSUME UNCHANGED <<table, memory, tx, nextSeq>>,
             job' = [job EXCEPT ![s] = job'[s]], job'[s] # None, JobOk(s)'
      PROVE  StoreInv'
  <2>1. ShapeInv' /\ \A t \in Stores \ {s} : job'[t] = job[t]
    BY <1>7 DEF ShapeInv
  <2>2. \A t \in Stores : Seen(t)' = Seen(t) /\ Base(t)' = Base(t)
    BY <1>7 DEF Seen, Base
  <2>3. RowsInv' /\ MemoryInv'
    BY <1>7, <2>2 DEF RowsInv, MemoryInv
  <2>4. WriterInv'
    BY <1>7, <2>1 DEF WriterInv
  <2>5. JobInv'
    BY <1>7, <2>1, <2>2, Zenon DEF JobInv, JobOk
  <2> QED
    BY <2>1, <2>3, <2>4, <2>5
<1>8. CASE verdict = "elsewhere"
  <2>1. /\ UNCHANGED <<table, memory, tx, nextSeq>>
        /\ job' = [job EXCEPT ![s] = [rest |-> Tail(@.rest), entered |-> @.entered, pos |-> @.pos]]
    BY <1>8 DEF Insert, Seen, rec, pos, ShapeInv
  <2>2. job'[s] = [rest |-> Tail(job[s].rest), entered |-> job[s].entered, pos |-> pos]
    BY <2>1 DEF ShapeInv, pos
  <2>3. job'[s] # None
    BY <1>2, <1>3, <1>10, <2>2, Zenon DEF NoneIsNoJob
  <2>4. job'[s].rest = Tail(job[s].rest) /\ job'[s].entered = job[s].entered /\ job'[s].pos = pos
    BY <2>2
  <2>5. job'[s] = [rest |-> job'[s].rest, entered |-> job'[s].entered, pos |-> job'[s].pos]
    BY <2>2, <2>4, Zenon
  <2>6. memory'[s] = memory[s] /\ Seen(s)' = Seen(s)
    BY <2>1 DEF Seen
  <2>7. JobOk(s)'
    BY <1>1, <1>2, <1>3, <1>12, <2>4, <2>5, <2>6, Zenon DEF JobOk, read
  <2>8. job' = [job EXCEPT ![s] = job'[s]]
    BY <2>1, <2>2, Zenon DEF pos
  <2> QED
    BY <1>7, <2>1, <2>3, <2>7, <2>8
<1>13. CASE verdict = "fills"
  <2>1. /\ UNCHANGED <<table, memory, tx, nextSeq>>
        /\ job' = [job EXCEPT ![s] = [rest |-> Tail(@.rest), entered |-> Append(@.entered, rec), pos |-> @.pos + 1]]
    BY <1>13 DEF Insert, Seen, rec, pos, ShapeInv
  <2>2. job'[s] = [rest |-> Tail(job[s].rest), entered |-> Append(job[s].entered, rec), pos |-> pos + 1]
    BY <2>1 DEF ShapeInv, pos
  <2>3. Append(job[s].entered, rec) \in Seq(Facts) /\ Len(Append(job[s].entered, rec)) = Len(job[s].entered) + 1
    BY <1>2, <1>3, AppendProperties
  <2>4. pos + 1 \in Nat /\ pos + 1 = Len(memory[s]) + (Len(job[s].entered) + 1)
    <3>1. pos + 1 \in Nat
      BY <1>10
    <3> QED
      BY <1>11, <1>12, <3>1, NextLength, Zenon
  <2>5. job'[s] # None
    BY <1>3, <2>2, <2>3, <2>4, Zenon DEF NoneIsNoJob
  <2>6. job'[s].rest = Tail(job[s].rest) /\ job'[s].entered = Append(job[s].entered, rec) /\ job'[s].pos = pos + 1
    BY <2>2
  <2>7. job'[s] = [rest |-> job'[s].rest, entered |-> job'[s].entered, pos |-> job'[s].pos]
    BY <2>2, <2>6, Zenon
  <2>8. memory'[s] = memory[s] /\ Seen(s)' = Seen(s)
    BY <2>1 DEF Seen
  <2>9. memory[s] \o Append(job[s].entered, rec) = Append(read, rec)
    BY <1>1, <1>2, <1>3, Appended, Zenon DEF read
  <2>10. Reads(Append(read, rec), Seen(s))
    <3>1. /\ Append(read, rec) \in Seq(Facts) /\ Len(Append(read, rec)) = pos + 1
          /\ \A i \in 1..pos : Append(read, rec)[i] = read[i]
          /\ Append(read, rec)[pos + 1] = rec
      BY <1>3, <1>4, AppendProperties
    <3>2. PICK q \in Seen(s) : q.pos = pos /\ q.rec = rec
      BY <1>13 DEF Verdict, AtPosition
    <3>3. Cardinality(Seen(s)) \in Nat
      BY <1>1, FS_CardinalityType DEF Chain
    <3>4. pos + 1 <= Cardinality(Seen(s))
      BY <1>1, <1>10, <3>2, <3>3 DEF Chain
    <3>5. ASSUME NEW r \in Seen(s), r.pos < pos + 1
          PROVE  Append(read, rec)[r.pos + 1] = r.rec
      <4>1. r.pos \in Nat
        BY <1>1, <3>3 DEF Chain
      <4>2. CASE r.pos = pos
        <5>1. r = q
          BY <1>1, <3>2, <4>2 DEF Chain
        <5> QED
          BY <3>1, <3>2, <5>1, Zenon
      <4>3. CASE r.pos < pos
        <5>1. r.pos + 1 \in 1..pos
          BY <1>10, <4>1, <4>3
        <5>2. read[r.pos + 1] = r.rec
          BY <1>2, <1>4, <4>3, Zenon DEF Reads
        <5> QED
          BY <3>1, <5>1, <5>2, Zenon
      <4>4. \A a, b \in Nat : a < b + 1 => a = b \/ a < b
        OBVIOUS
      <4> QED
        BY <1>10, <3>5, <4>1, <4>2, <4>3, <4>4, Zenon
    <3> QED
      BY <3>1, <3>4, <3>5, Zenon DEF Reads
  <2>11. JobOk(s)'
    <3>1. job'[s].pos = Len(memory'[s]) + Len(job'[s].entered)
      BY <2>3, <2>4, <2>6, <2>8, Zenon
    <3>2. Reads(memory'[s] \o job'[s].entered, Seen(s)')
      BY <2>6, <2>8, <2>9, <2>10, Zenon
    <3> QED
      BY <1>1, <1>3, <2>3, <2>6, <2>7, <2>8, <3>1, <3>2, Zenon DEF JobOk
  <2>12. job' = [job EXCEPT ![s] = job'[s]]
    BY <2>1, <2>2, Zenon DEF pos
  <2> QED
    BY <1>7, <2>1, <2>5, <2>11, <2>12
<1>9. verdict \in {"refused", "inserted", "fills", "elsewhere"}
  BY DEF Verdict
<1> QED
  BY <1>5, <1>6, <1>8, <1>9, <1>13

\* For any stores, batches, conflicts, rollbacks and crashes, the table is one
\* gapless History with one terminal fact per occurrence, and every store's
\* memory is its beginning (_history of the SQLite and PostgreSQL stores).
THEOREM OneHistoryHolds ==
    ASSUME BatchesAreSequences, NoneIsNoJob
    PROVE  Spec => []StoresHoldOneHistory
<1>1. Init => StoreInv
  <2> SUFFICES ASSUME Init PROVE StoreInv
    OBVIOUS
  <2>1. Cardinality({}) = 0 /\ IsFiniteSet({})
    BY FS_EmptySet
  <2>2. Chain({}) /\ Terminals({})
    BY <2>1 DEF Chain, Terminals
  <2> QED
    BY <2>2 DEF Init, StoreInv, ShapeInv, RowsInv, WriterInv, MemoryInv, JobInv, Seen
<1>2. StoreInv /\ [Next]_vars => StoreInv'
  <2> SUFFICES ASSUME StoreInv, [Next]_vars
               PROVE  StoreInv'
    OBVIOUS
  <2>1. ASSUME NEW s \in Stores, CallerCommits(s)
        PROVE  StoreInv'
    <3>1. memory[s] # None => Reads(memory[s], Seen(s))
      BY <2>1 DEF CallerCommits, StoreInv, MemoryInv, Base
    <3>2. memory' = [memory EXCEPT ![s] = memory'[s]] /\ job' = [job EXCEPT ![s] = None] /\ memory'[s] = memory[s]
      BY <2>1, Zenon DEF CallerCommits, StoreInv, ShapeInv
    <3> QED
      BY <2>1, <3>1, <3>2, CommitKeeps, Zenon DEF CallerCommits, Seen
  <2>2. ASSUME NEW s \in Stores, Breaks(s)
        PROVE  StoreInv'
    BY <2>2, RollbackKeeps, Zenon DEF Breaks, Fails, StoreInv, ShapeInv
  <2>3. ASSUME NEW s \in Stores, Dies(s)
        PROVE  StoreInv'
    <3>1. memory' = [memory EXCEPT ![s] = memory'[s]] /\ memory'[s] = None
      BY <2>3 DEF Dies, StoreInv, ShapeInv
    <3> QED
      BY <2>3, <3>1, RollbackKeeps, CommitKeeps, Zenon DEF Dies, Seen
  <2>4. CASE UNCHANGED vars
    BY <2>4, Zenon DEF vars, StoreInv, ShapeInv, RowsInv, WriterInv, MemoryInv, JobInv, JobOk, Seen, Base
  <2> QED
    BY <2>1, <2>2, <2>3, <2>4, OpenKeeps, StartKeeps, InsertKeeps, FinishKeeps DEF Next
<1>3. StoreInv => StoresHoldOneHistory
  <2> SUFFICES ASSUME StoreInv PROVE StoresHoldOneHistory
    OBVIOUS
  <2>1. Chain(table) /\ OneTerminal /\ \A s \in Stores : Chain(Seen(s)) /\ table \subseteq Seen(s)
    BY Zenon DEF StoreInv, RowsInv, Terminals, OneTerminal, Seen
  <2>2. LoadIsDense
    BY <2>1, ChainOrder DEF LoadIsDense, Dense
  <2>3. ASSUME NEW s \in Stores, memory[s] # None
        PROVE  Reads(memory[s], Seen(s)) /\ (tx[s] = {} => Reads(memory[s], table))
    BY <2>1, <2>3, ReadsGrow DEF StoreInv, MemoryInv, Base, Seen
  <2>4. MemoryIsTruth
    <3> SUFFICES ASSUME NEW s \in Stores, memory[s] # None
                 PROVE  Prefix(memory[s], Loaded(Seen(s)))
      BY DEF MemoryIsTruth, Seen
    <3>1. Reads(Loaded(Seen(s)), Seen(s)) /\ Len(Loaded(Seen(s))) = Cardinality(Seen(s))
      BY <2>1, LoadedReads
    <3>2. Len(memory[s]) <= Len(Loaded(Seen(s)))
      BY <2>3, <3>1, Zenon DEF Reads
    <3> QED
      BY <2>1, <2>3, <3>1, <3>2, ReadsAgree
  <2>5. StoresAgree
    <3> SUFFICES ASSUME NEW s \in Stores, NEW t \in Stores, memory[s] # None, memory[t] # None,
                        tx[s] = {}, tx[t] = {}
                 PROVE  Prefix(memory[s], memory[t]) \/ Prefix(memory[t], memory[s])
      BY DEF StoresAgree
    <3>1. Reads(memory[s], table) /\ Reads(memory[t], table)
      BY <2>3
    <3>2. Len(memory[s]) \in Nat /\ Len(memory[t]) \in Nat
      BY <3>1, LenProperties DEF Reads
    <3>3. Len(memory[s]) <= Len(memory[t]) \/ Len(memory[t]) <= Len(memory[s])
      BY <3>2
    <3> QED
      BY <2>1, <3>1, <3>3, ReadsAgree
  <2> QED
    BY <2>1, <2>2, <2>4, <2>5 DEF StoresHoldOneHistory
<1> QED
  BY <1>1, <1>2, <1>3, PTL DEF Spec
=============================================================================

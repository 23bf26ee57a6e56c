------------------------- MODULE SourceStoreProofs -------------------------
(***************************************************************************)
(* SourceStore, for any calls and copies and any number of faults.         *)
(***************************************************************************)
EXTENDS SourceStore, SequenceTheorems, TLAPS

\* Whose rows a transaction has read, deleted and inserted.
OwnRows ==
  /\ left \in [Calls -> Seq(Nat \cup Targets)]
  /\ \A c \in Calls : /\ \A r \in snap[c] \cup gone[c] \cup mine[c] : r.table = at[c]
                      /\ \A r \in mine[c] : r.by = c
                      /\ at[c] = "links" => left[c] \in Seq(Targets)
                      /\ open[c] # "insert" => left[c] = << >>

\* What a transaction has inserted is in nobody's way.
KeysApart ==
  \A c \in Calls : \A r \in mine[c] :
    /\ \A s \in live \ gone[c] : s.table = r.table => s.key # r.key
    /\ \A x \in Calls \ {c} : \A s \in mine[x] : s.table = r.table => s.key # r.key

\* A writer of chunks has found one copy or nothing, and deletes all of what there is
\* or nothing.  Once it has inserted index 0, there is nothing but what it deletes.
IsCopy(rows) == rows = {} \/ \E c \in Calls : rows = CopyOf("chunks", c)
First(c, m) == {Row("chunks", i, c) : i \in 0 .. m - 1}
Rest(c, m) == [i \in 1 .. ChunkCount[c] - m |-> m + i - 1]

ChunkWriters ==
  /\ IsCopy(RowsOf("chunks"))
  /\ \A c \in Calls : at[c] = "chunks" =>
       /\ IsCopy(snap[c])
       /\ gone[c] \in {{}, RowsOf("chunks")}
       /\ mine[c] # {} => gone[c] = RowsOf("chunks")
       /\ open[c] = "insert" => \E m \in 0 .. ChunkCount[c] : mine[c] = First(c, m) /\ left[c] = Rest(c, m)
       /\ \A x \in Calls \ {c} : at[x] = "chunks" => mine[c] = {} \/ mine[x] = {}

Inv == TypeOK /\ OwnRows /\ KeysApart /\ ChunkWriters

-----------------------------------------------------------------------------
\* The indexes that are left are a sequence.
LEMMA RestIsSeq ==
  ASSUME NEW c \in Calls, NEW m \in 0 .. ChunkCount[c]
  PROVE  Rest(c, m) \in Seq(Nat) /\ Len(Rest(c, m)) = ChunkCount[c] - m
  <1>1. ChunkCount[c] \in Nat /\ ChunkCount[c] - m \in Nat
    BY CopiesAssumption
  <1>2. Rest(c, m) \in [1 .. ChunkCount[c] - m -> Nat]
    BY <1>1 DEF Rest
  <1>3. QED
    BY <1>1, <1>2

\* The copy of a call, as its first chunks.
LEMMA CopyIsFirst ==
  ASSUME NEW c \in Calls
  PROVE  CopyOf("chunks", c) = First(c, ChunkCount[c])
  <1>1. ChunkCount[c] \in Nat
    BY CopiesAssumption
  <1>2. CopyOf("chunks", c) = {Row("chunks", i - 1, c) : i \in 1 .. ChunkCount[c]}
    BY <1>1 DEF CopyOf, KeysFor, ChunkKeys
  <1>3. ASSUME NEW r
        PROVE  r \in {Row("chunks", i - 1, c) : i \in 1 .. ChunkCount[c]} <=> r \in First(c, ChunkCount[c])
    <2>1. ASSUME NEW i \in 1 .. ChunkCount[c], r = Row("chunks", i - 1, c)
          PROVE  r \in First(c, ChunkCount[c])
      <3>1. i - 1 \in 0 .. ChunkCount[c] - 1
        BY <1>1
      <3>2. QED
        BY <2>1, <3>1 DEF First
    <2>2. ASSUME NEW i \in 0 .. ChunkCount[c] - 1, r = Row("chunks", i, c)
          PROVE  r \in {Row("chunks", j - 1, c) : j \in 1 .. ChunkCount[c]}
      <3>1. i + 1 \in 1 .. ChunkCount[c] /\ (i + 1) - 1 = i
        BY <1>1
      <3>2. QED
        BY <2>2, <3>1
    <2>3. QED
      BY <2>1, <2>2 DEF First
  <1>4. QED
    BY <1>2, <1>3

\* The rows of a copy are its call's, and it has index 0 unless it is empty.
LEMMA CopyHasItsRows ==
  ASSUME NEW c \in Calls
  PROVE  /\ \A r \in CopyOf("chunks", c) : r.table = "chunks" /\ r.by = c /\ r \in Rows
         /\ CopyOf("chunks", c) # {} => Row("chunks", 0, c) \in CopyOf("chunks", c)
  <1>1. ChunkCount[c] \in Nat
    BY CopiesAssumption
  <1>2. \A r \in First(c, ChunkCount[c]) : r.table = "chunks" /\ r.by = c /\ r \in Rows
    BY <1>1 DEF First, Row, Rows
  <1>3. First(c, ChunkCount[c]) # {} => Row("chunks", 0, c) \in First(c, ChunkCount[c])
    BY <1>1 DEF First
  <1>4. QED
    BY <1>2, <1>3, CopyIsFirst

\* At most one writer of chunks has deleted or inserted anything.
LEMMA OneHolder ==
  ASSUME Inv, NEW c \in Calls, NEW x \in Calls, c # x, at[c] = "chunks", at[x] = "chunks",
         gone[c] \cup mine[c] # {}
  PROVE  gone[x] \cup mine[x] = {}
  <1>1. gone[c] \cap gone[x] = {}
    BY DEF Inv, TypeOK
  <1>2. /\ gone[c] \in {{}, RowsOf("chunks")} /\ gone[x] \in {{}, RowsOf("chunks")}
        /\ mine[c] # {} => gone[c] = RowsOf("chunks")
        /\ mine[x] # {} => gone[x] = RowsOf("chunks")
        /\ mine[c] = {} \/ mine[x] = {}
    BY DEF Inv, ChunkWriters
  <1>3. CASE RowsOf("chunks") = {}
    BY <1>2, <1>3
  <1>4. CASE RowsOf("chunks") # {}
    BY <1>1, <1>2, <1>4
  <1>5. QED
    BY <1>3, <1>4

\* Nothing is stored and nobody has begun.
LEMMA InitInv == Init => Inv
  <1> SUFFICES ASSUME Init PROVE Inv
    OBVIOUS
  <1>1. TypeOK /\ OwnRows
    BY SetsAssumption DEF Init, TypeOK, OwnRows, Tables
  <1>2. KeysApart
    BY DEF Init, KeysApart
  <1>3. ChunkWriters
    BY DEF Init, ChunkWriters, IsCopy, RowsOf
  <1>4. QED
    BY <1>1, <1>2, <1>3 DEF Inv

\* A call starts, and writes its row.
LEMMA StartKeeps ==
  ASSUME Inv, NEW c \in Calls, Start(c) \/ UpsertSource(c)
  PROVE  Inv'
  <1> USE DEF Inv
  <1>1. /\ at[c] \in {"new", "row"}
        /\ row' \in Calls \cup {NoCall}
        /\ \E a \in {"row", "chunks", "links"} : at' = [at EXCEPT ![c] = a]
        /\ UNCHANGED <<live, open, snap, gone, mine, left, faults>>
    BY DEF Start, UpsertSource, TypeOK
  <1>2. snap[c] = {} /\ gone[c] = {} /\ mine[c] = {} /\ open[c] = "no"
    <2>1. \A r \in snap[c] : r.table \in Tables
      BY DEF TypeOK, Rows, Tables
    <2>2. QED
      BY <1>1, <2>1 DEF TypeOK, OwnRows, Tables
  <1>3. \A x \in Calls \ {c} : at'[x] = at[x]
    BY <1>1 DEF TypeOK
  <1>4. TypeOK'
    BY <1>1, <1>2 DEF TypeOK, Tables, Rows
  <1>5. OwnRows'
    BY <1>1, <1>2, <1>3 DEF OwnRows
  <1>6. KeysApart'
    BY <1>1 DEF KeysApart
  <1>7. ChunkWriters'
    <2>1. RowsOf("chunks")' = RowsOf("chunks")
      BY <1>1 DEF RowsOf
    <2>2. ASSUME NEW d \in Calls, at'[d] = "chunks"
          PROVE  /\ IsCopy(snap[d])
                 /\ gone[d] \in {{}, RowsOf("chunks")}
                 /\ mine[d] # {} => gone[d] = RowsOf("chunks")
                 /\ open[d] = "insert" =>
                      \E m \in 0 .. ChunkCount[d] : mine[d] = First(d, m) /\ left[d] = Rest(d, m)
                 /\ \A x \in Calls \ {d} : at'[x] = "chunks" => mine[d] = {} \/ mine[x] = {}
      <3>1. CASE d = c
        BY <1>2, <3>1 DEF IsCopy
      <3>2. CASE d # c
        BY <1>2, <1>3, <2>2, <3>2 DEF ChunkWriters
      <3>3. QED
        BY <3>1, <3>2
    <2>3. QED
      BY <1>1, <2>1, <2>2 DEF ChunkWriters
  <1>8. QED
    BY <1>4, <1>5, <1>6, <1>7

\* A transaction begins with what is committed: one copy or nothing.
LEMMA BeginDeleteKeeps ==
  ASSUME Inv, NEW c \in Calls, BeginDelete(c)
  PROVE  Inv'
  <1> USE DEF Inv
  <1>1. /\ at[c] \in Tables /\ open[c] = "no"
        /\ open' = [open EXCEPT ![c] = "delete"]
        /\ snap' = [snap EXCEPT ![c] = RowsOf(at[c])]
        /\ UNCHANGED <<row, live, at, gone, mine, left, faults>>
    BY DEF BeginDelete
  <1>2. gone[c] = {} /\ mine[c] = {} /\ RowsOf(at[c]) \subseteq Rows
    BY <1>1 DEF TypeOK, RowsOf
  <1>3. \A x \in Calls \ {c} : snap'[x] = snap[x] /\ open'[x] = open[x]
    BY <1>1 DEF TypeOK
  <1>4. snap'[c] = RowsOf(at[c]) /\ open'[c] = "delete"
    BY <1>1 DEF TypeOK
  <1>5. TypeOK'
    BY <1>1, <1>2, <1>3, <1>4 DEF TypeOK, Rows
  <1>6. OwnRows'
    BY <1>1, <1>3, <1>4 DEF OwnRows, RowsOf
  <1>7. KeysApart'
    BY <1>1 DEF KeysApart
  <1>8. ChunkWriters'
    <2>1. RowsOf("chunks")' = RowsOf("chunks")
      BY <1>1 DEF RowsOf
    <2>2. ASSUME NEW d \in Calls, at[d] = "chunks"
          PROVE  /\ IsCopy(snap'[d])
                 /\ gone[d] \in {{}, RowsOf("chunks")}
                 /\ mine[d] # {} => gone[d] = RowsOf("chunks")
                 /\ open'[d] = "insert" =>
                      \E m \in 0 .. ChunkCount[d] : mine[d] = First(d, m) /\ left[d] = Rest(d, m)
                 /\ \A x \in Calls \ {d} : at[x] = "chunks" => mine[d] = {} \/ mine[x] = {}
      <3>1. CASE d = c
        BY <1>2, <1>4, <2>2, <3>1 DEF ChunkWriters
      <3>2. CASE d # c
        BY <1>3, <2>2, <3>2 DEF ChunkWriters
      <3>3. QED
        BY <3>1, <3>2
    <2>3. QED
      BY <1>1, <2>1, <2>2 DEF ChunkWriters
  <1>9. QED
    BY <1>5, <1>6, <1>7, <1>8

\* Of what it read a writer deletes what is still there: all of it or nothing.
LEMMA DeleteKeeps ==
  ASSUME Inv, NEW c \in Calls, Delete(c)
  PROVE  Inv'
  <1> USE DEF Inv
  <1>1. /\ open[c] = "delete" /\ ~Blocked(c)
        /\ gone' = [gone EXCEPT ![c] = snap[c] \cap live]
        /\ open' = [open EXCEPT ![c] = "insert"]
        /\ left' = [left EXCEPT ![c] = KeysFor(at[c], c)]
        /\ UNCHANGED <<row, live, at, snap, mine, faults>>
    BY DEF Delete, RowsToDelete
  <1>2. gone[c] = {} /\ mine[c] = {} /\ at[c] \in Tables
    BY <1>1 DEF TypeOK
  <1>3. \A x \in Calls \ {c} : gone'[x] = gone[x] /\ open'[x] = open[x] /\ left'[x] = left[x]
    BY <1>1 DEF TypeOK, OwnRows
  <1>4. gone'[c] = snap[c] \cap live /\ open'[c] = "insert" /\ left'[c] = KeysFor(at[c], c)
    BY <1>1 DEF TypeOK, OwnRows
  <1>5. KeysFor(at[c], c) \in Seq(Nat \cup Targets)
    <2>1. ChunkKeys(c) \in Seq(Nat \cup Targets)
      <3>1. ChunkCount[c] \in Nat
        BY CopiesAssumption
      <3>2. ChunkKeys(c) \in [1 .. ChunkCount[c] -> Nat \cup Targets]
        BY <3>1 DEF ChunkKeys
      <3>3. QED
        BY <3>1, <3>2
    <2>2. LinkOrder[c] \in Seq(Nat \cup Targets)
      <3>1. LinkOrder[c] \in Seq(Targets)
        BY CopiesAssumption
      <3>2. QED
        BY <3>1
    <2>3. QED
      BY <2>1, <2>2 DEF KeysFor
  <1>6. \A x \in Calls \ {c} : gone[x] \cap snap[c] = {}
    BY <1>1 DEF Blocked, Blocks
  <1>7. left' \in [Calls -> Seq(Nat \cup Targets)]
    BY <1>1, <1>5 DEF OwnRows
  <1>8. TypeOK'
    <2>1. gone' \in [Calls -> SUBSET Rows] /\ open' \in [Calls -> {"no", "delete", "insert"}]
      BY <1>1 DEF TypeOK
    <2>2. \A d \in Calls : /\ open'[d] # "no" => at[d] \in Tables
                           /\ gone'[d] \cup mine[d] # {} => open'[d] = "insert"
                           /\ gone'[d] \subseteq live
      BY <1>2, <1>3, <1>4 DEF TypeOK
    <2>3. \A d, x \in Calls : d # x => gone'[d] \cap gone'[x] = {}
      BY <1>3, <1>4, <1>6 DEF TypeOK
    <2>4. QED
      BY <1>1, <1>7, <2>1, <2>2, <2>3 DEF TypeOK, Rows, Tables
  <1>9. OwnRows'
    <2>1. at[c] = "links" => left'[c] \in Seq(Targets)
      BY <1>4, CopiesAssumption DEF KeysFor
    <2>2. QED
      BY <1>1, <1>3, <1>4, <1>7, <2>1 DEF OwnRows
  <1>10. KeysApart'
    BY <1>1, <1>2, <1>3 DEF KeysApart
  <1>11. ChunkWriters'
    <2>1. RowsOf("chunks")' = RowsOf("chunks")
      BY <1>1 DEF RowsOf
    <2>2. ASSUME NEW d \in Calls, at[d] = "chunks"
          PROVE  /\ IsCopy(snap[d])
                 /\ gone'[d] \in {{}, RowsOf("chunks")}
                 /\ mine[d] # {} => gone'[d] = RowsOf("chunks")
                 /\ open'[d] = "insert" =>
                      \E m \in 0 .. ChunkCount[d] : mine[d] = First(d, m) /\ left'[d] = Rest(d, m)
                 /\ \A x \in Calls \ {d} : at[x] = "chunks" => mine[d] = {} \/ mine[x] = {}
      <3>1. CASE d = c
        <4>1. snap[c] \cap live \in {{}, RowsOf("chunks")}
          <5>1. CASE snap[c] \cap live = {}
            BY <5>1
          <5>2. CASE snap[c] \cap live # {}
            <6>1. PICK r \in snap[c] \cap live : TRUE
              BY <5>2
            <6>2. PICK y \in Calls : snap[c] = CopyOf("chunks", y)
              BY <2>2, <3>1, <6>1 DEF ChunkWriters, IsCopy
            <6>3. r.table = "chunks" /\ r.by = y
              BY <6>1, <6>2, CopyHasItsRows
            <6>4. PICK z \in Calls : RowsOf("chunks") = CopyOf("chunks", z)
              BY <6>1, <6>3 DEF ChunkWriters, IsCopy, RowsOf
            <6>5. z = y
              BY <6>1, <6>3, <6>4, CopyHasItsRows DEF RowsOf
            <6>6. QED
              BY <6>2, <6>4, <6>5 DEF RowsOf
          <5>3. QED
            BY <5>1, <5>2
        <4>2. mine[d] = First(d, 0) /\ left'[d] = Rest(d, 0) /\ 0 \in 0 .. ChunkCount[d]
          <5>1. ChunkCount[d] \in Nat
            BY CopiesAssumption
          <5>2. KeysFor(at[c], c) = Rest(c, 0)
            BY <2>2, <3>1, <5>1 DEF KeysFor, ChunkKeys, Rest
          <5>3. First(c, 0) = {}
            BY DEF First
          <5>4. QED
            BY <1>2, <1>4, <3>1, <5>1, <5>2, <5>3
        <4>3. QED
          BY <1>2, <1>4, <2>2, <3>1, <4>1, <4>2 DEF ChunkWriters
      <3>2. CASE d # c
        BY <1>3, <2>2, <3>2 DEF ChunkWriters
      <3>3. QED
        BY <3>1, <3>2
    <2>3. QED
      BY <1>1, <2>1, <2>2 DEF ChunkWriters
  <1>12. QED
    BY <1>8, <1>9, <1>10, <1>11

\* A transaction that is given up leaves no trace.
LEMMA RollbackKeeps ==
  ASSUME Inv, NEW c \in Calls, Rollback(c), faults' \in Nat
  PROVE  Inv'
  <1> USE DEF Inv
  <1>1. /\ at' = [at EXCEPT ![c] = "failed"]
        /\ open' = [open EXCEPT ![c] = "no"] /\ snap' = [snap EXCEPT ![c] = {}]
        /\ gone' = [gone EXCEPT ![c] = {}] /\ mine' = [mine EXCEPT ![c] = {}]
        /\ left' = [left EXCEPT ![c] = << >>] /\ UNCHANGED <<row, live>>
    BY DEF Rollback, CloseTx
  <1>2. /\ at'[c] = "failed" /\ open'[c] = "no" /\ snap'[c] = {} /\ gone'[c] = {}
        /\ mine'[c] = {} /\ left'[c] = << >>
        /\ \A x \in Calls \ {c} : /\ at'[x] = at[x] /\ open'[x] = open[x] /\ snap'[x] = snap[x]
                                   /\ gone'[x] = gone[x] /\ mine'[x] = mine[x] /\ left'[x] = left[x]
    BY <1>1 DEF TypeOK, OwnRows
  <1>3. left' \in [Calls -> Seq(Nat \cup Targets)]
    BY <1>1 DEF OwnRows
  <1>4. TypeOK'
    <2>1. /\ at' \in [Calls -> {"new", "row", "done", "failed"} \cup Tables]
          /\ open' \in [Calls -> {"no", "delete", "insert"}] /\ snap' \in [Calls -> SUBSET Rows]
          /\ gone' \in [Calls -> SUBSET Rows] /\ mine' \in [Calls -> SUBSET Rows]
      BY <1>1 DEF TypeOK
    <2>2. QED
      BY <1>1, <1>2, <1>3, <2>1 DEF TypeOK, Tables, Rows
  <1>5. OwnRows'
    BY <1>2, <1>3 DEF OwnRows
  <1>6. KeysApart'
    BY <1>1, <1>2 DEF KeysApart
  <1>7. ChunkWriters'
    <2>1. RowsOf("chunks")' = RowsOf("chunks")
      BY <1>1 DEF RowsOf
    <2>2. ASSUME NEW d \in Calls, at'[d] = "chunks"
          PROVE  /\ IsCopy(snap'[d])
                 /\ gone'[d] \in {{}, RowsOf("chunks")}
                 /\ mine'[d] # {} => gone'[d] = RowsOf("chunks")
                 /\ open'[d] = "insert" =>
                      \E m \in 0 .. ChunkCount[d] : mine'[d] = First(d, m) /\ left'[d] = Rest(d, m)
                 /\ \A x \in Calls \ {d} : at'[x] = "chunks" => mine'[d] = {} \/ mine'[x] = {}
      <3>1. d # c
        BY <1>2, <2>2
      <3>2. QED
        BY <1>2, <2>2, <3>1 DEF ChunkWriters
    <2>3. QED
      BY <2>1, <2>2 DEF ChunkWriters
  <1>8. QED
    BY <1>4, <1>5, <1>6, <1>7

\* A row is inserted only when nobody else has its key, or may have it.  The first
\* chunk goes in only when nothing of another copy stays.
LEMMA InsertKeeps ==
  ASSUME Inv, NEW c \in Calls, Insert(c)
  PROVE  Inv'
  <1> USE DEF Inv
  <1> DEFINE k == Head(left[c])
             new == Row(at[c], k, c)
  <1>1. /\ open[c] = "insert" /\ left[c] # << >> /\ ~Blocked(c)
        /\ Taken(c) => at[c] = "links"
        /\ mine' = [mine EXCEPT ![c] = IF Taken(c) THEN @ ELSE @ \cup {new}]
        /\ left' = [left EXCEPT ![c] = Tail(@)]
        /\ UNCHANGED <<row, live, at, open, snap, gone, faults>>
    BY DEF Insert, SkipsConflicts
  <1>2. at[c] \in Tables
    BY <1>1 DEF TypeOK
  <1>3. left[c] \in Seq(Nat \cup Targets) /\ Tail(left[c]) \in Seq(Nat \cup Targets)
    BY <1>1 DEF OwnRows
  <1>4. /\ mine'[c] = IF Taken(c) THEN mine[c] ELSE mine[c] \cup {new}
        /\ left'[c] = Tail(left[c])
        /\ \A x \in Calls \ {c} : mine'[x] = mine[x] /\ left'[x] = left[x]
    BY <1>1 DEF TypeOK, OwnRows
  <1>5. ASSUME at[c] = "chunks"
        PROVE  \E m \in 0 .. ChunkCount[c] :
                 /\ m < ChunkCount[c] /\ k = m
                 /\ mine[c] = First(c, m) /\ mine'[c] = First(c, m + 1) /\ left'[c] = Rest(c, m + 1)
    <2>1. ChunkCount[c] \in Nat
      BY CopiesAssumption
    <2>2. PICK m \in 0 .. ChunkCount[c] : mine[c] = First(c, m) /\ left[c] = Rest(c, m)
      BY <1>1, <1>5 DEF ChunkWriters
    <2>3. m < ChunkCount[c]
      <3>1. CASE m = ChunkCount[c]
        <4>1. Rest(c, m) = << >>
          BY <2>1, <3>1 DEF Rest
        <4>2. QED
          BY <1>1, <2>2, <4>1
      <3>2. QED
        BY <2>1, <3>1
    <2>4. k = m /\ Tail(left[c]) = Rest(c, m + 1)
      <3> DEFINE tail == Tail(Rest(c, m))
      <3>1. /\ Rest(c, m) \in Seq(Nat) /\ Len(Rest(c, m)) = ChunkCount[c] - m
            /\ Rest(c, m + 1) \in Seq(Nat) /\ Len(Rest(c, m + 1)) = ChunkCount[c] - m - 1
        BY <2>1, <2>3, RestIsSeq
      <3>2. \A i \in 1 .. ChunkCount[c] - m - 1 : Rest(c, m)[i + 1] = Rest(c, m + 1)[i]
        BY <2>1, <2>3 DEF Rest
      <3>3. Rest(c, m)[1] = m
        BY <2>1, <2>3 DEF Rest
      <3>4. Rest(c, m) # << >>
        BY <1>1, <2>2
      <3>5. /\ tail \in Seq(Nat) /\ Len(tail) = ChunkCount[c] - m - 1
            /\ \A i \in 1 .. ChunkCount[c] - m - 1 : tail[i] = Rest(c, m)[i + 1]
        BY <3>1, <3>4, HeadTailProperties
      <3> HIDE DEF tail
      <3>6. tail = Rest(c, m + 1)
        BY <3>1, <3>2, <3>5, SeqEqual
      <3>7. QED
        BY <2>2, <3>3, <3>6 DEF tail
    <2>5. First(c, m + 1) = First(c, m) \cup {Row("chunks", m, c)}
      BY DEF First
    <2>6. QED
      BY <1>1, <1>4, <1>5, <2>2, <2>3, <2>4, <2>5
  <1>6. new \in Rows /\ new.table = at[c] /\ new.key = k /\ new.by = c
    <2>1. CASE at[c] = "chunks"
      BY <1>5, <2>1, CopiesAssumption DEF Row, Rows
    <2>2. CASE at[c] = "links"
      <3>1. k \in Targets
        BY <1>1, <2>2 DEF OwnRows
      <3>2. QED
        BY <2>2, <3>1 DEF Row, Rows
    <2>3. QED
      BY <1>2, <2>1, <2>2 DEF Tables
  <1>7. ~Taken(c) => \A s \in live \ gone[c] : s.table = at[c] => s.key # k
    BY DEF Taken
  <1>8. \A x \in Calls \ {c} : \A s \in gone[x] \cup mine[x] : s.table = at[c] => s.key # k
    BY <1>1 DEF Blocked, Blocks
  <1>9. left' \in [Calls -> Seq(Nat \cup Targets)] /\ mine' \in [Calls -> SUBSET Rows]
    BY <1>1, <1>3, <1>6 DEF OwnRows, TypeOK
  <1> HIDE DEF k, new
  <1>10. TypeOK'
    BY <1>1, <1>4, <1>9 DEF TypeOK, Tables, Rows
  <1>11. OwnRows'
    <2>1. at[c] = "links" => left'[c] \in Seq(Targets)
      BY <1>1, <1>4 DEF OwnRows
    <2>2. \A r \in mine'[c] : r.table = at[c] /\ r.by = c
      BY <1>4, <1>6 DEF OwnRows
    <2>3. QED
      BY <1>1, <1>4, <1>9, <2>1, <2>2 DEF OwnRows
  <1>12. KeysApart'
    <2>1. ASSUME NEW d \in Calls, NEW r \in mine'[d]
          PROVE  /\ \A s \in live \ gone[d] : s.table = r.table => s.key # r.key
                 /\ \A x \in Calls \ {d} : \A s \in mine'[x] : s.table = r.table => s.key # r.key
      <3>1. CASE r \in mine[d]
        BY <1>4, <1>6, <1>8, <3>1 DEF KeysApart
      <3>2. CASE r \notin mine[d]
        <4>1. d = c /\ r = new /\ ~Taken(c)
          BY <1>4, <2>1, <3>2
        <4>2. QED
          BY <1>4, <1>6, <1>7, <1>8, <4>1
      <3>3. QED
        BY <3>1, <3>2
    <2>2. QED
      BY <1>1, <2>1 DEF KeysApart
  <1>13. ChunkWriters'
    <2>1. RowsOf("chunks")' = RowsOf("chunks")
      BY <1>1 DEF RowsOf
    <2>2. ASSUME at[c] = "chunks"
          PROVE  /\ gone[c] = RowsOf("chunks")
                 /\ \A x \in Calls \ {c} : at[x] = "chunks" => mine[x] = {}
      <3>1. PICK m \in 0 .. ChunkCount[c] : k = m /\ mine[c] = First(c, m)
        BY <1>5, <2>2
      <3>2. CASE mine[c] # {}
        BY <2>2, <3>2 DEF ChunkWriters
      <3>3. CASE mine[c] = {}
        <4>1. k = 0
          <5>1. m > 0 => Row("chunks", 0, c) \in First(c, m)
            BY CopiesAssumption DEF First
          <5>2. QED
            BY <3>1, <3>3, <5>1, CopiesAssumption
        <4>2. gone[c] = RowsOf("chunks")
          <5>1. CASE RowsOf("chunks") = {}
            BY <2>2, <5>1 DEF ChunkWriters
          <5>2. CASE RowsOf("chunks") # {}
            <6>1. PICK z \in Calls : Row("chunks", 0, z) \in RowsOf("chunks")
              BY <5>2, CopyHasItsRows DEF ChunkWriters, IsCopy
            <6>2. Row("chunks", 0, z) \in gone[c]
              BY <1>1, <1>7, <2>2, <4>1, <6>1 DEF RowsOf, Row
            <6>3. QED
              BY <2>2, <6>2 DEF ChunkWriters
          <5>3. QED
            BY <5>1, <5>2
        <4>3. ASSUME NEW x \in Calls \ {c}, at[x] = "chunks", mine[x] # {}
              PROVE  FALSE
          <5>1. PICK l \in 0 .. ChunkCount[x] : mine[x] = First(x, l)
            BY <4>3 DEF ChunkWriters, TypeOK
          <5>2. Row("chunks", 0, x) \in mine[x]
            BY <4>3, <5>1, CopiesAssumption DEF First
          <5>3. QED
            BY <1>8, <2>2, <4>1, <5>2 DEF Row
        <4>4. QED
          BY <4>2, <4>3
      <3>4. QED
        BY <3>2, <3>3
    <2>3. ASSUME NEW d \in Calls, at[d] = "chunks"
          PROVE  /\ IsCopy(snap[d])
                 /\ gone[d] \in {{}, RowsOf("chunks")}
                 /\ mine'[d] # {} => gone[d] = RowsOf("chunks")
                 /\ open[d] = "insert" =>
                      \E m \in 0 .. ChunkCount[d] : mine'[d] = First(d, m) /\ left'[d] = Rest(d, m)
                 /\ \A x \in Calls \ {d} : at[x] = "chunks" => mine'[d] = {} \/ mine'[x] = {}
      <3>1. CASE d = c
        <4>1. PICK m \in 0 .. ChunkCount[c] : /\ m < ChunkCount[c]
                                             /\ mine'[c] = First(c, m + 1) /\ left'[c] = Rest(c, m + 1)
          BY <1>5, <2>3, <3>1
        <4>2. m + 1 \in 0 .. ChunkCount[c]
          BY <4>1, CopiesAssumption
        <4>3. QED
          BY <1>4, <2>2, <2>3, <3>1, <4>1, <4>2 DEF ChunkWriters
      <3>2. CASE d # c
        BY <1>4, <2>2, <2>3, <3>2 DEF ChunkWriters
      <3>3. QED
        BY <3>1, <3>2
    <2>4. QED
      BY <1>1, <2>1, <2>3 DEF ChunkWriters
  <1>14. QED
    BY <1>10, <1>11, <1>12, <1>13

\* When a writer of chunks has nothing left to insert, it has inserted its copy.
LEMMA AllInserted ==
  ASSUME Inv, NEW c \in Calls, at[c] = "chunks", open[c] = "insert", left[c] = << >>
  PROVE  mine[c] = CopyOf("chunks", c)
  <1>1. PICK m \in 0 .. ChunkCount[c] : mine[c] = First(c, m) /\ left[c] = Rest(c, m)
    BY DEF Inv, ChunkWriters
  <1>2. ChunkCount[c] \in Nat
    BY CopiesAssumption
  <1>3. Len(Rest(c, m)) = ChunkCount[c] - m
    BY <1>2 DEF Rest
  <1>4. m = ChunkCount[c]
    BY <1>1, <1>2, <1>3
  <1>5. QED
    BY <1>1, <1>4, CopyIsFirst

\* A commit leaves the chunks of one copy: those that were there, or those of the call
\* and nothing beside them.
LEMMA CommitKeeps ==
  ASSUME Inv, NEW c \in Calls, Commit(c)
  PROVE  Inv'
  <1> USE DEF Inv
  <1>1. /\ open[c] = "insert" /\ left[c] = << >>
        /\ live' = (live \ gone[c]) \cup mine[c]
        /\ open' = [open EXCEPT ![c] = "no"] /\ snap' = [snap EXCEPT ![c] = {}]
        /\ gone' = [gone EXCEPT ![c] = {}] /\ mine' = [mine EXCEPT ![c] = {}]
        /\ left' = [left EXCEPT ![c] = << >>]
        /\ at' = [at EXCEPT ![c] = IF at[c] = "chunks" THEN "links" ELSE "done"]
        /\ UNCHANGED <<row, faults>>
    BY DEF Commit, CloseTx
  <1>2. at[c] \in Tables
    BY <1>1 DEF TypeOK
  <1>3. /\ at'[c] \in {"links", "done"} /\ open'[c] = "no" /\ snap'[c] = {} /\ gone'[c] = {}
        /\ mine'[c] = {} /\ left'[c] = << >>
        /\ \A x \in Calls \ {c} : /\ at'[x] = at[x] /\ open'[x] = open[x] /\ snap'[x] = snap[x]
                                   /\ gone'[x] = gone[x] /\ mine'[x] = mine[x] /\ left'[x] = left[x]
    BY <1>1 DEF TypeOK, OwnRows
  <1>4. left' \in [Calls -> Seq(Nat \cup Targets)]
    BY <1>1 DEF OwnRows
  <1>5. TypeOK'
    <2>1. /\ at' \in [Calls -> {"new", "row", "done", "failed"} \cup Tables]
          /\ open' \in [Calls -> {"no", "delete", "insert"}] /\ snap' \in [Calls -> SUBSET Rows]
          /\ gone' \in [Calls -> SUBSET Rows] /\ mine' \in [Calls -> SUBSET Rows]
      BY <1>1 DEF TypeOK, Tables
    <2>2. live' \subseteq Rows /\ \A x \in Calls : gone'[x] \subseteq live'
      BY <1>1, <1>3 DEF TypeOK
    <2>3. ASSUME NEW r \in live', NEW s \in live', r.table = s.table, r.key = s.key
          PROVE  r = s
      <3>1. CASE r \in live \ gone[c] /\ s \in live \ gone[c]
        BY <2>3, <3>1 DEF TypeOK
      <3>2. CASE r \in mine[c] /\ s \in mine[c]
        <4>1. r \in Rows /\ s \in Rows /\ r.by = s.by
          BY <3>2 DEF TypeOK, OwnRows
        <4>2. QED
          BY <2>3, <4>1 DEF Rows
      <3>3. CASE (r \in mine[c]) # (s \in mine[c])
        BY <1>1, <2>3, <3>3 DEF KeysApart
      <3>4. QED
        BY <1>1, <3>1, <3>2, <3>3
    <2>4. \A d \in Calls : /\ open'[d] # "no" => at'[d] \in Tables
                           /\ gone'[d] \cup mine'[d] # {} => open'[d] = "insert"
                           /\ left'[d] # << >> => left'[d] \in Seq(Nat \cup Targets)
      BY <1>3, <1>4 DEF TypeOK
    <2>5. \A d, x \in Calls : d # x => gone'[d] \cap gone'[x] = {}
      BY <1>3 DEF TypeOK
    <2>6. QED
      BY <1>1, <2>1, <2>2, <2>3, <2>4, <2>5 DEF TypeOK, Tables, Rows
  <1>6. OwnRows'
    <2>1. << >> \in Seq(Targets)
      OBVIOUS
    <2>2. QED
      BY <1>3, <1>4, <2>1 DEF OwnRows
  <1>7. KeysApart'
    <2>1. ASSUME NEW d \in Calls, NEW r \in mine'[d]
          PROVE  /\ \A s \in live' \ gone'[d] : s.table = r.table => s.key # r.key
                 /\ \A x \in Calls \ {d} : \A s \in mine'[x] : s.table = r.table => s.key # r.key
      <3>1. d # c /\ r \in mine[d]
        BY <1>3, <2>1
      <3>2. QED
        BY <1>1, <1>3, <3>1 DEF KeysApart
    <2>2. QED
      BY <2>1 DEF KeysApart
  <1>8. ChunkWriters'
    <2>1. RowsOf("chunks")' = {r \in live' : r.table = "chunks"}
      BY DEF RowsOf
    <2>2. CASE at[c] = "links"
      <3>1. RowsOf("chunks")' = RowsOf("chunks")
        BY <1>1, <2>1, <2>2 DEF OwnRows, RowsOf
      <3>2. ASSUME NEW d \in Calls, at'[d] = "chunks"
            PROVE  d # c
        BY <1>1, <2>2, <3>2 DEF TypeOK
      <3>3. QED
        BY <1>3, <3>1, <3>2 DEF ChunkWriters
    <2>3. CASE at[c] = "chunks"
      <3>1. RowsOf("chunks")' = (RowsOf("chunks") \ gone[c]) \cup mine[c]
        BY <1>1, <2>1, <2>3 DEF OwnRows, RowsOf
      <3>2. IsCopy(RowsOf("chunks")')
        <4>1. CASE mine[c] = {}
          BY <2>3, <3>1, <4>1 DEF ChunkWriters, IsCopy
        <4>2. CASE mine[c] # {}
          <5>1. RowsOf("chunks")' = CopyOf("chunks", c)
            BY <1>1, <2>3, <3>1, <4>2, AllInserted DEF ChunkWriters
          <5>2. QED
            BY <5>1 DEF IsCopy
        <4>3. QED
          BY <4>1, <4>2
      <3>3. ASSUME NEW d \in Calls, at'[d] = "chunks"
            PROVE  /\ d # c /\ at[d] = "chunks"
                   /\ gone[d] \in {{}, RowsOf("chunks")'}
                   /\ mine[d] # {} => gone[d] = RowsOf("chunks")'
        <4>1. d # c /\ at[d] = "chunks"
          BY <1>3, <3>3
        <4>2. CASE gone[c] \cup mine[c] # {}
          <5>1. gone[d] \cup mine[d] = {}
            BY <2>3, <4>1, <4>2, OneHolder
          <5>2. QED
            BY <4>1, <5>1
        <4>3. CASE gone[c] \cup mine[c] = {}
          BY <3>1, <4>1, <4>3 DEF ChunkWriters
        <4>4. QED
          BY <4>2, <4>3
      <3>4. ASSUME NEW d \in Calls, at'[d] = "chunks"
            PROVE  /\ IsCopy(snap'[d])
                   /\ gone'[d] \in {{}, RowsOf("chunks")'}
                   /\ mine'[d] # {} => gone'[d] = RowsOf("chunks")'
                   /\ open'[d] = "insert" =>
                        \E m \in 0 .. ChunkCount[d] : mine'[d] = First(d, m) /\ left'[d] = Rest(d, m)
                   /\ \A x \in Calls \ {d} : at'[x] = "chunks" => mine'[d] = {} \/ mine'[x] = {}
        BY <1>3, <3>3, <3>4 DEF ChunkWriters
      <3>5. QED
        BY <3>2, <3>4 DEF ChunkWriters
    <2>4. QED
      BY <1>2, <2>2, <2>3 DEF Tables
  <1>9. QED
    BY <1>5, <1>6, <1>7, <1>8

-----------------------------------------------------------------------------
\* Syncs, pushes and rebuilds of one source, statement by statement, with failures and
\* deadlocks at any of them: a transaction that has touched the chunks is alone with
\* them until it ends.
THEOREM SourceStoreInvariant == Spec => []Inv
  <1>1. Init => Inv
    BY InitInv
  <1>2. Inv /\ [Next]_vars => Inv'
    <2> SUFFICES ASSUME Inv, [Next]_vars PROVE Inv'
      OBVIOUS
    <2>1. ASSUME NEW c \in Calls, CallFails(c) \/ DeadlockDetected(c) \/ InsertConflicts(c)
          PROVE  Rollback(c) /\ faults' \in Nat
      BY <2>1 DEF CallFails, DeadlockDetected, InsertConflicts, Inv, TypeOK
    <2>2. CASE Next
      <3>1. PICK c \in Calls : Start(c) \/ Work(c) \/ CallFails(c) \/ DeadlockDetected(c)
        BY <2>2 DEF Next
      <3>2. CASE Start(c) \/ UpsertSource(c)
        BY <3>2, StartKeeps
      <3>3. CASE BeginDelete(c) \/ Delete(c)
        BY <3>3, BeginDeleteKeeps, DeleteKeeps
      <3>4. CASE Insert(c) \/ Commit(c)
        BY <3>4, InsertKeeps, CommitKeeps
      <3>5. CASE CallFails(c) \/ DeadlockDetected(c) \/ InsertConflicts(c)
        BY <2>1, <3>5, RollbackKeeps
      <3>6. QED
        BY <3>1, <3>2, <3>3, <3>4, <3>5 DEF Work
    <2>3. CASE UNCHANGED vars
      <3>1. /\ UNCHANGED <<row, live, at, open, snap, gone, mine, left, faults>>
            /\ RowsOf("chunks")' = RowsOf("chunks")
        BY <2>3 DEF vars, RowsOf
      <3>2. TypeOK' /\ OwnRows' /\ KeysApart'
        BY <3>1 DEF Inv, TypeOK, OwnRows, KeysApart, Rows, Tables
      <3>3. ChunkWriters'
        BY <3>1 DEF Inv, ChunkWriters
      <3>4. QED
        BY <3>2, <3>3 DEF Inv
    <2>4. QED
      BY <2>2, <2>3
  <1>3. QED
    BY <1>1, <1>2, PTL DEF Spec

\* Types, and: no row is deleted by two calls, and no key of a table is used twice.
THEOREM TypesHold == Spec => []TypeOK
  <1>1. Inv => TypeOK
    BY DEF Inv
  <1>2. QED
    BY <1>1, SourceStoreInvariant, PTL

\* The chunks that readers find are all those of one call's copy (repo.go:
\* ReplaceChunks deletes and inserts in one transaction, in the order of the indexes,
\* and the unique index on them refuses a second copy).
THEOREM ReadersSeeOneCopy == Spec => []ChunksOfOneCopy
  <1>1. Inv => ChunksOfOneCopy
    BY DEF Inv, ChunkWriters, IsCopy, ChunksOfOneCopy, OneCopy
  <1>2. QED
    BY <1>1, SourceStoreInvariant, PTL

\* Calls that replace chunks never wait for each other in a circle: only one of them
\* holds anything that another could wait for.
THEOREM NoCircleOfChunkWriters == Spec => []ChunkWritersNeverDeadlock
  <1>1. Inv => ChunkWritersNeverDeadlock
    <2> SUFFICES ASSUME Inv,
                        NEW S \in SUBSET {c \in Calls : at[c] = "chunks" /\ Blocked(c)},
                        IsCircle(S)
                 PROVE  FALSE
      BY DEF ChunkWritersNeverDeadlock
    <2>1. \A c \in S : \E x \in S : Blocks(x, c)
      BY DEF IsCircle
    <2>2. \A c \in S : c \in Calls /\ at[c] = "chunks"
      OBVIOUS
    <2>3. PICK c \in S, x \in S, y \in S : Blocks(x, c) /\ Blocks(y, x)
      BY <2>1 DEF IsCircle
    <2>4. x # y /\ gone[x] \cup mine[x] # {} /\ gone[y] \cup mine[y] # {}
      BY <2>3 DEF Blocks
    <2>5. QED
      BY <2>2, <2>4, OneHolder
  <1>2. QED
    BY <1>1, SourceStoreInvariant, PTL

-----------------------------------------------------------------------------
(***************************************************************************)
(* SourceStore implements AtomicChunks.  Beside Inv the steps need what    *)
(* lies behind a call: rows are only of calls that are past their chunks,  *)
(* so rows that are gone do not come back; a DELETE took of what it found  *)
(* all that is still there; and rebuild-links never comes to the chunks.   *)
(***************************************************************************)
Behind ==
  /\ \A c \in LinksOnly : at[c] \notin {"row", "chunks"}
  /\ \A c \in Calls : \A r \in live \cup snap[c] :
       r.table = "chunks" => at[r.by] \notin {"new", "row", "chunks"}
  /\ \A c \in Calls : at[c] = "chunks" /\ open[c] = "insert" => gone[c] = snap[c] \cap live

\* No step brings rows back: those that a step adds are of the call that commits them.
LEMMA BehindIsKept == Inv /\ Behind /\ [Next]_vars => Behind'
  <1> SUFFICES ASSUME Inv, Behind, [Next]_vars PROVE Behind'
    OBVIOUS
  <1> USE DEF Inv
  <1>1. ASSUME NEW c \in Calls, Start(c) \/ UpsertSource(c)
        PROVE  Behind'
    <2>1. /\ at[c] \in {"new", "row"}
          /\ \E a \in {"row", "chunks", "links"} :
               at' = [at EXCEPT ![c] = a] /\ (c \in LinksOnly => a = "links")
          /\ UNCHANGED <<live, open, snap, gone>>
      BY <1>1 DEF Start, UpsertSource, Behind
    <2>2. open[c] = "no" /\ \A x \in Calls \ {c} : at'[x] = at[x]
      BY <2>1 DEF TypeOK, Tables
    <2>3. \A x \in LinksOnly : at'[x] \notin {"row", "chunks"}
      BY <2>1, SetsAssumption DEF Behind, TypeOK
    <2>4. \A x \in Calls : \A r \in live \cup snap[x] :
            r.table = "chunks" => at'[r.by] \notin {"new", "row", "chunks"}
      BY <2>1, <2>2 DEF Behind, TypeOK, Rows
    <2>5. \A x \in Calls : at'[x] = "chunks" /\ open[x] = "insert" => gone[x] = snap[x] \cap live
      BY <2>1, <2>2 DEF Behind
    <2>6. QED
      BY <2>1, <2>3, <2>4, <2>5 DEF Behind
  <1>2. ASSUME NEW c \in Calls, BeginDelete(c)
        PROVE  Behind'
    <2>1. /\ open' = [open EXCEPT ![c] = "delete"]
          /\ snap' = [snap EXCEPT ![c] = RowsOf(at[c])]
          /\ UNCHANGED <<live, at, gone>>
      BY <1>2 DEF BeginDelete
    <2>2. /\ snap'[c] \subseteq live /\ open'[c] = "delete"
          /\ \A x \in Calls \ {c} : snap'[x] = snap[x] /\ open'[x] = open[x]
      BY <2>1 DEF TypeOK, RowsOf
    <2>3. QED
      BY <2>1, <2>2 DEF Behind
  <1>3. ASSUME NEW c \in Calls, Delete(c)
        PROVE  Behind'
    <2>1. /\ gone' = [gone EXCEPT ![c] = snap[c] \cap live]
          /\ open' = [open EXCEPT ![c] = "insert"]
          /\ UNCHANGED <<live, at, snap>>
      BY <1>3 DEF Delete, RowsToDelete
    <2>2. /\ gone'[c] = snap[c] \cap live
          /\ \A x \in Calls \ {c} : gone'[x] = gone[x] /\ open'[x] = open[x]
      BY <2>1 DEF TypeOK
    <2>3. QED
      BY <2>1, <2>2 DEF Behind
  <1>4. ASSUME NEW c \in Calls, Insert(c)
        PROVE  Behind'
    BY <1>4 DEF Insert, Behind
  <1>5. ASSUME NEW c \in Calls, Rollback(c)
        PROVE  Behind'
    <2>1. /\ at' = [at EXCEPT ![c] = "failed"]
          /\ open' = [open EXCEPT ![c] = "no"] /\ snap' = [snap EXCEPT ![c] = {}]
          /\ gone' = [gone EXCEPT ![c] = {}] /\ UNCHANGED live
      BY <1>5 DEF Rollback, CloseTx
    <2>2. /\ at'[c] = "failed" /\ open'[c] = "no" /\ snap'[c] = {}
          /\ \A x \in Calls \ {c} : /\ at'[x] = at[x] /\ open'[x] = open[x]
                                     /\ snap'[x] = snap[x] /\ gone'[x] = gone[x]
      BY <2>1 DEF TypeOK
    <2>3. \A x \in LinksOnly : at'[x] \notin {"row", "chunks"}
      BY <2>1, <2>2, SetsAssumption DEF Behind
    <2>4. \A x \in Calls : \A r \in live \cup snap'[x] :
            r.table = "chunks" => at'[r.by] \notin {"new", "row", "chunks"}
      BY <2>1, <2>2 DEF Behind, TypeOK, Rows
    <2>5. QED
      BY <2>1, <2>2, <2>3, <2>4 DEF Behind
  <1>6. ASSUME NEW c \in Calls, Commit(c)
        PROVE  Behind'
    <2>1. /\ open[c] = "insert" /\ left[c] = << >> /\ at[c] \in Tables
          /\ live' = (live \ gone[c]) \cup mine[c]
          /\ open' = [open EXCEPT ![c] = "no"] /\ snap' = [snap EXCEPT ![c] = {}]
          /\ gone' = [gone EXCEPT ![c] = {}]
          /\ at' = [at EXCEPT ![c] = IF at[c] = "chunks" THEN "links" ELSE "done"]
      BY <1>6 DEF Commit, CloseTx, TypeOK
    <2>2. /\ at'[c] \in {"links", "done"} /\ open'[c] = "no" /\ snap'[c] = {}
          /\ \A x \in Calls \ {c} : /\ at'[x] = at[x] /\ open'[x] = open[x]
                                     /\ snap'[x] = snap[x] /\ gone'[x] = gone[x]
      BY <2>1 DEF TypeOK
    <2>3. \A x \in LinksOnly : at'[x] \notin {"row", "chunks"}
      BY <2>1, <2>2, SetsAssumption DEF Behind
    <2>4. \A x \in Calls : \A r \in live' \cup snap'[x] :
            r.table = "chunks" => at'[r.by] \notin {"new", "row", "chunks"}
      <3>1. \A r \in mine[c] : r.by = c
        BY DEF OwnRows
      <3>2. \A x \in Calls : \A r \in live \cup snap[x] : r.by \in Calls
        BY DEF TypeOK, Rows
      <3>3. QED
        BY <2>1, <2>2, <3>1, <3>2 DEF Behind
    <2>5. ASSUME NEW x \in Calls, at'[x] = "chunks", open'[x] = "insert"
          PROVE  gone'[x] = snap'[x] \cap live'
      <3>1. x # c /\ at[x] = "chunks" /\ gone[x] = snap[x] \cap live
        BY <2>2, <2>5 DEF Behind
      <3>2. snap[x] \cap mine[c] = {}
        <4>1. ASSUME NEW r \in snap[x] \cap mine[c] PROVE FALSE
          <5>1. r.table = "chunks" /\ r.by = c /\ r.table = at[c]
            BY <3>1, <4>1 DEF OwnRows
          <5>2. QED
            BY <4>1, <5>1 DEF Behind
        <4>2. QED
          BY <4>1
      <3>3. snap[x] \cap live \cap gone[c] = {}
        BY <3>1 DEF TypeOK
      <3>4. QED
        BY <2>1, <2>2, <3>1, <3>2, <3>3
    <2>6. QED
      BY <2>3, <2>4, <2>5 DEF Behind
  <1>7. CASE UNCHANGED vars
    BY <1>7 DEF vars, Behind
  <1>8. CASE Next
    BY <1>1, <1>2, <1>3, <1>4, <1>5, <1>6, <1>8
    DEF Next, Work, CallFails, DeadlockDetected, InsertConflicts
  <1>9. QED
    BY <1>7, <1>8

\* Seen from AtomicChunks, a step of a call moves the stage and the found of that call.
LEMMA OneMoves ==
  ASSUME NEW c \in ChunkCalls, NEW s, NEW f, Stage(c)' = s, Found(c)' = f,
         \A x \in ChunkCalls \ {c} : Stage(x)' = Stage(x) /\ Found(x)' = Found(x)
  PROVE  /\ [x \in ChunkCalls |-> Stage(x)]' = [[x \in ChunkCalls |-> Stage(x)] EXCEPT ![c] = s]
         /\ [x \in ChunkCalls |-> Found(x)]' = [[x \in ChunkCalls |-> Found(x)] EXCEPT ![c] = f]
  OBVIOUS

\* What a step shows of the state: nothing of it is visible outside when these stay.
LEMMA NothingSeen ==
  ASSUME RowsOf("chunks")' = RowsOf("chunks"),
         \A x \in ChunkCalls : Stage(x)' = Stage(x) /\ Found(x)' = Found(x)
  PROVE  UNCHANGED Chunks!vars
  BY DEF Chunks!vars

\* A call that commits its chunks puts its copy in the place of what it found, or of
\* nothing; or it has no chunks, found what is not there any more, and leaves the rest.
LEMMA CommitReplaces ==
  ASSUME Inv, Behind, NEW c \in Calls, Commit(c), at[c] = "chunks"
  PROVE  \/ /\ RowsOf("chunks") \in {snap[c], {}}
            /\ RowsOf("chunks")' = CopyOf("chunks", c)
         \/ /\ RowsOf("chunks") \notin {snap[c], {}}
            /\ CopyOf("chunks", c) = {}
            /\ RowsOf("chunks")' = RowsOf("chunks")
  <1>1. open[c] = "insert" /\ left[c] = << >> /\ live' = (live \ gone[c]) \cup mine[c]
    BY DEF Commit
  <1>2. mine[c] = CopyOf("chunks", c)
    BY <1>1, AllInserted
  <1>3. RowsOf("chunks")' = (RowsOf("chunks") \ gone[c]) \cup mine[c]
    <2>1. RowsOf("chunks")' = {r \in live' : r.table = "chunks"}
      BY DEF RowsOf
    <2>2. \A r \in gone[c] \cup mine[c] : r.table = "chunks"
      BY DEF Inv, OwnRows
    <2>3. QED
      BY <1>1, <2>1, <2>2 DEF RowsOf
  <1>4. gone[c] = snap[c] \cap live /\ \A r \in snap[c] : r.table = "chunks"
    BY <1>1 DEF Behind, Inv, OwnRows
  <1>5. gone[c] \in {{}, RowsOf("chunks")} /\ (mine[c] # {} => gone[c] = RowsOf("chunks"))
    BY DEF Inv, ChunkWriters
  <1>6. CASE gone[c] = RowsOf("chunks")
    <2>1. CASE RowsOf("chunks") = {}
      BY <1>2, <1>3, <1>6, <2>1
    <2>2. CASE RowsOf("chunks") # {}
      <3>1. PICK r : r \in RowsOf("chunks") /\ r \in snap[c]
        BY <1>4, <1>6, <2>2
      <3>2. PICK y \in Calls : RowsOf("chunks") = CopyOf("chunks", y)
        BY <3>1 DEF Inv, ChunkWriters, IsCopy
      <3>3. PICK z \in Calls : snap[c] = CopyOf("chunks", z)
        BY <3>1 DEF Inv, ChunkWriters, IsCopy
      <3>4. y = z
        BY <3>1, <3>2, <3>3, CopyHasItsRows
      <3>5. QED
        BY <1>2, <1>3, <1>6, <3>2, <3>3, <3>4
    <2>3. QED
      BY <2>1, <2>2
  <1>7. CASE gone[c] # RowsOf("chunks")
    <2>1. gone[c] = {} /\ mine[c] = {} /\ RowsOf("chunks") # {}
      BY <1>5, <1>7
    <2>2. RowsOf("chunks") # snap[c]
      BY <1>4, <2>1 DEF RowsOf
    <2>3. QED
      BY <1>2, <1>3, <2>1, <2>2
  <1>8. QED
    BY <1>6, <1>7

\* Each step of the statements is a step of AtomicChunks or shows nothing of itself.
LEMMA StepsOfChunks == Inv /\ Behind /\ [Next]_vars => [Chunks!Next]_(Chunks!vars)
  <1> SUFFICES ASSUME Inv, Behind, [Next]_vars PROVE [Chunks!Next]_(Chunks!vars)
    OBVIOUS
  <1> USE DEF Inv
  <1>1. ASSUME NEW c \in Calls, Start(c) \/ UpsertSource(c)
        PROVE  UNCHANGED Chunks!vars
    <2>1. /\ at[c] \in {"new", "row"}
          /\ \E a \in {"row", "chunks", "links"} :
               at' = [at EXCEPT ![c] = a] /\ (c \notin LinksOnly => a # "links")
          /\ UNCHANGED <<live, open, snap>>
      BY <1>1 DEF Start, UpsertSource
    <2>2. open[c] = "no" /\ snap[c] = {} /\ \A x \in Calls \ {c} : at'[x] = at[x]
      <3>1. \A r \in snap[c] : r.table \in Tables
        BY DEF TypeOK, Rows, Tables
      <3>2. QED
        BY <2>1, <3>1 DEF TypeOK, OwnRows, Tables
    <2>3. RowsOf("chunks")' = RowsOf("chunks")
      BY <2>1 DEF RowsOf
    <2>4. ASSUME NEW x \in ChunkCalls
          PROVE  Stage(x)' = Stage(x) /\ Found(x)' = Found(x)
      <3>1. CASE x = c
        BY <2>1, <2>2, <3>1 DEF ChunkCalls, Stage, Found, TypeOK
      <3>2. CASE x # c
        BY <2>1, <2>2, <3>2 DEF ChunkCalls, Stage, Found
      <3>3. QED
        BY <3>1, <3>2
    <2>5. QED
      BY <2>3, <2>4, NothingSeen
  <1>2. ASSUME NEW c \in Calls, BeginDelete(c)
        PROVE  [Chunks!Next]_(Chunks!vars)
    <2>1. /\ at[c] \in Tables /\ open[c] = "no"
          /\ open' = [open EXCEPT ![c] = "delete"]
          /\ snap' = [snap EXCEPT ![c] = RowsOf(at[c])]
          /\ UNCHANGED <<live, at>>
      BY <1>2 DEF BeginDelete
    <2>2. /\ open'[c] = "delete" /\ snap'[c] = RowsOf(at[c])
          /\ \A x \in Calls \ {c} : open'[x] = open[x] /\ snap'[x] = snap[x]
          /\ RowsOf("chunks")' = RowsOf("chunks")
      BY <2>1 DEF TypeOK, RowsOf
    <2>3. \A x \in ChunkCalls \ {c} : Stage(x)' = Stage(x) /\ Found(x)' = Found(x)
      BY <2>1, <2>2 DEF ChunkCalls, Stage, Found
    <2>4. CASE at[c] = "links"
      <3>1. Stage(c)' = Stage(c) /\ Found(c)' = Found(c)
        BY <2>1, <2>4 DEF Stage, Found
      <3>2. QED
        BY <2>2, <2>3, <3>1, NothingSeen
    <2>5. CASE at[c] = "chunks"
      <3>1. c \in ChunkCalls
        BY <2>5 DEF Behind, ChunkCalls
      <3>2. Stage(c) = "before" /\ Stage(c)' = "open" /\ Found(c)' = RowsOf("chunks")
        BY <2>1, <2>2, <2>5 DEF Stage, Found
      <3>3. Chunks!Begin(c)
        BY <2>2, <2>3, <3>1, <3>2, OneMoves DEF Chunks!Begin
      <3>4. QED
        BY <3>1, <3>3 DEF Chunks!Next
    <2>6. QED
      BY <2>1, <2>4, <2>5 DEF Tables
  <1>3. ASSUME NEW c \in Calls, Delete(c) \/ Insert(c)
        PROVE  UNCHANGED Chunks!vars
    <2>1. /\ open[c] \in {"delete", "insert"} /\ open' = [open EXCEPT ![c] = "insert"]
          /\ UNCHANGED <<live, at, snap>>
      BY <1>3 DEF Delete, Insert, TypeOK
    <2>2. /\ open'[c] = "insert" /\ \A x \in Calls \ {c} : open'[x] = open[x]
          /\ RowsOf("chunks")' = RowsOf("chunks")
      BY <2>1 DEF TypeOK, RowsOf
    <2>3. \A x \in ChunkCalls : Stage(x)' = Stage(x) /\ Found(x)' = Found(x)
      BY <2>1, <2>2 DEF ChunkCalls, Stage, Found
    <2>4. QED
      BY <2>2, <2>3, NothingSeen
  <1>4. ASSUME NEW c \in Calls, Rollback(c), at[c] \in {"row"} \cup Tables
        PROVE  [Chunks!Next]_(Chunks!vars)
    <2>1. /\ at' = [at EXCEPT ![c] = "failed"]
          /\ open' = [open EXCEPT ![c] = "no"] /\ snap' = [snap EXCEPT ![c] = {}]
          /\ UNCHANGED live
      BY <1>4 DEF Rollback, CloseTx
    <2>2. /\ at'[c] = "failed"
          /\ \A x \in Calls \ {c} : at'[x] = at[x] /\ open'[x] = open[x] /\ snap'[x] = snap[x]
          /\ RowsOf("chunks")' = RowsOf("chunks")
      BY <2>1 DEF TypeOK, RowsOf
    <2>3. \A x \in ChunkCalls \ {c} : Stage(x)' = Stage(x) /\ Found(x)' = Found(x)
      BY <2>2 DEF ChunkCalls, Stage, Found
    <2>4. CASE c \notin ChunkCalls
      BY <2>2, <2>3, <2>4, NothingSeen
    <2>5. CASE c \in ChunkCalls
      <3>1. Stage(c) # "failed" /\ Stage(c)' = "failed" /\ Found(c)' = {}
        BY <1>4, <2>2 DEF Stage, Found, Tables
      <3>2. Chunks!Fail(c)
        BY <2>2, <2>3, <2>5, <3>1, OneMoves DEF Chunks!Fail, Chunks!End
      <3>3. QED
        BY <2>5, <3>2 DEF Chunks!Next
    <2>6. QED
      BY <2>4, <2>5
  <1>5. ASSUME NEW c \in Calls, Commit(c)
        PROVE  [Chunks!Next]_(Chunks!vars)
    <2>1. /\ open[c] = "insert" /\ at[c] \in Tables
          /\ live' = (live \ gone[c]) \cup mine[c]
          /\ open' = [open EXCEPT ![c] = "no"] /\ snap' = [snap EXCEPT ![c] = {}]
          /\ at' = [at EXCEPT ![c] = IF at[c] = "chunks" THEN "links" ELSE "done"]
      BY <1>5 DEF Commit, CloseTx, TypeOK
    <2>2. /\ at'[c] = IF at[c] = "chunks" THEN "links" ELSE "done"
          /\ \A x \in Calls \ {c} : at'[x] = at[x] /\ open'[x] = open[x] /\ snap'[x] = snap[x]
      BY <2>1 DEF TypeOK
    <2>3. \A x \in ChunkCalls \ {c} : Stage(x)' = Stage(x) /\ Found(x)' = Found(x)
      BY <2>2 DEF ChunkCalls, Stage, Found
    <2>4. CASE at[c] = "links"
      <3>1. Stage(c)' = Stage(c) /\ Found(c)' = Found(c)
        BY <2>2, <2>4 DEF Stage, Found
      <3>2. RowsOf("chunks")' = RowsOf("chunks")
        <4>1. \A r \in gone[c] \cup mine[c] : r.table = "links"
          BY <2>4 DEF OwnRows
        <4>2. QED
          BY <2>1, <4>1 DEF RowsOf
      <3>3. QED
        BY <2>3, <3>1, <3>2, NothingSeen
    <2>5. CASE at[c] = "chunks"
      <3>1. c \in ChunkCalls
        BY <2>5 DEF Behind, ChunkCalls
      <3>2. Stage(c) = "open" /\ Found(c) = snap[c] /\ Stage(c)' = "over" /\ Found(c)' = {}
        BY <2>1, <2>2, <2>5 DEF Stage, Found
      <3>3. Chunks!End(c, "over")
        BY <2>3, <3>1, <3>2, OneMoves DEF Chunks!End
      <3>4. Chunks!Replace(c) \/ Chunks!Overtaken(c)
        BY <1>5, <2>5, <3>1, <3>2, <3>3, CommitReplaces DEF Chunks!Replace, Chunks!Overtaken
      <3>5. QED
        BY <3>1, <3>4 DEF Chunks!Next
    <2>6. QED
      BY <2>1, <2>4, <2>5 DEF Tables
  <1>6. CASE UNCHANGED vars
    <2>1. RowsOf("chunks")' = RowsOf("chunks")
      BY <1>6 DEF vars, RowsOf
    <2>2. \A x \in ChunkCalls : Stage(x)' = Stage(x) /\ Found(x)' = Found(x)
      BY <1>6 DEF vars, Stage, Found
    <2>3. QED
      BY <2>1, <2>2, NothingSeen
  <1>7. CASE Next
    <2>1. PICK c \in Calls : Start(c) \/ Work(c) \/ CallFails(c) \/ DeadlockDetected(c)
      BY <1>7 DEF Next
    <2>2. CASE CallFails(c) \/ DeadlockDetected(c) \/ InsertConflicts(c)
      <3>1. Rollback(c) /\ at[c] \in {"row"} \cup Tables
        BY <2>2 DEF CallFails, DeadlockDetected, InsertConflicts, Blocked, Blocks, TypeOK
      <3>2. QED
        BY <1>4, <3>1
    <2>3. QED
      BY <1>1, <1>2, <1>3, <1>5, <2>1, <2>2 DEF Work
  <1>8. QED
    BY <1>6, <1>7

\* ReplaceChunks does what AtomicChunks promises (repo.go:178-216, "atomically deletes
\* existing chunks for sourceID and inserts the new set"): for everyone else it is one
\* step, and who succeeds has replaced what was there when it began, with any number of
\* syncs, pushes and rebuilds of the source, failures and deadlocks between the statements.
THEOREM ReplacesAtOnce == Spec => ChunksReplacedAtOnce
  <1>1. Init => Behind
    BY SetsAssumption DEF Init, Behind
  <1>2. Spec => []Behind
    BY <1>1, BehindIsKept, SourceStoreInvariant, PTL DEF Spec
  <1>3. Init => Chunks!Init
    <2> SUFFICES ASSUME Init PROVE Chunks!Init
      OBVIOUS
    <2>1. RowsOf("chunks") = {} /\ \A c \in ChunkCalls : Stage(c) = "before" /\ Found(c) = {}
      BY DEF Init, RowsOf, ChunkCalls, Stage, Found
    <2>2. QED
      BY <2>1 DEF Chunks!Init
  <1>4. QED
    BY <1>2, <1>3, StepsOfChunks, SourceStoreInvariant, PTL
    DEF Spec, ChunksReplacedAtOnce, Chunks!Spec
=============================================================================

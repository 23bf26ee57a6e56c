---------------------------- MODULE SourceStore ----------------------------
(***************************************************************************)
(* One source of the store (internal/store/repo.go) written by several     *)
(* calls at once: the sync's workers, POST /ingest/jira and the            *)
(* rebuild-links job.  UpsertSource is one statement; ReplaceChunks and    *)
(* ReplaceSourceLinks are transactions of a DELETE and one INSERT per row. *)
(* Postgres runs them at READ COMMITTED: a DELETE works on the rows that   *)
(* were committed when it began and waits for rows another transaction is  *)
(* deleting; an INSERT waits for a row of the same key that another        *)
(* transaction is inserting or deleting.                                   *)
(*                                                                         *)
(* JiraSync and ConfluenceSync take each of these calls as one step, which *)
(* is right for the only writer of a source; this module is about the      *)
(* others.                                                                 *)
(***************************************************************************)
EXTENDS Naturals, Sequences, FiniteSets

CONSTANTS
  Calls, NoCall,   \* the calls that write the source, each with its own copy of it
  ChunkCount,      \* ChunkCount[c]: number of chunks of c's copy
  LinkOrder,       \* LinkOrder[c]: the link targets of c's copy, in its order
  LinksOnly,       \* calls of rebuild-links, which write only the links
  Targets,
  MaxFaults        \* bound of the model

ASSUME SetsAssumption ==
  /\ NoCall \notin Calls
  /\ LinksOnly \subseteq Calls
  /\ MaxFaults \in Nat
ASSUME CopiesAssumption ==
  /\ ChunkCount \in [Calls -> Nat]
  /\ \A c \in Calls :
       /\ LinkOrder[c] \in Seq(Targets)
       /\ \A i, j \in DOMAIN LinkOrder[c] : LinkOrder[c][i] = LinkOrder[c][j] => i = j

VARIABLES
  row,     \* the call whose copy is in the sources row
  live,    \* committed rows of chunks and source_links
  at,      \* at[c]: the write that call c is at
  open,    \* open[c]: what c's transaction does next; "no" = none is open
  snap,    \* snap[c]: the rows that c's DELETE works on
  gone,    \* gone[c]: rows deleted by c and not committed
  mine,    \* mine[c]: rows inserted by c and not committed
  left,    \* left[c]: keys that c has still to insert
  faults   \* faults so far, bounded by MaxFaults

vars == <<row, live, at, open, snap, gone, mine, left, faults>>

Tables == {"chunks", "links"}
Row(t, k, c) == [table |-> t, key |-> k, by |-> c]
RowsOf(t) == {r \in live : r.table = t}

\* The keys that a call inserts, in order: the chunk indexes, or the link targets
\* after de-duplication.
LastChunkFirst(c) == 
  [i \in 1 .. ChunkCount[c] |-> IF i = 1 THEN ChunkCount[c] - 1 ELSE i - 2]
ChunkKeys(c) == [i \in 1 .. ChunkCount[c] |-> i - 1]
KeysFor(t, c) == IF t = "chunks" THEN ChunkKeys(c) ELSE LinkOrder[c]
CopyOf(t, c) == {Row(t, KeysFor(t, c)[i], c) : i \in DOMAIN KeysFor(t, c)}

Init ==
  /\ row = NoCall
  /\ live = {}
  /\ at = [c \in Calls |-> "new"]
  /\ open = [c \in Calls |-> "no"]
  /\ snap = [c \in Calls |-> {}]
  /\ gone = [c \in Calls |-> {}]
  /\ mine = [c \in Calls |-> {}]
  /\ left = [c \in Calls |-> << >>]
  /\ faults = 0

\* The transaction of c is over.
CloseTx(c) ==
  /\ open' = [open EXCEPT ![c] = "no"]
  /\ snap' = [snap EXCEPT ![c] = {}]
  /\ gone' = [gone EXCEPT ![c] = {}]
  /\ mine' = [mine EXCEPT ![c] = {}]
  /\ left' = [left EXCEPT ![c] = << >>]

\* A statement of c returns an error: the deferred rollback, and the call ends.
LocksKept(c) ==
  /\ open' = [open EXCEPT ![c] = "no"]
  /\ left' = [left EXCEPT ![c] = << >>]
  /\ at' = [at EXCEPT ![c] = "failed"]
  /\ UNCHANGED <<row, live, snap, gone, mine>>
Rollback(c) ==
  /\ CloseTx(c)
  /\ at' = [at EXCEPT ![c] = "failed"]
  /\ UNCHANGED <<row, live>>

-----------------------------------------------------------------------------
\* External (Postgres): who waits for whom, which rows a DELETE hits, which key is
\* taken when an INSERT has nobody to wait for.
Blocks(x, c) ==
  /\ x # c
  /\ \/ open[c] = "delete" /\ gone[x] \cap snap[c] # {}
     \/ /\ open[c] = "insert" /\ left[c] # << >>
        /\ \E r \in gone[x] \cup mine[x] : r.table = at[c] /\ r.key = Head(left[c])
Blocked(c) == \E x \in Calls : Blocks(x, c)

RowsToDelete(c) == snap[c] \cap live

Taken(c) == \E r \in live \ gone[c] : r.table = at[c] /\ r.key = Head(left[c])

\* The calls of S wait for each other in a circle.
IsCircle(S) == /\ S # {}
               /\ \A c \in S : \E x \in S : Blocks(x, c)
               /\ \A R \in SUBSET S \ {{}, S} : ~ \A c \in R : \E x \in R : Blocks(x, c)

-----------------------------------------------------------------------------
\* rebuild-links walks the sources that exist.
Start(c) ==
  /\ at[c] = "new"
  /\ c \in LinksOnly => row # NoCall
  /\ at' = [at EXCEPT ![c] = IF c \in LinksOnly THEN "links" ELSE "row"]
  /\ UNCHANGED <<row, live, open, snap, gone, mine, left, faults>>

UpsertSource(c) ==
  /\ at[c] = "row"
  /\ row' = c
  /\ at' = [at EXCEPT ![c] = "chunks"]
  /\ UNCHANGED <<live, open, snap, gone, mine, left, faults>>

\* BEGIN, and the snapshot of the DELETE.
BeginDelete(c) ==
  /\ at[c] \in Tables /\ open[c] = "no"
  /\ open' = [open EXCEPT ![c] = "delete"]
  /\ snap' = [snap EXCEPT ![c] = RowsOf(at[c])]
  /\ UNCHANGED <<row, live, at, gone, mine, left, faults>>

Delete(c) ==
  /\ open[c] = "delete" /\ ~Blocked(c)
  /\ gone' = [gone EXCEPT ![c] = RowsToDelete(c)]
  /\ open' = [open EXCEPT ![c] = "insert"]
  /\ left' = [left EXCEPT ![c] = KeysFor(at[c], c)]
  /\ UNCHANGED <<row, live, at, snap, mine, faults>>

\* The links are inserted with ON CONFLICT DO NOTHING, the chunks are not.
ConflictsSkipped(t) == TRUE
SkipsConflicts(t) == t = "links"

Insert(c) ==
  /\ open[c] = "insert" /\ left[c] # << >> /\ ~Blocked(c)
  /\ Taken(c) => SkipsConflicts(at[c])
  /\ mine' = [mine EXCEPT ![c] = IF Taken(c) THEN @
                                 ELSE @ \cup {Row(at[c], Head(left[c]), c)}]
  /\ left' = [left EXCEPT ![c] = Tail(@)]
  /\ UNCHANGED <<row, live, at, open, snap, gone, faults>>

\* The unique index of chunks refuses the row.
InsertConflicts(c) ==
  /\ open[c] = "insert" /\ left[c] # << >> /\ ~Blocked(c)
  /\ Taken(c) /\ ~SkipsConflicts(at[c])
  /\ Rollback(c)
  /\ UNCHANGED faults

Commit(c) ==
  /\ open[c] = "insert" /\ left[c] = << >>
  /\ live' = (live \ gone[c]) \cup mine[c]
  /\ CloseTx(c)
  /\ at' = [at EXCEPT ![c] = IF at[c] = "chunks" THEN "links" ELSE "done"]
  /\ UNCHANGED <<row, faults>>

\* The request goes away, the connection breaks, the process dies.
CallFails(c) ==
  /\ at[c] \in {"row"} \cup Tables
  /\ faults < MaxFaults
  /\ faults' = faults + 1
  /\ Rollback(c)

\* External (Postgres): the deadlock detector picks a victim.
DeadlockDetected(c) ==
  /\ Blocked(c)
  /\ \E S \in SUBSET {x \in Calls : Blocked(x)} : c \in S /\ IsCircle(S)
  /\ Rollback(c)
  /\ UNCHANGED faults

-----------------------------------------------------------------------------
Work(c) == \/ UpsertSource(c)
           \/ BeginDelete(c) \/ Delete(c)
           \/ Insert(c) \/ InsertConflicts(c) \/ Commit(c)

Next == \E c \in Calls : \/ Start(c) \/ Work(c)
                         \/ CallFails(c) \/ DeadlockDetected(c)

Spec == Init /\ [][Next]_vars

(***************************************************************************)
(* A call goes on whenever the database lets it, and Postgres resolves     *)
(* deadlocks.  Nothing makes a call start.                                 *)
(***************************************************************************)
FairSpec == /\ Spec
            /\ \A c \in Calls : WF_vars(Work(c))
            /\ WF_vars(\E c \in Calls : DeadlockDetected(c))

-----------------------------------------------------------------------------
(***************************************************************************)
(* Properties                                                              *)
(***************************************************************************)
Rows == [table : {"chunks"}, key : Nat, by : Calls]
          \cup [table : {"links"}, key : Targets, by : Calls]

\* Types; nothing is open or locked outside the two transactions, no row is deleted
\* by two calls, and no key of a table is used twice.
TypeOK ==
  /\ row \in Calls \cup {NoCall}
  /\ live \subseteq Rows
  /\ at \in [Calls -> {"new", "row", "done", "failed"} \cup Tables]
  /\ open \in [Calls -> {"no", "delete", "insert"}]
  /\ snap \in [Calls -> SUBSET Rows]
  /\ gone \in [Calls -> SUBSET Rows]
  /\ mine \in [Calls -> SUBSET Rows]
  /\ faults \in Nat
  /\ \A c \in Calls : /\ open[c] # "no" => at[c] \in Tables
                      /\ gone[c] \cup mine[c] # {} => open[c] = "insert"
                      /\ gone[c] \subseteq live
                      /\ left[c] # << >> => left[c] \in Seq(Nat \cup Targets)
  /\ \A c, x \in Calls : c # x => gone[c] \cap gone[x] = {}
  /\ \A r, s \in live : r.table = s.table /\ r.key = s.key => r = s

(***************************************************************************)
(* ReplaceChunks is atomic for everyone: the chunks that readers find are  *)
(* all those of one call's copy, never a part of one or a mixture.         *)
(***************************************************************************)
OneCopy(t) == \E c \in Calls : RowsOf(t) = CopyOf(t, c)
ChunksOfOneCopy == RowsOf("chunks") # {} => OneCopy("chunks")

(***************************************************************************)
(* Calls that replace chunks never wait for each other in a circle: they   *)
(* all insert the indexes in the same order.  (Calls that replace links    *)
(* can: the order of the links is that of the copy.)                       *)
(***************************************************************************)
ChunkWritersNeverDeadlock ==
  \A S \in SUBSET {c \in Calls : at[c] = "chunks" /\ Blocked(c)} : ~IsCircle(S)

(***************************************************************************)
(* A call that has started ends, with success or with an error: nobody     *)
(* waits for ever on the locks of a call that failed.  (A call starts and  *)
(* ends once, so this says that in the end none is under way.)             *)
(***************************************************************************)
EveryCallEnds ==
  <>[](\A c \in Calls : at[c] \in {"new", "done", "failed"})

(***************************************************************************)
(* The calls that replace chunks do what AtomicChunks promises: for        *)
(* readers and for each other, DELETE, INSERTs and COMMIT are one step,    *)
(* and a call that succeeds has replaced what was there when it began.     *)
(***************************************************************************)
ChunkCalls == Calls \ LinksOnly
Stage(c) ==
  CASE at[c] \in {"new", "row"} -> "before"
    [] at[c] = "chunks" -> IF open[c] = "no" THEN "before" ELSE "open"
    [] at[c] \in {"links", "done"} -> "over"
    [] OTHER -> "failed"
Found(c) == IF at[c] = "chunks" THEN snap[c] ELSE {}
Chunks == INSTANCE AtomicChunks
            WITH Calls <- ChunkCalls,
                 Copy <- [c \in ChunkCalls |-> CopyOf("chunks", c)],
                 chunks <- RowsOf("chunks"),
                 stage <- [c \in ChunkCalls |-> Stage(c)],
                 found <- [c \in ChunkCalls |-> Found(c)]
ChunksReplacedAtOnce == Chunks!Spec

(***************************************************************************)
(* "a re-ingest of the source replaces its links wholesale": the links are *)
(* all of one call's copy.                                                 *)
(***************************************************************************)
LinksOfOneCopy == RowsOf("links") # {} => OneCopy("links")
=============================================================================

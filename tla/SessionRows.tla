---------------------------- MODULE SessionRows -----------------------------
(* memory/session.py with several processes on one database: the first        *)
(* connection of a process adds the columns an old file lacks, each process   *)
(* that loads a session keeps a list of its own, and a lock of the session    *)
(* puts their rows one after the other. What a turn appends is AgentTurn's.   *)
EXTENDS Integers, Sequences, FiniteSets

CONSTANTS
  Writers,          \* processes
  MaxSessionRows,   \* bound of the rows of each process
  MaxTokens,        \* bound of what is used
  Columns           \* the columns an old database may lack

ASSUME SessionRowsAssumption == MaxSessionRows \in Nat /\ MaxTokens \in Nat

VARIABLES
  columns,          \* of the sessions table
  writer,           \* of a process, how far its connection and its append are
  heldBy,           \* the lock of the session: a process, or {}
  stored,           \* the rows of the session, by writer and number
  indexed,          \* the rows of the full-text index
  usage,            \* the running total of the session's row
  added             \* history: what the processes have added to it

rowVars == <<columns, writer, heldBy, stored, indexed, usage, added>>

Away == [phase |-> "away", missing |-> {}, loaded |-> 0, read |-> 0, list |-> <<>>, own |-> 0,
         unsaved |-> {}]

-----------------------------------------------------------------------------

(* _migrate_columns looks at what is there, then adds what was not, one       *)
(* column at a time; a column another process has added meanwhile is an error *)
(* and the connection fails. The journal mode and the scan change no row.     *)
Connects(w) ==
  /\ writer[w].phase = "away"
  /\ writer' = [writer EXCEPT ![w].phase = "migrating", ![w].missing = Columns \ columns]
  /\ UNCHANGED <<columns, heldBy, stored, indexed, usage, added>>

AddsColumn(w) ==
  /\ writer[w].phase = "migrating"
  /\ \E c \in writer[w].missing :
       IF c \in columns
       THEN UNCHANGED columns /\ writer' = [writer EXCEPT ![w] = Away]
       ELSE columns' = columns \cup {c} /\ writer' = [writer EXCEPT ![w].missing = @ \ {c}]
  /\ UNCHANGED <<heldBy, stored, indexed, usage, added>>

(* Session.load: the rows there are; none of the others' later ones.          *)
Loads(w) ==
  /\ writer[w].phase = "migrating" /\ writer[w].missing = {}
  /\ writer' = [writer EXCEPT ![w].phase = "open", ![w].loaded = Len(stored),
                              ![w].list = stored, ![w].read = usage]
  /\ UNCHANGED <<columns, heldBy, stored, indexed, usage, added>>

(* append: first the list in memory, then the row and its index entry, one    *)
(* transaction under the lock of the session.                                 *)
Appends(w) ==
  /\ writer[w].phase = "open" /\ writer[w].own < MaxSessionRows
  /\ writer' = [writer EXCEPT ![w].phase = "appending", ![w].own = @ + 1,
                              ![w].list = Append(@, <<w, writer[w].own + 1>>)]
  /\ UNCHANGED <<columns, heldBy, stored, indexed, usage, added>>

Locks(w) ==
  /\ writer[w].phase = "appending" /\ heldBy = {} /\ heldBy' = {w}
  /\ writer' = [writer EXCEPT ![w].phase = "holding"]
  /\ UNCHANGED <<columns, stored, indexed, usage, added>>

Newest(w) == writer[w].list[Len(writer[w].list)]

Commits(w) ==
  /\ writer[w].phase = "holding"
  /\ stored' = Append(stored, Newest(w)) /\ indexed' = indexed \cup {Newest(w)}
  /\ heldBy' = {} /\ writer' = [writer EXCEPT ![w].phase = "open"]
  /\ UNCHANGED <<columns, usage, added>>

(* The database refuses the row (it is locked, the disk is full): the lock is *)
(* given back and the error goes to the caller, but the list keeps the row.   *)
IsRefused(w) ==
  /\ writer[w].phase = "holding" /\ heldBy' = {}
  /\ writer' = [writer EXCEPT ![w].phase = "open", ![w].unsaved = @ \cup {writer[w].own}]
  /\ UNCHANGED <<columns, stored, indexed, usage, added>>

(* Mutant of Total: the sum of what the process has read and its own tokens.  *)
TotalOfReader(w) == writer[w].read + 1

(* record_usage: a sum the database makes, in one statement, without the lock.*)
Total(w) == usage + 1

Uses(w) ==
  /\ writer[w].phase = "open" /\ added < MaxTokens
  /\ usage' = Total(w) /\ added' = added + 1
  /\ UNCHANGED <<columns, writer, heldBy, stored, indexed>>

(* The process ends; the operating system takes its lock back.                *)
WriterLeaves(w) ==
  /\ writer[w].phase \notin {"away", "gone"}
  /\ writer' = [writer EXCEPT ![w] = [Away EXCEPT !.phase = "gone"]]
  /\ heldBy' = heldBy \ {w}
  /\ UNCHANGED <<columns, stored, indexed, usage, added>>

RowsInit ==
  /\ columns \in SUBSET Columns
  /\ writer = [w \in Writers |-> Away] /\ heldBy = {}
  /\ stored = <<>> /\ indexed = {} /\ usage = 0 /\ added = 0

RowsNext ==
  \E w \in Writers :
    \/ Connects(w) \/ AddsColumn(w) \/ Loads(w) \/ Appends(w) \/ Locks(w) \/ Commits(w)
    \/ IsRefused(w) \/ Uses(w) \/ WriterLeaves(w)

RowsSpec == RowsInit /\ [][RowsNext]_rowVars

-----------------------------------------------------------------------------

RowsOf(w) == {i \in DOMAIN stored : stored[i][1] = w}

(* However the processes take turns, no row is lost, doubled or out of order: *)
(* the rows of a process in the session are those it has appended but for the *)
(* refused ones, in the order of its own list; what its list lacks is what    *)
(* others have added since it loaded the session; every row is in the index;  *)
(* a process has the session open only with every column there; one process   *)
(* at most is inside an append; and the total is the sum of what all of them  *)
(* have used.                                                                 *)
SessionRowsAreExact ==
  /\ \A w \in Writers :
       LET p == writer[w] IN
       p.phase \in {"open", "appending", "holding"} =>
         /\ columns = Columns
         /\ \A i, j \in RowsOf(w) : i < j => stored[i][2] < stored[j][2]
         /\ {stored[i][2] : i \in RowsOf(w)} =
              1..(IF p.phase = "open" THEN p.own ELSE p.own - 1) \ p.unsaved
         /\ \A i \in 1..p.loaded : p.list[i] = stored[i]
         /\ \A i \in p.loaded + 1..Len(stored) : stored[i][1] = w => \E j \in DOMAIN p.list : p.list[j] = stored[i]
  /\ \A w, v \in Writers :
       writer[w].phase = "holding" /\ writer[v].phase = "holding" => w = v
  /\ indexed = {stored[i] : i \in DOMAIN stored} /\ Len(stored) = Cardinality(indexed)
  /\ usage = added
=============================================================================

----------------------------- MODULE VaultMirror ----------------------------
(* memory/vault.py: a directory of markdown files that mirrors the chunks,    *)
(* both ways, while the user edits the files and other parts of the program   *)
(* the chunks; and the poller that tells which files have changed. A file is  *)
(* its body, the id in its frontmatter and its mtime. The file of an exported *)
(* chunk is named after the chunk.                                            *)
EXTENDS Integers

CONSTANTS
  Notes,        \* files that the user makes
  Bodies,
  MaxRows,      \* bound of the chunks ever inserted
  MaxWrites,    \* bound of the writes to files and of the changes to chunks
  NoFileYet, NoRow

ASSUME MirrorAssumption ==
  /\ MaxRows \in Nat /\ MaxWrites \in Nat
  /\ NoRow \notin Bodies
  /\ NoFileYet \notin [id : 0..MaxRows, body : Bodies, mtime : 1..MaxWrites]

VARIABLES
  disk,         \* the files
  mirrored,        \* the bodies of the chunks
  nextRow,
  sync,         \* where sync_from_disk, or an export, is
  stamp,        \* mtime of the latest write
  mtimes,       \* the watcher's _mtimes, 0 for none
  unconfirmed,     \* its _pending, 0 for none
  fires,        \* history: the versions the watcher has reported
  polled,       \* history: mtime at the last poll, and for how many it is the same
  clean         \* history: nobody else wrote since the sync began

RowIds == 1..MaxRows
FilesOf == RowIds \cup Notes
mirrorVars == <<disk, mirrored, nextRow, sync, stamp, mtimes, unconfirmed, fires, polled, clean>>
watchVars == <<mtimes, unconfirmed, fires, polled>>

Present == {f \in FilesOf : disk[f] # NoFileYet}
Rest == [pc |-> "none"]
Mtime(f) == IF disk[f] = NoFileYet THEN 0 ELSE disk[f].mtime

Writes == stamp < MaxWrites /\ stamp' = stamp + 1
Writing(f, id, body) ==
  disk' = [disk EXCEPT ![f] = [id |-> id, body |-> body, mtime |-> stamp + 1]]

(* Any id in the frontmatter counts as that of a chunk (mutant).              *)
ExistsAlways(id) == id # 0

(* update_chunk says whether there was a row to update.                       *)
Exists(id) == id \in RowIds /\ mirrored[id] # NoRow

(* update_chunk: an id without a row changes nothing.                         *)
Updated(id, body) ==
  [c \in RowIds |-> IF c = id /\ mirrored[c] # NoRow THEN body ELSE mirrored[c]]

-----------------------------------------------------------------------------

(* The user writes a file, which keeps its frontmatter; or removes it.        *)
UserWrites(f, b) ==
  /\ Writes
  /\ f \in Present \cup Notes
  /\ Writing(f, IF f \in Present THEN disk[f].id ELSE 0, b)
  /\ clean' = FALSE
  /\ UNCHANGED <<mirrored, nextRow, sync, watchVars>>

UserRemoves(f) ==
  /\ f \in Present /\ Writes
  /\ disk' = [disk EXCEPT ![f] = NoFileYet]
  /\ clean' = FALSE
  /\ UNCHANGED <<mirrored, nextRow, sync, watchVars>>

(* The tree is changed elsewhere.                                             *)
ChunkChanges(c, b) ==
  /\ mirrored[c] # NoRow /\ Writes
  /\ mirrored' = Updated(c, b)
  /\ clean' = FALSE
  /\ UNCHANGED <<disk, nextRow, sync, watchVars>>

ChunkDeleted(c) ==
  /\ mirrored[c] # NoRow /\ Writes
  /\ mirrored' = [mirrored EXCEPT ![c] = NoRow]
  /\ clean' = FALSE
  /\ UNCHANGED <<disk, nextRow, sync, watchVars>>

ChunkAdded(b) ==
  /\ nextRow <= MaxRows /\ Writes
  /\ mirrored' = [mirrored EXCEPT ![nextRow] = b]
  /\ nextRow' = nextRow + 1
  /\ clean' = FALSE
  /\ UNCHANGED <<disk, sync, watchVars>>

(* write_chunk reads the row, then writes the file.                           *)
Export(c) ==
  /\ sync = Rest /\ mirrored[c] # NoRow
  /\ sync' = [pc |-> "write", chunk |-> c, body |-> mirrored[c]]
  /\ clean' = FALSE
  /\ UNCHANGED <<disk, mirrored, nextRow, stamp, watchVars>>

WriteChunk ==
  /\ sync.pc = "write" /\ Writes
  /\ Writing(sync.chunk, sync.chunk, sync.body)
  /\ sync' = Rest
  /\ UNCHANGED <<mirrored, nextRow, clean, watchVars>>

(* sync_from_disk lists the files and takes them in turn.                     *)
SyncFromDisk ==
  /\ sync = Rest
  /\ sync' = [pc |-> "next", queue |-> Present]
  /\ clean' = TRUE
  /\ UNCHANGED <<disk, mirrored, nextRow, stamp, watchVars>>

(* ingest_file reads the file, and awaits the embedding of its body. A file   *)
(* that is gone raises, and the walk is over.                                 *)
ReadFile(f) ==
  /\ sync.pc = "next" /\ f \in sync.queue
  /\ sync' = IF f \in Present
             THEN [pc |-> "embed", queue |-> sync.queue \ {f}, file |-> f,
                   id |-> disk[f].id, body |-> disk[f].body]
             ELSE Rest
  /\ UNCHANGED <<disk, mirrored, nextRow, stamp, clean, watchVars>>

(* A file with the id of a chunk updates it, any other is inserted.           *)
Upsert ==
  /\ sync.pc = "embed"
  /\ \/ /\ Exists(sync.id)
        /\ mirrored' = Updated(sync.id, sync.body)
        /\ sync' = [pc |-> "next", queue |-> sync.queue]
        /\ UNCHANGED nextRow
     \/ /\ ~Exists(sync.id) /\ nextRow <= MaxRows
        /\ mirrored' = [mirrored EXCEPT ![nextRow] = sync.body]
        /\ nextRow' = nextRow + 1
        /\ sync' = [pc |-> "rewrite", queue |-> sync.queue, file |-> sync.file,
                    id |-> nextRow, body |-> sync.body]
  /\ UNCHANGED <<disk, stamp, clean, watchVars>>

(* The file is rewritten with the id, and with the body as it was read.       *)
Rewrite ==
  /\ sync.pc = "rewrite" /\ Writes
  /\ Writing(sync.file, sync.id, sync.body)
  /\ sync' = [pc |-> "next", queue |-> sync.queue]
  /\ UNCHANGED <<mirrored, nextRow, clean, watchVars>>

(* The embedder fails, or the process dies.                                   *)
SyncFails ==
  /\ sync.pc \in {"embed", "rewrite", "write"}
  /\ sync' = Rest
  /\ clean' = FALSE
  /\ UNCHANGED <<disk, mirrored, nextRow, stamp, watchVars>>

SyncDone ==
  /\ sync.pc = "next" /\ sync.queue = {}
  /\ sync' = IF clean THEN [pc |-> "synced"] ELSE Rest
  /\ UNCHANGED <<disk, mirrored, nextRow, stamp, clean, watchVars>>

AfterSync ==
  /\ sync.pc = "synced"
  /\ sync' = Rest
  /\ UNCHANGED <<disk, mirrored, nextRow, stamp, clean, watchVars>>

(* _tick reports a file with the mtime of its first poll, when that is still  *)
(* the one to be confirmed.                                                   *)
Firing ==
  {f \in Present : /\ mtimes[f] # 0 /\ disk[f].mtime = mtimes[f]
                   /\ unconfirmed[f] = disk[f].mtime}

(* The mtime to be confirmed is noted for a new file and for one that differs *)
(* from _mtimes, which is only set at the first poll.                         *)
Poll ==
  LET noted == {f \in Present : mtimes[f] = 0 \/ disk[f].mtime # mtimes[f]}
      waits == [f \in FilesOf |-> IF f \in noted THEN disk[f].mtime
                                  ELSE IF f \in Firing THEN 0 ELSE unconfirmed[f]] IN
  /\ unconfirmed' = waits
  /\ mtimes' = [f \in FilesOf |-> IF mtimes[f] = 0 THEN waits[f] ELSE mtimes[f]]
  /\ fires' = fires \cup {<<f, disk[f].mtime>> : f \in Firing}
  /\ polled' = [f \in FilesOf |->
       [mtime |-> Mtime(f),
        polls |-> IF f \notin Present \/ polled[f].mtime # Mtime(f) THEN 1
                  ELSE IF polled[f].polls < 3 THEN polled[f].polls + 1 ELSE 3]]
  /\ UNCHANGED <<disk, mirrored, nextRow, sync, stamp, clean>>

MirrorInit ==
  /\ disk = [f \in FilesOf |-> NoFileYet]
  /\ mirrored = [c \in RowIds |-> NoRow]
  /\ nextRow = 1
  /\ sync = Rest
  /\ stamp = 0
  /\ mtimes = [f \in FilesOf |-> 0] /\ unconfirmed = [f \in FilesOf |-> 0]
  /\ fires = {}
  /\ polled = [f \in FilesOf |-> [mtime |-> 0, polls |-> 0]]
  /\ clean = FALSE

MirrorNext ==
  \/ \E f \in FilesOf :
       \/ \E b \in Bodies : UserWrites(f, b)
       \/ UserRemoves(f) \/ ReadFile(f)
  \/ \E c \in RowIds :
       \/ \E b \in Bodies : ChunkChanges(c, b)
       \/ ChunkDeleted(c) \/ Export(c)
  \/ \E b \in Bodies : ChunkAdded(b)
  \/ WriteChunk \/ SyncFromDisk \/ Upsert \/ Rewrite \/ SyncFails \/ SyncDone
  \/ AfterSync \/ Poll

MirrorSpec == MirrorInit /\ [][MirrorNext]_mirrorVars

-----------------------------------------------------------------------------

MirrorTypes ==
  /\ \A f \in Present :
       disk[f].id \in 0..MaxRows /\ disk[f].body \in Bodies /\ disk[f].mtime \in 1..MaxWrites
  /\ \A c \in RowIds : mirrored[c] \in Bodies \cup {NoRow} /\ (mirrored[c] # NoRow => c < nextRow)
  /\ stamp \in 0..MaxWrites

(* After a synchronisation that nobody disturbed every file has the id of a   *)
(* chunk with its body, whatever was edited, exported, removed or left        *)
(* half-way before; except where two files have one id, as the export of a    *)
(* chunk that came from a note has.                                           *)
SyncIsFaithful ==
  sync.pc = "synced" /\ clean =>
    \A f \in Present :
      (\A g \in Present \ {f} : disk[g].id # disk[f].id) =>
        disk[f].id \in RowIds /\ mirrored[disk[f].id] = disk[f].body

(* "The callback fires exactly once per stabilized change" (vault.py:186-187): *)
(* a version that three polls saw has been reported.                          *)
StableChangesAreReported ==
  \A f \in Present : polled[f].polls = 3 /\ polled[f].mtime = disk[f].mtime
                     => <<f, disk[f].mtime>> \in fires
=============================================================================

----------------------------- MODULE AuditChain -----------------------------
(* safety/audit.py: a file of entries, each with a hash over its fields and   *)
(* the hash of the entry before. append() reads the file twice, for the last  *)
(* hash and for the next number, and then writes one line.                    *)
EXTENDS Naturals, Sequences

CONSTANTS
  Writers,      \* processes, or threads, with an AuditLog
  Payloads,     \* kind and payload of an entry
  MaxEntries,   \* bound of the length of the file
  MaxEdits      \* bound of the edits behind the back of the log

ASSUME AuditAssumption == MaxEntries \in Nat /\ MaxEdits \in Nat

VARIABLES
  log,          \* the lines that are whole
  tail,         \* "ended", or a last line "unended" or "broken" by a death
  appends,      \* the call each writer is in, and where
  edits,
  written,      \* history: the payloads as they were appended
  clashed,      \* history: two appends overlapped
  torn,         \* history: a writer died with a part of its line on the disk
  unread        \* history: an append returned whose entry is no line of its own

auditVars == <<log, tail, appends, edits, written, clashed, torn, unread>>

GenesisHash == <<>>
NoAppend == [pc |-> "none"]

(* The payload is left out of the hash (mutant).                              *)
HashWithoutPayload(seq, payload, prev) == <<seq, prev>>

(* A hash that does not collide is told by what it covers. The time stamp is  *)
(* left out, as two entries may have the same.                                *)
EntryHash(seq, payload, prev) == <<seq, payload, prev>>

LastHash == IF log = <<>> THEN GenesisHash ELSE log[Len(log)].hash
(* The number is one behind the length of the file (mutant).                  *)
NextSeqFromLength == Len(log) - 1

NextSeq == IF log = <<>> THEN 0 ELSE log[Len(log)].seq + 1

(* entries() can read the file: it raises at a line that is not JSON. A last  *)
(* line which only lacks its end is read.                                     *)
Legible == tail # "broken"

(* The numbers of the entries that do not fit, as verify() walks them.        *)
Bad ==
  {log[i].seq : i \in {j \in DOMAIN log :
     \/ log[j].hash # EntryHash(log[j].seq, log[j].payload, log[j].prev)
     \/ log[j].prev # IF j = 1 THEN GenesisHash ELSE log[j - 1].hash}}

(* A line that cannot be read is passed over (mutant).                        *)
VerifyLegible == [raises |-> FALSE, bad |-> Bad]

(* verify() over entries(): a list of numbers, or an exception which names    *)
(* nobody.                                                                    *)
Verify == IF Legible THEN [raises |-> FALSE, bad |-> Bad]
          ELSE [raises |-> TRUE, bad |-> {}]

GoesOn(w, a) == appends' = [appends EXCEPT ![w] = a]

-----------------------------------------------------------------------------

ReadLastHash(w, x) ==
  /\ appends[w] = NoAppend /\ Legible
  /\ GoesOn(w, [pc |-> "seq", payload |-> x, prev |-> LastHash])
  /\ clashed' = (clashed \/ \E v \in Writers : appends[v] # NoAppend)
  /\ UNCHANGED <<log, tail, edits, written, torn, unread>>

ReadNextSeq(w) ==
  /\ appends[w].pc = "seq"
  /\ IF Legible
     THEN GoesOn(w, [pc |-> "write", payload |-> appends[w].payload,
                     prev |-> appends[w].prev, seq |-> NextSeq])
     ELSE GoesOn(w, NoAppend)
  /\ UNCHANGED <<log, tail, edits, written, clashed, torn, unread>>

(* A line behind one without an end is no line of its own.                    *)
WriteEntry(w) ==
  LET a == appends[w] IN
  /\ appends[w].pc = "write"
  /\ Len(log) < MaxEntries
  /\ IF tail = "ended"
     THEN /\ log' = Append(log, [seq |-> a.seq, payload |-> a.payload,
                                 prev |-> a.prev,
                                 hash |-> EntryHash(a.seq, a.payload, a.prev)])
          /\ written' = Append(written, a.payload)
          /\ UNCHANGED <<tail, unread>>
     ELSE /\ tail' = "broken" /\ unread' = TRUE
          /\ UNCHANGED <<log, written>>
  /\ GoesOn(w, NoAppend)
  /\ UNCHANGED <<edits, clashed, torn>>

(* The writer dies, before it writes or with a part of the line on the disk:  *)
(* all of it but the end, or less.                                            *)
WriterDies(w) ==
  LET a == appends[w] IN
  /\ appends[w] # NoAppend
  /\ \/ UNCHANGED <<log, tail, written, torn>>
     \/ /\ a.pc = "write" /\ tail = "ended" /\ Len(log) < MaxEntries
        /\ torn' = TRUE
        /\ \/ /\ tail' = "unended"
              /\ log' = Append(log, [seq |-> a.seq, payload |-> a.payload,
                                     prev |-> a.prev,
                                     hash |-> EntryHash(a.seq, a.payload, a.prev)])
              /\ written' = Append(written, a.payload)
           \/ tail' = "broken" /\ UNCHANGED <<log, written>>
  /\ GoesOn(w, NoAppend)
  /\ UNCHANGED <<edits, clashed, unread>>

(* Somebody edits the payload of an entry in the file.                        *)
Edit(i, x) ==
  /\ edits < MaxEdits
  /\ edits' = edits + 1
  /\ log[i].payload # x
  /\ log' = [log EXCEPT ![i].payload = x]
  /\ UNCHANGED <<tail, appends, written, clashed, torn, unread>>

AuditInit ==
  /\ log = <<>> /\ tail = "ended"
  /\ appends = [w \in Writers |-> NoAppend]
  /\ edits = 0
  /\ written = <<>>
  /\ clashed = FALSE /\ torn = FALSE /\ unread = FALSE

AuditNext ==
  \/ \E w \in Writers :
       \/ \E x \in Payloads : ReadLastHash(w, x)
       \/ ReadNextSeq(w) \/ WriteEntry(w) \/ WriterDies(w)
  \/ \E i \in DOMAIN log, x \in Payloads : Edit(i, x)

AuditSpec == AuditInit /\ [][AuditNext]_auditVars

-----------------------------------------------------------------------------

AuditTypes ==
  /\ DOMAIN log = DOMAIN written
  /\ \A i \in DOMAIN log : log[i].seq \in Nat /\ log[i].payload \in Payloads
  /\ tail \in {"ended", "unended", "broken"}
  /\ edits \in 0..MaxEdits
  /\ clashed \in BOOLEAN /\ torn \in BOOLEAN /\ unread \in BOOLEAN

(* The entries whose payload is no longer what was appended.                  *)
Edited == {log[i].seq : i \in {j \in DOMAIN log : log[j].payload # written[j]}}

(* When verify answers, no append that returned is missing from what it read; *)
(* and as long as appends do not overlap, it names exactly the entries whose  *)
(* payload was edited: it accuses nobody after a death in an append, or when  *)
(* an edited entry is the last one and others follow it. It fails to answer   *)
(* only where a writer has died in the middle of a line.                      *)
VerifyIsExact ==
  /\ Verify.raises => torn
  /\ ~Verify.raises => ~unread /\ (~clashed => Verify.bad = Edited)
=============================================================================

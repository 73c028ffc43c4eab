-------------------------- MODULE RelaySyncProofs --------------------------
(***************************************************************************)
(* Proofs about RelaySync for every set of devices, every bound and, as    *)
(* far as the registers go, for a clock that never repeats (FineClock).    *)
(***************************************************************************)
EXTENDS RelaySync, TLAPS, SequenceTheorems

(***************************************************************************)
(* The inductive invariant: every document, wherever it is, is made of     *)
(* what the edits recorded; no two writes of a key carry the same stamp.   *)
(***************************************************************************)
DocOf(d, A, R, W) ==
  /\ d \in Documents
  /\ d.adds \subseteq A
  /\ d.removes \subseteq R
  /\ d.removes \subseteq {p[2] : p \in d.adds}
  /\ \A k \in Keys : d.regs[k] = Unset \/ d.regs[k] \in W[k]

Recorded(d) == DocOf(d, added, removed, written)

Provenance ==
  /\ Recorded(relay)
  /\ \A n \in Nodes : /\ Recorded(docs[n])
                      /\ \A i \in 1 .. Len(up[n]) : Recorded(up[n][i])
                      /\ \A i \in 1 .. Len(down[n]) : Recorded(down[n][i])

UniqueStamps(W) ==
  \A k \in Keys : \A v, w \in W[k] : v.ts = w.ts /\ v.node = w.node => v = w

WritesStamped(W) == W \in [Keys -> SUBSET Entries] /\ UniqueStamps(W)

LEMMA StampsAreNat == \A s \in Stamps : s \in Nat /\ s >= 1
<1> SUFFICES ASSUME NEW s \in Stamps PROVE s \in Nat /\ s >= 1
  OBVIOUS
<1> QED BY StampsAssumption

LEMMA NodesAreNat == \A n \in Nodes : n \in Nat
BY NodesAssumption

(***************************************************************************)
(* The registers: over the entries of one key, _lww_wins is the maximum of *)
(* a total order.                                                          *)
(***************************************************************************)
LEMMA EntryFields ==
  ASSUME NEW W, WritesStamped(W), NEW k \in Keys, NEW a \in W[k] \union {Unset}
  PROVE  /\ a.ts \in Nat /\ a.node \in Nat /\ a.ts >= 0
         /\ a # Unset => a.ts >= 1
<1>1. CASE a = Unset
  BY <1>1 DEF Unset
<1>2. CASE a \in Entries
  <2>1. a.ts \in Stamps /\ a.node \in Nodes
    BY <1>2 DEF Entries
  <2> QED BY <2>1, StampsAreNat, NodesAreNat
<1> QED BY <1>1, <1>2 DEF WritesStamped

LEMMA SameStampSame ==
  ASSUME NEW W, WritesStamped(W), NEW k \in Keys,
         NEW a \in W[k] \union {Unset}, NEW b \in W[k] \union {Unset},
         a.ts = b.ts, a.node = b.node
  PROVE  a = b
<1>1. (a = Unset) <=> (a.ts = 0)
  BY EntryFields DEF Unset
<1>2. (b = Unset) <=> (b.ts = 0)
  BY EntryFields DEF Unset
<1> QED BY <1>1, <1>2 DEF WritesStamped, UniqueStamps

LEMMA WinsIsJoin ==
  ASSUME NEW W, WritesStamped(W), NEW k \in Keys,
         NEW a \in W[k] \union {Unset}, NEW b \in W[k] \union {Unset}
  PROVE  /\ LwwWins(a, b) \in {a, b}
         /\ LwwWins(a, b) = LwwWins(b, a)
         /\ StampLeq(a, LwwWins(a, b))
         /\ StampLeq(b, LwwWins(a, b))
<1>1. a.ts \in Nat /\ a.node \in Nat /\ b.ts \in Nat /\ b.node \in Nat
  BY EntryFields
<1>2. a.ts = b.ts /\ a.node = b.node => a = b
  BY SameStampSame
<1> QED BY <1>1, <1>2 DEF LwwWins, StampLeq

LEMMA StampLeqTransitive ==
  ASSUME NEW W, WritesStamped(W), NEW k \in Keys,
         NEW a \in W[k] \union {Unset}, NEW b \in W[k] \union {Unset},
         NEW c \in W[k] \union {Unset}, StampLeq(a, b), StampLeq(b, c)
  PROVE  StampLeq(a, c)
<1>1. a.ts \in Nat /\ a.node \in Nat /\ b.ts \in Nat /\ b.node \in Nat
      /\ c.ts \in Nat /\ c.node \in Nat
  BY EntryFields
<1> QED BY <1>1 DEF StampLeq

(***************************************************************************)
(* Documents: the merge of two documents of the same edits is a document   *)
(* of those edits, above both, whichever is merged into the other.         *)
(***************************************************************************)
LEMMA DocFields ==
  ASSUME NEW d \in Documents
  PROVE  /\ d = [adds |-> d.adds, removes |-> d.removes, regs |-> d.regs]
         /\ d.regs \in [Keys -> Entries \union {Unset}]
         /\ DOMAIN d.regs = Keys
BY DEF Documents

LEMMA MergeIsJoin ==
  ASSUME NEW A, NEW R, NEW W, WritesStamped(W), NEW a, NEW b,
         DocOf(a, A, R, W), DocOf(b, A, R, W)
  PROVE  /\ DocOf(Merge(a, b), A, R, W)
         /\ Merge(a, b) = Merge(b, a)
         /\ DocLeq(a, Merge(a, b))
         /\ DocLeq(b, Merge(a, b))
<1>1. /\ DOMAIN a.regs = Keys /\ DOMAIN b.regs = Keys
      /\ a \in Documents /\ b \in Documents
  BY DocFields DEF DocOf
<1>2. ASSUME NEW k \in Keys
      PROVE  /\ LwwWins(b.regs[k], a.regs[k]) \in {a.regs[k], b.regs[k]}
             /\ LwwWins(b.regs[k], a.regs[k]) = LwwWins(a.regs[k], b.regs[k])
             /\ StampLeq(a.regs[k], LwwWins(b.regs[k], a.regs[k]))
             /\ StampLeq(b.regs[k], LwwWins(b.regs[k], a.regs[k]))
  <2>1. a.regs[k] \in W[k] \union {Unset} /\ b.regs[k] \in W[k] \union {Unset}
    BY DEF DocOf
  <2> QED BY <2>1, WinsIsJoin
<1>3. /\ LwwMerge(a.regs, b.regs) = [k \in Keys |-> LwwWins(b.regs[k], a.regs[k])]
      /\ LwwMerge(b.regs, a.regs) = [k \in Keys |-> LwwWins(a.regs[k], b.regs[k])]
  BY <1>1 DEF LwwMerge
<1>4. LwwMerge(a.regs, b.regs) = LwwMerge(b.regs, a.regs)
  BY <1>2, <1>3
<1>5. /\ LwwMerge(a.regs, b.regs) \in [Keys -> Entries \union {Unset}]
      /\ \A k \in Keys : LwwMerge(a.regs, b.regs)[k] = Unset \/ LwwMerge(a.regs, b.regs)[k] \in W[k]
  <2>1. \A k \in Keys : /\ a.regs[k] \in Entries \union {Unset}
                        /\ b.regs[k] \in Entries \union {Unset}
                        /\ a.regs[k] = Unset \/ a.regs[k] \in W[k]
                        /\ b.regs[k] = Unset \/ b.regs[k] \in W[k]
    BY DocFields, <1>1 DEF DocOf
  <2> QED BY <1>2, <1>3, <2>1
<1>6. /\ Merge(a, b).adds = a.adds \union b.adds
      /\ Merge(a, b).removes = a.removes \union b.removes
      /\ Merge(a, b).regs = LwwMerge(a.regs, b.regs)
  BY DEF Merge
<1>7. Merge(a, b) \in Documents
  BY <1>1, <1>5 DEF Merge, Documents
<1>8. DocOf(Merge(a, b), A, R, W)
  BY <1>5, <1>6, <1>7 DEF DocOf
<1>9. Merge(a, b) = Merge(b, a)
  BY <1>4 DEF Merge
<1>10. DocLeq(a, Merge(a, b)) /\ DocLeq(b, Merge(a, b))
  BY <1>1, <1>2, <1>3, <1>6 DEF DocLeq
<1> QED BY <1>8, <1>9, <1>10

LEMMA DocLeqReflexive ==
  ASSUME NEW d PROVE DocLeq(d, d)
BY DEF DocLeq, StampLeq

LEMMA DocOfGrows ==
  ASSUME NEW A, NEW R, NEW W, NEW A2, NEW R2, NEW W2, NEW d, DocOf(d, A, R, W),
         A \subseteq A2, R \subseteq R2, \A k \in Keys : W[k] \subseteq W2[k]
  PROVE  DocOf(d, A2, R2, W2)
BY DEF DocOf

LEMMA NoDocIsDoc ==
  ASSUME NEW A, NEW R, NEW W
  PROVE  DocOf(NoDoc, A, R, W)
BY DEF DocOf, NoDoc, EmptyDoc, Documents

(***************************************************************************)
(* Types.                                                                  *)
(***************************************************************************)
LEMMA MergeType ==
  ASSUME NEW a \in Documents, NEW b \in Documents
  PROVE  Merge(a, b) \in Documents
<1>1. /\ a.adds \union b.adds \in SUBSET (Elems \X (1 .. MaxEdits))
      /\ a.removes \union b.removes \in SUBSET (1 .. MaxEdits)
  BY DEF Documents
<1>2. LwwMerge(a.regs, b.regs) \in [Keys -> Entries \union {Unset}]
  BY DocFields DEF LwwMerge, LwwWins
<1> QED BY <1>1, <1>2 DEF Merge, Documents

LEMMA UidsType ==
  ASSUME NEW d \in Documents, NEW e
  PROVE  Uids(d, e) \subseteq 1 .. MaxEdits
BY DEF Uids, Documents

LEMMA NoDocType == NoDoc \in Documents
BY DEF NoDoc, EmptyDoc, Documents

LEMMA EditType ==
  ASSUME TypeOK, NEW n \in Nodes, Edit(n)
  PROVE  TypeOK'
<1> USE SyncBoundsAssumption DEF TypeOK
<1>1. ASSUME NEW doc \in Documents, Edited(n, doc)
      PROVE  /\ docs' \in [Nodes -> Documents] /\ edits' \in 0 .. MaxEdits
             /\ unsent' \in [Nodes -> {"yes", "no"}]
             /\ edits + 1 \in 1 .. MaxEdits
             /\ UNCHANGED <<link, listens, event, syncing, relay, up, down, faults>>
  BY <1>1 DEF Edited, wireVars
<1>2. docs[n] \in Documents
  OBVIOUS
<1>3. ASSUME NEW e \in Elems, Add(n, e)
      PROVE  TypeOK'
  <2>1. edits + 1 \in 1 .. MaxEdits
    BY <1>3 DEF Add, Edited
  <2>2. docs[n].adds \union {<<e, edits + 1>>} \in SUBSET (Elems \X (1 .. MaxEdits))
    BY <1>2, <2>1 DEF Documents
  <2>3. OrAdd(docs[n], e, edits + 1) \in Documents
    BY <1>2, <2>2 DEF OrAdd, Documents
  <2> QED BY <1>1, <1>3, <2>1, <2>3 DEF Add
<1>4. ASSUME NEW e \in Elems, Remove(n, e)
      PROVE  TypeOK'
  <2>1. OrRemove(docs[n], e) \in Documents
    BY <1>2, UidsType DEF OrRemove, Documents
  <2> QED BY <1>1, <1>2, <1>4, <2>1, UidsType DEF Remove
<1>5. ASSUME NEW k \in Keys, NEW v \in Values, NEW ts \in Stamps, Set(n, k, v, ts)
      PROVE  TypeOK'
  <2> DEFINE entry == [value |-> v, ts |-> ts, node |-> n]
  <2>1. entry \in Entries
    BY DEF Entries
  <2>2. LwwSet(docs[n].regs, k, entry) \in [Keys -> Entries \union {Unset}]
    BY <1>2, <2>1, DocFields DEF LwwSet, LwwWins
  <2> DEFINE doc == [docs[n] EXCEPT !.regs = LwwSet(docs[n].regs, k, entry)]
  <2>3. doc \in Documents
    BY <1>2, <2>2 DEF Documents
  <2>4. Edited(n, doc) /\ UNCHANGED <<added, removed>>
        /\ written' = [written EXCEPT ![k] = @ \union {entry}]
    BY <1>5 DEF Set
  <2> HIDE DEF entry, doc
  <2> QED BY <1>1, <2>1, <2>3, <2>4
<1> QED BY <1>3, <1>4, <1>5 DEF Edit

LEMMA FramesType ==
  ASSUME NEW s \in Seq(Documents), NEW d \in Documents
  PROVE  /\ Append(s, d) \in Seq(Documents)
         /\ s # <<>> => Head(s) \in Documents /\ Tail(s) \in Seq(Documents)
         /\ <<>> \in Seq(Documents)
OBVIOUS

LEMMA TypeStep ==
  ASSUME TypeOK, [Next]_vars
  PROVE  TypeOK'
<1> USE SyncBoundsAssumption DEF TypeOK, clientVars, wireVars, historyVars
<1>1. CASE UNCHANGED vars
  BY <1>1 DEF vars
<1>2. ASSUME NEW n \in Nodes, Accept(n)
      PROVE  TypeOK'
  <2>1. Append(down[n], relay) \in Seq(Documents)
    BY FramesType
  <2> QED BY <1>2, <2>1 DEF Accept
<1>3. ASSUME NEW n \in Nodes, Handle(n)
      PROVE  TypeOK'
  <2>1. Head(up[n]) \in Documents /\ Tail(up[n]) \in Seq(Documents)
    BY <1>3, FramesType DEF Handle
  <2>2. relay' \in Documents
    BY <1>3, <2>1, MergeType DEF Handle
  <2>3. \A c \in Nodes : Append(down[c], relay') \in Seq(Documents)
    BY <2>2, FramesType
  <2>4. down' = [c \in Nodes |-> IF c \in Listening THEN Append(down[c], relay') ELSE down[c]]
    BY <1>3 DEF Handle
  <2>5. down' \in [Nodes -> Seq(Documents)]
    BY <2>3, <2>4
  <2> QED BY <1>3, <2>1, <2>2, <2>5 DEF Handle
<1>4. ASSUME NEW n \in Nodes, Connect(n)
      PROVE  TypeOK'
  BY <1>4 DEF Connect
<1>5. ASSUME NEW n \in Nodes, Push(n) \/ Sync(n)
      PROVE  TypeOK'
  <2>1. Append(up[n], docs[n]) \in Seq(Documents)
    BY FramesType
  <2>2. CASE Push(n)
    BY <2>1, <2>2 DEF Push, Send
  <2>3. CASE Sync(n)
    BY <2>1, <2>3 DEF Sync, Send
  <2> QED BY <1>5, <2>2, <2>3
<1>6. ASSUME NEW n \in Nodes, SyncEnds(n)
      PROVE  TypeOK'
  BY <1>6, NoDocType DEF SyncEnds
<1>7. ASSUME NEW n \in Nodes, Receive(n) \/ CallbackFails(n)
      PROVE  TypeOK'
  <2>1. Head(down[n]) \in Documents /\ Tail(down[n]) \in Seq(Documents) /\ <<>> \in Seq(Documents)
    BY <1>7, FramesType DEF Receive, CallbackFails, Inbound
  <2>2. Merge(docs[n], Head(down[n])) \in Documents
    BY <2>1, MergeType
  <2>3. CASE Receive(n)
    BY <2>1, <2>2, <2>3 DEF Receive, Inbound
  <2>4. CASE CallbackFails(n)
    BY <2>1, <2>2, <2>4 DEF CallbackFails, Inbound, Fault
  <2> QED BY <1>7, <2>3, <2>4
<1>8. ASSUME NEW n \in Nodes, Disconnect(n)
      PROVE  TypeOK'
  BY <1>8, <<>> \in Seq(Documents) DEF Disconnect, Fault
<1>9. CASE RelayRestart
  BY <1>9, NoDocType, <<>> \in Seq(Documents) DEF RelayRestart, Fault
<1> QED BY <1>1, <1>2, <1>3, <1>4, <1>5, <1>6, <1>7, <1>8, <1>9, EditType DEF Next

(***************************************************************************)
(* Whatever the devices, the relay and the network do, every document and  *)
(* every frame is a well-formed document.                                  *)
(***************************************************************************)
THEOREM TypeCorrectness == Spec => []TypeOK
<1>1. Init => TypeOK
  BY NoDocType, SyncBoundsAssumption DEF Init, TypeOK
<1> QED BY <1>1, TypeStep, PTL DEF Spec

(***************************************************************************)
(* Provenance.                                                             *)
(***************************************************************************)
Sound == TypeOK /\ Provenance /\ UniqueStamps(written)

HistoryGrows == /\ added \subseteq added' /\ removed \subseteq removed'
                /\ \A k \in Keys : written[k] \subseteq written'[k]

LEMMA RecordedStays ==
  ASSUME HistoryGrows, NEW d, Recorded(d)
  PROVE  DocOf(d, added', removed', written')
BY DocOfGrows DEF Recorded, HistoryGrows

LEMMA MergeRecorded ==
  ASSUME Sound, NEW a, NEW b, Recorded(a), Recorded(b)
  PROVE  /\ Recorded(Merge(a, b))
         /\ Merge(a, b) = Merge(b, a)
         /\ DocLeq(a, Merge(a, b)) /\ DocLeq(b, Merge(a, b))
<1>1. WritesStamped(written)
  BY DEF Sound, TypeOK, WritesStamped
<1> QED BY <1>1, MergeIsJoin DEF Recorded

\* An edit of device n records what it adds to n's document.
EditOf(n) ==
  \E d : /\ docs' = [docs EXCEPT ![n] = d]
         /\ DocOf(d, added', removed', written')
         /\ DocLeq(docs[n], d)
         /\ added' \subseteq added \union d.adds
         /\ removed' \subseteq removed \union d.removes
         /\ \A k \in Keys : \A w \in written'[k] : w \in written[k] \/ StampLeq(w, d.regs[k])

LEMMA AddRecords ==
  ASSUME Sound, NEW n \in Nodes, NEW e \in Elems, Add(n, e)
  PROVE  EditOf(n) /\ HistoryGrows /\ UniqueStamps(written')
<1> DEFINE d == OrAdd(docs[n], e, edits + 1)
<1>1. /\ docs' = [docs EXCEPT ![n] = d]
      /\ added' = added \union {<<e, edits + 1>>} /\ UNCHANGED <<removed, written>>
  BY DEF Add, Edited
<1>2. docs[n] \in Documents /\ Recorded(docs[n])
  BY DEF Sound, TypeOK, Provenance
<1>3. /\ d.adds = docs[n].adds \union {<<e, edits + 1>>}
      /\ d.removes = docs[n].removes /\ d.regs = docs[n].regs
  BY <1>2, DocFields DEF OrAdd
<1>4. TypeOK' /\ d \in Documents
  <2>1. Edit(n)
    BY DEF Edit
  <2>2. TypeOK'
    BY <2>1, EditType DEF Sound
  <2>3. docs'[n] = d
    BY <1>1 DEF Sound, TypeOK
  <2> QED BY <2>2, <2>3 DEF TypeOK
<1> HIDE DEF d
<1>5. DocOf(d, added', removed', written')
  BY <1>1, <1>2, <1>3, <1>4 DEF Recorded, DocOf
<1>6. DocLeq(docs[n], d)
  BY <1>3 DEF DocLeq, StampLeq
<1>7. HistoryGrows /\ UniqueStamps(written')
  BY <1>1 DEF HistoryGrows, Sound
<1> QED BY <1>1, <1>3, <1>5, <1>6, <1>7 DEF EditOf

LEMMA RemoveRecords ==
  ASSUME Sound, NEW n \in Nodes, NEW e \in Elems, Remove(n, e)
  PROVE  EditOf(n) /\ HistoryGrows /\ UniqueStamps(written')
<1> DEFINE d == OrRemove(docs[n], e)
<1>1. /\ docs' = [docs EXCEPT ![n] = d]
      /\ removed' = removed \union Uids(docs[n], e) /\ UNCHANGED <<added, written>>
  BY DEF Remove, Edited
<1>2. docs[n] \in Documents /\ Recorded(docs[n])
  BY DEF Sound, TypeOK, Provenance
<1>3. /\ d.removes = docs[n].removes \union Uids(docs[n], e)
      /\ d.adds = docs[n].adds /\ d.regs = docs[n].regs
  BY <1>2, DocFields DEF OrRemove
<1>4. d \in Documents
  <2>1. Edit(n)
    BY DEF Edit
  <2>2. TypeOK'
    BY <2>1, EditType DEF Sound
  <2>3. docs'[n] = d
    BY <1>1 DEF Sound, TypeOK
  <2> QED BY <2>2, <2>3 DEF TypeOK
<1>5. Uids(docs[n], e) \subseteq {p[2] : p \in docs[n].adds}
  BY DEF Uids
<1> HIDE DEF d
<1>6. DocOf(d, added', removed', written')
  BY <1>1, <1>2, <1>3, <1>4, <1>5 DEF Recorded, DocOf
<1>7. DocLeq(docs[n], d)
  BY <1>3 DEF DocLeq, StampLeq
<1>8. HistoryGrows /\ UniqueStamps(written')
  BY <1>1 DEF HistoryGrows, Sound
<1> QED BY <1>1, <1>3, <1>6, <1>7, <1>8 DEF EditOf

LEMMA SetRecords ==
  ASSUME Sound, FineClock, NEW n \in Nodes, NEW k \in Keys, NEW v \in Values, NEW ts \in Stamps,
         Set(n, k, v, ts)
  PROVE  EditOf(n) /\ HistoryGrows /\ UniqueStamps(written')
<1> DEFINE entry == [value |-> v, ts |-> ts, node |-> n]
           d == [docs[n] EXCEPT !.regs = LwwSet(docs[n].regs, k, entry)]
<1>1. /\ docs' = [docs EXCEPT ![n] = d]
      /\ written' = [written EXCEPT ![k] = @ \union {entry}] /\ UNCHANGED <<added, removed>>
      /\ \A w \in written[k] : w.node = n => w.ts # ts
  BY DEF Set, Edited
<1>2. /\ docs[n] \in Documents /\ Recorded(docs[n])
      /\ written \in [Keys -> SUBSET Entries]
  BY DEF Sound, TypeOK, Provenance
<1>3. /\ docs[n].regs \in [Keys -> Entries \union {Unset}]
      /\ d.adds = docs[n].adds /\ d.removes = docs[n].removes
      /\ d.regs = [docs[n].regs EXCEPT ![k] = LwwWins(entry, docs[n].regs[k])]
  BY <1>2, DocFields DEF LwwSet
<1>4. d \in Documents
  <2>1. Edit(n)
    BY DEF Edit
  <2>2. TypeOK'
    BY <2>1, EditType DEF Sound
  <2>3. docs'[n] = d
    BY <1>1 DEF Sound, TypeOK
  <2>4. docs'[n] \in Documents
    BY <2>2 DEF TypeOK
  <2> HIDE DEF entry, d
  <2> QED BY <2>3, <2>4
<1>5. entry \in Entries /\ entry.node = n /\ entry.ts = ts
  BY DEF Entries
<1> HIDE DEF entry, d
<1>6. /\ written'[k] = written[k] \union {entry}
      /\ \A j \in Keys : j # k => written'[j] = written[j]
  BY <1>1, <1>2
<1>7. UniqueStamps(written')
  <2>1. ASSUME NEW w \in written[k] PROVE ~(w.ts = entry.ts /\ w.node = entry.node)
    BY <1>1, <1>5
  <2> QED BY <1>6, <2>1 DEF Sound, UniqueStamps
<1>8. HistoryGrows
  BY <1>1, <1>6 DEF HistoryGrows
<1>9. WritesStamped(written')
  BY <1>1, <1>2, <1>5, <1>7 DEF WritesStamped
<1>10. /\ LwwWins(entry, docs[n].regs[k]) \in {entry, docs[n].regs[k]}
       /\ StampLeq(entry, LwwWins(entry, docs[n].regs[k]))
       /\ StampLeq(docs[n].regs[k], LwwWins(entry, docs[n].regs[k]))
  <2>1. docs[n].regs[k] \in written'[k] \union {Unset} /\ entry \in written'[k] \union {Unset}
    BY <1>2, <1>6 DEF Recorded, DocOf
  <2> QED BY <1>9, <2>1, WinsIsJoin
<1>11. /\ d.regs[k] = LwwWins(entry, docs[n].regs[k])
       /\ \A j \in Keys : j # k => d.regs[j] = docs[n].regs[j]
       /\ DOMAIN docs[n].regs = Keys
  BY <1>3
<1>12. DocOf(d, added', removed', written')
  BY <1>1, <1>2, <1>3, <1>4, <1>6, <1>10, <1>11 DEF Recorded, DocOf
<1>13. DocLeq(docs[n], d)
  BY <1>3, <1>10, <1>11 DEF DocLeq, StampLeq
<1>14. \A j \in Keys : \A w \in written'[j] : w \in written[j] \/ StampLeq(w, d.regs[j])
  BY <1>6, <1>10, <1>11
<1> QED BY <1>1, <1>3, <1>7, <1>8, <1>12, <1>13, <1>14 DEF EditOf

\* What some device held, it holds after its document grew.
LEMMA HoldGrows ==
  ASSUME Sound, Sound', NodesHoldEverything, HistoryGrows,
         \A m \in Nodes : DocLeq(docs[m], docs'[m]),
         NEW k \in Keys, NEW w \in written[k]
  PROVE  \E m \in Nodes : StampLeq(w, docs'[m].regs[k])
<1>1. PICK m \in Nodes : StampLeq(w, docs[m].regs[k])
  BY DEF NodesHoldEverything
<1>2. WritesStamped(written')
  BY DEF Sound, TypeOK, WritesStamped
<1>3. w \in written'[k] \union {Unset}
  BY DEF HistoryGrows
<1>4. docs[m].regs[k] \in written'[k] \union {Unset}
  BY DEF Sound, Provenance, Recorded, DocOf, HistoryGrows
<1>5. docs'[m].regs[k] \in written'[k] \union {Unset}
  BY DEF Sound, Provenance, Recorded, DocOf
<1>6. k \in DOMAIN docs[m].regs
  BY DocFields DEF Sound, TypeOK
<1>7. StampLeq(docs[m].regs[k], docs'[m].regs[k])
  BY <1>6 DEF DocLeq
<1>8. StampLeq(w, docs'[m].regs[k])
  BY <1>1, <1>2, <1>3, <1>4, <1>5, <1>7, StampLeqTransitive
<1> QED BY <1>8

LEMMA EditKeepsHold ==
  ASSUME Sound, HistoryGrows, UniqueStamps(written'), TypeOK', NodesHoldEverything,
         NEW n \in Nodes, EditOf(n),
         UNCHANGED <<relay, up, down>>
  PROVE  /\ Sound' /\ NodesHoldEverything'
         /\ \A m \in Nodes : DocLeq(docs[m], docs'[m])
<1>1. PICK d : /\ docs' = [docs EXCEPT ![n] = d]
               /\ DocOf(d, added', removed', written')
               /\ DocLeq(docs[n], d)
               /\ added' \subseteq added \union d.adds
               /\ removed' \subseteq removed \union d.removes
               /\ \A k \in Keys : \A w \in written'[k] : w \in written[k] \/ StampLeq(w, d.regs[k])
  BY DEF EditOf
<1>2. docs'[n] = d /\ \A m \in Nodes : m # n => docs'[m] = docs[m]
  BY <1>1 DEF Sound, TypeOK
<1>3. \A m \in Nodes : DocLeq(docs[m], docs'[m])
  BY <1>1, <1>2, DocLeqReflexive
<1>4. \A m \in Nodes : DocOf(docs'[m], added', removed', written')
  BY <1>1, <1>2, RecordedStays DEF Sound, Provenance
<1>5. Provenance'
  <2>1. DocOf(relay', added', removed', written')
    BY RecordedStays DEF Sound, Provenance
  <2>2. ASSUME NEW m \in Nodes
        PROVE  /\ \A i \in 1 .. Len(up'[m]) : DocOf(up'[m][i], added', removed', written')
               /\ \A i \in 1 .. Len(down'[m]) : DocOf(down'[m][i], added', removed', written')
    BY RecordedStays DEF Sound, Provenance
  <2> QED BY <1>4, <2>1, <2>2 DEF Provenance, Recorded
<1>6. Sound'
  BY <1>5 DEF Sound
<1>7. NodesHoldEverything'
  <2>1. ASSUME NEW p \in added' PROVE \E m \in Nodes : p \in docs'[m].adds
    BY <1>1, <1>2, <1>3 DEF NodesHoldEverything, DocLeq
  <2>2. ASSUME NEW u \in removed' PROVE \E m \in Nodes : u \in docs'[m].removes
    BY <1>1, <1>2, <1>3 DEF NodesHoldEverything, DocLeq
  <2>3. ASSUME NEW k \in Keys, NEW w \in written'[k]
        PROVE  \E m \in Nodes : StampLeq(w, docs'[m].regs[k])
    <3>1. CASE StampLeq(w, d.regs[k])
      BY <1>2, <3>1
    <3>2. CASE w \in written[k]
      BY <3>2, <1>3, <1>6, HoldGrows
    <3> QED BY <1>1, <3>1, <3>2
  <2> QED BY <2>1, <2>2, <2>3 DEF NodesHoldEverything
<1> QED BY <1>3, <1>6, <1>7

LEMMA FramesRecorded ==
  ASSUME NEW s \in Seq(Documents), \A i \in 1 .. Len(s) : Recorded(s[i]),
         NEW d \in Documents, Recorded(d)
  PROVE  /\ \A i \in 1 .. Len(Append(s, d)) : Recorded(Append(s, d)[i])
         /\ s # <<>> => /\ Recorded(Head(s))
                        /\ \A i \in 1 .. Len(Tail(s)) : Recorded(Tail(s)[i])
<1>1. \A i \in 1 .. Len(Append(s, d)) : Append(s, d)[i] = d \/ \E j \in 1 .. Len(s) : Append(s, d)[i] = s[j]
  OBVIOUS
<1>2. s # <<>> => /\ 1 \in 1 .. Len(s) /\ Head(s) = s[1]
                  /\ \A i \in 1 .. Len(Tail(s)) : i + 1 \in 1 .. Len(s) /\ Tail(s)[i] = s[i + 1]
  OBVIOUS
<1>3. \A i \in 1 .. Len(Append(s, d)) : Recorded(Append(s, d)[i])
  BY <1>1
<1>4. s # <<>> => Recorded(Head(s)) /\ \A i \in 1 .. Len(Tail(s)) : Recorded(Tail(s)[i])
  BY <1>2
<1> QED BY <1>3, <1>4

\* The steps that are not edits: nothing is recorded, documents only grow.
Carries == /\ Provenance' /\ UNCHANGED historyVars
           /\ \A m \in Nodes : DocLeq(docs[m], docs'[m])

LEMMA SameHistory ==
  ASSUME UNCHANGED historyVars, NEW d
  PROVE  /\ HistoryGrows
         /\ DocOf(d, added', removed', written') <=> Recorded(d)
BY DEF historyVars, HistoryGrows, Recorded

LEMMA AcceptCarries ==
  ASSUME Sound, NEW n \in Nodes, Accept(n)
  PROVE  Carries
<1>1. /\ UNCHANGED <<docs, relay, up>> /\ UNCHANGED historyVars
      /\ down' = [down EXCEPT ![n] = Append(@, relay)]
  BY DEF Accept
<1>2. /\ Recorded(relay) /\ relay \in Documents /\ down \in [Nodes -> Seq(Documents)]
      /\ \A m \in Nodes : \A i \in 1 .. Len(down[m]) : Recorded(down[m][i])
  BY DEF Sound, TypeOK, Provenance
<1>3. \A m \in Nodes : \A i \in 1 .. Len(down'[m]) : Recorded(down'[m][i])
  BY <1>1, <1>2, FramesRecorded
<1>4. Provenance'
  BY <1>1, <1>3 DEF Sound, Provenance, Recorded, historyVars
<1> QED BY <1>1, <1>4, DocLeqReflexive DEF Carries

LEMMA HandleCarries ==
  ASSUME Sound, NEW n \in Nodes, Handle(n)
  PROVE  Carries /\ DocLeq(relay, relay')
<1>1. /\ UNCHANGED docs /\ UNCHANGED historyVars /\ up[n] # <<>>
      /\ relay' = Merge(relay, Head(up[n]))
      /\ up' = [up EXCEPT ![n] = Tail(@)]
      /\ \A m \in Nodes : down'[m] \in {down[m], Append(down[m], relay')}
  BY DEF Handle, clientVars
<1>2. /\ Recorded(relay) /\ relay \in Documents
      /\ up \in [Nodes -> Seq(Documents)] /\ down \in [Nodes -> Seq(Documents)]
      /\ \A m \in Nodes : /\ \A i \in 1 .. Len(up[m]) : Recorded(up[m][i])
                          /\ \A i \in 1 .. Len(down[m]) : Recorded(down[m][i])
  BY DEF Sound, TypeOK, Provenance
<1>3. Recorded(Head(up[n])) /\ \A i \in 1 .. Len(Tail(up[n])) : Recorded(Tail(up[n])[i])
  BY <1>1, <1>2, FramesRecorded
<1>4. Recorded(relay') /\ DocLeq(relay, relay')
  BY <1>1, <1>2, <1>3, MergeRecorded
<1>5. relay' \in Documents
  BY <1>4 DEF Recorded, DocOf
<1>6. \A m \in Nodes : \A i \in 1 .. Len(down'[m]) : Recorded(down'[m][i])
  BY <1>1, <1>2, <1>4, <1>5, FramesRecorded
<1>7. \A m \in Nodes : \A i \in 1 .. Len(up'[m]) : Recorded(up'[m][i])
  BY <1>1, <1>2, <1>3
<1>8. Provenance'
  BY <1>1, <1>2, <1>4, <1>6, <1>7 DEF Sound, Provenance, Recorded, historyVars
<1> QED BY <1>1, <1>4, <1>8, DocLeqReflexive DEF Carries

LEMMA PushCarries ==
  ASSUME Sound, NEW n \in Nodes, Push(n) \/ Sync(n)
  PROVE  Carries /\ UNCHANGED relay
<1>1. /\ UNCHANGED <<docs, relay, down>> /\ UNCHANGED historyVars
      /\ up' = [up EXCEPT ![n] = Append(@, docs[n])]
  BY DEF Push, Sync, Send, clientVars
<1>2. /\ Recorded(docs[n]) /\ docs[n] \in Documents /\ up \in [Nodes -> Seq(Documents)]
      /\ \A m \in Nodes : \A i \in 1 .. Len(up[m]) : Recorded(up[m][i])
  BY DEF Sound, TypeOK, Provenance
<1>3. \A m \in Nodes : \A i \in 1 .. Len(up'[m]) : Recorded(up'[m][i])
  BY <1>1, <1>2, FramesRecorded
<1>4. Provenance'
  BY <1>1, <1>3 DEF Sound, Provenance, Recorded, historyVars
<1> QED BY <1>1, <1>4, DocLeqReflexive DEF Carries

LEMMA InboundCarries ==
  ASSUME Sound, NEW n \in Nodes, Receive(n) \/ CallbackFails(n)
  PROVE  /\ Carries /\ UNCHANGED relay
         /\ DocLeq(Head(down[n]), docs'[n])
<1>1. /\ UNCHANGED <<relay, up>> /\ UNCHANGED historyVars /\ down[n] # <<>>
      /\ docs' = [docs EXCEPT ![n] = Merge(@, Head(down[n]))]
      /\ down' = [down EXCEPT ![n] = Tail(@)] \/ down' = [down EXCEPT ![n] = <<>>]
  BY DEF Receive, CallbackFails, Inbound
<1>2. /\ Recorded(docs[n]) /\ docs \in [Nodes -> Documents] /\ down \in [Nodes -> Seq(Documents)]
      /\ \A m \in Nodes : \A i \in 1 .. Len(down[m]) : Recorded(down[m][i])
  BY DEF Sound, TypeOK, Provenance
<1>3. Recorded(Head(down[n])) /\ \A i \in 1 .. Len(Tail(down[n])) : Recorded(Tail(down[n])[i])
  BY <1>1, <1>2, FramesRecorded
<1>4. /\ Recorded(docs'[n]) /\ DocLeq(docs[n], docs'[n]) /\ DocLeq(Head(down[n]), docs'[n])
      /\ \A m \in Nodes : m # n => docs'[m] = docs[m]
  BY <1>1, <1>2, <1>3, MergeRecorded
<1>5. \A m \in Nodes : \A i \in 1 .. Len(down'[m]) : Recorded(down'[m][i])
  <2>1. /\ \A m \in Nodes : m # n => down'[m] = down[m]
        /\ down'[n] = Tail(down[n]) \/ down'[n] = <<>>
    BY <1>1, <1>2
  <2>2. \A i \in 1 .. Len(down'[n]) : Recorded(down'[n][i])
    <3>1. CASE down'[n] = Tail(down[n])
      BY <1>3, <3>1
    <3>2. CASE down'[n] = <<>>
      <4>1. Len(down'[n]) = 0
        BY <3>2
      <4> QED BY <4>1
    <3> QED BY <2>1, <3>1, <3>2
  <2> QED BY <1>2, <2>1, <2>2
<1>6. Provenance'
  BY <1>1, <1>4, <1>5 DEF Sound, Provenance, Recorded, historyVars
<1> QED BY <1>1, <1>4, <1>6, DocLeqReflexive DEF Carries

LEMMA LossCarries ==
  ASSUME Sound, RelayRestart \/ \E n \in Nodes : Disconnect(n)
  PROVE  Carries /\ (UNCHANGED relay \/ relay' = NoDoc)
<1>1. /\ UNCHANGED docs /\ UNCHANGED historyVars
      /\ relay' \in {relay, NoDoc}
      /\ \A m \in Nodes : up'[m] \in {up[m], <<>>} /\ down'[m] \in {down[m], <<>>}
  BY DEF Disconnect, RelayRestart, Sound, TypeOK
<1>2. Recorded(relay')
  BY <1>1, NoDocIsDoc DEF Sound, Provenance, Recorded
<1>3. \A m \in Nodes : /\ \A i \in 1 .. Len(up'[m]) : Recorded(up'[m][i])
                      /\ \A i \in 1 .. Len(down'[m]) : Recorded(down'[m][i])
  BY <1>1 DEF Sound, Provenance
<1>4. Provenance'
  BY <1>1, <1>2, <1>3 DEF Sound, Provenance, Recorded, historyVars
<1> QED BY <1>1, <1>4, DocLeqReflexive DEF Carries

LEMMA QuietCarries ==
  ASSUME Sound, UNCHANGED vars \/ \E n \in Nodes : Connect(n) \/ SyncEnds(n)
  PROVE  Carries /\ UNCHANGED relay
<1>1. UNCHANGED <<docs, relay, up, down>> /\ UNCHANGED historyVars
  BY DEF Connect, SyncEnds, vars, clientVars, wireVars
<1>2. Provenance'
  BY <1>1 DEF Sound, Provenance, Recorded, historyVars
<1> QED BY <1>1, <1>2, DocLeqReflexive DEF Carries

(***************************************************************************)
(* Broadcasts.                                                             *)
(***************************************************************************)
LEMMA DocLeqTransitive ==
  ASSUME Sound, NEW a, NEW b, NEW c, Recorded(a), Recorded(b), Recorded(c),
         DocLeq(a, b), DocLeq(b, c)
  PROVE  DocLeq(a, c)
<1>1. WritesStamped(written) /\ DOMAIN a.regs = Keys /\ DOMAIN b.regs = Keys
  BY DocFields DEF Sound, TypeOK, WritesStamped, Recorded, DocOf
<1>2. ASSUME NEW k \in Keys PROVE StampLeq(a.regs[k], c.regs[k])
  <2>1. /\ a.regs[k] \in written[k] \union {Unset} /\ b.regs[k] \in written[k] \union {Unset}
        /\ c.regs[k] \in written[k] \union {Unset}
    BY DEF Recorded, DocOf
  <2>2. StampLeq(a.regs[k], b.regs[k]) /\ StampLeq(b.regs[k], c.regs[k])
    BY <1>1 DEF DocLeq
  <2> QED BY <1>1, <2>1, <2>2, StampLeqTransitive
<1> QED BY <1>1, <1>2 DEF DocLeq

\* What one client has of the relay's document: the conjunct of BroadcastsReach.
Reached(n) == IF down[n] = <<>> THEN DocLeq(relay, docs[n]) ELSE down[n][Len(down[n])] = relay

LEMMA GrowthKeepsReach ==
  ASSUME Sound, Sound', NEW n \in Nodes, Reached(n),
         HistoryGrows, DocLeq(docs[n], docs'[n]), relay' = relay, down'[n] = down[n]
  PROVE  Reached(n)'
<1>1. CASE down[n] = <<>>
  <2>1. DocLeq(relay, docs[n])
    BY <1>1 DEF Reached
  <2>2. Recorded(relay)' /\ Recorded(docs[n])'
    BY DEF Sound, Provenance
  <2>3. DocOf(docs[n], added', removed', written')
    BY RecordedStays DEF Sound, Provenance
  <2>4. DocLeq(relay', docs'[n])
    <3>1. WritesStamped(written') /\ DOMAIN relay.regs = Keys /\ DOMAIN docs[n].regs = Keys
      BY DocFields DEF Sound, TypeOK, WritesStamped
    <3>2. ASSUME NEW k \in Keys PROVE StampLeq(relay'.regs[k], docs'[n].regs[k])
      <4>1. /\ relay'.regs[k] \in written'[k] \union {Unset}
            /\ docs[n].regs[k] \in written'[k] \union {Unset}
            /\ docs'[n].regs[k] \in written'[k] \union {Unset}
        BY <2>2, <2>3 DEF Recorded, DocOf
      <4>2. StampLeq(relay'.regs[k], docs[n].regs[k]) /\ StampLeq(docs[n].regs[k], docs'[n].regs[k])
        BY <2>1, <3>1 DEF DocLeq
      <4> QED BY <3>1, <4>1, <4>2, StampLeqTransitive
    <3> QED BY <2>1, <3>1, <3>2 DEF DocLeq
  <2> QED BY <1>1, <2>4 DEF Reached
<1>2. CASE down[n] # <<>>
  BY <1>2 DEF Reached
<1> QED BY <1>1, <1>2

LEMMA LastFrame ==
  ASSUME NEW s \in Seq(Documents), NEW d \in Documents
  PROVE  /\ Append(s, d) # <<>> /\ Append(s, d)[Len(Append(s, d))] = d
         /\ s # <<>> => /\ Tail(s) = <<>> => Head(s) = s[Len(s)]
                        /\ Tail(s) # <<>> => Tail(s)[Len(Tail(s))] = s[Len(s)]
<1>1. Append(s, d) # <<>> /\ Append(s, d)[Len(Append(s, d))] = d
  OBVIOUS
<1>2. ASSUME s # <<>> PROVE Tail(s) = <<>> => Head(s) = s[Len(s)]
  <2>1. Len(s) # 0 /\ Len(Tail(s)) = Len(s) - 1 /\ Len(s) \in Nat
    BY <1>2
  <2> QED BY <2>1
<1>3. ASSUME s # <<>> PROVE Tail(s) # <<>> => Tail(s)[Len(Tail(s))] = s[Len(s)]
  <2>1. Len(s) # 0 /\ Len(Tail(s)) = Len(s) - 1 /\ Len(s) \in Nat /\ Tail(s) \in Seq(Documents)
    BY <1>3
  <2>2. Tail(s) # <<>> => Len(Tail(s)) >= 1
    BY <2>1
  <2> QED BY <2>1, <2>2
<1> QED BY <1>1, <1>2, <1>3

LEMMA ReachStep ==
  ASSUME Sound, Sound', BroadcastsReach, [Next]_vars, HistoryGrows,
         \A m \in Nodes : DocLeq(docs[m], docs'[m])
  PROVE  BroadcastsReach'
<1> USE DEF clientVars, wireVars, historyVars
<1>1. SUFFICES ASSUME NEW c \in Nodes, c \in Listening' PROVE Reached(c)'
  BY DEF BroadcastsReach, Reached, Listening, Clients
<1>2. link \in [Nodes -> {"off", "opening", "on"}] /\ listens \in [Nodes -> {"running", "ended"}]
      /\ down \in [Nodes -> Seq(Documents)] /\ relay \in Documents /\ relay' \in Documents
  BY DEF Sound, TypeOK
<1>3. c \in Listening => Reached(c)
  BY DEF BroadcastsReach, Reached
<1>4. ASSUME c \in Listening, relay' = relay, down'[c] = down[c]
      PROVE  Reached(c)'
  BY <1>3, <1>4, GrowthKeepsReach
<1>5. CASE UNCHANGED vars
  BY <1>1, <1>4, <1>5 DEF vars, Listening, Clients
<1>6. ASSUME NEW n \in Nodes, Edit(n) \/ Push(n) \/ Sync(n) \/ SyncEnds(n)
      PROVE  Reached(c)'
  <2>1. UNCHANGED <<link, listens, relay, down>>
    BY <1>6 DEF Edit, Add, Remove, Set, Edited, Push, Sync, SyncEnds
  <2> QED BY <1>1, <1>4, <2>1 DEF Listening, Clients
<1>7. ASSUME NEW n \in Nodes, Accept(n)
      PROVE  Reached(c)'
  <2>1. CASE c = n
    <3>1. down'[c] = Append(down[c], relay) /\ relay' = relay
      BY <1>2, <1>7, <2>1 DEF Accept
    <3> QED BY <1>2, <3>1, LastFrame DEF Reached
  <2>2. CASE c # n
    <3>1. c \in Listening /\ relay' = relay /\ down'[c] = down[c]
      BY <1>1, <1>2, <1>7, <2>2 DEF Accept, Listening, Clients
    <3> QED BY <1>4, <3>1
  <2> QED BY <2>1, <2>2
<1>8. ASSUME NEW n \in Nodes, Handle(n)
      PROVE  Reached(c)'
  <2>1. c \in Listening
    BY <1>1, <1>8 DEF Handle, Listening, Clients
  <2>2. down'[c] = Append(down[c], relay')
    BY <1>8, <2>1 DEF Handle
  <2> QED BY <1>2, <2>2, LastFrame DEF Reached
<1>9. ASSUME NEW n \in Nodes, Connect(n)
      PROVE  Reached(c)'
  <2>1. c # n /\ c \in Listening /\ relay' = relay /\ down'[c] = down[c]
    BY <1>1, <1>2, <1>9 DEF Connect, Listening, Clients
  <2> QED BY <1>4, <2>1
<1>10. ASSUME NEW n \in Nodes, Receive(n)
       PROVE  Reached(c)'
  <2>1. c \in Listening /\ relay' = relay
    BY <1>1, <1>10 DEF Receive, Listening, Clients
  <2>2. CASE c # n
    BY <1>2, <1>4, <1>10, <2>1, <2>2 DEF Receive
  <2>3. CASE c = n
    <3>1. down[c] # <<>> /\ down'[c] = Tail(down[c]) /\ down[c] \in Seq(Documents)
      BY <1>2, <1>10, <2>3 DEF Receive, Inbound
    <3>2. down[c][Len(down[c])] = relay
      BY <1>3, <2>1, <3>1 DEF Reached
    <3>3. DocLeq(Head(down[c]), docs'[c])
      BY <1>10, <2>3, InboundCarries
    <3> QED BY <1>2, <2>1, <3>1, <3>2, <3>3, LastFrame DEF Reached
  <2> QED BY <2>2, <2>3
<1>11. ASSUME NEW n \in Nodes, CallbackFails(n) \/ Disconnect(n)
       PROVE  Reached(c)'
  <2>1. c # n /\ c \in Listening /\ relay' = relay /\ down'[c] = down[c]
    BY <1>1, <1>2, <1>11 DEF CallbackFails, Disconnect, Inbound, Listening, Clients
  <2> QED BY <1>4, <2>1
<1>12. CASE RelayRestart
  BY <1>1, <1>12 DEF RelayRestart, Listening, Clients
<1> QED BY <1>5, <1>6, <1>7, <1>8, <1>9, <1>10, <1>11, <1>12 DEF Next

(***************************************************************************)
(* The inductive invariant and what it gives.                              *)
(***************************************************************************)
IInv == Sound /\ NodesHoldEverything /\ BroadcastsReach

LEMMA InitIInv == Init => IInv
<1> SUFFICES ASSUME Init PROVE IInv
  OBVIOUS
<1>1. TypeOK
  BY NoDocType, SyncBoundsAssumption DEF Init, TypeOK
<1>2. Recorded(NoDoc)
  BY NoDocIsDoc DEF Recorded
<1>3. Provenance
  BY <1>2 DEF Init, Provenance
<1>4. UniqueStamps(written)
  BY DEF Init, UniqueStamps
<1>5. NodesHoldEverything /\ BroadcastsReach
  BY DEF Init, NodesHoldEverything, BroadcastsReach, Listening, Clients
<1> QED BY <1>1, <1>3, <1>4, <1>5 DEF IInv, Sound

LEMMA StepIInv ==
  ASSUME FineClock, IInv, [Next]_vars
  PROVE  /\ IInv'
         /\ \A n \in Nodes : DocLeq(docs[n], docs'[n])
         /\ relay' = NoDoc \/ DocLeq(relay, relay')
<1>1. TypeOK' /\ Sound /\ NodesHoldEverything /\ BroadcastsReach
  BY TypeStep DEF IInv, Sound
<1>2. ASSUME NEW n \in Nodes, Edit(n)
      PROVE  /\ Sound' /\ NodesHoldEverything' /\ HistoryGrows /\ relay' = relay
             /\ \A m \in Nodes : DocLeq(docs[m], docs'[m])
  <2>1. EditOf(n) /\ HistoryGrows /\ UniqueStamps(written')
    BY <1>1, <1>2, AddRecords, RemoveRecords, SetRecords DEF Edit
  <2>2. UNCHANGED <<relay, up, down>>
    BY <1>2 DEF Edit, Add, Remove, Set, Edited, wireVars
  <2> QED BY <1>1, <2>1, <2>2, EditKeepsHold
<1>3. ASSUME Carries
      PROVE  /\ Sound' /\ NodesHoldEverything' /\ HistoryGrows
             /\ \A m \in Nodes : DocLeq(docs[m], docs'[m])
  <2>1. UNCHANGED <<added, removed, written>> /\ HistoryGrows
    BY <1>3 DEF Carries, historyVars, HistoryGrows
  <2>2. \A m \in Nodes : DocLeq(docs[m], docs'[m])
    BY <1>3 DEF Carries
  <2>3. Sound'
    BY <1>1, <1>3, <2>1 DEF Sound, Carries, UniqueStamps
  <2>4. \A k \in Keys : \A w \in written[k] : \E m \in Nodes : StampLeq(w, docs'[m].regs[k])
    BY <1>1, <2>1, <2>2, <2>3, HoldGrows
  <2>5. /\ \A p \in added : \E m \in Nodes : p \in docs'[m].adds
        /\ \A u \in removed : \E m \in Nodes : u \in docs'[m].removes
    BY <1>1, <2>2 DEF NodesHoldEverything, DocLeq
  <2> QED BY <2>1, <2>2, <2>3, <2>4, <2>5 DEF NodesHoldEverything
<1>4. (\E n \in Nodes : Edit(n)) \/ (Carries /\ (relay' = NoDoc \/ DocLeq(relay, relay')))
  BY <1>1, AcceptCarries, HandleCarries, PushCarries, InboundCarries, LossCarries, QuietCarries,
     DocLeqReflexive DEF Next, Accept
<1>5. /\ Sound' /\ NodesHoldEverything' /\ HistoryGrows
      /\ \A m \in Nodes : DocLeq(docs[m], docs'[m])
      /\ relay' = NoDoc \/ DocLeq(relay, relay')
  BY <1>2, <1>3, <1>4, DocLeqReflexive
<1>6. BroadcastsReach'
  BY <1>1, <1>5, ReachStep
<1> QED BY <1>5, <1>6 DEF IInv

LEMMA InvariantHolds ==
  ASSUME FineClock PROVE Spec => []IInv
<1>1. IInv /\ [Next]_vars => IInv'
  BY StepIInv
<1> QED BY <1>1, InitIInv, PTL DEF Spec

(***************************************************************************)
(* No edit is lost by the devices together, whatever the relay and the     *)
(* network do (relay.py:20).                                               *)
(***************************************************************************)
THEOREM NothingIsLost ==
  ASSUME FineClock PROVE Spec => []NodesHoldEverything
BY InvariantHolds, PTL DEF IInv

(***************************************************************************)
(* A tombstone never travels without the add it hides (crdt.py:9).         *)
(***************************************************************************)
THEOREM TombstonesAreObserved ==
  ASSUME FineClock PROVE Spec => []TombstonesFollowAdds
<1>1. IInv => TombstonesFollowAdds
  BY DEF IInv, Sound, Provenance, Recorded, DocOf, TombstonesFollowAdds
<1> QED BY <1>1, InvariantHolds, PTL

(***************************************************************************)
(* What the relay knows reaches every listening client with the frames     *)
(* already sent (relay.py:19).                                             *)
(***************************************************************************)
THEOREM RelayIsHeard ==
  ASSUME FineClock PROVE Spec => []BroadcastsReach
BY InvariantHolds, PTL DEF IInv

(***************************************************************************)
(* merge() is commutative on the documents the program meets, when a       *)
(* device's clock never repeats (crdt.py:12).                              *)
(***************************************************************************)
THEOREM MergeCommutes ==
  ASSUME FineClock PROVE Spec => []MergeIsCommutative
<1>1. IInv => MergeIsCommutative
  BY MergeRecorded DEF IInv, Sound, Provenance, MergeIsCommutative
<1> QED BY <1>1, InvariantHolds, PTL

(***************************************************************************)
(* Documents only grow (relay.py:17).                                      *)
(***************************************************************************)
THEOREM ConvergenceIsMonotone ==
  ASSUME FineClock PROVE Spec => Monotone
<1>1. IInv /\ [Next]_vars =>
        [ /\ \A n \in Nodes : DocLeq(docs[n], docs'[n])
          /\ relay' # NoDoc => DocLeq(relay, relay') ]_vars
  BY StepIInv
<1> QED BY <1>1, InvariantHolds, PTL DEF Spec, Monotone
(***************************************************************************)
(* The devices hold every edit, hear the relay and agree on what a merge   *)
(* is, whatever is lost on the way and whatever restarts.                  *)
(***************************************************************************)
THEOREM SyncIsSafe ==
  ASSUME FineClock PROVE Spec => []NothingGoesMissing
<1>1. NodesHoldEverything /\ BroadcastsReach /\ MergeIsCommutative => NothingGoesMissing
  BY DEF NothingGoesMissing
<1> QED BY <1>1, NothingIsLost, RelayIsHeard, MergeCommutes, PTL
=============================================================================

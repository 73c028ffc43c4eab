-------------------------------- MODULE Crdt --------------------------------
(***************************************************************************)
(* The replicated data types of sera/sync/crdt.py.  A document has an      *)
(* observed-remove set (chunks) and last-write-wins registers (entities    *)
(* and relations: a key here stands for a key of either namespace).        *)
(* ORSet._entries, which no method reads back, is left out.                *)
(***************************************************************************)
EXTENDS Integers

\* A key that was never set: every real entry has a positive time stamp.
Unset == [value |-> "unset", ts |-> 0, node |-> 0]

EmptyDoc(Keys) == [adds |-> {}, removes |-> {}, regs |-> [k \in Keys |-> Unset]]

(* (mutant) the incoming entry replaces ours only when it is older. *)
LwwWinsOlder(a, b) == IF b = Unset \/ (a # Unset /\ a.ts < b.ts) THEN a ELSE b

\* _lww_wins: the later stamp, then the higher node, then the first argument.
LwwWins(a, b) == IF a.ts > b.ts \/ (a.ts = b.ts /\ a.node >= b.node) THEN a ELSE b

(* (mutant) merging takes the incoming entry whatever its stamp. *)
LwwTakeOther(mine, other) ==
  [k \in DOMAIN mine |-> IF other[k] = Unset THEN mine[k] ELSE other[k]]

\* LWWRegister.set and LWWRegister.merge give _lww_wins the new entry first.
LwwSet(regs, k, entry) == [regs EXCEPT ![k] = LwwWins(entry, @)]
LwwMerge(mine, other) == [k \in DOMAIN mine |-> LwwWins(other[k], mine[k])]

Uids(doc, e) == {p[2] : p \in {q \in doc.adds : q[1] = e}}

OrAdd(doc, e, uid) == [doc EXCEPT !.adds = @ \union {<<e, uid>>}]

OrRemove(doc, e) == [doc EXCEPT !.removes = @ \union Uids(doc, e)]

Elements(doc) == {p[1] : p \in {q \in doc.adds : q[2] \notin doc.removes}}

\* CRDTDocument.merge: mine after other was merged into it.
Merge(mine, other) ==
  [adds    |-> mine.adds \union other.adds,
   removes |-> mine.removes \union other.removes,
   regs    |-> LwwMerge(mine.regs, other.regs)]

(***************************************************************************)
(* The order the merge is meant to be the join of.                         *)
(***************************************************************************)
StampLeq(a, b) == a.ts < b.ts \/ (a.ts = b.ts /\ a.node < b.node) \/ a = b

DocLeq(a, b) == /\ a.adds \subseteq b.adds
                /\ a.removes \subseteq b.removes
                /\ \A k \in DOMAIN a.regs : StampLeq(a.regs[k], b.regs[k])
=============================================================================

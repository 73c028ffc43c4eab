----------------------------- MODULE RelaySync -----------------------------
(***************************************************************************)
(* The relay that keeps a user's devices converged (sera/sync/relay.py):   *)
(* RelayServer merges every pushed document and broadcasts the merged one, *)
(* RelayClient pushes its document and merges what it receives, over one   *)
(* WebSocket per client: ordered, and lost with the connection.            *)
(*                                                                         *)
(* Each step is what asyncio runs between two awaits.  RelayServer merges, *)
(* takes the snapshot and starts the sends of the broadcast without        *)
(* yielding: the sends of two handlers reach a socket in merge order.      *)
(***************************************************************************)
EXTENDS Crdt, Sequences, FiniteSets

CONSTANTS Nodes,      \* the devices, by the order of their node_id
          Elems,      \* chunk ids
          Keys,       \* entity and relation keys
          Values,     \* what a key is set to
          Stamps,     \* readings of time.time(), on any device
          FineClock,  \* a device never stamps two writes of a key alike
          MaxEdits,   \* bound: edits, all devices together
          MaxFaults,  \* bound: lost connections, relay restarts, failing callbacks
          Cap         \* bound: frames on the way on one socket, per direction

ASSUME NodesAssumption == Nodes \subseteq Nat \ {0}
ASSUME StampsAssumption == Stamps \subseteq Nat \ {0}
ASSUME ClockAssumption == FineClock \in BOOLEAN
ASSUME SyncBoundsAssumption == MaxEdits \in Nat /\ MaxFaults \in Nat /\ Cap \in Nat \ {0}

VARIABLES
  docs,     \* docs[n]: RelayClient.doc of device n
  relay,    \* RelayServer._doc
  link,     \* link[n]: "off", "opening" until the server's handler starts, "on"
  listens,  \* listens[n]: _recv_loop of n is "running" or "ended"
  up,       \* up[n]: documents n sent that the relay has not read
  down,     \* down[n]: documents sent to n that n has not read
  event,    \* event[n]: _first_state is "set" or "clear"
  syncing,  \* syncing[n]: "yes" while n waits in sync()
  edits,    \* edits made: the next uid
  faults,   \* faults so far
  \* History variables.
  unsent,   \* unsent[n]: "yes" when n edited or connected since its last push
  added,    \* every add: pairs <<element, uid>>
  removed,  \* the uids of every remove
  written   \* written[k]: every entry k was set to

clientVars == <<docs, link, listens, event, syncing>>
wireVars == <<relay, up, down>>
historyVars == <<edits, added, removed, written>>
vars == <<clientVars, wireVars, historyVars, faults, unsent>>

Entries == [value : Values, ts : Stamps, node : Nodes]
Documents == [adds    : SUBSET (Elems \X (1 .. MaxEdits)),
              removes : SUBSET (1 .. MaxEdits),
              regs    : [Keys -> Entries \union {Unset}]]

NoDoc == EmptyDoc(Keys)

Init ==
  /\ docs = [n \in Nodes |-> NoDoc]
  /\ relay = NoDoc
  /\ link = [n \in Nodes |-> "off"]
  /\ listens = [n \in Nodes |-> "ended"]
  /\ up = [n \in Nodes |-> <<>>]
  /\ down = [n \in Nodes |-> <<>>]
  /\ event = [n \in Nodes |-> "clear"]
  /\ syncing = [n \in Nodes |-> "no"]
  /\ edits = 0
  /\ faults = 0
  /\ unsent = [n \in Nodes |-> "no"]
  /\ added = {}
  /\ removed = {}
  /\ written = [k \in Keys |-> {}]

(***************************************************************************)
(* Edits of the local document, connected or not.                          *)
(***************************************************************************)
Edited(n, doc) ==
  /\ edits < MaxEdits
  /\ edits' = edits + 1
  /\ docs' = [docs EXCEPT ![n] = doc]
  /\ unsent' = [unsent EXCEPT ![n] = "yes"]
  /\ UNCHANGED <<link, listens, event, syncing, wireVars, faults>>

Add(n, e) ==
  /\ Edited(n, OrAdd(docs[n], e, edits + 1))
  /\ added' = added \union {<<e, edits + 1>>}
  /\ UNCHANGED <<removed, written>>

Remove(n, e) ==
  /\ Uids(docs[n], e) # {}
  /\ Edited(n, OrRemove(docs[n], e))
  /\ removed' = removed \union Uids(docs[n], e)
  /\ UNCHANGED <<added, written>>

Set(n, k, v, ts) ==
  LET entry == [value |-> v, ts |-> ts, node |-> n] IN
  /\ FineClock => \A w \in written[k] : w.node = n => w.ts # ts
  /\ Edited(n, [docs[n] EXCEPT !.regs = LwwSet(docs[n].regs, k, entry)])
  /\ written' = [written EXCEPT ![k] = @ \union {entry}]
  /\ UNCHANGED <<added, removed>>

(***************************************************************************)
(* RelayServer.                                                            *)
(***************************************************************************)
Clients == {n \in Nodes : link[n] = "on"}

\* A client whose receive loop has ended leaves what it is sent unread.
Listening == {n \in Clients : listens[n] = "running"}

(* (mutant) the new client gets nothing until the next broadcast. *)
AcceptUnseeded(n) ==
  /\ link[n] = "opening"
  /\ link' = [link EXCEPT ![n] = "on"]
  /\ UNCHANGED <<docs, listens, event, syncing, wireVars, historyVars, faults, unsent>>

\* _handler starts: the client joins and is sent the merged document.
Accept(n) ==
  /\ link[n] = "opening"
  /\ link' = [link EXCEPT ![n] = "on"]
  /\ down' = [down EXCEPT ![n] = Append(@, relay)]
  /\ UNCHANGED <<docs, listens, event, syncing, relay, up, historyVars, faults, unsent>>

(* (mutant) the snapshot goes only to the sender. *)
HandleReplies(n) ==
  /\ n \in Clients /\ up[n] # <<>>
  /\ \A c \in Listening : Len(down[c]) < Cap
  /\ relay' = Merge(relay, Head(up[n]))
  /\ up' = [up EXCEPT ![n] = Tail(@)]
  /\ down' = [c \in Nodes |-> IF c \in Listening \cap {n} THEN Append(down[c], relay') ELSE down[c]]
  /\ UNCHANGED <<clientVars, historyVars, faults, unsent>>

\* _handler reads a frame: merge, snapshot, broadcast to every client.
Handle(n) ==
  /\ n \in Clients /\ up[n] # <<>>
  /\ \A c \in Listening : Len(down[c]) < Cap
  /\ relay' = Merge(relay, Head(up[n]))
  /\ up' = [up EXCEPT ![n] = Tail(@)]
  /\ down' = [c \in Nodes |-> IF c \in Listening THEN Append(down[c], relay') ELSE down[c]]
  /\ UNCHANGED <<clientVars, historyVars, faults, unsent>>

(***************************************************************************)
(* RelayClient.                                                            *)
(***************************************************************************)
Connect(n) ==
  /\ link[n] = "off"
  /\ link' = [link EXCEPT ![n] = "opening"]
  /\ listens' = [listens EXCEPT ![n] = "running"]
  /\ unsent' = [unsent EXCEPT ![n] = "yes"]
  /\ UNCHANGED <<docs, event, syncing, wireVars, historyVars, faults>>

Send(n) ==
  /\ link[n] # "off" /\ Len(up[n]) < Cap
  /\ up' = [up EXCEPT ![n] = Append(@, docs[n])]
  /\ unsent' = [unsent EXCEPT ![n] = "no"]

Push(n) ==
  /\ Send(n)
  /\ UNCHANGED <<clientVars, relay, down, historyVars, faults>>

\* sync(): clear the event, push, wait.
Sync(n) ==
  /\ syncing[n] = "no"
  /\ event' = [event EXCEPT ![n] = "clear"]
  /\ syncing' = [syncing EXCEPT ![n] = "yes"]
  /\ Send(n)
  /\ UNCHANGED <<docs, link, listens, relay, down, historyVars, faults>>

\* wait_for_state ends, by the event (any frame sets it) or by the timeout.
SyncEnds(n) ==
  /\ syncing[n] = "yes"
  /\ syncing' = [syncing EXCEPT ![n] = "no"]
  /\ UNCHANGED <<docs, link, listens, event, wireVars, historyVars, faults, unsent>>

(* (mutant) the received document replaces the local one. *)
InboundReplaces(n) ==
  /\ listens[n] = "running" /\ down[n] # <<>>
  /\ docs' = [docs EXCEPT ![n] = Head(down[n])]
  /\ event' = [event EXCEPT ![n] = "set"]

Inbound(n) ==
  /\ listens[n] = "running" /\ down[n] # <<>>
  /\ docs' = [docs EXCEPT ![n] = Merge(@, Head(down[n]))]
  /\ event' = [event EXCEPT ![n] = "set"]

Receive(n) ==
  /\ Inbound(n)
  /\ down' = [down EXCEPT ![n] = Tail(@)]
  /\ UNCHANGED <<link, listens, syncing, relay, up, historyVars, faults, unsent>>

(***************************************************************************)
(* Faults.                                                                 *)
(***************************************************************************)
Fault == faults < MaxFaults /\ faults' = faults + 1

\* on_update raises: the loop ends, the connection stays open.
CallbackFails(n) ==
  /\ Fault
  /\ Inbound(n)
  /\ listens' = [listens EXCEPT ![n] = "ended"]
  /\ down' = [down EXCEPT ![n] = <<>>]
  /\ UNCHANGED <<link, syncing, relay, up, historyVars, unsent>>

\* close(), or the network: what is on the way is lost.
Disconnect(n) ==
  /\ Fault
  /\ link[n] # "off"
  /\ link' = [link EXCEPT ![n] = "off"]
  /\ listens' = [listens EXCEPT ![n] = "ended"]
  /\ up' = [up EXCEPT ![n] = <<>>]
  /\ down' = [down EXCEPT ![n] = <<>>]
  /\ UNCHANGED <<docs, event, syncing, relay, historyVars, unsent>>

\* The relay process dies and a new one starts with an empty document.
RelayRestart ==
  /\ Fault
  /\ relay' = NoDoc
  /\ link' = [n \in Nodes |-> "off"]
  /\ listens' = [n \in Nodes |-> "ended"]
  /\ up' = [n \in Nodes |-> <<>>]
  /\ down' = [n \in Nodes |-> <<>>]
  /\ UNCHANGED <<docs, event, syncing, historyVars, unsent>>

Edit(n) == \/ \E e \in Elems : Add(n, e) \/ Remove(n, e)
           \/ \E k \in Keys, v \in Values, ts \in Stamps : Set(n, k, v, ts)

Next ==
  \/ \E n \in Nodes : \/ Edit(n)
                      \/ Accept(n) \/ Handle(n)
                      \/ Connect(n) \/ Push(n) \/ Sync(n) \/ SyncEnds(n) \/ Receive(n)
                      \/ CallbackFails(n) \/ Disconnect(n)
  \/ RelayRestart

(***************************************************************************)
(* The event loops run their ready tasks; an application pushes what it    *)
(* changed, and pushes again after it connected.  Nobody has to edit, to   *)
(* connect or to fail.  Strong fairness where the bound Cap can disable    *)
(* the step: a full socket delays a send of the code, and other devices'   *)
(* traffic cannot keep the handler from running.                           *)
(***************************************************************************)
Fairness == \A n \in Nodes : /\ WF_vars(Accept(n))
                             /\ SF_vars(Handle(n))
                             /\ WF_vars(Receive(n))
                             /\ SF_vars(Push(n) /\ unsent[n] = "yes")

Spec == Init /\ [][Next]_vars /\ Fairness

-----------------------------------------------------------------------------
TypeOK ==
  /\ docs \in [Nodes -> Documents]
  /\ relay \in Documents
  /\ link \in [Nodes -> {"off", "opening", "on"}]
  /\ listens \in [Nodes -> {"running", "ended"}]
  /\ up \in [Nodes -> Seq(Documents)]
  /\ down \in [Nodes -> Seq(Documents)]
  /\ event \in [Nodes -> {"set", "clear"}]
  /\ syncing \in [Nodes -> {"yes", "no"}]
  /\ edits \in 0 .. MaxEdits
  /\ faults \in 0 .. MaxFaults
  /\ unsent \in [Nodes -> {"yes", "no"}]
  /\ added \subseteq Elems \X (1 .. MaxEdits)
  /\ removed \subseteq 1 .. MaxEdits
  /\ written \in [Keys -> SUBSET Entries]

(***************************************************************************)
(* relay.py:20 "kill it and the nodes still hold everything": every edit   *)
(* ever made is in some device's document, a write unless a later one of   *)
(* the same key is, whatever was lost on the way.                          *)
(***************************************************************************)
NodesHoldEverything ==
  /\ \A p \in added : \E n \in Nodes : p \in docs[n].adds
  /\ \A u \in removed : \E n \in Nodes : u \in docs[n].removes
  /\ \A k \in Keys : \A w \in written[k] : \E n \in Nodes : StampLeq(w, docs[n].regs[k])

(***************************************************************************)
(* crdt.py:9 "concurrent adds always win over removes": a document hides   *)
(* an element only when a device that had seen each of its adds removed    *)
(* it, so a tombstone never travels without the add it hides.              *)
(***************************************************************************)
TombstonesFollowAdds ==
  \A d \in {relay} \union {docs[n] : n \in Nodes} :
    d.removes \subseteq {p[2] : p \in d.adds} \cap removed

(***************************************************************************)
(* relay.py:19 "late-joiners get full history": what the relay knows is    *)
(* with every listening client already, or is the last frame on its way,   *)
(* whatever connects, pushes and drops in between.                         *)
(***************************************************************************)
BroadcastsReach ==
  \A n \in Listening : IF down[n] = <<>> THEN DocLeq(relay, docs[n])
                                       ELSE down[n][Len(down[n])] = relay

\* crdt.py:12 "merge() is commutative": of the documents that meet.
MergeIsCommutative ==
  \A a, b \in {relay} \union {docs[n] : n \in Nodes} : Merge(a, b) = Merge(b, a)

(***************************************************************************)
(* Nothing goes missing, whatever connections and the relay do: the nodes  *)
(* hold every edit, what the relay has is heard, and the order in which    *)
(* documents meet makes no difference.                                     *)
(***************************************************************************)
NothingGoesMissing == NodesHoldEverything /\ BroadcastsReach /\ MergeIsCommutative

(***************************************************************************)
(* relay.py:17 "Convergence is monotone: state only grows toward the join  *)
(* of all docs": no step takes anything back from a device, nor from the   *)
(* relay unless it restarts.                                               *)
(***************************************************************************)
Monotone ==
  [][ /\ \A n \in Nodes : DocLeq(docs[n], docs'[n])
      /\ relay' # NoDoc => DocLeq(relay, relay') ]_vars

\* Devices that stay connected and keep listening end with the same document.
Agreed == \A n \in Nodes : docs[n] = relay

AllConnected == \A n \in Nodes : link[n] = "on"
AllListening == \A n \in Nodes : listens[n] = "running"

(***************************************************************************)
(* crdt.py:4 "concurrent edits from N devices converge deterministically": *)
(* when every device stays connected and listening, all documents become   *)
(* equal and stay so, after any earlier losses, restarts and offline edits.*)
(***************************************************************************)
Converges == <>[](AllConnected /\ AllListening) => <>[]Agreed
=============================================================================

----------------------------- MODULE Identities -----------------------------
(* gateway/identity.py: channel handles are linked to identities, and an      *)
(* identity has one shared session. Several processes work on the database    *)
(* (a gateway, a sidecar, a setup script); a method is atomic only up to its  *)
(* next transaction, which is a step here.                                    *)
EXTENDS Integers

CONSTANTS
  Platforms, Users,     \* a handle is a platform and the user's id on it
  IdentityIds,          \* uuids that create_identity may draw
  SessionIds,           \* ids that Session.create may draw
  Clients,              \* processes with an IdentityStore
  Ttl,                  \* ttl_s
  MaxClock,             \* bound of the clock
  MaxOps,               \* bound of the calls
  NoId

ASSUME IdentityAssumption ==
  /\ NoId \notin IdentityIds \cup SessionIds
  /\ IdentityIds \cap SessionIds = {}
  /\ \A h \in Platforms \X Users : h \notin IdentityIds \cup SessionIds
  /\ MaxClock \in Nat /\ MaxOps \in Nat

Handles == Platforms \X Users

VARIABLES
  identities,   \* rows of the table identities
  links,        \* channel_links: the identity of a handle
  rows,         \* identity_sessions: session and last_seen of an identity
  sessions,     \* sessions that Session.load finds
  calls,        \* the call each client is in, and where
  clock,
  begun,        \* number of calls so far
  drawn,        \* uuids drawn so far: none is drawn twice
  served,       \* history: the sessions each handle was given
  person,       \* history: who is one person, by what was declared
  excused       \* history: calls overlapped, a handle moved, or one died

dbVars == <<identities, links, rows, sessions>>
identityVars == <<identities, links, rows, sessions, calls, clock, begun,
                  drawn, served, person, excused>>

NoCall == [pc |-> "idle"]
Subjects == Handles \cup IdentityIds \cup SessionIds
SessionRow == [session : SessionIds, seen : 0..MaxClock]

(* To declare that x and y are one person joins their classes.                *)
Join(f, x, y) == [z \in Subjects |-> IF f[z] = f[y] THEN f[x] ELSE f[z]]

(* A uuid that was not drawn before; which one makes no difference.           *)
FreshOf(S) ==
  LET left == S \ drawn
  IN IF left = {} THEN {} ELSE {CHOOSE x \in left : TRUE}

Calling == {c \in Clients : calls[c] # NoCall}
Goes(c, op) == calls' = [calls EXCEPT ![c] = op]
Returns(c) == Goes(c, NoCall)

(* Only one column of the primary key is compared (mutant).                   *)
IdentityForUser(h) ==
  LET found == {g \in Handles : g[2] = h[2] /\ links[g] # NoId} IN
  IF found = {} THEN NoId ELSE links[CHOOSE g \in found : TRUE]

IdentityFor(h) == links[h]

(* A row is reused up to ttl_s after its last use.                            *)
Reusable(i, now) == rows[i] # NoId /\ now - rows[i].seen <= Ttl

-----------------------------------------------------------------------------

(* A call starts with its first transaction.                                  *)
Calls(c) ==
  /\ calls[c] = NoCall
  /\ begun < MaxOps
  /\ begun' = begun + 1

(* get_or_create_session: identity_for, then create_identity or _touch_link,  *)
(* or an ephemeral session when identities are not created.                   *)
Lookup(c, h, auto) ==
  LET i == IdentityFor(h) IN
  /\ Calls(c)
  /\ excused' = (excused \/ Calling # {})
  /\ \/ /\ i # NoId
        /\ Goes(c, [pc |-> "row", handle |-> h, id |-> i, now |-> clock])
        /\ UNCHANGED <<sessions, drawn, served, person>>
     \/ /\ i = NoId /\ auto
        /\ Goes(c, [pc |-> "mint", handle |-> h, now |-> clock])
        /\ UNCHANGED <<sessions, drawn, served, person>>
     \/ /\ i = NoId /\ ~auto
        /\ \E s \in FreshOf(SessionIds) :
             /\ sessions' = sessions \cup {s}
             /\ drawn' = drawn \cup {s}
             /\ served' = served \cup {<<h, s>>}
             /\ person' = Join(person, h, s)
        /\ UNCHANGED calls
  /\ UNCHANGED <<identities, links, rows, clock>>

Mint(c) ==
  /\ calls[c].pc = "mint"
  /\ \E i \in FreshOf(IdentityIds) :
       /\ identities' = identities \cup {i}
       /\ drawn' = drawn \cup {i}
       /\ person' = Join(person, calls[c].handle, i)
       /\ Goes(c, [pc |-> "check", handle |-> calls[c].handle, id |-> i,
                   now |-> calls[c].now])
  /\ UNCHANGED <<links, rows, sessions, clock, begun, served, excused>>

(* link() called by get_or_create_session; it raises for an identity that is  *)
(* gone.                                                                      *)
CheckMinted(c) ==
  /\ calls[c].pc = "check"
  /\ IF calls[c].id \in identities
     THEN Goes(c, [calls[c] EXCEPT !.pc = "bind"])
     ELSE Returns(c)
  /\ UNCHANGED <<dbVars, clock, begun, drawn, served, person, excused>>

(* The upsert of link(): it also takes over a handle that is linked.          *)
Bind(c) ==
  /\ calls[c].pc \in {"bind", "attach"}
  /\ links' = [links EXCEPT ![calls[c].handle] = calls[c].id]
  /\ IF calls[c].pc = "bind" THEN Goes(c, [calls[c] EXCEPT !.pc = "row"])
                             ELSE Returns(c)
  /\ UNCHANGED <<identities, rows, sessions, clock, begun, drawn, served,
                 person, excused>>

(* _session_row, then Session.load or Session.create.                         *)
ReadRow(c) ==
  LET i == calls[c].id
      reuse == Reusable(i, calls[c].now) /\ rows[i].session \in sessions
      found(s) == [pc |-> "store", handle |-> calls[c].handle, id |-> i,
                   session |-> s, now |-> calls[c].now] IN
  /\ calls[c].pc = "row"
  /\ \/ /\ reuse
        /\ Goes(c, found(rows[i].session))
        /\ UNCHANGED <<sessions, drawn, person>>
     \/ /\ ~reuse
        /\ \E s \in FreshOf(SessionIds) :
             /\ sessions' = sessions \cup {s}
             /\ drawn' = drawn \cup {s}
             /\ person' = Join(person, i, s)
             /\ Goes(c, found(s))
  /\ UNCHANGED <<identities, links, rows, clock, begun, served, excused>>

(* _upsert_session, and the session goes to the turn.                         *)
StoreRow(c) ==
  /\ calls[c].pc = "store"
  /\ rows' = [rows EXCEPT ![calls[c].id] =
                [session |-> calls[c].session, seen |-> calls[c].now]]
  /\ served' = served \cup {<<calls[c].handle, calls[c].session>>}
  /\ Returns(c)
  /\ UNCHANGED <<identities, links, sessions, clock, begun, drawn, person,
                 excused>>

(* link() called from outside: somebody says whose handle this is. Moving a   *)
(* handle that another identity has excuses what follows.                     *)
Link(c, i, h) ==
  /\ Calls(c)
  /\ IF i \in identities
     THEN /\ Goes(c, [pc |-> "attach", handle |-> h, id |-> i])
          /\ person' = Join(person, i, h)
          /\ excused' = (excused \/ Calling # {} \/ links[h] \notin {NoId, i})
     ELSE /\ excused' = (excused \/ Calling # {})
          /\ UNCHANGED <<calls, person>>
  /\ UNCHANGED <<dbVars, clock, drawn, served>>

Unlink(c, h) ==
  /\ Calls(c)
  /\ links' = [links EXCEPT ![h] = NoId]
  /\ excused' = (excused \/ Calling # {} \/ links[h] # NoId)
  /\ UNCHANGED <<identities, rows, sessions, calls, clock, drawn, served, person>>

(* merge(): both have to exist, and are one person from now on.               *)
Merge(c, a, b) ==
  /\ Calls(c)
  /\ excused' = (excused \/ Calling # {})
  /\ IF a # b /\ {a, b} \subseteq identities
     THEN /\ Goes(c, [pc |-> "fold", id |-> a, from |-> b])
          /\ person' = Join(person, a, b)
     ELSE UNCHANGED <<calls, person>>
  /\ UNCHANGED <<dbVars, clock, drawn, served>>

(* merge() without the update of channel_links (mutant).                      *)
FoldedWithoutLinks(a, b) == links

FoldedLinks(a, b) == [h \in Handles |-> IF links[h] = b THEN a ELSE links[h]]

(* The fresher of the two sessions is kept, the primary's in a tie.           *)
FoldedRows(a, b) ==
  LET wins == /\ rows[b] # NoId
              /\ (rows[a] # NoId => rows[b].seen > rows[a].seen) IN
  [rows EXCEPT ![a] = IF wins THEN rows[b] ELSE @, ![b] = NoId]

Fold(c) ==
  LET a == calls[c].id
      b == calls[c].from IN
  /\ calls[c].pc = "fold"
  /\ links' = FoldedLinks(a, b)
  /\ rows' = FoldedRows(a, b)
  /\ identities' = identities \ {b}
  /\ Returns(c)
  /\ UNCHANGED <<sessions, clock, begun, drawn, served, person, excused>>

(* The process dies between two transactions.                                 *)
ClientDies(c) ==
  /\ calls[c] # NoCall
  /\ Returns(c)
  /\ excused' = TRUE
  /\ UNCHANGED <<dbVars, clock, begun, drawn, served, person>>

(* The database of the sessions is removed: Session.load finds none of them.  *)
LoseSessions ==
  /\ sessions # {}
  /\ sessions' = {}
  /\ UNCHANGED <<identities, links, rows, calls, clock, begun, drawn, served,
                 person, excused>>

ClockTicks ==
  /\ clock < MaxClock
  /\ clock' = clock + 1
  /\ UNCHANGED <<dbVars, calls, begun, drawn, served, person, excused>>

IdentityInit ==
  /\ identities = {}
  /\ links = [h \in Handles |-> NoId]
  /\ rows = [i \in IdentityIds |-> NoId]
  /\ sessions = {}
  /\ calls = [c \in Clients |-> NoCall]
  /\ clock = 0 /\ begun = 0
  /\ drawn = {}
  /\ served = {}
  /\ person = [x \in Subjects |-> x]
  /\ excused = FALSE

ClientStep(c) ==
  \/ Mint(c) \/ CheckMinted(c) \/ Bind(c) \/ ReadRow(c) \/ StoreRow(c) \/ Fold(c)

IdentityNext ==
  \/ \E c \in Clients :
       \/ ClientStep(c) \/ ClientDies(c)
       \/ \E h \in Handles :
            \/ \E auto \in BOOLEAN : Lookup(c, h, auto)
            \/ \E i \in IdentityIds : Link(c, i, h)
            \/ Unlink(c, h)
       \/ \E a, b \in IdentityIds : Merge(c, a, b)
  \/ LoseSessions \/ ClockTicks

IdentitySpec == IdentityInit /\ [][IdentityNext]_identityVars

-----------------------------------------------------------------------------

IdentityTypes ==
  /\ identities \in SUBSET IdentityIds
  /\ links \in [Handles -> IdentityIds \cup {NoId}]
  /\ rows \in [IdentityIds -> SessionRow \cup {NoId}]
  /\ sessions \in SUBSET SessionIds
  /\ clock \in 0..MaxClock
  /\ begun \in 0..MaxOps
  /\ drawn \in SUBSET (IdentityIds \cup SessionIds)
  /\ served \in SUBSET (Handles \X SessionIds)
  /\ person \in [Subjects -> Subjects]
  /\ excused \in BOOLEAN

(* Two handles that were given one session are one person: somebody linked    *)
(* them or merged their identities. It holds across any interleaving of       *)
(* lookups, links, merges, expiries and deaths ("never merge two people",     *)
(* identity.py:285).                                                          *)
StrangersStayApart ==
  \A p, q \in served : p[2] = q[2] => person[p[1]] = person[q[1]]

(* Conversely, what was declared one person has one identity, hence one       *)
(* session, and no link points to an identity that is gone: as long as no two *)
(* calls overlapped, no process died within one, and no handle was moved.     *)
OnePersonOneIdentity ==
  ~excused /\ Calling = {} =>
    /\ \A h \in Handles : links[h] # NoId => links[h] \in identities
    /\ \A i, j \in identities : person[i] = person[j] => i = j
    /\ \A g, h \in Handles :
         links[g] # NoId /\ links[h] # NoId /\ person[g] = person[h]
           => links[g] = links[h]

(* Identities are persons: no two in one, and no one in two.                  *)
IdentitiesAreExact == StrangersStayApart /\ OnePersonOneIdentity
=============================================================================

----------------------------- MODULE VaultStore -----------------------------
(* safety/vault.py, safety/approval.py and os_hooks/consent.py: one encrypted *)
(* file, changed by loading all of it, changing it and replacing the file. No *)
(* lock is held; within a process a change runs in one piece, since the code  *)
(* is synchronous, and the gate awaits only the prompt. A key stands for what *)
(* it encrypts: another key does not open the file.                           *)
EXTENDS Naturals

CONSTANTS
  Agents,       \* turns at the gate, and commands of the settings
  Processes,
  ProcOf,       \* the process of an agent
  Shapes,       \* fingerprints of a tool and its arguments
  Secrets,      \* names of secrets
  Features,     \* what consent may be granted to
  Keys,
  Cooldown,     \* deny_cooldown_s
  AllowTtl,     \* allow_ttl_s
  MaxHour,      \* bound of the clock
  MaxTasks,     \* bound of the calls
  NoKey, NoFile

ASSUME VaultAssumption ==
  /\ ProcOf \in [Agents -> Processes]
  /\ Cooldown \in Nat /\ AllowTtl \in Nat /\ MaxHour \in Nat /\ MaxTasks \in Nat
  /\ NoKey \notin Keys

VARIABLES
  file,         \* the vault on the disk: NoFile, or a key and what it encrypts
  ring,         \* the key in the keychain of the system
  held,         \* the key each process works with; NoKey until it has opened
  minting,      \* processes that found no key in the keychain and make one
  tasks,        \* the call each agent is in, and where
  hour,
  asked,        \* number of calls so far
  promised,     \* history: the acknowledged changes, one after the other
  answer,       \* history: the last stored answer to each shape
  overlapped,   \* history: two changes, or two first openings, overlapped
  rotated,      \* history: a key was rotated
  wrong         \* history: the gate did not follow the last answer

vaultVars == <<file, ring, held, minting, tasks, hour, asked, promised, answer,
               overlapped, rotated, wrong>>
historyVars == <<promised, answer, overlapped, rotated, wrong>>

NoTask == [pc |-> "none"]
Forever == MaxHour + 1            \* expires_at None: later than any clock value
Until == 0..MaxHour + Cooldown + AllowTtl + 1
NoAnswer == [yes |-> FALSE, until |-> 0]
Contents == [approvals : [Shapes -> [yes : BOOLEAN, until : Until]],
             secrets : SUBSET Secrets,
             consent : [Features -> Until]]
ASSUME NoFileAssumption == NoFile \notin [key : Keys, data : Contents]

Nothing == [approvals |-> [x \in Shapes |-> NoAnswer], secrets |-> {},
            consent |-> [f \in Features |-> 0]]

(* A record is followed while now < expires_at; an absent one never is.       *)
Active(rec) == hour < rec.until

(* The expiry of every answer is the one of an allow (mutant).                *)
ExpiresLikeAllow(yes) == IF AllowTtl = 0 THEN Forever ELSE hour + AllowTtl

(* remember_approval: a deny ends with its cooldown, an allow with its ttl if *)
(* there is one.                                                              *)
Expires(yes) ==
  IF ~yes THEN hour + Cooldown
  ELSE IF AllowTtl = 0 THEN Forever ELSE hour + AllowTtl

(* What a change does to the loaded contents.                                 *)
Changed(ch, d) ==
  CASE ch.op = "remember" ->
         [d EXCEPT !.approvals[ch.arg] = [yes |-> ch.yes, until |-> ch.until]]
    [] ch.op = "forget" -> [d EXCEPT !.approvals[ch.arg] = NoAnswer]
    [] ch.op = "clear"  -> [d EXCEPT !.approvals = [x \in Shapes |-> NoAnswer]]
    [] ch.op = "put"    -> [d EXCEPT !.secrets = @ \cup {ch.arg}]
    [] ch.op = "delete" -> [d EXCEPT !.secrets = @ \ {ch.arg}]
    [] ch.op = "consent" -> [d EXCEPT !.consent = ch.map]
    [] ch.op = "rotate" -> d

(* The answers that a change leaves behind, for the history.                  *)
AnswersAfter(ch) ==
  CASE ch.op = "remember" ->
         [answer EXCEPT ![ch.arg] =
            [yes |-> ch.yes,
             until |-> IF ch.yes THEN ch.until ELSE ch.at + Cooldown]]
    [] ch.op = "forget" -> [answer EXCEPT ![ch.arg] = NoAnswer]
    [] ch.op = "clear"  -> [x \in Shapes |-> NoAnswer]
    [] OTHER -> answer

-----------------------------------------------------------------------------

Changing == {b \in Agents : tasks[b].pc \in {"save", "map"}}

(* An await between load and save would let another turn in (mutant).         *)
NeverHeld(a) == FALSE

(* Another agent of the process is between its load and its save.             *)
Held(a) == \E b \in Changing \ {a} : ProcOf[b] = ProcOf[a]
Elsewhere(a) == \E b \in Changing : ProcOf[b] # ProcOf[a]

Load(p) == IF file = NoFile THEN Nothing ELSE file.data

(* _load raises VaultError for a file under another key.                      *)
Readable(p) == file # NoFile => file.key = held[p]

Set(a, t) == tasks' = [tasks EXCEPT ![a] = t]

Call(a) ==
  /\ tasks[a] = NoTask /\ held[ProcOf[a]] # NoKey /\ ~Held(a)
  /\ asked < MaxTasks
  /\ asked' = asked + 1

(* keychain_key_provider: read the key, or make one and store it.             *)
FetchKey(p) ==
  /\ held[p] = NoKey /\ p \notin minting
  /\ IF ring # NoKey
     THEN /\ held' = [held EXCEPT ![p] = ring]
          /\ UNCHANGED <<minting, overlapped>>
     ELSE /\ minting' = minting \cup {p}
          /\ overlapped' = (overlapped \/ minting # {})
          /\ UNCHANGED held
  /\ UNCHANGED <<file, ring, tasks, hour, asked, promised, answer, rotated, wrong>>

StoreKey(p) ==
  /\ p \in minting
  /\ \E k \in Keys \ ({ring} \cup {held[q] : q \in Processes}) :
       /\ ring' = k
       /\ held' = [held EXCEPT ![p] = k]
  /\ minting' = minting \ {p}
  /\ UNCHANGED <<file, tasks, hour, asked, historyVars>>

(* VaultApprovalGate.request: an active answer is followed, otherwise the     *)
(* inner gate asks the user.                                                  *)
Request(a, x) ==
  LET rec == Load(ProcOf[a]).approvals[x] IN
  /\ Call(a) /\ Readable(ProcOf[a])
  /\ IF Active(rec) THEN UNCHANGED tasks ELSE Set(a, [pc |-> "prompt", shape |-> x])
  /\ wrong' = (wrong \/ Active(rec) # Active(answer[x])
                     \/ (Active(rec) /\ rec.yes # answer[x].yes))
  /\ UNCHANGED <<file, ring, held, minting, hour, promised, answer, overlapped,
                 rotated>>

(* A change loads the file, or raises VaultError; nothing is stored when      *)
(* there is nothing to delete.                                                *)
Begin(a, ch) ==
  LET d == Load(ProcOf[a])
      same == ch.op \in {"forget", "delete"} /\ Changed(ch, d) = d IN
  /\ IF Readable(ProcOf[a]) /\ ~same
     THEN Set(a, [pc |-> "save", change |-> ch, data |-> Changed(ch, d)])
     ELSE Set(a, NoTask)
  /\ overlapped' = (overlapped \/ Elsewhere(a))
  /\ UNCHANGED <<file, ring, minting, hour, promised, answer, wrong>>

(* The user answers, and the answer is remembered.                            *)
Answer(a, yes) ==
  /\ tasks[a].pc = "prompt" /\ ~Held(a)
  /\ Begin(a, [op |-> "remember", arg |-> tasks[a].shape, yes |-> yes,
               at |-> hour, until |-> Expires(yes)])
  /\ UNCHANGED <<held, asked, rotated>>

(* The turn is interrupted at the prompt: nothing is remembered.              *)
Abort(a) ==
  /\ tasks[a].pc = "prompt"
  /\ Set(a, NoTask)
  /\ UNCHANGED <<file, ring, held, minting, hour, asked, historyVars>>

Forget(a, x) ==
  Call(a) /\ Begin(a, [op |-> "forget", arg |-> x]) /\ UNCHANGED <<held, rotated>>

Clear(a) == Call(a) /\ Begin(a, [op |-> "clear"]) /\ UNCHANGED <<held, rotated>>

PutSecret(a, n) ==
  Call(a) /\ Begin(a, [op |-> "put", arg |-> n]) /\ UNCHANGED <<held, rotated>>

DeleteSecret(a, n) ==
  Call(a) /\ Begin(a, [op |-> "delete", arg |-> n]) /\ UNCHANGED <<held, rotated>>

(* grant and revoke read the map of consents first; put_secret loads the file *)
(* once more. Revoking what is not granted stores nothing.                    *)
Consent(a, f, until) ==
  LET map == Load(ProcOf[a]).consent IN
  /\ Call(a) /\ Readable(ProcOf[a])
  /\ until > 0 \/ map[f] > 0
  /\ Set(a, [pc |-> "map", map |-> [map EXCEPT ![f] = until]])
  /\ overlapped' = (overlapped \/ Elsewhere(a))
  /\ UNCHANGED <<file, ring, held, minting, hour, promised, answer, rotated, wrong>>

PutConsent(a) ==
  /\ tasks[a].pc = "map"
  /\ Begin(a, [op |-> "consent", map |-> tasks[a].map])
  /\ UNCHANGED <<held, asked, rotated>>

(* rotate_key: loaded with the old key, and the new one from now on. The      *)
(* keychain is not told.                                                      *)
Rotate(a, k) ==
  /\ Call(a) /\ Readable(ProcOf[a])
  /\ Begin(a, [op |-> "rotate"])
  /\ held' = [held EXCEPT ![ProcOf[a]] = k]
  /\ rotated' = TRUE

(* _save: the file is replaced in one piece.                                  *)
Save(a) ==
  LET ch == tasks[a].change IN
  /\ tasks[a].pc = "save"
  /\ file' = [key |-> held[ProcOf[a]], data |-> tasks[a].data]
  /\ promised' = Changed(ch, promised)
  /\ answer' = AnswersAfter(ch)
  /\ Set(a, NoTask)
  /\ UNCHANGED <<ring, held, minting, hour, asked, overlapped, rotated, wrong>>

(* A process ends anywhere, and may be opened again.                          *)
ProcessEnds(p) ==
  /\ held[p] # NoKey \/ p \in minting
  /\ held' = [held EXCEPT ![p] = NoKey]
  /\ minting' = minting \ {p}
  /\ tasks' = [a \in Agents |-> IF ProcOf[a] = p THEN NoTask ELSE tasks[a]]
  /\ UNCHANGED <<file, ring, hour, asked, historyVars>>

HourPasses ==
  /\ hour < MaxHour
  /\ hour' = hour + 1
  /\ UNCHANGED <<file, ring, held, minting, tasks, asked, historyVars>>

VaultInit ==
  /\ file = NoFile /\ ring = NoKey
  /\ held = [p \in Processes |-> NoKey]
  /\ minting = {}
  /\ tasks = [a \in Agents |-> NoTask]
  /\ hour = 0 /\ asked = 0
  /\ promised = Nothing
  /\ answer = [x \in Shapes |-> NoAnswer]
  /\ overlapped = FALSE /\ rotated = FALSE /\ wrong = FALSE

VaultNext ==
  \/ \E p \in Processes : FetchKey(p) \/ StoreKey(p) \/ ProcessEnds(p)
  \/ \E a \in Agents :
       \/ \E x \in Shapes : Request(a, x) \/ Forget(a, x)
       \/ \E yes \in BOOLEAN : Answer(a, yes)
       \/ \E n \in Secrets : PutSecret(a, n) \/ DeleteSecret(a, n)
       \/ \E f \in Features, until \in {0, hour + 1, Forever} : Consent(a, f, until)
       \/ \E k \in Keys : Rotate(a, k)
       \/ Clear(a) \/ Abort(a) \/ PutConsent(a) \/ Save(a)
  \/ HourPasses

VaultSpec == VaultInit /\ [][VaultNext]_vaultVars

-----------------------------------------------------------------------------

VaultTypes ==
  /\ file = NoFile \/ file \in [key : Keys, data : Contents]
  /\ ring \in Keys \cup {NoKey}
  /\ held \in [Processes -> Keys \cup {NoKey}]
  /\ minting \in SUBSET Processes
  /\ hour \in 0..MaxHour /\ asked \in 0..MaxTasks
  /\ promised \in Contents
  /\ answer \in [Shapes -> [yes : BOOLEAN, until : Until]]
  /\ overlapped \in BOOLEAN /\ rotated \in BOOLEAN /\ wrong \in BOOLEAN

(* As long as no changes of two processes and no two first openings overlap,  *)
(* the vault holds every acknowledged approval, secret, consent and           *)
(* revocation, through any deaths and rotations, and however the turns of one *)
(* process interleave; unless a key was rotated every process reads it.       *)
NothingStoredIsLost ==
  ~overlapped =>
    /\ IF file = NoFile THEN promised = Nothing ELSE file.data = promised
    /\ ~rotated => \A p \in Processes : held[p] # NoKey => Readable(p)

(* The gate follows the last answer as long as it lives: a denied shape is    *)
(* not asked again within its cooldown, an allowed one not within its ttl,    *)
(* and both are asked again afterwards. Prompts may overlap.                  *)
AnswersHold == wrong => overlapped

(* What the vault promised it keeps, and the gate keeps to it.                *)
PromisesAreKept == NothingStoredIsLost /\ AnswersHold
=============================================================================

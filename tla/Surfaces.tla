------------------------------ MODULE Surfaces ------------------------------
(* gateway/platforms: the stores that continue the conversation of a user and *)
(* the senders that bring an answer back, for one platform at a time. Which   *)
(* payloads become events, and the turns themselves, are in Gateway.          *)
EXTENDS Naturals, Sequences, FiniteSets

CONSTANTS
  Senders,      \* users of the platform
  Day, Week,    \* DEFAULT_SESSION_TTL_S of the chats and of the mails
  MaxTime,      \* bound of the clock
  MaxEvents,    \* bound of the events
  MaxLosses,    \* bound of the sessions that are removed
  Nobody        \* no row

ASSUME SurfaceAssumption == Day \in Nat /\ Week \in Nat /\ MaxTime \in Nat /\ MaxEvents \in Nat

VARIABLES
  platform,     \* the adapter
  hours,        \* its clock
  mapping,      \* the table of the store: of a user, [session, seen, surface] or Nobody
  sessions,     \* sessions that exist
  handled       \* the events in the order of their resolution, with their sent_log

surfaceVars == <<platform, hours, mapping, sessions, handled>>

-----------------------------------------------------------------------------

(* The stores differ in their ttl, in whether they keep the surface a user    *)
(* was seen on last, and in whether they can evict.                           *)
Store(ttl, keeps, evicts) == [ttl |-> ttl, keeps |-> keeps, evicts |-> evicts]
TelegramStore == Store(Day, FALSE, TRUE)
DiscordStore == Store(Day, TRUE, FALSE)
SlackStore == Store(Day, TRUE, FALSE)
WhatsAppStore == Store(Day, TRUE, FALSE)
TwilioStore == Store(Day, FALSE, FALSE)
iMessageStore == Store(Day, FALSE, FALSE)
EmailStore == Store(Week, FALSE, FALSE)

StoreOf ==
  [telegram |-> TelegramStore, discord |-> DiscordStore, slack |-> SlackStore,
   whatsapp |-> WhatsAppStore, twilio |-> TwilioStore, imessage |-> iMessageStore,
   email |-> EmailStore]

(* Where an event of a platform can come from.                                *)
DiscordSurfaces == {"slash", "dm", "thread", "channel"}
SlackSurfaces == {"slash", "button", "dm", "channel"}
WhatsAppSurfaces == {"dm", "group"}
SurfacesOf ==
  [telegram |-> {"chat"}, discord |-> DiscordSurfaces, slack |-> SlackSurfaces,
   whatsapp |-> WhatsAppSurfaces, twilio |-> {"sms"}, imessage |-> {"imessage"},
   email |-> {"mail"}]

(* A row of a store; "any" where the store does not keep the surface.         *)
MappingRows ==
  [session : Nat, seen : Nat, surface : {"any"} \cup UNION {SurfacesOf[p] : p \in DOMAIN StoreOf}]

ASSUME NobodyAssumption == Nobody \notin MappingRows

(* Its channel: a private one is the user's, any other is shared.             *)
Place(e) ==
  IF e.surface \in {"thread", "channel", "group"} THEN e.surface ELSE e.user

-----------------------------------------------------------------------------

(* Mutant of Continues: a session is continued as long as its row is there.   *)
ContinuesForever(row) == row # Nobody /\ row.session \in sessions

Current(row) == hours - row.seen <= StoreOf[platform].ttl

(* get_or_create: the row is known, not too old, and its session is there.    *)
Continues(row) == row # Nobody /\ Current(row) /\ row.session \in sessions

(* session_id_for and active_count, for a status.                             *)
SessionIdFor(u) ==
  IF mapping[u] # Nobody /\ Current(mapping[u]) THEN mapping[u].session ELSE 0
ActiveCount ==
  Cardinality({u \in Senders : mapping[u] # Nobody
                               /\ mapping[u].seen + StoreOf[platform].ttl >= hours})

(* resolver(): the router asks for the session of an event, and the event has *)
(* its turn. A handle is what the answer needs to find its message: the ids   *)
(* of an interaction, a response_url, a thread, or the message's own id.      *)
ResolveEvent(u, surface, handle) ==
  LET row == mapping[u]
      known == Continues(row)
      s == IF known THEN row.session ELSE Len(handled) + 1
  IN
  /\ Len(handled) < MaxEvents /\ surface \in SurfacesOf[platform]
  /\ mapping' = [mapping EXCEPT ![u] =
       [session |-> s, seen |-> hours,
        surface |-> IF StoreOf[platform].keeps THEN surface ELSE "any"]]
  /\ sessions' = sessions \cup {s}
  /\ handled' = Append(handled,
       [user |-> u, surface |-> surface, handle |-> handle, session |-> s, at |-> hours,
        lost |-> row # Nobody /\ row.session \notin sessions, state |-> "running", answer |-> Nobody])
  /\ UNCHANGED <<platform, hours>>

-----------------------------------------------------------------------------

(* reply_hook of each sender: the endpoint, the channel, and the message that *)
(* is answered, 0 for none. None of them looks at what became of the post.    *)
To(k, via, marked) ==
  [via |-> via, to |-> Place(handled[k]), re |-> IF marked /\ handled[k].handle THEN k ELSE 0]

TelegramReply(k) == To(k, "sendMessage", TRUE)

DiscordReply(k) ==
  LET e == handled[k] IN
  IF e.surface = "slash" /\ e.handle THEN To(k, "callback", TRUE)
  ELSE To(k, "channel", e.surface \in {"thread", "channel"})

SlackReply(k) ==
  LET e == handled[k] IN
  IF e.surface = "button" /\ e.handle THEN To(k, "response_url", TRUE)
  ELSE To(k, "postMessage", e.surface \in {"channel", "dm"})

WhatsAppReply(k) == To(k, "bridge", FALSE)
TwilioReply(k) == To(k, "Messages.json", FALSE)
iMessageReply(k) == To(k, "osascript", FALSE)
EmailReply(k) == To(k, "smtp", TRUE)

(* Mutant of ReplyTo: the answer goes to where the user was seen last.        *)
ReplyToLast(k) ==
  LET last == CHOOSE j \in DOMAIN handled :
                /\ handled[j].user = handled[k].user
                /\ \A i \in DOMAIN handled : handled[i].user = handled[k].user => i <= j
  IN [via |-> "any", to |-> Place(handled[last]), re |-> 0]

ReplyTo(k) ==
  CASE platform = "telegram" -> TelegramReply(k)
    [] platform = "discord" -> DiscordReply(k)
    [] platform = "slack" -> SlackReply(k)
    [] platform = "whatsapp" -> WhatsAppReply(k)
    [] platform = "twilio" -> TwilioReply(k)
    [] platform = "imessage" -> iMessageReply(k)
    [] OTHER -> EmailReply(k)

(* The turn is over: an empty answer is not sent, and a post that raises is   *)
(* not in the log. An answer the platform refuses is.                         *)
SendAnswer(k) ==
  /\ handled[k].state = "running"
  /\ \E answer \in {Nobody, ReplyTo(k)} :
       handled' = [handled EXCEPT ![k].state = "over", ![k].answer = answer]
  /\ UNCHANGED <<platform, hours, mapping, sessions>>

(* Telegram's store: rows past their ttl.                                     *)
EvictExpired ==
  LET old == {u \in Senders : mapping[u] # Nobody
                              /\ mapping[u].seen + StoreOf[platform].ttl < hours} IN
  /\ StoreOf[platform].evicts /\ old # {}
  /\ mapping' = [u \in Senders |-> IF u \in old THEN Nobody ELSE mapping[u]]
  /\ UNCHANGED <<platform, hours, sessions, handled>>

(* A session is removed behind the store's back.                              *)
SessionGone(s) ==
  /\ s \in sessions
  /\ Cardinality({handled[k].session : k \in DOMAIN handled}) - Cardinality(sessions) < MaxLosses
  /\ sessions' = sessions \ {s}
  /\ UNCHANGED <<platform, hours, mapping, handled>>

TimePasses ==
  /\ hours < MaxTime /\ hours' = hours + 1
  /\ UNCHANGED <<platform, mapping, sessions, handled>>

SurfaceInit ==
  /\ platform \in DOMAIN StoreOf
  /\ hours = 0 /\ sessions = {} /\ handled = <<>>
  /\ mapping = [u \in Senders |-> Nobody]

SurfaceNext ==
  \/ \E u \in Senders, surface \in SurfacesOf[platform], handle \in BOOLEAN :
       ResolveEvent(u, surface, handle)
  \/ \E k \in DOMAIN handled : SendAnswer(k)
  \/ \E s \in sessions : SessionGone(s)
  \/ EvictExpired \/ TimePasses

SurfaceSpec == SurfaceInit /\ [][SurfaceNext]_surfaceVars

-----------------------------------------------------------------------------

(* The event of the same user before the k-th, 0 for none.                    *)
Before(k) ==
  LET js == {j \in 1..k - 1 : handled[j].user = handled[k].user} IN
  IF js = {} THEN 0 ELSE CHOOSE j \in js : \A i \in js : i <= j

(* A user goes on in one session, from whatever surface, as long as no pause  *)
(* was longer than the ttl and the session was there, and only then; nobody   *)
(* else gets into it; the status tells the session the next message goes to.  *)
ConversationsContinue ==
  /\ \A k \in DOMAIN handled : Before(k) # 0 =>
       LET b == handled[Before(k)] IN
       (handled[k].session = b.session) =
         (handled[k].at - b.at <= StoreOf[platform].ttl /\ ~handled[k].lost)
  /\ \A j, k \in DOMAIN handled :
       handled[j].session = handled[k].session => handled[j].user = handled[k].user
  /\ \A u \in Senders : SessionIdFor(u) # 0 => handled[SessionIdFor(u)].user = u
  /\ ActiveCount = Cardinality({u \in Senders : SessionIdFor(u) # 0})

(* An answer goes to the channel its event came from, however often the user  *)
(* has written elsewhere by then, and never under another message; in a       *)
(* shared place it is under its message whenever that has a handle, except in *)
(* the groups of WhatsApp.                                                    *)
AnswersGoBack ==
  \A k \in DOMAIN handled :
    LET e == handled[k] IN
    e.answer # Nobody =>
      /\ e.answer.to = Place(e) /\ e.answer.re \in {0, k}
      /\ e.surface \in {"thread", "channel", "button"} /\ e.handle => e.answer.re = k

(* Of a platform with many users and places, each conversation stays one.     *)
EachInItsConversation == ConversationsContinue /\ AnswersGoBack
=============================================================================

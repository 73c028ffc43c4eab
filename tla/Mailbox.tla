------------------------------- MODULE Mailbox -------------------------------
(* gateway/platforms/email.py: polls of an IMAP mailbox and threaded replies. *)
(* A poll runs in steps, as each command of the server may fail, and mails    *)
(* arrive and are read by other clients in between.                           *)
EXTENDS Naturals, Sequences

CONSTANTS
  MaxMails,     \* bound of the mails that arrive
  MaxTroubles   \* bound of the commands that fail and of the mails others read

ASSUME MailAssumption == MaxMails \in Nat /\ MaxTroubles \in Nat

VARIABLES
  mailbox,      \* the mails: what they are, \Seen, and whom it became an event for
  mailPoll,     \* the poll: the numbers to fetch, and the events it has
  replies,      \* the mail each reply answers, with its headers
  troubles      \* history: commands that failed and mails others have read

mailVars == <<mailbox, mailPoll, replies, troubles>>

NoPoll == [state |-> "none", todo |-> {}, events |-> {}]
Mails == DOMAIN mailbox

(* A message is named by its Message-ID: of a mail, or of a reply.            *)
Mail(k) == <<"mail", k>>
Reply(i) == <<"reply", i>>

-----------------------------------------------------------------------------

(* Mutant of BuildReferences: the header of the parent as it is.              *)
SameReferences(references, id) == references

(* build_references: the parent's References with its Message-ID behind.      *)
BuildReferences(references, id) ==
  IF \E i \in DOMAIN references : references[i] = id THEN references ELSE Append(references, id)

(* parse_email: a mail without a sender or without a text gives no event.     *)
ParseEmail(m) == m.good

(* A mail arrives: a new thread, or an answer to a reply. Its client sends    *)
(* the References on, or only In-Reply-To, or the mail is not one to answer.  *)
MailArrives ==
  /\ Len(mailbox) < MaxMails
  /\ \E good \in BOOLEAN, parent \in 0..Len(replies), keeps \in BOOLEAN :
       /\ parent = 0 => keeps
       /\ LET r == replies[parent] IN
          mailbox' = Append(mailbox,
            [good |-> good, seen |-> FALSE, given |-> 0,
             refs |-> IF parent = 0 \/ ~keeps THEN <<>> ELSE Append(r.refs, Reply(parent)),
             thread |-> IF parent = 0 THEN <<>> ELSE Append(r.thread, Reply(parent)),
             kept |-> parent = 0 \/ (keeps /\ r.kept)])
  /\ UNCHANGED <<mailPoll, replies, troubles>>

Trouble == troubles < MaxTroubles /\ troubles' = troubles + 1

(* Another client reads a mail.                                               *)
ReadElsewhere(k) ==
  /\ ~mailbox[k].seen /\ Trouble
  /\ mailbox' = [mailbox EXCEPT ![k].seen = TRUE]
  /\ UNCHANGED <<mailPoll, replies>>

(* _connect, select and search UNSEEN; each of them may raise.                *)
Search ==
  /\ mailPoll = NoPoll
  /\ mailPoll' = [NoPoll EXCEPT !.state = "fetch", !.todo = {k \in Mails : ~mailbox[k].seen}]
  /\ UNCHANGED <<mailbox, replies, troubles>>

(* The numbers come in their order, and the poll takes one after the other.   *)
NextNumber == CHOOSE k \in mailPoll.todo : \A j \in mailPoll.todo : k <= j

(* fetch of a whole mail, which the server marks \Seen for that; then parse   *)
(* and store, which marks it again. A mail that gives no event is seen too.   *)
FetchMail ==
  LET k == NextNumber IN
  /\ mailPoll.state = "fetch" /\ mailPoll.todo # {}
  /\ mailbox' = [mailbox EXCEPT ![k].seen = TRUE]
  /\ mailPoll' = [mailPoll EXCEPT !.todo = @ \ {k},
                    !.events = IF ParseEmail(mailbox[k]) THEN @ \cup {k} ELSE @]
  /\ UNCHANGED <<replies, troubles>>

(* The answer to the fetch is not OK, and the mail stays as it is.            *)
FetchRefused ==
  /\ mailPoll.state = "fetch" /\ mailPoll.todo # {} /\ Trouble
  /\ mailPoll' = [mailPoll EXCEPT !.todo = @ \ {NextNumber}]
  /\ UNCHANGED <<mailbox, replies>>

(* A fetch or a store raises: the client logs out, and the exception takes    *)
(* the events of the poll with it.                                            *)
PollRaises ==
  /\ mailPoll.state = "fetch" /\ mailPoll.todo # {} /\ Trouble
  /\ \E stored \in BOOLEAN :
       mailbox' = [mailbox EXCEPT ![NextNumber].seen = @ \/ stored]
  /\ mailPoll' = NoPoll
  /\ UNCHANGED replies

(* poll_unseen returns, and its events are dispatched.                        *)
PollReturns ==
  /\ mailPoll.state = "fetch" /\ mailPoll.todo = {}
  /\ mailbox' = [k \in Mails |-> IF k \in mailPoll.events
                                 THEN [mailbox[k] EXCEPT !.given = @ + 1] ELSE mailbox[k]]
  /\ mailPoll' = NoPoll
  /\ UNCHANGED <<replies, troubles>>

(* reply_hook: build_reply and one attempt to send it.                        *)
SendReply(k) ==
  /\ mailbox[k].given > 0 /\ \A i \in DOMAIN replies : replies[i].to # k
  /\ LET m == mailbox[k] IN
     replies' = Append(replies,
       [to |-> k, inReplyTo |-> Mail(k), refs |-> BuildReferences(m.refs, Mail(k)),
        thread |-> Append(m.thread, Mail(k)), kept |-> m.kept])
  /\ UNCHANGED <<mailbox, mailPoll, troubles>>

MailInit == mailbox = <<>> /\ mailPoll = NoPoll /\ replies = <<>> /\ troubles = 0

MailNext ==
  \/ MailArrives \/ Search \/ FetchMail \/ FetchRefused \/ PollRaises \/ PollReturns
  \/ \E k \in Mails : ReadElsewhere(k) \/ SendReply(k)

MailSpec == MailInit /\ [][MailNext]_mailVars

-----------------------------------------------------------------------------

(* No mail becomes an event twice, and one that can be answered and is marked *)
(* as seen has become an event or is about to, for each but the mails that a  *)
(* failed poll or another client marked. A reply names the whole thread it    *)
(* belongs to, unless a client on the way dropped it; then it still names the *)
(* mail it answers, behind which clients show it.                             *)
MailsAreAnsweredInTheirThread ==
  /\ \A k \in Mails : mailbox[k].given <= 1
  /\ troubles = 0 =>
       \A k \in Mails : mailbox[k].good /\ mailbox[k].seen =>
         mailbox[k].given = 1 \/ k \in mailPoll.events
  /\ \A i \in DOMAIN replies :
       LET r == replies[i] IN
       /\ r.kept => r.refs = r.thread
       /\ r.refs # <<>> /\ r.inReplyTo = r.refs[Len(r.refs)]
=============================================================================

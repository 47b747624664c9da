-------------------------- MODULE NotificationInbox --------------------------
(***************************************************************************)
(* The request side of the notification module for one company: channels,   *)
(* subscriptions, the send path with its idempotency keys, targeted events  *)
(* and the inbox (service/http.go and store.go).  What becomes of a         *)
(* delivery job is in module NotificationWorker.                            *)
(*                                                                          *)
(* A client may give up on a send whose answer is late and repeat it with   *)
(* the same key while the first is still running, so two sends with one key *)
(* may overlap.  Each looks for the key with a plain SELECT and inserts     *)
(* later; the unique index on (channel_id, idempotency_key) decides.  Texts *)
(* are left out: a payload is a value that two sends share or do not.       *)
(***************************************************************************)
EXTENDS Naturals, FiniteSets

CONSTANTS
    Channel,   \* channel ids; a deleted id never comes back
    Bearer,    \* subjects of verified tokens
    Admin,     \* subjects with company_module#admin
    Key,       \* idempotency keys
    Payload,   \* subject line and body
    Client,    \* requests that may be in progress at once
    None,      \* no key, no row
    MaxSends   \* bound: messages stored

VARIABLES
    member,    \* external: the active members of the company
    channel,   \* notification.channel: None, a kind, or "deleted"
    anchored,  \* external: channels with their company_module anchor tuple
    sub,       \* notification.subscription: <<channel, subject>>, none muted
    msg,       \* notification.message rows
    inbox,     \* notification.recipient_state: <<message id, subject>>
    read,      \* the recipient rows that have read_at
    job,       \* notification.delivery_job: <<message id, target>>
    call,      \* requests between their reads and their write
    sends,     \* messages stored so far, also the source of ids
    answered,  \* history: sends with a key and the answer they got
    overlapped \* history: sends whose key appeared between lookup and insert

vars == <<member, channel, anchored, sub, msg, inbox, read, job, call, sends,
          answered, overlapped>>

Kind == {"in_app", "email", "webhook"}
EventChannel == "events"
Place == Channel \cup {EventChannel}

Send == [ch : Channel, key : Key \cup {None}, pay : Payload]

Idle == [op |-> "idle"]

Init ==
    /\ member = Bearer
    /\ channel = [ch \in Place |-> None]
    /\ anchored = {}
    /\ sub = {}
    /\ msg = {}
    /\ inbox = {}
    /\ read = {}
    /\ job = {}
    /\ call = [c \in Client |-> Idle]
    /\ sends = 0
    /\ answered = {}
    /\ overlapped = {}

-------------------------------------------------------------------------------
(* The gate of every company-scoped route. *)

\* withAuth: a verified bearer and an allowed decision.  Every feature needs
\* active membership; managing channels and sending also need #admin.
Can(s, feature) ==
    /\ s \in member
    /\ feature # "inbox.view" => s \in Admin

Live(ch) == channel[ch] \in Kind

\* A row of the org service comes or goes.
MembershipChanges(s) ==
    /\ member' = IF s \in member THEN member \ {s} ELSE member \cup {s}
    /\ UNCHANGED <<channel, anchored, sub, msg, inbox, read, job, call, sends,
                   answered, overlapped>>

-------------------------------------------------------------------------------
(* Channels and subscriptions. *)

\* The row commits; the anchor follows.
CreateChannel(c, ch, kind) ==
    /\ call[c] = Idle
    /\ channel[ch] = None
    /\ channel' = [channel EXCEPT ![ch] = kind]
    /\ call' = [call EXCEPT ![c] = [op |-> "anchor", ch |-> ch]]
    /\ UNCHANGED <<member, anchored, sub, msg, inbox, read, job, sends, answered,
                   overlapped>>

\* The grant succeeds, or fails and leaves the channel unanchored.
GrantChannelAnchor(c, ok) ==
    /\ call[c].op = "anchor"
    /\ anchored' = IF ok THEN anchored \cup {call[c].ch} ELSE anchored
    /\ call' = [call EXCEPT ![c] = Idle]
    /\ UNCHANGED <<member, channel, sub, msg, inbox, read, job, sends, answered,
                   overlapped>>

\* DeleteChannel: the row, and by ON DELETE CASCADE its subscriptions,
\* messages, recipient rows and jobs.  A system channel is deleted like any
\* other; the next event provisions it again.
DeleteChannel(ch) ==
    /\ Live(ch)
    /\ LET gone == {m \in msg : m.ch = ch}
           ids  == {m.id : m \in gone}
       IN /\ msg' = msg \ gone
          /\ inbox' = {r \in inbox : r[1] \notin ids}
          /\ read' = {r \in read : r[1] \notin ids}
          /\ job' = {j \in job : j[1] \notin ids}
    /\ sub' = {p \in sub : p[1] # ch}
    /\ channel' = [channel EXCEPT ![ch] = IF ch = EventChannel THEN None ELSE "deleted"]
    /\ answered' = {a \in answered : a.send.ch # ch}
    /\ UNCHANGED <<member, anchored, call, sends, overlapped>>

\* Subscribe: GetChannel, then the upsert, which its foreign key re-checks.
Subscribe(s, ch) ==
    /\ Live(ch)
    /\ sub' = sub \cup {<<ch, s>>}
    /\ UNCHANGED <<member, channel, anchored, msg, inbox, read, job, call, sends,
                   answered, overlapped>>

Unsubscribe(s, ch) ==
    /\ Live(ch)
    /\ sub' = sub \ {<<ch, s>>}
    /\ UNCHANGED <<member, channel, anchored, msg, inbox, read, job, call, sends,
                   answered, overlapped>>

-------------------------------------------------------------------------------
(* Sending. *)

\* findByIdempotencyKey.
Found(ch, key) == {m \in msg : key # None /\ m.ch = ch /\ m.key = key}

\* Mutated form: the stored payload hash is not compared.
ReplaysAny(s) == TRUE

\* A stored send is the same request when its payload hash is equal.
SamePayload(s) == \A m \in Found(s.ch, s.key) : m.pay = s.pay

Answer(s, what) ==
    answered' = IF s.key = None THEN answered
                ELSE answered \cup {[send |-> s, what |-> what]}

\* SendMessage up to the INSERT: the channel, then the key.  A key that is
\* there is answered at once, as a replay or as a conflict.
SendLookup(c, s) ==
    /\ call[c] = Idle
    /\ Live(s.ch)
    /\ IF Found(s.ch, s.key) = {}
       THEN /\ call' = [call EXCEPT ![c] = [op |-> "send", send |-> s]]
            /\ UNCHANGED answered
       ELSE /\ Answer(s, IF SamePayload(s) THEN "replayed" ELSE "conflict")
            /\ UNCHANGED call
    /\ UNCHANGED <<member, channel, anchored, sub, msg, inbox, read, job, sends,
                   overlapped>>

\* The delivery jobs of a message: one per subscriber of an email channel,
\* one for the target of a webhook channel.
Targets(ch, to) ==
    CASE channel[ch] = "email" -> to
      [] channel[ch] = "webhook" -> {"target"}
      [] OTHER -> {}

\* SendMessage: the INSERT finds no such key, the subscribers of that moment
\* get a recipient row and their jobs, and all of it commits.
SendStore(c) ==
    /\ call[c].op = "send"
    /\ LET s  == call[c].send
           to == {p[2] : p \in {q \in sub : q[1] = s.ch}}
       IN /\ Live(s.ch)
          /\ Found(s.ch, s.key) = {}
          /\ sends < MaxSends
          /\ msg' = msg \cup {[id |-> sends, ch |-> s.ch, key |-> s.key, pay |-> s.pay]}
          /\ inbox' = inbox \cup ({sends} \X to)
          /\ job' = job \cup ({sends} \X Targets(s.ch, to))
          /\ Answer(s, "created")
    /\ sends' = sends + 1
    /\ call' = [call EXCEPT ![c] = Idle]
    /\ UNCHANGED <<member, channel, anchored, sub, read, overlapped>>

\* The INSERT runs into the unique index: ErrConflict, whatever the payload.
SendConflict(c) ==
    /\ call[c].op = "send"
    /\ LET s == call[c].send IN
         /\ Found(s.ch, s.key) # {}
         /\ Answer(s, "conflict")
         /\ overlapped' = overlapped \cup {s}
    /\ call' = [call EXCEPT ![c] = Idle]
    /\ UNCHANGED <<member, channel, anchored, sub, msg, inbox, read, job, sends>>

\* A failed statement, a deleted channel or a lost connection: rolled back.
Fail(c) ==
    /\ call[c].op \in {"send", "event"}
    /\ call' = [call EXCEPT ![c] = Idle]
    /\ UNCHANGED <<member, channel, anchored, sub, msg, inbox, read, job, sends,
                   answered, overlapped>>

\* SendTargetedEvent up to its transaction: org confirms each recipient, and
\* one that it does not confirm, or cannot answer for, is skipped.
EventConfirm(c, to) ==
    /\ call[c] = Idle
    /\ to # {}
    /\ to \subseteq member
    /\ call' = [call EXCEPT ![c] = [op |-> "event", to |-> to]]
    /\ UNCHANGED <<member, channel, anchored, sub, msg, inbox, read, job, sends,
                   answered, overlapped>>

\* SendTargetedEvent: the system channel is provisioned, whatever channel has
\* its key, and the confirmed recipients get the message.
EventStore(c) ==
    /\ call[c].op = "event"
    /\ sends < MaxSends
    /\ channel' = IF Live(EventChannel) THEN channel
                  ELSE [channel EXCEPT ![EventChannel] = "in_app"]
    /\ msg' = msg \cup {[id |-> sends, ch |-> EventChannel, key |-> None, pay |-> None]}
    /\ inbox' = inbox \cup ({sends} \X call[c].to)
    /\ sends' = sends + 1
    /\ call' = [call EXCEPT ![c] = Idle]
    /\ UNCHANGED <<member, anchored, sub, read, job, answered, overlapped>>

\* MarkRead: read_at is set once; marking again is answered the same.
MarkRead(s, id) ==
    /\ <<id, s>> \in inbox
    /\ read' = read \cup {<<id, s>>}
    /\ UNCHANGED <<member, channel, anchored, sub, msg, inbox, job, call, sends,
                   answered, overlapped>>

\* The handlers: the gate each route has, and the steps it takes.
handleCreateChannel(c) ==
    \/ \E s \in Bearer, ch \in Channel, kind \in Kind :
          Can(s, "channels.manage") /\ CreateChannel(c, ch, kind)
    \/ \E ok \in BOOLEAN : GrantChannelAnchor(c, ok)

handleDeleteChannel(s, ch) == Can(s, "channels.manage") /\ DeleteChannel(ch)

handleSubscribe(s, ch) == Can(s, "inbox.view") /\ Subscribe(s, ch)

handleUnsubscribe(s, ch) == Can(s, "inbox.view") /\ Unsubscribe(s, ch)

handleSendMessage(c) ==
    \/ \E actor \in Bearer, s \in Send : Can(actor, "messages.send") /\ SendLookup(c, s)
    \/ SendStore(c)
    \/ SendConflict(c)

handleMarkRead(s, id) == Can(s, "inbox.view") /\ MarkRead(s, id)

handleSendEvent(c) ==
    \/ \E actor \in Bearer, to \in SUBSET Bearer : Can(actor, "inbox.view") /\ EventConfirm(c, to)
    \/ EventStore(c)

Next ==
    \/ \E c \in Client :
        \/ handleCreateChannel(c)
        \/ handleSendMessage(c)
        \/ handleSendEvent(c)
        \/ Fail(c)
    \/ \E s \in Bearer, ch \in Channel :
        \/ handleSubscribe(s, ch)
        \/ handleUnsubscribe(s, ch)
    \/ \E s \in Bearer, ch \in Place : handleDeleteChannel(s, ch)
    \/ \E s \in Bearer, id \in 0..MaxSends - 1 : handleMarkRead(s, id)
    \/ \E s \in Bearer : MembershipChanges(s)

-------------------------------------------------------------------------------
(* Properties. *)

(***************************************************************************)
(* The answer to a send is true, however often it is repeated and however   *)
(* its attempts overlap (until its channel is deleted).  One answered as    *)
(* created or replayed is stored once, with its own payload: a retry        *)
(* neither notifies anyone twice nor is told that someone else's message    *)
(* was its own.  One refused as a conflict had its key used with another    *)
(* payload, or another send with the key was stored between its lookup and  *)
(* its insert.                                                              *)
(***************************************************************************)
AnswerIsTrue ==
    \A a \in answered :
        LET stored == Found(a.send.ch, a.send.key) IN
        IF a.what = "conflict"
        THEN a.send \in overlapped \/ \E m \in stored : m.pay # a.send.pay
        ELSE Cardinality(stored) = 1 /\ \A m \in stored : m.pay = a.send.pay

===============================================================================

------------------------------ MODULE Delivery ------------------------------
(***************************************************************************)
(* Direct messages from one node ("snd") to another ("rcv"): the outbox,   *)
(* flush and its goroutines, sessions that come, are replaced and die, the *)
(* receiver that stores, acknowledges and then announces a message, and    *)
(* the deletions both users may make meanwhile.                            *)
(*                                                                         *)
(* internal/node/node.go, internal/node/link.go, internal/store/store.go.  *)
(* Every store call is one bbolt transaction, hence one step; a goroutine  *)
(* is split where it releases the store or the session to the others.      *)
(* Time is abstracted: a message is "cooling" from RecordAttempt until its *)
(* jittered backoff has run out.                                           *)
(*                                                                         *)
(* A definition whose name starts with Faulty is a plausible bug in the    *)
(* one that follows it; no specification uses it.                          *)
(***************************************************************************)
EXTENDS Integers, Sequences

CONSTANTS
  MaxMsg,       \* messages are numbered by the sequence number AddMessage gives them
  MaxConn,      \* sessions; the last one is established alone and does not fail
  MaxInFlight,  \* frames a direction of a connection holds before a write blocks
  MaxDiscard,   \* deletions the receiver's user makes, per message
  Flushers      \* goroutines that may be running flush at the same time

ASSUME DeliveryBounds ==
  /\ MaxMsg \in Nat /\ MaxConn \in Nat /\ MaxInFlight \in Nat \ {0}
  /\ MaxDiscard \in Nat

VARIABLES
  msgs,      \* the sender's record of each message (bMsgs, bIdx)
  outbox,    \* the sender's outbox bucket (bOutbox)
  cooling,   \* outbox messages whose backoff has not run out (Attempts, LastTry)
  inbox,     \* the receiver's stored messages and dedup index (bMsgs, bIdx)
  live,      \* Node.live of each end: its current link to the other, or NoConn
  end,       \* what each end makes of each connection
  cut,       \* connections whose two ends no longer reach each other
  nconn,     \* connections made so far
  out, back, \* frames in flight to the receiver; acks in flight to the sender
  fl,        \* the flush goroutines
  rd,        \* the receiver's read loop of each connection
  stored,    \* history: messages the receiver has ever persisted
  shown,     \* history: "message" events the receiver emitted, per message
  discards   \* history: how often the receiver's copy was removed, per message

sndVars  == <<msgs, outbox, cooling>>
rcvVars  == <<inbox, stored, shown, discards>>
connVars == <<live, end, cut, nconn>>
wireVars == <<out, back>>
vars == <<sndVars, rcvVars, connVars, wireVars, fl, rd>>

Msg    == 1 .. MaxMsg
Conn   == 1 .. MaxConn
NoConn == 0
End    == {"snd", "rcv"}

Frame == [t : {"msg", "delall"}, id : Msg]

IdleFlush == [pc |-> "idle", link |-> NoConn, force |-> FALSE, todo |-> {}]
IdleRead  == [pc |-> "recv", id |-> 0, dup |-> FALSE]

FlushState == {IdleFlush} \cup [pc : {"lock", "run", "send"}, link : Conn,
                               force : BOOLEAN, todo : SUBSET Msg]
ReadState == {IdleRead} \cup [pc : {"ack", "emit"}, id : Msg, dup : BOOLEAN]

Init ==
  /\ msgs = [m \in Msg |-> "none"]
  /\ outbox = {} /\ cooling = {} /\ inbox = {} /\ stored = {}
  /\ live = [e \in End |-> NoConn]
  /\ end = [e \in End |-> [c \in Conn |-> "none"]]
  /\ cut = {} /\ nconn = 0
  /\ out = [c \in Conn |-> <<>>] /\ back = [c \in Conn |-> <<>>]
  /\ fl = [f \in Flushers |-> IdleFlush]
  /\ rd = [c \in Conn |-> IdleRead]
  /\ shown = [m \in Msg |-> 0] /\ discards = [m \in Msg |-> 0]

-----------------------------------------------------------------------------
(* Sessions.                                                               *)

\* Every earlier session is over at both ends.
Quiet == \A e \in End, c \in 1 .. nconn : end[e][c] = "gone"

\* Failures still happen: the last connection is the one that lasts.
Unstable == nconn < MaxConn

\* A dial reaches the other node and the handshake completes.  Either a tick
\* of dialLoop or an explicit Dial, so an older session may still be live.
Connect ==
  /\ nconn < MaxConn
  /\ nconn + 1 = MaxConn => Quiet
  /\ nconn' = nconn + 1
  /\ end' = [e \in End |-> [end[e] EXCEPT ![nconn + 1] = "hs"]]
  /\ UNCHANGED <<sndVars, rcvVars, live, cut, wireVars, fl, rd>>

FaultyEstablish(e, c) ==
  /\ end[e][c] = "hs"
  /\ live' = [live EXCEPT ![e] = c]
  /\ end' = [end EXCEPT ![e][c] = "up"]
  /\ UNCHANGED <<sndVars, rcvVars, cut, nconn, wireVars, fl, rd>>

\* The end of establish: the new link becomes the live one and the session
\* it replaces is closed.
establish(e, c) ==
  LET old == live[e] IN
  /\ end[e][c] = "hs"
  /\ live' = [live EXCEPT ![e] = c]
  /\ end' = [end EXCEPT ![e] = [d \in Conn |->
               CASE d = c -> "up"
                 [] d = old /\ end[e][d] = "up" -> "closed"
                 [] OTHER -> end[e][d]]]
  /\ cut' = cut \cup ({old} \ {NoConn})
  /\ UNCHANGED <<sndVars, rcvVars, nconn, wireVars, fl, rd>>

\* The connection died under the handshake of this end.
HandshakeFails(e, c) ==
  /\ end[e][c] = "hs" /\ c \in cut
  /\ end' = [end EXCEPT ![e][c] = "gone"]
  /\ UNCHANGED <<sndVars, rcvVars, live, cut, nconn, wireVars, fl, rd>>

\* The network drops the connection.  Frames not yet read may still be read,
\* or be lost with the end that gives up before reading them.
Cut(c) ==
  /\ Unstable /\ c \in (1 .. nconn) \ cut
  /\ cut' = cut \cup {c}
  /\ UNCHANGED <<sndVars, rcvVars, live, end, nconn, wireVars, fl, rd>>

\* Recv fails (end of stream, reset, DeadAfter of silence) or a ping does.
Notice(e, c) ==
  /\ end[e][c] = "up" /\ c \in cut
  /\ end' = [end EXCEPT ![e][c] = "closed"]
  /\ UNCHANGED <<sndVars, rcvVars, live, cut, nconn, wireVars, fl, rd>>

\* The frames end e will never read from the connections C it has left.
Unread(e, C) ==
  /\ out' = IF e = "rcv" THEN [c \in Conn |-> IF c \in C THEN <<>> ELSE out[c]] ELSE out
  /\ back' = IF e = "snd" THEN [c \in Conn |-> IF c \in C THEN <<>> ELSE back[c]] ELSE back

\* What follows readLoop in runSession: the link leaves Node.live unless a
\* newer one has taken its place.
runSessionEnds(e, c) ==
  /\ end[e][c] = "closed"
  /\ e = "rcv" => rd[c] = IdleRead
  /\ end' = [end EXCEPT ![e][c] = "gone"]
  /\ live' = [live EXCEPT ![e] = IF @ = c THEN NoConn ELSE @]
  /\ Unread(e, {c})
  /\ UNCHANGED <<sndVars, rcvVars, cut, nconn, fl, rd>>

\* End e is killed and started again: the store survives, nothing else.
Die(e) ==
  /\ Unstable
  /\ end' = [end EXCEPT ![e] = [c \in Conn |-> IF @[c] = "none" THEN "none" ELSE "gone"]]
  /\ cut' = cut \cup {c \in Conn : end[e][c] # "none"}
  /\ live' = [live EXCEPT ![e] = NoConn]
  /\ fl' = IF e = "snd" THEN [f \in Flushers |-> IdleFlush] ELSE fl
  /\ rd' = IF e = "rcv" THEN [c \in Conn |-> IdleRead] ELSE rd
  /\ UNCHANGED <<rcvVars, nconn>>

Crash(e) ==
  /\ Die(e)
  /\ Unread(e, Conn)
  /\ UNCHANGED sndVars

-----------------------------------------------------------------------------
(* The sender's store and its user.                                        *)

\* SendReply: the message is in the outbox before the network is touched.
\* The flush it starts is one of FlushStart's.
SendReply(m) ==
  /\ msgs[m] = "none"
  /\ \A k \in 1 .. m - 1 : msgs[k] # "none"
  /\ msgs' = [msgs EXCEPT ![m] = "queued"]
  /\ outbox' = outbox \cup {m}
  /\ UNCHANGED <<cooling, rcvVars, connVars, wireVars, fl, rd>>

\* The sender's records of S, their index and outbox entries go in one
\* transaction; what remains of them says how they went.
Remove(S, how) ==
  /\ msgs' = [m \in Msg |-> IF m \in S THEN how ELSE msgs[m]]
  /\ outbox' = outbox \ S
  /\ cooling' = cooling \ S

Held == {m \in Msg : msgs[m] \in {"queued", "delivered"}}

\* The user drops a message that has not been delivered.
DeleteFromOutbox(m) ==
  /\ msgs[m] = "queued"
  /\ Remove({m}, "deleted")
  /\ UNCHANGED <<rcvVars, connVars, wireVars, fl, rd>>

\* Delete-for-me.
DeleteMessage(m) ==
  /\ m \in Held
  /\ Remove({m}, "deleted")
  /\ UNCHANGED <<rcvVars, connVars, wireVars, fl, rd>>

DeleteAllMessages ==
  /\ Held # {}
  /\ Remove(Held, "deleted")
  /\ UNCHANGED <<rcvVars, connVars, wireVars, fl, rd>>

FaultyPrune(cutoff) ==
  /\ Remove({m \in 1 .. cutoff : m \in Held}, "pruned")
  /\ UNCHANGED <<rcvVars, connVars, wireVars, fl, rd>>

\* Retention: messages older than a cutoff, except undelivered outbound ones.
Prune(cutoff) ==
  /\ Remove({m \in 1 .. cutoff : msgs[m] = "delivered"}, "pruned")
  /\ UNCHANGED <<rcvVars, connVars, wireVars, fl, rd>>

\* A write on connection c by end e, in queue q: it fails on a connection this
\* end has closed, is lost or fails on one that is cut, and otherwise waits
\* for room and is in flight.
WriteFails(e, c) == end[e][c] # "up" \/ c \in cut
WriteLost(e, c)  == end[e][c] = "up" /\ c \in cut
WriteOK(e, c, q) == end[e][c] = "up" /\ c \notin cut /\ Len(q[c]) < MaxInFlight

\* Delete-for-everyone asks the peer over the live link.  Nothing happens if
\* there is no link or the write fails.
AskDelete(m) ==
  LET c == live["snd"] IN
  /\ m \in Held /\ c # NoConn
  /\ \/ /\ WriteOK("snd", c, out)
        /\ out' = [out EXCEPT ![c] = Append(@, [t |-> "delall", id |-> m])]
     \/ /\ WriteLost("snd", c)
        /\ UNCHANGED out

\* It then deletes here, unless the node is killed in between.
DeleteMessageForEveryone(m) ==
  /\ AskDelete(m)
  /\ \/ /\ Remove({m}, "deleted")
        /\ UNCHANGED <<rcvVars, connVars, back, fl, rd>>
     \/ /\ Die("snd")
        /\ back' = [c \in Conn |-> <<>>]
        /\ UNCHANGED sndVars

\* The jittered backoff since the last attempt has run out.
BackoffExpires(m) ==
  /\ m \in cooling
  /\ cooling' = cooling \ {m}
  /\ UNCHANGED <<msgs, outbox, rcvVars, connVars, wireVars, fl, rd>>

-----------------------------------------------------------------------------
(* flush, run by SendReply, runSession, outboxLoop's tick and RetryNow.    *)

FaultyFlushStart(f, force) ==
  /\ fl[f].pc = "idle"
  /\ fl' = [fl EXCEPT ![f] = [pc |-> "lock", link |-> live["snd"], force |-> force, todo |-> {}]]
  /\ UNCHANGED <<sndVars, rcvVars, connVars, wireVars, rd>>

\* linkFor: the link this flush will use, whatever becomes of it meanwhile.
FlushStart(f, force) ==
  /\ fl[f].pc = "idle" /\ live["snd"] # NoConn
  /\ fl' = [fl EXCEPT ![f] = [pc |-> "lock", link |-> live["snd"], force |-> force, todo |-> {}]]
  /\ UNCHANGED <<sndVars, rcvVars, connVars, wireVars, rd>>

\* What the goroutine is once S is left to send: it returns, and unlocks
\* flushMu, when nothing is.
Flushing(f, S) ==
  IF S = {} THEN IdleFlush
            ELSE [pc |-> "run", link |-> fl[f].link, force |-> FALSE, todo |-> S]

\* Some goroutine holds the flushMu of connection c.
FlushLocked(c) == \E g \in Flushers : fl[g].pc \in {"run", "send"} /\ fl[g].link = c

FaultyFlushLock(f) ==
  /\ fl[f].pc = "lock"
  /\ fl' = [fl EXCEPT ![f] = Flushing(f, {m \in outbox : fl[f].force \/ m \notin cooling})]
  /\ UNCHANGED <<sndVars, rcvVars, connVars, wireVars, rd>>

\* flushMu taken; Pending read once, and the messages still in backoff passed
\* over unless this flush is forced.
FlushLock(f) ==
  /\ fl[f].pc = "lock"
  /\ ~FlushLocked(fl[f].link)
  /\ fl' = [fl EXCEPT ![f] = Flushing(f, {m \in outbox : fl[f].force \/ m \notin cooling})]
  /\ UNCHANGED <<sndVars, rcvVars, connVars, wireVars, rd>>

\* sortBySeq: m is the oldest message flush f has left.
Oldest(f, m) == m \in fl[f].todo /\ \A k \in fl[f].todo : m <= k

\* RecordAttempt for the oldest message left; one that is gone from the store
\* since Pending was read is passed over.
FlushAttempt(f, m) ==
  /\ fl[f].pc = "run" /\ Oldest(f, m)
  /\ IF m \in Held
       THEN /\ fl' = [fl EXCEPT ![f].pc = "send"]
            /\ cooling' = cooling \cup ({m} \cap outbox)
       ELSE /\ fl' = [fl EXCEPT ![f] = Flushing(f, @.todo \ {m})]
            /\ UNCHANGED cooling
  /\ UNCHANGED <<msgs, outbox, rcvVars, connVars, wireVars, rd>>

\* The write of that message: a failed one closes the link and ends the flush.
FlushSend(f, m) ==
  LET c == fl[f].link IN
  /\ fl[f].pc = "send" /\ Oldest(f, m)
  /\ \/ /\ WriteOK("snd", c, out)
        /\ out' = [out EXCEPT ![c] = Append(@, [t |-> "msg", id |-> m])]
        /\ fl' = [fl EXCEPT ![f] = Flushing(f, @.todo \ {m})]
        /\ UNCHANGED end
     \/ /\ WriteLost("snd", c)
        /\ fl' = [fl EXCEPT ![f] = Flushing(f, @.todo \ {m})]
        /\ UNCHANGED <<out, end>>
     \/ /\ WriteFails("snd", c)
        /\ fl' = [fl EXCEPT ![f] = IdleFlush]
        /\ end' = [end EXCEPT !["snd"][c] = IF @ = "up" THEN "closed" ELSE @]
        /\ UNCHANGED out
  /\ UNCHANGED <<sndVars, rcvVars, live, cut, nconn, back, rd>>

-----------------------------------------------------------------------------
(* The receiver's read loop of connection c, and its user.                 *)

Receiving(c, t) ==
  /\ rd[c] = IdleRead /\ end["rcv"][c] = "up"
  /\ out[c] # <<>> /\ Head(out[c]).t = t

\* The receiver's copies of S and their dedup entries are gone.
Discard(S) ==
  /\ inbox' = inbox \ S
  /\ discards' = [m \in Msg |-> discards[m] + (IF m \in S \cap inbox THEN 1 ELSE 0)]

FaultyRecvMsg(c) ==
  LET m == Head(out[c]).id IN
  /\ Receiving(c, "msg")
  /\ out' = [out EXCEPT ![c] = Tail(@)]
  /\ rd' = [rd EXCEPT ![c] = [pc |-> "ack", id |-> m, dup |-> FALSE]]
  /\ inbox' = inbox \cup {m}
  /\ stored' = stored \cup {m}
  /\ UNCHANGED <<sndVars, shown, discards, connVars, back, fl>>

\* AddMessage: store the message unless its ID is in the index.
RecvMsg(c) ==
  LET m == Head(out[c]).id IN
  /\ Receiving(c, "msg")
  /\ out' = [out EXCEPT ![c] = Tail(@)]
  /\ rd' = [rd EXCEPT ![c] = [pc |-> "ack", id |-> m, dup |-> m \in inbox]]
  /\ inbox' = inbox \cup {m}
  /\ stored' = stored \cup {m}
  /\ UNCHANGED <<sndVars, shown, discards, connVars, back, fl>>

FaultyRecvRefused(c) ==
  /\ Unstable /\ Receiving(c, "msg")
  /\ out' = [out EXCEPT ![c] = Tail(@)]
  /\ back' = [back EXCEPT ![c] = Append(@, Head(out[c]).id)]
  /\ end' = [end EXCEPT !["rcv"][c] = "closed"]
  /\ cut' = cut \cup {c}
  /\ UNCHANGED <<sndVars, rcvVars, live, nconn, fl, rd>>

\* The store fails or the rate limit is exceeded: the read loop returns and
\* nothing is acknowledged.
RecvRefused(c) ==
  /\ Unstable /\ Receiving(c, "msg")
  /\ out' = [out EXCEPT ![c] = Tail(@)]
  /\ end' = [end EXCEPT !["rcv"][c] = "closed"]
  /\ cut' = cut \cup {c}
  /\ UNCHANGED <<sndVars, rcvVars, live, nconn, back, fl, rd>>

FaultyRecvAck(c) ==
  /\ rd[c].pc = "ack"
  /\ \/ /\ rd[c].dup
        /\ rd' = [rd EXCEPT ![c] = IdleRead]
        /\ UNCHANGED <<back, end>>
     \/ /\ ~rd[c].dup /\ WriteOK("rcv", c, back)
        /\ back' = [back EXCEPT ![c] = Append(@, rd[c].id)]
        /\ rd' = [rd EXCEPT ![c].pc = "emit"]
        /\ UNCHANGED end
     \/ /\ ~rd[c].dup /\ WriteFails("rcv", c)
        /\ rd' = [rd EXCEPT ![c] = IdleRead]
        /\ end' = [end EXCEPT !["rcv"][c] = IF @ = "up" THEN "closed" ELSE @]
        /\ UNCHANGED back
  /\ UNCHANGED <<sndVars, rcvVars, live, cut, nconn, out, fl>>

\* The ack, for duplicates too; when its write fails the read loop returns
\* before the event.
RecvAck(c) ==
  /\ rd[c].pc = "ack"
  /\ \/ /\ WriteOK("rcv", c, back)
        /\ back' = [back EXCEPT ![c] = Append(@, rd[c].id)]
        /\ rd' = [rd EXCEPT ![c] = IF @.dup THEN IdleRead ELSE [@ EXCEPT !.pc = "emit"]]
        /\ UNCHANGED end
     \/ /\ WriteLost("rcv", c)
        /\ rd' = [rd EXCEPT ![c] = IF @.dup THEN IdleRead ELSE [@ EXCEPT !.pc = "emit"]]
        /\ UNCHANGED <<back, end>>
     \/ /\ WriteFails("rcv", c)
        /\ rd' = [rd EXCEPT ![c] = IdleRead]
        /\ end' = [end EXCEPT !["rcv"][c] = IF @ = "up" THEN "closed" ELSE @]
        /\ UNCHANGED back
  /\ UNCHANGED <<sndVars, rcvVars, live, cut, nconn, out, fl>>

\* The "message" event that puts the message on the screen.
RecvEmit(c) ==
  /\ rd[c].pc = "emit"
  /\ rd' = [rd EXCEPT ![c] = IdleRead]
  /\ shown' = [shown EXCEPT ![rd[c].id] = @ + 1]
  /\ UNCHANGED <<sndVars, inbox, stored, discards, connVars, wireVars, fl>>

\* A delete-for-everyone request arrives.
RecvDelAll(c) ==
  /\ Receiving(c, "delall")
  /\ out' = [out EXCEPT ![c] = Tail(@)]
  /\ Discard({Head(out[c]).id})
  /\ UNCHANGED <<sndVars, stored, shown, connVars, back, fl, rd>>

\* The receiver's user deletes messages, or retention prunes them.
RcvDelete(S) ==
  /\ S # {} /\ \A m \in S : discards[m] < MaxDiscard
  /\ Discard(S)
  /\ UNCHANGED <<sndVars, stored, shown, connVars, wireVars, fl, rd>>

FaultyMarkDelivered(c) ==
  LET m == Head(back[c]) IN
  /\ end["snd"][c] = "up" /\ back[c] # <<>>
  /\ back' = [back EXCEPT ![c] = Tail(@)]
  /\ msgs' = [msgs EXCEPT ![m] = "delivered"]
  /\ outbox' = outbox \ {m} /\ cooling' = cooling \ {m}
  /\ UNCHANGED <<rcvVars, connVars, out, fl, rd>>

\* The sender's read loop takes an ack: MarkDelivered.
MarkDelivered(c) ==
  LET m == Head(back[c]) IN
  /\ end["snd"][c] = "up" /\ back[c] # <<>>
  /\ back' = [back EXCEPT ![c] = Tail(@)]
  /\ IF msgs[m] = "queued"
       THEN /\ msgs' = [msgs EXCEPT ![m] = "delivered"]
            /\ outbox' = outbox \ {m} /\ cooling' = cooling \ {m}
       ELSE UNCHANGED sndVars
  /\ UNCHANGED <<rcvVars, connVars, out, fl, rd>>

-----------------------------------------------------------------------------
Session(e, c) ==
  \/ establish(e, c) \/ HandshakeFails(e, c) \/ Notice(e, c) \/ runSessionEnds(e, c)

User(m) ==
  \/ SendReply(m) \/ DeleteFromOutbox(m) \/ DeleteMessage(m)
  \/ DeleteMessageForEveryone(m) \/ Prune(m)

Flush(f) == FlushLock(f) \/ \E m \in Msg : FlushAttempt(f, m) \/ FlushSend(f, m)

Receive(c) == RecvMsg(c) \/ RecvAck(c) \/ RecvEmit(c) \/ RecvDelAll(c)

Next ==
  \/ Connect
  \/ \E e \in End, c \in Conn : Session(e, c)
  \/ \E c \in Conn : Cut(c)
  \/ \E e \in End : Crash(e)
  \/ \E m \in Msg : User(m) \/ BackoffExpires(m)
  \/ DeleteAllMessages
  \/ \E f \in Flushers, force \in BOOLEAN : FlushStart(f, force)
  \/ \E f \in Flushers : Flush(f)
  \/ \E c \in Conn : Receive(c) \/ RecvRefused(c) \/ MarkDelivered(c)
  \/ \E S \in SUBSET inbox : RcvDelete(S)

Spec == Init /\ [][Next]_vars

-----------------------------------------------------------------------------
TypeOK ==
  /\ msgs \in [Msg -> {"none", "queued", "delivered", "deleted", "pruned"}]
  /\ outbox \subseteq Msg /\ cooling \subseteq Msg
  /\ inbox \subseteq Msg /\ stored \subseteq Msg
  /\ live \in [End -> Conn \cup {NoConn}]
  /\ end \in [End -> [Conn -> {"none", "hs", "up", "closed", "gone"}]]
  /\ cut \subseteq Conn /\ nconn \in 0 .. MaxConn
  /\ out \in [Conn -> Seq(Frame)] /\ back \in [Conn -> Seq(Msg)]
  /\ fl \in [Flushers -> FlushState]
  /\ rd \in [Conn -> ReadState]
  /\ shown \in [Msg -> Nat] /\ discards \in [Msg -> Nat]

\* ARCHITECTURE.md "Acks mean persisted": an ack on its way, or about to be
\* written, is for a message the receiver has persisted, and so is every
\* delivered mark at the sender.
AcksMeanPersisted ==
  /\ back \in [Conn -> Seq(stored)]
  /\ \A c \in Conn : rd[c].pc # "recv" => rd[c].id \in stored
  /\ \A m \in Msg : msgs[m] \in {"delivered", "pruned"} => m \in stored

\* README "Kill either side mid-conversation and nothing is lost": a message
\* its sender has not deleted is still in the outbox, or the receiver has
\* persisted it, whatever was cut, crashed, refused or pruned on the way.
NothingLost ==
  \A m \in Msg : msgs[m] \in {"queued", "delivered", "pruned"} => m \in outbox \/ m \in stored

\* "... or shown twice": the receiver announces a message once, and once more
\* for every time its copy, and with it the dedup entry, was removed.
ShownOnce == \A m \in Msg : shown[m] <= 1 + discards[m]

\* The newest session wins: an end's live link is the newest one it has
\* registered, and no older link of it is left open.
OneLiveLink ==
  \A e \in End, c \in Conn : end[e][c] = "up" => live[e] = c

\* PROTOCOL.md "messages arrive in send order": the receiver never persists a
\* message for the first time after one that was sent later.
InSendOrder == [][\A m \in stored' \ stored : \A k \in stored : k < m]_stored

\* As far as that is true: until the two nodes connect for a second time, the
\* receiver persists messages in the order they were sent, whatever flushes,
\* retries, deletions, cuts and crashes there are.
FirstSessionInOrder ==
  [][nconn <= 1 => \A m \in stored' \ stored : \A k \in stored : k < m]_stored

-----------------------------------------------------------------------------
(* Delivery implements Mailbox: a read loop that has stored a message and  *)
(* not yet reached its event is what owes the announcement.                *)
Owed == {p \in Conn \X Msg : rd[p[1]].pc # "recv" /\ rd[p[1]].id = p[2] /\ ~rd[p[1]].dup}

Abstract == INSTANCE Mailbox WITH
  Msg <- Msg, Ticket <- Conn,
  status <- msgs, copy <- inbox, accepted <- stored, owed <- Owed, shown <- shown

\* Every step of the sessions, flushes and read loops is a step of the mailbox
\* docs/PROTOCOL.md describes, or changes nothing the mailbox has.
ImplementsMailbox == Abstract!Spec

=============================================================================

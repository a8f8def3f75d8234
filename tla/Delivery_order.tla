--------------------------- MODULE Delivery_order ---------------------------
(***************************************************************************)
(* Send order in module Delivery: until a second session begins, messages  *)
(* are persisted in the order they were sent, for any number of messages,  *)
(* frames in flight and flush goroutines.                                  *)
(***************************************************************************)
EXTENDS Delivery_proofs

\* The messages among the first n frames of a queue.
Ids(q, n) == {q[j].id : j \in {i \in 1 .. n : q[i].t = "msg"}}

\* What the receiver stored or will have read when the first n frames of the
\* first session are read.
Before(n) == stored \cup Ids(out[1], n)
Gone      == Before(Len(out[1]))

Active(f)     == fl[f].pc \in {"run", "send"}
Sending(f, k) == fl[f].pc = "send" /\ Oldest(f, k)

\* Bookkeeping of the sessions and of the flushes that use them.
Links ==
  /\ \A e \in End : live[e] # NoConn => live[e] <= nconn /\ end[e][live[e]] \notin {"none", "hs"}
  /\ \A e \in End, c \in Conn : /\ end[e][c] = "none" <=> c > nconn
                                /\ end[e][c] \in {"closed", "gone"} => c \in cut
  /\ \A c \in Conn : c > nconn => out[c] = <<>>
  /\ \A f \in Flushers : fl[f].pc # "idle" =>
       fl[f].link <= nconn /\ end["snd"][fl[f].link] \notin {"none", "hs"}
  /\ \A f, g \in Flushers : Active(f) /\ Active(g) /\ fl[f].link = fl[g].link => f = g

\* Messages are sent in the order of their numbers, and only sent ones arrive.
Numbered ==
  /\ \A m \in Msg, k \in Msg : k < m /\ msgs[m] # "none" => msgs[k] # "none"
  /\ stored \subseteq Posted

\* Before the first session nothing has left the outbox.
Fresh == nconn = 0 => stored = {} /\ cooling = {}

\* A message on the wire is newer than all before it, unless it is sent again.
WireOrder ==
  end["rcv"][1] \notin {"closed", "gone"} =>
    \A i \in 1 .. Len(out[1]) : out[1][i].t = "msg" /\ out[1][i].id \notin Before(i - 1) =>
      \A k \in Before(i - 1) : k < out[1][i].id

\* What a later message has overtaken is deleted, and nobody is sending it.
NoneOvertaken ==
  \A k \in Msg \ Gone : (\E s \in Gone : k < s) =>
    msgs[k] = "deleted" /\ \A f \in Flushers : ~Sending(f, k)

\* A flush has left out nothing older than what it is going to send.
NoneLeftOut ==
  \A f \in Flushers : Active(f) =>
    \A k \in Msg \ (Gone \cup fl[f].todo) : (\E m \in fl[f].todo : k < m) => msgs[k] = "deleted"

\* A message in backoff has gone out or is about to.
CoolingIsSent ==
  \A k \in cooling \ Gone : \E f \in Flushers : Sending(f, k)

\* All of this is about a session that is not cut; the wire keeps its order
\* until the receiver gives up reading it.
Unbroken == NoneOvertaken /\ NoneLeftOut /\ CoolingIsSent

Ordered == WireOrder /\ (1 \notin cut => Unbroken)

OInv == RInv /\ Links /\ Numbered /\ Fresh /\ (nconn = 1 => Ordered)

-----------------------------------------------------------------------------
(* The sessions.                                                           *)

\* How an end of a connection may change: it closes for good, and is not
\* opened again.
Moves(a, b) ==
  /\ a = "none" <=> b = "none"
  /\ a = "up" => b # "hs"
  /\ a \in {"closed", "gone"} => b \in {"closed", "gone"}

\* Giving up one end of a connection that is cut.
LEMMA OneEnd ==
  ASSUME TypeOK, Links, NEW e \in End, NEW c \in Conn, NEW v, Moves(end[e][c], v), c \in cut',
         cut \subseteq cut', end' = [end EXCEPT ![e][c] = v]
  PROVE  \A x \in End, d \in Conn : /\ Moves(end[x][d], end'[x][d])
                                    /\ end'[x][d] \in {"closed", "gone"} => d \in cut'
<1>1. \A x \in End, d \in Conn : end'[x][d] = IF x = e /\ d = c THEN v ELSE end[x][d]
  BY Zenon DEF TypeOK
<1>2. \A x \in End, d \in Conn : end[x][d] \in {"closed", "gone"} => d \in cut
  BY Zenon DEF Links
<1> QED
  BY <1>1, <1>2 DEF Moves

\* A step that is not Connect moves every end as Moves says, and closes an end
\* only of a connection that is cut.
LEMMA EndsStep ==
  ASSUME TypeOK, Links, [Next]_vars, ~Connect
  PROVE  /\ nconn' = nconn /\ cut \subseteq cut'
         /\ \A e \in End, c \in Conn : /\ Moves(end[e][c], end'[e][c])
                                       /\ end'[e][c] \in {"closed", "gone"} => c \in cut'
<1> DEFINE P == /\ nconn' = nconn /\ cut \subseteq cut'
                /\ \A e \in End, c \in Conn : /\ Moves(end[e][c], end'[e][c])
                                              /\ end'[e][c] \in {"closed", "gone"} => c \in cut'
<1>1. CASE UNCHANGED nconn /\ end' = end /\ cut \subseteq cut'
  BY <1>1, Zenon DEF Links, Moves
<1>2. ASSUME NEW e \in End, NEW c \in Conn, Session(e, c) PROVE P
  <2>1. CASE establish(e, c)
    <3>1. \A x \in End, d \in Conn : end'[x][d] =
            IF x = e THEN CASE d = c -> "up"
                            [] d = live[e] /\ end[e][d] = "up" -> "closed"
                            [] OTHER -> end[e][d]
                     ELSE end[x][d]
      BY <2>1, Zenon DEF establish, TypeOK
    <3>2. /\ nconn' = nconn /\ cut' = cut \cup ({live[e]} \ {NoConn}) /\ end[e][c] = "hs"
          /\ NoConn \notin Conn
      BY <2>1 DEF establish, NoConn, Conn
    <3>3. \A x \in End, d \in Conn : end[x][d] \in {"closed", "gone"} => d \in cut
      BY Zenon DEF Links
    <3> QED
      BY <3>1, <3>2, <3>3 DEF Moves
  <2>2. CASE HandshakeFails(e, c)
    BY <2>2, OneEnd, Zenon DEF HandshakeFails, Moves
  <2>3. CASE Notice(e, c)
    BY <2>3, OneEnd, Zenon DEF Notice, Moves
  <2>4. CASE runSessionEnds(e, c)
    <3>1. c \in cut
      BY <2>4, Zenon DEF runSessionEnds, Links
    <3> QED
      BY <2>4, <3>1, OneEnd, Zenon DEF runSessionEnds, Moves
  <2> QED
    BY <1>2, <2>1, <2>2, <2>3, <2>4, Zenon DEF Session
<1>3. ASSUME NEW e \in End, Die(e) PROVE P
  <2>1. \A x \in End, d \in Conn : end'[x][d] =
          IF x = e THEN IF end[x][d] = "none" THEN "none" ELSE "gone" ELSE end[x][d]
    BY <1>3, Zenon DEF Die, TypeOK
  <2>2. nconn' = nconn /\ cut' = cut \cup {c \in Conn : end[e][c] # "none"}
    BY <1>3, Zenon DEF Die
  <2>3. \A x \in End, d \in Conn : end[x][d] \in {"closed", "gone"} => d \in cut
    BY Zenon DEF Links
  <2> QED
    BY <2>1, <2>2, <2>3, Zenon DEF Moves
<1>4. ASSUME NEW m \in Msg, User(m) PROVE P
  BY <1>1, <1>3, <1>4, Zenon
     DEF User, SendReply, DeleteFromOutbox, DeleteMessage, DeleteMessageForEveryone, Prune,
         connVars, End
<1>5. ASSUME NEW f \in Flushers, NEW m \in Msg, FlushSend(f, m) PROVE P
  <2>1. nconn' = nconn /\ cut' = cut /\ "snd" \in End
    BY <1>5, Zenon DEF FlushSend, End
  <2>2. fl[f].link \in Conn
    BY <1>5 DEF FlushSend, TypeOK, FlushState, IdleFlush
  <2>3. CASE end' = end
    BY <1>1, <2>1, <2>3, Zenon
  <2>4. CASE /\ WriteFails("snd", fl[f].link)
             /\ end' = [end EXCEPT !["snd"][fl[f].link] = IF @ = "up" THEN "closed" ELSE @]
    <3>1. CASE end["snd"][fl[f].link] = "up"
      <4>1. fl[f].link \in cut
        BY <2>4, <3>1, Zenon DEF WriteFails
      <4>2. end' = [end EXCEPT !["snd"][fl[f].link] = "closed"]
        BY <2>4, <3>1, Zenon
      <4> QED
        BY <2>1, <2>2, <3>1, <4>1, <4>2, OneEnd, Zenon DEF Moves
    <3>2. CASE end["snd"][fl[f].link] # "up"
      <4>1. end' = end
        BY <2>1, <2>2, <2>4, <3>2, Zenon DEF TypeOK
      <4> QED
        BY <1>1, <2>1, <4>1, Zenon
    <3> QED
      BY <3>1, <3>2, Zenon
  <2> QED
    BY <1>5, <2>3, <2>4, Zenon DEF FlushSend
<1>6. ASSUME NEW c \in Conn, RecvAck(c) PROVE P
  <2>1. nconn' = nconn /\ cut' = cut /\ "rcv" \in End
    BY <1>6, Zenon DEF RecvAck, End
  <2>2. CASE end' = end
    BY <1>1, <2>1, <2>2, Zenon
  <2>3. CASE /\ WriteFails("rcv", c)
             /\ end' = [end EXCEPT !["rcv"][c] = IF @ = "up" THEN "closed" ELSE @]
    <3>1. CASE end["rcv"][c] = "up"
      <4>1. c \in cut
        BY <2>3, <3>1, Zenon DEF WriteFails
      <4>2. end' = [end EXCEPT !["rcv"][c] = "closed"]
        BY <2>3, <3>1, Zenon
      <4> QED
        BY <2>1, <3>1, <4>1, <4>2, OneEnd, Zenon DEF Moves
    <3>2. CASE end["rcv"][c] # "up"
      <4>1. end' = end
        BY <2>1, <2>3, <3>2, Zenon DEF TypeOK
      <4> QED
        BY <1>1, <2>1, <4>1, Zenon
    <3> QED
      BY <3>1, <3>2, Zenon
  <2> QED
    BY <1>6, <2>2, <2>3, Zenon DEF RecvAck
<1>7. ASSUME NEW c \in Conn, RecvRefused(c) PROVE P
  BY <1>7, OneEnd, Zenon DEF RecvRefused, Receiving, Moves, End
<1>8. ASSUME NEW f \in Flushers, Flush(f) \/ \E force \in BOOLEAN : FlushStart(f, force) PROVE P
  BY <1>1, <1>5, <1>8, Zenon DEF Flush, FlushStart, FlushLock, FlushAttempt, connVars
<1>9. ASSUME NEW c \in Conn, Receive(c) \/ MarkDelivered(c) \/ Cut(c) PROVE P
  BY <1>1, <1>6, <1>9, Zenon DEF Receive, RecvMsg, RecvEmit, RecvDelAll, MarkDelivered, Cut, connVars
<1>10. CASE \/ \E m \in Msg : BackoffExpires(m)
            \/ DeleteAllMessages
            \/ \E S \in SUBSET inbox : RcvDelete(S)
            \/ UNCHANGED vars
  BY <1>1, <1>10, Zenon DEF BackoffExpires, DeleteAllMessages, RcvDelete, vars, connVars
<1> QED
  BY <1>2, <1>3, <1>4, <1>7, <1>8, <1>9, <1>10, Zenon DEF Next, Crash

\* A link is registered only when its handshake is over.
LEMMA LiveStep ==
  ASSUME TypeOK, [Next]_vars, NEW e \in End
  PROVE  \/ live'[e] = live[e]
         \/ live'[e] = NoConn
         \/ live'[e] \in Conn /\ end[e][live'[e]] = "hs" /\ end'[e][live'[e]] = "up"
<1> DEFINE P == \/ live'[e] = live[e]
                \/ live'[e] = NoConn
                \/ live'[e] \in Conn /\ end[e][live'[e]] = "hs" /\ end'[e][live'[e]] = "up"
<1>1. ASSUME NEW x \in End, NEW c \in Conn, Session(x, c) PROVE P
  <2>1. CASE establish(x, c)
    <3>1. live' = [live EXCEPT ![x] = c] /\ end[x][c] = "hs"
      BY <2>1, Zenon DEF establish
    <3>2. end'[x][c] = "up"
      BY <2>1, Zenon DEF establish, TypeOK
    <3> QED
      BY <3>1, <3>2, Zenon DEF TypeOK
  <2>2. CASE runSessionEnds(x, c)
    BY <2>2, Zenon DEF runSessionEnds, TypeOK
  <2> QED
    BY <1>1, <2>1, <2>2, Zenon DEF Session, HandshakeFails, Notice
<1>2. ASSUME NEW x \in End, Die(x) PROVE P
  BY <1>2, Zenon DEF Die, TypeOK
<1>3. ASSUME NEW m \in Msg, User(m) PROVE P
  BY <1>2, <1>3, Zenon
     DEF User, SendReply, DeleteFromOutbox, DeleteMessage, DeleteMessageForEveryone, Prune,
         connVars, End
<1>4. CASE \/ \E f \in Flushers, force \in BOOLEAN : FlushStart(f, force)
           \/ \E f \in Flushers : Flush(f)
  BY <1>4, Zenon DEF FlushStart, Flush, FlushLock, FlushAttempt, FlushSend, connVars
<1>5. CASE \E c \in Conn : Receive(c) \/ RecvRefused(c) \/ MarkDelivered(c) \/ Cut(c)
  BY <1>5, Zenon DEF Receive, RecvMsg, RecvAck, RecvEmit, RecvDelAll, RecvRefused, MarkDelivered, Cut,
              connVars
<1>6. CASE \/ Connect
           \/ \E m \in Msg : BackoffExpires(m)
           \/ DeleteAllMessages
           \/ \E S \in SUBSET inbox : RcvDelete(S)
           \/ UNCHANGED vars
  BY <1>6, Zenon DEF Connect, BackoffExpires, DeleteAllMessages, RcvDelete, vars, connVars
<1> QED
  BY <1>1, <1>2, <1>3, <1>4, <1>5, <1>6, Zenon DEF Next, Crash

\* Only an open end writes on a connection.
LEMMA OutStep ==
  ASSUME TypeOK, [Next]_vars, NEW c \in Conn, out[c] = <<>>, end["snd"][c] # "up"
  PROVE  out'[c] = <<>>
<1>1. CASE out' = out
  BY <1>1, Zenon
<1>2. ASSUME NEW e, NEW C, Unread(e, C) PROVE out'[c] = <<>>
  BY <1>2, Zenon DEF Unread
<1>3. ASSUME NEW d, NEW x, end["snd"][d] = "up", out' = [out EXCEPT ![d] = x] PROVE out'[c] = <<>>
  BY <1>3, Zenon DEF TypeOK
<1>4. ASSUME NEW d, out[d] # <<>>, out' = [out EXCEPT ![d] = Tail(@)] PROVE out'[c] = <<>>
  BY <1>4, Zenon DEF TypeOK
<1>5. ASSUME NEW m \in Msg, DeleteMessageForEveryone(m) PROVE out'[c] = <<>>
  BY <1>1, <1>3, <1>5, Zenon DEF DeleteMessageForEveryone, AskDelete, WriteOK
<1>6. ASSUME NEW f \in Flushers, NEW m \in Msg, FlushSend(f, m) PROVE out'[c] = <<>>
  <2>1. \/ out' = out
        \/ /\ end["snd"][fl[f].link] = "up"
           /\ out' = [out EXCEPT ![fl[f].link] = Append(@, [t |-> "msg", id |-> m])]
    BY <1>6, Zenon DEF FlushSend, WriteOK
  <2> QED
    BY <1>1, <1>3, <2>1, Zenon
<1>7. ASSUME NEW d \in Conn, RecvMsg(d) \/ RecvDelAll(d) \/ RecvRefused(d) PROVE out'[c] = <<>>
  BY <1>4, <1>7, Zenon DEF RecvMsg, RecvDelAll, RecvRefused, Receiving
<1>8. ASSUME NEW e \in End, NEW d \in Conn, Session(e, d) PROVE out'[c] = <<>>
  BY <1>1, <1>2, <1>8, Zenon DEF Session, establish, HandshakeFails, Notice, runSessionEnds, wireVars
<1>9. ASSUME NEW e \in End, Crash(e) PROVE out'[c] = <<>>
  BY <1>2, <1>9, Zenon DEF Crash
<1>10. ASSUME NEW m \in Msg, User(m) \/ BackoffExpires(m) PROVE out'[c] = <<>>
  BY <1>1, <1>5, <1>10, Zenon
     DEF User, SendReply, DeleteFromOutbox, DeleteMessage, Prune, BackoffExpires, wireVars
<1>11. ASSUME NEW f \in Flushers, Flush(f) \/ \E force \in BOOLEAN : FlushStart(f, force)
       PROVE  out'[c] = <<>>
  BY <1>1, <1>6, <1>11, Zenon DEF Flush, FlushStart, FlushLock, FlushAttempt, wireVars
<1>12. ASSUME NEW d \in Conn, Receive(d) \/ MarkDelivered(d) \/ Cut(d) PROVE out'[c] = <<>>
  BY <1>1, <1>7, <1>12, Zenon DEF Receive, RecvAck, RecvEmit, MarkDelivered, Cut, wireVars
<1>13. CASE \/ Connect
            \/ DeleteAllMessages
            \/ \E S \in SUBSET inbox : RcvDelete(S)
            \/ UNCHANGED vars
  BY <1>1, <1>13, Zenon DEF Connect, DeleteAllMessages, RcvDelete, vars, wireVars
<1> QED
  BY <1>7, <1>8, <1>9, <1>10, <1>11, <1>12, <1>13, Zenon DEF Next

\* A flush keeps its link, and begins with the live one.
LEMMA FlushLinks ==
  ASSUME TypeOK, [Next]_vars, NEW f \in Flushers, fl'[f].pc # "idle"
  PROVE  \/ fl[f].pc # "idle" /\ fl'[f].link = fl[f].link
         \/ live["snd"] # NoConn /\ fl'[f].link = live["snd"] /\ ~Active(f)'
<1> DEFINE P == \/ fl[f].pc # "idle" /\ fl'[f].link = fl[f].link
                \/ live["snd"] # NoConn /\ fl'[f].link = live["snd"] /\ ~Active(f)'
<1>1. CASE fl' = fl
  BY <1>1, Zenon
<1>2. ASSUME NEW e \in End, Die(e) PROVE P
  BY <1>1, <1>2, Zenon DEF Die, IdleFlush
<1>3. ASSUME NEW g \in Flushers, NEW force \in BOOLEAN, FlushStart(g, force) PROVE P
  <2>1. fl' = [fl EXCEPT ![g] = [pc |-> "lock", link |-> live["snd"], force |-> force, todo |-> {}]]
    BY <1>3, Zenon DEF FlushStart
  <2>2. live["snd"] # NoConn
    BY <1>3, Zenon DEF FlushStart
  <2>3. CASE f # g
    BY <2>1, <2>3, Zenon DEF TypeOK
  <2>4. CASE f = g
    BY <2>1, <2>2, <2>4, Zenon DEF TypeOK, Active
  <2> QED
    BY <2>3, <2>4, Zenon
<1>4. ASSUME NEW g \in Flushers, NEW S, fl[g].pc # "idle", fl' = [fl EXCEPT ![g] = Flushing(g, S)]
      PROVE  P
  <2>1. fl'[f] = IF f = g THEN Flushing(g, S) ELSE fl[f]
    BY <1>4, Zenon DEF TypeOK
  <2>2. Flushing(g, S).pc # "idle" => Flushing(g, S).link = fl[g].link
    BY Zenon DEF Flushing, IdleFlush
  <2> QED
    BY <1>4, <2>1, <2>2, Zenon
<1>5. ASSUME NEW g \in Flushers, FlushLock(g) PROVE P
  BY <1>4, <1>5, Zenon DEF FlushLock
<1>6. ASSUME NEW g \in Flushers, NEW m \in Msg, FlushAttempt(g, m) PROVE P
  <2>1. fl[g] \in [pc : {"lock", "run", "send"}, link : Conn, force : BOOLEAN, todo : SUBSET Msg]
    BY <1>6 DEF FlushAttempt, TypeOK, FlushState, IdleFlush
  <2>2. CASE fl' = [fl EXCEPT ![g].pc = "send"]
    <3>1. fl'[f] = IF f = g THEN [fl[g] EXCEPT !.pc = "send"] ELSE fl[f]
      BY <2>2, Zenon DEF TypeOK
    <3>2. [fl[g] EXCEPT !.pc = "send"].link = fl[g].link
      BY <2>1, Zenon
    <3>3. fl[g].pc # "idle"
      BY <2>1, Zenon
    <3> QED
      BY <3>1, <3>2, <3>3, Zenon
  <2> QED
    BY <1>4, <1>6, <2>2, Zenon DEF FlushAttempt
<1>7. ASSUME NEW g \in Flushers, NEW m \in Msg, FlushSend(g, m) PROVE P
  <2>1. CASE fl' = [fl EXCEPT ![g] = IdleFlush]
    <3>1. fl'[f] = IF f = g THEN IdleFlush ELSE fl[f]
      BY <2>1, Zenon DEF TypeOK
    <3> QED
      BY <3>1 DEF IdleFlush
  <2> QED
    BY <1>4, <1>7, <2>1, Zenon DEF FlushSend
<1>8. ASSUME NEW e \in End, NEW d \in Conn, Session(e, d) PROVE P
  BY <1>1, <1>8, Zenon DEF Session, establish, HandshakeFails, Notice, runSessionEnds
<1>9. ASSUME NEW m \in Msg, User(m) \/ BackoffExpires(m) PROVE P
  BY <1>1, <1>2, <1>9, Zenon
     DEF User, SendReply, DeleteFromOutbox, DeleteMessage, DeleteMessageForEveryone, Prune,
         BackoffExpires, End
<1>10. ASSUME NEW d \in Conn, Receive(d) \/ RecvRefused(d) \/ MarkDelivered(d) \/ Cut(d) PROVE P
  BY <1>1, <1>10, Zenon
     DEF Receive, RecvMsg, RecvAck, RecvEmit, RecvDelAll, RecvRefused, MarkDelivered, Cut
<1>11. CASE \/ Connect
            \/ DeleteAllMessages
            \/ \E S \in SUBSET inbox : RcvDelete(S)
            \/ UNCHANGED vars
  BY <1>1, <1>11, Zenon DEF Connect, DeleteAllMessages, RcvDelete, vars
<1> QED
  BY <1>2, <1>3, <1>5, <1>6, <1>7, <1>8, <1>9, <1>10, <1>11, Zenon DEF Next, Crash, Flush

\* A flush that sends held flushMu before, or has just taken it free.
LEMMA FlushActive ==
  ASSUME TypeOK, [Next]_vars, NEW f \in Flushers, Active(f)'
  PROVE  /\ fl'[f].link = fl[f].link
         /\ Active(f) \/ (~FlushLocked(fl[f].link) /\ \A g \in Flushers \ {f} : fl'[g] = fl[g])
<1> DEFINE P == Active(f) \/ (~FlushLocked(fl[f].link) /\ \A g \in Flushers \ {f} : fl'[g] = fl[g])
<1>1. CASE fl' = fl
  BY <1>1, Zenon DEF Active
<1>2. ASSUME NEW e \in End, Die(e) PROVE P
  BY <1>1, <1>2, Zenon DEF Die, IdleFlush, Active
<1>3. ASSUME NEW g \in Flushers, NEW force \in BOOLEAN, FlushStart(g, force) PROVE P
  <2>1. fl' = [fl EXCEPT ![g] = [pc |-> "lock", link |-> live["snd"], force |-> force, todo |-> {}]]
    BY <1>3, Zenon DEF FlushStart
  <2> QED
    BY <2>1, Zenon DEF TypeOK, Active
<1>4. ASSUME NEW g \in Flushers, NEW x, Active(g), fl' = [fl EXCEPT ![g] = x] PROVE P
  BY <1>4, Zenon DEF TypeOK, Active
<1>5. ASSUME NEW g \in Flushers, FlushLock(g) PROVE P
  BY <1>5 DEF FlushLock, TypeOK, Active
<1>6. ASSUME NEW g \in Flushers, NEW m \in Msg, FlushAttempt(g, m) \/ FlushSend(g, m) PROVE P
  <2>1. Active(g)
    BY <1>6, Zenon DEF FlushAttempt, FlushSend, Active
  <2>2. PICK x : fl' = [fl EXCEPT ![g] = x]
    BY <1>6, Zenon DEF FlushAttempt, FlushSend
  <2> QED
    BY <1>4, <2>1, <2>2, Zenon
<1>7. ASSUME NEW e \in End, NEW d \in Conn, Session(e, d) PROVE P
  BY <1>1, <1>7, Zenon DEF Session, establish, HandshakeFails, Notice, runSessionEnds
<1>8. ASSUME NEW m \in Msg, User(m) \/ BackoffExpires(m) PROVE P
  BY <1>1, <1>2, <1>8, Zenon
     DEF User, SendReply, DeleteFromOutbox, DeleteMessage, DeleteMessageForEveryone, Prune,
         BackoffExpires, End
<1>9. ASSUME NEW d \in Conn, Receive(d) \/ RecvRefused(d) \/ MarkDelivered(d) \/ Cut(d) PROVE P
  BY <1>1, <1>9, Zenon
     DEF Receive, RecvMsg, RecvAck, RecvEmit, RecvDelAll, RecvRefused, MarkDelivered, Cut
<1>10. CASE \/ Connect
            \/ DeleteAllMessages
            \/ \E S \in SUBSET inbox : RcvDelete(S)
            \/ UNCHANGED vars
  BY <1>1, <1>10, Zenon DEF Connect, DeleteAllMessages, RcvDelete, vars
<1>11. P
  BY <1>2, <1>3, <1>5, <1>6, <1>7, <1>8, <1>9, <1>10, Zenon DEF Next, Crash, Flush
<1>12. fl'[f].link = fl[f].link
  BY FlushLinks, Zenon DEF Active
<1> QED
  BY <1>11, <1>12, Zenon

\* The bookkeeping of the sessions holds from step to step.
LEMMA LinksStep ==
  ASSUME TypeOK, Links, [Next]_vars PROVE Links'
<1>1. /\ nconn \in Nat /\ \A c \in Conn : c \in Nat \ {0}
      /\ live["snd"] \in Conn \cup {NoConn} /\ live["rcv"] \in Conn \cup {NoConn}
      /\ "snd" \in End /\ "rcv" \in End
  BY DeliveryBounds DEF TypeOK, Conn, End
<1>2. \A f \in Flushers : fl[f].pc # "idle" => fl[f].link \in Conn
  BY DEF TypeOK, FlushState, IdleFlush
<1>3. \A f, g \in Flushers : Active(f)' /\ Active(g)' /\ fl'[f].link = fl'[g].link => f = g
  <2> SUFFICES ASSUME NEW f \in Flushers, NEW g \in Flushers, Active(f)', Active(g)',
                      fl'[f].link = fl'[g].link, f # g
               PROVE  FALSE
    BY Zenon
  <2>1. fl[f].link = fl[g].link
    BY FlushActive, Zenon
  <2>2. CASE Active(f) /\ Active(g)
    BY <2>1, <2>2, Zenon DEF Links
  <2>3. CASE ~Active(f)
    <3>1. ~FlushLocked(fl[f].link) /\ fl'[g] = fl[g]
      BY <2>3, FlushActive, Zenon
    <3> QED
      BY <2>1, <3>1, Zenon DEF FlushLocked, Active
  <2>4. CASE ~Active(g)
    <3>1. ~FlushLocked(fl[g].link) /\ fl'[f] = fl[f]
      BY <2>4, FlushActive, Zenon
    <3> QED
      BY <2>1, <3>1, Zenon DEF FlushLocked, Active
  <2> QED
    BY <2>2, <2>3, <2>4, Zenon
<1>4. CASE Connect
  <2>1. /\ nconn' = nconn + 1 /\ UNCHANGED <<live, cut, out, fl>>
    BY <1>4, Zenon DEF Connect, wireVars
  <2>2. \A e \in End, c \in Conn : end'[e][c] = IF c = nconn + 1 THEN "hs" ELSE end[e][c]
    BY <1>4, Zenon DEF Connect, TypeOK
  <2>3. \A e \in End, c \in Conn : /\ end'[e][c] = "none" <=> c > nconn'
                                   /\ end'[e][c] \in {"closed", "gone"} => c \in cut'
    BY <1>1, <2>1, <2>2 DEF Links
  <2>4. \A e \in End : live'[e] # NoConn => live'[e] <= nconn' /\ end'[e][live'[e]] \notin {"none", "hs"}
    <3> SUFFICES ASSUME NEW e \in End, live[e] # NoConn
                 PROVE  live[e] <= nconn' /\ end'[e][live[e]] \notin {"none", "hs"}
      BY <2>1, Zenon
    <3>1. live[e] \in Conn /\ live[e] <= nconn /\ end[e][live[e]] \notin {"none", "hs"}
      BY DEF Links, TypeOK
    <3> QED
      BY <1>1, <2>1, <2>2, <3>1
  <2>5. \A f \in Flushers : fl'[f].pc # "idle" =>
          fl'[f].link <= nconn' /\ end'["snd"][fl'[f].link] \notin {"none", "hs"}
    <3> SUFFICES ASSUME NEW f \in Flushers, fl[f].pc # "idle"
                 PROVE  fl[f].link <= nconn' /\ end'["snd"][fl[f].link] \notin {"none", "hs"}
      BY <2>1, Zenon
    <3>1. fl[f].link \in Conn /\ fl[f].link <= nconn /\ end["snd"][fl[f].link] \notin {"none", "hs"}
      BY <1>2, Zenon DEF Links
    <3> QED
      BY <1>1, <2>1, <2>2, <3>1
  <2>6. \A c \in Conn : c > nconn' => out'[c] = <<>>
    BY <1>1, <2>1 DEF Links
  <2> QED
    BY <1>3, <2>3, <2>4, <2>5, <2>6, Zenon DEF Links
<1>5. CASE ~Connect
  <2>1. /\ nconn' = nconn
        /\ \A e \in End, c \in Conn : /\ Moves(end[e][c], end'[e][c])
                                      /\ end'[e][c] \in {"closed", "gone"} => c \in cut'
    BY <1>5, EndsStep, Zenon
  <2>2. \A e \in End, c \in Conn : end[e][c] \in {"none", "hs", "up", "closed", "gone"}
    BY Zenon DEF TypeOK
  <2>3. \A e \in End, c \in Conn : end[e][c] \notin {"none", "hs"} => end'[e][c] \notin {"none", "hs"}
    BY <2>1, <2>2, Zenon DEF Moves
  <2>4. \A e \in End, c \in Conn : end'[e][c] = "none" <=> c > nconn'
    BY <2>1, Zenon DEF Links, Moves
  <2>5. \A e \in End : live'[e] # NoConn => live'[e] <= nconn' /\ end'[e][live'[e]] \notin {"none", "hs"}
    <3> SUFFICES ASSUME NEW e \in End, live'[e] # NoConn
                 PROVE  live'[e] <= nconn' /\ end'[e][live'[e]] \notin {"none", "hs"}
      BY Zenon
    <3>1. CASE live'[e] = live[e]
      <4>1. live[e] \in Conn /\ live[e] <= nconn /\ end[e][live[e]] \notin {"none", "hs"}
        BY <3>1, Zenon DEF Links, TypeOK
      <4> QED
        BY <2>1, <2>3, <3>1, <4>1, Zenon
    <3>2. CASE live'[e] \in Conn /\ end[e][live'[e]] = "hs" /\ end'[e][live'[e]] = "up"
      BY <1>1, <2>1, <3>2 DEF Links
    <3> QED
      BY <3>1, <3>2, LiveStep, Zenon
  <2>6. \A f \in Flushers : fl'[f].pc # "idle" =>
          fl'[f].link <= nconn' /\ end'["snd"][fl'[f].link] \notin {"none", "hs"}
    <3> SUFFICES ASSUME NEW f \in Flushers, fl'[f].pc # "idle"
                 PROVE  fl'[f].link <= nconn' /\ end'["snd"][fl'[f].link] \notin {"none", "hs"}
      BY Zenon
    <3>1. fl'[f].link \in Conn /\ fl'[f].link <= nconn /\ end["snd"][fl'[f].link] \notin {"none", "hs"}
      BY <1>1, <1>2, FlushLinks, Zenon DEF Links
    <3> QED
      BY <1>1, <2>1, <2>3, <3>1, Zenon
  <2>7. \A c \in Conn : c > nconn' => out'[c] = <<>>
    <3>1. \A c \in Conn : c > nconn => out[c] = <<>> /\ end["snd"][c] # "up"
      BY <1>1, Zenon DEF Links
    <3> QED
      BY <2>1, <3>1, OutStep, Zenon
  <2> QED
    BY <1>3, <2>1, <2>4, <2>5, <2>6, <2>7, Zenon DEF Links
<1> QED
  BY <1>4, <1>5, Zenon

-----------------------------------------------------------------------------
(* The messages.                                                           *)

\* Only SendReply makes a message of what was none, and nothing makes a
\* deleted message anything else.
LEMMA MsgsStep ==
  ASSUME TypeOK, [Next]_vars, NEW m \in Msg
  PROVE  /\ msgs[m] = "none" /\ msgs'[m] # "none" => \A k \in 1 .. m - 1 : msgs[k] # "none"
         /\ msgs[m] = "deleted" => msgs'[m] = "deleted"
<1> DEFINE P == /\ msgs[m] = "none" /\ msgs'[m] # "none" => \A k \in 1 .. m - 1 : msgs[k] # "none"
                /\ msgs[m] = "deleted" => msgs'[m] = "deleted"
<1>1. CASE UNCHANGED msgs
  BY <1>1, Zenon
<1>2. ASSUME NEW S, NEW how, S \subseteq Held, Remove(S, how) PROVE P
  BY <1>2, Zenon DEF Remove, Held
<1>3. ASSUME NEW k \in Msg, User(k) PROVE P
  <2>1. CASE SendReply(k)
    BY <2>1, Zenon DEF SendReply, TypeOK
  <2>2. CASE DeleteFromOutbox(k) \/ DeleteMessage(k)
    BY <1>2, <2>2, Zenon DEF DeleteFromOutbox, DeleteMessage, Held
  <2>3. CASE DeleteMessageForEveryone(k)
    BY <1>1, <1>2, <2>3, Zenon DEF DeleteMessageForEveryone, AskDelete, sndVars, Held
  <2>4. CASE Prune(k)
    <3>1. {j \in 1 .. k : msgs[j] = "delivered"} \subseteq Held
      BY DeliveryBounds DEF Held, Msg
    <3> QED
      BY <1>2, <2>4, <3>1, Zenon DEF Prune
  <2> QED
    BY <1>3, <2>1, <2>2, <2>3, <2>4, Zenon DEF User
<1>4. CASE DeleteAllMessages
  BY <1>2, <1>4, Zenon DEF DeleteAllMessages
<1>5. ASSUME NEW c \in Conn, MarkDelivered(c) PROVE P
  BY <1>1, <1>5, Zenon DEF MarkDelivered, sndVars, TypeOK
<1>6. CASE \/ Connect
           \/ \E e \in End, c \in Conn : Session(e, c)
           \/ \E c \in Conn : Cut(c)
           \/ \E e \in End : Crash(e)
           \/ \E k \in Msg : BackoffExpires(k)
           \/ \E f \in Flushers, force \in BOOLEAN : FlushStart(f, force)
           \/ \E f \in Flushers : Flush(f)
           \/ \E c \in Conn : Receive(c) \/ RecvRefused(c)
           \/ \E S \in SUBSET inbox : RcvDelete(S)
           \/ UNCHANGED vars
  BY <1>1, <1>6, Zenon
     DEF Connect, Session, establish, HandshakeFails, Notice, runSessionEnds, Cut, Crash,
         BackoffExpires, FlushStart, Flush, FlushLock, FlushAttempt, FlushSend, Receive, RecvMsg,
         RecvAck, RecvEmit, RecvDelAll, RecvRefused, RcvDelete, vars, sndVars
<1> QED
  BY <1>3, <1>4, <1>5, <1>6, Zenon DEF Next

\* What is stored is read off the wire by an end that is up.
LEMMA StoredStep ==
  ASSUME TypeOK, [Next]_vars
  PROVE  \/ stored' = stored
         \/ \E c \in Conn : RecvMsg(c)
BY Zenon DEF Next, Connect, Session, establish, HandshakeFails, Notice, runSessionEnds, Cut, Crash, Die,
       User, SendReply, DeleteFromOutbox, DeleteMessage, DeleteMessageForEveryone, Prune,
       BackoffExpires, DeleteAllMessages, FlushStart, Flush, FlushLock, FlushAttempt, FlushSend,
       Receive, RecvAck, RecvEmit, RecvDelAll, RecvRefused, MarkDelivered, RcvDelete, vars, rcvVars

\* Only an attempt puts a message in backoff.
LEMMA CoolingStep ==
  ASSUME TypeOK, [Next]_vars
  PROVE  \/ cooling' \subseteq cooling
         \/ \E f \in Flushers, m \in Msg : FlushAttempt(f, m)
BY Zenon DEF Next, Connect, Session, establish, HandshakeFails, Notice, runSessionEnds, Cut, Crash, Die,
       User, SendReply, DeleteFromOutbox, DeleteMessage, DeleteMessageForEveryone, Prune, Remove,
       BackoffExpires, DeleteAllMessages, FlushStart, Flush, FlushLock, FlushSend,
       Receive, RecvMsg, RecvAck, RecvEmit, RecvDelAll, RecvRefused, MarkDelivered, RcvDelete,
       vars, sndVars

\* Messages stay numbered in the order they were sent.
LEMMA NumberedStep ==
  ASSUME RInv, Numbered, [Next]_vars PROVE Numbered'
<1>1. TypeOK /\ Posted \subseteq Posted'
  BY PostedGrows, Zenon DEF RInv, Inv
<1>2. ASSUME NEW m \in Msg, NEW k \in Msg, k < m, msgs'[m] # "none" PROVE msgs'[k] # "none"
  <2>1. k \in 1 .. m - 1
    BY <1>2, DeliveryBounds DEF Msg
  <2>2. msgs[k] # "none"
    BY <1>1, <1>2, <2>1, MsgsStep, Zenon DEF Numbered
  <2> QED
    BY <1>1, <2>2, Zenon DEF Posted
<1>3. stored' \subseteq Posted'
  <2>1. ASSUME NEW c \in Conn, RecvMsg(c) PROVE stored' \subseteq Posted'
    <3>1. Head(out[c]) \in Frames
      BY <2>1, QueuePop, Zenon DEF RecvMsg, Receiving, RInv
    <3>2. stored' = stored \cup {Head(out[c]).id}
      BY <2>1, Zenon DEF RecvMsg
    <3> QED
      BY <1>1, <3>1, <3>2, Zenon DEF Frames, Numbered
  <2> QED
    BY <1>1, <2>1, StoredStep, Zenon DEF Numbered
<1> QED
  BY <1>2, <1>3, Zenon DEF Numbered

\* Before the first session nothing is stored and nothing is in backoff.
LEMMA FreshStep ==
  ASSUME TypeOK, Links, Fresh, [Next]_vars PROVE Fresh'
<1> SUFFICES ASSUME nconn' = 0 PROVE stored' = {} /\ cooling' = {}
  BY Zenon DEF Fresh
<1>1. nconn = 0
  <2>1. CASE Connect
    BY <2>1 DEF Connect, TypeOK
  <2> QED
    BY <2>1, EndsStep, Zenon
<1>2. \A c \in Conn : c > nconn
  BY <1>1, DeliveryBounds DEF Conn
<1>3. ~\E c \in Conn : RecvMsg(c)
  BY <1>2, Zenon DEF RecvMsg, Receiving, Links, End
<1>4. ~\E f \in Flushers, m \in Msg : FlushAttempt(f, m)
  <2> SUFFICES ASSUME NEW f \in Flushers, fl[f].pc = "run" PROVE FALSE
    BY Zenon DEF FlushAttempt
  <2>1. fl[f].link \in Conn
    BY DEF TypeOK, FlushState, IdleFlush
  <2>2. fl[f].link <= nconn
    BY Zenon DEF Links
  <2> QED
    BY <1>1, <2>1, <2>2, DeliveryBounds DEF Conn
<1> QED
  BY <1>1, <1>3, <1>4, StoredStep, CoolingStep, Zenon DEF Fresh

-----------------------------------------------------------------------------
(* The wire of the first session.                                          *)

\* A frame more at the tail of a queue.
LEMMA IdsAppend ==
  ASSUME NEW q \in Seq(Frame), NEW x \in Frame
  PROVE  /\ \A n \in 0 .. Len(q) : Ids(Append(q, x), n) = Ids(q, n)
         /\ Ids(Append(q, x), Len(q) + 1) = IF x.t = "msg" THEN Ids(q, Len(q)) \cup {x.id}
                                                           ELSE Ids(q, Len(q))
<1> DEFINE r == Append(q, x)
<1>1. /\ Len(q) \in Nat /\ r[Len(q) + 1] = x
      /\ \A j \in 1 .. Len(q) : r[j] = q[j]
  OBVIOUS
<1> HIDE DEF r
<1>2. \A n \in 0 .. Len(q) : Ids(r, n) = Ids(q, n)
  <2> SUFFICES ASSUME NEW n \in 0 .. Len(q) PROVE Ids(r, n) = Ids(q, n)
    BY Zenon
  <2>1. \A j \in 1 .. n : r[j] = q[j]
    BY <1>1
  <2>2. {j \in 1 .. n : r[j].t = "msg"} = {j \in 1 .. n : q[j].t = "msg"}
    BY <2>1, Zenon
  <2> QED
    BY <2>1, <2>2, Zenon DEF Ids
<1>3. Ids(r, Len(q) + 1) = IF x.t = "msg" THEN Ids(q, Len(q)) \cup {x.id} ELSE Ids(q, Len(q))
  <2>1. \A j : j \in 1 .. Len(q) + 1 <=> j \in 1 .. Len(q) \/ j = Len(q) + 1
    BY <1>1
  <2>2. \A v : v \in Ids(r, Len(q) + 1) <=>
               v \in Ids(q, Len(q)) \/ (x.t = "msg" /\ v = x.id)
    BY <1>1, <2>1, Zenon DEF Ids
  <2> QED
    BY <2>2, Zenon
<1> QED
  BY <1>2, <1>3, Zenon DEF r

\* A frame fewer at its head.
LEMMA IdsTail ==
  ASSUME NEW q \in Seq(Frame), q # <<>>, NEW n \in 0 .. Len(q) - 1
  PROVE  Ids(q, n + 1) = Ids(Tail(q), n) \cup (IF Head(q).t = "msg" THEN {Head(q).id} ELSE {})
<1> DEFINE r == Tail(q)
<1>1. /\ Len(q) \in Nat /\ Head(q) = q[1]
      /\ \A j \in 1 .. n : r[j] = q[j + 1]
  OBVIOUS
<1> HIDE DEF r
<1>2. \A j : j \in 1 .. n + 1 => j = 1 \/ (j - 1 \in 1 .. n /\ j = (j - 1) + 1)
  BY <1>1
<1>3. \A j \in 1 .. n : j + 1 \in 1 .. n + 1
  BY <1>1
<1>4. 1 \in 1 .. n + 1
  BY <1>1
<1>5. ASSUME NEW v \in Ids(q, n + 1) PROVE v \in Ids(r, n) \/ (Head(q).t = "msg" /\ v = Head(q).id)
  <2>1. PICK j \in 1 .. n + 1 : q[j].t = "msg" /\ v = q[j].id
    BY <1>5, Zenon DEF Ids
  <2>2. CASE j = 1
    BY <1>1, <2>1, <2>2, Zenon
  <2>3. CASE j - 1 \in 1 .. n /\ j = (j - 1) + 1
    <3>1. r[j - 1] = q[j]
      BY <1>1, <2>3, Zenon
    <3> QED
      BY <2>1, <2>3, <3>1, Zenon DEF Ids
  <2> QED
    BY <1>2, <2>2, <2>3, Zenon
<1>6. ASSUME NEW v \in Ids(r, n) PROVE v \in Ids(q, n + 1)
  BY <1>1, <1>3, <1>6, Zenon DEF Ids
<1>7. Head(q).t = "msg" => Head(q).id \in Ids(q, n + 1)
  BY <1>1, <1>4, Zenon DEF Ids
<1> QED
  BY <1>5, <1>6, <1>7, Zenon DEF r

\* Another frame on the wire: it keeps the order unless it is a message that
\* something newer has gone before.
LEMMA Appended ==
  ASSUME TypeOK, 1 \in Conn, stored' = stored, NEW x \in Frame, out'[1] = Append(out[1], x)
  PROVE  /\ Gone' = IF x.t = "msg" THEN Gone \cup {x.id} ELSE Gone
         /\ /\ WireOrder /\ Moves(end["rcv"][1], end'["rcv"][1])
            /\ x.t = "msg" /\ x.id \notin Gone => \A k \in Gone : k < x.id
            => WireOrder'
<1> DEFINE q == out[1]
           r == Append(q, x)
<1>1. q \in Seq(Frame) /\ Len(q) \in Nat /\ Len(r) = Len(q) + 1
  <2>1. q \in Seq(Frame)
    BY Zenon DEF TypeOK
  <2> QED
    BY <2>1
<1>2. \A n \in 0 .. Len(q) : Ids(r, n) = Ids(q, n)
  BY <1>1, IdsAppend, Zenon
<1>3. Ids(r, Len(r)) = IF x.t = "msg" THEN Ids(q, Len(q)) \cup {x.id} ELSE Ids(q, Len(q))
  <2>1. Ids(r, Len(q) + 1) = IF x.t = "msg" THEN Ids(q, Len(q)) \cup {x.id} ELSE Ids(q, Len(q))
    BY <1>1, IdsAppend, Zenon
  <2> QED
    BY <1>1, <2>1, Zenon
<1>4. out'[1] = r
  BY Zenon
<1>5. r[Len(r)] = x /\ \A i \in 1 .. Len(q) : r[i] = q[i]
  BY <1>1
<1> HIDE DEF r
<1>6. Gone' = IF x.t = "msg" THEN Gone \cup {x.id} ELSE Gone
  BY <1>3, <1>4, Zenon DEF Gone, Before
<1>7. \A n \in 0 .. Len(q) : Before(n)' = Before(n)
  BY <1>2, <1>4, Zenon DEF Before
<1>8. ASSUME WireOrder, Moves(end["rcv"][1], end'["rcv"][1]),
             x.t = "msg" /\ x.id \notin Gone => \A k \in Gone : k < x.id
      PROVE  WireOrder'
  <2> SUFFICES ASSUME end'["rcv"][1] \notin {"closed", "gone"}, NEW i \in 1 .. Len(r),
                      r[i].t = "msg", r[i].id \notin Before(i - 1)',
                      NEW k \in Before(i - 1)'
               PROVE  k < r[i].id
    BY <1>4, Zenon DEF WireOrder
  <2>1. end["rcv"][1] \notin {"closed", "gone"}
    BY <1>8, Zenon DEF Moves
  <2>2. i - 1 \in 0 .. Len(q)
    BY <1>1
  <2>3. Before(i - 1)' = Before(i - 1)
    BY <1>7, <2>2, Zenon
  <2>4. CASE i \in 1 .. Len(q)
    <3>1. r[i] = q[i]
      BY <1>5, <2>4, Zenon
    <3> QED
      BY <1>8, <2>1, <2>3, <2>4, <3>1, Zenon DEF WireOrder
  <2>5. CASE i = Len(q) + 1
    <3>1. r[i] = x /\ Before(i - 1) = Gone
      BY <1>1, <1>5, <2>5 DEF Gone
    <3> QED
      BY <1>8, <2>3, <3>1, Zenon
  <2> QED
    BY <1>1, <2>4, <2>5
<1> QED
  BY <1>6, <1>8, Zenon

\* A frame that the receiver has read, and stored if it is a message.
LEMMA Taken ==
  ASSUME TypeOK, 1 \in Conn, out[1] # <<>>, out'[1] = Tail(out[1]),
         stored' = stored \cup (IF Head(out[1]).t = "msg" THEN {Head(out[1]).id} ELSE {})
  PROVE  /\ Gone' = Gone
         /\ WireOrder /\ Moves(end["rcv"][1], end'["rcv"][1]) => WireOrder'
<1> DEFINE q == out[1]
           r == Tail(q)
<1>1. q \in Seq(Frame) /\ Len(q) \in Nat /\ Len(q) >= 1 /\ Len(r) = Len(q) - 1
  BY DEF TypeOK
<1>2. \A n \in 0 .. Len(q) - 1 :
         Ids(q, n + 1) = Ids(r, n) \cup (IF Head(q).t = "msg" THEN {Head(q).id} ELSE {})
  BY <1>1, IdsTail, Zenon
<1>3. out'[1] = r
  BY Zenon
<1>4. \A i \in 1 .. Len(r) : r[i] = q[i + 1]
  BY <1>1
<1> HIDE DEF r
<1>5. \A n \in 0 .. Len(q) - 1 : Before(n)' = Before(n + 1)
  BY <1>2, <1>3, Zenon DEF Before
<1>6. Gone' = Gone
  <2>1. Len(r) \in 0 .. Len(q) - 1 /\ Len(r) + 1 = Len(q)
    BY <1>1
  <2>2. PICK n \in 0 .. Len(q) - 1 : n = Len(r) /\ n + 1 = Len(q)
    BY <2>1, Zenon
  <2>3. Before(n)' = Before(n + 1)
    BY <1>5, Zenon
  <2> QED
    BY <1>3, <2>2, <2>3, Zenon DEF Gone, Before
<1>7. ASSUME WireOrder, Moves(end["rcv"][1], end'["rcv"][1]) PROVE WireOrder'
  <2> SUFFICES ASSUME end'["rcv"][1] \notin {"closed", "gone"}, NEW i \in 1 .. Len(r),
                      r[i].t = "msg", r[i].id \notin Before(i - 1)',
                      NEW k \in Before(i - 1)'
               PROVE  k < r[i].id
    BY <1>3, Zenon DEF WireOrder
  <2>1. end["rcv"][1] \notin {"closed", "gone"}
    BY <1>7, Zenon DEF Moves
  <2>2. i - 1 \in 0 .. Len(q) - 1 /\ i + 1 \in 1 .. Len(q) /\ (i - 1) + 1 = (i + 1) - 1
    BY <1>1
  <2>3. Before(i - 1)' = Before((i + 1) - 1) /\ r[i] = q[i + 1]
    BY <1>4, <1>5, <2>2, Zenon
  <2> QED
    BY <1>7, <2>1, <2>2, <2>3, Zenon DEF WireOrder
<1> QED
  BY <1>6, <1>7, Zenon

\* A wire nobody touches stays in order.
LEMMA WireKept ==
  ASSUME WireOrder, stored' = stored, out'[1] = out[1], Moves(end["rcv"][1], end'["rcv"][1])
  PROVE  WireOrder' /\ Gone' = Gone
<1>1. (\A n : Before(n)' = Before(n)) /\ Gone' = Gone
  BY Zenon DEF Before, Gone
<1> QED
  BY <1>1, Zenon DEF WireOrder, Moves

-----------------------------------------------------------------------------
(* The flushes on the first session, while it is not cut.                  *)

\* A step that leaves the flushes at work, the wire and the backoffs alone.
LEMMA SendersKept ==
  ASSUME Unbroken, Gone' = Gone, cooling' \subseteq cooling,
         \A g \in Flushers : fl'[g] = fl[g] \/ (~Active(g) /\ ~Active(g)'),
         \A k \in Msg : msgs[k] = "deleted" => msgs'[k] = "deleted"
  PROVE  Unbroken'
<1>1. \A g \in Flushers : /\ Active(g)' <=> Active(g)
                          /\ Active(g) => fl'[g].todo = fl[g].todo
                          /\ \A k : Sending(g, k)' <=> Sending(g, k)
  BY Zenon DEF Active, Sending, Oldest
<1>2. NoneOvertaken'
  BY <1>1, Zenon DEF Unbroken, NoneOvertaken
<1>3. NoneLeftOut'
  BY <1>1, Zenon DEF Unbroken, NoneLeftOut
<1>4. CoolingIsSent'
  BY <1>1, Zenon DEF Unbroken, CoolingIsSent
<1> QED
  BY <1>2, <1>3, <1>4, Zenon DEF Unbroken

\* In the first session every flush uses that session, one at a time; a
\* message that was sent and is not held is deleted or stored.
LEMMA FirstLink ==
  ASSUME OInv, nconn = 1
  PROVE  /\ \A f \in Flushers : fl[f].pc # "idle" => fl[f].link = 1
         /\ \A f, g \in Flushers : Active(f) /\ Active(g) => f = g
         /\ \A k \in Posted : k \notin Held => msgs[k] = "deleted" \/ k \in Gone
         /\ \A k \in Posted : k \notin outbox => msgs[k] = "deleted" \/ k \in Gone
<1>1. TypeOK
  BY Zenon DEF OInv, RInv, Inv
<1>2. ASSUME NEW f \in Flushers, fl[f].pc # "idle" PROVE fl[f].link = 1
  <2>1. fl[f].link \in Conn
    BY <1>1, <1>2 DEF TypeOK, FlushState, IdleFlush
  <2>2. fl[f].link <= 1
    BY <1>2, Zenon DEF OInv, Links
  <2> QED
    BY <2>1, <2>2, DeliveryBounds DEF Conn
<1>3. \A f, g \in Flushers : Active(f) /\ Active(g) => f = g
  <2>1. \A f \in Flushers : Active(f) => fl[f].link = 1
    BY <1>2, Zenon DEF Active
  <2> QED
    BY <2>1, Zenon DEF OInv, Links
<1>4. \A k \in Msg : msgs[k] \in {"none", "queued", "delivered", "deleted", "pruned"}
  BY <1>1, Zenon DEF TypeOK
<1>5. \A k \in Msg : msgs[k] \in {"delivered", "pruned"} => k \in Gone
  BY Zenon DEF OInv, RInv, Inv, AcksMeanPersisted, Gone, Before
<1>6. \A k \in Msg : msgs[k] = "queued" => k \in outbox
  BY Zenon DEF OInv, RInv, Inv
<1> QED
  BY <1>2, <1>3, <1>4, <1>5, <1>6, Zenon DEF Posted, Held

\* Nothing older is left out when flushMu is taken and Pending is read: what
\* is in backoff has gone out, for nobody else is sending.
LEMMA FlushLockKeeps ==
  ASSUME OInv, nconn = 1, Unbroken, NEW f \in Flushers, FlushLock(f), Gone' = Gone
  PROVE  Unbroken'
<1> DEFINE S == {m \in outbox : fl[f].force \/ m \notin cooling}
<1>1. /\ fl[f].pc = "lock" /\ ~FlushLocked(fl[f].link) /\ fl' = [fl EXCEPT ![f] = Flushing(f, S)]
      /\ UNCHANGED <<msgs, outbox, cooling>>
  BY Zenon DEF FlushLock, sndVars
<1>2. \A g \in Flushers : ~Active(g)
  <2> SUFFICES ASSUME NEW g \in Flushers, Active(g) PROVE FALSE
    BY Zenon
  <2>1. fl[g].link = 1 /\ fl[f].link = 1
    BY <1>1, FirstLink, Zenon DEF Active
  <2> QED
    BY <1>1, <2>1, Zenon DEF FlushLocked, Active
<1>3. cooling \subseteq Gone
  BY <1>2, Zenon DEF Unbroken, CoolingIsSent, Sending, Active
<1>4. fl'[f] = Flushing(f, S) /\ \A g \in Flushers \ {f} : fl'[g] = fl[g]
  BY <1>1, Zenon DEF OInv, RInv, Inv, TypeOK
<1>5. Flushing(f, S).pc # "send" /\ (Flushing(f, S).pc = "run" => Flushing(f, S).todo = S)
  BY Zenon DEF Flushing, IdleFlush
<1>6. \A g \in Flushers : /\ \A k : ~Sending(g, k)'
                          /\ Active(g)' => g = f /\ fl'[g].todo = S
  BY <1>2, <1>4, <1>5, Zenon DEF Active, Sending
<1>7. NoneOvertaken'
  BY <1>1, <1>6, Zenon DEF Unbroken, NoneOvertaken
<1>8. CoolingIsSent'
  BY <1>1, <1>3, Zenon DEF CoolingIsSent
<1>9. NoneLeftOut'
  <2> SUFFICES ASSUME NEW k \in Msg, k \notin Gone, k \notin S, NEW m \in S, k < m
               PROVE  msgs[k] = "deleted"
    BY <1>1, <1>6, Zenon DEF NoneLeftOut
  <2>1. m \in Posted
    BY Zenon DEF OInv, RInv
  <2>2. k \in Posted
    BY <2>1, Zenon DEF OInv, Numbered, Posted
  <2>3. k \notin outbox
    BY <1>3, Zenon
  <2> QED
    BY <2>2, <2>3, FirstLink, Zenon
<1> QED
  BY <1>7, <1>8, <1>9, Zenon DEF Unbroken

\* An attempt is for the oldest message left, which nothing has overtaken if
\* the store still has it.
LEMMA FlushAttemptKeeps ==
  ASSUME OInv, nconn = 1, Unbroken, NEW f \in Flushers, NEW m \in Msg, FlushAttempt(f, m),
         Gone' = Gone
  PROVE  Unbroken'
<1>1. /\ fl[f].pc = "run" /\ Oldest(f, m) /\ Active(f) /\ msgs' = msgs /\ outbox' = outbox
  BY Zenon DEF FlushAttempt, Active
<1>2. fl[f] \in [pc : {"lock", "run", "send"}, link : Conn, force : BOOLEAN, todo : SUBSET Msg]
  BY <1>1 DEF OInv, RInv, Inv, TypeOK, FlushState, IdleFlush
<1>3. \A g \in Flushers \ {f} : ~Active(g)
  BY <1>1, FirstLink, Zenon
<1>4. \A g \in Flushers : \A k : ~Sending(g, k)
  BY <1>1, <1>3, Zenon DEF Sending, Active
<1>5. cooling \subseteq Gone
  BY <1>4, Zenon DEF Unbroken, CoolingIsSent
<1>6. \A k : Oldest(f, k) => k = m
  BY <1>1, <1>2, DeliveryBounds DEF Oldest, Msg
<1>7. CASE m \in Held
  <2>1. fl' = [fl EXCEPT ![f].pc = "send"] /\ cooling' = cooling \cup ({m} \cap outbox)
    BY <1>7, Zenon DEF FlushAttempt
  <2>2. fl'[f] = [fl[f] EXCEPT !.pc = "send"] /\ \A g \in Flushers \ {f} : fl'[g] = fl[g]
    BY <2>1, Zenon DEF OInv, RInv, Inv, TypeOK
  <2>3. fl'[f].pc = "send" /\ fl'[f].todo = fl[f].todo
    BY <1>2, <2>2, Zenon
  <2>4. /\ \A g \in Flushers : \A k : Sending(g, k)' => g = f /\ k = m
        /\ Sending(f, m)'
        /\ \A g \in Flushers : Active(g)' => g = f
    <3>1. \A g \in Flushers \ {f} : ~Active(g)' /\ \A k : ~Sending(g, k)'
      BY <1>3, <2>2, Zenon DEF Sending, Active
    <3>2. \A k : Oldest(f, k)' <=> Oldest(f, k)
      BY <2>3, Zenon DEF Oldest
    <3>3. \A k : Sending(f, k)' <=> Oldest(f, k)
      BY <2>3, <3>2, Zenon DEF Sending
    <3> QED
      BY <1>1, <1>6, <3>1, <3>3, Zenon
  <2>5. NoneOvertaken'
    <3> SUFFICES ASSUME NEW k \in Msg, k \notin Gone, NEW s \in Gone, k < s
                 PROVE  msgs[k] = "deleted" /\ \A g \in Flushers : ~Sending(g, k)'
      BY <1>1, Zenon DEF NoneOvertaken
    <3>1. msgs[k] = "deleted"
      BY Zenon DEF Unbroken, NoneOvertaken
    <3>2. k # m
      BY <1>7, <3>1, Zenon DEF Held
    <3> QED
      BY <2>4, <3>1, <3>2, Zenon
  <2>6. NoneLeftOut'
    BY <1>1, <2>3, <2>4, Zenon DEF Unbroken, NoneLeftOut
  <2>7. CoolingIsSent'
    BY <1>5, <2>1, <2>4, Zenon DEF CoolingIsSent
  <2> QED
    BY <2>5, <2>6, <2>7, Zenon DEF Unbroken
<1>8. CASE m \notin Held
  <2> DEFINE S == fl[f].todo \ {m}
  <2>1. fl' = [fl EXCEPT ![f] = Flushing(f, S)] /\ cooling' = cooling
    BY <1>8, Zenon DEF FlushAttempt
  <2>2. fl'[f] = Flushing(f, S) /\ \A g \in Flushers \ {f} : fl'[g] = fl[g]
    BY <2>1, Zenon DEF OInv, RInv, Inv, TypeOK
  <2>3. Flushing(f, S).pc # "send" /\ (Flushing(f, S).pc = "run" => Flushing(f, S).todo = S)
    BY Zenon DEF Flushing, IdleFlush
  <2>4. \A g \in Flushers : /\ \A k : ~Sending(g, k)'
                            /\ Active(g)' => g = f /\ fl'[g].todo = S
    BY <1>3, <2>2, <2>3, Zenon DEF Sending, Active
  <2>5. msgs[m] = "deleted" \/ m \in Gone
    <3>1. m \in Posted
      BY <1>1, Zenon DEF OInv, RInv, Oldest
    <3> QED
      BY <1>8, <3>1, FirstLink, Zenon
  <2>6. NoneOvertaken'
    BY <1>1, <2>4, Zenon DEF Unbroken, NoneOvertaken
  <2>7. NoneLeftOut'
    <3> SUFFICES ASSUME NEW k \in Msg, k \notin Gone, k \notin S, NEW j \in S, k < j
                 PROVE  msgs[k] = "deleted"
      BY <1>1, <2>4, Zenon DEF NoneLeftOut
    <3>1. CASE k = m
      BY <2>5, <3>1, Zenon
    <3>2. CASE k # m
      BY <1>1, <3>2, Zenon DEF Unbroken, NoneLeftOut
    <3> QED
      BY <3>1, <3>2, Zenon
  <2>8. CoolingIsSent'
    BY <1>5, <2>1, Zenon DEF CoolingIsSent
  <2> QED
    BY <2>6, <2>7, <2>8, Zenon DEF Unbroken
<1> QED
  BY <1>7, <1>8, Zenon

\* The message goes on the wire: what is older and has not gone before it is
\* deleted, and nobody else is sending.
LEMMA FlushSendKeeps ==
  ASSUME OInv, nconn = 1, Unbroken, NEW f \in Flushers, NEW m \in Msg, fl[f].pc = "send", Oldest(f, m),
         fl' = [fl EXCEPT ![f] = Flushing(f, @.todo \ {m})], Gone' = Gone \cup {m},
         UNCHANGED sndVars
  PROVE  Unbroken'
<1> DEFINE S == fl[f].todo \ {m}
<1>1. Active(f) /\ msgs' = msgs /\ cooling' = cooling /\ Sending(f, m)
  BY Zenon DEF Active, sndVars, Sending
<1>2. fl[f] \in [pc : {"lock", "run", "send"}, link : Conn, force : BOOLEAN, todo : SUBSET Msg]
  BY DEF OInv, RInv, Inv, TypeOK, FlushState, IdleFlush
<1>3. \A g \in Flushers \ {f} : ~Active(g)
  BY <1>1, FirstLink, Zenon
<1>4. \A k : Oldest(f, k) => k = m
  BY <1>2, DeliveryBounds DEF Oldest, Msg
<1>5. cooling \subseteq Gone \cup {m}
  BY <1>3, <1>4, Zenon DEF Unbroken, CoolingIsSent, Sending, Active
<1>6. fl'[f] = Flushing(f, S) /\ \A g \in Flushers \ {f} : fl'[g] = fl[g]
  BY Zenon DEF OInv, RInv, Inv, TypeOK
<1>7. Flushing(f, S).pc # "send" /\ (Flushing(f, S).pc = "run" => Flushing(f, S).todo = S)
  BY Zenon DEF Flushing, IdleFlush
<1>8. \A g \in Flushers : /\ \A k : ~Sending(g, k)'
                          /\ Active(g)' => g = f /\ fl'[g].todo = S
  BY <1>3, <1>6, <1>7, Zenon DEF Sending, Active
<1>9. NoneOvertaken'
  <2> SUFFICES ASSUME NEW k \in Msg, k \notin Gone, k # m, NEW s \in Gone \cup {m}, k < s
               PROVE  msgs[k] = "deleted"
    BY <1>1, <1>8, Zenon DEF NoneOvertaken
  <2>1. CASE s \in Gone
    BY <2>1, Zenon DEF Unbroken, NoneOvertaken
  <2>2. CASE s = m
    <3>1. k \notin fl[f].todo
      BY <2>2, DeliveryBounds DEF Oldest, Msg
    <3>2. m \in fl[f].todo
      BY Zenon DEF Oldest
    <3> QED
      BY <1>1, <2>2, <3>1, <3>2, Zenon DEF Unbroken, NoneLeftOut
  <2> QED
    BY <2>1, <2>2, Zenon
<1>10. NoneLeftOut'
  <2> SUFFICES ASSUME NEW k \in Msg, k \notin Gone, k # m, k \notin S, NEW j \in S, k < j
               PROVE  msgs[k] = "deleted"
    BY <1>1, <1>8, Zenon DEF NoneLeftOut
  <2> QED
    BY <1>1, Zenon DEF Unbroken, NoneLeftOut
<1>11. CoolingIsSent'
  BY <1>1, <1>5, Zenon DEF CoolingIsSent
<1> QED
  BY <1>9, <1>10, <1>11, Zenon DEF Unbroken

-----------------------------------------------------------------------------
\* The first session begins with nothing sent before it.
LEMMA ConnectOrdered ==
  ASSUME OInv, Connect, nconn' = 1 PROVE Ordered'
<1>1. nconn = 0 /\ 1 \in Conn /\ TypeOK
  <2>1. TypeOK
    BY Zenon DEF OInv, RInv, Inv
  <2> QED
    BY <2>1, DeliveryBounds DEF Connect, TypeOK, Conn
<1>2. stored = {} /\ cooling = {} /\ out[1] = <<>> /\ UNCHANGED <<stored, cooling, out, fl>>
  BY <1>1 DEF OInv, Fresh, Links, Connect, sndVars, rcvVars, wireVars
<1>3. \A f \in Flushers : ~Active(f)
  <2> SUFFICES ASSUME NEW f \in Flushers, fl[f].pc # "idle" PROVE FALSE
    BY Zenon DEF Active
  <2>1. fl[f].link \in Conn
    BY <1>1 DEF TypeOK, FlushState, IdleFlush
  <2>2. fl[f].link <= nconn
    BY Zenon DEF OInv, Links
  <2> QED
    BY <1>1, <2>1, <2>2, DeliveryBounds DEF Conn
<1>4. Len(out'[1]) = 0 /\ Gone' = {}
  BY <1>2 DEF Gone, Before, Ids
<1>5. WireOrder'
  BY <1>4 DEF WireOrder
<1>6. Unbroken'
  BY <1>2, <1>3, <1>4, Zenon DEF Unbroken, NoneOvertaken, NoneLeftOut, CoolingIsSent, Active
<1> QED
  BY <1>5, <1>6, Zenon DEF Ordered

\* A delete-for-everyone request goes on the wire between the messages.
LEMMA DelAllOrdered ==
  ASSUME OInv, nconn = 1, Ordered, NEW m \in Msg, DeleteMessageForEveryone(m),
         cut \subseteq cut', Moves(end["rcv"][1], end'["rcv"][1]),
         \A k \in Msg : msgs[k] = "deleted" => msgs'[k] = "deleted"
  PROVE  Ordered'
<1>1. TypeOK /\ 1 \in Conn /\ stored' = stored
  <2>1. TypeOK
    BY Zenon DEF OInv, RInv, Inv
  <2>2. 1 \in Conn
    BY <2>1, DeliveryBounds DEF TypeOK, Conn
  <2> QED
    BY <2>1, <2>2, Zenon DEF DeleteMessageForEveryone, Die, rcvVars
<1>2. live["snd"] = 1
  <2>1. live["snd"] \in Conn /\ live["snd"] <= 1
    BY Zenon DEF DeleteMessageForEveryone, AskDelete, OInv, RInv, Inv, TypeOK, Links, End
  <2> QED
    BY <2>1, DeliveryBounds DEF Conn
<1>3. end["snd"][1] = "up"
  BY <1>2, Zenon DEF DeleteMessageForEveryone, AskDelete, WriteOK, WriteLost
<1>4. WireOrder' /\ Gone' = Gone
  <2> DEFINE x == [t |-> "delall", id |-> m]
  <2>1. x \in Frame /\ x.t = "delall"
    BY Zenon DEF Frame
  <2> HIDE DEF x
  <2>2. CASE out' = out
    BY <1>1, <2>2, WireKept, Zenon DEF Ordered
  <2>3. CASE out' = [out EXCEPT ![1] = Append(@, x)]
    <3>1. out'[1] = Append(out[1], x)
      BY <1>1, <2>3, Zenon DEF TypeOK
    <3> QED
      BY <1>1, <2>1, <3>1, Appended, Zenon DEF Ordered
  <2> QED
    BY <1>2, <2>2, <2>3, Zenon DEF DeleteMessageForEveryone, AskDelete, x
<1>5. CASE Remove({m}, "deleted") /\ UNCHANGED <<rcvVars, connVars, back, fl, rd>>
  <2>1. cut' = cut /\ fl' = fl /\ cooling' \subseteq cooling
    BY <1>5, Zenon DEF connVars, Remove
  <2> QED
    BY <1>4, <2>1, SendersKept, Zenon DEF Ordered
<1>6. CASE Die("snd")
  <2>1. 1 \in cut'
    BY <1>1, <1>3, <1>6, Zenon DEF Die
  <2> QED
    BY <1>4, <2>1, Zenon DEF Ordered
<1> QED
  BY <1>5, <1>6, Zenon DEF DeleteMessageForEveryone

\* A write of flush on the first session, whether it succeeds or not.
LEMMA FlushSendOrdered ==
  ASSUME OInv, nconn = 1, Ordered, NEW f \in Flushers, NEW m \in Msg, FlushSend(f, m),
         Moves(end["rcv"][1], end'["rcv"][1])
  PROVE  Ordered'
<1>1. TypeOK /\ 1 \in Conn /\ stored' = stored /\ cut' = cut /\ UNCHANGED sndVars
  <2>1. TypeOK
    BY Zenon DEF OInv, RInv, Inv
  <2>2. 1 \in Conn
    BY <2>1, DeliveryBounds DEF TypeOK, Conn
  <2> QED
    BY <2>1, <2>2, Zenon DEF FlushSend, rcvVars
<1>2. fl[f].link = 1 /\ fl[f].pc = "send" /\ Oldest(f, m)
  BY FirstLink, Zenon DEF FlushSend
<1>3. CASE 1 \in cut
  <2>1. out' = out
    BY <1>2, <1>3, Zenon DEF FlushSend, WriteOK
  <2> QED
    BY <1>1, <1>3, <2>1, WireKept, Zenon DEF Ordered
<1>4. CASE 1 \notin cut
  <2> DEFINE x == [t |-> "msg", id |-> m]
  <2>1. end["snd"][1] = "up"
    <3>1. end["snd"][1] \in {"none", "hs", "up", "closed", "gone"}
      BY <1>1, Zenon DEF TypeOK, End
    <3>2. end["snd"][1] \notin {"none", "hs"}
      BY <1>2, Zenon DEF OInv, Links
    <3>3. end["snd"][1] \notin {"closed", "gone"}
      BY <1>1, <1>4, Zenon DEF OInv, Links, End
    <3> QED
      BY <3>1, <3>2, <3>3, Zenon
  <2>2. /\ out' = [out EXCEPT ![1] = Append(@, x)]
        /\ fl' = [fl EXCEPT ![f] = Flushing(f, @.todo \ {m})]
    BY <1>2, <1>4, <2>1, Zenon DEF FlushSend, WriteLost, WriteFails
  <2>3. x \in Frame /\ x.t = "msg" /\ x.id = m
    BY Zenon DEF Frame
  <2> HIDE DEF x
  <2>4. out'[1] = Append(out[1], x)
    BY <1>1, <2>2, Zenon DEF TypeOK
  <2>5. Unbroken /\ WireOrder
    BY <1>4, Zenon DEF Ordered
  <2>6. m \notin Gone => \A k \in Gone : k < m
    <3> SUFFICES ASSUME m \notin Gone, NEW k \in Gone PROVE k < m
      BY Zenon
    <3>1. k \in Msg
      <4>1. Gone \subseteq Msg
        <5>1. out[1] \in Seq(Frame)
          BY <1>1, Zenon DEF TypeOK
        <5>2. \A j \in 1 .. Len(out[1]) : out[1][j] \in Frame
          BY <5>1
        <5>3. \A y \in Frame : y.id \in Msg
          BY Zenon DEF Frame
        <5>4. Ids(out[1], Len(out[1])) \subseteq Msg
          BY <5>2, <5>3, Zenon DEF Ids
        <5> QED
          BY <1>1, <5>4, Zenon DEF Gone, Before, TypeOK
      <4> QED
        BY <4>1, Zenon
    <3>2. ~(m < k)
      BY <1>2, <2>5, Zenon DEF Unbroken, NoneOvertaken, Sending
    <3> QED
      BY <3>1, <3>2, DeliveryBounds DEF Msg
  <2>7. Gone' = Gone \cup {m} /\ WireOrder'
    BY <1>1, <2>3, <2>4, <2>5, <2>6, Appended, Zenon
  <2>8. Unbroken'
    BY <1>1, <1>2, <2>2, <2>5, <2>7, FlushSendKeeps, Zenon
  <2> QED
    BY <2>7, <2>8, Zenon DEF Ordered
<1> QED
  BY <1>3, <1>4, Zenon

\* Every step of the first session keeps the order.
LEMMA OrderedStep ==
  ASSUME OInv, [Next]_vars, nconn' = 1 PROVE Ordered'
<1>1. TypeOK /\ Links
  BY Zenon DEF OInv, RInv, Inv
<1>2. CASE Connect
  BY <1>2, ConnectOrdered, Zenon
<1>3. CASE ~Connect
  <2>1. /\ nconn = 1 /\ cut \subseteq cut'
        /\ \A e \in End, c \in Conn : /\ Moves(end[e][c], end'[e][c])
                                      /\ end'[e][c] \in {"closed", "gone"} => c \in cut'
    BY <1>1, <1>3, EndsStep, Zenon
  <2>2. Ordered
    BY <2>1, Zenon DEF OInv
  <2>3. 1 \in Conn /\ "rcv" \in End /\ "snd" \in End
    BY <1>1, <2>1, DeliveryBounds DEF TypeOK, Conn, End
  <2>4. Moves(end["rcv"][1], end'["rcv"][1])
    BY <2>1, <2>3, Zenon
  <2>5. \A k \in Msg : msgs[k] = "deleted" => msgs'[k] = "deleted"
    BY <1>1, MsgsStep, Zenon
  <2>6. \A e \in End, c \in Conn : end[e][c] # "none" => c = 1
    <3> SUFFICES ASSUME NEW e \in End, NEW c \in Conn, end[e][c] # "none" PROVE c = 1
      BY Zenon
    <3>1. ~(c > 1)
      BY <1>1, <2>1, Zenon DEF Links
    <3> QED
      BY <3>1, DeliveryBounds DEF Conn
  <2>7. \A e \in End : end[e][1] # "none"
    BY <1>1, <2>1, <2>3 DEF Links
  <2>8. ASSUME out'[1] = out[1], stored' = stored, cooling' \subseteq cooling,
               \A g \in Flushers : fl'[g] = fl[g] \/ (~Active(g) /\ ~Active(g)')
        PROVE  Ordered'
    <3>1. WireOrder' /\ Gone' = Gone
      BY <2>2, <2>4, <2>8, WireKept, Zenon DEF Ordered
    <3>2. ASSUME 1 \notin cut' PROVE Unbroken'
      <4>1. Unbroken
        BY <2>1, <2>2, <3>2, Zenon DEF Ordered
      <4> QED
        BY <2>5, <2>8, <3>1, <4>1, SendersKept, Zenon
    <3> QED
      BY <3>1, <3>2, Zenon DEF Ordered
  <2>9. ASSUME end'["rcv"][1] \in {"closed", "gone"} PROVE Ordered'
    <3>1. 1 \in cut'
      BY <2>1, <2>3, <2>9, Zenon
    <3> QED
      BY <2>9, <3>1, Zenon DEF Ordered, WireOrder
  <2>10. ASSUME NEW e \in End, NEW c \in Conn, Session(e, c) PROVE Ordered'
    <3>1. CASE establish(e, c) \/ HandshakeFails(e, c) \/ Notice(e, c)
      BY <2>8, <3>1, Zenon DEF establish, HandshakeFails, Notice, sndVars, rcvVars, wireVars
    <3>2. CASE runSessionEnds(e, c)
      <4>1. UNCHANGED <<stored, cooling, fl>> /\ end' = [end EXCEPT ![e][c] = "gone"]
        BY <3>2, Zenon DEF runSessionEnds, sndVars, rcvVars
      <4>2. CASE e = "snd"
        BY <2>8, <3>2, <4>1, <4>2, Zenon DEF runSessionEnds, Unread
      <4>3. CASE e = "rcv"
        <5>1. c = 1
          BY <2>6, <3>2, Zenon DEF runSessionEnds
        <5>2. end'["rcv"][1] = "gone"
          BY <1>1, <2>3, <4>1, <4>3, <5>1, Zenon DEF TypeOK
        <5> QED
          BY <2>9, <5>2, Zenon
      <4> QED
        BY <4>2, <4>3, Zenon DEF End
    <3> QED
      BY <2>10, <3>1, <3>2, Zenon DEF Session
  <2>11. ASSUME NEW e \in End, Crash(e) PROVE Ordered'
    <3>1. stored' = stored
      BY <2>11, Zenon DEF Crash, Die, rcvVars
    <3>2. CASE e = "snd"
      <4>1. out' = out
        BY <2>11, <3>2, Zenon DEF Crash, Unread
      <4>2. 1 \in cut'
        BY <2>3, <2>7, <2>11, Zenon DEF Crash, Die
      <4> QED
        BY <2>2, <2>4, <3>1, <4>1, <4>2, WireKept, Zenon DEF Ordered
    <3>3. CASE e = "rcv"
      <4>1. end'["rcv"][1] = "gone"
        BY <1>1, <2>3, <2>7, <2>11, <3>3, Zenon DEF Crash, Die, TypeOK
      <4> QED
        BY <2>9, <4>1, Zenon
    <3> QED
      BY <3>2, <3>3, Zenon DEF End
  <2>12. ASSUME NEW m \in Msg, User(m) PROVE Ordered'
    <3>1. CASE SendReply(m) \/ DeleteFromOutbox(m) \/ DeleteMessage(m) \/ Prune(m)
      BY <2>8, <3>1, Zenon
         DEF SendReply, DeleteFromOutbox, DeleteMessage, Prune, Remove, rcvVars, wireVars
    <3>2. CASE DeleteMessageForEveryone(m)
      BY <2>1, <2>2, <2>4, <2>5, <3>2, DelAllOrdered, Zenon
    <3> QED
      BY <2>12, <3>1, <3>2, Zenon DEF User
  <2>13. ASSUME NEW f \in Flushers, NEW force \in BOOLEAN, FlushStart(f, force) PROVE Ordered'
    <3>1. /\ fl' = [fl EXCEPT ![f] = [pc |-> "lock", link |-> live["snd"], force |-> force, todo |-> {}]]
          /\ fl[f].pc = "idle" /\ UNCHANGED <<out, stored, cooling>>
      BY <2>13, Zenon DEF FlushStart, sndVars, rcvVars, wireVars
    <3>2. \A g \in Flushers : fl'[g] = fl[g] \/ (~Active(g) /\ ~Active(g)')
      BY <1>1, <3>1, Zenon DEF TypeOK, Active
    <3> QED
      BY <2>8, <3>1, <3>2, Zenon
  <2>14. ASSUME NEW f \in Flushers, Flush(f) PROVE Ordered'
    <3>1. ASSUME NEW m \in Msg, FlushSend(f, m) PROVE Ordered'
      BY <2>1, <2>2, <2>4, <3>1, FlushSendOrdered, Zenon
    <3>2. ASSUME FlushLock(f) \/ \E m \in Msg : FlushAttempt(f, m) PROVE Ordered'
      <4>1. UNCHANGED <<out, stored, cut>>
        BY <3>2, Zenon DEF FlushLock, FlushAttempt, rcvVars, wireVars, connVars
      <4>2. WireOrder' /\ Gone' = Gone
        BY <2>2, <2>4, <4>1, WireKept, Zenon DEF Ordered
      <4>3. Unbroken => Unbroken'
        BY <2>1, <3>2, <4>2, FlushLockKeeps, FlushAttemptKeeps, Zenon
      <4> QED
        BY <2>2, <4>1, <4>2, <4>3, Zenon DEF Ordered
    <3> QED
      BY <2>14, <3>1, <3>2, Zenon DEF Flush
  <2>15. ASSUME NEW c \in Conn, RecvMsg(c) \/ RecvDelAll(c) PROVE Ordered'
    <3>1. c = 1 /\ out[c] # <<>> /\ out' = [out EXCEPT ![c] = Tail(@)]
      BY <2>3, <2>6, <2>15, Zenon DEF RecvMsg, RecvDelAll, Receiving
    <3>2. out[1] # <<>> /\ out'[1] = Tail(out[1])
      BY <1>1, <3>1, Zenon DEF TypeOK
    <3>3. stored' = stored \cup (IF Head(out[1]).t = "msg" THEN {Head(out[1]).id} ELSE {})
      BY <2>15, <3>1, Zenon DEF RecvMsg, RecvDelAll, Receiving
    <3>4. UNCHANGED <<fl, cooling, cut>>
      BY <2>15, Zenon DEF RecvMsg, RecvDelAll, sndVars, connVars
    <3>5. WireOrder' /\ Gone' = Gone
      BY <1>1, <2>2, <2>3, <2>4, <3>2, <3>3, Taken, Zenon DEF Ordered
    <3>6. Unbroken => Unbroken'
      BY <2>5, <3>4, <3>5, SendersKept, Zenon
    <3> QED
      BY <2>2, <3>4, <3>5, <3>6, Zenon DEF Ordered
  <2>16. ASSUME NEW c \in Conn, RecvRefused(c) PROVE Ordered'
    <3>1. c = 1 /\ end' = [end EXCEPT !["rcv"][c] = "closed"]
      BY <2>3, <2>6, <2>16, Zenon DEF RecvRefused, Receiving
    <3>2. end'["rcv"][1] = "closed"
      BY <1>1, <2>3, <3>1, Zenon DEF TypeOK
    <3> QED
      BY <2>9, <3>2, Zenon
  <2>17. ASSUME NEW c \in Conn, Receive(c) \/ MarkDelivered(c) \/ Cut(c) PROVE Ordered'
    BY <2>8, <2>15, <2>17, Zenon
       DEF Receive, RecvAck, RecvEmit, MarkDelivered, Cut, sndVars, rcvVars, wireVars
  <2>18. CASE \/ \E m \in Msg : BackoffExpires(m)
              \/ DeleteAllMessages
              \/ \E S \in SUBSET inbox : RcvDelete(S)
              \/ UNCHANGED vars
    BY <2>8, <2>18, Zenon
       DEF BackoffExpires, DeleteAllMessages, Remove, RcvDelete, vars, sndVars, rcvVars, wireVars
  <2> QED
    BY <1>3, <2>10, <2>11, <2>12, <2>13, <2>14, <2>16, <2>17, <2>18, Zenon DEF Next
<1> QED
  BY <1>2, <1>3, Zenon

\* The invariant holds in every reachable state.
THEOREM OInvHolds == Spec => []OInv
<1> DEFINE More == Links /\ Numbered /\ Fresh /\ (nconn = 1 => Ordered)
<1>1. Init => More
  <2> SUFFICES ASSUME Init PROVE More
    BY Zenon
  <2>1. Links
    BY DeliveryBounds DEF Init, Links, Active, IdleFlush, Conn, End, NoConn
  <2> QED
    BY <2>1 DEF Init, Numbered, Fresh
<1>2. RInv /\ More /\ [Next]_vars => More'
  <2> SUFFICES ASSUME RInv, More, [Next]_vars PROVE More'
    BY Zenon
  <2>1. TypeOK /\ OInv
    BY Zenon DEF OInv, RInv, Inv
  <2> QED
    BY <2>1, LinksStep, NumberedStep, FreshStep, OrderedStep, Zenon
<1>3. RInv /\ More => OInv
  BY Zenon DEF OInv
<1> HIDE DEF More
<1> QED
  BY <1>1, <1>2, <1>3, RInvHolds, PTL DEF Spec

\* "Messages arrive in send order", as far as it goes: until a second session
\* begins the receiver persists them in the order they were sent, for any
\* number of messages, frames in flight and flush goroutines, whatever is
\* retried, deleted, refused, cut or killed.
THEOREM FirstSessionOrder == Spec => FirstSessionInOrder
<1>1. OInv /\ [Next]_vars =>
        [nconn <= 1 => \A m \in stored' \ stored : \A k \in stored : k < m]_stored
  <2> SUFFICES ASSUME OInv, [Next]_vars, nconn <= 1, NEW m \in stored' \ stored, NEW k \in stored
               PROVE  k < m
    BY Zenon
  <2>1. TypeOK
    BY Zenon DEF OInv, RInv, Inv
  <2>2. PICK c \in Conn : RecvMsg(c)
    BY <2>1, StoredStep, Zenon
  <2>3. /\ end["rcv"][c] = "up" /\ out[c] # <<>> /\ Head(out[c]).t = "msg"
        /\ m = Head(out[c]).id
    BY <2>2, Zenon DEF RecvMsg, Receiving
  <2>4. nconn = 1 /\ c = 1
    <3>1. ~(c > nconn)
      BY <2>3, Zenon DEF OInv, Links, End
    <3> QED
      BY <2>1, <3>1, DeliveryBounds DEF TypeOK, Conn
  <2>5. WireOrder
    BY <2>4, Zenon DEF OInv, Ordered
  <2>6. 1 \in 1 .. Len(out[1]) /\ Head(out[1]) = out[1][1]
    BY <2>1, <2>3, <2>4 DEF TypeOK
  <2>7. Before(1 - 1) = stored
    BY DEF Before, Ids
  <2> QED
    BY <2>3, <2>4, <2>5, <2>6, <2>7, Zenon DEF WireOrder
<1> QED
  BY <1>1, OInvHolds, PTL DEF Spec, FirstSessionInOrder

=============================================================================

--------------------------- MODULE Delivery_proofs --------------------------
(***************************************************************************)
(* Proofs about module Delivery, for any number of messages, sessions,     *)
(* frames in flight and flush goroutines.                                  *)
(***************************************************************************)
EXTENDS Delivery, TLAPS

\* A frame more at the tail of a connection keeps the queues typed.
LEMMA QueuePush ==
  ASSUME NEW T, NEW q \in [Conn -> Seq(T)], NEW c \in Conn, NEW x \in T
  PROVE  [q EXCEPT ![c] = Append(@, x)] \in [Conn -> Seq(T)]
OBVIOUS

\* A frame fewer at the head keeps them typed, and the frame taken is typed.
LEMMA QueuePop ==
  ASSUME NEW T, NEW q \in [Conn -> Seq(T)], NEW c \in Conn, q[c] # <<>>
  PROVE  /\ Head(q[c]) \in T
         /\ [q EXCEPT ![c] = Tail(@)] \in [Conn -> Seq(T)]
OBVIOUS

\* An idle flush goroutine and an idle read loop are typed.
LEMMA Idle == IdleFlush \in FlushState /\ IdleRead \in ReadState
BY Zenon DEF FlushState, ReadState

\* A flush goroutine with S left to send is typed, whether it goes on or returns.
LEMMA FlushingType ==
  ASSUME TypeOK, NEW f \in Flushers, fl[f].pc # "idle", NEW S \in SUBSET Msg
  PROVE  Flushing(f, S) \in FlushState
<1>1. fl[f].link \in Conn
  BY DEF TypeOK, FlushState, IdleFlush
<1> QED
  BY <1>1, Idle, Zenon DEF Flushing, FlushState

\* Removing messages from the sender's store (deleteMessages) keeps it typed.
LEMMA RemoveType ==
  ASSUME TypeOK, NEW S, NEW how \in {"deleted", "pruned"}, Remove(S, how)
  PROVE  /\ msgs' \in [Msg -> {"none", "queued", "delivered", "deleted", "pruned"}]
         /\ outbox' \subseteq Msg /\ cooling' \subseteq Msg
BY Zenon DEF Remove, TypeOK

\* Closing an end of a connection, if it is up, keeps the ends typed.
LEMMA CloseType ==
  ASSUME TypeOK, NEW e \in End, NEW c \in Conn
  PROVE  [end EXCEPT ![e][c] = IF @ = "up" THEN "closed" ELSE @]
           \in [End -> [Conn -> {"none", "hs", "up", "closed", "gone"}]]
<1> DEFINE D == {"none", "hs", "up", "closed", "gone"}
           v == IF end[e][c] = "up" THEN "closed" ELSE end[e][c]
<1>1. end \in [End -> [Conn -> D]]
  BY Zenon DEF TypeOK
<1>2. v \in D
  BY <1>1, Zenon
<1> HIDE DEF D, v
<1>3. [end EXCEPT ![e][c] = v] \in [End -> [Conn -> D]]
  BY <1>1, <1>2, Zenon
<1> QED
  BY <1>3, Zenon DEF D, v

\* Every step of the nodes and the network keeps the variables in their types.
LEMMA TypeStep ==
  ASSUME TypeOK, [Next]_vars PROVE TypeOK'
<1>1. CASE Connect
  <2>1. nconn' \in 0 .. MaxConn /\ nconn + 1 \in Conn
    BY <1>1, DeliveryBounds DEF Connect, TypeOK, Conn
  <2>2. end' \in [End -> [Conn -> {"none", "hs", "up", "closed", "gone"}]]
    BY <1>1, <2>1, Zenon DEF Connect, TypeOK
  <2> QED
    BY <1>1, <2>1, <2>2, Zenon DEF Connect, TypeOK, sndVars, rcvVars, wireVars
<1>2. ASSUME NEW e \in End, NEW c \in Conn, establish(e, c) PROVE TypeOK'
  BY <1>2, Zenon DEF establish, TypeOK, sndVars, rcvVars, wireVars
<1>3. ASSUME NEW e \in End, NEW c \in Conn, HandshakeFails(e, c) PROVE TypeOK'
  BY <1>3, Zenon DEF HandshakeFails, TypeOK, sndVars, rcvVars, wireVars
<1>4. ASSUME NEW e \in End, NEW c \in Conn, Notice(e, c) PROVE TypeOK'
  BY <1>4, Zenon DEF Notice, TypeOK, sndVars, rcvVars, wireVars
<1>5. ASSUME NEW e \in End, NEW c \in Conn, runSessionEnds(e, c) PROVE TypeOK'
  BY <1>5 DEF runSessionEnds, Unread, TypeOK, sndVars, rcvVars
<1>6. ASSUME NEW c \in Conn, Cut(c) PROVE TypeOK'
  BY <1>6, Zenon DEF Cut, TypeOK, sndVars, rcvVars, wireVars
<1>7. ASSUME NEW e \in End, Crash(e) PROVE TypeOK'
  <2>1. end' \in [End -> [Conn -> {"none", "hs", "up", "closed", "gone"}]]
    BY <1>7, Zenon DEF Crash, Die, TypeOK
  <2>2. out' \in [Conn -> Seq(Frame)] /\ back' \in [Conn -> Seq(Msg)]
    BY <1>7 DEF Crash, Unread, TypeOK
  <2>3. fl' \in [Flushers -> FlushState] /\ rd' \in [Conn -> ReadState]
    BY <1>7, Idle, Zenon DEF Crash, Die, TypeOK
  <2> QED
    BY <1>7, <2>1, <2>2, <2>3, Zenon DEF Crash, Die, TypeOK, sndVars, rcvVars
<1>8. ASSUME NEW m \in Msg, SendReply(m) PROVE TypeOK'
  BY <1>8, Zenon DEF SendReply, TypeOK, rcvVars, connVars, wireVars
<1>9. ASSUME NEW m \in Msg,
             DeleteFromOutbox(m) \/ DeleteMessage(m) \/ Prune(m)
      PROVE  TypeOK'
  BY <1>9, RemoveType, Zenon
     DEF DeleteFromOutbox, DeleteMessage, Prune, TypeOK, rcvVars, connVars, wireVars
<1>10. ASSUME NEW m \in Msg, DeleteMessageForEveryone(m) PROVE TypeOK'
  <2>1. out' \in [Conn -> Seq(Frame)]
    <3>1. [t |-> "delall", id |-> m] \in Frame
      BY Zenon DEF Frame
    <3>2. live["snd"] \in Conn
      BY <1>10, Zenon DEF DeleteMessageForEveryone, AskDelete, TypeOK, End
    <3>3. \/ out' = out
          \/ out' = [out EXCEPT ![live["snd"]] = Append(@, [t |-> "delall", id |-> m])]
      BY <1>10, Zenon DEF DeleteMessageForEveryone, AskDelete
    <3>4. [out EXCEPT ![live["snd"]] = Append(@, [t |-> "delall", id |-> m])]
            \in [Conn -> Seq(Frame)]
      BY <3>1, <3>2, QueuePush, Zenon DEF TypeOK
    <3> QED
      BY <3>3, <3>4, Zenon DEF TypeOK
  <2>2. CASE Remove({m}, "deleted") /\ UNCHANGED <<rcvVars, connVars, back, fl, rd>>
    BY <2>1, <2>2, RemoveType, Zenon DEF TypeOK, rcvVars, connVars
  <2>3. CASE Die("snd") /\ back' = [c \in Conn |-> <<>>] /\ UNCHANGED sndVars
    BY <2>1, <2>3, Idle DEF Die, TypeOK, sndVars, rcvVars, End
  <2> QED
    BY <1>10, <2>2, <2>3, Zenon DEF DeleteMessageForEveryone
<1>11. ASSUME NEW m \in Msg, BackoffExpires(m) PROVE TypeOK'
  BY <1>11, Zenon DEF BackoffExpires, TypeOK, rcvVars, connVars, wireVars
<1>12. ASSUME NEW f \in Flushers, NEW force \in BOOLEAN, FlushStart(f, force) PROVE TypeOK'
  <2>1. fl' \in [Flushers -> FlushState]
    BY <1>12, Zenon DEF FlushStart, TypeOK, FlushState, End, NoConn
  <2> QED
    BY <1>12, <2>1, Zenon DEF FlushStart, TypeOK, sndVars, rcvVars, connVars, wireVars
<1>13. ASSUME NEW f \in Flushers, FlushLock(f) PROVE TypeOK'
  BY <1>13, FlushingType, Zenon DEF FlushLock, TypeOK, sndVars, rcvVars, connVars, wireVars
<1>14. ASSUME NEW f \in Flushers, NEW m \in Msg, FlushAttempt(f, m) PROVE TypeOK'
  <2>1. fl[f] \in [pc : {"lock", "run", "send"}, link : Conn, force : BOOLEAN,
                   todo : SUBSET Msg]
    BY <1>14 DEF FlushAttempt, TypeOK, FlushState, IdleFlush
  <2>2. Flushing(f, fl[f].todo \ {m}) \in FlushState
    BY <2>1, FlushingType, Zenon
  <2>3. [fl[f] EXCEPT !.pc = "send"] \in FlushState
    BY <2>1, Zenon DEF FlushState
  <2>4. fl' \in [Flushers -> FlushState]
    BY <1>14, <2>2, <2>3, Zenon DEF FlushAttempt, TypeOK
  <2> QED
    BY <1>14, <2>4, Zenon DEF FlushAttempt, TypeOK, rcvVars, connVars, wireVars
<1>15. ASSUME NEW f \in Flushers, NEW m \in Msg, FlushSend(f, m) PROVE TypeOK'
  <2>1. fl[f] \in [pc : {"lock", "run", "send"}, link : Conn, force : BOOLEAN,
                   todo : SUBSET Msg]
    BY <1>15 DEF FlushSend, TypeOK, FlushState, IdleFlush
  <2>2. Flushing(f, fl[f].todo \ {m}) \in FlushState
    BY <2>1, FlushingType, Zenon
  <2>3. fl' \in [Flushers -> FlushState]
    BY <1>15, <2>2, Idle, Zenon DEF FlushSend, TypeOK
  <2>4. out' \in [Conn -> Seq(Frame)]
    <3>1. [t |-> "msg", id |-> m] \in Frame
      BY Zenon DEF Frame
    <3>2. \/ out' = out
          \/ out' = [out EXCEPT ![fl[f].link] = Append(@, [t |-> "msg", id |-> m])]
      BY <1>15, Zenon DEF FlushSend
    <3>3. fl[f].link \in Conn
      BY <2>1, Zenon
    <3>4. [out EXCEPT ![fl[f].link] = Append(@, [t |-> "msg", id |-> m])]
            \in [Conn -> Seq(Frame)]
      BY <3>1, <3>3, QueuePush, Zenon DEF TypeOK
    <3> QED
      BY <3>2, <3>4, Zenon DEF TypeOK
  <2>5. end' \in [End -> [Conn -> {"none", "hs", "up", "closed", "gone"}]]
    <3>1. fl[f].link \in Conn
      BY <2>1, Zenon
    <3>2. \/ end' = end
          \/ end' = [end EXCEPT !["snd"][fl[f].link] = IF @ = "up" THEN "closed" ELSE @]
      BY <1>15, Zenon DEF FlushSend
    <3>3. [end EXCEPT !["snd"][fl[f].link] = IF @ = "up" THEN "closed" ELSE @]
            \in [End -> [Conn -> {"none", "hs", "up", "closed", "gone"}]]
      BY <3>1, CloseType, Zenon DEF End
    <3> QED
      BY <3>2, <3>3, Zenon DEF TypeOK
  <2> QED
    BY <1>15, <2>3, <2>4, <2>5, Zenon DEF FlushSend, TypeOK, sndVars, rcvVars
<1>16. ASSUME NEW c \in Conn, RecvMsg(c) PROVE TypeOK'
  <2>1. Head(out[c]) \in Frame /\ out' \in [Conn -> Seq(Frame)]
    BY <1>16, QueuePop, Zenon DEF RecvMsg, Receiving, TypeOK
  <2>2. Head(out[c]).id \in Msg
    BY <2>1, Zenon DEF Frame
  <2>3. rd' \in [Conn -> ReadState]
    BY <1>16, <2>2 DEF RecvMsg, TypeOK, ReadState
  <2> QED
    BY <1>16, <2>1, <2>2, <2>3, Zenon DEF RecvMsg, TypeOK, sndVars, connVars
<1>17. ASSUME NEW c \in Conn, RecvAck(c) PROVE TypeOK'
  <2>1. rd[c].id \in Msg /\ [rd[c] EXCEPT !.pc = "emit"] \in ReadState
    <3>1. rd[c] \in [pc : {"ack", "emit"}, id : Msg, dup : BOOLEAN]
      BY <1>17 DEF RecvAck, TypeOK, ReadState, IdleRead
    <3> QED
      BY <3>1, Zenon DEF ReadState
  <2>2. rd' \in [Conn -> ReadState]
    BY <1>17, <2>1, Idle, Zenon DEF RecvAck, TypeOK
  <2>3. back' \in [Conn -> Seq(Msg)]
    <3>1. back' = back \/ back' = [back EXCEPT ![c] = Append(@, rd[c].id)]
      BY <1>17, Zenon DEF RecvAck
    <3>2. [back EXCEPT ![c] = Append(@, rd[c].id)] \in [Conn -> Seq(Msg)]
      BY <2>1, QueuePush, Zenon DEF TypeOK
    <3> QED
      BY <3>1, <3>2, Zenon DEF TypeOK
  <2>4. end' \in [End -> [Conn -> {"none", "hs", "up", "closed", "gone"}]]
    <3>1. \/ end' = end
          \/ end' = [end EXCEPT !["rcv"][c] = IF @ = "up" THEN "closed" ELSE @]
      BY <1>17, Zenon DEF RecvAck
    <3>2. [end EXCEPT !["rcv"][c] = IF @ = "up" THEN "closed" ELSE @]
            \in [End -> [Conn -> {"none", "hs", "up", "closed", "gone"}]]
      BY CloseType, Zenon DEF End
    <3> QED
      BY <3>1, <3>2, Zenon DEF TypeOK
  <2> QED
    BY <1>17, <2>2, <2>3, <2>4, Zenon DEF RecvAck, TypeOK, sndVars, rcvVars
<1>18. ASSUME NEW c \in Conn, RecvEmit(c) PROVE TypeOK'
  <2>1. rd[c].id \in Msg
    BY <1>18 DEF RecvEmit, TypeOK, ReadState, IdleRead
  <2> QED
    BY <1>18, <2>1, Idle DEF RecvEmit, TypeOK, sndVars, connVars, wireVars
<1>19. ASSUME NEW c \in Conn, RecvDelAll(c) PROVE TypeOK'
  <2>1. out' \in [Conn -> Seq(Frame)]
    BY <1>19, QueuePop, Zenon DEF RecvDelAll, Receiving, TypeOK
  <2> QED
    BY <1>19, <2>1 DEF RecvDelAll, Discard, TypeOK, sndVars, connVars
<1>20. ASSUME NEW c \in Conn, RecvRefused(c) PROVE TypeOK'
  <2>1. out' \in [Conn -> Seq(Frame)]
    BY <1>20, QueuePop, Zenon DEF RecvRefused, Receiving, TypeOK
  <2> QED
    BY <1>20, <2>1, Zenon DEF RecvRefused, TypeOK, sndVars, rcvVars
<1>21. ASSUME NEW c \in Conn, MarkDelivered(c) PROVE TypeOK'
  <2>1. back' \in [Conn -> Seq(Msg)]
    BY <1>21, QueuePop, Zenon DEF MarkDelivered, TypeOK
  <2> QED
    BY <1>21, <2>1, Zenon DEF MarkDelivered, TypeOK, sndVars, rcvVars, connVars
<1>22. ASSUME NEW S \in SUBSET inbox, RcvDelete(S) PROVE TypeOK'
  BY <1>22 DEF RcvDelete, Discard, TypeOK, sndVars, connVars, wireVars
<1>23. CASE UNCHANGED vars
  BY <1>23, Zenon DEF TypeOK, vars, sndVars, rcvVars, connVars, wireVars
<1>24. CASE DeleteAllMessages
  BY <1>24, RemoveType, Zenon DEF DeleteAllMessages, TypeOK, rcvVars, connVars, wireVars
<1> QED
  BY <1>1, <1>2, <1>3, <1>4, <1>5, <1>6, <1>7, <1>8, <1>9, <1>10, <1>11, <1>12, <1>13,
     <1>14, <1>15, <1>16, <1>17, <1>18, <1>19, <1>20, <1>21, <1>22, <1>23, <1>24, Zenon
     DEF Next, Session, User, Flush, Receive

\* Every variable stays in its type, whatever the two nodes and the network do.
THEOREM TypeCorrect == Spec => []TypeOK
<1>1. Init => TypeOK
  BY DeliveryBounds, Idle DEF Init, TypeOK, Msg, Conn, NoConn, End
<1> QED
  BY <1>1, TypeStep, PTL DEF Spec

-----------------------------------------------------------------------------
(* No message is lost.  NothingLost is not inductive: it needs that every  *)
(* ack stands for a stored message, and that a queued message is in the    *)
(* outbox.                                                                 *)

Inv ==
  /\ TypeOK
  /\ AcksMeanPersisted
  /\ \A m \in Msg : msgs[m] = "queued" => m \in outbox

\* A sequence over a set is one over any larger set.
LEMMA QueueGrow ==
  ASSUME NEW A, NEW B, A \subseteq B, NEW q \in [Conn -> Seq(A)]
  PROVE  q \in [Conn -> Seq(B)]
OBVIOUS

\* Inv is preserved by every step.
LEMMA InvStep ==
  ASSUME Inv, [Next]_vars PROVE Inv'
<1>1. TypeOK /\ TypeOK'
  BY TypeStep, Zenon DEF Inv
<1> USE <1>1
<1> DEFINE Same == UNCHANGED <<msgs, outbox, stored, back, rd>>
<1>2. CASE Same
  BY <1>2, Zenon DEF Inv, AcksMeanPersisted
<1>3. ASSUME NEW e \in End, NEW c \in Conn, Session(e, c) PROVE Inv'
  <2>1. CASE establish(e, c) \/ HandshakeFails(e, c) \/ Notice(e, c)
    BY <1>2, <2>1, Zenon DEF establish, HandshakeFails, Notice, sndVars, rcvVars, wireVars
  <2>2. CASE runSessionEnds(e, c)
    <3>1. back' \in [Conn -> Seq(stored)]
      BY <2>2 DEF runSessionEnds, Unread, Inv, AcksMeanPersisted
    <3> QED
      BY <2>2, <3>1, Zenon DEF runSessionEnds, sndVars, rcvVars, Inv, AcksMeanPersisted
  <2> QED
    BY <1>3, <2>1, <2>2, Zenon DEF Session
<1>4. ASSUME NEW e \in End, Crash(e) PROVE Inv'
  <2>1. back' \in [Conn -> Seq(stored)]
    BY <1>4 DEF Crash, Unread, Inv, AcksMeanPersisted
  <2>2. rd' = rd \/ rd' = [c \in Conn |-> IdleRead]
    BY <1>4, Zenon DEF Crash, Die
  <2> QED
    BY <1>4, <2>1, <2>2, Zenon DEF Crash, Die, sndVars, rcvVars, Inv, AcksMeanPersisted, IdleRead
<1>5. ASSUME NEW m \in Msg, SendReply(m) PROVE Inv'
  BY <1>5, Zenon DEF SendReply, rcvVars, wireVars, Inv, AcksMeanPersisted, TypeOK
<1>6. ASSUME NEW S, NEW how \in {"deleted", "pruned"}, Remove(S, how),
             how = "pruned" => \A m \in S : msgs[m] = "delivered",
             UNCHANGED <<stored, back, rd>>
      PROVE  Inv'
  BY <1>6, Zenon DEF Remove, Inv, AcksMeanPersisted, TypeOK
<1>7. ASSUME NEW m \in Msg, DeleteFromOutbox(m) \/ DeleteMessage(m) PROVE Inv'
  BY <1>6, <1>7, Zenon DEF DeleteFromOutbox, DeleteMessage, rcvVars, wireVars
<1>8. ASSUME NEW m \in Msg, Prune(m) PROVE Inv'
  BY <1>6, <1>8, Zenon DEF Prune, rcvVars, wireVars
<1>9. CASE DeleteAllMessages
  BY <1>6, <1>9, Zenon DEF DeleteAllMessages, rcvVars, wireVars
<1>10. ASSUME NEW m \in Msg, DeleteMessageForEveryone(m) PROVE Inv'
  <2>1. CASE Remove({m}, "deleted") /\ UNCHANGED <<rcvVars, connVars, back, fl, rd>>
    BY <1>6, <2>1, Zenon DEF rcvVars
  <2>2. CASE Die("snd") /\ back' = [c \in Conn |-> <<>>] /\ UNCHANGED sndVars
    <3>1. back' \in [Conn -> Seq(stored)]
      BY <2>2
    <3> QED
      BY <2>2, <3>1, Zenon DEF Die, sndVars, rcvVars, Inv, AcksMeanPersisted
  <2> QED
    BY <1>10, <2>1, <2>2, Zenon DEF DeleteMessageForEveryone
<1>11. ASSUME NEW f \in Flushers, Flush(f) \/ \E force \in BOOLEAN : FlushStart(f, force)
       PROVE  Inv'
  BY <1>2, <1>11, Zenon
     DEF Flush, FlushStart, FlushLock, FlushAttempt, FlushSend, sndVars, rcvVars, wireVars
<1>12. ASSUME NEW c \in Conn, RecvMsg(c) PROVE Inv'
  <2>1. back' \in [Conn -> Seq(stored')]
    <3>1. back \in [Conn -> Seq(stored)] /\ stored \subseteq stored' /\ back' = back
      BY <1>12, Zenon DEF RecvMsg, Inv, AcksMeanPersisted
    <3> QED
      BY <3>1, QueueGrow, Zenon
  <2>2. /\ rd' = [rd EXCEPT ![c] = [pc |-> "ack", id |-> Head(out[c]).id,
                                   dup |-> Head(out[c]).id \in inbox]]
        /\ stored' = stored \cup {Head(out[c]).id}
        /\ UNCHANGED <<msgs, outbox>>
    BY <1>12, Zenon DEF RecvMsg, sndVars
  <2> QED
    BY <2>1, <2>2, Zenon DEF Inv, AcksMeanPersisted, TypeOK
<1>13. ASSUME NEW c \in Conn, RecvAck(c) PROVE Inv'
  <2>1. rd[c].id \in stored /\ rd[c] \in [pc : {"ack", "emit"}, id : Msg, dup : BOOLEAN]
    BY <1>13 DEF RecvAck, Inv, AcksMeanPersisted, TypeOK, ReadState, IdleRead
  <2>2. back' \in [Conn -> Seq(stored)]
    <3>1. back' = back \/ back' = [back EXCEPT ![c] = Append(@, rd[c].id)]
      BY <1>13, Zenon DEF RecvAck
    <3>2. [back EXCEPT ![c] = Append(@, rd[c].id)] \in [Conn -> Seq(stored)]
      BY <2>1, QueuePush, Zenon DEF Inv, AcksMeanPersisted
    <3> QED
      BY <3>1, <3>2, Zenon DEF Inv, AcksMeanPersisted
  <2>3. \/ rd' = [rd EXCEPT ![c] = IdleRead]
        \/ rd' = [rd EXCEPT ![c] = [@ EXCEPT !.pc = "emit"]]
    BY <1>13, Zenon DEF RecvAck
  <2>4. \A d \in Conn : rd'[d].pc # "recv" => rd'[d].id \in stored
    <3>1. [rd[c] EXCEPT !.pc = "emit"].id \in stored
      BY <2>1, Zenon
    <3>2. IdleRead.pc = "recv"
      BY Zenon DEF IdleRead
    <3>3. rd'[c] = IdleRead \/ rd'[c] = [rd[c] EXCEPT !.pc = "emit"]
      BY <2>3, Zenon DEF TypeOK
    <3>4. \A d \in Conn \ {c} : rd'[d] = rd[d]
      BY <2>3, Zenon DEF TypeOK
    <3> QED
      BY <3>1, <3>2, <3>3, <3>4, Zenon DEF Inv, AcksMeanPersisted
  <2>5. UNCHANGED <<msgs, outbox, stored>>
    BY <1>13, Zenon DEF RecvAck, sndVars, rcvVars
  <2> QED
    BY <2>2, <2>4, <2>5, Zenon DEF Inv, AcksMeanPersisted
<1>14. ASSUME NEW c \in Conn, RecvEmit(c) PROVE Inv'
  BY <1>14, Zenon DEF RecvEmit, sndVars, wireVars, Inv, AcksMeanPersisted, TypeOK, IdleRead
<1>15. ASSUME NEW c \in Conn, RecvDelAll(c) \/ RecvRefused(c) PROVE Inv'
  BY <1>2, <1>15, Zenon DEF RecvDelAll, RecvRefused, sndVars, rcvVars
<1>16. ASSUME NEW c \in Conn, MarkDelivered(c) PROVE Inv'
  <2>1. Head(back[c]) \in stored /\ back' \in [Conn -> Seq(stored)]
    BY <1>16, QueuePop, Zenon DEF MarkDelivered, Inv, AcksMeanPersisted
  <2>2. UNCHANGED <<stored, rd>>
    BY <1>16, Zenon DEF MarkDelivered, rcvVars
  <2>3. CASE UNCHANGED sndVars
    BY <2>1, <2>2, <2>3, Zenon DEF sndVars, Inv, AcksMeanPersisted
  <2>4. CASE /\ msgs' = [msgs EXCEPT ![Head(back[c])] = "delivered"]
             /\ outbox' = outbox \ {Head(back[c])}
    BY <2>1, <2>2, <2>4, Zenon DEF Inv, AcksMeanPersisted, TypeOK
  <2> QED
    BY <1>16, <2>3, <2>4, Zenon DEF MarkDelivered
<1>17. CASE \/ Connect
            \/ \E c \in Conn : Cut(c)
            \/ \E m \in Msg : BackoffExpires(m)
            \/ \E S \in SUBSET inbox : RcvDelete(S)
            \/ UNCHANGED vars
  BY <1>2, <1>17, Zenon
     DEF Connect, Cut, BackoffExpires, RcvDelete, vars, sndVars, rcvVars, wireVars
<1> QED
  BY <1>3, <1>4, <1>5, <1>7, <1>8, <1>9, <1>10, <1>11, <1>12, <1>13, <1>14, <1>15, <1>16, <1>17, Zenon
     DEF Next, User, Receive

\* The inductive invariant holds throughout.
THEOREM InvHolds == Spec => []Inv
<1>1. Init => Inv
  <2> SUFFICES ASSUME Init PROVE Inv
    BY Zenon
  <2>1. TypeOK
    BY DeliveryBounds, Idle DEF Init, TypeOK, Msg, Conn, NoConn, End
  <2>2. back \in [Conn -> Seq(stored)]
    BY DEF Init
  <2> QED
    BY <2>1, <2>2, Zenon DEF Init, Inv, AcksMeanPersisted, IdleRead
<1> QED
  BY <1>1, InvStep, PTL DEF Spec

\* "Acks mean persisted": whatever is acknowledged, or marked delivered, the
\* receiver has stored.
THEOREM AcksAreSound == Spec => []AcksMeanPersisted
BY InvHolds, PTL DEF Inv

\* "Nothing is lost": a message its sender has not deleted is in the outbox or
\* has been stored by the receiver, through every crash, cut, refusal and
\* retention run.
THEOREM NoMessageLost == Spec => []NothingLost
<1>1. Inv => NothingLost
  BY Zenon DEF Inv, AcksMeanPersisted, NothingLost
<1> QED
  BY <1>1, InvHolds, PTL

-----------------------------------------------------------------------------
\* A step that opens no link and leaves Node.live alone keeps OneLiveLink.
LEMMA NoneOpened ==
  ASSUME TypeOK, OneLiveLink, NEW e \in End, NEW c, NEW v, v = "up" => end[e][c] = "up",
         end' = [end EXCEPT ![e][c] = v], live' = live
  PROVE  OneLiveLink'
<1>1. \A x \in End, d \in Conn : end'[x][d] = "up" => end[x][d] = "up"
  BY Zenon DEF TypeOK
<1> QED
  BY <1>1 DEF OneLiveLink

\* "Newest session wins": an end never has two open links to the other, and
\* the open one is the link flush and the user's requests will use.
THEOREM NewestSessionWins == Spec => []OneLiveLink
<1>1. Init => OneLiveLink
  BY DEF Init, OneLiveLink
<1>2. TypeOK /\ OneLiveLink /\ [Next]_vars => OneLiveLink'
  <2> SUFFICES ASSUME TypeOK, OneLiveLink, [Next]_vars PROVE OneLiveLink'
    BY Zenon
  <2>1. CASE UNCHANGED <<live, end>>
    BY <2>1, Zenon DEF OneLiveLink
  <2>2. CASE Connect
    BY <2>2, Zenon DEF Connect, OneLiveLink, TypeOK
  <2>3. ASSUME NEW e \in End, NEW c \in Conn, Session(e, c) PROVE OneLiveLink'
    <3>1. CASE establish(e, c)
      BY <3>1, Zenon DEF establish, OneLiveLink, TypeOK
    <3>2. CASE HandshakeFails(e, c) \/ Notice(e, c)
      BY <3>2, NoneOpened, Zenon DEF HandshakeFails, Notice
    <3>3. CASE runSessionEnds(e, c)
      BY <3>3, Zenon DEF runSessionEnds, OneLiveLink, TypeOK
    <3> QED
      BY <2>3, <3>1, <3>2, <3>3, Zenon DEF Session
  <2>4. ASSUME NEW e \in End, Die(e) PROVE OneLiveLink'
    BY <2>4, Zenon DEF Die, OneLiveLink, TypeOK
  <2>5. ASSUME NEW m \in Msg, User(m) PROVE OneLiveLink'
    BY <2>1, <2>4, <2>5, Zenon
       DEF User, SendReply, DeleteFromOutbox, DeleteMessage, DeleteMessageForEveryone, Prune,
           connVars, End
  <2>6. ASSUME NEW f \in Flushers, NEW m \in Msg, FlushSend(f, m) PROVE OneLiveLink'
    <3>1. \/ end' = end
          \/ end' = [end EXCEPT !["snd"][fl[f].link] = IF @ = "up" THEN "closed" ELSE @]
      BY <2>6, Zenon DEF FlushSend
    <3>2. live' = live /\ "snd" \in End
      BY <2>6, Zenon DEF FlushSend, End
    <3>3. CASE end' = [end EXCEPT !["snd"][fl[f].link] = IF @ = "up" THEN "closed" ELSE @]
      BY <3>2, <3>3, NoneOpened, Zenon
    <3> QED
      BY <2>1, <3>1, <3>2, <3>3, Zenon
  <2>7. ASSUME NEW c \in Conn, RecvAck(c) \/ RecvRefused(c) PROVE OneLiveLink'
    <3>1. \/ end' = end
          \/ end' = [end EXCEPT !["rcv"][c] = IF @ = "up" THEN "closed" ELSE @]
          \/ end' = [end EXCEPT !["rcv"][c] = "closed"]
      BY <2>7, Zenon DEF RecvAck, RecvRefused
    <3>2. live' = live /\ "rcv" \in End
      BY <2>7, Zenon DEF RecvAck, RecvRefused, End
    <3>3. CASE end' = [end EXCEPT !["rcv"][c] = IF @ = "up" THEN "closed" ELSE @]
      BY <3>2, <3>3, NoneOpened, Zenon
    <3>4. CASE end' = [end EXCEPT !["rcv"][c] = "closed"]
      BY <3>2, <3>4, NoneOpened, Zenon
    <3> QED
      BY <2>1, <3>1, <3>2, <3>3, <3>4, Zenon
  <2>8. ASSUME NEW f \in Flushers, Flush(f) \/ \E force \in BOOLEAN : FlushStart(f, force)
        PROVE  OneLiveLink'
    BY <2>1, <2>6, <2>8, Zenon DEF Flush, FlushStart, FlushLock, FlushAttempt, connVars
  <2>9. ASSUME NEW c \in Conn, Receive(c) \/ MarkDelivered(c) \/ Cut(c)
        PROVE  OneLiveLink'
    BY <2>1, <2>7, <2>9, Zenon
       DEF Receive, RecvMsg, RecvEmit, RecvDelAll, MarkDelivered, Cut, connVars
  <2>10. CASE \/ \E m \in Msg : BackoffExpires(m)
              \/ DeleteAllMessages
              \/ \E S \in SUBSET inbox : RcvDelete(S)
              \/ UNCHANGED vars
    BY <2>1, <2>10, Zenon DEF BackoffExpires, DeleteAllMessages, RcvDelete, vars, connVars
  <2> QED
    BY <2>2, <2>3, <2>4, <2>5, <2>7, <2>8, <2>9, <2>10, Zenon DEF Next, Crash
<1> QED
  BY <1>1, <1>2, TypeCorrect, PTL DEF Spec

-----------------------------------------------------------------------------
(* What is in flight.                                                      *)

\* Messages the user has sent.
Posted == {m \in Msg : msgs[m] # "none"}

\* What the refinement and the order of delivery need beyond Inv: only sent
\* messages are on their way, what the receiver holds it has stored, and a read
\* loop about to emit its event has not met a duplicate.
Frames == [t : {"msg", "delall"}, id : Posted]

RInv ==
  /\ Inv
  /\ outbox \subseteq Posted
  /\ \A f \in Flushers : fl[f].todo \subseteq Posted
  /\ out \in [Conn -> Seq(Frames)]
  /\ inbox \subseteq stored
  /\ \A c \in Conn : rd[c].pc = "emit" => ~rd[c].dup

\* A step that sends nothing new and leaves the messages in flight keeps RInv's
\* account of them.
LEMMA PostedGrows ==
  ASSUME TypeOK, [Next]_vars PROVE Posted \subseteq Posted'
<1>1. \A m \in Msg : msgs[m] # "none" => msgs'[m] # "none"
  <2>1. CASE UNCHANGED msgs
    BY <2>1, Zenon
  <2>2. ASSUME NEW S, NEW how \in {"deleted", "pruned"}, Remove(S, how)
        PROVE  \A m \in Msg : msgs[m] # "none" => msgs'[m] # "none"
    BY <2>2, Zenon DEF Remove
  <2>3. ASSUME NEW m \in Msg, User(m) PROVE \A k \in Msg : msgs[k] # "none" => msgs'[k] # "none"
    <3>1. CASE SendReply(m)
      BY <3>1, Zenon DEF SendReply, TypeOK
    <3>2. CASE DeleteFromOutbox(m) \/ DeleteMessage(m) \/ Prune(m)
      BY <2>2, <3>2, Zenon DEF DeleteFromOutbox, DeleteMessage, Prune
    <3>3. CASE DeleteMessageForEveryone(m)
      BY <2>1, <2>2, <3>3, Zenon DEF DeleteMessageForEveryone, sndVars
    <3> QED
      BY <2>3, <3>1, <3>2, <3>3, Zenon DEF User
  <2>4. CASE DeleteAllMessages
    BY <2>2, <2>4, Zenon DEF DeleteAllMessages
  <2>5. ASSUME NEW c \in Conn, MarkDelivered(c)
        PROVE  \A k \in Msg : msgs[k] # "none" => msgs'[k] # "none"
    BY <2>5, Zenon DEF MarkDelivered, sndVars, TypeOK
  <2>6. ASSUME NEW c \in Conn, Receive(c) \/ RecvRefused(c) \/ Cut(c) PROVE UNCHANGED msgs
    BY <2>6, Zenon DEF Receive, RecvMsg, RecvAck, RecvEmit, RecvDelAll, RecvRefused, Cut, sndVars
  <2>7. ASSUME NEW f \in Flushers, Flush(f) \/ \E force \in BOOLEAN : FlushStart(f, force)
        PROVE  UNCHANGED msgs
    BY <2>7, Zenon DEF Flush, FlushStart, FlushLock, FlushAttempt, FlushSend, sndVars
  <2>8. ASSUME NEW e \in End, NEW c \in Conn, Session(e, c) PROVE UNCHANGED msgs
    BY <2>8, Zenon DEF Session, establish, HandshakeFails, Notice, runSessionEnds, sndVars
  <2>9. CASE \/ Connect \/ \E e \in End : Crash(e)
             \/ \E m \in Msg : BackoffExpires(m)
             \/ \E S \in SUBSET inbox : RcvDelete(S)
             \/ UNCHANGED vars
    BY <2>9, <2>1, Zenon DEF Connect, Crash, BackoffExpires, RcvDelete, vars, sndVars
  <2> QED
    BY <2>1, <2>3, <2>4, <2>5, <2>6, <2>7, <2>8, <2>9, Zenon DEF Next
<1> QED
  BY <1>1, Zenon DEF Posted

\* The outbox and what a flush goroutine has left to send are sent messages.
LEMMA SentStep ==
  ASSUME RInv, [Next]_vars
  PROVE  outbox' \subseteq Posted' /\ \A f \in Flushers : fl'[f].todo \subseteq Posted'
<1>1. TypeOK /\ TypeOK' /\ Posted \subseteq Posted'
  BY TypeStep, PostedGrows, Zenon DEF RInv, Inv
<1>2. outbox' \subseteq Posted'
  <2>1. CASE outbox' \subseteq outbox
    BY <1>1, <2>1, Zenon DEF RInv
  <2>2. ASSUME NEW m \in Msg, SendReply(m) PROVE outbox' \subseteq Posted'
    <3>1. m \in Posted' /\ outbox' = outbox \cup {m}
      BY <1>1, <2>2, Zenon DEF SendReply, Posted, TypeOK
    <3> QED
      BY <1>1, <3>1, Zenon DEF RInv
  <2>3. CASE DeleteAllMessages \/ \E m \in Msg : User(m) /\ ~SendReply(m)
    BY <2>1, <2>3, Zenon DEF DeleteAllMessages, User, DeleteFromOutbox, DeleteMessage, Prune,
                      DeleteMessageForEveryone, Remove, sndVars
  <2>4. ASSUME NEW c \in Conn, Receive(c) \/ RecvRefused(c) \/ Cut(c) \/ MarkDelivered(c)
        PROVE  outbox' \subseteq outbox
    BY <2>4, Zenon DEF Receive, RecvMsg, RecvAck, RecvEmit, RecvDelAll, RecvRefused, Cut, MarkDelivered,
                sndVars
  <2>5. ASSUME NEW f \in Flushers, Flush(f) \/ \E force \in BOOLEAN : FlushStart(f, force)
        PROVE  UNCHANGED outbox
    BY <2>5, Zenon DEF Flush, FlushStart, FlushLock, FlushAttempt, FlushSend, sndVars
  <2>6. ASSUME NEW e \in End, NEW c \in Conn, Session(e, c) PROVE UNCHANGED outbox
    BY <2>6, Zenon DEF Session, establish, HandshakeFails, Notice, runSessionEnds, sndVars
  <2>7. CASE \/ Connect \/ \E e \in End : Crash(e)
             \/ \E m \in Msg : BackoffExpires(m)
             \/ \E S \in SUBSET inbox : RcvDelete(S)
             \/ UNCHANGED vars
    BY <2>1, <2>7, Zenon DEF Connect, Crash, BackoffExpires, RcvDelete, vars, sndVars
  <2> QED
    BY <2>1, <2>2, <2>3, <2>4, <2>5, <2>6, <2>7, Zenon DEF Next
<1>3. ASSUME NEW g \in Flushers PROVE fl'[g].todo \subseteq Posted'
  <2>1. fl[g].todo \subseteq Posted
    BY Zenon DEF RInv
  <2>2. CASE fl'[g] = fl[g] \/ fl'[g] = IdleFlush
    BY <1>1, <2>1, <2>2 DEF IdleFlush
  <2>3. ASSUME NEW S \in SUBSET Posted, fl'[g] = Flushing(g, S) PROVE fl'[g].todo \subseteq Posted'
    BY <1>1, <2>3 DEF Flushing, IdleFlush
  <2>4. ASSUME NEW f \in Flushers, FlushStart(f, TRUE) \/ FlushStart(f, FALSE)
        PROVE  fl'[g].todo \subseteq Posted'
    <3>1. PICK force \in BOOLEAN :
            fl' = [fl EXCEPT ![f] = [pc |-> "lock", link |-> live["snd"], force |-> force, todo |-> {}]]
      BY <2>4, Zenon DEF FlushStart
    <3>2. CASE f = g
      <4>1. fl'[g].todo = {}
        BY <1>1, <3>1, <3>2, Zenon DEF TypeOK
      <4> QED
        BY <4>1, Zenon
    <3>3. CASE f # g
      <4>1. fl'[g] = fl[g]
        BY <1>1, <3>1, <3>3, Zenon DEF TypeOK
      <4> QED
        BY <2>2, <4>1, Zenon
    <3> QED
      BY <3>2, <3>3, Zenon
  <2>5. ASSUME NEW f \in Flushers, FlushLock(f) PROVE fl'[g].todo \subseteq Posted'
    <3>1. {m \in outbox : fl[f].force \/ m \notin cooling} \in SUBSET Posted
      BY Zenon DEF RInv
    <3>2. /\ f = g => fl'[g] = Flushing(g, {m \in outbox : fl[f].force \/ m \notin cooling})
          /\ f # g => fl'[g] = fl[g]
      BY <1>1, <2>5, Zenon DEF FlushLock, TypeOK
    <3> QED
      BY <2>2, <2>3, <3>1, <3>2, Zenon
  <2>6. ASSUME NEW f \in Flushers, NEW m \in Msg, FlushAttempt(f, m) \/ FlushSend(f, m)
        PROVE  fl'[g].todo \subseteq Posted'
    <3>1. CASE f # g
      BY <1>1, <2>2, <2>6, <3>1, Zenon DEF FlushAttempt, FlushSend, TypeOK
    <3>2. CASE f = g /\ fl' = [fl EXCEPT ![f].pc = "send"]
      BY <1>1, <2>1, <3>2 DEF TypeOK, FlushState, IdleFlush
    <3>3. CASE f = g /\ fl' = [fl EXCEPT ![f] = Flushing(f, @.todo \ {m})]
      <4>1. fl'[g] = Flushing(g, fl[g].todo \ {m})
        BY <1>1, <3>3, Zenon DEF TypeOK
      <4> QED
        BY <2>1, <2>3, <4>1, Zenon
    <3>4. CASE f = g /\ fl' = [fl EXCEPT ![f] = IdleFlush]
      BY <1>1, <2>2, <3>4, Zenon DEF TypeOK
    <3> QED
      BY <2>6, <3>1, <3>2, <3>3, <3>4, Zenon DEF FlushAttempt, FlushSend
  <2>7. ASSUME NEW e \in End, Die(e) PROVE fl'[g].todo \subseteq Posted'
    BY <2>2, <2>7, Zenon DEF Die
  <2>8. ASSUME NEW m \in Msg, User(m) PROVE fl'[g].todo \subseteq Posted'
    BY <2>2, <2>7, <2>8, Zenon DEF User, SendReply, DeleteFromOutbox, DeleteMessage, Prune,
                            DeleteMessageForEveryone, End
  <2>9. ASSUME NEW c \in Conn, Receive(c) \/ RecvRefused(c) \/ Cut(c) \/ MarkDelivered(c)
        PROVE  UNCHANGED fl
    BY <2>9, Zenon DEF Receive, RecvMsg, RecvAck, RecvEmit, RecvDelAll, RecvRefused, Cut, MarkDelivered
  <2>10. ASSUME NEW e \in End, NEW c \in Conn, Session(e, c) PROVE UNCHANGED fl
    BY <2>10, Zenon DEF Session, establish, HandshakeFails, Notice, runSessionEnds
  <2>11. CASE \/ Connect \/ DeleteAllMessages
              \/ \E m \in Msg : BackoffExpires(m)
              \/ \E S \in SUBSET inbox : RcvDelete(S)
              \/ UNCHANGED vars
    BY <2>2, <2>11, Zenon DEF Connect, DeleteAllMessages, BackoffExpires, RcvDelete, vars
  <2> QED
    BY <2>2, <2>4, <2>5, <2>6, <2>7, <2>8, <2>9, <2>10, <2>11, Zenon DEF Next, Crash, Flush
<1> QED
  BY <1>2, <1>3, Zenon

\* Only sent messages are in a frame to the receiver.
LEMMA FramesStep ==
  ASSUME RInv, [Next]_vars PROVE out' \in [Conn -> Seq(Frames')]
<1>1. TypeOK /\ TypeOK' /\ Posted \subseteq Posted'
  BY TypeStep, PostedGrows, Zenon DEF RInv, Inv
<1>2. Frames \subseteq Frames'
  BY <1>1, Zenon DEF Frames
<1>3. SUFFICES out' \in [Conn -> Seq(Frames)]
  BY <1>2, <1>3, QueueGrow, Zenon
<1>4. out \in [Conn -> Seq(Frames)]
  BY Zenon DEF RInv
<1>5. ASSUME NEW c \in Conn, NEW x \in Frames, out' = [out EXCEPT ![c] = Append(@, x)]
      PROVE  out' \in [Conn -> Seq(Frames)]
  BY <1>4, <1>5, QueuePush, Zenon
<1>6. ASSUME NEW m \in Msg, DeleteMessageForEveryone(m) PROVE out' \in [Conn -> Seq(Frames)]
  <2>1. m \in Posted /\ live["snd"] \in Conn
    BY <1>1, <1>6, Zenon DEF DeleteMessageForEveryone, AskDelete, Held, Posted, TypeOK, End
  <2>2. [t |-> "delall", id |-> m] \in Frames
    BY <2>1, Zenon DEF Frames
  <2>3. \/ out' = [out EXCEPT ![live["snd"]] = Append(@, [t |-> "delall", id |-> m])]
        \/ out' = out
    BY <1>6, Zenon DEF DeleteMessageForEveryone, AskDelete
  <2> QED
    BY <1>4, <1>5, <2>1, <2>2, <2>3, Zenon
<1>7. ASSUME NEW f \in Flushers, NEW m \in Msg, FlushSend(f, m)
      PROVE  out' \in [Conn -> Seq(Frames)]
  <2>1. m \in Posted
    BY <1>7, Zenon DEF FlushSend, Oldest, RInv
  <2>2. fl[f].link \in Conn
    <3>1. fl[f] \in FlushState /\ fl[f].pc = "send"
      BY <1>1, <1>7, Zenon DEF FlushSend, TypeOK
    <3> QED
      BY <3>1 DEF FlushState, IdleFlush
  <2>3. [t |-> "msg", id |-> m] \in Frames
    BY <2>1, Zenon DEF Frames
  <2>4. out' = out \/ out' = [out EXCEPT ![fl[f].link] = Append(@, [t |-> "msg", id |-> m])]
    BY <1>7, Zenon DEF FlushSend
  <2> QED
    BY <1>4, <1>5, <2>2, <2>3, <2>4, Zenon
<1>8. ASSUME NEW c \in Conn, Receive(c) \/ RecvRefused(c) \/ Cut(c) \/ MarkDelivered(c)
      PROVE  out' \in [Conn -> Seq(Frames)]
  <2>1. out' = out \/ (out[c] # <<>> /\ out' = [out EXCEPT ![c] = Tail(@)])
    BY <1>8, Zenon DEF Receive, Receiving, RecvMsg, RecvAck, RecvEmit, RecvDelAll, RecvRefused, Cut,
                MarkDelivered, wireVars
  <2>2. out[c] # <<>> => [out EXCEPT ![c] = Tail(@)] \in [Conn -> Seq(Frames)]
    BY <1>4, QueuePop, Zenon
  <2> QED
    BY <1>4, <2>1, <2>2, Zenon
<1>9. ASSUME NEW e \in End, NEW C, Unread(e, C) PROVE out' \in [Conn -> Seq(Frames)]
  BY <1>4, <1>9 DEF Unread
<1>10. ASSUME NEW e \in End, NEW c \in Conn, Session(e, c) PROVE out' \in [Conn -> Seq(Frames)]
  BY <1>4, <1>9, <1>10, Zenon DEF Session, establish, HandshakeFails, Notice, runSessionEnds, wireVars
<1>11. ASSUME NEW m \in Msg, User(m) PROVE out' \in [Conn -> Seq(Frames)]
  BY <1>4, <1>6, <1>11, Zenon DEF User, SendReply, DeleteFromOutbox, DeleteMessage, Prune, wireVars
<1>12. ASSUME NEW f \in Flushers, Flush(f) \/ \E force \in BOOLEAN : FlushStart(f, force)
       PROVE  out' \in [Conn -> Seq(Frames)]
  BY <1>4, <1>7, <1>12, Zenon DEF Flush, FlushStart, FlushLock, FlushAttempt, wireVars
<1>13. CASE \/ Connect \/ DeleteAllMessages \/ \E e \in End : Crash(e)
            \/ \E m \in Msg : BackoffExpires(m)
            \/ \E S \in SUBSET inbox : RcvDelete(S)
            \/ UNCHANGED vars
  BY <1>4, <1>9, <1>13, Zenon
     DEF Connect, DeleteAllMessages, Crash, BackoffExpires, RcvDelete, vars, wireVars
<1> QED
  BY <1>8, <1>10, <1>11, <1>12, <1>13, Zenon DEF Next

\* RInv is preserved by every step.
LEMMA RInvStep ==
  ASSUME RInv, [Next]_vars PROVE RInv'
<1>1. Inv /\ Inv' /\ TypeOK
  BY InvStep, Zenon DEF RInv, Inv
<1>2. inbox' \subseteq stored'
  <2>1. CASE inbox' \subseteq inbox /\ stored' = stored
    BY <2>1, Zenon DEF RInv
  <2>2. ASSUME NEW c \in Conn, Receive(c) \/ RecvRefused(c) \/ Cut(c) \/ MarkDelivered(c)
        PROVE  inbox' \subseteq stored'
    <3>1. CASE RecvMsg(c)
      BY <3>1, Zenon DEF RecvMsg, RInv
    <3>2. CASE RecvDelAll(c)
      BY <2>1, <3>2, Zenon DEF RecvDelAll, Discard
    <3> QED
      BY <2>1, <2>2, <3>1, <3>2, Zenon DEF Receive, RecvAck, RecvEmit, RecvRefused, Cut, MarkDelivered, rcvVars
  <2>3. ASSUME NEW e \in End, NEW c \in Conn, Session(e, c) PROVE UNCHANGED rcvVars
    BY <2>3, Zenon DEF Session, establish, HandshakeFails, Notice, runSessionEnds
  <2>4. ASSUME NEW m \in Msg, User(m) PROVE UNCHANGED rcvVars
    BY <2>4, Zenon DEF User, SendReply, DeleteFromOutbox, DeleteMessage, Prune,
                DeleteMessageForEveryone, Die
  <2>5. ASSUME NEW f \in Flushers, Flush(f) \/ \E force \in BOOLEAN : FlushStart(f, force)
        PROVE  UNCHANGED rcvVars
    BY <2>5, Zenon DEF Flush, FlushStart, FlushLock, FlushAttempt, FlushSend
  <2>6. CASE \E S \in SUBSET inbox : RcvDelete(S)
    BY <2>1, <2>6, Zenon DEF RcvDelete, Discard
  <2>7. CASE \/ Connect \/ DeleteAllMessages \/ \E e \in End : Crash(e)
             \/ \E m \in Msg : BackoffExpires(m)
             \/ UNCHANGED vars
    BY <2>1, <2>7, Zenon DEF Connect, DeleteAllMessages, Crash, Die, BackoffExpires, vars, rcvVars
  <2> QED
    BY <2>1, <2>2, <2>3, <2>4, <2>5, <2>6, <2>7, Zenon DEF Next, rcvVars
<1>3. ASSUME NEW d \in Conn PROVE rd'[d].pc = "emit" => ~rd'[d].dup
  <2>1. CASE rd'[d] = rd[d] \/ rd'[d] = IdleRead
    BY <2>1 DEF RInv, IdleRead
  <2>2. ASSUME NEW c \in Conn, RecvMsg(c) PROVE rd'[d].pc = "emit" => ~rd'[d].dup
    BY <1>1, <2>1, <2>2, Zenon DEF RecvMsg, TypeOK
  <2>3. ASSUME NEW c \in Conn, RecvAck(c) PROVE rd'[d].pc = "emit" => ~rd'[d].dup
    <3>1. CASE c # d
      BY <1>1, <2>1, <2>3, <3>1, Zenon DEF RecvAck, TypeOK
    <3>2. CASE c = d
      <4>1. rd'[d] = IdleRead \/ (~rd[d].dup /\ rd'[d] = [rd[d] EXCEPT !.pc = "emit"])
        BY <1>1, <2>3, <3>2, Zenon DEF RecvAck, TypeOK
      <4>2. rd[d] \in [pc : {"ack", "emit"}, id : Msg, dup : BOOLEAN]
        BY <1>1, <2>3, <3>2 DEF RecvAck, TypeOK, ReadState, IdleRead
      <4> QED
        BY <2>1, <4>1, <4>2, Zenon
    <3> QED
      BY <3>1, <3>2, Zenon
  <2>4. ASSUME NEW c \in Conn, RecvEmit(c) PROVE rd'[d] = rd[d] \/ rd'[d] = IdleRead
    BY <1>1, <2>4, Zenon DEF RecvEmit, TypeOK
  <2>5. ASSUME NEW c \in Conn, RecvDelAll(c) \/ RecvRefused(c) \/ Cut(c) \/ MarkDelivered(c)
        PROVE  rd' = rd
    BY <2>5, Zenon DEF RecvDelAll, RecvRefused, Cut, MarkDelivered
  <2>6. ASSUME NEW e \in End, Die(e) PROVE rd'[d] = rd[d] \/ rd'[d] = IdleRead
    BY <2>6, Zenon DEF Die
  <2>7. ASSUME NEW m \in Msg, User(m) PROVE rd'[d] = rd[d] \/ rd'[d] = IdleRead
    BY <2>6, <2>7, Zenon DEF User, SendReply, DeleteFromOutbox, DeleteMessage, Prune,
                DeleteMessageForEveryone, End
  <2>8. ASSUME NEW f \in Flushers, Flush(f) \/ \E force \in BOOLEAN : FlushStart(f, force)
        PROVE  rd' = rd
    BY <2>8, Zenon DEF Flush, FlushStart, FlushLock, FlushAttempt, FlushSend
  <2>9. ASSUME NEW e \in End, NEW c \in Conn, Session(e, c) PROVE rd' = rd
    BY <2>9, Zenon DEF Session, establish, HandshakeFails, Notice, runSessionEnds
  <2>10. CASE \/ Connect \/ DeleteAllMessages
              \/ \E m \in Msg : BackoffExpires(m)
              \/ \E S \in SUBSET inbox : RcvDelete(S)
              \/ UNCHANGED vars
    BY <2>1, <2>10, Zenon DEF Connect, DeleteAllMessages, BackoffExpires, RcvDelete, vars
  <2> QED
    BY <2>1, <2>2, <2>3, <2>4, <2>5, <2>6, <2>7, <2>8, <2>9, <2>10, Zenon DEF Next, Crash, Receive
<1> QED
  BY <1>1, <1>2, <1>3, SentStep, FramesStep, Zenon DEF RInv

\* RInv holds throughout.
THEOREM RInvHolds == Spec => []RInv
<1>1. Init => RInv
  <2> SUFFICES ASSUME Init PROVE RInv
    BY Zenon
  <2>1. TypeOK
    BY DeliveryBounds, Idle DEF Init, TypeOK, Msg, Conn, NoConn, End
  <2>2. back \in [Conn -> Seq(stored)] /\ out \in [Conn -> Seq(Frames)]
    BY DEF Init
  <2>3. Inv
    BY <2>1, <2>2, Zenon DEF Init, Inv, AcksMeanPersisted, IdleRead
  <2> QED
    BY <2>2, <2>3, Zenon DEF Init, RInv, IdleRead, IdleFlush
<1> QED
  BY <1>1, RInvStep, PTL DEF Spec

=============================================================================

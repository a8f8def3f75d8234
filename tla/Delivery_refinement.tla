------------------------- MODULE Delivery_refinement ------------------------
(***************************************************************************)
(* Delivery implements Mailbox and announces a message once, for any       *)
(* number of messages, sessions, frames in flight and flush goroutines.    *)
(***************************************************************************)
EXTENDS Delivery_proofs, FiniteSetTheorems

-----------------------------------------------------------------------------
(* The steps of Mailbox that the steps of Delivery are.                    *)

\* Removing messages at the sender withdraws them or lets them expire.
LEMMA RemoveIs ==
  ASSUME TypeOK, NEW S \in SUBSET Msg, NEW how \in {"deleted", "pruned"}, Remove(S, how),
         how = "deleted" => S \subseteq Held,
         how = "pruned" => \A m \in S : msgs[m] = "delivered",
         UNCHANGED <<inbox, stored, shown, rd>>
  PROVE  Abstract!Withdraw(S) \/ Abstract!Expire(S)
<1>1. Owed' = Owed
  BY Zenon DEF Owed
<1> QED
  BY <1>1, Zenon DEF Remove, Held, Abstract!Withdraw, Abstract!Expire, Abstract!Become

\* A read loop that goes idle, or goes on to its event, owes no more than before.
LEMMA OwedShrinks ==
  ASSUME TypeOK, rd' \in [Conn -> ReadState],
         \A c \in Conn : rd'[c] = rd[c] \/ rd'[c] = IdleRead
                           \/ (rd[c].pc = "ack" /\ rd'[c] = [rd[c] EXCEPT !.pc = "emit"])
  PROVE  Owed' \subseteq Owed
<1>1. ASSUME NEW c \in Conn, NEW m \in Msg, rd'[c].pc # "recv", rd'[c].id = m, ~rd'[c].dup
      PROVE  rd[c].pc # "recv" /\ rd[c].id = m /\ ~rd[c].dup
  <2>1. CASE rd'[c] = rd[c]
    BY <1>1, <2>1
  <2>2. CASE rd'[c] = IdleRead
    BY <1>1, <2>2 DEF IdleRead
  <2>3. CASE rd[c].pc = "ack" /\ rd'[c] = [rd[c] EXCEPT !.pc = "emit"]
    <3>1. rd[c] \in [pc : {"ack", "emit"}, id : Msg, dup : BOOLEAN]
      BY <2>3 DEF TypeOK, ReadState, IdleRead
    <3> QED
      BY <1>1, <2>3, <3>1, Zenon
  <2> QED
    BY <2>1, <2>2, <2>3, Zenon
<1> QED
  BY <1>1, Zenon DEF Owed

\* A read loop that takes in a new message owes its announcement; one that
\* takes in a duplicate owes nothing.
LEMMA RecvMsgOwes ==
  ASSUME RInv, NEW c \in Conn, RecvMsg(c), NEW m, m = Head(out[c]).id
  PROVE  /\ m \in Posted /\ m \in Msg
         /\ m \in inbox => Owed' = Owed
         /\ m \notin inbox => Owed' = Owed \cup {<<c, m>>}
         /\ \A k \in Msg : <<c, k>> \notin Owed
<1>1. TypeOK
  BY Zenon DEF RInv, Inv
<1>2. m \in Posted /\ m \in Msg
  <2>1. Head(out[c]) \in Frames
    BY QueuePop, Zenon DEF RInv, RecvMsg, Receiving
  <2> QED
    BY <2>1, Zenon DEF Frames, Posted
<1>3. /\ rd[c] = IdleRead
      /\ rd' = [rd EXCEPT ![c] = [pc |-> "ack", id |-> m, dup |-> m \in inbox]]
  BY Zenon DEF RecvMsg, Receiving
<1>4. \A d \in Conn \ {c} : rd'[d] = rd[d]
  BY <1>1, <1>3, Zenon DEF TypeOK
<1>5. rd'[c] = [pc |-> "ack", id |-> m, dup |-> m \in inbox]
  BY <1>1, <1>3, Zenon DEF TypeOK
<1>6. ASSUME m \in inbox PROVE Owed' = Owed
  <2>1. rd'[c] = [pc |-> "ack", id |-> m, dup |-> TRUE]
    BY <1>5, <1>6, Zenon
  <2> QED
    BY <1>3, <1>4, <2>1 DEF Owed, IdleRead
<1>7. \A k \in Msg : <<c, k>> \notin Owed
  BY <1>3 DEF Owed, IdleRead
<1>8. ASSUME m \notin inbox PROVE Owed' = Owed \cup {<<c, m>>}
  <2>1. rd'[c] = [pc |-> "ack", id |-> m, dup |-> FALSE]
    <3>1. (m \in inbox) = FALSE
      BY <1>8
    <3> QED
      BY <1>5, <3>1, Zenon
  <2>2. rd'[c].pc # "recv" /\ rd'[c].id = m /\ ~rd'[c].dup
    BY <2>1
  <2>3. ASSUME NEW d \in Conn, NEW k \in Msg
        PROVE  <<d, k>> \in Owed' <=> <<d, k>> \in Owed \/ (d = c /\ k = m)
    <3>1. CASE d = c
      BY <1>7, <2>2, <3>1, Zenon DEF Owed
    <3>2. CASE d # c
      BY <1>4, <3>2, Zenon DEF Owed
    <3> QED
      BY <3>1, <3>2, Zenon
  <2>4. Owed \subseteq Conn \X Msg /\ Owed' \subseteq Conn \X Msg
    BY Zenon DEF Owed, Conn, Msg
  <2> QED
    BY <1>2, <2>3, <2>4
<1> QED
  BY <1>2, <1>6, <1>7, <1>8, Zenon

\* A message taken in is accepted, or is a duplicate and changes nothing.
LEMMA RecvMsgIs ==
  ASSUME RInv, NEW c \in Conn, RecvMsg(c)
  PROVE  [Abstract!Next]_(Abstract!mvars)
<1> DEFINE m == Head(out[c]).id
<1>1. /\ m \in Posted /\ m \in Msg
      /\ m \in inbox => Owed' = Owed
      /\ m \notin inbox => Owed' = Owed \cup {<<c, m>>}
  BY RecvMsgOwes, Zenon
<1>2. inbox' = inbox \cup {m} /\ stored' = stored \cup {m} /\ UNCHANGED <<msgs, shown>>
  BY Zenon DEF RecvMsg, sndVars
<1>3. inbox \subseteq stored
  BY Zenon DEF RInv
<1> HIDE DEF m
<1>4. CASE m \in inbox
  BY <1>1, <1>2, <1>3, <1>4, Zenon DEF Abstract!mvars
<1>5. CASE m \notin inbox
  <2>1. Abstract!Accept(m, c)
    BY <1>1, <1>2, <1>5, Zenon DEF Abstract!Accept, Posted
  <2> QED
    BY <1>1, <2>1, Zenon DEF Abstract!Next
<1> QED
  BY <1>4, <1>5, Zenon

\* A read loop that emits its event owed just that announcement.
LEMMA RecvEmitOwes ==
  ASSUME RInv, NEW c \in Conn, RecvEmit(c), NEW m, m = rd[c].id
  PROVE  m \in Msg /\ <<c, m>> \in Owed /\ Owed' = Owed \ {<<c, m>>}
<1>1. TypeOK
  BY Zenon DEF RInv, Inv
<1>2. rd[c] \in [pc : {"ack", "emit"}, id : Msg, dup : BOOLEAN] /\ ~rd[c].dup /\ rd[c].pc = "emit"
  BY <1>1 DEF RecvEmit, RInv, TypeOK, ReadState, IdleRead
<1>3. rd' = [rd EXCEPT ![c] = IdleRead]
  BY Zenon DEF RecvEmit
<1>4. m \in Msg /\ <<c, m>> \in Owed
  BY <1>2, Zenon DEF Owed
<1>5. \A k \in Msg : <<c, k>> \in Owed => k = m
  BY Zenon DEF Owed
<1>6. \A d \in Conn \ {c} : rd'[d] = rd[d]
  BY <1>1, <1>3, Zenon DEF TypeOK
<1>7. rd'[c] = IdleRead
  BY <1>1, <1>3, Zenon DEF TypeOK
<1>8. ASSUME NEW d \in Conn, NEW k \in Msg
      PROVE  <<d, k>> \in Owed' <=> <<d, k>> \in Owed /\ ~(d = c /\ k = m)
  <2>1. CASE d = c
    BY <1>5, <1>7, <2>1 DEF Owed, IdleRead
  <2>2. CASE d # c
    BY <1>6, <2>2, Zenon DEF Owed
  <2> QED
    BY <2>1, <2>2, Zenon
<1>9. Owed \subseteq Conn \X Msg /\ Owed' \subseteq Conn \X Msg
  BY Zenon DEF Owed, Conn, Msg
<1> QED
  BY <1>4, <1>8, <1>9

\* The event of a read loop is the announcement it owed.
LEMMA RecvEmitIs ==
  ASSUME RInv, NEW c \in Conn, RecvEmit(c)
  PROVE  [Abstract!Next]_(Abstract!mvars)
<1> DEFINE m == rd[c].id
<1>1. m \in Msg /\ <<c, m>> \in Owed /\ Owed' = Owed \ {<<c, m>>}
  BY RecvEmitOwes, Zenon
<1>2. shown' = [shown EXCEPT ![m] = @ + 1] /\ UNCHANGED <<msgs, inbox, stored>>
  BY Zenon DEF RecvEmit, sndVars
<1> HIDE DEF m
<1>3. Abstract!Announce(m, c)
  BY <1>1, <1>2, Zenon DEF Abstract!Announce
<1> QED
  BY <1>1, <1>3, Zenon DEF Abstract!Next

\* Every step of Delivery is a step of Mailbox or changes nothing it has.
LEMMA RefinementStep ==
  ASSUME RInv, [Next]_vars
  PROVE  [Abstract!Next]_(Abstract!mvars)
<1>1. TypeOK /\ TypeOK'
  BY TypeStep, Zenon DEF RInv, Inv
<1>2. CASE UNCHANGED <<msgs, inbox, stored, shown, rd>>
  BY <1>2, Zenon DEF Owed, Abstract!mvars
<1>3. ASSUME UNCHANGED <<msgs, inbox, stored, shown>>,
             \A c \in Conn : rd'[c] = rd[c] \/ rd'[c] = IdleRead
                               \/ (rd[c].pc = "ack" /\ rd'[c] = [rd[c] EXCEPT !.pc = "emit"])
      PROVE  [Abstract!Next]_(Abstract!mvars)
  <2>1. rd' \in [Conn -> ReadState]
    BY <1>1, Zenon DEF TypeOK
  <2>2. Owed' \subseteq Owed
    BY <1>1, <1>3, <2>1, OwedShrinks, Zenon
  <2>3. Abstract!Miss
    BY <1>3, <2>2, Zenon DEF Abstract!Miss
  <2> QED
    BY <2>3, Zenon DEF Abstract!Next
<1>4. ASSUME NEW S \in SUBSET Msg, NEW how \in {"deleted", "pruned"}, Remove(S, how),
             how = "deleted" => S \subseteq Held,
             how = "pruned" => \A m \in S : msgs[m] = "delivered",
             UNCHANGED <<inbox, stored, shown, rd>>
      PROVE  [Abstract!Next]_(Abstract!mvars)
  <2>1. Abstract!Withdraw(S) \/ Abstract!Expire(S)
    BY <1>1, <1>4, RemoveIs, Zenon
  <2> QED
    BY <2>1, Zenon DEF Abstract!Next
<1>5. ASSUME NEW S \in SUBSET Msg, inbox' = inbox \ S, UNCHANGED <<msgs, stored, shown, rd>>
      PROVE  [Abstract!Next]_(Abstract!mvars)
  <2>1. Abstract!Discard(S)
    BY <1>5, Zenon DEF Owed, Abstract!Discard
  <2> QED
    BY <2>1, Zenon DEF Abstract!Next
<1>6. ASSUME NEW m \in Msg, SendReply(m) PROVE [Abstract!Next]_(Abstract!mvars)
  <2>1. UNCHANGED <<inbox, stored, shown, rd>> /\ msgs[m] = "none"
    BY <1>6, Zenon DEF SendReply, rcvVars
  <2>2. msgs' = [k \in Msg |-> IF k \in {m} THEN "queued" ELSE msgs[k]]
    BY <1>1, <1>6, Zenon DEF SendReply, TypeOK
  <2>3. Abstract!Post(m)
    BY <2>1, <2>2, Zenon DEF Abstract!Post, Abstract!Become, Owed
  <2> QED
    BY <2>3, Zenon DEF Abstract!Next
<1>7. ASSUME NEW m \in Msg, User(m) PROVE [Abstract!Next]_(Abstract!mvars)
  <2>1. CASE DeleteFromOutbox(m) \/ DeleteMessage(m)
    <3>1. {m} \subseteq Held /\ Remove({m}, "deleted") /\ UNCHANGED <<inbox, stored, shown, rd>>
      BY <2>1, Zenon DEF DeleteFromOutbox, DeleteMessage, Held, rcvVars
    <3> QED
      BY <1>4, <3>1, Zenon
  <2>2. CASE Prune(m)
    <3> DEFINE S == {k \in 1 .. m : msgs[k] = "delivered"}
    <3>1. S \in SUBSET Msg
      BY DeliveryBounds DEF Msg
    <3>2. Remove(S, "pruned") /\ UNCHANGED <<inbox, stored, shown, rd>>
      BY <2>2, Zenon DEF Prune, rcvVars
    <3> QED
      BY <1>4, <3>1, <3>2, Zenon
  <2>3. CASE DeleteMessageForEveryone(m)
    <3>1. m \in Held
      BY <2>3, Zenon DEF DeleteMessageForEveryone, AskDelete
    <3>2. CASE Remove({m}, "deleted") /\ UNCHANGED <<rcvVars, connVars, back, fl, rd>>
      BY <1>4, <3>1, <3>2, Zenon DEF rcvVars
    <3>3. CASE Die("snd") /\ UNCHANGED sndVars
      BY <1>2, <3>3, Zenon DEF Die, rcvVars, sndVars
    <3> QED
      BY <2>3, <3>2, <3>3, Zenon DEF DeleteMessageForEveryone
  <2> QED
    BY <1>6, <1>7, <2>1, <2>2, <2>3, Zenon DEF User
<1>8. CASE DeleteAllMessages
  <2>1. Held \in SUBSET Msg /\ Remove(Held, "deleted") /\ UNCHANGED <<inbox, stored, shown, rd>>
    BY <1>8, Zenon DEF DeleteAllMessages, Held, rcvVars
  <2> QED
    BY <1>4, <2>1, Zenon
<1>9. ASSUME NEW e \in End, Crash(e) PROVE [Abstract!Next]_(Abstract!mvars)
  <2>1. UNCHANGED <<msgs, inbox, stored, shown>>
    BY <1>9, Zenon DEF Crash, Die, sndVars, rcvVars
  <2>2. \A c \in Conn : rd'[c] = rd[c] \/ rd'[c] = IdleRead
    BY <1>9, Zenon DEF Crash, Die
  <2> QED
    BY <1>3, <2>1, <2>2, Zenon
<1>10. ASSUME NEW c \in Conn, RecvAck(c) PROVE [Abstract!Next]_(Abstract!mvars)
  <2>1. UNCHANGED <<msgs, inbox, stored, shown>>
    BY <1>10, Zenon DEF RecvAck, sndVars, rcvVars
  <2>2. /\ rd[c].pc = "ack"
        /\ \/ rd' = [rd EXCEPT ![c] = IdleRead]
           \/ rd' = [rd EXCEPT ![c] = [@ EXCEPT !.pc = "emit"]]
    BY <1>10, Zenon DEF RecvAck
  <2>3. \A d \in Conn : rd'[d] = rd[d] \/ rd'[d] = IdleRead
                          \/ (rd[d].pc = "ack" /\ rd'[d] = [rd[d] EXCEPT !.pc = "emit"])
    BY <1>1, <2>2, Zenon DEF TypeOK
  <2> QED
    BY <1>3, <2>1, <2>3, Zenon
<1>11. ASSUME NEW c \in Conn, MarkDelivered(c) PROVE [Abstract!Next]_(Abstract!mvars)
  <2> DEFINE m == Head(back[c])
  <2>1. m \in stored /\ m \in Msg
    BY <1>1, <1>11, QueuePop, Zenon DEF MarkDelivered, RInv, Inv, AcksMeanPersisted, TypeOK
  <2>2. UNCHANGED <<inbox, stored, shown, rd>>
    BY <1>11, Zenon DEF MarkDelivered, rcvVars
  <2>3. CASE UNCHANGED sndVars
    BY <1>2, <2>2, <2>3, Zenon DEF sndVars
  <2>4. CASE msgs[m] = "queued" /\ msgs' = [msgs EXCEPT ![m] = "delivered"]
    <3> HIDE DEF m
    <3>1. msgs' = [k \in Msg |-> IF k \in {m} THEN "delivered" ELSE msgs[k]]
      BY <1>1, <2>4, Zenon DEF TypeOK
    <3>2. Abstract!Confirm(m)
      BY <2>1, <2>2, <2>4, <3>1, Zenon DEF Abstract!Confirm, Abstract!Become, Owed
    <3> QED
      BY <2>1, <3>2, Zenon DEF Abstract!Next
  <2> QED
    BY <1>11, <2>3, <2>4, Zenon DEF MarkDelivered
<1>12. ASSUME NEW c \in Conn, RecvDelAll(c) PROVE [Abstract!Next]_(Abstract!mvars)
  <2>1. Head(out[c]) \in Frame
    BY <1>1, <1>12, QueuePop, Zenon DEF RecvDelAll, Receiving, TypeOK
  <2>2. {Head(out[c]).id} \in SUBSET Msg
    BY <2>1, Zenon DEF Frame
  <2>3. inbox' = inbox \ {Head(out[c]).id} /\ UNCHANGED <<msgs, stored, shown, rd>>
    BY <1>12, Zenon DEF RecvDelAll, Discard, sndVars
  <2> QED
    BY <1>5, <2>2, <2>3, Zenon
<1>13. ASSUME NEW S \in SUBSET inbox, RcvDelete(S) PROVE [Abstract!Next]_(Abstract!mvars)
  <2>1. S \in SUBSET Msg /\ inbox' = inbox \ S /\ UNCHANGED <<msgs, stored, shown, rd>>
    BY <1>1, <1>13, Zenon DEF RcvDelete, Discard, sndVars, TypeOK
  <2> QED
    BY <1>5, <2>1, Zenon
<1>14. ASSUME NEW c \in Conn, RecvRefused(c) \/ Cut(c) PROVE [Abstract!Next]_(Abstract!mvars)
  BY <1>2, <1>14, Zenon DEF RecvRefused, Cut, sndVars, rcvVars
<1>15. ASSUME NEW f \in Flushers, Flush(f) \/ \E force \in BOOLEAN : FlushStart(f, force)
       PROVE  [Abstract!Next]_(Abstract!mvars)
  BY <1>2, <1>15, Zenon DEF Flush, FlushStart, FlushLock, FlushAttempt, FlushSend, sndVars, rcvVars
<1>16. ASSUME NEW e \in End, NEW c \in Conn, Session(e, c) PROVE [Abstract!Next]_(Abstract!mvars)
  BY <1>2, <1>16, Zenon DEF Session, establish, HandshakeFails, Notice, runSessionEnds, sndVars, rcvVars
<1>17. CASE Connect \/ (\E m \in Msg : BackoffExpires(m)) \/ UNCHANGED vars
  BY <1>2, <1>17, Zenon DEF Connect, BackoffExpires, vars, sndVars, rcvVars
<1> QED
  BY <1>7, <1>8, <1>9, <1>10, <1>11, <1>12, <1>13, <1>14, <1>15, <1>16, <1>17, RecvMsgIs, RecvEmitIs, Zenon
     DEF Next, Receive

\* Delivery is a mailbox, as docs/PROTOCOL.md "Delivery semantics" has it: no
\* interleaving of sessions, flushes, read loops, crashes and deletions does
\* what the mailbox may not do.
THEOREM DeliveryIsMailbox == Spec => ImplementsMailbox
<1>1. Init => Abstract!Init
  BY DEF Init, Abstract!Init, Owed, IdleRead
<1> QED
  BY <1>1, RInvHolds, RefinementStep, PTL DEF Spec, ImplementsMailbox, Abstract!Spec

-----------------------------------------------------------------------------
(* A message is shown once.  What is shown and what read loops still owe   *)
(* is paid for by the removals of the receiver's copy and the copy it has. *)

Owers(m) == {c \in Conn : <<c, m>> \in Owed}

Copies(m) == IF m \in inbox THEN 1 ELSE 0

Paid == \A m \in Msg : shown[m] + Cardinality(Owers(m)) <= discards[m] + Copies(m)

\* The read loops that owe an announcement of m are finitely many.
LEMMA OwersFinite ==
  \A m : IsFiniteSet(Owers(m)) /\ Cardinality(Owers(m)) \in Nat
<1>1. IsFiniteSet(Conn)
  BY DeliveryBounds, FS_Interval DEF Conn
<1> QED
  BY <1>1, FS_Subset, FS_CardinalityType, Zenon DEF Owers

\* Paid is kept when no read loop owes more and the rest is unchanged.
LEMMA PaidOwingLess ==
  ASSUME TypeOK, Paid, Owed' \subseteq Owed, UNCHANGED <<inbox, shown, discards>>
  PROVE  Paid'
<1> SUFFICES ASSUME NEW m \in Msg
             PROVE  shown[m] + Cardinality(Owers(m)') <= discards[m] + Copies(m)
  BY Zenon DEF Paid, Copies
<1>1. Owers(m)' \subseteq Owers(m)
  BY Zenon DEF Owers
<1>2. Cardinality(Owers(m)') \in Nat /\ Cardinality(Owers(m)') <= Cardinality(Owers(m))
  BY <1>1, OwersFinite, FS_Subset, FS_CardinalityType, Zenon
<1>3. shown[m] \in Nat /\ discards[m] \in Nat /\ Copies(m) \in Nat /\ Cardinality(Owers(m)) \in Nat
  BY OwersFinite, Zenon DEF TypeOK, Copies
<1>4. shown[m] + Cardinality(Owers(m)) <= discards[m] + Copies(m)
  BY Zenon DEF Paid
<1> QED
  BY <1>2, <1>3, <1>4

\* A new message is paid for by the copy it makes.
LEMMA PaidRecvMsg ==
  ASSUME RInv, Paid, NEW c \in Conn, RecvMsg(c)
  PROVE  Paid'
<1> DEFINE m == Head(out[c]).id
<1>1. TypeOK
  BY Zenon DEF RInv, Inv
<1>2. /\ m \in Msg
      /\ m \in inbox => Owed' = Owed
      /\ m \notin inbox => Owed' = Owed \cup {<<c, m>>}
      /\ \A k \in Msg : <<c, k>> \notin Owed
  BY RecvMsgOwes, Zenon
<1>3. inbox' = inbox \cup {m} /\ UNCHANGED <<shown, discards>>
  BY Zenon DEF RecvMsg
<1> HIDE DEF m
<1>4. CASE m \in inbox
  <2>1. inbox' = inbox /\ Owed' \subseteq Owed
    BY <1>2, <1>3, <1>4, Zenon
  <2> QED
    BY <1>1, <1>3, <2>1, PaidOwingLess, Zenon
<1>5. CASE m \notin inbox
  <2> SUFFICES ASSUME NEW k \in Msg
               PROVE  shown[k] + Cardinality(Owers(k)') <= discards[k] + Copies(k)'
    BY <1>3, Zenon DEF Paid
  <2>1. /\ shown[k] \in Nat /\ discards[k] \in Nat /\ Cardinality(Owers(k)) \in Nat
        /\ shown[k] + Cardinality(Owers(k)) <= discards[k] + Copies(k)
    BY <1>1, OwersFinite, Zenon DEF TypeOK, Paid
  <2>2. CASE k = m
    <3>1. Owers(k)' = Owers(k) \cup {c} /\ c \notin Owers(k)
      BY <1>2, <1>5, <2>2, Zenon DEF Owers
    <3>2. Cardinality(Owers(k)') = Cardinality(Owers(k)) + 1
      BY <3>1, OwersFinite, FS_AddElement, Zenon
    <3>3. Copies(k) = 0 /\ Copies(k)' = 1
      BY <1>3, <1>5, <2>2, Zenon DEF Copies
    <3> QED
      BY <2>1, <3>2, <3>3
  <2>3. CASE k # m
    <3>1. Owers(k)' = Owers(k) /\ Copies(k)' = Copies(k)
      BY <1>2, <1>3, <1>5, <2>3, Zenon DEF Owers, Copies
    <3> QED
      BY <2>1, <3>1, Zenon
  <2> QED
    BY <2>2, <2>3, Zenon
<1> QED
  BY <1>4, <1>5, Zenon

\* An announcement moves from what is owed to what is shown.
LEMMA PaidRecvEmit ==
  ASSUME RInv, Paid, NEW c \in Conn, RecvEmit(c)
  PROVE  Paid'
<1> DEFINE m == rd[c].id
<1>1. TypeOK
  BY Zenon DEF RInv, Inv
<1>2. m \in Msg /\ <<c, m>> \in Owed /\ Owed' = Owed \ {<<c, m>>}
  BY RecvEmitOwes, Zenon
<1>3. shown' = [shown EXCEPT ![m] = @ + 1] /\ UNCHANGED <<inbox, discards>>
  BY Zenon DEF RecvEmit
<1> HIDE DEF m
<1> SUFFICES ASSUME NEW k \in Msg
             PROVE  shown'[k] + Cardinality(Owers(k)') <= discards[k] + Copies(k)
  BY <1>3, Zenon DEF Paid, Copies
<1>4. /\ shown[k] \in Nat /\ discards[k] \in Nat /\ Copies(k) \in Nat /\ Cardinality(Owers(k)) \in Nat
      /\ shown[k] + Cardinality(Owers(k)) <= discards[k] + Copies(k)
  BY <1>1, OwersFinite, Zenon DEF TypeOK, Paid, Copies
<1>5. CASE k = m
  <2>1. Owers(k)' = Owers(k) \ {c} /\ c \in Owers(k)
    BY <1>2, <1>5, Zenon DEF Owers
  <2>2. Cardinality(Owers(k)') = Cardinality(Owers(k)) - 1
    BY <2>1, OwersFinite, FS_RemoveElement, Zenon
  <2>3. shown'[k] = shown[k] + 1
    BY <1>1, <1>3, <1>5, Zenon DEF TypeOK
  <2> QED
    BY <1>4, <2>2, <2>3
<1>6. CASE k # m
  <2>1. Owers(k)' = Owers(k)
    BY <1>2, <1>6, Zenon DEF Owers
  <2>2. shown'[k] = shown[k]
    BY <1>1, <1>3, <1>6, Zenon DEF TypeOK
  <2> QED
    BY <1>4, <2>1, <2>2, Zenon
<1> QED
  BY <1>5, <1>6, Zenon

\* A copy that is removed is counted as removed.
LEMMA PaidDiscard ==
  ASSUME TypeOK, Paid, NEW S, Discard(S), UNCHANGED <<shown, rd>>
  PROVE  Paid'
<1> SUFFICES ASSUME NEW k \in Msg
             PROVE  shown[k] + Cardinality(Owers(k)') <= discards'[k] + Copies(k)'
  BY Zenon DEF Paid
<1>1. /\ shown[k] \in Nat /\ discards[k] \in Nat /\ Copies(k) \in Nat /\ Cardinality(Owers(k)) \in Nat
      /\ shown[k] + Cardinality(Owers(k)) <= discards[k] + Copies(k)
  BY OwersFinite, Zenon DEF TypeOK, Paid, Copies
<1>2. Owers(k)' = Owers(k)
  BY Zenon DEF Owers, Owed
<1>3. /\ discards'[k] = discards[k] + (IF k \in S \cap inbox THEN 1 ELSE 0)
      /\ inbox' = inbox \ S
  BY Zenon DEF Discard
<1>4. discards'[k] + Copies(k)' = discards[k] + Copies(k)
  BY <1>1, <1>3 DEF Copies
<1> QED
  BY <1>1, <1>2, <1>4, Zenon

\* Every step keeps Paid.
LEMMA PaidStep ==
  ASSUME RInv, Paid, [Next]_vars PROVE Paid'
<1>1. TypeOK /\ TypeOK'
  BY TypeStep, Zenon DEF RInv, Inv
<1>2. ASSUME UNCHANGED rcvVars, rd' = rd PROVE Paid'
  <2>1. Owed' \subseteq Owed
    BY <1>2, Zenon DEF Owed
  <2> QED
    BY <1>1, <1>2, <2>1, PaidOwingLess, Zenon DEF rcvVars
<1>3. ASSUME UNCHANGED rcvVars,
             \A c \in Conn : rd'[c] = rd[c] \/ rd'[c] = IdleRead
                               \/ (rd[c].pc = "ack" /\ rd'[c] = [rd[c] EXCEPT !.pc = "emit"])
      PROVE  Paid'
  <2>1. rd' \in [Conn -> ReadState]
    BY <1>1, Zenon DEF TypeOK
  <2>2. Owed' \subseteq Owed
    BY <1>1, <1>3, <2>1, OwedShrinks, Zenon
  <2> QED
    BY <1>1, <1>3, <2>2, PaidOwingLess, Zenon DEF rcvVars
<1>4. ASSUME NEW e \in End, Die(e) PROVE Paid'
  <2>1. UNCHANGED rcvVars /\ \A c \in Conn : rd'[c] = rd[c] \/ rd'[c] = IdleRead
    BY <1>4, Zenon DEF Die
  <2> QED
    BY <1>3, <2>1, Zenon
<1>5. ASSUME NEW m \in Msg, User(m) PROVE Paid'
  BY <1>2, <1>4, <1>5, Zenon DEF User, SendReply, DeleteFromOutbox, DeleteMessage, Prune,
                          DeleteMessageForEveryone, End
<1>6. ASSUME NEW c \in Conn, RecvAck(c) PROVE Paid'
  <2>1. /\ rd[c].pc = "ack" /\ UNCHANGED rcvVars
        /\ \/ rd' = [rd EXCEPT ![c] = IdleRead]
           \/ rd' = [rd EXCEPT ![c] = [@ EXCEPT !.pc = "emit"]]
    BY <1>6, Zenon DEF RecvAck
  <2>2. \A d \in Conn : rd'[d] = rd[d] \/ rd'[d] = IdleRead
                          \/ (rd[d].pc = "ack" /\ rd'[d] = [rd[d] EXCEPT !.pc = "emit"])
    BY <1>1, <2>1, Zenon DEF TypeOK
  <2> QED
    BY <1>3, <2>1, <2>2, Zenon
<1>7. ASSUME NEW c \in Conn, RecvDelAll(c) PROVE Paid'
  BY <1>1, <1>7, PaidDiscard, Zenon DEF RecvDelAll
<1>8. ASSUME NEW S \in SUBSET inbox, RcvDelete(S) PROVE Paid'
  BY <1>1, <1>8, PaidDiscard, Zenon DEF RcvDelete
<1>9. ASSUME NEW c \in Conn, RecvRefused(c) \/ Cut(c) \/ MarkDelivered(c) PROVE Paid'
  BY <1>2, <1>9, Zenon DEF RecvRefused, Cut, MarkDelivered
<1>10. ASSUME NEW f \in Flushers, Flush(f) \/ \E force \in BOOLEAN : FlushStart(f, force)
      PROVE  Paid'
  BY <1>2, <1>10, Zenon DEF Flush, FlushStart, FlushLock, FlushAttempt, FlushSend
<1>11. ASSUME NEW e \in End, NEW c \in Conn, Session(e, c) PROVE Paid'
  BY <1>2, <1>11, Zenon DEF Session, establish, HandshakeFails, Notice, runSessionEnds
<1>12. CASE Connect \/ DeleteAllMessages \/ (\E m \in Msg : BackoffExpires(m)) \/ UNCHANGED vars
  BY <1>2, <1>12, Zenon DEF Connect, DeleteAllMessages, BackoffExpires, vars
<1> QED
  BY <1>4, <1>5, <1>6, <1>7, <1>8, <1>9, <1>10, <1>11, <1>12, PaidRecvMsg, PaidRecvEmit, Zenon
     DEF Next, Receive, Crash

\* "... or shown twice": through every retry, duplicate, crash and reconnect
\* the receiver announces a message once, and once more for every time its
\* copy was removed.
THEOREM NeverShownTwice == Spec => []ShownOnce
<1>1. Init => Paid
  <2> SUFFICES ASSUME Init, NEW m \in Msg
               PROVE  shown[m] + Cardinality(Owers(m)) <= discards[m] + Copies(m)
    BY Zenon DEF Paid
  <2>1. Owers(m) = {}
    BY Zenon DEF Init, Owers, Owed, IdleRead
  <2>2. Cardinality(Owers(m)) = 0
    BY <2>1, FS_EmptySet, Zenon
  <2> QED
    BY <2>2 DEF Init, Copies
<1>2. RInv /\ Paid => ShownOnce
  <2> SUFFICES ASSUME TypeOK, Paid, NEW m \in Msg PROVE shown[m] <= 1 + discards[m]
    BY Zenon DEF RInv, Inv, ShownOnce
  <2>1. /\ shown[m] \in Nat /\ discards[m] \in Nat /\ Cardinality(Owers(m)) \in Nat
        /\ shown[m] + Cardinality(Owers(m)) <= discards[m] + Copies(m)
    BY OwersFinite, Zenon DEF TypeOK, Paid
  <2>2. Copies(m) \in {0, 1}
    BY Zenon DEF Copies
  <2> QED
    BY <2>1, <2>2
<1> QED
  BY <1>1, <1>2, RInvHolds, PaidStep, PTL DEF Spec

=============================================================================

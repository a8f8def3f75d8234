------------------------- MODULE RoomOutbox_proofs --------------------------
(***************************************************************************)
(* Proofs about module RoomOutbox, for any number of members, messages,    *)
(* frames in flight, lost links, kills and removals.                       *)
(***************************************************************************)
EXTENDS RoomOutbox, TLAPS

\* A frame more at the tail of a member's queue keeps the queues typed.
LEMMA QueuePush ==
  ASSUME NEW T, NEW q \in [Member -> Seq(T)], NEW b \in Member, NEW x \in T
  PROVE  [q EXCEPT ![b] = Append(@, x)] \in [Member -> Seq(T)]
OBVIOUS

\* A frame fewer at the head keeps the queues typed, and the frame is typed.
LEMMA QueuePop ==
  ASSUME NEW T, NEW q \in [Member -> Seq(T)], NEW b \in Member, q[b] # <<>>
  PROVE  /\ Head(q[b]) \in T
         /\ [q EXCEPT ![b] = Tail(@)] \in [Member -> Seq(T)]
OBVIOUS

\* The goroutine states the actions build are goroutine states.
LEMMA ThreadTypes ==
  /\ IdleThread \in ThreadState
  /\ \A S \in SUBSET Member : Visiting(S) \in ThreadState
  /\ \A t \in Thread : Done(t) \in ThreadState
  /\ \A t \in Thread, S \in SUBSET Member : Visited(t, S) \in ThreadState
BY Zenon DEF IdleThread, ThreadState, Visiting, Done, Visited

\* So is the state of a goroutine that holds flushMu or has just left it.
LEMMA FlushingType ==
  ASSUME TypeOK, NEW t \in Thread, NEW S \in SUBSET Msg
  PROVE  Flushing(t, S) \in ThreadState
<1>1. th[t] \in ThreadState
  BY Zenon DEF TypeOK
<1>2. th[t].visit \in SUBSET Member
  BY <1>1, Zenon DEF ThreadState
<1>3. Visited(t, th[t].visit) \in ThreadState
  BY <1>2, ThreadTypes, Zenon
<1>4. [th[t] EXCEPT !.pc = "run", !.todo = S, !.held = {}] \in ThreadState
  BY <1>1, Zenon DEF ThreadState
<1> QED
  BY <1>3, <1>4, Zenon DEF Flushing

\* Every step of the sender, the members and the network keeps the types.
LEMMA TypeStep ==
  ASSUME TypeOK, [Next]_vars PROVE TypeOK'
<1> USE RoomBounds DEF storeVars, linkVars, peerVars, history, bounds
<1>0. Msg \subseteq Thread /\ Loop \in Thread
  BY Zenon DEF Thread
<1>1. ASSUME NEW m \in Msg, TakeSeq(m) PROVE TypeOK'
  <2>1. [IdleThread EXCEPT !.pc = "taken", !.ms = members] \in ThreadState
    BY Zenon DEF TypeOK, ThreadState, IdleThread
  <2>2. th' \in [Thread -> ThreadState]
    BY <1>0, <1>1, <2>1, Zenon DEF TakeSeq, TypeOK
  <2>3. seq' \in Nat /\ num' \in [Msg -> Nat]
    <3>1. seq' = seq + 1 /\ num' = [num EXCEPT ![m] = seq + 1]
      BY <1>1, Zenon DEF TakeSeq
    <3>2. seq \in Nat /\ num \in [Msg -> Nat]
      BY Zenon DEF TypeOK
    <3> QED
      BY <3>1, <3>2
  <2>4. UNCHANGED <<members, last, pos, status, box, attempts, cooling, linkVars, peerVars, due, acked, bounds>>
    BY <1>1, Zenon DEF TakeSeq
  <2>5. addressed' \in [Msg -> SUBSET Member]
    BY <1>1, Zenon DEF TakeSeq, TypeOK
  <2> QED
    BY <2>2, <2>3, <2>4, <2>5, Zenon DEF TypeOK
<1>2. ASSUME NEW m \in Msg, AddRoomMessage(m) PROVE TypeOK'
  <2>0. th[m] \in ThreadState
    BY <1>0, Zenon DEF TypeOK
  <2>1. [th[m] EXCEPT !.pc = "add", !.visit = th[m].ms] \in ThreadState
    BY <2>0, Zenon DEF ThreadState
  <2>2. th' \in [Thread -> ThreadState]
    BY <1>0, <1>2, <2>1, ThreadTypes, Zenon DEF AddRoomMessage, TypeOK
  <2>3. /\ last' \in Nat /\ pos' \in [Msg -> Nat]
        /\ status' \in [Msg -> {"none", "queued", "delivered"}]
    <3>1. /\ last' = last + 1 /\ pos' = [pos EXCEPT ![m] = last + 1]
          /\ status' = [status EXCEPT ![m] = "queued"]
      BY <1>2, Zenon DEF AddRoomMessage
    <3>2. /\ last \in Nat /\ pos \in [Msg -> Nat]
          /\ status \in [Msg -> {"none", "queued", "delivered"}]
      BY Zenon DEF TypeOK
    <3>3. last + 1 \in Nat
      BY <3>2
    <3>4. pos' \in [Msg -> Nat]
      BY <3>1, <3>2, <3>3, Zenon
    <3>5. status' \in [Msg -> {"none", "queued", "delivered"}]
      BY <3>1, <3>2, Zenon
    <3> QED
      BY <3>1, <3>3, <3>4, <3>5, Zenon
  <2>4. UNCHANGED <<members, seq, num, box, attempts, cooling, linkVars, peerVars, history, bounds>>
    BY <1>2, Zenon DEF AddRoomMessage
  <2> QED
    BY <2>2, <2>3, <2>4, Zenon DEF TypeOK
<1>3. ASSUME NEW m \in Msg, NEW b \in Member, AddRoomMemberToOutbox(m, b) PROVE TypeOK'
  <2>1. th[m] \in ThreadState /\ th[m].ms \in SUBSET Member
    BY <1>0, Zenon DEF TypeOK, ThreadState
  <2>2. [th[m] EXCEPT !.visit = @ \ {b}] \in ThreadState
    BY <2>1, Zenon DEF ThreadState
  <2>3. Visiting(th[m].ms) \in ThreadState
    BY <2>1, ThreadTypes, Zenon
  <2>4. th' \in [Thread -> ThreadState]
    BY <1>0, <1>3, <2>2, <2>3, Zenon DEF AddRoomMemberToOutbox, TypeOK
  <2>5. box' \subseteq Member \X Msg /\ due' \subseteq Member \X Msg
    <3>1. box' = box \cup {<<b, m>>} /\ due' = due \cup {<<b, m>>}
      BY <1>3, Zenon DEF AddRoomMemberToOutbox
    <3>2. box \subseteq Member \X Msg /\ due \subseteq Member \X Msg
      BY Zenon DEF TypeOK
    <3>3. <<b, m>> \in Member \X Msg
      BY Zenon
    <3> QED
      BY <3>1, <3>2, <3>3, Zenon
  <2>6. UNCHANGED <<members, seq, num, last, pos, status, attempts, cooling, linkVars, peerVars, acked, addressed, bounds>>
    BY <1>3, Zenon DEF AddRoomMemberToOutbox
  <2> QED
    BY <2>4, <2>5, <2>6, Zenon DEF TypeOK
<1>4. CASE Tick
  <2>1. th' \in [Thread -> ThreadState]
    BY <1>0, <1>4, ThreadTypes, Zenon DEF Tick, TypeOK
  <2> QED
    BY <1>4, <2>1, Zenon DEF Tick, TypeOK
<1>5. ASSUME NEW t \in Thread, NEW b \in Member, Visit(t, b) PROVE TypeOK'
  <2> DEFINE L == [pc |-> "lock", ms |-> {}, visit |-> th[t].visit \ {b}, mb |-> b,
                   todo |-> RoomPending(b), held |-> RoomPending(b) \cap cooling,
                   ok |-> TRUE]
             V == Visited(t, th[t].visit \ {b})
  <2>1. th[t].visit \ {b} \in SUBSET Member
    BY Zenon DEF TypeOK, ThreadState
  <2>2. L \in ThreadState
    BY <2>1, Zenon DEF ThreadState, RoomPending
  <2>3. V \in ThreadState
    BY <2>1, ThreadTypes, Zenon
  <2>4. th' = [th EXCEPT ![t] = L] \/ th' = [th EXCEPT ![t] = V]
    BY <1>5, Zenon DEF Visit
  <2> HIDE DEF L, V
  <2>5. th' \in [Thread -> ThreadState]
    BY <2>2, <2>3, <2>4, Zenon DEF TypeOK
  <2> QED
    BY <1>5, <2>5, Zenon DEF Visit, TypeOK
<1>6. ASSUME NEW t \in Thread, Lock(t) PROVE TypeOK'
  <2>1. PICK skip : th' = [th EXCEPT ![t] = Flushing(t, th[t].todo \ skip)]
    BY <1>6, Zenon DEF Lock
  <2>2. th[t].todo \ skip \in SUBSET Msg
    BY Zenon DEF TypeOK, ThreadState
  <2>3. th' \in [Thread -> ThreadState]
    BY <2>1, <2>2, FlushingType, Zenon DEF TypeOK
  <2> QED
    BY <1>6, <2>3, Zenon DEF Lock, TypeOK
<1>7. ASSUME NEW t \in Thread, NEW m \in Msg, Send(t, m) PROVE TypeOK'
  <2>1. th[t].todo \ {m} \in SUBSET Msg /\ {} \in SUBSET Msg /\ th[t].mb \in {0} \cup Member
    BY Zenon DEF TypeOK, ThreadState
  <2>2. th' \in [Thread -> ThreadState]
    <3>1. PICK S \in SUBSET Msg : th' = [th EXCEPT ![t] = Flushing(t, S)]
      BY <1>7, <2>1, Zenon DEF Send
    <3> QED
      BY <3>1, FlushingType, Zenon DEF TypeOK
  <2>3. out' \in [Member -> Seq({Gone} \cup Msg)]
    <3>1. CASE th[t].mb \in Member
      <4>1. [out EXCEPT ![th[t].mb] = Append(@, m)] \in [Member -> Seq({Gone} \cup Msg)]
        BY <3>1, QueuePush, Zenon DEF TypeOK
      <4> QED
        BY <1>7, <4>1, Zenon DEF Send, TypeOK
    <3>2. CASE th[t].mb \notin Member
      <4>1. [out EXCEPT ![th[t].mb] = Append(@, m)] = out
        BY <3>2, Zenon DEF TypeOK
      <4> QED
        BY <1>7, <4>1, Zenon DEF Send, TypeOK
    <3> QED
      BY <3>1, <3>2, Zenon
  <2>4. attempts' \in [Msg -> Nat] /\ cooling' \subseteq Msg
    <3>1. RoomRecordAttempt(m)
      BY <1>7, Zenon DEF Send
    <3>2. attempts \in [Msg -> Nat] /\ cooling \subseteq Msg
      BY Zenon DEF TypeOK
    <3>3. \/ attempts' = [attempts EXCEPT ![m] = attempts[m] + 1]
          \/ attempts' = [attempts EXCEPT ![m] = attempts[m]]
      BY <3>1, Zenon DEF RoomRecordAttempt
    <3>4. attempts[m] + 1 \in Nat /\ attempts[m] \in Nat
      BY <3>2
    <3>5. attempts' \in [Msg -> Nat]
      BY <3>2, <3>3, <3>4, Zenon
    <3>6. cooling' \subseteq Msg
      BY <3>1, <3>2, Zenon DEF RoomRecordAttempt
    <3> QED
      BY <3>5, <3>6, Zenon
  <2>5. UNCHANGED <<members, seq, num, last, pos, status, box, up, back, hand, peerVars, history, bounds>>
    BY <1>7, Zenon DEF Send
  <2> QED
    BY <2>2, <2>3, <2>4, <2>5, Zenon DEF TypeOK
<1>8. ASSUME NEW m \in Msg, BackoffExpires(m) PROVE TypeOK'
  BY <1>8, Zenon DEF BackoffExpires, TypeOK
<1>9. ASSUME NEW b \in Member, handleRoomMsg(b) PROVE TypeOK'
  <2>1. /\ Head(out[b]) \in {Gone} \cup Msg
        /\ [out EXCEPT ![b] = Tail(@)] \in [Member -> Seq({Gone} \cup Msg)]
    BY <1>9, QueuePop, Zenon DEF handleRoomMsg, TypeOK
  <2>2. Head(out[b]) \in Msg
    BY <1>9, <2>1, Zenon DEF handleRoomMsg
  <2>3. [back EXCEPT ![b] = Append(@, Head(out[b]))] \in [Member -> Seq(Msg)]
    <3>1. back \in [Member -> Seq(Msg)]
      BY Zenon DEF TypeOK
    <3> QED
      BY <2>2, <3>1, QueuePush, Zenon
  <2>4. out' \in [Member -> Seq({Gone} \cup Msg)]
    BY <1>9, <2>1, Zenon DEF handleRoomMsg
  <2>5. got' \in [Member -> SUBSET Msg] /\ back' \in [Member -> Seq(Msg)]
    <3>1. CASE got' = [got EXCEPT ![b] = @ \cup {Head(out[b])}]
               /\ back' = [back EXCEPT ![b] = Append(@, Head(out[b]))]
      BY <2>2, <2>3, <3>1, Zenon DEF TypeOK
    <3>2. CASE UNCHANGED <<got, back>>
      BY <3>2, Zenon DEF TypeOK
    <3> QED
      BY <1>9, <3>1, <3>2, Zenon DEF handleRoomMsg
  <2>6. UNCHANGED <<storeVars, up, hand, room, history, th>>
    BY <1>9, Zenon DEF handleRoomMsg
  <2>7. faults' \in Nat
    <3>1. faults \in Nat /\ (faults' = faults \/ faults' = faults + 1)
      BY <1>9, Zenon DEF handleRoomMsg, TypeOK
    <3> QED
      BY <3>1
  <2> QED
    BY <2>4, <2>5, <2>6, <2>7, Zenon DEF TypeOK
<1>10. ASSUME NEW b \in Member, handleRemoved(b) PROVE TypeOK'
  <2>1. [out EXCEPT ![b] = Tail(@)] \in [Member -> Seq({Gone} \cup Msg)]
    BY <1>10, QueuePop, Zenon DEF handleRemoved, TypeOK
  <2> QED
    BY <1>10, <2>1, Zenon DEF handleRemoved, TypeOK
<1>11. ASSUME NEW b \in Member, handleRoomAck(b) PROVE TypeOK'
  <2>1. /\ Head(back[b]) \in Msg
        /\ [back EXCEPT ![b] = Tail(@)] \in [Member -> Seq(Msg)]
    BY <1>11, QueuePop, Zenon DEF handleRoomAck, TypeOK
  <2>2. hand' \in [Member -> {None} \cup Msg]
    BY <1>11, <2>1, Zenon DEF handleRoomAck, TypeOK
  <2> QED
    BY <1>11, <2>1, <2>2, Zenon DEF handleRoomAck, TypeOK
<1>18. ASSUME NEW b \in Member, AckMarked(b) PROVE TypeOK'
  <2>1. hand[b] \in Msg /\ hand' \in [Member -> {None} \cup Msg]
    BY <1>18, Zenon DEF AckMarked, TypeOK
  <2>2. box' \subseteq box
    BY <1>18, Zenon DEF AckMarked, MarkRoomDelivered
  <2>3. status' = status \/ status' = [status EXCEPT ![hand[b]] = "delivered"]
    BY <1>18, Zenon DEF AckMarked, MarkRoomDelivered
  <2>4. acked' \subseteq Member \X Msg
    BY <1>18, <2>1 DEF AckMarked, TypeOK
  <2> QED
    BY <1>18, <2>1, <2>2, <2>3, <2>4, Zenon DEF AckMarked, TypeOK
<1>12. ASSUME NEW b \in Member, Connect(b) PROVE TypeOK'
  BY <1>12, Zenon DEF Connect, TypeOK
<1>13. ASSUME NEW b \in Member, Drop(b) PROVE TypeOK'
  <2>1. \A t \in Thread : [th[t] EXCEPT !.ok = FALSE] \in ThreadState
    <3>1. \A v \in ThreadState : [v EXCEPT !.ok = FALSE] \in ThreadState
      BY Zenon DEF ThreadState
    <3>2. \A t \in Thread : th[t] \in ThreadState
      BY Zenon DEF TypeOK
    <3> QED
      BY <3>1, <3>2, Zenon
  <2>2. th' \in [Thread -> ThreadState]
    BY <1>13, <2>1, Zenon DEF Drop, TypeOK
  <2>3. /\ up' \subseteq Member /\ faults' \in Nat
        /\ out' \in [Member -> Seq({Gone} \cup Msg)] /\ back' \in [Member -> Seq(Msg)]
    <3>1. Lose({b}) /\ faults' = faults + 1
      BY <1>13, Zenon DEF Drop
    <3>2. up' \subseteq Member /\ faults' \in Nat
      BY <3>1 DEF Lose, TypeOK
    <3>3. out' \in [Member -> Seq({Gone} \cup Msg)]
      BY <3>1 DEF Lose, TypeOK
    <3>4. back' \in [Member -> Seq(Msg)]
      BY <3>1 DEF Lose, TypeOK
    <3> QED
      BY <3>2, <3>3, <3>4, Zenon
  <2>4. UNCHANGED <<storeVars, hand, peerVars, history>>
    BY <1>13, Zenon DEF Drop
  <2> QED
    BY <2>2, <2>3, <2>4, Zenon DEF TypeOK
<1>14. CASE Crash
  <2>1. th' \in [Thread -> ThreadState]
    BY <1>14, ThreadTypes, Zenon DEF Crash
  <2>2. Lose(Member) /\ faults' = faults + 1 /\ UNCHANGED <<storeVars, peerVars, history>>
    BY <1>14, Zenon DEF Crash
  <2>3. up' \subseteq Member /\ faults' \in Nat
    BY <2>2 DEF Lose, TypeOK
  <2>4. out' \in [Member -> Seq({Gone} \cup Msg)]
    BY <2>2 DEF Lose
  <2>5. back' \in [Member -> Seq(Msg)]
    BY <2>2 DEF Lose
  <2>6. hand' \in [Member -> {None} \cup Msg]
    BY <1>14, Zenon DEF Crash
  <2> QED
    BY <2>1, <2>2, <2>3, <2>4, <2>5, <2>6, Zenon DEF storeVars, peerVars, history, TypeOK
<1>15. ASSUME NEW b \in Member, RemoveRoomMember(b) PROVE TypeOK'
  <2>1. [out EXCEPT ![b] = Append(@, Gone)] \in [Member -> Seq({Gone} \cup Msg)]
    BY QueuePush, Zenon DEF TypeOK
  <2> QED
    BY <1>15, <2>1, Zenon DEF RemoveRoomMember, TypeOK
<1>16. ASSUME NEW b \in Member, AcceptRoomInvite(b) PROVE TypeOK'
  BY <1>16, Zenon DEF AcceptRoomInvite, TypeOK
<1>17. CASE UNCHANGED vars
  BY <1>17, Zenon DEF vars, TypeOK
<1> QED
  BY <1>1, <1>2, <1>3, <1>4, <1>5, <1>6, <1>7, <1>8, <1>9, <1>10, <1>11, <1>12, <1>13,
     <1>14, <1>15, <1>16, <1>17, <1>18, Zenon DEF Next, Call, Flush, Peer, Ack

-----------------------------------------------------------------------------

\* Every ack in flight or in the hands of its read loop stands for a message its
\* member has persisted.
AcksMeanStored ==
  /\ \A b \in Member : \A i \in 1 .. Len(back[b]) : back[b][i] \in got[b]
  /\ \A b \in Member : hand[b] # None => hand[b] \in got[b]

\* What a goroutine is about to send to a member was addressed to it.
SnapshotsAddressed ==
  \A t \in Thread : th[t].pc \in {"lock", "run"} =>
     th[t].mb \in Member /\ \A m \in th[t].todo : <<th[t].mb, m>> \in due

\* So was every frame on its way.
FramesDue ==
  \A b \in Member : \A i \in 1 .. Len(out[b]) : out[b][i] # Gone => <<b, out[b][i]>> \in due

\* Entries are added only for the members the call found in the room.
DueAddressed ==
  /\ \A b \in Member, m \in Msg :
       <<b, m>> \in due => th[m].pc # "idle" /\ b \in addressed[m]
  /\ \A m \in Msg : th[m].pc \in {"taken", "add"} =>
       th[m].ms \subseteq addressed[m] /\ th[m].visit \subseteq addressed[m]

\* Every number given out is at most the counter, and no two are the same.
NumbersGiven ==
  /\ \A m \in Msg : num[m] <= seq
  /\ \A m, n \in Msg : m # n /\ num[m] = num[n] => num[m] = 0
  /\ \A m \in Msg : pos[m] # 0 \/ th[m].pc = "taken" => num[m] # 0

\* The inductive invariant: the three properties and what keeps them true.
Inv ==
  /\ TypeOK
  /\ NoCopyLost /\ AcksMeanStored
  /\ box \subseteq due /\ SnapshotsAddressed /\ FramesDue /\ DueAddressed
  /\ NumbersGiven

\* Copies: an entry is removed for an ack of its member only, and an ack is
\* written only after the message is stored.
LEMMA CopiesStep ==
  ASSUME Inv, [Next]_vars PROVE (NoCopyLost /\ AcksMeanStored)'
<1> USE DEF storeVars, linkVars, peerVars, history, bounds
<1>0. TypeOK /\ NoCopyLost /\ AcksMeanStored
  BY Zenon DEF Inv
<1>1. ASSUME UNCHANGED <<due, box, got, back, hand>> PROVE (NoCopyLost /\ AcksMeanStored)'
  BY <1>0, <1>1, Zenon DEF NoCopyLost, AcksMeanStored
<1>2. ASSUME NEW m \in Msg, NEW b \in Member, AddRoomMemberToOutbox(m, b)
      PROVE  (NoCopyLost /\ AcksMeanStored)'
  BY <1>0, <1>2, Zenon DEF AddRoomMemberToOutbox, NoCopyLost, AcksMeanStored
<1>3. ASSUME NEW b \in Member, handleRoomMsg(b) PROVE (NoCopyLost /\ AcksMeanStored)'
  <2>1. CASE UNCHANGED <<got, back>>
    BY <1>1, <1>3, <2>1, Zenon DEF handleRoomMsg
  <2>2. CASE /\ got' = [got EXCEPT ![b] = @ \cup {Head(out[b])}]
             /\ back' = [back EXCEPT ![b] = Append(@, Head(out[b]))]
    <3>1. \A c \in Member : got[c] \subseteq got'[c]
      BY <1>0, <2>2, Zenon DEF TypeOK
    <3>2. Head(out[b]) \in got'[b]
      BY <1>0, <2>2, Zenon DEF TypeOK
    <3>3. NoCopyLost'
      BY <1>0, <1>3, <3>1, Zenon DEF handleRoomMsg, NoCopyLost, TypeOK
    <3>4. ASSUME NEW c \in Member, NEW i \in 1 .. Len(back'[c]) PROVE back'[c][i] \in got'[c]
      <4>1. CASE c = b
        <5>1. back[b] \in Seq(Msg) /\ back'[b] = Append(back[b], Head(out[b]))
          BY <1>0, <2>2, Zenon DEF TypeOK
        <5>2. i \in 1 .. Len(back[b]) \/ back'[b][i] = Head(out[b])
          BY <3>4, <4>1, <5>1
        <5>3. i \in 1 .. Len(back[b]) => back'[b][i] = back[b][i]
          BY <5>1
        <5> QED
          BY <1>0, <3>1, <3>2, <4>1, <5>2, <5>3, Zenon DEF AcksMeanStored
      <4>2. CASE c # b
        <5>1. back'[c] = back[c]
          BY <1>0, <2>2, <4>2, Zenon DEF TypeOK
        <5> QED
          BY <1>0, <3>1, <3>4, <5>1, Zenon DEF AcksMeanStored
      <4> QED
        BY <4>1, <4>2, Zenon
    <3>5. \A c \in Member : hand'[c] # None => hand'[c] \in got'[c]
      BY <1>0, <1>3, <3>1, Zenon DEF handleRoomMsg, AcksMeanStored
    <3> QED
      BY <3>3, <3>4, <3>5, Zenon DEF AcksMeanStored
  <2> QED
    BY <1>3, <2>1, <2>2, Zenon DEF handleRoomMsg
<1>4. ASSUME NEW b \in Member, handleRoomAck(b) PROVE (NoCopyLost /\ AcksMeanStored)'
  <2> DEFINE m == Head(back[b])
  <2>1. /\ back[b] \in Seq(Msg) /\ back[b] # <<>>
        /\ back' = [back EXCEPT ![b] = Tail(@)] /\ UNCHANGED <<got, due, box>>
    BY <1>0, <1>4, Zenon DEF handleRoomAck, TypeOK
  <2>2. m \in got[b]
    <3>1. 1 \in 1 .. Len(back[b]) /\ m = back[b][1]
      BY <2>1
    <3> QED
      BY <1>0, <3>1, Zenon DEF AcksMeanStored
  <2>3. \A c \in Member : hand'[c] # None => hand'[c] \in got'[c]
    <3>1. \A c \in Member : hand'[c] = hand[c] \/ hand'[c] = None \/ (c = b /\ hand'[c] = m)
      BY <1>0, <1>4, Zenon DEF handleRoomAck, TypeOK
    <3> QED
      BY <1>0, <2>1, <2>2, <3>1, Zenon DEF AcksMeanStored
  <2>4. NoCopyLost'
    BY <1>0, <2>1, Zenon DEF NoCopyLost
  <2>5. ASSUME NEW c \in Member, NEW i \in 1 .. Len(back'[c]) PROVE back'[c][i] \in got'[c]
    <3>1. CASE c = b
      <4>1. back'[b] = Tail(back[b])
        BY <1>0, <2>1, Zenon DEF TypeOK
      <4>2. i + 1 \in 1 .. Len(back[b]) /\ back'[b][i] = back[b][i + 1]
        <5>1. i \in 1 .. Len(Tail(back[b]))
          BY <2>5, <3>1, <4>1, Zenon
        <5>2. Len(back[b]) \in Nat /\ Len(Tail(back[b])) = Len(back[b]) - 1
          BY <2>1
        <5>3. i + 1 \in 1 .. Len(back[b])
          BY <5>1, <5>2
        <5>4. Tail(back[b])[i] = back[b][i + 1]
          BY <2>1, <5>1
        <5> QED
          BY <4>1, <5>3, <5>4, Zenon
      <4> QED
        BY <1>0, <2>1, <3>1, <4>2, Zenon DEF AcksMeanStored
    <3>2. CASE c # b
      BY <1>0, <2>1, <2>5, <3>2, Zenon DEF AcksMeanStored, TypeOK
    <3> QED
      BY <3>1, <3>2, Zenon
  <2> QED
    BY <2>3, <2>4, <2>5, Zenon DEF AcksMeanStored
<1>11. ASSUME NEW b \in Member, AckMarked(b) PROVE (NoCopyLost /\ AcksMeanStored)'
  <2>1. hand[b] \in got[b] /\ UNCHANGED <<got, due, back>>
    BY <1>0, <1>11, Zenon DEF AckMarked, AcksMeanStored
  <2>2. box \ {<<b, hand[b]>>} \subseteq box'
    BY <1>11, Zenon DEF AckMarked, MarkRoomDelivered
  <2>3. NoCopyLost'
    BY <1>0, <2>1, <2>2 DEF NoCopyLost
  <2>4. \A c \in Member : hand'[c] = hand[c] \/ hand'[c] = None
    BY <1>0, <1>11, Zenon DEF AckMarked, TypeOK
  <2> QED
    BY <1>0, <2>1, <2>3, <2>4, Zenon DEF AcksMeanStored
<1>5. ASSUME NEW B, Lose(B), UNCHANGED <<storeVars, peerVars, history>>,
             \A c \in Member : hand'[c] = hand[c] \/ hand'[c] = None
      PROVE  (NoCopyLost /\ AcksMeanStored)'
  <2>1. NoCopyLost'
    BY <1>0, <1>5, Zenon DEF NoCopyLost
  <2>2. \A c \in Member : back'[c] = <<>> \/ back'[c] = back[c]
    BY <1>5, Zenon DEF Lose
  <2>3. AcksMeanStored'
    BY <1>0, <1>5, <2>2 DEF AcksMeanStored
  <2> QED
    BY <2>1, <2>3, Zenon
<1>6. (\E b \in Member : Drop(b)) \/ Crash => (NoCopyLost /\ AcksMeanStored)'
  BY <1>5, Zenon DEF Drop, Crash
<1>7. (\E m \in Msg : TakeSeq(m) \/ AddRoomMessage(m) \/ BackoffExpires(m)) \/ Tick
        => UNCHANGED <<due, box, got, back, hand>>
  BY Zenon DEF TakeSeq, AddRoomMessage, BackoffExpires, Tick
<1>8. (\E t \in Thread : Flush(t)) => UNCHANGED <<due, box, got, back, hand>>
  BY Zenon DEF Flush, Visit, Lock, Send
<1>9. (\E b \in Member : \/ handleRemoved(b) \/ AcceptRoomInvite(b) \/ Connect(b)
                         \/ RemoveRoomMember(b))
        => UNCHANGED <<due, box, got, back, hand>>
  BY Zenon DEF handleRemoved, AcceptRoomInvite, Connect, RemoveRoomMember
<1>10. CASE UNCHANGED vars
  BY <1>1, <1>10, Zenon DEF vars
<1> QED
  BY <1>1, <1>2, <1>3, <1>4, <1>6, <1>7, <1>8, <1>9, <1>10, <1>11, Zenon
     DEF Next, Call, Peer, Ack

\* A goroutine between two members, or through, has nothing to send.
LEMMA NothingToSend ==
  /\ IdleThread.pc \notin {"lock", "run"}
  /\ \A S : Visiting(S).pc \notin {"lock", "run"}
  /\ \A t : Done(t).pc \notin {"lock", "run"}
  /\ \A t, S : Visited(t, S).pc \notin {"lock", "run"}
BY Zenon DEF IdleThread, Visiting, Done, Visited

\* Addressing: a snapshot holds entries of its member, and a goroutine writes
\* to that member only.
LEMMA AddressedStep ==
  ASSUME Inv, [Next]_vars
  PROVE  (box \subseteq due /\ SnapshotsAddressed /\ FramesDue)'
<1> USE DEF storeVars, linkVars, peerVars, history, bounds
<1>0. TypeOK /\ box \subseteq due /\ SnapshotsAddressed /\ FramesDue
  BY Zenon DEF Inv
<1>1. due \subseteq due'
  <2>1. ASSUME NEW m \in Msg, NEW b \in Member, AddRoomMemberToOutbox(m, b)
        PROVE  due \subseteq due'
    BY <2>1, Zenon DEF AddRoomMemberToOutbox
  <2> QED
    BY <2>1, Zenon DEF Next, Call, Peer, Ack, Flush, TakeSeq, AddRoomMessage, BackoffExpires, Tick, Visit,
       Lock, Send, handleRoomMsg, handleRemoved, handleRoomAck, AckMarked, AcceptRoomInvite, Connect,
       Drop, Crash, RemoveRoomMember, vars
<1>2. (box \subseteq due)'
  <2>1. ASSUME NEW m \in Msg, NEW b \in Member, AddRoomMemberToOutbox(m, b)
        PROVE  (box \subseteq due)'
    BY <1>0, <2>1, Zenon DEF AddRoomMemberToOutbox
  <2>2. ASSUME NEW b \in Member, AckMarked(b) PROVE (box \subseteq due)'
    BY <1>0, <2>2, Zenon DEF AckMarked, MarkRoomDelivered
  <2> QED
    BY <1>0, <2>1, <2>2, Zenon DEF Next, Call, Peer, Ack, Flush, TakeSeq, AddRoomMessage, BackoffExpires,
       Tick, Visit, Lock, Send, handleRoomMsg, handleRemoved, handleRoomAck, AcceptRoomInvite,
       Connect, Drop, Crash, RemoveRoomMember, vars

<1> DEFINE Good(v) == v.pc \in {"lock", "run"} =>
                         v.mb \in Member /\ \A m \in v.todo : <<v.mb, m>> \in due
<1>3. ASSUME NEW t \in Thread, NEW v, th' = [th EXCEPT ![t] = v], Good(v)
      PROVE  SnapshotsAddressed'
  <2>1. \A u \in Thread : th'[u] = v \/ th'[u] = th[u]
    BY <1>0, <1>3, Zenon DEF TypeOK
  <2>2. \A u \in Thread : Good(th[u])
    BY <1>0, Zenon DEF SnapshotsAddressed
  <2>3. \A u \in Thread : Good(th'[u])
    BY <1>3, <2>1, <2>2, Zenon
  <2> QED
    BY <1>1, <2>3, Zenon DEF SnapshotsAddressed
<1>4. ASSUME NEW t \in Thread, th[t].pc \in {"lock", "run"}, NEW S, S \subseteq th[t].todo
      PROVE  Good(Flushing(t, S))
  <2>1. th[t] \in ThreadState /\ Good(th[t])
    BY <1>0, Zenon DEF TypeOK, SnapshotsAddressed
  <2>2. CASE S = {}
    <3>1. Flushing(t, S) = Visited(t, th[t].visit)
      BY <2>2, Zenon DEF Flushing
    <3> QED
      BY <3>1, NothingToSend, Zenon
  <2>3. CASE S # {}
    <3>1. /\ Flushing(t, S).mb = th[t].mb
          /\ Flushing(t, S).todo = S
      BY <2>1, <2>3, Zenon DEF Flushing, ThreadState
    <3> QED
      BY <1>4, <2>1, <3>1, Zenon
  <2> QED
    BY <2>2, <2>3, Zenon
<1>5. SnapshotsAddressed'
  <2>0. Msg \subseteq Thread /\ Loop \in Thread
    BY Zenon DEF Thread
  <2>1. ASSUME NEW m \in Msg, TakeSeq(m) PROVE SnapshotsAddressed'
    <3> DEFINE v == [IdleThread EXCEPT !.pc = "taken", !.ms = members]
    <3>1. v.pc = "taken"
      BY Zenon DEF IdleThread
    <3>2. th' = [th EXCEPT ![m] = v]
      BY <2>1, Zenon DEF TakeSeq
    <3> HIDE DEF v
    <3> QED
      BY <1>3, <2>0, <3>1, <3>2, Zenon
  <2>2. ASSUME NEW m \in Msg, AddRoomMessage(m) PROVE SnapshotsAddressed'
    <3> DEFINE v == [th[m] EXCEPT !.pc = "add", !.visit = th[m].ms]
    <3>1. th[m] \in ThreadState
      BY <1>0, <2>0, Zenon DEF TypeOK
    <3>2. v.pc = "add"
      BY <3>1, Zenon DEF ThreadState
    <3>3. th' = [th EXCEPT ![m] = Done(m)] \/ th' = [th EXCEPT ![m] = v]
      BY <2>2, Zenon DEF AddRoomMessage
    <3> HIDE DEF v
    <3> QED
      BY <1>3, <2>0, <3>2, <3>3, NothingToSend, Zenon
  <2>3. ASSUME NEW m \in Msg, NEW b \in Member, AddRoomMemberToOutbox(m, b)
        PROVE  SnapshotsAddressed'
    <3> DEFINE v == [th[m] EXCEPT !.visit = @ \ {b}]
    <3>1. th[m] \in ThreadState
      BY <1>0, <2>0, Zenon DEF TypeOK
    <3>2. v.pc = "add"
      BY <2>3, <3>1, Zenon DEF ThreadState, AddRoomMemberToOutbox
    <3>3. th' = [th EXCEPT ![m] = Visiting(th[m].ms)] \/ th' = [th EXCEPT ![m] = v]
      BY <2>3, Zenon DEF AddRoomMemberToOutbox
    <3> HIDE DEF v
    <3> QED
      BY <1>3, <2>0, <3>2, <3>3, NothingToSend, Zenon
  <2>4. CASE Tick
    <3>1. th' = [th EXCEPT ![Loop] = Visiting(members)]
      BY <2>4, Zenon DEF Tick
    <3> QED
      BY <1>3, <2>0, <3>1, NothingToSend, Zenon
  <2>5. ASSUME NEW t \in Thread, NEW b \in Member, Visit(t, b) PROVE SnapshotsAddressed'
    <3> DEFINE L == [pc |-> "lock", ms |-> {}, visit |-> th[t].visit \ {b}, mb |-> b,
                     todo |-> RoomPending(b), held |-> RoomPending(b) \cap cooling,
                     ok |-> TRUE]
               V == Visited(t, th[t].visit \ {b})
    <3>1. Good(L)
      BY <1>0, Zenon DEF RoomPending
    <3>2. Good(V)
      BY NothingToSend, Zenon
    <3>3. th' = [th EXCEPT ![t] = L] \/ th' = [th EXCEPT ![t] = V]
      BY <2>5, Zenon DEF Visit
    <3> HIDE DEF L, V
    <3> QED
      BY <1>3, <3>1, <3>2, <3>3, Zenon
  <2>6. ASSUME NEW t \in Thread, Lock(t) PROVE SnapshotsAddressed'
    <3>1. PICK skip : th' = [th EXCEPT ![t] = Flushing(t, th[t].todo \ skip)]
      BY <2>6, Zenon DEF Lock
    <3>2. Good(Flushing(t, th[t].todo \ skip))
      BY <1>4, <2>6, Zenon DEF Lock
    <3> QED
      BY <1>3, <3>1, <3>2, Zenon
  <2>7. ASSUME NEW t \in Thread, NEW m \in Msg, Send(t, m) PROVE SnapshotsAddressed'
    <3>1. PICK S : S \subseteq th[t].todo /\ th' = [th EXCEPT ![t] = Flushing(t, S)]
      BY <2>7, Zenon DEF Send
    <3>2. Good(Flushing(t, S))
      BY <1>4, <2>7, <3>1, Zenon DEF Send
    <3> QED
      BY <1>3, <3>1, <3>2, Zenon
  <2>8. ASSUME NEW b \in Member, Drop(b) PROVE SnapshotsAddressed'
    <3>1. \A t \in Thread : /\ th'[t].pc = th[t].pc /\ th'[t].mb = th[t].mb
                            /\ th'[t].todo = th[t].todo
      BY <1>0, <2>8, Zenon DEF Drop, TypeOK, ThreadState
    <3> QED
      BY <1>0, <1>1, <3>1, Zenon DEF SnapshotsAddressed
  <2>9. CASE Crash
    <3>1. \A t \in Thread : th'[t].pc \notin {"lock", "run"}
      BY <2>9, NothingToSend, Zenon DEF Crash
    <3> QED
      BY <3>1, Zenon DEF SnapshotsAddressed
  <2>10. ASSUME th' = th PROVE SnapshotsAddressed'
    BY <1>0, <1>1, <2>10, Zenon DEF SnapshotsAddressed
  <2> QED
    BY <2>1, <2>2, <2>3, <2>4, <2>5, <2>6, <2>7, <2>8, <2>9, <2>10, Zenon
       DEF Next, Call, Peer, Ack, Flush, BackoffExpires, handleRoomMsg, handleRemoved,
           handleRoomAck, AckMarked, AcceptRoomInvite, Connect, RemoveRoomMember, vars
<1>6. FramesDue'
  <2>1. ASSUME NEW b \in Member, NEW x, x = Gone \/ <<b, x>> \in due,
               out' = [out EXCEPT ![b] = Append(@, x)]
        PROVE  FramesDue'
    <3>1. out[b] \in Seq({Gone} \cup Msg) /\ out'[b] = Append(out[b], x)
      BY <1>0, <2>1, Zenon DEF TypeOK
    <3>2. \A c \in Member \ {b} : out'[c] = out[c]
      BY <1>0, <2>1, Zenon DEF TypeOK
    <3>3. ASSUME NEW i \in 1 .. Len(out'[b])
          PROVE  out'[b][i] = x \/ (i \in 1 .. Len(out[b]) /\ out'[b][i] = out[b][i])
      BY <3>1, <3>3
    <3> QED
      BY <1>0, <1>1, <2>1, <3>2, <3>3 DEF FramesDue
  <2>2. ASSUME NEW b \in Member, out[b] # <<>>, out' = [out EXCEPT ![b] = Tail(@)]
        PROVE  FramesDue'
    <3>1. out[b] \in Seq({Gone} \cup Msg) /\ out'[b] = Tail(out[b])
      BY <1>0, <2>2, Zenon DEF TypeOK
    <3>2. \A c \in Member \ {b} : out'[c] = out[c]
      BY <1>0, <2>2, Zenon DEF TypeOK
    <3>3. ASSUME NEW i \in 1 .. Len(out'[b])
          PROVE  i + 1 \in 1 .. Len(out[b]) /\ out'[b][i] = out[b][i + 1]
      <4>1. Len(out[b]) \in Nat /\ Len(Tail(out[b])) = Len(out[b]) - 1
        BY <2>2, <3>1
      <4>0. i \in 1 .. Len(Tail(out[b]))
        BY <3>1, <3>3, Zenon
      <4>2. i + 1 \in 1 .. Len(out[b])
        BY <4>0, <4>1
      <4>3. Tail(out[b])[i] = out[b][i + 1]
        BY <2>2, <3>1, <4>0
      <4> QED
        BY <3>1, <4>2, <4>3, Zenon
    <3> QED
      BY <1>0, <1>1, <3>2, <3>3, Zenon DEF FramesDue
  <2>3. ASSUME NEW B, Lose(B) PROVE FramesDue'
    <3>1. \A c \in Member : out'[c] = <<>> \/ out'[c] = out[c]
      BY <2>3, Zenon DEF Lose
    <3> QED
      BY <1>0, <1>1, <3>1 DEF FramesDue
  <2>4. ASSUME out' = out PROVE FramesDue'
    BY <1>0, <1>1, <2>4, Zenon DEF FramesDue
  <2>5. ASSUME NEW t \in Thread, NEW m \in Msg, Send(t, m) PROVE FramesDue'
    <3>1. th[t].mb \in Member /\ <<th[t].mb, m>> \in due
      BY <1>0, <2>5, Zenon DEF Send, Oldest, SnapshotsAddressed
    <3> QED
      BY <2>1, <2>4, <2>5, <3>1, Zenon DEF Send
  <2>6. ASSUME NEW b \in Member, RemoveRoomMember(b) PROVE FramesDue'
    BY <2>1, <2>4, <2>6, Zenon DEF RemoveRoomMember
  <2>7. ASSUME NEW b \in Member, handleRoomMsg(b) \/ handleRemoved(b)
        PROVE  FramesDue'
    BY <2>2, <2>7, Zenon DEF handleRoomMsg, handleRemoved
  <2>8. ASSUME NEW b \in Member, Drop(b) PROVE FramesDue'
    BY <2>3, <2>8, Zenon DEF Drop
  <2>9. CASE Crash
    BY <2>3, <2>9, Zenon DEF Crash
  <2> QED
    BY <2>4, <2>5, <2>6, <2>7, <2>8, <2>9, Zenon
       DEF Next, Call, Peer, Ack, Flush, TakeSeq, AddRoomMessage, AddRoomMemberToOutbox,
           BackoffExpires, Tick, Visit, Lock, handleRoomAck, AckMarked, AcceptRoomInvite, Connect, vars
<1> QED
  BY <1>2, <1>5, <1>6, Zenon

\* Members: a call adds entries for the members it read, and it reads them once.
LEMMA MembersStep ==
  ASSUME Inv, [Next]_vars PROVE DueAddressed'
<1> USE DEF storeVars, linkVars, peerVars, history, bounds
<1>0. TypeOK /\ DueAddressed /\ Msg \subseteq Thread
  BY Zenon DEF Inv, Thread
<1>1. ASSUME NEW m \in Msg, TakeSeq(m) PROVE DueAddressed'
  <2>1. /\ th[m].pc = "idle" /\ due' = due
        /\ \A n \in Msg \ {m} : th'[n] = th[n] /\ addressed'[n] = addressed[n]
    BY <1>0, <1>1, Zenon DEF TakeSeq, TypeOK
  <2>2. /\ addressed'[m] = members
        /\ th'[m] = [IdleThread EXCEPT !.pc = "taken", !.ms = members]
    BY <1>0, <1>1, Zenon DEF TakeSeq, TypeOK
  <2>3. th'[m].ms = members /\ th'[m].visit = {}
    BY <2>2, Zenon DEF IdleThread
  <2> QED
    BY <1>0, <2>1, <2>2, <2>3, Zenon DEF DueAddressed
<1>2. ASSUME UNCHANGED <<due, addressed>>,
             \A n \in Msg : /\ th'[n].pc = "idle" => th[n].pc = "idle"
                            /\ th'[n].pc \in {"taken", "add"} =>
                                 /\ th[n].pc \in {"taken", "add"}
                                 /\ th'[n].ms = th[n].ms
                                 /\ th'[n].visit \subseteq th[n].ms \cup th[n].visit
      PROVE  DueAddressed'
  BY <1>0, <1>2, Zenon DEF DueAddressed
<1>4. /\ \A S : Visiting(S).pc = "next"
      /\ \A n \in Msg : Done(n).pc = "done"
      /\ \A n \in Msg : \A S : Visited(n, S).pc \in {"next", "done"}
      /\ Loop \notin Msg
  <2>1. Loop \notin Msg
    BY DEF Msg, Loop
  <2> QED
    BY <2>1, Zenon DEF IdleThread, Visiting, Done, Visited
<1>3. ASSUME NEW m \in Msg, AddRoomMessage(m) PROVE DueAddressed'
  <2> DEFINE v == [th[m] EXCEPT !.pc = "add", !.visit = th[m].ms]
  <2>1. th[m] \in ThreadState /\ th[m].pc = "taken" /\ UNCHANGED <<due, addressed>>
    BY <1>0, <1>3, Zenon DEF AddRoomMessage, TypeOK
  <2>2. v.pc = "add" /\ v.ms = th[m].ms /\ v.visit = th[m].ms
    BY <2>1, Zenon DEF ThreadState
  <2>3. /\ \A n \in Msg \ {m} : th'[n] = th[n]
        /\ th'[m] = Done(m) \/ th'[m] = v
    BY <1>0, <1>3, Zenon DEF AddRoomMessage, TypeOK
  <2> HIDE DEF v
  <2> QED
    BY <1>2, <1>4, <2>1, <2>2, <2>3, Zenon
<1>5. ASSUME NEW m \in Msg, NEW b \in Member, AddRoomMemberToOutbox(m, b) PROVE DueAddressed'
  <2> DEFINE v == [th[m] EXCEPT !.visit = @ \ {b}]
  <2>1. /\ th[m] \in ThreadState /\ th[m].pc = "add" /\ b \in th[m].visit
        /\ due' = due \cup {<<b, m>>} /\ addressed' = addressed
    BY <1>0, <1>5, Zenon DEF AddRoomMemberToOutbox, First, TypeOK
  <2>2. v.pc = "add" /\ v.ms = th[m].ms /\ v.visit = th[m].visit \ {b}
    BY <2>1, Zenon DEF ThreadState
  <2>3. /\ \A n \in Msg \ {m} : th'[n] = th[n]
        /\ th'[m] = Visiting(th[m].ms) \/ th'[m] = v
    BY <1>0, <1>5, Zenon DEF AddRoomMemberToOutbox, TypeOK
  <2>4. b \in addressed[m]
    BY <1>0, <2>1, Zenon DEF DueAddressed
  <2> HIDE DEF v
  <2>5. \A c \in Member, n \in Msg : <<c, n>> \in due' =>
           <<c, n>> \in due \/ (c = b /\ n = m)
    BY <2>1
  <2> QED
    BY <1>0, <1>4, <2>1, <2>2, <2>3, <2>4, <2>5, Zenon DEF DueAddressed
<1>6. ASSUME NEW t \in Thread, NEW v, th' = [th EXCEPT ![t] = v], UNCHANGED <<due, addressed>>,
             v.pc \in {"next", "lock", "run", "done"} \/ t = Loop
      PROVE  DueAddressed'
  <2>1. \A n \in Msg : th'[n] = th[n] \/ (t = n /\ th'[n] = v)
    BY <1>0, <1>6, Zenon DEF TypeOK
  <2> QED
    BY <1>2, <1>4, <1>6, <2>1, Zenon
<1>7. CASE Tick
  BY <1>6, <1>7, Zenon DEF Tick, Thread
<1>8. ASSUME NEW t \in Thread, NEW b \in Member, Visit(t, b) PROVE DueAddressed'
  <2> DEFINE L == [pc |-> "lock", ms |-> {}, visit |-> th[t].visit \ {b}, mb |-> b,
                   todo |-> RoomPending(b), held |-> RoomPending(b) \cap cooling,
                   ok |-> TRUE]
             V == Visited(t, th[t].visit \ {b})
  <2>1. L.pc = "lock" /\ (V.pc \in {"next", "done"} \/ t = Loop)
    BY <1>4, Zenon DEF Thread
  <2>2. /\ th' = [th EXCEPT ![t] = L] \/ th' = [th EXCEPT ![t] = V]
        /\ UNCHANGED <<due, addressed>>
    BY <1>8, Zenon DEF Visit
  <2> HIDE DEF L, V
  <2> QED
    BY <1>6, <2>1, <2>2, Zenon
<1>9. ASSUME NEW t \in Thread, Lock(t) \/ \E m \in Msg : Send(t, m) PROVE DueAddressed'
  <2>1. PICK S : th' = [th EXCEPT ![t] = Flushing(t, S)] /\ UNCHANGED <<due, addressed>>
    BY <1>9, Zenon DEF Lock, Send
  <2>2. Flushing(t, S).pc = "run" \/ Flushing(t, S) = Visited(t, th[t].visit)
    <3>1. th[t] \in ThreadState
      BY <1>0, Zenon DEF TypeOK
    <3>2. [th[t] EXCEPT !.pc = "run", !.todo = S, !.held = {}].pc = "run"
      BY <3>1, Zenon DEF ThreadState
    <3> QED
      BY <3>2, Zenon DEF Flushing
  <2> QED
    BY <1>4, <1>6, <2>1, <2>2, Zenon DEF Thread
<1>10. ASSUME NEW b \in Member, Drop(b) PROVE DueAddressed'
  <2>1. \A n \in Msg : /\ th'[n].pc = th[n].pc /\ th'[n].ms = th[n].ms
                        /\ th'[n].visit = th[n].visit
    <3>1. \A v \in ThreadState : LET w == [v EXCEPT !.ok = FALSE] IN
             w.pc = v.pc /\ w.ms = v.ms /\ w.visit = v.visit
      BY Zenon DEF ThreadState
    <3>2. \A n \in Msg : th[n] \in ThreadState
      BY <1>0, Zenon DEF TypeOK
    <3>3. \A n \in Msg : th'[n] = th[n] \/ th'[n] = [th[n] EXCEPT !.ok = FALSE]
      BY <1>0, <1>10, Zenon DEF Drop
    <3> QED
      BY <3>1, <3>2, <3>3, Zenon
  <2> QED
    BY <1>2, <1>10, <2>1, Zenon DEF Drop
<1>11. CASE Crash
  <2>1. \A n \in Msg : IF th[n].pc = "idle" THEN th'[n].pc = "idle" ELSE th'[n].pc = "done"
    BY <1>0, <1>4, <1>11, Zenon DEF Crash, IdleThread
  <2> QED
    BY <1>2, <1>11, <2>1, Zenon DEF Crash
<1>12. ASSUME UNCHANGED <<due, addressed, th>> PROVE DueAddressed'
  BY <1>0, <1>12, Zenon DEF DueAddressed
<1> QED
  BY <1>1, <1>3, <1>5, <1>7, <1>8, <1>9, <1>10, <1>11, <1>12, Zenon
     DEF Next, Call, Peer, Ack, Flush, BackoffExpires, handleRoomMsg, handleRemoved,
         handleRoomAck, AckMarked, AcceptRoomInvite, Connect, RemoveRoomMember, vars

\* Numbers: only a new call takes one, and it is above all the others.
LEMMA NumbersStep ==
  ASSUME Inv, [Next]_vars PROVE NumbersGiven'
<1> USE DEF storeVars, linkVars, peerVars, history, bounds
<1>0. TypeOK /\ NumbersGiven /\ Msg \subseteq Thread
  BY Zenon DEF Inv, Thread
<1>1. ASSUME NEW m \in Msg, TakeSeq(m) PROVE NumbersGiven'
  <2>1. /\ seq' = seq + 1 /\ seq \in Nat /\ num'[m] = seq + 1
        /\ \A n \in Msg \ {m} : num'[n] = num[n] /\ num[n] \in Nat
        /\ pos' = pos
    BY <1>0, <1>1, Zenon DEF TakeSeq, TypeOK
  <2>2. \A n \in Msg \ {m} : th'[n] = th[n]
    BY <1>0, <1>1, Zenon DEF TakeSeq, TypeOK
  <2>3. \A n \in Msg \ {m} : num[n] <= seq
    BY <1>0, Zenon DEF NumbersGiven
  <2>4. \A n \in Msg : num'[n] <= seq'
    BY <2>1, <2>3
  <2>5. \A n \in Msg \ {m} : num'[n] # num'[m]
    BY <2>1, <2>3
  <2>6. \A k, n \in Msg : k # n /\ num'[k] = num'[n] => num'[k] = 0
    BY <1>0, <2>1, <2>5, Zenon DEF NumbersGiven
  <2>7. \A n \in Msg : pos'[n] # 0 \/ th'[n].pc = "taken" => num'[n] # 0
    <3>1. num'[m] # 0
      BY <2>1
    <3>2. \A n \in Msg \ {m} : pos[n] # 0 \/ th[n].pc = "taken" => num[n] # 0
      BY <1>0, Zenon DEF NumbersGiven
    <3>3. \A n \in Msg \ {m} : pos'[n] # 0 \/ th'[n].pc = "taken" => num'[n] # 0
      BY <2>1, <2>2, <3>2, Zenon
    <3> QED
      BY <3>1, <3>3, Zenon
  <2> QED
    BY <2>4, <2>6, <2>7, Zenon DEF NumbersGiven
<1>2. ASSUME NEW m \in Msg, AddRoomMessage(m) PROVE NumbersGiven'
  <2>1. /\ th[m].pc = "taken" /\ UNCHANGED <<num, seq>>
        /\ \A n \in Msg \ {m} : pos'[n] = pos[n] /\ th'[n] = th[n]
    BY <1>0, <1>2, Zenon DEF AddRoomMessage, TypeOK
  <2> QED
    BY <1>0, <2>1, Zenon DEF NumbersGiven
<1>3. ASSUME UNCHANGED <<num, seq, pos>>,
             \A n \in Msg : th'[n].pc = "taken" => th[n].pc = "taken"
      PROVE  NumbersGiven'
  BY <1>0, <1>3, Zenon DEF NumbersGiven
<1>4. ASSUME NEW t \in Thread, NEW v, th' = [th EXCEPT ![t] = v], v.pc # "taken"
      PROVE  \A n \in Msg : th'[n].pc = "taken" => th[n].pc = "taken"
  <2>1. \A n \in Msg : th'[n] = v \/ th'[n] = th[n]
    BY <1>0, <1>4, Zenon DEF TypeOK
  <2> QED
    BY <1>4, <2>1, Zenon
<1>5. /\ \A S : Visiting(S).pc # "taken"
      /\ \A t : Done(t).pc # "taken"
      /\ \A t, S : Visited(t, S).pc # "taken"
  BY Zenon DEF IdleThread, Visiting, Done, Visited
<1>6. ASSUME NEW t \in Thread, NEW S PROVE Flushing(t, S).pc # "taken"
  <2>1. th[t] \in ThreadState
    BY <1>0, Zenon DEF TypeOK
  <2>2. CASE S = {}
    BY <1>5, <2>2, Zenon DEF Flushing
  <2>3. CASE S # {}
    <3>1. Flushing(t, S).pc = "run"
      BY <2>1, <2>3, Zenon DEF Flushing, ThreadState
    <3> QED
      BY <3>1, Zenon
  <2> QED
    BY <2>2, <2>3, Zenon
<1>7. ASSUME NEW m \in Msg, NEW b \in Member, AddRoomMemberToOutbox(m, b) PROVE NumbersGiven'
  <2> DEFINE v == [th[m] EXCEPT !.visit = @ \ {b}]
  <2>1. th[m] \in ThreadState
    BY <1>0, Zenon DEF TypeOK
  <2>2. v.pc = "add"
    BY <1>7, <2>1, Zenon DEF ThreadState, AddRoomMemberToOutbox
  <2>3. th' = [th EXCEPT ![m] = Visiting(th[m].ms)] \/ th' = [th EXCEPT ![m] = v]
    BY <1>7, Zenon DEF AddRoomMemberToOutbox
  <2>4. UNCHANGED <<num, seq, pos>>
    BY <1>7, Zenon DEF AddRoomMemberToOutbox
  <2> HIDE DEF v
  <2>5. \A n \in Msg : th'[n].pc = "taken" => th[n].pc = "taken"
    BY <1>0, <1>4, <1>5, <2>2, <2>3, Zenon
  <2> QED
    BY <1>3, <2>4, <2>5, Zenon
<1>8. CASE Tick
  <2>1. \A n \in Msg : th'[n].pc = "taken" => th[n].pc = "taken"
    BY <1>4, <1>5, <1>8, Zenon DEF Tick, Thread
  <2> QED
    BY <1>3, <1>8, <2>1, Zenon DEF Tick
<1>9. ASSUME NEW t \in Thread, NEW b \in Member, Visit(t, b) PROVE NumbersGiven'
  <2> DEFINE L == [pc |-> "lock", ms |-> {}, visit |-> th[t].visit \ {b}, mb |-> b,
                   todo |-> RoomPending(b), held |-> RoomPending(b) \cap cooling,
                   ok |-> TRUE]
             V == Visited(t, th[t].visit \ {b})
  <2>1. L.pc # "taken" /\ V.pc # "taken"
    BY <1>5, Zenon
  <2>2. th' = [th EXCEPT ![t] = L] \/ th' = [th EXCEPT ![t] = V]
    BY <1>9, Zenon DEF Visit
  <2> HIDE DEF L, V
  <2>3. \A n \in Msg : th'[n].pc = "taken" => th[n].pc = "taken"
    BY <1>4, <2>1, <2>2, Zenon
  <2> QED
    BY <1>3, <1>9, <2>3, Zenon DEF Visit
<1>10. ASSUME NEW t \in Thread, Lock(t) \/ \E m \in Msg : Send(t, m) PROVE NumbersGiven'
  <2>1. PICK S : th' = [th EXCEPT ![t] = Flushing(t, S)]
    BY <1>10, Zenon DEF Lock, Send
  <2>2. \A n \in Msg : th'[n].pc = "taken" => th[n].pc = "taken"
    BY <1>4, <1>6, <2>1, Zenon
  <2> QED
    BY <1>3, <1>10, <2>2, Zenon DEF Lock, Send
<1>11. ASSUME NEW b \in Member, Drop(b) PROVE NumbersGiven'
  <2>1. \A n \in Msg : th'[n].pc = th[n].pc
    BY <1>0, <1>11 DEF Drop, TypeOK, ThreadState
  <2> QED
    BY <1>3, <1>11, <2>1, Zenon DEF Drop
<1>12. CASE Crash
  <2>1. \A n \in Msg : th'[n].pc # "taken"
    BY <1>0, <1>5, <1>12, Zenon DEF Crash, IdleThread
  <2> QED
    BY <1>3, <1>12, <2>1, Zenon DEF Crash
<1>13. CASE UNCHANGED <<num, seq, pos, th>>
  BY <1>3, <1>13, Zenon
<1> QED
  BY <1>1, <1>2, <1>7, <1>8, <1>9, <1>10, <1>11, <1>12, <1>13, Zenon
     DEF Next, Call, Peer, Ack, Flush, BackoffExpires, handleRoomMsg, handleRemoved,
         handleRoomAck, AckMarked, AcceptRoomInvite, Connect, RemoveRoomMember, vars

-----------------------------------------------------------------------------

\* The inductive invariant holds in every reachable state.
THEOREM InvHolds == Spec => []Inv
<1>1. Init => Inv
  <2> SUFFICES ASSUME Init PROVE Inv
    BY Zenon
  <2>1. TypeOK
    BY ThreadTypes, RoomBounds DEF Init, TypeOK
  <2>2. NoCopyLost /\ AcksMeanStored /\ box \subseteq due /\ FramesDue
    <3>1. due = {} /\ box = {}
      BY Zenon DEF Init
    <3>2. \A b \in Member : out[b] = <<>> /\ back[b] = <<>> /\ hand[b] = None
      BY Zenon DEF Init
    <3>3. NoCopyLost /\ box \subseteq due
      BY <3>1, Zenon DEF NoCopyLost
    <3>4. AcksMeanStored
      BY <3>2 DEF AcksMeanStored
    <3>5. FramesDue
      BY <3>2 DEF FramesDue
    <3> QED
      BY <3>3, <3>4, <3>5, Zenon
  <2>3. \A t \in Thread : th[t].pc = "idle"
    BY Zenon DEF Init, IdleThread
  <2>4. SnapshotsAddressed
    BY <2>3, Zenon DEF SnapshotsAddressed
  <2>5. NumbersGiven
    BY <2>3 DEF Init, NumbersGiven, Thread
  <2>6. DueAddressed
    BY <2>3, Zenon DEF Init, DueAddressed, Thread
  <2> QED
    BY <2>1, <2>2, <2>4, <2>5, <2>6, Zenon DEF Inv
<1>2. Inv /\ [Next]_vars => Inv'
  BY TypeStep, CopiesStep, AddressedStep, MembersStep, NumbersStep, Zenon DEF Inv
<1> QED
  BY <1>1, <1>2, PTL DEF Spec

\* The variables stay in their types.
THEOREM TypeCorrect == Spec => []TypeOK
<1>1. Inv => TypeOK
  BY Zenon DEF Inv
<1> QED
  BY <1>1, InvHolds, PTL

\* No member's copy of a message leaves the outbox before MarkRoomDelivered
\* was called for an ack of that member, who has persisted the message.
THEOREM CopiesKept == Spec => []NoCopyLost
<1>1. Inv => NoCopyLost
  BY Zenon DEF Inv
<1> QED
  BY <1>1, InvHolds, PTL

\* MarkRoomDelivered never calls a message delivered while a member that was
\* given an entry for it lacks it: the entries it finds gone left for an ack
\* of their own member, and acks mean stored.
THEOREM DeliveredIsPersisted == Spec => DeliveredMeansPersisted
<1> DEFINE Earned == \A m \in Msg : status[m] # "delivered" /\ status'[m] = "delivered"
                       => \A b \in members : <<b, m>> \in due => m \in got[b]
<1>1. Inv /\ Inv' /\ [Next]_vars => [Earned]_vars
  <2> SUFFICES ASSUME Inv, Inv', Next PROVE Earned
    BY Zenon
  <2> USE DEF storeVars, linkVars, peerVars, history, bounds
  <2>0. TypeOK /\ NoCopyLost'
    BY Zenon DEF Inv
  <2>1. ASSUME \A m \in Msg : status'[m] = "delivered" => status[m] = "delivered" PROVE Earned
    BY <2>1, Zenon
  <2>2. ASSUME NEW b \in Member, AckMarked(b) PROVE Earned
    <3>1. UNCHANGED <<members, got, due>>
      BY <2>2, Zenon DEF AckMarked
    <3>2. CASE \E e \in box' : e[1] \in members
      BY <2>1, <2>2, <3>2, Zenon DEF AckMarked, MarkRoomDelivered
    <3>3. CASE UNCHANGED status
      BY <2>1, <3>3, Zenon
    <3>4. CASE ~\E e \in box' : e[1] \in members
      <4> SUFFICES ASSUME NEW m \in Msg, NEW c \in members, <<c, m>> \in due PROVE m \in got[c]
        BY Zenon
      <4>1. <<c, m>> \notin box'
        BY <3>4, Zenon
      <4>2. <<c, m>> \in due'
        BY <3>1, Zenon
      <4> QED
        BY <2>0, <3>1, <4>1, <4>2, Zenon DEF NoCopyLost
    <3> QED
      BY <3>2, <3>4, Zenon
  <2>3. ASSUME NEW m \in Msg, AddRoomMessage(m) PROVE Earned
    BY <2>0, <2>1, <2>3, Zenon DEF AddRoomMessage, TypeOK
  <2>4. ASSUME UNCHANGED status PROVE Earned
    BY <2>1, <2>4, Zenon
  <2>5. ASSUME NEW m \in Msg, Call(m) \/ BackoffExpires(m) PROVE Earned
    BY <2>3, <2>4, <2>5, Zenon DEF Call, TakeSeq, AddRoomMemberToOutbox, BackoffExpires
  <2>6. ASSUME NEW t \in Thread, Flush(t) PROVE Earned
    BY <2>4, <2>6, Zenon DEF Flush, Lock, Visit, Send
  <2>7. ASSUME NEW b \in Member,
               \/ Peer(b) \/ Ack(b) \/ AcceptRoomInvite(b) \/ Connect(b) \/ Drop(b) \/ RemoveRoomMember(b)
        PROVE  Earned
    BY <2>2, <2>4, <2>7, Zenon DEF Peer, Ack, handleRoomMsg, handleRemoved, handleRoomAck,
       AcceptRoomInvite, Connect, Drop, RemoveRoomMember
  <2>8. CASE Tick \/ Crash
    BY <2>4, <2>8, Zenon DEF Tick, Crash
  <2> QED
    BY <2>5, <2>6, <2>7, <2>8, Zenon DEF Next
<1> QED
  BY <1>1, InvHolds, PTL DEF Spec, DeliveredMeansPersisted

\* flushRoomMember sends a member only messages of calls that found it in the
\* room.
THEOREM SentAsAddressed == Spec => []OnlyTheAddressed
<1>1. Inv => OnlyTheAddressed
  <2> SUFFICES ASSUME Inv, NEW b \in Member, NEW i \in 1 .. Len(out[b]), out[b][i] # Gone
               PROVE  b \in addressed[out[b][i]]
    BY Zenon DEF OnlyTheAddressed
  <2>1. <<b, out[b][i]>> \in due /\ due \subseteq Member \X Msg
    BY Zenon DEF Inv, FramesDue, TypeOK
  <2>2. out[b][i] \in Msg
    BY <2>1
  <2> QED
    BY <2>1, <2>2, Zenon DEF Inv, DueAddressed
<1> QED
  BY <1>1, InvHolds, PTL

\* NextRoomSenderSeq never gives two stored messages one number.
THEOREM NumbersNotReused == Spec => []NumbersAreUnique
<1>1. Inv => NumbersAreUnique
  BY Zenon DEF Inv, NumbersGiven, NumbersAreUnique, Stored
<1> QED
  BY <1>1, InvHolds, PTL

=============================================================================

----------------------------- MODULE RoomOutbox -----------------------------
(***************************************************************************)
(* The messages one node sends to a room it created: SendRoomMessage and   *)
(* its goroutine, the per-member outbox entries, flushRoomMember from that *)
(* goroutine and from outboxLoop, the members that store and acknowledge,  *)
(* and the delivery status MarkRoomDelivered derives from the entries.     *)
(*                                                                         *)
(* internal/node/rooms.go, internal/node/node.go, internal/store/store.go. *)
(* A store call is one bbolt transaction, hence one step.  A session with  *)
(* a member is a link that comes and goes with the frames in it; module    *)
(* Delivery has its life in detail.  A message is "cooling" from           *)
(* RoomRecordAttempt until its backoff, if positive, has run out; attempts *)
(* are counted per message, not per member.                                *)
(*                                                                         *)
(* A definition whose name starts with Faulty is a plausible bug in the    *)
(* one that follows it; no specification uses it.                          *)
(***************************************************************************)
EXTENDS Integers, Sequences

CONSTANTS
  NMember,      \* members other than the sender, in the order of Room.Members
  MaxMsg,       \* calls of SendRoomMessage
  MaxInFlight,  \* frames a direction of a link holds before a write blocks, the
                \* ack the sender is at work on included
  MaxFault,     \* links that are lost, times the sender is killed and messages a
                \* member fails to store, together
  MaxRemove,    \* members the sender removes from the room
  RetryBase, RetryMax,  \* Config: the bounds of the backoff
  Width         \* bits of a time.Duration, 64 in the program

ASSUME RoomBounds ==
  /\ NMember \in Nat /\ MaxMsg \in Nat /\ MaxInFlight \in Nat \ {0}
  /\ MaxFault \in Nat /\ MaxRemove \in Nat
  /\ RetryBase \in Nat \ {0} /\ RetryMax \in Nat \ {0} /\ Width \in Nat \ {0}

VARIABLES
  members,  \* Room.Members in the sender's store, without the sender
  seq,      \* the sender's durable counter for the room (bRoomSeq)
  num,      \* SenderSeq of each message, 0 before it has one
  pos,      \* RoomMessage.Seq: the place of each message in bRoomMsgs, 0 if absent
  last,     \* the sequence of bucket bRoomMsgs
  status,   \* RoomMessage.Status
  box,      \* bRoomOutbox: <<member, message>> entries
  attempts, \* RoomMessage.Attempts
  cooling,  \* messages whose Attempts and LastTry still hold them back
  up,       \* members with a live link that speaks rooms
  room,     \* each member's own copy of the room
  got,      \* messages each member has ever persisted
  out, back,\* frames in flight to each member; acks in flight from it
  hand,     \* the ack the sender's read loop of each member has checked, or None
  th,       \* the goroutines: one per SendRoomMessage, and outboxLoop
  due,      \* history: every entry ever put in the outbox
  acked,    \* history: every ack the sender processed
  addressed,\* history: the members in the room when SendRoomMessage was called
  faults

storeVars == <<members, seq, num, last, pos, status, box, attempts, cooling>>
linkVars  == <<up, out, back, hand>>
peerVars  == <<room, got>>
history   == <<due, acked, addressed>>
bounds    == <<faults>>
vars == <<storeVars, linkVars, peerVars, history, bounds, th>>

Member == 1 .. NMember
Msg    == 1 .. MaxMsg
Loop   == 0                 \* the goroutine of outboxLoop
Thread == {Loop} \cup Msg
Gone   == 0                 \* the frame of a "remove" event
None   == 0

\* ms is r.Members as SendRoomMessage read it, visit the members the goroutine
\* has not come to yet in its current loop, mb the member it is flushing, todo the
\* rest of its RoomPending snapshot, held the part of the snapshot that was
\* cooling when it was read, and ok whether its link is still the live one.
IdleThread == [pc |-> "idle", ms |-> {}, visit |-> {}, mb |-> 0, todo |-> {},
               held |-> {}, ok |-> FALSE]
ThreadState == [pc : {"idle", "taken", "add", "next", "lock", "run", "done"},
                ms : SUBSET Member, visit : SUBSET Member, mb : {0} \cup Member,
                todo : SUBSET Msg, held : SUBSET Msg, ok : BOOLEAN]

\* A goroutine about to flush the members in S, and one that is through:
\* outboxLoop waits for its next tick, a call returns.
Visiting(S) == [IdleThread EXCEPT !.pc = "next", !.visit = S]
Done(t) == IF t = Loop THEN IdleThread ELSE [IdleThread EXCEPT !.pc = "done"]

First(S, b) == b \in S /\ \A c \in S : b <= c

Init ==
  /\ members = Member /\ seq = 0 /\ last = 0
  /\ num = [m \in Msg |-> 0] /\ pos = [m \in Msg |-> 0]
  /\ status = [m \in Msg |-> "none"] /\ attempts = [m \in Msg |-> 0]
  /\ box = {} /\ cooling = {} /\ up = {} /\ due = {} /\ acked = {}
  /\ room = [b \in Member |-> "pending"]
  /\ got = [b \in Member |-> {}]
  /\ out = [b \in Member |-> <<>>] /\ back = [b \in Member |-> <<>>]
  /\ hand = [b \in Member |-> None] /\ addressed = [m \in Msg |-> {}]
  /\ th = [t \in Thread |-> IdleThread]
  /\ faults = 0

-----------------------------------------------------------------------------
(* SendRoomMessage.                                                        *)

FaultyTakeSeq(m) ==
  /\ th[m].pc = "idle" /\ \A k \in 1 .. m - 1 : th[k].pc # "idle"
  /\ seq' = seq + 1
  /\ num' = [num EXCEPT ![m] = seq + 1]
  /\ th' = [th EXCEPT ![m] = [IdleThread EXCEPT !.pc = "taken", !.ms = Member]]
  /\ addressed' = [addressed EXCEPT ![m] = members]
  /\ UNCHANGED <<members, last, pos, status, box, attempts, cooling, linkVars, peerVars,
                 due, acked, bounds>>

\* GetRoom and NextRoomSenderSeq: the goroutine keeps the members it read.
TakeSeq(m) ==
  /\ th[m].pc = "idle" /\ \A k \in 1 .. m - 1 : th[k].pc # "idle"
  /\ seq' = seq + 1
  /\ num' = [num EXCEPT ![m] = seq + 1]
  /\ th' = [th EXCEPT ![m] = [IdleThread EXCEPT !.pc = "taken", !.ms = members]]
  /\ addressed' = [addressed EXCEPT ![m] = members]
  /\ UNCHANGED <<members, last, pos, status, box, attempts, cooling, linkVars, peerVars,
                 due, acked, bounds>>

FaultyAddRoomMessage(m) ==
  /\ th[m].pc = "taken"
  /\ last' = last + 1
  /\ pos' = [pos EXCEPT ![m] = last + 1]
  /\ status' = [status EXCEPT ![m] = "received"]
  /\ th' = [th EXCEPT ![m] = IF th[m].ms = {} THEN Done(m)
                             ELSE [th[m] EXCEPT !.pc = "add", !.visit = th[m].ms]]
  /\ UNCHANGED <<members, seq, num, box, attempts, cooling, linkVars, peerVars, history, bounds>>

AddRoomMessage(m) ==
  /\ th[m].pc = "taken"
  /\ last' = last + 1
  /\ pos' = [pos EXCEPT ![m] = last + 1]
  /\ status' = [status EXCEPT ![m] = "queued"]
  /\ th' = [th EXCEPT ![m] = IF th[m].ms = {} THEN Done(m)
                             ELSE [th[m] EXCEPT !.pc = "add", !.visit = th[m].ms]]
  /\ UNCHANGED <<members, seq, num, box, attempts, cooling, linkVars, peerVars, history, bounds>>

\* One turn of the loop that adds the outbox entries, a transaction each.
\* After the last one the goroutine goes on to flush the same members.
AddRoomMemberToOutbox(m, b) ==
  /\ th[m].pc = "add" /\ First(th[m].visit, b)
  /\ box' = box \cup {<<b, m>>}
  /\ due' = due \cup {<<b, m>>}
  /\ th' = [th EXCEPT ![m] = IF th[m].visit = {b} THEN Visiting(th[m].ms)
                             ELSE [th[m] EXCEPT !.visit = @ \ {b}]]
  /\ UNCHANGED <<members, seq, num, last, pos, status, attempts, cooling, linkVars,
                 peerVars, acked, addressed, bounds>>

\* A tick of outboxLoop: ListRooms, and a flush for each member.
Tick ==
  /\ th[Loop].pc = "idle" /\ members # {}
  /\ th' = [th EXCEPT ![Loop] = Visiting(members)]
  /\ UNCHANGED <<storeVars, linkVars, peerVars, history, bounds>>

-----------------------------------------------------------------------------
(* flushRoomMember.                                                        *)

RoomPending(b) == {m \in Msg : <<b, m>> \in box}

FaultyVisited(t, S) == Done(t)

\* Goroutine t is through with a member, and goes on to those in S.
Visited(t, S) == IF S = {} THEN Done(t) ELSE Visiting(S)

\* flushRoomMember up to the lock: nothing for a member that is offline or
\* has nothing pending, else the link and a snapshot of what is pending.
Visit(t, b) ==
  /\ th[t].pc = "next" /\ First(th[t].visit, b)
  /\ th' = [th EXCEPT ![t] =
       IF b \in up /\ RoomPending(b) # {}
       THEN [pc |-> "lock", ms |-> {}, visit |-> th[t].visit \ {b}, mb |-> b,
             todo |-> RoomPending(b), held |-> RoomPending(b) \cap cooling, ok |-> TRUE]
       ELSE Visited(t, th[t].visit \ {b})]
  /\ UNCHANGED <<storeVars, linkVars, peerVars, history, bounds>>

\* Goroutine t holding flushMu with S left to send: with nothing left it
\* releases the lock.
Flushing(t, S) == IF S = {} THEN Visited(t, th[t].visit)
                  ELSE [th[t] EXCEPT !.pc = "run", !.todo = S, !.held = {}]

\* flushMu of the live link to b is held.
FlushLocked(b) == \E t \in Thread : th[t].pc = "run" /\ th[t].mb = b /\ th[t].ok

\* The lock is taken and the backoff of the snapshot looked at: a message
\* that was held back then and still is now may be passed over; no other is.
Lock(t) ==
  /\ th[t].pc = "lock"
  /\ th[t].ok => ~FlushLocked(th[t].mb)
  /\ \E skip \in SUBSET (th[t].held \cap cooling) :
       th' = [th EXCEPT ![t] = Flushing(t, th[t].todo \ skip)]
  /\ UNCHANGED <<storeVars, linkVars, peerVars, history, bounds>>

\* x as a signed integer of Width bits.
Signed(x) == LET u == x % (2 ^ Width) IN IF u < 2 ^ (Width - 1) THEN u ELSE u - 2 ^ Width

\* RetryBase * (1 << (a - 1)), at most RetryMax.  Nothing stops the shift: the
\* product overflows, and is 0 from some attempt on.
RoomBackoff(a) ==
  LET d == Signed(RetryBase * Signed(2 ^ (a - 1))) IN IF d > RetryMax THEN RetryMax ELSE d

\* From attempt Width on the product has only its sign bit left, if that, so the
\* backoff is never positive and further attempts need not be told apart.
LastAttempt == Width

\* RoomRecordAttempt: one count and one time for all members.
RoomRecordAttempt(m) ==
  LET a == IF attempts[m] < LastAttempt THEN attempts[m] + 1 ELSE attempts[m] IN
  /\ attempts' = [attempts EXCEPT ![m] = a]
  /\ cooling' = IF RoomBackoff(a) > 0 THEN cooling \cup {m} ELSE cooling \ {m}

Oldest(S, m) == m \in S /\ \A n \in S : pos[m] <= pos[n]

\* RoomRecordAttempt and the write.  A write on a link that is gone fails
\* and ends the flush; what was not sent keeps its entry.
Send(t, m) ==
  /\ th[t].pc = "run" /\ Oldest(th[t].todo, m)
  /\ RoomRecordAttempt(m)
  /\ \/ /\ th[t].ok /\ Len(out[th[t].mb]) < MaxInFlight
        /\ out' = [out EXCEPT ![th[t].mb] = Append(@, m)]
        /\ th' = [th EXCEPT ![t] = Flushing(t, th[t].todo \ {m})]
     \/ /\ ~th[t].ok
        /\ th' = [th EXCEPT ![t] = Flushing(t, {})]
        /\ UNCHANGED out
  /\ UNCHANGED <<members, seq, num, last, pos, status, box, up, back, hand, peerVars, history,
                 bounds>>

\* Time passes: the next flush may attempt the message again.
BackoffExpires(m) ==
  /\ m \in cooling
  /\ cooling' = cooling \ {m}
  /\ UNCHANGED <<members, seq, num, last, pos, status, box, attempts, linkVars, peerVars,
                 history, bounds, th>>

-----------------------------------------------------------------------------
(* Members.                                                                *)

\* The user of a member answers the invitation.
AcceptRoomInvite(b) ==
  /\ room[b] = "pending"
  /\ room' = [room EXCEPT ![b] = "joined"]
  /\ UNCHANGED <<storeVars, linkVars, got, history, bounds, th>>

AcksHeld(b) == Len(back[b]) + IF hand[b] = None THEN 0 ELSE 1

\* A room message arrives: stored and acknowledged by a member that joined,
\* dropped without an ack by one that has not answered, has no such room or
\* fails to store it.
handleRoomMsg(b) ==
  /\ out[b] # <<>> /\ Head(out[b]) # Gone
  /\ out' = [out EXCEPT ![b] = Tail(@)]
  /\ \/ /\ room[b] = "joined" /\ AcksHeld(b) < MaxInFlight
        /\ got' = [got EXCEPT ![b] = @ \cup {Head(out[b])}]
        /\ back' = [back EXCEPT ![b] = Append(@, Head(out[b]))]
        /\ UNCHANGED faults
     \/ /\ room[b] # "joined"
        /\ UNCHANGED <<got, back, faults>>
     \/ /\ room[b] = "joined" /\ faults < MaxFault
        /\ faults' = faults + 1
        /\ UNCHANGED <<got, back>>
  /\ UNCHANGED <<storeVars, up, hand, room, history, th>>

\* The "remove" event: the member deletes its copy of the room.
handleRemoved(b) ==
  /\ out[b] # <<>> /\ Head(out[b]) = Gone
  /\ out' = [out EXCEPT ![b] = Tail(@)]
  /\ room' = [room EXCEPT ![b] = "none"]
  /\ UNCHANGED <<storeVars, up, back, hand, got, history, bounds, th>>

-----------------------------------------------------------------------------
(* The sender's side of acks, links and membership.                        *)

FaultyMarkRoomDelivered(b, m) ==
  IF status[m] = "delivered"
  THEN UNCHANGED <<box, status>>
  ELSE /\ box' = {e \in box : e[2] # m}
       /\ status' = [status EXCEPT ![m] = "delivered"]

FaultyMarkAtFirstAck(b, m) ==
  IF status[m] = "delivered"
  THEN UNCHANGED <<box, status>>
  ELSE /\ box' = box \ {<<b, m>>}
       /\ status' = [status EXCEPT ![m] = "delivered"]

\* One transaction.  A message already delivered is left alone, its entry
\* included; otherwise the entry goes, and the message is delivered when no
\* member of the room has an entry of any message left.
MarkRoomDelivered(b, m) ==
  IF status[m] = "delivered"
  THEN UNCHANGED <<box, status>>
  ELSE /\ box' = box \ {<<b, m>>}
       /\ status' = IF \E e \in box' : e[1] \in members
                    THEN status ELSE [status EXCEPT ![m] = "delivered"]

\* GetRoom: an ack from a member that has been removed is dropped.
handleRoomAck(b) ==
  /\ back[b] # <<>> /\ hand[b] = None
  /\ back' = [back EXCEPT ![b] = Tail(@)]
  /\ hand' = [hand EXCEPT ![b] = IF b \in members THEN Head(back[b]) ELSE None]
  /\ UNCHANGED <<storeVars, up, out, peerVars, history, bounds, th>>

\* MarkRoomDelivered for it, though the member may have been removed since, or
\* its link lost.
AckMarked(b) ==
  /\ hand[b] # None
  /\ MarkRoomDelivered(b, hand[b])
  /\ acked' = acked \cup {<<b, hand[b]>>}
  /\ hand' = [hand EXCEPT ![b] = None]
  /\ UNCHANGED <<members, seq, num, last, pos, attempts, cooling, up, out, back, peerVars,
                 due, addressed, bounds, th>>

\* A session with b is up.
Connect(b) ==
  /\ b \notin up
  /\ up' = up \cup {b}
  /\ UNCHANGED <<storeVars, out, back, hand, peerVars, history, bounds, th>>

\* The sessions with the members of B end, with every frame in them.
Lose(B) ==
  /\ up' = up \ B
  /\ out' = [b \in Member |-> IF b \in B THEN <<>> ELSE out[b]]
  /\ back' = [b \in Member |-> IF b \in B THEN <<>> ELSE back[b]]

Drop(b) ==
  /\ b \in up /\ faults < MaxFault
  /\ faults' = faults + 1
  /\ Lose({b})
  /\ th' = [t \in Thread |-> IF th[t].mb = b THEN [th[t] EXCEPT !.ok = FALSE] ELSE th[t]]
  /\ UNCHANGED <<storeVars, hand, peerVars, history>>

\* The sender is killed and started again: only its store is left.
Crash ==
  /\ faults < MaxFault
  /\ faults' = faults + 1
  /\ Lose(Member)
  /\ th' = [t \in Thread |-> IF th[t].pc = "idle" THEN IdleThread ELSE Done(t)]
  /\ hand' = [b \in Member |-> None]
  /\ UNCHANGED <<storeVars, peerVars, history>>

\* The event goes to the member only if it is connected.
RemoveRoomMember(b) ==
  /\ b \in members /\ NMember - MaxRemove < b
  /\ members' = members \ {b}
  /\ \/ /\ b \in up /\ Len(out[b]) < MaxInFlight
        /\ out' = [out EXCEPT ![b] = Append(@, Gone)]
     \/ b \notin up /\ UNCHANGED out
  /\ UNCHANGED <<seq, num, last, pos, status, box, attempts, cooling, up, back, hand,
                 peerVars, history, bounds, th>>

Call(m) == \/ TakeSeq(m) \/ AddRoomMessage(m)
           \/ \E b \in Member : AddRoomMemberToOutbox(m, b)

Flush(t) == \/ Lock(t)
            \/ \E b \in Member : Visit(t, b)
            \/ \E m \in Msg : Send(t, m)

Peer(b) == handleRoomMsg(b) \/ handleRemoved(b)

Ack(b) == handleRoomAck(b) \/ AckMarked(b)

Next ==
  \/ \E m \in Msg : Call(m) \/ BackoffExpires(m)
  \/ Tick
  \/ \E t \in Thread : Flush(t)
  \/ \E b \in Member : \/ Peer(b) \/ Ack(b) \/ AcceptRoomInvite(b) \/ Connect(b)
                       \/ Drop(b) \/ RemoveRoomMember(b)
  \/ Crash

Spec == Init /\ [][Next]_vars

-----------------------------------------------------------------------------
(* Properties.                                                             *)

\* The variables stay in their types.
TypeOK ==
  /\ members \subseteq Member /\ seq \in Nat /\ last \in Nat
  /\ num \in [Msg -> Nat] /\ pos \in [Msg -> Nat] /\ attempts \in [Msg -> Nat]
  /\ status \in [Msg -> {"none", "queued", "delivered"}]
  /\ box \subseteq Member \X Msg /\ due \subseteq Member \X Msg
  /\ acked \subseteq Member \X Msg
  /\ cooling \subseteq Msg /\ up \subseteq Member
  /\ room \in [Member -> {"pending", "joined", "none"}]
  /\ got \in [Member -> SUBSET Msg]
  /\ out \in [Member -> Seq({Gone} \cup Msg)] /\ back \in [Member -> Seq(Msg)]
  /\ hand \in [Member -> {None} \cup Msg] /\ addressed \in [Msg -> SUBSET Member]
  /\ th \in [Thread -> ThreadState]
  /\ faults \in Nat

\* An outbox entry leaves the outbox only when its own member has persisted
\* its own message, whatever acks, losses, kills and removals come between
\* AddRoomMemberToOutbox and MarkRoomDelivered.
NoCopyLost == \A e \in due : e \in box \/ e[2] \in got[e[1]]

\* MarkRoomDelivered calls a message delivered only when every member of the
\* room that has ever had an outbox entry for it has persisted it.  A member the
\* call has not come to yet has none and is not waited for: that part of
\* "delivered" is DeliveredMeansEveryone's, which does not hold.
DeliveredMeansPersisted ==
  [][\A m \in Msg : status[m] # "delivered" /\ status'[m] = "delivered"
       => \A b \in members : <<b, m>> \in due => m \in got[b]]_vars

\* A message is on its way only to members that were in the room when
\* SendRoomMessage was called: neither another member's pending message nor one
\* of a call made after a member was removed goes to it, however long the
\* goroutines, their snapshots and the outbox entries live.
OnlyTheAddressed ==
  \A b \in Member : \A i \in 1 .. Len(out[b]) : out[b][i] # Gone => b \in addressed[out[b][i]]

\* The messages AddRoomMessage has stored.
Stored == {m \in Msg : pos[m] # 0}

\* NextRoomSenderSeq gives no two stored messages one number, even when calls
\* overlap or the node is killed between taking the number and storing.
NumbersAreUnique == \A m, n \in Stored : m # n => num[m] # num[n]

\* "If all members have been marked delivered, the message status becomes
\* delivered" (MarkRoomDelivered), which the page shows as "Delivered to
\* everyone": once its call is over a message is delivered exactly when every
\* member of the room has acknowledged it.
DeliveredMeansEveryone ==
  \A m \in Stored : th[m].pc = "done" /\ members # {} =>
    (status[m] = "delivered" <=> \A b \in members : <<b, m>> \in acked)

=============================================================================

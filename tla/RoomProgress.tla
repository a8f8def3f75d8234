---------------------------- MODULE RoomProgress ----------------------------
(***************************************************************************)
(* RoomOutbox, with what keeps it going and what may stop it: a node whose *)
(* dialLoop meets an expired neighbour loses its Node.mu (see              *)
(* DeliveryProgress and Node), after which outboxLoop, flushRoomMember and *)
(* the handlers' emit and logf wait for ever and no session is made.       *)
(***************************************************************************)
EXTENDS RoomOutbox

CONSTANT Wedges  \* the nodes whose Node.mu may get lost

Sender == 0

ASSUME WedgesAssumption == Wedges \subseteq {Sender} \cup Member

VARIABLE wedged  \* the nodes whose Node.mu is lost

pvars == <<vars, wedged>>

PInit == Init /\ wedged = {}

\* It counts where a message is on its way to a member and a fault is left to end
\* it.  At another moment it may as well come later, and a goroutine it stops
\* half-way may as well have been stopped where it is: only a restart undoes it.
Wedge(n) ==
  /\ n \in Wedges \ wedged /\ faults < MaxFault
  /\ \E b \in Member : out[b] # <<>>
  /\ \A t \in Thread : th[t].pc \in {"idle", "done"}
  /\ wedged' = wedged \cup {n}
  /\ UNCHANGED vars

\* A node that is restarted has its Node.mu again.
Restart == Crash /\ wedged' = wedged \ {Sender}

\* A link is lost, with or without a restart of the member's node.
Lost(b) == Drop(b) /\ wedged' \in {wedged, wedged \ {b}}

\* Each goroutine of the sender: outboxLoop and the calls of SendRoomMessage.
Goroutine(t) ==
  /\ Sender \notin wedged
  /\ \/ t = Loop /\ Tick
     \/ t # Loop /\ Call(t)
     \/ Flush(t)
  /\ UNCHANGED wedged

Elapse(m) == BackoffExpires(m) /\ UNCHANGED wedged

AckStep(b) == Sender \notin wedged /\ Ack(b) /\ UNCHANGED wedged

RemoveStep(b) == Sender \notin wedged /\ RemoveRoomMember(b) /\ UNCHANGED wedged

ConnectStep(b) == {Sender, b} \cap wedged = {} /\ Connect(b) /\ UNCHANGED wedged

MemberStep(b) == b \notin wedged /\ Peer(b) /\ UNCHANGED wedged

AcceptStep(b) == b \notin wedged /\ AcceptRoomInvite(b) /\ UNCHANGED wedged

PNext ==
  \/ \E n \in {Sender} \cup Member : Wedge(n)
  \/ Restart
  \/ \E m \in Msg : Elapse(m)
  \/ \E t \in Thread : Goroutine(t)
  \/ \E b \in Member : \/ AckStep(b) \/ MemberStep(b) \/ AcceptStep(b) \/ ConnectStep(b)
                       \/ Lost(b) \/ RemoveStep(b)

\* What the program does by itself while Node.mu is not lost: a goroutine goes
\* on, outboxLoop with the next tick, redialling, reading frames; and time
\* passes.  The users owe nothing, not even to call SendRoomMessage.
Fairness ==
  /\ \A t \in Thread : WF_pvars((t = Loop \/ th[t].pc # "idle") /\ Goroutine(t))
  /\ \A m \in Msg : WF_pvars(Elapse(m))
  /\ \A b \in Member : WF_pvars(ConnectStep(b) \/ MemberStep(b) \/ AckStep(b))

FairSpec == PInit /\ [][PNext]_pvars /\ Fairness

-----------------------------------------------------------------------------
\* A member that has joined gets every message queued for it, even while an
\* earlier member is connected and never answers its invitation, so that every
\* retry to that one puts the message in backoff for both (flushRoomMember); if
\* every node that loses its Node.mu is restarted and none loses it for good.
JoinedGetsItsMessages ==
  <>[](wedged = {}) =>
    \A b \in Member, m \in Msg :
      (<<b, m>> \in box /\ room[b] = "joined" /\ b \in members)
        ~> (m \in got[b] \/ b \notin members)

=============================================================================

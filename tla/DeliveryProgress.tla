-------------------------- MODULE DeliveryProgress --------------------------
(***************************************************************************)
(* Delivery, with what keeps it going and what may stop it.                *)
(*                                                                         *)
(* dialLoop calls logf and emit while it holds Node.mu, which both take    *)
(* again, when a neighbour has not announced itself for two minutes        *)
(* (node.go; module Node has the loop itself).  Node.mu is then lost until *)
(* the node is killed: establish, linkFor, outboxLoop, emit and logf wait  *)
(* for ever.  A goroutine may still reach its next use of Node.mu, which   *)
(* is the same as reaching it before the loss; so the loss is a step after *)
(* which the node takes none.                                              *)
(***************************************************************************)
EXTENDS Delivery

CONSTANT Wedges  \* the ends whose Node.mu may get lost

ASSUME WedgesAssumption == Wedges \subseteq End

VARIABLE wedged  \* the ends whose Node.mu is lost

pvars == <<vars, wedged>>

PInit == Init /\ wedged = {}

\* It counts where a message is queued and a session is up: at another moment it
\* may as well come later.  On the last connection of the instance nothing would
\* undo it, and EventuallyDelivered promises nothing then.
Wedge(e) ==
  /\ Unstable /\ e \in Wedges \ wedged
  /\ outbox # {} /\ \E c \in Conn : end[e][c] = "up"
  /\ wedged' = wedged \cup {e}
  /\ UNCHANGED vars

Restart(e) == Crash(e) /\ wedged' = wedged \ {e}

Redial ==
  /\ nconn + 1 = MaxConn => wedged = {}
  /\ Connect /\ UNCHANGED wedged

Environment ==
  /\ \E c \in Conn : Cut(c)
  /\ UNCHANGED wedged

Elapse(m) == BackoffExpires(m) /\ UNCHANGED wedged

SessionStep(e, c) == e \notin wedged /\ Session(e, c) /\ UNCHANGED wedged

UserStep ==
  /\ "snd" \notin wedged
  /\ (\E m \in Msg : User(m)) \/ DeleteAllMessages
  /\ UNCHANGED wedged

StartStep(f, force) == "snd" \notin wedged /\ FlushStart(f, force) /\ UNCHANGED wedged

FlushStep(f) == "snd" \notin wedged /\ Flush(f) /\ UNCHANGED wedged

AckStep(c) == "snd" \notin wedged /\ MarkDelivered(c) /\ UNCHANGED wedged

ReceiveStep(c) == "rcv" \notin wedged /\ Receive(c) /\ UNCHANGED wedged

ReceiverStep ==
  /\ "rcv" \notin wedged
  /\ (\E c \in Conn : RecvRefused(c)) \/ \E S \in SUBSET inbox : RcvDelete(S)
  /\ UNCHANGED wedged

PNext ==
  \/ \E e \in End : Wedge(e) \/ Restart(e)
  \/ Redial \/ Environment \/ UserStep \/ ReceiverStep
  \/ \E m \in Msg : Elapse(m)
  \/ \E e \in End, c \in Conn : SessionStep(e, c)
  \/ \E f \in Flushers, force \in BOOLEAN : StartStep(f, force)
  \/ \E f \in Flushers : FlushStep(f)
  \/ \E c \in Conn : AckStep(c) \/ ReceiveStep(c)

\* What the program does by itself while Node.mu is not lost: the dialer
\* redials, a session's goroutines run, outboxLoop ticks every second and a
\* backoff runs out.  The users, the failures and RetryNow are not obliged to
\* do anything.
Fairness ==
  /\ WF_pvars(wedged = {} /\ Redial)
  /\ \A m \in Msg : WF_pvars(Elapse(m))
  /\ \A e \in End : WF_pvars(\E c \in Conn : SessionStep(e, c))
  /\ \A f \in Flushers : WF_pvars(StartStep(f, FALSE)) /\ WF_pvars(FlushStep(f))
  /\ WF_pvars(\E c \in Conn : ReceiveStep(c)) /\ WF_pvars(\E c \in Conn : AckStep(c))

FairSpec == PInit /\ [][PNext]_pvars /\ Fairness

-----------------------------------------------------------------------------
\* A message the sender's user does not delete is delivered in the end, if
\* every node that loses its Node.mu is restarted and none loses it for good.
EventuallyDelivered ==
  <>[](wedged = {}) => \A m \in Msg : msgs[m] = "queued" ~> msgs[m] # "queued"

=============================================================================

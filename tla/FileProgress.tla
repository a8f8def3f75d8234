---------------------------- MODULE FileProgress ----------------------------
(***************************************************************************)
(* FileTransfer, with what keeps it going and what may stop it: a node     *)
(* whose dialLoop meets an expired neighbour loses its Node.mu (see        *)
(* DeliveryProgress and Node), after which outboxLoop, flushFile, the read *)
(* loops' emit and logf and every new session wait for ever.               *)
(***************************************************************************)
EXTENDS FileTransfer

CONSTANT Wedges  \* the ends whose Node.mu may get lost

ASSUME WedgesAssumption == Wedges \subseteq End

VARIABLE wedged  \* the ends whose Node.mu is lost

pvars == <<vars, wedged>>

PInit == Init /\ wedged = {}

\* It counts while the file is queued and a failure is left to end it.  At
\* another moment it may as well come later, and a goroutine it stops half-way
\* may as well have been stopped where it is: only a restart undoes it.
Wedge(e) ==
  /\ e \in Wedges \ wedged /\ fails < MaxFail
  /\ queued /\ live # NoLink
  /\ wedged' = wedged \cup {e}
  /\ UNCHANGED vars

\* A node that is restarted has its Node.mu again.
Restart(e) == Crash(e) /\ wedged' = wedged \ {e}

CutStep(c) == Cut(c) /\ UNCHANGED wedged

ConnectStep(c) == wedged = {} /\ Connect(c) /\ UNCHANGED wedged

SessionStep(e, c) ==
  /\ e \notin wedged
  /\ Notice(e, c) \/ runSessionEnds(e, c)
  /\ UNCHANGED wedged

SenderStep ==
  /\ "snd" \notin wedged
  /\ SendFile \/ SndDelete
  /\ UNCHANGED wedged

FlushStep(f) == "snd" \notin wedged /\ Flush(f) /\ UNCHANGED wedged

AckStep(c) == "snd" \notin wedged /\ RecvFileAck(c) /\ UNCHANGED wedged

ReceiverStep == "rcv" \notin wedged /\ RcvDelete /\ UNCHANGED wedged

RemoveStep == "rcv" \notin wedged /\ RemoveDir /\ UNCHANGED wedged

ReadStep(c) == "rcv" \notin wedged /\ Read(c) /\ UNCHANGED wedged

PNext ==
  \/ SenderStep \/ ReceiverStep \/ RemoveStep
  \/ \E f \in Flushers : FlushStep(f)
  \/ \E c \in Link : CutStep(c) \/ ConnectStep(c) \/ AckStep(c) \/ ReadStep(c)
  \/ \E e \in End, c \in Link : SessionStep(e, c)
  \/ \E e \in End : Wedge(e) \/ Restart(e)

\* What the program does by itself while Node.mu is not lost: the goroutines
\* run, and outboxLoop starts another with the next tick; a broken connection is
\* noticed; and while no session is live one is made, because dialLoop keeps
\* dialling and the failures are bounded.
Fairness ==
  /\ \A f \in Flushers : WF_pvars(FlushStep(f))
  /\ \A c \in Link : WF_pvars(ReadStep(c))
  /\ WF_pvars(\E c \in Link : AckStep(c))
  /\ \A e \in End : WF_pvars(\E c \in Link : SessionStep(e, c))
  /\ WF_pvars(live = NoLink /\ \E c \in Link : ConnectStep(c))
  /\ WF_pvars(RemoveStep)

FairSpec == PInit /\ [][PNext]_pvars /\ Fairness

-----------------------------------------------------------------------------
\* A file that is queued leaves the outbox in the end, by being sent or by its
\* user's hand, and the receiver completes it if nothing disturbs the transfer.
\* No cut, kill, late answer, refused chunk or removed directory leaves every
\* flushFile waiting or every retry refused, if every node that loses its Node.mu
\* is restarted and none loses it for good.  That a transfer that was disturbed
\* arrives too is not claimed: MarkFileSent asks for no answer.
SentAndArrived ==
  <>[](wedged = {}) =>
    (queued ~> (~queued /\ (fails = 0 /\ deletes = 0 => rec.st = "complete")))

=============================================================================

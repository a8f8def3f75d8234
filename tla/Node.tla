-------------------------------- MODULE Node --------------------------------
(***************************************************************************)
(* The goroutines of one node around its lock: the loops Start starts, the *)
(* connections they and the user make, the slots for handshakes, the       *)
(* subscribers to events, and Stop.                                        *)
(*                                                                         *)
(* internal/node/node.go and internal/node/events.go.  A section under     *)
(* Node.mu is one step that needs mu to be free, except two: the scan of   *)
(* dialLoop, which calls logf while it holds mu, and the emit of           *)
(* browseLoop, split into its sends so that others may come between.  The  *)
(* log lines and events of a connection's goroutine are part of the step   *)
(* that needs mu next to them.  There is one neighbour, whose fingerprint  *)
(* sorts above ours, so that dialLoop is to dial it; it may also call, and *)
(* the user may dial it.  Time is a choice: a neighbour that is up may     *)
(* have expired and a backoff may have run out at any tick.  What goes     *)
(* over a session is left to Delivery, RoomOutbox, Rooms and FileTransfer. *)
(*                                                                         *)
(* A definition whose name starts with Faulty is a plausible bug in the    *)
(* one that follows it; no specification uses it.                          *)
(***************************************************************************)
EXTENDS Integers, FiniteSets

CONSTANTS
  NConn,   \* connections that exist at the same time
  NSlot,   \* capacity of hsSem
  NSub,    \* subscribers to events at the same time
  MaxDial  \* times the user calls Dial

ASSUME NodeBounds == NConn \in Nat /\ NSlot \in Nat /\ NSub \in Nat /\ MaxDial \in Nat

VARIABLES
  phase,   \* how far Start and Stop have come
  mu,      \* who holds Node.mu across steps, or Free
  loop,    \* where each of the loops is
  nb,      \* the entry of the neighbour in Node.nearby
  conn,    \* the connections and the goroutines that serve them
  live,    \* Node.live of the neighbour: a connection, or NoConn
  slots,   \* tokens in hsSem
  sub,     \* Node.subs: the event channels that are open
  todo,    \* channels the running emit has yet to send to
  calls    \* times Dial was called

nodeVars == <<phase, mu, loop, nb, conn, live, slots, sub, todo, calls>>

Conn   == 1 .. NConn
NoConn == 0
Sub    == 1 .. NSub
Loops  == {"accept", "browse", "dial"}
Free   == "free"

\* A connection: where its goroutine is, who made it, whether it is open, and,
\* for the history, whether its session was started after Stop had returned.
ConnState == [pc : {"none", "dial", "handshake", "register", "refused", "established",
                    "session", "ended", "dialDone"},
              kind : {"in", "out", "user"}, open : BOOLEAN, late : BOOLEAN]

NoNeighbour == [up |-> FALSE, dialing |-> FALSE]
Closed      == [pc |-> "none", kind |-> "in", open |-> FALSE, late |-> FALSE]

NodeInit ==
  /\ phase = "off" /\ mu = Free
  /\ loop = [l \in Loops |-> "gone"]
  /\ nb = NoNeighbour
  /\ conn = [c \in Conn |-> Closed] /\ live = NoConn /\ slots = 0
  /\ sub = {} /\ todo = {} /\ calls = 0

Cancelled == phase # "running"

-----------------------------------------------------------------------------
(* Start, the loops and the neighbour.                                     *)

\* Start: the listener is up and the loops run.  The loops of the outbox and
\* of retention take mu and emit as browseLoop does, which stands for them.
Start ==
  /\ phase = "off"
  /\ phase' = "running"
  /\ loop' = [l \in Loops |-> "idle"]
  /\ UNCHANGED <<mu, nb, conn, live, slots, sub, todo, calls>>

\* A loop that is waiting sees its context or its listener closed.
LoopEnds(l) ==
  /\ Cancelled /\ loop[l] = "idle"
  /\ loop' = [loop EXCEPT ![l] = "gone"]
  /\ UNCHANGED <<phase, mu, nb, conn, live, slots, sub, todo, calls>>

\* browseLoop: an announcement or a goodbye, noted under mu; logf and emit
\* come after it.
Browse(isUp) ==
  /\ loop["browse"] = "idle" /\ mu = Free
  /\ nb' = [nb EXCEPT !.up = isUp]
  /\ loop' = [loop EXCEPT !["browse"] = "emit"]
  /\ UNCHANGED <<phase, mu, conn, live, slots, sub, todo, calls>>

\* A tick of dialLoop takes mu.  For a neighbour that has expired it then
\* calls logf, which takes mu: it waits for itself and no step follows.
DialTick(expired) ==
  /\ loop["dial"] = "idle" /\ mu = Free /\ (expired => nb.up)
  /\ mu' = "dial"
  /\ loop' = [loop EXCEPT !["dial"] = IF expired THEN "logf" ELSE "scan"]
  /\ nb' = [nb EXCEPT !.up = @ /\ ~expired]
  /\ UNCHANGED <<phase, conn, live, slots, sub, todo, calls>>

FaultyDialScan(due) ==
  LET wanted == nb.up /\ due /\ live = NoConn IN
  /\ loop["dial"] = "scan"
  /\ mu' = Free
  /\ nb' = [nb EXCEPT !.dialing = @ \/ wanted]
  /\ loop' = [loop EXCEPT !["dial"] = IF wanted THEN "spawn" ELSE "idle"]
  /\ UNCHANGED <<phase, conn, live, slots, sub, todo, calls>>

\* The rest of the scan, which releases mu; due: nextDial has come.
DialScan(due) ==
  LET wanted == nb.up /\ ~nb.dialing /\ due /\ live = NoConn IN
  /\ loop["dial"] = "scan"
  /\ mu' = Free
  /\ nb' = [nb EXCEPT !.dialing = @ \/ wanted]
  /\ loop' = [loop EXCEPT !["dial"] = IF wanted THEN "spawn" ELSE "idle"]
  /\ UNCHANGED <<phase, conn, live, slots, sub, todo, calls>>

-----------------------------------------------------------------------------
(* Connections.                                                            *)

\* A connection the program has not begun to use.
Fresh(c) == conn[c].pc = "none" /\ \A d \in Conn : conn[d].pc = "none" => c <= d

Begin(c, kind, pc) ==
  conn' = [conn EXCEPT ![c] = [pc |-> pc, kind |-> kind, open |-> pc = "handshake", late |-> FALSE]]

FaultyAccept(c) ==
  /\ loop["accept"] = "idle" /\ phase \in {"running", "cancelled"}
  /\ Fresh(c)
  /\ slots' = slots + 1
  /\ Begin(c, "in", "handshake")
  /\ UNCHANGED <<phase, mu, loop, nb, live, sub, todo, calls>>

\* acceptLoop: with no slot left the connection is closed at once, which
\* leaves no trace.  The listener is still open when Stop cancels.
Accept(c) ==
  /\ loop["accept"] = "idle" /\ phase \in {"running", "cancelled"}
  /\ Fresh(c) /\ slots < NSlot
  /\ slots' = slots + 1
  /\ Begin(c, "in", "handshake")
  /\ UNCHANGED <<phase, mu, loop, nb, live, sub, todo, calls>>

\* dialLoop starts a goroutine that runs dial.
Spawn(c) ==
  /\ loop["dial"] = "spawn" /\ Fresh(c)
  /\ loop' = [loop EXCEPT !["dial"] = "idle"]
  /\ Begin(c, "out", "dial")
  /\ UNCHANGED <<phase, mu, nb, live, slots, sub, todo, calls>>

\* dial reads the address under mu; some address answers, or none does.
Dialled(c, ok) ==
  /\ conn[c].pc = "dial" /\ mu = Free
  /\ conn' = [conn EXCEPT ![c].pc = IF ok THEN "handshake" ELSE "dialDone", ![c].open = ok]
  /\ UNCHANGED <<phase, mu, loop, nb, live, slots, sub, todo, calls>>

\* Dial, called by the user; nothing keeps it from being called late.
Dial(c) ==
  /\ phase # "off" /\ Fresh(c) /\ calls < MaxDial
  /\ calls' = calls + 1
  /\ Begin(c, "user", "handshake")
  /\ UNCHANGED <<phase, mu, loop, nb, live, slots, sub, todo>>

\* A connection is finished; its goroutine goes on if it has to note that.
Over(c) == IF conn[c].kind = "out" THEN [conn[c] EXCEPT !.pc = "dialDone", !.open = FALSE] ELSE Closed

FaultyHandshake(c, res) ==
  /\ conn[c].pc = "handshake"
  /\ conn' = [conn EXCEPT ![c] = IF res = "self" THEN Over(c) ELSE [@ EXCEPT !.pc = res, !.open = res = "register"]]
  /\ slots' = IF conn[c].kind = "in" /\ res = "register" THEN slots - 1 ELSE slots
  /\ UNCHANGED <<phase, mu, loop, nb, live, sub, todo, calls>>

\* establish: the handshake ends, and the slot is given back whichever way.
\* A refusal that is logged needs mu; one of a connection to ourselves is not
\* logged.
Handshake(c, res) ==
  /\ conn[c].pc = "handshake"
  /\ conn' = [conn EXCEPT ![c] = IF res = "self" THEN Over(c) ELSE [@ EXCEPT !.pc = res, !.open = res = "register"]]
  /\ slots' = IF conn[c].kind = "in" THEN slots - 1 ELSE slots
  /\ UNCHANGED <<phase, mu, loop, nb, live, sub, todo, calls>>

\* establish registers the link under mu and closes the one it replaces.
Register(c) ==
  /\ conn[c].pc = "register" /\ mu = Free
  /\ live' = c
  /\ conn' = [d \in Conn |->
       CASE d = c -> [conn[d] EXCEPT !.pc = "established"]
         [] d = live /\ d # c -> [conn[d] EXCEPT !.open = FALSE]
         [] OTHER -> conn[d]]
  /\ UNCHANGED <<phase, mu, loop, nb, slots, sub, todo, calls>>

\* After the log line and the event comes runSession: in this goroutine, or
\* for Dial in one it starts, also when the node has stopped meanwhile.
RunSession(c) ==
  /\ conn[c].pc = "established" /\ mu = Free
  /\ conn' = [conn EXCEPT ![c].pc = "session", ![c].late = phase = "stopped"]
  /\ UNCHANGED <<phase, mu, loop, nb, live, slots, sub, todo, calls>>

FaultyMustEnd(c) == ~conn[c].open

\* The read loop must end: its connection was closed, or the context it
\* watches is done, which the one of Dial never is.
MustEnd(c) == ~conn[c].open \/ (Cancelled /\ conn[c].kind # "user")

\* The read loop ends.  The peer may close the connection, or fall silent,
\* at any time.
SessionEnds(c) ==
  /\ conn[c].pc = "session"
  /\ conn' = [conn EXCEPT ![c].pc = "ended", ![c].open = FALSE]
  /\ UNCHANGED <<phase, mu, loop, nb, live, slots, sub, todo, calls>>

FaultyUnregister(c) ==
  /\ conn[c].pc \in {"ended", "refused"} /\ mu = Free
  /\ live' = NoConn
  /\ conn' = [conn EXCEPT ![c] = Over(c)]
  /\ UNCHANGED <<phase, mu, loop, nb, slots, sub, todo, calls>>

\* What follows the read loop in runSession, or the log line of a refusal.
Unregister(c) ==
  /\ conn[c].pc \in {"ended", "refused"} /\ mu = Free
  /\ live' = IF live = c THEN NoConn ELSE live
  /\ conn' = [conn EXCEPT ![c] = Over(c)]
  /\ UNCHANGED <<phase, mu, loop, nb, slots, sub, todo, calls>>

\* The neighbour may be dialled again; when, is due's to say.
dialDone(c) ==
  /\ conn[c].pc = "dialDone" /\ mu = Free
  /\ nb' = [nb EXCEPT !.dialing = FALSE]
  /\ conn' = [conn EXCEPT ![c] = Closed]
  /\ UNCHANGED <<phase, mu, loop, live, slots, sub, todo, calls>>

-----------------------------------------------------------------------------
(* Events.                                                                 *)

Subscribe(s) ==
  /\ phase # "off" /\ s \notin sub /\ mu = Free
  /\ sub' = sub \cup {s}
  /\ UNCHANGED <<phase, mu, loop, nb, conn, live, slots, todo, calls>>

FaultyUnsubscribe(s) ==
  /\ s \in sub
  /\ sub' = sub \ {s}
  /\ UNCHANGED <<phase, mu, loop, nb, conn, live, slots, todo, calls>>

\* Unsubscribing removes the channel from the map and closes it, under mu.
Unsubscribe(s) ==
  /\ s \in sub /\ mu = Free
  /\ sub' = sub \ {s}
  /\ UNCHANGED <<phase, mu, loop, nb, conn, live, slots, todo, calls>>

\* emit: under mu, a send to each channel.  It never waits: when the
\* channel is full the event is dropped, so what it holds does not matter.
EmitLock(l) ==
  /\ loop[l] = "emit" /\ mu = Free
  /\ mu' = l
  /\ todo' = sub
  /\ loop' = [loop EXCEPT ![l] = "sending"]
  /\ UNCHANGED <<phase, nb, conn, live, slots, sub, calls>>

EmitSend(s) ==
  /\ s \in todo
  /\ todo' = todo \ {s}
  /\ UNCHANGED <<phase, mu, loop, nb, conn, live, slots, sub, calls>>

EmitUnlock(l) ==
  /\ loop[l] = "sending" /\ todo = {}
  /\ mu' = Free
  /\ loop' = [loop EXCEPT ![l] = "idle"]
  /\ UNCHANGED <<phase, nb, conn, live, slots, sub, todo, calls>>

-----------------------------------------------------------------------------
(* Stop.                                                                   *)

FaultyNoneCounted ==
  /\ \A l \in Loops : loop[l] = "gone"
  /\ \A c \in Conn : conn[c].pc = "none" \/ conn[c].kind = "user"

\* The WaitGroup is at zero: it counts all but what still runs in the caller
\* of Dial.
NoneCounted ==
  /\ \A l \in Loops : loop[l] = "gone"
  /\ \A c \in Conn : conn[c].pc = "none" \/ (conn[c].kind = "user" /\ conn[c].pc \notin {"session", "ended"})

\* Stop cancels the contexts, and closes the listener before it takes mu.
Cancel ==
  /\ phase = "running"
  /\ phase' = "cancelled"
  /\ UNCHANGED <<mu, loop, nb, conn, live, slots, sub, todo, calls>>

\* Under mu it closes the live links.
CloseLive ==
  /\ phase = "cancelled" /\ mu = Free
  /\ phase' = "waiting"
  /\ conn' = [c \in Conn |-> IF c = live THEN [conn[c] EXCEPT !.open = FALSE] ELSE conn[c]]
  /\ UNCHANGED <<mu, loop, nb, live, slots, sub, todo, calls>>

\* wg.Wait returns, and so does Stop.
Stopped ==
  /\ phase = "waiting" /\ NoneCounted
  /\ phase' = "stopped"
  /\ UNCHANGED <<mu, loop, nb, conn, live, slots, sub, todo, calls>>

-----------------------------------------------------------------------------
(* The node by itself.                                                     *)

Step ==
  \/ \E l \in Loops : LoopEnds(l) \/ EmitLock(l) \/ EmitUnlock(l)
  \/ \E b \in BOOLEAN : Browse(b) \/ DialTick(b) \/ DialScan(b)
  \/ \E c \in Conn :
       \/ Accept(c) \/ Spawn(c) \/ Dial(c) \/ Register(c) \/ RunSession(c)
       \/ SessionEnds(c) \/ Unregister(c) \/ dialDone(c)
       \/ \E b \in BOOLEAN : Dialled(c, b)
       \/ \E r \in {"register", "refused", "self"} : Handshake(c, r)
  \/ \E s \in Sub : Subscribe(s) \/ Unsubscribe(s) \/ EmitSend(s)
  \/ CloseLive \/ Stopped

Next == Start \/ Cancel \/ Step

Spec == NodeInit /\ [][Next]_nodeVars

\* The goroutines run, a select that is ready both ways does not for ever
\* choose the same one, and a handshake has a deadline.  Nothing makes a peer
\* call or hang up, the user dial or subscribe, or Stop be called.
Fairness ==
  /\ \A l \in Loops : SF_nodeVars(LoopEnds(l)) /\ WF_nodeVars(EmitLock(l) \/ EmitUnlock(l))
  /\ WF_nodeVars(\E s \in Sub : EmitSend(s))
  /\ WF_nodeVars(\E b \in BOOLEAN : DialScan(b))
  /\ WF_nodeVars(\E c \in Conn : Spawn(c))
  /\ \A c \in Conn :
       WF_nodeVars(\/ \E r \in {"register", "refused", "self"} : Handshake(c, r)
                   \/ MustEnd(c) /\ SessionEnds(c)
                   \/ Register(c) \/ RunSession(c) \/ Unregister(c) \/ dialDone(c)
                   \/ \E b \in BOOLEAN : Dialled(c, b))
  /\ WF_nodeVars(CloseLive) /\ WF_nodeVars(Stopped)

FairSpec == Spec /\ Fairness

-----------------------------------------------------------------------------
(* Properties.                                                             *)

\* Types.  A loop that has ended starts again only with the node, and mu is
\* held across steps by the scan of dialLoop or by an emit.
TypeOK ==
  /\ phase \in {"off", "running", "cancelled", "waiting", "stopped"}
  /\ mu \in Loops \cup {Free}
  /\ loop \in [Loops -> {"idle", "emit", "sending", "scan", "logf", "spawn", "gone"}]
  /\ nb \in [up : BOOLEAN, dialing : BOOLEAN]
  /\ conn \in [Conn -> ConnState]
  /\ live \in Conn \cup {NoConn}
  /\ slots \in 0 .. NSlot
  /\ sub \subseteq Sub /\ todo \subseteq Sub
  /\ calls \in 0 .. MaxDial

\* The slots taken are those of the incoming handshakes in progress: none
\* leaks when a handshake fails and none is given back twice, however
\* establish returns, so the node never stops answering.
SlotsAreHandshakes ==
  slots = Cardinality({c \in Conn : conn[c].kind = "in" /\ conn[c].pc = "handshake"})

\* The neighbour is marked as being dialled exactly while one goroutine does,
\* from the scan that decides it to the end of the session: it is never
\* dialled twice at the same time and never left marked for good.
OneDial ==
  LET dials == {c \in Conn : conn[c].kind = "out" /\ conn[c].pc # "none"} IN
  Cardinality(dials) + (IF loop["dial"] = "spawn" THEN 1 ELSE 0) = IF nb.dialing THEN 1 ELSE 0

\* An emit in progress has only open channels left to send to: a subscriber
\* that leaves in the middle of it does not have its channel closed under a
\* send, which would end the program.
NoSendOnClosed == todo \subseteq sub

\* The live link is one that is being served or about to be, and an open
\* session is the live one, whichever of the old and the new session ends
\* first.  A link left behind would keep the neighbour from being dialled; a
\* session that is not live would get no messages and not be closed by Stop.
LiveIsServed ==
  /\ live # NoConn => conn[live].pc \in {"established", "session", "ended"}
  /\ \A c \in Conn : conn[c].open /\ conn[c].pc \in {"established", "session"} => live = c

\* ARCHITECTURE.md "All goroutines start through Node.goRun, so Stop() waits
\* for every one of them": once Stop has returned no loop runs, no connection
\* that was accepted or dialled by the node is left, and no session that was
\* running when Stop was called or began while it waited.  What it does not
\* wait for is a Dial the user called that is not yet through with establish,
\* and the session that Dial then starts, late, in a goroutine nobody counts.
QuietAfterStop ==
  phase = "stopped" =>
    /\ \A l \in Loops : loop[l] = "gone"
    /\ \A c \in Conn : conn[c].pc # "none" => conn[c].kind = "user"
    /\ \A c \in Conn : conn[c].pc \in {"session", "ended"} => conn[c].late

\* Stop returns, unless dialLoop has found an expired neighbour, and so waits
\* for mu while it holds it, or a session of Dial goes on: its context is not
\* the node's.  These two are the only ways for Stop to hang.
StopReturns ==
  ([](loop["dial"] # "logf") /\ <>[](\A c \in Conn : conn[c].kind = "user" => conn[c].pc # "session"))
    => (phase = "cancelled" ~> phase = "stopped")

=============================================================================

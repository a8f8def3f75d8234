----------------------------- MODULE Node_proofs -----------------------------
(***************************************************************************)
(* Proofs about module Node, for any number of connections, handshake      *)
(* slots, subscribers and calls of Dial.                                   *)
(***************************************************************************)
EXTENDS Node, FiniteSetTheorems, TLAPS

(* An emit that is under way holds mu, which keeps its channels open; and  *)
(* only a connection that dialLoop started runs dial and dialDone, which   *)
(* makes the neighbour's mark count them.                                  *)

MuOK ==
  /\ \A l \in Loops : loop[l] = "sending" => mu = l
  /\ loop["dial"] \in {"scan", "logf"} => mu = "dial" /\ todo = {}
  /\ mu = Free => todo = {}

NotStarted == phase = "off" => \A l \in Loops : loop[l] = "gone"

KindOK == \A c \in Conn : conn[c].pc \in {"dial", "dialDone"} => conn[c].kind = "out"

Dials  == {c \in Conn : conn[c].kind = "out" /\ conn[c].pc # "none"}
Shakes == {c \in Conn : conn[c].kind = "in" /\ conn[c].pc = "handshake"}

\* The part about the loops and the lock, the part about the connections, and
\* the two counts.
LoopInv == MuOK /\ NotStarted /\ NoSendOnClosed
ConnInv == KindOK /\ LiveIsServed /\ QuietAfterStop
Counts  == SlotsAreHandshakes /\ OneDial
Inv     == TypeOK /\ LoopInv /\ ConnInv /\ Counts

\* The connections are finitely many, and so are those that are counted.
LEMMA Finite ==
  /\ IsFiniteSet(Conn)
  /\ IsFiniteSet(Dials) /\ Cardinality(Dials) \in Nat
  /\ IsFiniteSet(Shakes) /\ Cardinality(Shakes) \in Nat
<1>1. IsFiniteSet(Conn)
  BY NodeBounds, FS_Interval DEF Conn
<1>2. Dials \subseteq Conn /\ Shakes \subseteq Conn
  BY Zenon DEF Dials, Shakes
<1> QED
  BY <1>1, <1>2, FS_Subset, FS_CardinalityType, Zenon

\* What the counts say, in terms of the two sets.
LEMMA CountsAre ==
  /\ SlotsAreHandshakes <=> slots = Cardinality(Shakes)
  /\ OneDial <=> Cardinality(Dials) + (IF loop["dial"] = "spawn" THEN 1 ELSE 0) = IF nb.dialing THEN 1 ELSE 0
BY Zenon DEF SlotsAreHandshakes, OneDial, Shakes, Dials

\* Connection c goes on as v.
LEMMA ConnTo ==
  ASSUME TypeOK, NEW c \in Conn, NEW v \in ConnState, conn' = [conn EXCEPT ![c] = v]
  PROVE  /\ conn' \in [Conn -> ConnState]
         /\ conn'[c] = v /\ \A d \in Conn \ {c} : conn'[d] = conn[d]
BY Zenon DEF TypeOK

\* A step of connection c that makes no handshake and no dial of it, and ends
\* none, leaves the counts.
LEMMA CountsSame ==
  ASSUME Counts, UNCHANGED <<slots, nb, loop>>,
         \A d \in Conn : /\ (conn'[d].kind = "out" /\ conn'[d].pc # "none")
                              <=> (conn[d].kind = "out" /\ conn[d].pc # "none")
                         /\ (conn'[d].kind = "in" /\ conn'[d].pc = "handshake")
                              <=> (conn[d].kind = "in" /\ conn[d].pc = "handshake")
  PROVE  Counts'
<1>1. Dials' = Dials /\ Shakes' = Shakes
  BY Zenon DEF Dials, Shakes
<1>2. Cardinality(Dials)' = Cardinality(Dials) /\ Cardinality(Shakes)' = Cardinality(Shakes)
  BY <1>1, Zenon
<1> QED
  BY <1>2, CountsAre, Zenon DEF Counts, SlotsAreHandshakes, OneDial, Shakes, Dials

\* The steps that leave the connections alone keep what is said of them, if
\* a loop does not come back after Stop.
LEMMA ConnSame ==
  ASSUME ConnInv, UNCHANGED <<conn, live>>,
         phase' = "stopped" => \/ phase = "stopped" /\ \A l \in Loops : loop[l] = "gone" => loop'[l] = "gone"
                               \/ NoneCounted /\ loop' = loop
  PROVE  ConnInv'
<1>1. KindOK' /\ LiveIsServed'
  BY Zenon DEF ConnInv, KindOK, LiveIsServed
<1>2. QuietAfterStop'
  BY Zenon DEF ConnInv, QuietAfterStop, NoneCounted
<1> QED
  BY <1>1, <1>2, Zenon DEF ConnInv

\* The same for the counts, if the mark and the decision to dial stay.
LEMMA CountsKeep ==
  ASSUME Counts, UNCHANGED <<conn, slots>>, nb'.dialing = nb.dialing,
         (loop'["dial"] = "spawn") <=> (loop["dial"] = "spawn")
  PROVE  Counts'
<1>1. SlotsAreHandshakes'
  BY Zenon DEF Counts, SlotsAreHandshakes
<1>2. OneDial'
  BY Zenon DEF Counts, OneDial
<1> QED
  BY <1>1, <1>2, Zenon DEF Counts

\* Every step of the loops, the subscribers, Start and Stop that leaves the
\* connections alone preserves Inv.
LEMMA LoopStep ==
  ASSUME Inv,
         \/ Start \/ Cancel \/ Stopped
         \/ \E l \in Loops : LoopEnds(l) \/ EmitLock(l) \/ EmitUnlock(l)
         \/ \E b \in BOOLEAN : Browse(b) \/ DialTick(b)
         \/ \E s \in Sub : Subscribe(s) \/ Unsubscribe(s) \/ EmitSend(s)
  PROVE  Inv'
<1>0. /\ loop \in [Loops -> {"idle", "emit", "sending", "scan", "logf", "spawn", "gone"}]
      /\ nb \in [up : BOOLEAN, dialing : BOOLEAN] /\ "dial" \in Loops /\ "browse" \in Loops
      /\ sub \subseteq Sub /\ todo \subseteq Sub /\ mu \in Loops \cup {Free} /\ Free \notin Loops
  BY Zenon DEF Inv, TypeOK, Loops, Free
<1>1. CASE Start
  <2>1. /\ phase = "off" /\ phase' = "running" /\ loop' = [l \in Loops |-> "idle"]
        /\ UNCHANGED <<mu, nb, conn, live, slots, sub, todo, calls>>
    BY <1>1, Zenon DEF Start
  <2>2. TypeOK'
    BY <2>1, Zenon DEF Inv, TypeOK
  <2>3. LoopInv'
    BY <1>0, <2>1, Zenon DEF Inv, LoopInv, MuOK, NotStarted, NoSendOnClosed
  <2>4. ConnInv'
    BY <2>1, ConnSame, Zenon DEF Inv
  <2>5. loop["dial"] = "gone" /\ loop'["dial"] = "idle"
    BY <1>0, <2>1, Zenon DEF Inv, LoopInv, NotStarted
  <2>6. Counts'
    BY <2>1, <2>5, CountsKeep, Zenon DEF Inv
  <2> QED
    BY <2>2, <2>3, <2>4, <2>6, Zenon DEF Inv
<1>2. CASE Cancel \/ Stopped
  <2>1. /\ phase # "off" /\ phase' \in {"cancelled", "stopped"} /\ (phase' = "stopped" => NoneCounted)
        /\ UNCHANGED <<mu, loop, nb, conn, live, slots, sub, todo, calls>>
    BY <1>2, Zenon DEF Cancel, Stopped
  <2>2. TypeOK'
    BY <2>1, Zenon DEF Inv, TypeOK
  <2>3. LoopInv'
    BY <2>1, Zenon DEF Inv, LoopInv, MuOK, NotStarted, NoSendOnClosed
  <2>4. ConnInv'
    BY <2>1, ConnSame, Zenon DEF Inv
  <2>5. Counts'
    BY <2>1, CountsKeep, Zenon DEF Inv
  <2> QED
    BY <2>2, <2>3, <2>4, <2>5, Zenon DEF Inv
<1>3. ASSUME NEW l \in Loops, LoopEnds(l) PROVE Inv'
  <2>1. /\ loop[l] = "idle" /\ loop' = [loop EXCEPT ![l] = "gone"]
        /\ UNCHANGED <<phase, mu, nb, conn, live, slots, sub, todo, calls>>
    BY <1>3, Zenon DEF LoopEnds
  <2>2. \A k \in Loops : loop'[k] = IF k = l THEN "gone" ELSE loop[k]
    BY <1>0, <2>1, Zenon
  <2>3. TypeOK'
    BY <2>1, Zenon DEF Inv, TypeOK
  <2>4. LoopInv'
    BY <1>0, <2>1, <2>2, Zenon DEF Inv, LoopInv, MuOK, NotStarted, NoSendOnClosed
  <2>5. ConnInv'
    BY <2>1, <2>2, ConnSame, Zenon DEF Inv
  <2>6. Counts'
    BY <1>0, <2>1, <2>2, CountsKeep, Zenon DEF Inv
  <2> QED
    BY <2>3, <2>4, <2>5, <2>6, Zenon DEF Inv
<1>4. ASSUME NEW l \in Loops, EmitLock(l) PROVE Inv'
  <2>1. /\ loop[l] = "emit" /\ mu = Free /\ mu' = l /\ todo' = sub /\ loop' = [loop EXCEPT ![l] = "sending"]
        /\ UNCHANGED <<phase, nb, conn, live, slots, sub, calls>>
    BY <1>4, Zenon DEF EmitLock
  <2>2. \A k \in Loops : loop'[k] = IF k = l THEN "sending" ELSE loop[k]
    BY <1>0, <2>1, Zenon
  <2>3. TypeOK'
    BY <2>1, Zenon DEF Inv, TypeOK
  <2>4. \A k \in Loops : loop[k] # "sending" /\ loop["dial"] \notin {"scan", "logf"}
    BY <1>0, <2>1, Zenon DEF Inv, LoopInv, MuOK
  <2>5. LoopInv'
    BY <1>0, <2>1, <2>2, <2>4, Zenon DEF Inv, LoopInv, MuOK, NotStarted, NoSendOnClosed
  <2>6. ConnInv'
    BY <2>1, <2>2, ConnSame, Zenon DEF Inv
  <2>7. Counts'
    BY <1>0, <2>1, <2>2, CountsKeep, Zenon DEF Inv
  <2> QED
    BY <2>3, <2>5, <2>6, <2>7, Zenon DEF Inv
<1>5. ASSUME NEW l \in Loops, EmitUnlock(l) PROVE Inv'
  <2>1. /\ loop[l] = "sending" /\ todo = {} /\ mu' = Free /\ loop' = [loop EXCEPT ![l] = "idle"]
        /\ UNCHANGED <<phase, nb, conn, live, slots, sub, todo, calls>>
    BY <1>5, Zenon DEF EmitUnlock
  <2>2. \A k \in Loops : loop'[k] = IF k = l THEN "idle" ELSE loop[k]
    BY <1>0, <2>1, Zenon
  <2>3. TypeOK'
    BY <2>1, Zenon DEF Inv, TypeOK
  <2>4. mu = l /\ (\A k \in Loops \ {l} : loop[k] # "sending") /\ loop["dial"] \notin {"scan", "logf"}
    BY <1>0, <2>1, Zenon DEF Inv, LoopInv, MuOK
  <2>5. LoopInv'
    BY <1>0, <2>1, <2>2, <2>4, Zenon DEF Inv, LoopInv, MuOK, NotStarted, NoSendOnClosed
  <2>6. ConnInv'
    BY <2>1, <2>2, ConnSame, Zenon DEF Inv
  <2>7. Counts'
    BY <1>0, <2>1, <2>2, CountsKeep, Zenon DEF Inv
  <2> QED
    BY <2>3, <2>5, <2>6, <2>7, Zenon DEF Inv
<1>6. ASSUME NEW b \in BOOLEAN, Browse(b) PROVE Inv'
  <2>1. /\ loop["browse"] = "idle" /\ nb' = [nb EXCEPT !.up = b] /\ loop' = [loop EXCEPT !["browse"] = "emit"]
        /\ UNCHANGED <<phase, mu, conn, live, slots, sub, todo, calls>>
    BY <1>6, Zenon DEF Browse
  <2>2. \A k \in Loops : loop'[k] = IF k = "browse" THEN "emit" ELSE loop[k]
    BY <1>0, <2>1, Zenon
  <2>3. nb' \in [up : BOOLEAN, dialing : BOOLEAN] /\ nb'.dialing = nb.dialing
    BY <1>0, <2>1, Zenon
  <2>4. TypeOK'
    BY <2>1, <2>3, Zenon DEF Inv, TypeOK
  <2>5. LoopInv'
    BY <1>0, <2>1, <2>2, Zenon DEF Inv, LoopInv, MuOK, NotStarted, NoSendOnClosed
  <2>6. ConnInv'
    BY <2>1, <2>2, ConnSame, Zenon DEF Inv
  <2>7. Counts'
    BY <1>0, <2>1, <2>2, <2>3, CountsKeep, Zenon DEF Inv
  <2> QED
    BY <2>4, <2>5, <2>6, <2>7, Zenon DEF Inv
<1>7. ASSUME NEW b \in BOOLEAN, DialTick(b) PROVE Inv'
  <2> DEFINE u == nb.up /\ ~b
             p == IF b THEN "logf" ELSE "scan"
  <2>1. /\ loop["dial"] = "idle" /\ mu = Free /\ mu' = "dial" /\ nb' = [nb EXCEPT !.up = u]
        /\ loop' = [loop EXCEPT !["dial"] = p]
        /\ UNCHANGED <<phase, conn, live, slots, sub, todo, calls>>
    BY <1>7, Zenon DEF DialTick
  <2>2. u \in BOOLEAN /\ p \in {"logf", "scan"}
    BY Zenon
  <2> HIDE DEF u, p
  <2>3. \A k \in Loops : loop'[k] = IF k = "dial" THEN p ELSE loop[k]
    BY <1>0, <2>1, Zenon
  <2>4. nb' \in [up : BOOLEAN, dialing : BOOLEAN] /\ nb'.dialing = nb.dialing
    BY <1>0, <2>1, <2>2, Zenon
  <2>5. TypeOK'
    BY <1>0, <2>1, <2>2, <2>4, Zenon DEF Inv, TypeOK
  <2>6. todo = {} /\ \A k \in Loops : loop[k] # "sending"
    BY <1>0, <2>1, Zenon DEF Inv, LoopInv, MuOK
  <2>7. LoopInv'
    BY <1>0, <2>1, <2>2, <2>3, <2>6, Zenon DEF Inv, LoopInv, MuOK, NotStarted, NoSendOnClosed
  <2>8. ConnInv'
    BY <1>0, <2>1, <2>3, ConnSame, Zenon DEF Inv
  <2>9. Counts'
    BY <1>0, <2>1, <2>2, <2>3, <2>4, CountsKeep, Zenon DEF Inv
  <2> QED
    BY <2>5, <2>7, <2>8, <2>9, Zenon DEF Inv
<1>8. ASSUME NEW s \in Sub, Subscribe(s) \/ Unsubscribe(s) \/ EmitSend(s) PROVE Inv'
  <2>1. UNCHANGED <<phase, mu, loop, nb, conn, live, slots, calls>>
    BY <1>8, Zenon DEF Subscribe, Unsubscribe, EmitSend
  <2>2. \/ sub' = sub \cup {s} /\ todo' = todo
        \/ mu = Free /\ sub' = sub \ {s} /\ todo' = todo
        \/ sub' = sub /\ todo' = todo \ {s}
    BY <1>8, Zenon DEF Subscribe, Unsubscribe, EmitSend
  <2>3. TypeOK'
    BY <2>1, <2>2, Zenon DEF Inv, TypeOK
  <2>4. LoopInv'
    BY <2>1, <2>2, Zenon DEF Inv, LoopInv, MuOK, NotStarted, NoSendOnClosed
  <2>5. ConnInv'
    BY <2>1, ConnSame, Zenon DEF Inv
  <2>6. Counts'
    BY <2>1, CountsKeep, Zenon DEF Inv
  <2> QED
    BY <2>3, <2>4, <2>5, <2>6, Zenon DEF Inv
<1> QED
  BY <1>1, <1>2, <1>3, <1>4, <1>5, <1>6, <1>7, <1>8, Zenon

\* The scan of dialLoop preserves Inv: it marks the neighbour when it decides
\* to dial it and at no other time.
LEMMA ScanStep ==
  ASSUME Inv, NEW due \in BOOLEAN, DialScan(due)
  PROVE  Inv'
<1> DEFINE W == nb.up /\ ~nb.dialing /\ due /\ live = NoConn
<1>0. /\ loop \in [Loops -> {"idle", "emit", "sending", "scan", "logf", "spawn", "gone"}]
      /\ nb \in [up : BOOLEAN, dialing : BOOLEAN] /\ "dial" \in Loops
      /\ nb.up \in BOOLEAN /\ nb.dialing \in BOOLEAN
  BY Zenon DEF Inv, TypeOK, Loops
<1>1. /\ loop["dial"] = "scan" /\ mu' = Free /\ UNCHANGED <<phase, conn, live, slots, sub, todo, calls>>
      /\ nb' = [nb EXCEPT !.dialing = nb.dialing \/ W]
      /\ loop' = [loop EXCEPT !["dial"] = IF W THEN "spawn" ELSE "idle"]
  BY Zenon DEF DialScan
<1>2. mu = "dial" /\ todo = {} /\ \A k \in Loops \ {"dial"} : loop[k] # "sending"
  BY <1>0, <1>1, Zenon DEF Inv, LoopInv, MuOK
<1>3. ASSUME NEW d \in BOOLEAN, NEW p \in {"spawn", "idle"},
             nb' = [nb EXCEPT !.dialing = d], loop' = [loop EXCEPT !["dial"] = p],
             \/ ~nb.dialing /\ d /\ p = "spawn"
             \/ d = nb.dialing /\ p = "idle"
      PROVE  Inv'
  <2>1. nb' \in [up : BOOLEAN, dialing : BOOLEAN] /\ nb'.dialing = d
    BY <1>0, <1>3, Zenon
  <2>2. \A k \in Loops : loop'[k] = IF k = "dial" THEN p ELSE loop[k]
    BY <1>0, <1>3, Zenon
  <2>3. TypeOK'
    BY <1>0, <1>1, <1>3, <2>1, Zenon DEF Inv, TypeOK
  <2>4. LoopInv'
    BY <1>0, <1>1, <1>2, <2>2, Zenon DEF Inv, LoopInv, MuOK, NotStarted, NoSendOnClosed
  <2>5. ConnInv'
    BY <1>0, <1>1, <2>2, ConnSame, Zenon DEF Inv
  <2>6. Counts'
    <3>1. CASE d = nb.dialing /\ p = "idle"
      BY <1>0, <1>1, <2>1, <2>2, <3>1, CountsKeep, Zenon DEF Inv
    <3>2. CASE ~nb.dialing /\ d /\ p = "spawn"
      <4>1. SlotsAreHandshakes'
        BY <1>1, Zenon DEF Inv, Counts, SlotsAreHandshakes
      <4>2. Cardinality(Dials) = 0
        BY <1>1, <3>2, CountsAre, Finite DEF Inv, Counts
      <4>3. OneDial'
        BY <1>0, <1>1, <2>1, <2>2, <3>2, <4>2 DEF OneDial, Dials
      <4> QED
        BY <4>1, <4>3, Zenon DEF Counts
    <3> QED
      BY <1>3, <3>1, <3>2, Zenon
  <2> QED
    BY <2>3, <2>4, <2>5, <2>6, Zenon DEF Inv
<1>4. CASE W
  <2>1. (nb.dialing \/ W) = TRUE /\ ~nb.dialing
    BY <1>4, Zenon
  <2>2. nb' = [nb EXCEPT !.dialing = TRUE]
    BY <1>1, <2>1, Zenon
  <2>3. loop' = [loop EXCEPT !["dial"] = "spawn"]
    BY <1>1, <1>4, Zenon
  <2> QED
    BY <1>3, <2>1, <2>2, <2>3, Zenon
<1>5. CASE ~W
  <2>1. (nb.dialing \/ W) = nb.dialing
    BY <1>0, <1>5, Zenon
  <2>2. nb' = [nb EXCEPT !.dialing = nb.dialing]
    BY <1>1, <2>1, Zenon
  <2>3. loop' = [loop EXCEPT !["dial"] = "idle"]
    BY <1>1, <1>5, Zenon
  <2> QED
    BY <1>0, <1>3, <2>2, <2>3, Zenon
<1> QED
  BY <1>4, <1>5, Zenon

\* Connection c goes on as v: what has to be shown of v.
LEMMA ConnGoesOn ==
  ASSUME Inv, NEW c \in Conn, NEW v \in ConnState, conn' = [conn EXCEPT ![c] = v],
         UNCHANGED <<phase, mu, loop, nb, slots, sub, todo>>, calls' \in 0 .. MaxDial,
         live' \in Conn \cup {NoConn},
         v.pc \in {"dial", "dialDone"} => v.kind = "out",
         phase = "stopped" /\ v.pc # "none" => v.kind = "user",
         phase = "stopped" /\ v.pc \in {"session", "ended"} => v.late,
         (v.kind = "out" /\ v.pc # "none") <=> (conn[c].kind = "out" /\ conn[c].pc # "none"),
         (v.kind = "in" /\ v.pc = "handshake") <=> (conn[c].kind = "in" /\ conn[c].pc = "handshake"),
         LiveIsServed'
  PROVE  Inv'
<1>1. /\ conn' \in [Conn -> ConnState]
      /\ conn'[c] = v /\ \A d \in Conn \ {c} : conn'[d] = conn[d]
  BY ConnTo, Zenon DEF Inv
<1>2. TypeOK'
  BY <1>1, Zenon DEF Inv, TypeOK
<1>3. LoopInv'
  BY Zenon DEF Inv, LoopInv, MuOK, NotStarted, NoSendOnClosed
<1>4. ConnInv'
  BY <1>1, Zenon DEF Inv, ConnInv, KindOK, QuietAfterStop
<1>5. Counts'
  <2>1. \A d \in Conn : /\ (conn'[d].kind = "out" /\ conn'[d].pc # "none")
                             <=> (conn[d].kind = "out" /\ conn[d].pc # "none")
                        /\ (conn'[d].kind = "in" /\ conn'[d].pc = "handshake")
                             <=> (conn[d].kind = "in" /\ conn[d].pc = "handshake")
    BY <1>1, Zenon
  <2> QED
    BY <2>1, CountsSame, Zenon DEF Inv
<1> QED
  BY <1>2, <1>3, <1>4, <1>5, Zenon DEF Inv

\* The live link is another one, or it is c and v still is served; and c does
\* not become an open session.
LEMMA LiveStays ==
  ASSUME Inv, NEW c \in Conn, NEW v \in ConnState, conn' = [conn EXCEPT ![c] = v], live' = live,
         live = c => v.pc \in {"established", "session", "ended"},
         v.open /\ v.pc \in {"established", "session"} => live = c
  PROVE  LiveIsServed'
<1>1. conn'[c] = v /\ \A d \in Conn \ {c} : conn'[d] = conn[d]
  BY ConnTo, Zenon DEF Inv
<1>2. live \in Conn \cup {NoConn} /\ NoConn \notin Conn
  BY DEF Inv, TypeOK, Conn, NoConn
<1> QED
  BY <1>1, <1>2, Zenon DEF Inv, ConnInv, LiveIsServed

\* The steps of a connection that neither begin nor end a handshake of an
\* incoming one or a dial preserve Inv.
LEMMA QuietConnStep ==
  ASSUME Inv, NEW c \in Conn,
         \/ Dial(c) \/ RunSession(c) \/ SessionEnds(c) \/ Unregister(c)
         \/ \E b \in BOOLEAN : Dialled(c, b)
  PROVE  Inv'
<1>0. /\ conn \in [Conn -> ConnState] /\ conn[c] \in ConnState /\ live \in Conn \cup {NoConn}
      /\ calls \in 0 .. MaxDial /\ NoConn \notin Conn
  BY DEF Inv, TypeOK, Conn, NoConn
<1>1. /\ live # NoConn => conn[live].pc \in {"established", "session", "ended"}
      /\ \A d \in Conn : conn[d].open /\ conn[d].pc \in {"established", "session"} => live = d
      /\ conn[c].pc \in {"dial", "dialDone"} => conn[c].kind = "out"
      /\ phase = "stopped" /\ conn[c].pc # "none" => conn[c].kind = "user"
      /\ phase = "stopped" /\ conn[c].pc \in {"session", "ended"} => conn[c].late
  BY Zenon DEF Inv, ConnInv, LiveIsServed, KindOK, QuietAfterStop
<1>2. CASE Dial(c)
  <2> DEFINE v == [pc |-> "handshake", kind |-> "user", open |-> TRUE, late |-> FALSE]
  <2>1. /\ conn[c].pc = "none" /\ conn' = [conn EXCEPT ![c] = v] /\ calls < MaxDial /\ calls' = calls + 1
        /\ UNCHANGED <<phase, mu, loop, nb, live, slots, sub, todo>>
    BY <1>2, Zenon DEF Dial, Begin, Fresh
  <2>2. v \in ConnState /\ v.pc = "handshake" /\ v.kind = "user"
    BY Zenon DEF ConnState
  <2> HIDE DEF v
  <2>3. calls' \in 0 .. MaxDial
    BY <1>0, <2>1, NodeBounds
  <2>4. LiveIsServed'
    BY <1>0, <1>1, <2>1, <2>2, LiveStays, Zenon
  <2> QED
    BY <1>0, <2>1, <2>2, <2>3, <2>4, ConnGoesOn, Zenon
<1>3. CASE RunSession(c)
  <2> DEFINE v == [conn[c] EXCEPT !.pc = "session", !.late = phase = "stopped"]
  <2>1. /\ conn[c].pc = "established" /\ conn' = [conn EXCEPT ![c] = v]
        /\ UNCHANGED <<phase, mu, loop, nb, live, slots, sub, todo, calls>>
    BY <1>3, Zenon DEF RunSession
  <2>2. v \in ConnState /\ v.pc = "session" /\ v.kind = conn[c].kind /\ v.open = conn[c].open
        /\ (phase = "stopped" => v.late)
    BY <1>0, Zenon DEF ConnState
  <2> HIDE DEF v
  <2>3. LiveIsServed'
    BY <1>0, <1>1, <2>1, <2>2, LiveStays, Zenon
  <2> QED
    BY <1>0, <1>1, <2>1, <2>2, <2>3, ConnGoesOn, Zenon
<1>4. CASE SessionEnds(c)
  <2> DEFINE v == [conn[c] EXCEPT !.pc = "ended", !.open = FALSE]
  <2>1. /\ conn[c].pc = "session" /\ conn' = [conn EXCEPT ![c] = v]
        /\ UNCHANGED <<phase, mu, loop, nb, live, slots, sub, todo, calls>>
    BY <1>4, Zenon DEF SessionEnds
  <2>2. v \in ConnState /\ v.pc = "ended" /\ v.kind = conn[c].kind /\ v.late = conn[c].late
    BY <1>0, Zenon DEF ConnState
  <2> HIDE DEF v
  <2>3. LiveIsServed'
    BY <1>0, <1>1, <2>1, <2>2, LiveStays, Zenon
  <2> QED
    BY <1>0, <1>1, <2>1, <2>2, <2>3, ConnGoesOn, Zenon
<1>5. CASE Unregister(c)
  <2> DEFINE v == Over(c)
  <2>1. /\ conn[c].pc \in {"ended", "refused"} /\ conn' = [conn EXCEPT ![c] = v]
        /\ live' = IF live = c THEN NoConn ELSE live
        /\ UNCHANGED <<phase, mu, loop, nb, slots, sub, todo, calls>>
    BY <1>5, Zenon DEF Unregister
  <2>2. /\ v \in ConnState /\ ~v.open
        /\ conn[c].kind = "out" => v.kind = "out" /\ v.pc = "dialDone"
        /\ conn[c].kind # "out" => v.kind = "in" /\ v.pc = "none"
    BY <1>0, Zenon DEF Over, Closed, ConnState
  <2> HIDE DEF v
  <2>3. conn'[c] = v /\ \A d \in Conn \ {c} : conn'[d] = conn[d]
    BY <2>1, <2>2, ConnTo, Zenon DEF Inv
  <2>4. LiveIsServed'
    BY <1>0, <1>1, <2>1, <2>2, <2>3, Zenon DEF LiveIsServed
  <2> QED
    BY <1>0, <1>1, <2>1, <2>2, <2>4, ConnGoesOn, Zenon
<1>6. ASSUME NEW b \in BOOLEAN, Dialled(c, b) PROVE Inv'
  <2> DEFINE p == IF b THEN "handshake" ELSE "dialDone"
             v == [conn[c] EXCEPT !.pc = p, !.open = b]
  <2>1. /\ conn[c].pc = "dial" /\ conn' = [conn EXCEPT ![c] = v]
        /\ UNCHANGED <<phase, mu, loop, nb, live, slots, sub, todo, calls>>
    BY <1>0, <1>6, Zenon DEF Dialled
  <2>2. p \in {"handshake", "dialDone"}
    BY Zenon
  <2> HIDE DEF p
  <2>3. v \in ConnState /\ v.pc = p /\ v.kind = conn[c].kind
    BY <1>0, <2>2, Zenon DEF ConnState
  <2> HIDE DEF v
  <2>4. LiveIsServed'
    BY <1>0, <1>1, <2>1, <2>2, <2>3, LiveStays, Zenon
  <2> QED
    BY <1>0, <1>1, <2>1, <2>2, <2>3, <2>4, ConnGoesOn, Zenon
<1> QED
  BY <1>2, <1>3, <1>4, <1>5, <1>6, Zenon

\* Registering a link, which closes the one it replaces, and closing the live
\* one in Stop preserve Inv.
LEMMA LinkStep ==
  ASSUME Inv, (\E c \in Conn : Register(c)) \/ CloseLive
  PROVE  Inv'
<1>0. /\ conn \in [Conn -> ConnState] /\ live \in Conn \cup {NoConn} /\ NoConn \notin Conn
      /\ \A d \in Conn : conn[d] \in ConnState
  BY DEF Inv, TypeOK, Conn, NoConn
<1>1. /\ live # NoConn => conn[live].pc \in {"established", "session", "ended"}
      /\ \A d \in Conn : conn[d].open /\ conn[d].pc \in {"established", "session"} => live = d
  BY Zenon DEF Inv, ConnInv, LiveIsServed
<1>2. \A d \in Conn : LET w == [conn[d] EXCEPT !.open = FALSE] IN
                        w \in ConnState /\ w.pc = conn[d].pc /\ w.kind = conn[d].kind /\ ~w.open
                        /\ w.late = conn[d].late
  BY <1>0, Zenon DEF ConnState
<1>3. ASSUME NEW c \in Conn, Register(c) PROVE Inv'
  <2> DEFINE v == [conn[c] EXCEPT !.pc = "established"]
  <2>1. /\ conn[c].pc = "register" /\ live' = c
        /\ conn' = [d \in Conn |-> CASE d = c -> [conn[d] EXCEPT !.pc = "established"]
                                     [] d = live /\ d # c -> [conn[d] EXCEPT !.open = FALSE]
                                     [] OTHER -> conn[d]]
        /\ UNCHANGED <<phase, mu, loop, nb, slots, sub, todo, calls>>
    BY <1>3, Zenon DEF Register
  <2>2. /\ conn'[c] = v
        /\ live \in Conn \ {c} => conn'[live] = [conn[live] EXCEPT !.open = FALSE]
        /\ \A d \in Conn \ {c, live} : conn'[d] = conn[d]
    BY <2>1, Zenon
  <2>3. v \in ConnState /\ v.pc = "established" /\ v.kind = conn[c].kind
    BY <1>0, Zenon DEF ConnState
  <2> HIDE DEF v
  <2>4. \A d \in Conn : conn'[d] \in ConnState /\ conn'[d].kind = conn[d].kind
    <3> SUFFICES ASSUME NEW d \in Conn PROVE conn'[d] \in ConnState /\ conn'[d].kind = conn[d].kind
      BY Zenon
    <3>1. CASE d = c
      BY <2>2, <2>3, <3>1, Zenon
    <3>2. CASE d # c /\ d = live
      <4>1. conn'[d] = [conn[d] EXCEPT !.open = FALSE]
        BY <2>2, <3>2, Zenon
      <4> QED
        BY <1>2, <4>1, Zenon
    <3>3. CASE d # c /\ d # live
      BY <1>0, <2>2, <3>3, Zenon
    <3> QED
      BY <3>1, <3>2, <3>3, Zenon
  <2>5. \A d \in Conn \ {c} : conn'[d].pc = conn[d].pc /\ (conn'[d].open => conn[d].open /\ d # live)
    BY <1>0, <1>2, <2>2, Zenon
  <2>6. conn' \in [Conn -> ConnState]
    <3>1. DOMAIN conn' = Conn /\ conn' = [d \in DOMAIN conn' |-> conn'[d]]
      BY <2>1, Zenon
    <3> QED
      BY <2>4, <3>1, Zenon
  <2>7. TypeOK'
    BY <2>1, <2>6, Zenon DEF Inv, TypeOK
  <2>8. LoopInv'
    BY <2>1, Zenon DEF Inv, LoopInv, MuOK, NotStarted, NoSendOnClosed
  <2>9. LiveIsServed'
    BY <1>0, <1>1, <2>1, <2>2, <2>3, <2>5 DEF LiveIsServed
  <2>10. ConnInv'
    BY <2>1, <2>2, <2>3, <2>4, <2>5, <2>9 DEF Inv, ConnInv, KindOK, QuietAfterStop
  <2>11. \A d \in Conn : /\ (conn'[d].kind = "out" /\ conn'[d].pc # "none")
                              <=> (conn[d].kind = "out" /\ conn[d].pc # "none")
                         /\ (conn'[d].kind = "in" /\ conn'[d].pc = "handshake")
                              <=> (conn[d].kind = "in" /\ conn[d].pc = "handshake")
    BY <2>1, <2>2, <2>3, <2>4, <2>5, Zenon
  <2>12. Counts'
    BY <2>1, <2>11, CountsSame, Zenon DEF Inv
  <2> QED
    BY <2>7, <2>8, <2>10, <2>12, Zenon DEF Inv
<1>4. CASE CloseLive
  <2>1. /\ phase = "cancelled" /\ phase' = "waiting"
        /\ conn' = [d \in Conn |-> IF d = live THEN [conn[d] EXCEPT !.open = FALSE] ELSE conn[d]]
        /\ UNCHANGED <<mu, loop, nb, live, slots, sub, todo, calls>>
    BY <1>4, Zenon DEF CloseLive
  <2>2. \A d \in Conn : /\ conn'[d] \in ConnState /\ conn'[d].kind = conn[d].kind
                        /\ conn'[d].pc = conn[d].pc /\ (conn'[d].open => conn[d].open)
    BY <1>0, <1>2, <2>1, Zenon
  <2>3. conn' \in [Conn -> ConnState]
    <3>1. DOMAIN conn' = Conn /\ conn' = [d \in DOMAIN conn' |-> conn'[d]]
      BY <2>1, Zenon
    <3> QED
      BY <2>2, <3>1, Zenon
  <2>4. TypeOK'
    BY <2>1, <2>3, Zenon DEF Inv, TypeOK
  <2>5. LoopInv'
    BY <2>1, Zenon DEF Inv, LoopInv, MuOK, NotStarted, NoSendOnClosed
  <2>6. LiveIsServed'
    BY <1>0, <1>1, <2>1, <2>2, Zenon DEF LiveIsServed
  <2>7. ConnInv'
    BY <2>1, <2>2, <2>6, Zenon DEF Inv, ConnInv, KindOK, QuietAfterStop
  <2>8. Counts'
    BY <2>1, <2>2, CountsSame, Zenon DEF Inv
  <2> QED
    BY <2>4, <2>5, <2>7, <2>8, Zenon DEF Inv
<1> QED
  BY <1>3, <1>4, Zenon

\* Accepting a connection preserves Inv: it takes a slot for it.
LEMMA AcceptStep ==
  ASSUME Inv, NEW c \in Conn, Accept(c)
  PROVE  Inv'
<1> DEFINE v == [pc |-> "handshake", kind |-> "in", open |-> TRUE, late |-> FALSE]
<1>1. /\ conn[c].pc = "none" /\ phase \in {"running", "cancelled"} /\ slots < NSlot
      /\ slots' = slots + 1 /\ conn' = [conn EXCEPT ![c] = v]
      /\ UNCHANGED <<phase, mu, loop, nb, live, sub, todo, calls>>
  BY Zenon DEF Accept, Fresh, Begin
<1>2. v \in ConnState /\ v.pc = "handshake" /\ v.kind = "in"
  BY Zenon DEF ConnState
<1> HIDE DEF v
<1>3. conn' \in [Conn -> ConnState] /\ conn'[c] = v /\ \A d \in Conn \ {c} : conn'[d] = conn[d]
  BY <1>1, <1>2, ConnTo, Zenon DEF Inv
<1>4. slots' \in 0 .. NSlot
  BY <1>1, NodeBounds DEF Inv, TypeOK
<1>5. TypeOK'
  BY <1>1, <1>3, <1>4, Zenon DEF Inv, TypeOK
<1>6. LoopInv'
  BY <1>1, Zenon DEF Inv, LoopInv, MuOK, NotStarted, NoSendOnClosed
<1>7. live # c /\ NoConn \notin Conn
  BY <1>1 DEF Inv, ConnInv, LiveIsServed, Conn, NoConn
<1>8. LiveIsServed'
  BY <1>1, <1>2, <1>7, LiveStays, Zenon
<1>9. ConnInv'
  BY <1>1, <1>2, <1>3, <1>8, Zenon DEF Inv, ConnInv, KindOK, QuietAfterStop
<1>10. Shakes' = Shakes \cup {c} /\ c \notin Shakes /\ Dials' = Dials
  BY <1>1, <1>2, <1>3, Zenon DEF Shakes, Dials
<1>11. Cardinality(Shakes') = Cardinality(Shakes) + 1
  BY <1>10, Finite, FS_AddElement, Zenon
<1>12. slots = Cardinality(Shakes)
  BY CountsAre, Zenon DEF Inv, Counts
<1>13. SlotsAreHandshakes'
  <2>1. slots' = Cardinality(Shakes')
    BY <1>1, <1>11, <1>12, Zenon
  <2> QED
    BY <2>1, Zenon DEF SlotsAreHandshakes, Shakes
<1>14. OneDial'
  BY <1>1, <1>10, Zenon DEF Inv, Counts, OneDial, Dials
<1> QED
  BY <1>5, <1>6, <1>9, <1>13, <1>14, Zenon DEF Inv, Counts

\* The end of a handshake preserves Inv: an incoming one gives its slot back.
LEMMA HandshakeStep ==
  ASSUME Inv, NEW c \in Conn, NEW res \in {"register", "refused", "self"}, Handshake(c, res)
  PROVE  Inv'
<1>0. conn \in [Conn -> ConnState] /\ conn[c] \in ConnState /\ slots \in 0 .. NSlot
  BY Zenon DEF Inv, TypeOK
<1>1. PICK v : /\ conn' = [conn EXCEPT ![c] = v]
               /\ v = IF res = "self" THEN Over(c) ELSE [conn[c] EXCEPT !.pc = res, !.open = (res = "register")]
  BY Zenon DEF Handshake
<1>2. /\ conn[c].pc = "handshake" /\ slots' = (IF conn[c].kind = "in" THEN slots - 1 ELSE slots)
      /\ UNCHANGED <<phase, mu, loop, nb, live, sub, todo, calls>>
  BY Zenon DEF Handshake
<1>3. /\ v \in ConnState /\ v.pc \in {"none", "dialDone", "register", "refused"}
      /\ v.pc = "dialDone" => v.kind = "out"
      /\ v.pc # "none" => v.kind = conn[c].kind
      /\ v.pc = "none" => conn[c].kind # "out"
  <2>1. CASE res = "self"
    BY <1>0, <1>1, <2>1, Zenon DEF Over, Closed, ConnState
  <2>2. CASE res = "register"
    <3>1. v = [conn[c] EXCEPT !.pc = "register", !.open = TRUE]
      BY <1>1, <2>2, Zenon
    <3> QED
      BY <1>0, <3>1, Zenon DEF ConnState
  <2>3. CASE res = "refused"
    <3>1. v = [conn[c] EXCEPT !.pc = "refused", !.open = FALSE]
      BY <1>1, <2>3, Zenon
    <3> QED
      BY <1>0, <3>1, Zenon DEF ConnState
  <2> QED
    BY <2>1, <2>2, <2>3, Zenon
<1>4. conn' \in [Conn -> ConnState] /\ conn'[c] = v /\ \A d \in Conn \ {c} : conn'[d] = conn[d]
  BY <1>1, <1>3, ConnTo, Zenon DEF Inv
<1>5. live # c
  <2>1. NoConn \notin Conn
    BY DEF Conn, NoConn
  <2> QED
    BY <1>2, <2>1, Zenon DEF Inv, ConnInv, LiveIsServed
<1>6. LiveIsServed'
  BY <1>1, <1>2, <1>3, <1>5, LiveStays, Zenon
<1>7. ConnInv'
  BY <1>2, <1>3, <1>4, <1>6, Zenon DEF Inv, ConnInv, KindOK, QuietAfterStop
<1>8. LoopInv'
  BY <1>2, Zenon DEF Inv, LoopInv, MuOK, NotStarted, NoSendOnClosed
<1>9. Dials' = Dials /\ Shakes' = Shakes \ {c}
  BY <1>2, <1>3, <1>4, Zenon DEF Dials, Shakes
<1>10. slots' = Cardinality(Shakes') /\ slots' \in 0 .. NSlot
  <2>1. slots = Cardinality(Shakes)
    BY CountsAre, Zenon DEF Inv, Counts
  <2>2. CASE conn[c].kind = "in"
    <3>1. c \in Shakes
      BY <1>2, <2>2, Zenon DEF Shakes
    <3>2. Cardinality(Shakes') = Cardinality(Shakes) - 1 /\ Cardinality(Shakes') \in Nat
      BY <1>9, <3>1, Finite, FS_RemoveElement, FS_CardinalityType, Zenon
    <3> QED
      BY <1>0, <1>2, <2>1, <2>2, <3>2, NodeBounds
  <2>3. CASE conn[c].kind # "in"
    <3>1. Shakes' = Shakes
      BY <1>9, <2>3, Zenon DEF Shakes
    <3> QED
      BY <1>0, <1>2, <2>1, <2>3, <3>1, Zenon
  <2> QED
    BY <2>2, <2>3, Zenon
<1>11. TypeOK'
  BY <1>2, <1>4, <1>10, Zenon DEF Inv, TypeOK
<1>12. SlotsAreHandshakes'
  BY <1>10, Zenon DEF SlotsAreHandshakes, Shakes
<1>13. OneDial'
  BY <1>2, <1>9, Zenon DEF Inv, Counts, OneDial, Dials
<1> QED
  BY <1>7, <1>8, <1>11, <1>12, <1>13, Zenon DEF Inv, Counts

\* The goroutine that dialLoop starts preserves Inv: it takes over the mark.
LEMMA SpawnStep ==
  ASSUME Inv, NEW c \in Conn, Spawn(c)
  PROVE  Inv'
<1> DEFINE v == [pc |-> "dial", kind |-> "out", open |-> FALSE, late |-> FALSE]
<1>0. loop \in [Loops -> {"idle", "emit", "sending", "scan", "logf", "spawn", "gone"}] /\ "dial" \in Loops
  BY Zenon DEF Inv, TypeOK, Loops
<1>1. /\ conn[c].pc = "none" /\ loop["dial"] = "spawn" /\ loop' = [loop EXCEPT !["dial"] = "idle"]
      /\ conn' = [conn EXCEPT ![c] = v]
      /\ UNCHANGED <<phase, mu, nb, live, slots, sub, todo, calls>>
  BY Zenon DEF Spawn, Fresh, Begin
<1>2. v \in ConnState /\ v.pc = "dial" /\ v.kind = "out"
  BY Zenon DEF ConnState
<1> HIDE DEF v
<1>3. conn' \in [Conn -> ConnState] /\ conn'[c] = v /\ \A d \in Conn \ {c} : conn'[d] = conn[d]
  BY <1>1, <1>2, ConnTo, Zenon DEF Inv
<1>4. \A k \in Loops : loop'[k] = IF k = "dial" THEN "idle" ELSE loop[k]
  BY <1>0, <1>1, Zenon
<1>5. TypeOK'
  BY <1>1, <1>3, Zenon DEF Inv, TypeOK
<1>6. LoopInv'
  BY <1>0, <1>1, <1>4, Zenon DEF Inv, LoopInv, MuOK, NotStarted, NoSendOnClosed
<1>7. live # c /\ NoConn \notin Conn
  BY <1>1 DEF Inv, ConnInv, LiveIsServed, Conn, NoConn
<1>8. LiveIsServed'
  BY <1>1, <1>2, <1>7, LiveStays, Zenon
<1>9. ConnInv'
  <2>1. phase # "stopped"
    BY <1>0, <1>1, Zenon DEF Inv, ConnInv, QuietAfterStop
  <2> QED
    BY <1>1, <1>2, <1>3, <1>8, <2>1, Zenon DEF Inv, ConnInv, KindOK, QuietAfterStop
<1>10. Dials' = Dials \cup {c} /\ c \notin Dials /\ Shakes' = Shakes
  BY <1>1, <1>2, <1>3, Zenon DEF Shakes, Dials
<1>11. Cardinality(Dials') = Cardinality(Dials) + 1
  BY <1>10, Finite, FS_AddElement, Zenon
<1>12. Cardinality(Dials) + 1 = IF nb.dialing THEN 1 ELSE 0
  BY <1>1, CountsAre, Zenon DEF Inv, Counts
<1>13. OneDial'
  <2>1. Cardinality(Dials') + 0 = IF nb'.dialing THEN 1 ELSE 0
    BY <1>1, <1>11, <1>12, Finite
  <2>2. loop'["dial"] # "spawn"
    BY <1>0, <1>4, Zenon
  <2> QED
    BY <2>1, <2>2, Zenon DEF OneDial, Dials
<1>14. SlotsAreHandshakes'
  BY <1>1, <1>10, Zenon DEF Inv, Counts, SlotsAreHandshakes, Shakes
<1> QED
  BY <1>5, <1>6, <1>9, <1>13, <1>14, Zenon DEF Inv, Counts

\* The end of a dial preserves Inv: it was the only one, so the mark goes.
LEMMA DialDoneStep ==
  ASSUME Inv, NEW c \in Conn, dialDone(c)
  PROVE  Inv'
<1>1. /\ conn[c].pc = "dialDone" /\ nb' = [nb EXCEPT !.dialing = FALSE] /\ conn' = [conn EXCEPT ![c] = Closed]
      /\ UNCHANGED <<phase, mu, loop, live, slots, sub, todo, calls>>
  BY Zenon DEF dialDone
<1>2. Closed \in ConnState /\ Closed.pc = "none" /\ Closed.kind = "in"
  BY Zenon DEF ConnState, Closed
<1>3. conn' \in [Conn -> ConnState] /\ conn'[c] = Closed /\ \A d \in Conn \ {c} : conn'[d] = conn[d]
  BY <1>1, <1>2, ConnTo, Zenon DEF Inv
<1>4. nb' \in [up : BOOLEAN, dialing : BOOLEAN] /\ nb'.dialing = FALSE
  BY <1>1, Zenon DEF Inv, TypeOK
<1>5. TypeOK'
  BY <1>1, <1>3, <1>4, Zenon DEF Inv, TypeOK
<1>6. LoopInv'
  BY <1>1, Zenon DEF Inv, LoopInv, MuOK, NotStarted, NoSendOnClosed
<1>7. live # c /\ NoConn \notin Conn
  BY <1>1 DEF Inv, ConnInv, LiveIsServed, Conn, NoConn
<1>8. LiveIsServed'
  BY <1>1, <1>2, <1>7, LiveStays, Zenon
<1>9. ConnInv'
  BY <1>1, <1>2, <1>3, <1>8, Zenon DEF Inv, ConnInv, KindOK, QuietAfterStop
<1>10. Dials' = Dials \ {c} /\ c \in Dials /\ Shakes' = Shakes
  BY <1>1, <1>2, <1>3, Zenon DEF Inv, ConnInv, KindOK, Shakes, Dials
<1>11. Cardinality(Dials') = Cardinality(Dials) - 1 /\ Cardinality(Dials') \in Nat
  BY <1>10, Finite, FS_RemoveElement, FS_CardinalityType, Zenon
<1>12. Cardinality(Dials) + (IF loop["dial"] = "spawn" THEN 1 ELSE 0) = IF nb.dialing THEN 1 ELSE 0
  BY CountsAre, Zenon DEF Inv, Counts
<1>13. Cardinality(Dials') = 0 /\ loop["dial"] # "spawn"
  BY <1>11, <1>12, Finite
<1>14. OneDial'
  BY <1>1, <1>4, <1>13 DEF OneDial, Dials
<1>15. SlotsAreHandshakes'
  BY <1>1, <1>10, Zenon DEF Inv, Counts, SlotsAreHandshakes, Shakes
<1> QED
  BY <1>5, <1>6, <1>9, <1>14, <1>15, Zenon DEF Inv, Counts

\* The invariant holds in every reachable state.
THEOREM InvHolds == Spec => []Inv
<1>1. NodeInit => Inv
  <2> SUFFICES ASSUME NodeInit PROVE Inv
    BY Zenon
  <2>1. Closed \in ConnState /\ Closed.pc = "none"
    BY Zenon DEF ConnState, Closed
  <2>2. TypeOK
    BY <2>1, NodeBounds DEF NodeInit, TypeOK, NoNeighbour
  <2>3. LoopInv
    BY Zenon DEF NodeInit, LoopInv, MuOK, NotStarted, NoSendOnClosed, Loops
  <2>4. ConnInv
    BY <2>1, Zenon DEF NodeInit, ConnInv, KindOK, LiveIsServed, QuietAfterStop
  <2>5. Dials = {} /\ Shakes = {}
    BY <2>1, Zenon DEF NodeInit, Dials, Shakes
  <2>6. Cardinality(Dials) = 0 /\ Cardinality(Shakes) = 0
    BY <2>5, FS_EmptySet, Zenon
  <2>7. loop["dial"] # "spawn" /\ ~nb.dialing /\ slots = 0
    BY Zenon DEF NodeInit, Loops, NoNeighbour
  <2>8. Counts
    BY <2>6, <2>7, CountsAre DEF Counts
  <2> QED
    BY <2>2, <2>3, <2>4, <2>8, Zenon DEF Inv
<1>2. Inv /\ [Next]_nodeVars => Inv'
  <2> SUFFICES ASSUME Inv, [Next]_nodeVars PROVE Inv'
    BY Zenon
  <2>1. CASE UNCHANGED nodeVars
    <3>1. TypeOK'
      BY <2>1, Zenon DEF nodeVars, Inv, TypeOK
    <3>2. LoopInv'
      BY <2>1, Zenon DEF nodeVars, Inv, LoopInv, MuOK, NotStarted, NoSendOnClosed
    <3>3. ConnInv'
      BY <2>1, Zenon DEF nodeVars, Inv, ConnInv, KindOK, LiveIsServed, QuietAfterStop
    <3>4. Counts'
      BY <2>1, CountsKeep, Zenon DEF nodeVars, Inv
    <3> QED
      BY <3>1, <3>2, <3>3, <3>4, Zenon DEF Inv
  <2>2. CASE \/ Start \/ Cancel \/ Stopped
             \/ \E l \in Loops : LoopEnds(l) \/ EmitLock(l) \/ EmitUnlock(l)
             \/ \E b \in BOOLEAN : Browse(b) \/ DialTick(b)
             \/ \E s \in Sub : Subscribe(s) \/ Unsubscribe(s) \/ EmitSend(s)
    BY <2>2, LoopStep, Zenon
  <2>3. CASE \E b \in BOOLEAN : DialScan(b)
    BY <2>3, ScanStep, Zenon
  <2>4. ASSUME NEW c \in Conn, \/ Dial(c) \/ RunSession(c) \/ SessionEnds(c) \/ Unregister(c)
                               \/ \E b \in BOOLEAN : Dialled(c, b)
        PROVE  Inv'
    BY <2>4, QuietConnStep, Zenon
  <2>5. CASE (\E c \in Conn : Register(c)) \/ CloseLive
    BY <2>5, LinkStep, Zenon
  <2>6. ASSUME NEW c \in Conn, Accept(c) \/ Spawn(c) \/ dialDone(c) PROVE Inv'
    BY <2>6, AcceptStep, SpawnStep, DialDoneStep, Zenon
  <2>7. ASSUME NEW c \in Conn, NEW r \in {"register", "refused", "self"}, Handshake(c, r) PROVE Inv'
    BY <2>7, HandshakeStep, Zenon
  <2> QED
    BY <2>1, <2>2, <2>3, <2>4, <2>5, <2>6, <2>7, Zenon DEF Next, Step
<1> QED
  BY <1>1, <1>2, PTL DEF Spec

\* Every variable keeps its type: in particular no more handshakes hold a slot
\* than there are slots.
THEOREM TypeCorrect == Spec => []TypeOK
BY InvHolds, PTL DEF Inv

\* No slot of hsSem leaks and none is given back twice, whatever the number of
\* slots and connections.
THEOREM SlotsBalance == Spec => []SlotsAreHandshakes
BY InvHolds, PTL DEF Inv, Counts

\* The neighbour's mark is up exactly while one goroutine dials it.
THEOREM DialsOnce == Spec => []OneDial
BY InvHolds, PTL DEF Inv, Counts

\* An emit never sends to a channel that has been closed, whatever the number
\* of subscribers.
THEOREM EmitsToOpen == Spec => []NoSendOnClosed
BY InvHolds, PTL DEF Inv, LoopInv

\* The live link is served, and an open session is the live one, whatever the
\* number of connections that replace one another.
THEOREM ServesTheLive == Spec => []LiveIsServed
BY InvHolds, PTL DEF Inv, ConnInv

\* Once Stop has returned there are no loops and no sessions, but for a Dial of
\* the user's that was not yet registered then and the session it starts after.
THEOREM StopIsQuiet == Spec => []QuietAfterStop
BY InvHolds, PTL DEF Inv, ConnInv

=============================================================================

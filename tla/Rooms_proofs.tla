---------------------------- MODULE Rooms_proofs ----------------------------
(***************************************************************************)
(* Proofs about module Rooms, for any number of nodes, calls and lost      *)
(* sessions: the node that made the room is the only one that may own it,  *)
(* nobody is in it who has not agreed to be, and no copy of it lists more  *)
(* members than it may have.                                               *)
(***************************************************************************)
EXTENDS Rooms, FiniteSetTheorems, WellFoundedInduction, TLAPS

(* A copy that a node reads may be written back much later, so what holds  *)
(* of the copies in the bucket must hold of the ones that calls and        *)
(* handlers have in hand too.                                              *)

\* The copies node n may hold: all but the founder's name the founder, only
\* one of a user who has agreed is joined, and none is above the limit.
Own(n) == {r \in Copy : /\ n # founder => r.creator \in {Nobody, founder}
                        /\ r.state = "joined" => n \in agreed
                        /\ Cardinality(r.members) <= MaxMembers}

\* The events node n may send: an invitation comes from the founder.
Sends(n) == {e \in Event : e.t = "create" => n = founder}

\* No node has a session with itself.
NoSelf == \A n \in Node : {n} \notin up /\ wire[n][n] = <<>>

AllOwn == \A n \in Node : /\ room[n] \in Own(n)
                          /\ \A c \in call[n] : c.room \in Own(n)
                          /\ \A w \in pending[n] : w.room \in Own(n)

AllSends == \A n \in Node : /\ wire[n] \in [Node -> Seq(Sends(n))]
                            /\ \A c \in call[n] : c.post \in [Node -> Seq(Sends(n))]

Inv == TypeOK /\ NoSelf /\ AllOwn /\ AllSends

\* A list of members is finite, shrinks by a removal and grows by one with a
\* newcomer.
LEMMA Counting ==
  ASSUME NEW S \in SUBSET Node
  PROVE  /\ Cardinality(S) \in Nat
         /\ \A x : Cardinality(S \ {x}) <= Cardinality(S)
         /\ \A x : x \notin S => Cardinality(S \cup {x}) = Cardinality(S) + 1
<1>1. IsFiniteSet(Node)
  BY RoomBounds, FS_Interval DEF Node
<1>2. IsFiniteSet(S)
  BY <1>1, FS_Subset, Zenon
<1>3. \A x : IsFiniteSet(S \ {x}) /\ Cardinality(S \ {x}) <= Cardinality(S)
  BY <1>2, FS_Subset, Zenon
<1> QED
  BY <1>2, <1>3, FS_CardinalityType, FS_AddElement, Zenon

\* A node may have no copy of the room.
LEMMA NoRoomOwn ==
  ASSUME NEW n \in Node PROVE NoRoom \in Own(n)
<1>1. Cardinality({}) <= MaxMembers
  BY RoomBounds, FS_EmptySet
<1> QED
  BY <1>1, Zenon DEF Own, Copy, NoRoom

\* A handler writes only copies that its node may hold: an event never makes
\* the node it reaches the owner, and never joins it.
LEMMA WrittenOwn ==
  ASSUME NEW n \in Node, NEW p \in Node, p # n, NEW e \in Sends(p), NEW r \in Own(n)
  PROVE  Written(n, p, e, r) \subseteq Own(n)
<1>1. e \in Event /\ (e.t = "create" => p = founder)
  BY Zenon DEF Sends
<1>2. NoRoom \in Own(n)
  BY NoRoomOwn, Zenon
<1>3. r # NoRoom => r \in RoomRecord
  BY Zenon DEF Own, Copy
<1>4. ASSUME e.t = "create" PROVE OnCreate(n, p, e, r) \subseteq Own(n)
  <2>1. SUFFICES ASSUME NEW new \in OnCreate(n, p, e, r) PROVE new \in Own(n)
    BY Zenon
  <2>2. Cardinality(e.members) <= MaxMembers
    <3>1. Cardinality(e.members) \in Nat
      BY <1>1, Counting, Zenon DEF Event
    <3> QED
      BY <2>1, <3>1, RoomBounds DEF OnCreate
  <2>3. CASE r = NoRoom
    <3>1. new = [members |-> e.members, creator |-> p, state |-> "pending", name |-> e.name]
      BY <2>1, <2>3, Zenon DEF OnCreate
    <3>2. new \in RoomRecord /\ new.members = e.members /\ new.creator = founder /\ new.state = "pending"
      BY <1>1, <1>4, <3>1, Zenon DEF RoomRecord, Event
    <3> QED
      BY <2>2, <3>2, Zenon DEF Own, Copy
  <2>4. CASE r # NoRoom
    <3>1. new = [r EXCEPT !.members = e.members, !.name = e.name]
      BY <2>1, <2>4, Zenon DEF OnCreate
    <3>2. new \in RoomRecord /\ new.members = e.members /\ new.creator = r.creator /\ new.state = r.state
      BY <1>1, <1>3, <2>4, <3>1, Zenon DEF RoomRecord, Event
    <3> QED
      BY <2>2, <3>2, Zenon DEF Own, Copy
  <2> QED
    BY <2>3, <2>4, Zenon
<1>5. ASSUME r # NoRoom, NEW S \in SUBSET Node, Cardinality(S) <= MaxMembers
      PROVE  [r EXCEPT !.members = S] \in Own(n)
  <2> DEFINE new == [r EXCEPT !.members = S]
  <2>1. new \in RoomRecord /\ new.creator = r.creator /\ new.state = r.state /\ new.members = S
    BY <1>3, <1>5, Zenon DEF RoomRecord
  <2> HIDE DEF new
  <2>2. new \in Own(n)
    BY <1>5, <2>1, Zenon DEF Own, Copy
  <2> QED
    BY <2>2, Zenon DEF new
<1>6. ASSUME r # NoRoom PROVE [r EXCEPT !.name = e.name] \in Own(n)
  <2> DEFINE new == [r EXCEPT !.name = e.name]
  <2>1. new \in RoomRecord /\ new.creator = r.creator /\ new.state = r.state /\ new.members = r.members
    BY <1>1, <1>3, <1>6, Zenon DEF RoomRecord, Event
  <2> HIDE DEF new
  <2>2. new \in Own(n)
    BY <2>1, Zenon DEF Own, Copy
  <2> QED
    BY <2>2, Zenon DEF new
<1>7. ASSUME r # NoRoom
      PROVE  /\ r.members \in SUBSET Node /\ Cardinality(r.members) \in Nat
             /\ Cardinality(r.members) <= MaxMembers
             /\ \A x : Cardinality(r.members \ {x}) <= MaxMembers
  <2>1. r.members \in SUBSET Node /\ Cardinality(r.members) <= MaxMembers
    BY <1>3, <1>7, Zenon DEF RoomRecord, Own
  <2>2. \A x : r.members \ {x} \in SUBSET Node
    BY <2>1, Zenon
  <2>3. \A x : Cardinality(r.members \ {x}) \in Nat /\ Cardinality(r.members \ {x}) <= Cardinality(r.members)
    BY <2>1, <2>2, Counting, Zenon
  <2>4. Cardinality(r.members) \in Nat
    BY <2>1, Counting, Zenon
  <2> QED
    BY <2>1, <2>3, <2>4, RoomBounds
<1>8. e.who \in Node
  BY <1>1, Zenon DEF Event
<1>9. ASSUME r # NoRoom PROVE OnJoin(p, e, r) \subseteq Own(n)
  <2>1. CASE e.who \in r.members \/ Cardinality(r.members) >= MaxMembers
    BY <2>1, Zenon DEF OnJoin
  <2>2. CASE e.who \notin r.members /\ ~(Cardinality(r.members) >= MaxMembers)
    <3>1. Cardinality(r.members \cup {e.who}) = Cardinality(r.members) + 1
      BY <1>7, <1>9, <2>2, Counting, Zenon
    <3>2. Cardinality(r.members \cup {e.who}) <= MaxMembers
      BY <1>7, <1>9, <2>2, <3>1, RoomBounds
    <3>3. [r EXCEPT !.members = r.members \cup {e.who}] \in Own(n)
      BY <1>5, <1>7, <1>8, <1>9, <3>2, Zenon
    <3> QED
      BY <3>3, Zenon DEF OnJoin
  <2> QED
    BY <2>1, <2>2, Zenon
<1>10. ASSUME r # NoRoom PROVE OnRemove(n, p, e, r) \subseteq Own(n)
  <2>1. [r EXCEPT !.members = r.members \ {e.who}] \in Own(n)
    BY <1>5, <1>7, <1>10, Zenon
  <2> QED
    BY <1>2, <2>1, Zenon DEF OnRemove
<1>11. ASSUME r # NoRoom PROVE OnLeave(p, r) \subseteq Own(n)
  <2>1. [r EXCEPT !.members = r.members \ {p}] \in Own(n)
    BY <1>5, <1>7, <1>11, Zenon
  <2> QED
    BY <2>1, Zenon DEF OnLeave
<1>12. ASSUME r # NoRoom PROVE OnRename(p, e, r) \subseteq Own(n)
  BY <1>6, <1>12, Zenon DEF OnRename
<1> QED
  BY <1>1, <1>4, <1>9, <1>10, <1>11, <1>12, Zenon DEF Written, Event

\* What sendRoomEvent puts together is an event its node may send.
LEMMA EvType ==
  ASSUME NEW t \in {"create", "join", "remove", "leave", "rename"}, NEW who \in Node, NEW r \in RoomRecord,
         NEW n, t = "create" => n = founder
  PROVE  Ev(t, who, r) \in Sends(n)
BY Zenon DEF Ev, Event, RoomRecord, Sends

\* The events one call posts have the type of that event, for each receiver.
LEMMA ToType ==
  ASSUME NEW S, NEW T, NEW e \in T
  PROVE  To(S, e) \in [Node -> Seq(T)]
<1>1. <<e>> \in Seq(T) /\ <<>> \in Seq(T)
  OBVIOUS
<1> QED
  BY <1>1, Zenon DEF To

\* Events some node may send are events.
LEMMA SendsType ==
  ASSUME NEW n, NEW q \in [Node -> Seq(Sends(n))] PROVE q \in [Node -> Seq(Event)]
<1>1. Sends(n) \subseteq Event
  BY Zenon DEF Sends
<1> HIDE DEF Sends
<1> QED
  BY <1>1

\* Sending keeps the type of the wires, sends a node nothing from itself, and
\* sends only what the node may send.
LEMMA SentType ==
  ASSUME Inv, NEW n \in Node, NEW post \in [Node -> Seq(Event)]
  PROVE  /\ Sent(n, post) \in [Node -> [Node -> Seq(Event)]]
         /\ \A k \in Node : Sent(n, post)[k][k] = <<>>
         /\ \A k \in Node \ {n} : Sent(n, post)[k] = wire[k]
         /\ post \in [Node -> Seq(Sends(n))] => Sent(n, post)[n] \in [Node -> Seq(Sends(n))]
<1> DEFINE row == [p \in Node |-> IF {n, p} \in up THEN wire[n][p] \o post[p] ELSE wire[n][p]]
<1>1. wire \in [Node -> [Node -> Seq(Event)]] /\ \A k \in Node : {k} \notin up /\ wire[k][k] = <<>>
  <2>1. wire \in [Node -> [Node -> Seq(Event)]]
    BY Zenon DEF Inv, TypeOK
  <2> QED
    BY <2>1, Zenon DEF Inv, NoSelf
<1>2. ASSUME NEW T, wire[n] \in [Node -> Seq(T)], post \in [Node -> Seq(T)]
      PROVE  row \in [Node -> Seq(T)]
  <2> SUFFICES ASSUME NEW p \in Node PROVE wire[n][p] \o post[p] \in Seq(T) /\ wire[n][p] \in Seq(T)
    BY Zenon
  <2>1. wire[n][p] \in Seq(T) /\ post[p] \in Seq(T)
    BY <1>2, Zenon
  <2> QED
    BY <2>1
<1>3. row[n] = <<>>
  <2>1. {n, n} = {n}
    BY Zenon
  <2> QED
    BY <1>1, <2>1, Zenon
<1>4. Sent(n, post) = [wire EXCEPT ![n] = row]
  BY Zenon DEF Sent
<1>5. row \in [Node -> Seq(Event)]
  BY <1>1, <1>2, Zenon
<1>6. post \in [Node -> Seq(Sends(n))] => row \in [Node -> Seq(Sends(n))]
  BY <1>2, Zenon DEF Inv, AllSends
<1> HIDE DEF row
<1>7. \A k \in Node : Sent(n, post)[k] = IF k = n THEN row ELSE wire[k]
  BY <1>1, <1>4, Zenon
<1> QED
  BY <1>1, <1>3, <1>4, <1>5, <1>6, <1>7, Zenon

\* What a node may hold or send, it may for good: the room has one founder, and
\* who has agreed has agreed.
LEMMA OwnGrows ==
  ASSUME NEW n \in Node, founder' = founder \/ founder = Nobody, agreed \subseteq agreed'
  PROVE  Own(n) \subseteq Own(n)' /\ \A q \in [Node -> Seq(Sends(n))] : q \in [Node -> Seq(Sends(n)')]
<1>1. Own(n) \subseteq Own(n)'
  BY DEF Own, Nobody, Node
<1>2. Sends(n) \subseteq Sends(n)'
  BY DEF Sends, Nobody, Node
<1> HIDE DEF Sends
<1> QED
  BY <1>1, <1>2

\* A call that has read the room has in hand a copy its node may hold, and
\* events it may send.
LEMMA ReadStep ==
  ASSUME Inv, NEW n \in Node, NEW r, NEW post \in [Node -> Seq(Sends(n))], Read(n, r, post),
         agreed \subseteq agreed', agreed' \subseteq Node, UNCHANGED left, r \in Own(n)',
         wire' \in [Node -> [Node -> Seq(Event)]], \A k \in Node : wire'[k][k] = <<>>,
         \A k \in Node : wire'[k] \in [Node -> Seq(Sends(k))]
  PROVE  Inv'
<1>1. /\ UNCHANGED <<room, pending, up, founder, drops>>
      /\ call' = [call EXCEPT ![n] = @ \cup {[room |-> r, post |-> post]}]
      /\ calls' = calls + 1
  BY Zenon DEF Read
<1>2. post \in [Node -> Seq(Event)]
  BY SendsType, Zenon
<1>3. r \in Copy
  BY Zenon DEF Own
<1>4. [room |-> r, post |-> post] \in Call
  BY <1>2, <1>3, Zenon DEF Call
<1>5. call \in [Node -> SUBSET Call]
  BY Zenon DEF Inv, TypeOK
<1>6. call' \in [Node -> SUBSET Call]
  BY <1>1, <1>4, <1>5, Zenon
<1>7. TypeOK'
  <2>1. TypeOK /\ calls' \in Nat
    BY <1>1 DEF Inv, TypeOK
  <2> QED
    BY <1>1, <1>6, <2>1, Zenon DEF TypeOK
<1>8. \A k \in Node : Own(k) \subseteq Own(k)'
  BY <1>1, OwnGrows, Zenon
<1>9. \A k \in Node : \A c \in call'[k] : c \in call[k] \/ (k = n /\ c.room = r /\ c.post = post)
  <2> DEFINE new == [room |-> r, post |-> post]
  <2>1. new.room = r /\ new.post = post
    BY Zenon
  <2>2. call' = [call EXCEPT ![n] = @ \cup {new}]
    BY <1>1, Zenon
  <2> HIDE DEF new
  <2>3. call'[n] = call[n] \cup {new} /\ \A k \in Node \ {n} : call'[k] = call[k]
    BY <1>5, <2>2, Zenon
  <2> QED
    BY <2>1, <2>3, Zenon
<1>10. \A k \in Node : \A c \in call'[k] : c.room \in Own(k)'
  <2>1. \A k \in Node : \A c \in call[k] : c.room \in Own(k)
    BY Zenon DEF Inv, AllOwn
  <2> QED
    BY <1>8, <1>9, <2>1, Zenon
<1>11. \A k \in Node : room'[k] \in Own(k)' /\ \A w \in pending'[k] : w.room \in Own(k)'
  <2>1. \A k \in Node : room[k] \in Own(k)
    BY Zenon DEF Inv, AllOwn
  <2>2. \A k \in Node : \A w \in pending[k] : w.room \in Own(k)
    BY Zenon DEF Inv, AllOwn
  <2> QED
    BY <1>1, <1>8, <2>1, <2>2, Zenon
<1>12. \A k \in Node : Sends(k)' = Sends(k)
  BY <1>1, Zenon DEF Sends
<1>13. \A k \in Node : \A c \in call'[k] : c.post \in [Node -> Seq(Sends(k))]
  BY <1>9, Zenon DEF Inv, AllSends
<1>14. AllSends'
  BY <1>12, <1>13, Zenon DEF AllSends
<1> QED
  BY <1>1, <1>7, <1>10, <1>11, <1>14, Zenon DEF Inv, NoSelf, AllOwn

\* A set of nodes that is not empty has a first.
LEMMA LeastExists ==
  ASSUME NEW S \in SUBSET Node, S # {}
  PROVE  \E k \in S : \A j \in S : k <= j
<1> DEFINE R == OpToRel(<, Nat)
<1>1. S \subseteq Nat
  BY DEF Node
<1>2. IsWellFoundedOn(R, Nat)
  BY NatLessThanWellFounded, Zenon
<1>3. \A x, y \in Nat : <<y, x>> \notin R => x <= y
  BY DEF OpToRel
<1> HIDE DEF R
<1>4. \E x \in S : \A y \in S : <<y, x>> \notin R
  BY <1>1, <1>2, WFMin, Zenon
<1> QED
  BY <1>1, <1>3, <1>4, Zenon

\* Every call of a user preserves Inv when it has read the room.
LEMMA CallStep ==
  ASSUME Inv, NEW n \in Node, NEW m \in Node,
         \/ AddRoomMember(n, m) \/ RemoveRoomMember(n, m) \/ LeaveRoom(n) \/ RenameRoom(n)
         \/ AcceptRoomInvite(n) \/ DeclineRoomInvite(n)
  PROVE  Inv'
<1>1. /\ wire \in [Node -> [Node -> Seq(Event)]] /\ \A k \in Node : wire[k][k] = <<>>
      /\ agreed \subseteq Node /\ \A k \in Node : wire[k] \in [Node -> Seq(Sends(k))]
  <2>1. wire \in [Node -> [Node -> Seq(Event)]] /\ agreed \subseteq Node
    BY Zenon DEF Inv, TypeOK
  <2>2. \A k \in Node : wire[k] \in [Node -> Seq(Sends(k))]
    BY Zenon DEF Inv, AllSends
  <2> QED
    BY <2>1, <2>2, Zenon DEF Inv, NoSelf
<1>2. room[n] \in Own(n)
  BY Zenon DEF Inv, AllOwn
<1>3. Has(n)
  BY Zenon DEF AddRoomMember, RemoveRoomMember, LeaveRoom, RenameRoom, AcceptRoomInvite, DeclineRoomInvite
<1>4. /\ room[n] \in RoomRecord
      /\ n # founder => room[n].creator = founder
      /\ room[n].state = "joined" => n \in agreed
      /\ Cardinality(room[n].members) <= MaxMembers
  <2>1. room[n] \in RoomRecord /\ room[n].creator # Nobody
    BY <1>2, <1>3 DEF Own, Copy, Has, RoomRecord, Node, Nobody
  <2> QED
    BY <1>2, <2>1, Zenon DEF Own
<1>5. /\ room[n].members \in SUBSET Node /\ Cardinality(room[n].members) \in Nat
       /\ \A x : Cardinality(room[n].members \ {x}) <= MaxMembers
  <2>1. room[n].members \in SUBSET Node
    BY <1>4, Zenon DEF RoomRecord
  <2>2. \A x : room[n].members \ {x} \in SUBSET Node
    BY <2>1, Zenon
  <2>3. \A x : Cardinality(room[n].members \ {x}) \in Nat /\ Cardinality(room[n].members \ {x}) <= Cardinality(room[n].members)
    BY <2>1, <2>2, Counting, Zenon
  <2>4. Cardinality(room[n].members) \in Nat
    BY <2>1, Counting, Zenon
  <2>5. Cardinality(room[n].members) <= MaxMembers
    BY <1>4, Zenon
  <2>6. \A i, j \in Nat : i <= j /\ j <= MaxMembers => i <= MaxMembers
    BY RoomBounds
  <2> QED
    BY <2>1, <2>3, <2>4, <2>5, <2>6, Zenon
<1>6. NoRoom \in Own(n)'
  <2>1. Cardinality({}) <= MaxMembers
    BY RoomBounds, FS_EmptySet
  <2> QED
    BY <2>1, Zenon DEF Own, Copy, NoRoom
<1>7. founder' = founder
  BY Zenon DEF AddRoomMember, RemoveRoomMember, LeaveRoom, RenameRoom, AcceptRoomInvite, DeclineRoomInvite, Read
<1>8. CASE AddRoomMember(n, m)
  <2> DEFINE r == [room[n] EXCEPT !.members = @ \cup {m}]
             post == [p \in Node |-> CASE p = m -> <<Ev("create", n, r)>>
                                       [] p \in r.members \ {n, m} -> <<Ev("join", m, r)>>
                                       [] OTHER -> <<>>]
  <2>1. /\ r \in RoomRecord /\ r.creator = room[n].creator /\ r.state = room[n].state
        /\ r.members = room[n].members \cup {m}
    BY <1>4, Zenon DEF RoomRecord
  <2>2. n = founder
    BY <1>4, <1>8, Zenon DEF AddRoomMember
  <2>3. Cardinality(r.members) <= MaxMembers
    <3>1. m \notin room[n].members /\ Cardinality(room[n].members) < MaxMembers
      BY <1>8, Zenon DEF AddRoomMember
    <3>2. Cardinality(r.members) = Cardinality(room[n].members) + 1
      BY <1>5, <2>1, <3>1, Counting, Zenon
    <3> QED
      BY <1>5, <3>1, <3>2, RoomBounds
  <2>4. Ev("create", n, r) \in Sends(n) /\ Ev("join", m, r) \in Sends(n)
    BY <2>1, <2>2, EvType, Zenon
  <2>5. Read(n, r, post) /\ wire' = wire /\ agreed' = agreed /\ left' = left
    BY <1>8, Zenon DEF AddRoomMember
  <2> HIDE DEF r
  <2>6. post \in [Node -> Seq(Sends(n))]
    <3>1. <<Ev("create", n, r)>> \in Seq(Sends(n)) /\ <<Ev("join", m, r)>> \in Seq(Sends(n)) /\ <<>> \in Seq(Sends(n))
      BY <2>4
    <3> QED
      BY <3>1, Zenon
  <2>7. r \in Own(n)'
    BY <1>4, <1>7, <2>1, <2>5, <2>3, Zenon DEF Own, Copy
  <2> HIDE DEF post
  <2> QED
    BY <1>1, <2>5, <2>6, <2>7, ReadStep, Zenon
<1>9. CASE RemoveRoomMember(n, m)
  <2> DEFINE r == [room[n] EXCEPT !.members = @ \ {m}]
             post == To((r.members \cup {m}) \ {n}, Ev("remove", m, r))
  <2>1. /\ r \in RoomRecord /\ r.creator = room[n].creator /\ r.state = room[n].state
        /\ r.members = room[n].members \ {m}
    BY <1>4, Zenon DEF RoomRecord
  <2>2. post \in [Node -> Seq(Sends(n))]
    BY <2>1, EvType, ToType, Zenon
  <2>3. Read(n, r, post) /\ wire' = wire /\ agreed' = agreed /\ left' = left
    BY <1>9, Zenon DEF RemoveRoomMember
  <2> HIDE DEF r, post
  <2>4. r \in Own(n)'
    BY <1>4, <1>7, <1>5, <2>1, <2>3, Zenon DEF Own, Copy
  <2> QED
    BY <1>1, <2>2, <2>3, <2>4, ReadStep, Zenon
<1>10. CASE LeaveRoom(n)
  <2> DEFINE rest == room[n].members \ {n}
             heir == IF room[n].creator = n /\ rest # {} THEN First(rest) ELSE room[n].creator
             r == [room[n] EXCEPT !.members = rest, !.creator = heir]
             post == To(rest, Ev("leave", n, r))
  <2>1. rest # {} => First(rest) \in Node \ {n}
    <3>1. rest \subseteq 1 .. N /\ N \in Nat
      BY <1>4, RoomBounds, Zenon DEF RoomRecord, Node
    <3>2. ASSUME rest # {} PROVE \E k \in rest : \A j \in rest : k <= j
      <4> HIDE DEF rest
      <4> QED
        BY <3>1, <3>2, LeastExists, Zenon DEF Node
    <3> QED
      BY <3>1, <3>2, Zenon DEF First, Node
  <2>2. heir \in Node /\ (n # founder => heir = founder)
    BY <1>4, <2>1, Zenon DEF RoomRecord
  <2> HIDE DEF heir
  <2>3. r \in RoomRecord /\ r.creator = heir /\ r.state = room[n].state /\ r.members = rest
    BY <1>4, <2>2, Zenon DEF RoomRecord
  <2>4. post \in [Node -> Seq(Sends(n))]
    BY <2>3, EvType, ToType, Zenon
  <2>5. Read(n, IF rest = {} THEN NoRoom ELSE r, post) /\ wire' = wire /\ agreed' = agreed /\ left' = left
    BY <1>10, Zenon DEF LeaveRoom, heir
  <2> HIDE DEF r, post
  <2>6. r \in Own(n)'
    BY <1>4, <1>7, <1>5, <2>2, <2>3, <2>5, Zenon DEF Own, Copy
  <2> QED
    BY <1>1, <1>6, <2>4, <2>5, <2>6, ReadStep, Zenon
<1>11. CASE RenameRoom(n)
  <2> DEFINE r == [room[n] EXCEPT !.name = "new"]
             post == To(r.members \ {n}, Ev("rename", n, r))
  <2>1. /\ r \in RoomRecord /\ r.creator = room[n].creator /\ r.state = room[n].state
        /\ r.members = room[n].members
    BY <1>4, Zenon DEF RoomRecord
  <2>2. post \in [Node -> Seq(Sends(n))]
    BY <2>1, EvType, ToType, Zenon
  <2>3. Read(n, r, post) /\ wire' = wire /\ agreed' = agreed /\ left' = left
    BY <1>11, Zenon DEF RenameRoom
  <2> HIDE DEF r, post
  <2>4. r \in Own(n)'
    BY <1>4, <1>7, <2>1, <2>3, Zenon DEF Own, Copy
  <2> QED
    BY <1>1, <2>2, <2>3, <2>4, ReadStep, Zenon
<1>12. CASE AcceptRoomInvite(n)
  <2> DEFINE r == [room[n] EXCEPT !.state = "joined"]
             post == To(r.members \ {n}, Ev("join", n, r))
  <2>1. r \in RoomRecord /\ r.creator = room[n].creator /\ r.members = room[n].members
    BY <1>4, Zenon DEF RoomRecord
  <2>2. post \in [Node -> Seq(Sends(n))]
    BY <2>1, EvType, ToType, Zenon
  <2>3. Read(n, r, post) /\ wire' = wire /\ agreed' = agreed \cup {n} /\ left' = left
    BY <1>12, Zenon DEF AcceptRoomInvite
  <2> HIDE DEF r, post
  <2>4. r \in Own(n)'
    BY <1>4, <1>7, <2>1, <2>3, Zenon DEF Own, Copy
  <2> QED
    BY <1>1, <2>2, <2>3, <2>4, ReadStep, Zenon
<1>13. CASE DeclineRoomInvite(n)
  <2> DEFINE post == To(room[n].members \ {n}, Ev("leave", n, room[n]))
  <2>1. post \in [Node -> Seq(Sends(n))]
    BY <1>4, EvType, ToType, Zenon
  <2>2. NoPost \in [Node -> Seq(Sends(n))]
    BY DEF NoPost
  <2>3. Read(n, NoRoom, NoPost) /\ wire' = Sent(n, post) /\ agreed' = agreed /\ left' = left
    BY <1>13, Zenon DEF DeclineRoomInvite
  <2> HIDE DEF post
  <2>4. /\ wire' \in [Node -> [Node -> Seq(Event)]] /\ \A k \in Node : wire'[k][k] = <<>>
        /\ wire'[n] \in [Node -> Seq(Sends(n))] /\ \A k \in Node \ {n} : wire'[k] = wire[k]
    BY <2>1, <2>3, SendsType, SentType, Zenon
  <2>5. \A k \in Node : wire'[k] \in [Node -> Seq(Sends(k))]
    BY <1>1, <2>4, Zenon
  <2> QED
    BY <1>1, <1>6, <2>2, <2>3, <2>4, <2>5, ReadStep, Zenon
<1> QED
  BY <1>8, <1>9, <1>10, <1>11, <1>12, <1>13, Zenon

\* Making the room, writing it back and handling an event of it preserve Inv.
LEMMA RoomStep ==
  ASSUME Inv, NEW n \in Node, NEW p \in Node, NEW S \in SUBSET Node,
         \/ CreateRoom(n, S \ {n}) \/ UpdateRoom(n) \/ WriteBack(n) \/ handleRoomEvent(n, p)
  PROVE  Inv'
<1>1. /\ room \in [Node -> Copy] /\ call \in [Node -> SUBSET Call]
      /\ pending \in [Node -> SUBSET [from : Node \cup {Nobody}, room : Copy]]
      /\ wire \in [Node -> [Node -> Seq(Event)]]
      /\ founder \in Node \cup {Nobody} /\ agreed \subseteq Node
  BY Zenon DEF Inv, TypeOK
<1>2. \A k \in Node : wire[k][k] = <<>>
  BY Zenon DEF Inv, NoSelf
<1>3. \A k \in Node : /\ room[k] \in Own(k)
                      /\ \A c \in call[k] : c.room \in Own(k)
                      /\ \A w \in pending[k] : w.room \in Own(k)
  BY Zenon DEF Inv, AllOwn
<1>4. \A k \in Node : /\ wire[k] \in [Node -> Seq(Sends(k))]
                      /\ \A c \in call[k] : c.post \in [Node -> Seq(Sends(k))]
  BY Zenon DEF Inv, AllSends
<1>5. CASE CreateRoom(n, S \ {n})
  <2> DEFINE r == [members |-> (S \ {n}) \cup {n}, creator |-> n, state |-> "joined", name |-> "old"]
             post == To(r.members \ {n}, Ev("create", n, r))
  <2>1. r \in RoomRecord /\ r.members = (S \ {n}) \cup {n}
    BY Zenon DEF RoomRecord
  <2>2. Ev("create", n, r) \in Event /\ post \in [Node -> Seq(Event)]
    <3>1. Ev("create", n, r) \in Event
      BY <2>1, Zenon DEF Ev, Event, RoomRecord
    <3> QED
      BY <3>1, ToType, Zenon
  <2>3. Cardinality(r.members) <= MaxMembers
    <3>1. S \ {n} \in SUBSET Node /\ Cardinality(S \ {n}) <= MaxMembers - 1
      BY <1>5, Zenon DEF CreateRoom
    <3>2. Cardinality(S \ {n}) \in Nat /\ Cardinality((S \ {n}) \cup {n}) = Cardinality(S \ {n}) + 1
      BY <3>1, Counting, Zenon
    <3> QED
      BY <2>1, <3>1, <3>2, RoomBounds
  <2>4. /\ founder = Nobody /\ founder' = n /\ agreed' = agreed \cup {n}
        /\ room' = [room EXCEPT ![n] = r] /\ wire' = Sent(n, post)
        /\ UNCHANGED <<call, pending, up, left, calls, drops>>
    BY <1>5, Zenon DEF CreateRoom
  <2>5. r \in Own(n)'
    BY <2>1, <2>4, <2>3, Zenon DEF Own, Copy
  <2>6. post \in [Node -> Seq(Sends(n)')]
    <3>1. Ev("create", n, r) \in Sends(n)'
      BY <2>2, <2>4, Zenon DEF Sends
    <3> QED
      BY <3>1, ToType, Zenon
  <2> HIDE DEF r, post
  <2>7. /\ wire' \in [Node -> [Node -> Seq(Event)]] /\ \A k \in Node : wire'[k][k] = <<>>
        /\ \A k \in Node \ {n} : wire'[k] = wire[k]
    BY <2>2, <2>4, SentType, Zenon
  <2>8. wire'[n] \in [Node -> Seq(Sends(n)')]
    <3> DEFINE T == Sends(n)'
    <3>1. wire[n] \in [Node -> Seq(T)]
      BY <1>4, <2>4, OwnGrows, Zenon
    <3>2. post \in [Node -> Seq(T)]
      BY <2>6, Zenon
    <3> HIDE DEF T
    <3>3. wire'[n] = [q \in Node |-> IF {n, q} \in up THEN wire[n][q] \o post[q] ELSE wire[n][q]]
      BY <1>1, <2>4, Zenon DEF Sent
    <3>4. ASSUME NEW q \in Node PROVE wire[n][q] \o post[q] \in Seq(T) /\ wire[n][q] \in Seq(T)
      <4>1. wire[n][q] \in Seq(T) /\ post[q] \in Seq(T)
        BY <3>1, <3>2, Zenon
      <4> QED
        BY <4>1
    <3>5. wire'[n] \in [Node -> Seq(T)]
      BY <3>3, <3>4, Zenon
    <3> QED
      BY <3>5, Zenon DEF T
  <2>9. AllSends'
    <3>1. \A k \in Node : \A q \in [Node -> Seq(Sends(k))] : q \in [Node -> Seq(Sends(k)')]
      BY <2>4, OwnGrows, Zenon
    <3> QED
      BY <1>4, <2>4, <2>7, <2>8, <3>1, Zenon DEF AllSends
  <2>10. room' \in [Node -> Copy]
    BY <1>1, <2>1, <2>4, Zenon DEF Copy
  <2>11. TypeOK'
    BY <2>4, <2>7, <2>10, Zenon DEF Inv, TypeOK
  <2>12. \A k \in Node : Own(k) \subseteq Own(k)'
    BY <2>4, OwnGrows, Zenon
  <2>13. \A k \in Node : room'[k] \in Own(k)'
    BY <1>1, <1>3, <2>4, <2>5, <2>12, Zenon
  <2>14. AllOwn'
    BY <1>3, <2>4, <2>12, <2>13, Zenon DEF AllOwn
  <2>15. NoSelf'
    BY <2>4, <2>7, Zenon DEF Inv, NoSelf
  <2> QED
    BY <2>11, <2>14, <2>15, <2>9, Zenon DEF Inv
<1>6. CASE UpdateRoom(n)
  <2>1. PICK c \in call[n] :
          /\ room' = [room EXCEPT ![n] = c.room] /\ call' = [call EXCEPT ![n] = @ \ {c}]
          /\ wire' = Sent(n, c.post) /\ left' \in {left, left \cup {n}, left \ {n}}
    BY <1>6, Zenon DEF UpdateRoom
  <2>2. UNCHANGED <<pending, up, founder, agreed, calls, drops>>
    BY <1>6, Zenon DEF UpdateRoom
  <2>3. /\ wire' \in [Node -> [Node -> Seq(Event)]] /\ \A k \in Node : wire'[k][k] = <<>>
        /\ wire'[n] \in [Node -> Seq(Sends(n))] /\ \A k \in Node \ {n} : wire'[k] = wire[k]
    <3>1. c.post \in [Node -> Seq(Sends(n))]
      BY <1>4, Zenon
    <3>2. c.post \in [Node -> Seq(Event)]
      BY <3>1, SendsType, Zenon
    <3>3. wire' = Sent(n, c.post)
      BY <2>1, Zenon
    <3> QED
      BY <3>1, <3>2, <3>3, SentType, Zenon
  <2>4. c.room \in Copy
    BY <1>3, Zenon DEF Own
  <2>5. room' \in [Node -> Copy] /\ call' \in [Node -> SUBSET Call]
    BY <1>1, <2>1, <2>4, Zenon
  <2>6. left' \subseteq Node
    BY <2>1, Zenon DEF Inv, TypeOK
  <2>7. TypeOK'
    BY <2>2, <2>3, <2>5, <2>6, Zenon DEF Inv, TypeOK
  <2>8. \A k \in Node : Own(k)' = Own(k) /\ Sends(k)' = Sends(k)
    BY <2>2, Zenon DEF Own, Sends
  <2>9. \A k \in Node : room'[k] \in Own(k)
    BY <1>1, <1>3, <2>1, Zenon
  <2>10. \A k \in Node : call'[k] \subseteq call[k]
    BY <1>1, <2>1, Zenon
  <2>11. AllOwn'
    BY <1>3, <2>2, <2>8, <2>9, <2>10, Zenon DEF AllOwn
  <2>12. NoSelf'
    BY <2>2, <2>3, Zenon DEF Inv, NoSelf
  <2>13. AllSends'
    BY <1>4, <2>3, <2>8, <2>10, Zenon DEF AllSends
  <2> QED
    BY <2>7, <2>11, <2>12, <2>13, Zenon DEF Inv
<1>7. CASE WriteBack(n)
  <2>1. PICK w \in pending[n] : /\ room' = [room EXCEPT ![n] = w.room]
                                /\ pending' = [pending EXCEPT ![n] = @ \ {w}]
    BY <1>7, Zenon DEF WriteBack
  <2>2. UNCHANGED <<call, up, wire, founder, agreed, left, calls, drops>>
    BY <1>7, Zenon DEF WriteBack
  <2>3. w.room \in Copy /\ w.room \in Own(n)
    BY <1>1, <1>3
  <2>4. room' \in [Node -> Copy]
    BY <1>1, <2>1, <2>3, Zenon
  <2>5. pending' \in [Node -> SUBSET [from : Node \cup {Nobody}, room : Copy]]
    BY <1>1, <2>1, Zenon
  <2>6. TypeOK'
    BY <2>2, <2>4, <2>5, Zenon DEF Inv, TypeOK
  <2>7. \A k \in Node : Own(k)' = Own(k) /\ room'[k] \in Own(k) /\ pending'[k] \subseteq pending[k]
    BY <1>1, <1>3, <2>1, <2>2, <2>3, Zenon DEF Own
  <2>8. AllOwn'
    BY <1>3, <2>2, <2>7, Zenon DEF AllOwn
  <2>9. NoSelf'
    BY <2>2, Zenon DEF Inv, NoSelf
  <2>10. AllSends'
    BY <2>2, Zenon DEF Inv, AllSends, Sends
  <2> QED
    BY <2>6, <2>8, <2>9, <2>10, Zenon DEF Inv
<1>8. CASE handleRoomEvent(n, p)
  <2> DEFINE e == Head(wire[p][n])
             new == {[from |-> p, room |-> r] : r \in Written(n, p, e, room[n])}
  <2>1. /\ wire[p][n] # <<>> /\ wire' = [wire EXCEPT ![p][n] = Tail(@)]
        /\ pending' = [pending EXCEPT ![n] = @ \cup new]
        /\ UNCHANGED <<room, call, up, founder, agreed, left, calls, drops>>
    BY <1>8, Zenon DEF handleRoomEvent
  <2>2. p # n
    BY <1>2, <2>1, Zenon
  <2>3. e \in Sends(p)
    <3>1. wire[p][n] \in Seq(Sends(p))
      BY <1>4, Zenon
    <3> QED
      BY <2>1, <3>1
  <2> HIDE DEF e
  <2>4. Written(n, p, e, room[n]) \subseteq Own(n)
    BY <1>3, <2>2, <2>3, WrittenOwn, Zenon
  <2>5. \A w \in new : w \in [from : Node \cup {Nobody}, room : Copy] /\ w.room \in Own(n)
    BY <2>4 DEF Own
  <2> HIDE DEF new
  <2>6. pending' \in [Node -> SUBSET [from : Node \cup {Nobody}, room : Copy]]
    BY <1>1, <2>1, <2>5, Zenon
  <2>7. wire' \in [Node -> [Node -> Seq(Event)]] /\ \A k \in Node : wire'[k][k] = wire[k][k]
    <3>1. Tail(wire[p][n]) \in Seq(Event)
      BY <1>1, <2>1
    <3> QED
      BY <1>1, <2>1, <2>2, <3>1, Zenon
  <2>8. \A k \in Node : wire'[k] \in [Node -> Seq(Sends(k))]
    <3>1. Tail(wire[p][n]) \in Seq(Sends(p))
      <4>1. wire[p][n] \in Seq(Sends(p))
        BY <1>4, Zenon
      <4> QED
        BY <2>1, <4>1
    <3>2. wire'[p] = [wire[p] EXCEPT ![n] = Tail(wire[p][n])] /\ \A k \in Node \ {p} : wire'[k] = wire[k]
      BY <1>1, <2>1, Zenon
    <3>3. wire'[p] \in [Node -> Seq(Sends(p))]
      BY <1>4, <3>1, <3>2, Zenon
    <3> QED
      BY <1>4, <3>2, <3>3, Zenon
  <2>9. AllSends'
    <3>1. \A k \in Node : Sends(k)' = Sends(k)
      BY <2>1, Zenon DEF Sends
    <3> QED
      BY <1>4, <2>1, <2>8, <3>1, Zenon DEF AllSends
  <2>10. TypeOK'
    BY <2>1, <2>6, <2>7, Zenon DEF Inv, TypeOK
  <2>11. \A k \in Node : Own(k)' = Own(k) /\ \A w \in pending'[k] : w.room \in Own(k)
    BY <1>1, <1>3, <2>1, <2>5, Zenon DEF Own
  <2>12. AllOwn'
    BY <1>3, <2>1, <2>11, Zenon DEF AllOwn
  <2>13. NoSelf'
    BY <2>1, <2>7, Zenon DEF Inv, NoSelf
  <2> QED
    BY <2>10, <2>12, <2>13, <2>9, Zenon DEF Inv
<1> QED
  BY <1>5, <1>6, <1>7, <1>8, Zenon

\* The gain and the loss of a session preserve Inv.
LEMMA SessionStep ==
  ASSUME Inv, NEW a \in Node, NEW b \in Node, Connect(a, b) \/ Drop(a, b)
  PROVE  Inv'
<1>1. a # b
  BY DEF Connect, Drop, Node
<1>2. CASE Connect(a, b)
  <2>1. up' = up \cup {{a, b}} /\ UNCHANGED <<room, call, pending, wire, founder, agreed, left, calls, drops>>
    BY <1>2, Zenon DEF Connect
  <2>2. {a, b} \in Pair /\ \A k \in Node : {a, b} # {k}
    BY <1>1 DEF Pair
  <2>3. TypeOK'
    BY <2>1, <2>2, Zenon DEF Inv, TypeOK
  <2>4. NoSelf'
    BY <2>1, <2>2, Zenon DEF Inv, NoSelf
  <2>5. AllOwn'
    BY <2>1, Zenon DEF Inv, AllOwn, Own
  <2>6. AllSends'
    BY <2>1, Zenon DEF Inv, AllSends, Sends
  <2> QED
    BY <2>3, <2>4, <2>5, <2>6, Zenon DEF Inv
<1>3. CASE Drop(a, b)
  <2> DEFINE cut(n, w) == [w EXCEPT !.from = IF {n, w.from} = {a, b} THEN Nobody ELSE @]
  <2>1. /\ up' = up \ {{a, b}} /\ wire' = [wire EXCEPT ![a][b] = <<>>, ![b][a] = <<>>]
        /\ pending' = [n \in Node |-> {cut(n, w) : w \in pending[n]}]
        /\ drops' = drops + 1 /\ UNCHANGED <<room, call, founder, agreed, left, calls>>
    BY <1>3, Zenon DEF Drop
  <2>2. pending \in [Node -> SUBSET [from : Node \cup {Nobody}, room : Copy]]
    BY Zenon DEF Inv, TypeOK
  <2>3. ASSUME NEW n \in Node, NEW w \in pending[n]
        PROVE  cut(n, w) \in [from : Node \cup {Nobody}, room : Copy] /\ cut(n, w).room = w.room
    BY <2>2
  <2> HIDE DEF cut
  <2>4. pending' \in [Node -> SUBSET [from : Node \cup {Nobody}, room : Copy]]
    BY <2>1, <2>3
  <2>5. wire \in [Node -> [Node -> Seq(Event)]] /\ drops' \in Nat
    BY <2>1 DEF Inv, TypeOK
  <2>6. /\ wire' \in [Node -> [Node -> Seq(Event)]]
        /\ \A k, l \in Node : wire'[k][l] = wire[k][l] \/ wire'[k][l] = <<>>
    <3> DEFINE mid == [wire EXCEPT ![a][b] = <<>>]
    <3>1. <<>> \in Seq(Event)
      OBVIOUS
    <3>2. mid \in [Node -> [Node -> Seq(Event)]] /\ \A k, l \in Node : mid[k][l] = wire[k][l] \/ mid[k][l] = <<>>
      BY <2>5, <3>1, Zenon
    <3>3. wire' = [mid EXCEPT ![b][a] = <<>>]
      BY <2>1, Zenon
    <3> HIDE DEF mid
    <3>4. /\ wire' \in [Node -> [Node -> Seq(Event)]]
          /\ \A k, l \in Node : wire'[k][l] = mid[k][l] \/ wire'[k][l] = <<>>
      BY <3>1, <3>2, <3>3, Zenon
    <3> QED
      BY <3>2, <3>4, Zenon
  <2>7. \A k \in Node : wire'[k] \in [Node -> Seq(Sends(k))]
    <3>1. ASSUME NEW k \in Node PROVE wire'[k] \in [Node -> Seq(Sends(k))]
      <4> DEFINE T == Seq(Sends(k))
      <4>1. <<>> \in T
        OBVIOUS
      <4>2. wire[k] \in [Node -> T]
        BY Zenon DEF Inv, AllSends
      <4> HIDE DEF T
      <4>3. \A l \in Node : wire'[k][l] \in T
        BY <2>6, <4>1, <4>2, Zenon
      <4>4. wire'[k] \in [Node -> T]
        BY <2>6, <4>3, Zenon
      <4> QED
        BY <4>4, Zenon DEF T
    <3> QED
      BY <3>1, Zenon
  <2>8. AllSends'
    <3>1. \A k \in Node : Sends(k)' = Sends(k)
      BY <2>1, Zenon DEF Sends
    <3> QED
      BY <2>1, <2>7, <3>1, Zenon DEF Inv, AllSends
  <2>9. TypeOK'
    BY <2>1, <2>4, <2>5, <2>6, Zenon DEF Inv, TypeOK
  <2>10. NoSelf'
    BY <2>1, <2>6, Zenon DEF Inv, NoSelf
  <2>11. \A n \in Node : \A v \in pending'[n] : \E w \in pending[n] : v.room = w.room
    BY <2>1, <2>3
  <2>12. AllOwn'
    BY <2>1, <2>11 DEF Inv, AllOwn, Own
  <2> QED
    BY <2>9, <2>10, <2>12, <2>8, Zenon DEF Inv
<1> QED
  BY <1>2, <1>3, Zenon

\* The invariant holds in every reachable state.
THEOREM InvHolds == Spec => []Inv
<1>1. Init => Inv
  <2> SUFFICES ASSUME Init PROVE Inv
    BY Zenon
  <2>1. NoRoom \in Copy
    BY Zenon DEF Copy
  <2>2. TypeOK
    BY <2>1 DEF Init, TypeOK
  <2>3. \A n \in Node : NoRoom \in Own(n)
    BY NoRoomOwn, Zenon
  <2>4. AllOwn
    BY <2>3, Zenon DEF Init, AllOwn
  <2>5. NoSelf
    BY Zenon DEF Init, NoSelf
  <2>6. AllSends
    BY DEF Init, AllSends
  <2> QED
    BY <2>2, <2>4, <2>5, <2>6, Zenon DEF Inv
<1>2. Inv /\ [Next]_vars => Inv'
  <2> SUFFICES ASSUME Inv, [Next]_vars PROVE Inv'
    BY Zenon
  <2>1. CASE Next
    BY <2>1, CallStep, RoomStep, SessionStep, Zenon DEF Next
  <2>2. CASE UNCHANGED vars
    BY <2>2, Zenon DEF vars, Inv, TypeOK, NoSelf, AllOwn, Own, AllSends, Sends
  <2> QED
    BY <2>1, <2>2, Zenon
<1> QED
  BY <1>1, <1>2, PTL DEF Spec

\* Every variable keeps its type: what the calls and the handlers write is a
\* room, or none, and what they send is an event.
THEOREM TypeCorrect == Spec => []TypeOK
BY InvHolds, PTL DEF Inv

\* At most one node may add, remove and rename, however many nodes there are
\* and whatever is lost: only the node that made the room ever owns it.
THEOREM OneOwner == Spec => []AtMostOneOwner
<1>1. Inv => AtMostOneOwner
  BY DEF Inv, AllOwn, Own, AtMostOneOwner, Node, Nobody
<1> QED
  BY <1>1, InvHolds, PTL

\* No copy of the room ever lists more members than MaxRoomMembers, though the
\* limit is checked on the copy that was read and not on the one overwritten.
THEOREM LimitKept == Spec => []WithinLimit
<1>1. Inv => WithinLimit
  BY Zenon DEF Inv, AllOwn, Own, WithinLimit
<1> QED
  BY <1>1, InvHolds, PTL

\* Nobody is in a room who has never made it nor accepted it, whatever races
\* the write of a call or of a handler.
THEOREM Consent == Spec => []JoinedByConsent
<1>1. Inv => JoinedByConsent
  BY Zenon DEF Inv, AllOwn, Own, JoinedByConsent
<1> QED
  BY <1>1, InvHolds, PTL

=============================================================================

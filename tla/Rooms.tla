------------------------------- MODULE Rooms -------------------------------
(***************************************************************************)
(* The membership of one room: each node's own copy of the room, the calls *)
(* of the users that change it, the events that carry the changes to the   *)
(* other members, and the handlers that apply them.                        *)
(*                                                                         *)
(* internal/node/rooms.go over the room bucket of internal/store/store.go. *)
(* A call or a handler reads the room in one transaction and writes its    *)
(* changed copy back in another, which is an unconditional Put: the user's *)
(* calls, each of them a request of its own, and the read loops of the     *)
(* sessions share the bucket, so the two are two steps.  Every node knows  *)
(* every other as a pinned peer that speaks rooms (Trust and RoomOutbox    *)
(* are about those), and the order of the nodes' names is the order of     *)
(* their numbers.                                                          *)
(*                                                                         *)
(* A definition whose name starts with Faulty is a plausible bug in the    *)
(* one that follows it; no specification uses it.                          *)
(***************************************************************************)
EXTENDS Integers, Sequences, FiniteSets

CONSTANTS
  N,           \* nodes
  MaxMembers,  \* MaxRoomMembers
  MaxCalls,    \* calls by users after the room is made
  MaxDrop      \* sessions that are lost

ASSUME RoomBounds == N \in Nat /\ MaxMembers \in Nat /\ MaxCalls \in Nat /\ MaxDrop \in Nat

VARIABLES
  room,     \* each node's copy of the room (bRooms), or NoRoom
  call,     \* what the calls of each node's user are about to write and to send
  pending,  \* what the handlers of each node are about to write
  up,       \* sessions that are live, at both ends
  wire,     \* events in flight, wire[a][b] from a to b
  founder,  \* history: the node that made the room, or Nobody
  agreed,   \* history: nodes whose user has made or accepted the room
  left,     \* history: nodes whose user has left or declined it and not accepted it since
  calls, drops

vars == <<room, call, pending, up, wire, founder, agreed, left, calls, drops>>

Node   == 1 .. N
Nobody == 0
Pair   == {{a, b} : a, b \in Node}   \* a session, by its two ends

RoomRecord == [members : SUBSET Node, creator : Node, state : {"joined", "pending"}, name : {"old", "new"}]
NoRoom == [members |-> {}, creator |-> Nobody, state |-> "none", name |-> "none"]
Copy == RoomRecord \cup {NoRoom}

\* A room event: its kind, RoomActor, RoomMembers and RoomName.  The code sends
\* members only with a create, and a name only with a create or a rename; no
\* handler reads them in another.
Event == [t : {"create", "join", "remove", "leave", "rename"},
          who : Node, members : SUBSET Node, name : {"old", "new"}]
Ev(t, who, r) == [t |-> t, who |-> who, members |-> r.members, name |-> r.name]

\* What a call still has to write, and the event it then sends to each member.
NoPost == [p \in Node |-> <<>>]
Call   == [room : Copy, post : [Node -> Seq(Event)]]

Has(n) == room[n] # NoRoom

Init ==
  /\ room = [n \in Node |-> NoRoom]
  /\ call = [n \in Node |-> {}]
  /\ pending = [n \in Node |-> {}]
  /\ up = {}
  /\ wire = [a \in Node |-> [b \in Node |-> <<>>]]
  /\ founder = Nobody /\ agreed = {} /\ left = {}
  /\ calls = 0 /\ drops = 0

-----------------------------------------------------------------------------
(* Sessions.                                                               *)

Connect(a, b) ==
  /\ a < b /\ {a, b} \notin up
  /\ up' = up \cup {{a, b}}
  /\ UNCHANGED <<room, call, pending, wire, founder, agreed, left, calls, drops>>

\* A session is lost with what is in flight on it.  A handler that is at work
\* goes on, as that of a session that is no more.
Drop(a, b) ==
  /\ a < b /\ {a, b} \in up /\ drops < MaxDrop
  /\ up' = up \ {{a, b}}
  /\ wire' = [wire EXCEPT ![a][b] = <<>>, ![b][a] = <<>>]
  /\ pending' = [n \in Node |-> {[w EXCEPT !.from =
                    IF {n, w.from} = {a, b} THEN Nobody ELSE @] : w \in pending[n]}]
  /\ drops' = drops + 1
  /\ UNCHANGED <<room, call, founder, agreed, left, calls>>

\* sendRoomEvent to every member it is addressed to: only a live session
\* carries it, and nothing keeps it for later.
Sent(n, post) ==
  [wire EXCEPT ![n] = [p \in Node |-> IF {n, p} \in up THEN @[p] \o post[p] ELSE @[p]]]

-----------------------------------------------------------------------------
(* The users' calls.  A call that fails a check returns an error and leaves *)
(* no trace.                                                                *)

To(S, e) == [p \in Node |-> IF p \in S THEN <<e>> ELSE <<>>]

\* The room has been read and the checks are passed: r is what UpdateRoom or,
\* if it is NoRoom, DeleteRoom will write, and post what is sent after that.
Read(n, r, post) ==
  /\ calls < MaxCalls
  /\ call' = [call EXCEPT ![n] = @ \cup {[room |-> r, post |-> post]}]
  /\ calls' = calls + 1
  /\ UNCHANGED <<room, pending, up, founder, drops>>

CreateRoom(n, S) ==
  LET r == [members |-> S \cup {n}, creator |-> n, state |-> "joined", name |-> "old"] IN
  /\ founder = Nobody
  /\ S # {} /\ Cardinality(S) <= MaxMembers - 1
  /\ room' = [room EXCEPT ![n] = r]
  /\ wire' = Sent(n, To(r.members \ {n}, Ev("create", n, r)))
  /\ founder' = n /\ agreed' = agreed \cup {n}
  /\ UNCHANGED <<call, pending, up, left, calls, drops>>

AddRoomMember(n, m) ==
  LET r == [room[n] EXCEPT !.members = @ \cup {m}] IN
  /\ Has(n) /\ room[n].creator = n
  /\ m \notin room[n].members /\ Cardinality(room[n].members) < MaxMembers
  /\ Read(n, r, [p \in Node |->
       CASE p = m -> <<Ev("create", n, r)>>
         [] p \in r.members \ {n, m} -> <<Ev("join", m, r)>>
         [] OTHER -> <<>>])
  /\ UNCHANGED <<wire, agreed, left>>

RemoveRoomMember(n, m) ==
  LET r == [room[n] EXCEPT !.members = @ \ {m}] IN
  /\ Has(n) /\ room[n].creator = n
  /\ m # n /\ m \in room[n].members
  /\ Read(n, r, To((r.members \cup {m}) \ {n}, Ev("remove", m, r)))
  /\ UNCHANGED <<wire, agreed, left>>

First(S) == CHOOSE m \in S : \A k \in S : m <= k

FaultyLeaveRoom(n) ==
  LET rest == room[n].members \ {n}
      heir == IF room[n].creator # n THEN room[n].creator ELSE IF rest # {} THEN First(rest) ELSE Nobody
      r == [room[n] EXCEPT !.members = rest, !.creator = heir] IN
  /\ Has(n) /\ n \in room[n].members
  /\ Read(n, r, To(rest, Ev("leave", n, r)))
  /\ UNCHANGED <<wire, agreed, left>>

\* The one who leaves names the first of the others as the creator, in their
\* own copy, which stays unless nobody is left.
LeaveRoom(n) ==
  LET rest == room[n].members \ {n}
      heir == IF room[n].creator = n /\ rest # {} THEN First(rest) ELSE room[n].creator
      r == [room[n] EXCEPT !.members = rest, !.creator = heir] IN
  /\ Has(n) /\ n \in room[n].members
  /\ Read(n, IF rest = {} THEN NoRoom ELSE r, To(rest, Ev("leave", n, r)))
  /\ UNCHANGED <<wire, agreed, left>>

RenameRoom(n) ==
  LET r == [room[n] EXCEPT !.name = "new"] IN
  /\ Has(n) /\ room[n].creator = n
  /\ Read(n, r, To(r.members \ {n}, Ev("rename", n, r)))
  /\ UNCHANGED <<wire, agreed, left>>

AcceptRoomInvite(n) ==
  LET r == [room[n] EXCEPT !.state = "joined"] IN
  /\ Has(n) /\ room[n].state = "pending" /\ n \in room[n].members
  /\ Read(n, r, To(r.members \ {n}, Ev("join", n, r)))
  /\ agreed' = agreed \cup {n}
  /\ UNCHANGED <<wire, left>>

\* Declining tells the others before it deletes the room.
DeclineRoomInvite(n) ==
  /\ Has(n) /\ room[n].state = "pending"
  /\ Read(n, NoRoom, NoPost)
  /\ wire' = Sent(n, To(room[n].members \ {n}, Ev("leave", n, room[n])))
  /\ UNCHANGED <<agreed, left>>

\* A call writes what it made of the room it read, and sends its events.  In
\* the history left, a write without the user on the list is a departure, and
\* one that makes the copy joined ends it.
UpdateRoom(n) ==
  /\ \E c \in call[n] :
       /\ room' = [room EXCEPT ![n] = c.room]
       /\ wire' = Sent(n, c.post)
       /\ call' = [call EXCEPT ![n] = @ \ {c}]
       /\ left' = CASE n \notin c.room.members -> left \cup {n}
                    [] n \in c.room.members /\ c.room.state # room[n].state -> left \ {n}
                    [] OTHER -> left
  /\ UNCHANGED <<pending, up, founder, agreed, calls, drops>>

-----------------------------------------------------------------------------
(* handleRoomEvent at node n for an event from node p, when n's copy is r: *)
(* the copies it then writes, one or none.  An event that is refused, or   *)
(* tells nothing new of a member, writes none; a create or rename from the *)
(* creator is written even if it changes nothing.                          *)

FaultyOnCreate(n, p, e, r) ==
  IF n \notin e.members \/ Cardinality(e.members) > MaxMembers \/ (r # NoRoom /\ p # r.creator) THEN {}
  ELSE {[members |-> e.members, creator |-> p, state |-> "joined", name |-> e.name]}
FaultyInvited(n, p, e, r) ==
  IF n \notin e.members \/ Cardinality(e.members) > MaxMembers \/ (r # NoRoom /\ p # r.creator) THEN {}
  ELSE {[members |-> e.members, creator |-> n, state |-> "pending", name |-> e.name]}
OnCreate(n, p, e, r) ==
  IF n \notin e.members \/ Cardinality(e.members) > MaxMembers THEN {}
  ELSE IF r = NoRoom
    THEN {[members |-> e.members, creator |-> p, state |-> "pending", name |-> e.name]}
  ELSE IF p # r.creator THEN {}
  ELSE {[r EXCEPT !.members = e.members, !.name = e.name]}

\* A member that announces itself is on the list already; others are added by
\* the creator.
OnJoin(p, e, r) ==
  IF p = e.who \/ p # r.creator \/ e.who \in r.members \/ Cardinality(r.members) >= MaxMembers
  THEN {} ELSE {[r EXCEPT !.members = @ \cup {e.who}]}

OnRemove(n, p, e, r) ==
  IF p # r.creator THEN {}
  ELSE IF e.who = n THEN {NoRoom}
  ELSE IF e.who \in r.members THEN {[r EXCEPT !.members = @ \ {e.who}]} ELSE {}

OnLeave(p, r) == IF p \in r.members THEN {[r EXCEPT !.members = @ \ {p}]} ELSE {}

OnRename(p, e, r) == IF p = r.creator THEN {[r EXCEPT !.name = e.name]} ELSE {}

Written(n, p, e, r) ==
  CASE e.t = "create" -> OnCreate(n, p, e, r)
    [] e.t = "join"   /\ r # NoRoom -> OnJoin(p, e, r)
    [] e.t = "remove" /\ r # NoRoom -> OnRemove(n, p, e, r)
    [] e.t = "leave"  /\ r # NoRoom -> OnLeave(p, r)
    [] e.t = "rename" /\ r # NoRoom -> OnRename(p, e, r)
    [] OTHER -> {}

\* The read loop of n's session with p takes an event and reads the room.
handleRoomEvent(n, p) ==
  /\ wire[p][n] # <<>> /\ \A w \in pending[n] : w.from # p
  /\ wire' = [wire EXCEPT ![p][n] = Tail(@)]
  /\ pending' = [pending EXCEPT ![n] = @ \cup
                   {[from |-> p, room |-> r] : r \in Written(n, p, Head(wire[p][n]), room[n])}]
  /\ UNCHANGED <<room, call, up, founder, agreed, left, calls, drops>>

\* It writes the room back, whatever has become of it since.
WriteBack(n) ==
  /\ \E w \in pending[n] :
       /\ room' = [room EXCEPT ![n] = w.room]
       /\ pending' = [pending EXCEPT ![n] = @ \ {w}]
  /\ UNCHANGED <<call, up, wire, founder, agreed, left, calls, drops>>

-----------------------------------------------------------------------------

Next ==
  \/ \E n \in Node, S \in SUBSET Node : CreateRoom(n, S \ {n})
  \/ \E n, m \in Node : AddRoomMember(n, m) \/ RemoveRoomMember(n, m)
  \/ \E n \in Node : \/ LeaveRoom(n) \/ RenameRoom(n)
                     \/ AcceptRoomInvite(n) \/ DeclineRoomInvite(n)
                     \/ UpdateRoom(n) \/ WriteBack(n)
  \/ \E n, p \in Node : handleRoomEvent(n, p)
  \/ \E a, b \in Node : Connect(a, b) \/ Drop(a, b)

Spec == Init /\ [][Next]_vars

-----------------------------------------------------------------------------
(* Properties.                                                             *)

\* Every variable has its type.
TypeOK ==
  /\ room \in [Node -> Copy]
  /\ call \in [Node -> SUBSET Call]
  /\ pending \in [Node -> SUBSET [from : Node \cup {Nobody}, room : Copy]]
  /\ up \subseteq Pair
  /\ wire \in [Node -> [Node -> Seq(Event)]]
  /\ founder \in Node \cup {Nobody} /\ agreed \subseteq Node /\ left \subseteq Node
  /\ calls \in Nat /\ drops \in Nat

\* At most one node may add, remove and rename: two copies never each name
\* their own node as the creator, whichever events were lost or reordered
\* and whoever left.
AtMostOneOwner ==
  \A a, b \in Node : room[a].creator = a /\ room[b].creator = b => a = b

\* No copy lists more members than MaxRoomMembers, though calls and handlers
\* check the limit on a copy that may have changed when they write theirs.
WithinLimit == \A n \in Node : Cardinality(room[n].members) <= MaxMembers

\* Nobody is in a room, by their own copy of it, who has never made it nor
\* accepted an invitation to it, whatever the creator sends and whichever copy
\* is written back over a newer one.  That the user has left since does not
\* count here: AskedAgain is about that.
JoinedByConsent == \A n \in Node : room[n].state = "joined" => n \in agreed

\* One who has left the room and is invited again is asked again: the invitation
\* leaves them a pending copy.  It does not, because the copy of one who left
\* stays in the bucket, joined, and handleRoomEvent then takes the invitation
\* for the creator's refresh of a room they are in.
AskedAgain ==
  \A n \in left, p \in Node :
    wire[p][n] # <<>> /\ Head(wire[p][n]).t = "create" =>
      \A r \in OnCreate(n, p, Head(wire[p][n]), room[n]) : r.state = "pending"

=============================================================================

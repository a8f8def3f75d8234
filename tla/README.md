# Formal verification of Chirp

TLA+ models of Chirp's engine, checked with TLC on small instances, and theorems
about them for every instance, checked with TLAPS. Chirp is a serverless messenger
for one LAN: nodes find each other by mDNS, hold end-to-end encrypted sessions over
TCP, pin each other's keys on first use, and deliver messages from a persistent
outbox with acks, retries and deduplication.

    tlc -config MCDelivery_dedup.cfg MCDelivery     one run
    tlapm Delivery_proofs.tla                       the proofs of one module

## The system

| part | state | operations | meets |
|---|---|---|---|
| direct messages (`node.go`, `link.go`, `store.go`) | messages, index, outbox, attempts | SendReply, flush, RecordAttempt, AddMessage, MarkDelivered, deletions, Prune | sessions, trust |
| sessions (`node.go`, `link.go`, `session.go`) | `Node.live`, each link, the TCP connection | dial, accept, establish, runSession, pingLoop, readLoop, Stop | everything |
| trust (`store.go`, `views.go`) | pinned key, pending key, verified mark | Observe, Verify, AcceptKey, Forget | establish, SendReply |
| room delivery (`rooms.go`, `store.go`) | room messages, one outbox entry per member, sender sequence | SendRoomMessage, flushRoomMember, handleRoomMsg, handleRoomAck | sessions, membership |
| room membership (`rooms.go`) | every member's own copy of the room | create, invite, accept, decline, add, remove, leave, rename | sessions |
| file transfer (`node.go`, `link.go`, `files.go`) | file records, partial content, file outbox | SendFile, flushFile, BeginReceive, WriteChunk, CompleteFile, DeleteFile | sessions, `flushMu` |
| node loops (`node.go`, `events.go`) | `Node.mu`, nearby peers, subscribers, handshake slots | dialLoop, browseLoop, acceptLoop, emit, Stop | everything |
| application (`app.go`, `store.go`) | identity record, keys, locked or running | Setup, Restore, Unlock, EnablePassphrase, Close | store |
| event stream, HTTP API, web interface | buffers, requests | emit, handlers | all of the above |
| codec, Noise, identity, backup, QR, discovery | none kept across calls | pure functions and libraries | |

What makes it hard: every part is shared by goroutines that meet only in bbolt
transactions and in `Node.mu`; sessions are replaced while others still use them;
either process may be killed between any two transactions; and a transaction's
result is used after others have changed what it read. `PROJECT.json` lists the
hazards line by line.

## What is modelled

### Delivery, Mailbox

`Delivery` is one sender and one receiver. The store variables are the buckets
(`msgs`, `outbox`, `inbox`), `live` is `Node.live` of each end, `end[e][c]` is what
end `e` makes of connection `c` (handshake, up, closed, gone), `out` and `back` are
the frames and acks in flight on each connection, `fl` is every goroutine inside
`flush` and `rd` the receiver's read loop of each connection.

* A store call is one step, because it is one bbolt transaction. `flush` is split at
  linkFor, the lock with `Pending`, each `RecordAttempt` and each write; the read
  loop at AddMessage, the ack and the event.
* A connection may be cut at any time. Frames written before may still be read, and a
  write on a cut connection fails or is lost. An end may be killed at any time and
  keeps only its store. Connections overlap, and the two ends may register two
  connections in opposite orders.
* Both users delete messages, the sender also for everyone; retention prunes at both.
* Time is abstracted: `cooling` is the set of outbox messages in backoff, and
  `BackoffExpires` ends it at any moment.
* `stored`, `shown` and `discards` are history, used by the properties only.
* Two simplifications. `FlushAttempt` passes over a message only when it is gone from
  the store, while flush does so at any error of RecordAttempt; a database that fails is
  not modelled. Only the sender asks for a deletion for everyone; the other direction
  has the effect of `DeleteMessage` at the sender, which may come at any moment.

`Mailbox` is the abstract specification: a message is posted, accepted by the
receiver, and only then confirmed; each acceptance owes one announcement, which may
be missed and is never made twice. It has no sessions, frames or retries. `Delivery`
instances it with a read loop that has stored a message and not yet reached its
event as the one that owes the announcement.

### Trust

`Trust` is one node's record of one name and the connections that claim it: `pin`,
`pending` and `verified` are fields of the stored peer, `sess[c]` is where connection
`c` is in establish and runSession. `Observe` is one transaction and the registration
of the link another step, so a user's AcceptKey or Forget may come between them.
Forget, SendReply and the read loop are split where they go from the session to the
store. One Forget and one SendReply are in progress at a time. `vouched` and
`overruled` are history: `vouched` is the pin at the moment SetVerified ran, so the
comparison of the words and the click that follows it are one step here.

### RoomOutbox

`RoomOutbox` is the node that created a room, sending to its members. `box` is the
outbox bucket of <<member, message>> entries, `pos` and `last` the places
AddRoomMessage gives, `seq` and `num` the sender's own durable numbering, `th` the
goroutines: one per SendRoomMessage call and outboxLoop. A call is split at each of
its transactions (number, message, one entry per member), so the loop may flush the
first members' entries before the last ones exist. flushRoomMember is split at its
snapshot, which is taken before `flushMu`, at the lock, and at each attempt with its
write. Each member has a link that comes and goes, its own copy of the room (pending,
joined, removed) and the messages it has persisted; a member may fail to store one.
handleRoomAck is split between its look at the room and MarkRoomDelivered, so that a
removal may come between. The sender may be killed and may remove members. Lost links,
kills and messages not stored share one budget, `MaxFault`.

Attempts are counted per message. `RoomBackoff` is the code's expression in signed
integers of `Width` bits: RetryBase shifted left by the attempts, with no stop. In the
program it first turns negative at about attempt 34 (RetryBase is 2 s), then takes either
sign until about attempt 55, and is 0 from there on. From attempt `Width` on it is never
positive, so the count saturates there without loss. `due`, `acked` and `addressed` are
history.

### Rooms

`Rooms` is one room as every node sees it: `room[n]` is node n's own stored copy,
`wire[a][b]` the room events in flight between two nodes, `up` the live sessions. A
user's call reads the room, checks, writes it back and sends its events; a handler
reads, decides and writes. The read and the write are two transactions and the write
is an unconditional Put, so each is two steps: `call[n]` is what the calls of the user
have in hand, of which several may be under way, since each is a request of its own;
`pending[n]` is what the read loops of node n have, one for each session and one for each
that is over. Events go only to members with a live session and are not kept
for the others. Members are a set, because dedupeMembers and sortStrings keep the list
sorted and free of duplicates. `founder`, `agreed` and `left` are history. Only the
founder's copy ever names its own node as the creator (`AtMostOneOwner`), so that in this
system every create, remove and rename event comes from the founder. The handlers' check
that the sender is the creator is modelled, but no event here is refused by it: a node
that does not run this code is not part of the model.

### FileTransfer

`FileTransfer` is one file of `Size` chunks. At the sender: the record's status, its
place in the file outbox, and the goroutines in flushFile, which SendFile and every
tick of outboxLoop start without asking whether one is at work; they meet at the
`flushMu` of their link. `ack` is the link's channel for the resume offset: none,
empty, or holding an offset that may be late. At the receiver: the record (status and
`Received`), `data.tmp` and `data.enc` on the disk, and the read loop of each session.
Database and disk are separate steps, so the read loops of an old and a new session
and the user's DeleteFile come between BeginReceive's decision, its truncation and its
record, between WriteChunk's write and its counter, and between the hash, the saved
data and the status of CompleteFile. Saving the data is two steps, because os.WriteFile
truncates before it writes: `data.enc` is "part" in between and "torn" if the node is
killed there. A chunk on the disk is either the sender's or a
hole. Sessions come up at both ends at once (Delivery takes that apart) and may be cut,
replaced, or lost by a kill at either end.

### Node

`Node` is the goroutines of one node around `Node.mu`: the accept, browse and dial
loops, every connection from its making to the end of its session (accepted, dialled
by dialLoop, or by the user with Dial), the slots of `hsSem`, the neighbour's `dialing`
mark, `Node.live`, the subscribers, and Stop with its WaitGroup. A section under the
lock is one step that needs the lock to be free, with two exceptions: emit, split into
its sends so that an unsubscribe may try to come between, and the scan of dialLoop,
which calls logf with the lock held. `mu` is not reentrant, as in Go, so that loop then
waits for itself. outboxLoop and retentionLoop use the lock as browseLoop does. There
is one neighbour, the one dialLoop is to dial; expiry and backoff are choices.

### DeliveryProgress, RoomProgress, FileProgress

The liveness properties are about these modules. Each extends Delivery, RoomOutbox or
FileTransfer by one variable, `wedged`: the nodes whose `Node.mu` is lost, because
dialLoop has met an expired neighbour while it held it (`node.go:281`, see Node). Such a
node takes no step until it is restarted. Every action of the extended module is there
with that guard, and `Wedge` and `Restart` besides. Fairness is on these actions, so
that a node is not obliged to do what it can no longer do, and each property reads
`<>[](wedged = {}) => ...`: progress is promised only if every node that loses its
`Node.mu` is restarted and none loses it for good, because the code promises no more.

How the modules meet: Node establishes the sessions that Delivery, RoomOutbox, Rooms
and FileTransfer take as coming and going at any time, and Trust decides which are let
through. Each of those assumes less of sessions than Node and Delivery show: any
session may be lost at any step, and an old one overlaps its replacement.

### Faulty definitions

A definition named `Faulty...` is a plausible bug in the definition it precedes
(a missing guard, a missing reset, a dropped lock). No specification uses them. Each
property was seen to fail when one of them takes the place of the real definition;
`PROJECT.json` lists the pairs under `mutants`.

## The runs

| run | instance | what it checks |
|---|---|---|
| `delivery_dedup` | 1 message, 3 connections, 1 frame in flight, 1 deletion by the receiver | `AcksMeanPersisted`, `NothingLost`, `ShownOnce`, `OneLiveLink`, and that Delivery implements Mailbox |
| `delivery_live` | 1 message, 3 connections, 1 flush goroutine, a sender that may lose `Node.mu`, fairness | `EventuallyDelivered` |
| `delivery_first_session` | 2 messages, 2 connections, 1 frame in flight, 2 flush goroutines | `FirstSessionInOrder` |
| `delivery_order` | 2 messages, 2 connections | `InSendOrder` across a reconnect: violated |
| `trust` | 2 keys, 3 connections | `VerifiedKeyIsPinned`, `SessionsArePinned`, `PinKept` |
| `trust_outlives` | 2 keys, 2 connections | `NothingOutlivesThePin`: violated |
| `room_copies` | 1 message, 2 members, 1 lost link, kill or failed store, 1 removal, 2-bit durations, a sender that may lose `Node.mu`, fairness | `NoCopyLost`, `OnlyTheAddressed`, `DeliveredMeansPersisted`, `JoinedGetsItsMessages` |
| `room_status` | 1 message, 2 members, no failure | `DeliveredMeansEveryone`: violated |
| `files` | 2 chunks, 2 sessions at a time, 2 goroutines, 2 frames in flight, 1 failure, 1 deletion, ends that may lose `Node.mu`, fairness | `NeverServedWrong`, `UndisturbedNeverFails`, `SentAndArrived` |
| `membership` | 3 nodes, room for 3, 2 calls after the creation, 1 lost session | `AtMostOneOwner`, `JoinedByConsent` |
| `membership_rejoin` | 2 nodes, 3 calls, no failure | `AskedAgain`: violated |
| `node` | 2 connections at a time, 1 slot, 1 subscriber, 1 call of Dial, fairness | `SlotsAreHandshakes`, `OneDial`, `NoSendOnClosed`, `LiveIsServed`, `QuietAfterStop`, `StopReturns` |

Bounds. One message is enough for loss and duplication, which concern a message on
its own; two for order. Three connections are an old session, its replacement and the
retry after both: in `delivery_live` the first two overlap, register in opposite orders at
the two ends and end late, and the third is the one that lasts. One frame in flight already fills the pipe, so a blocked write is
among the behaviours. Connections are finite, so the last one is made when the others
are over and does not fail; until then everything may. Two keys are the pinned one and
another, and three connections let each return after the user's decision. In a room,
two members are one that is served and one that is not, and one message has an entry
for each. Two bits hold the three kinds of backoff there are: positive, overflowed to a
negative value, and 0 (not that the sign comes and goes).

A file of two chunks has a beginning, a resume in the middle and one at the end. Two
sessions are an old and a new one, numbers are used again when both ends are done with
them, and two goroutines are one at work and the one the next tick starts. One failure
is enough for every race of an old read loop with a new one; it is spent on a cut, a
kill of either end, a dial beside a live session, or an answer later than the timeout.
The run has two peers that both resume; the same instance with `Caps = {FALSE}`, a peer
that does not, holds as well (701,892 states). Three nodes are an owner, a member that
an event is about and one that hears of it. In `node` two connections are a session and
the one that replaces it, which may be of any kind, over and over: only the calls of
Dial are counted. One slot is both the first and the last.

`delivery_first_session` has a second connection, so that the first one may be cut or
killed at any point of it; what it claims stops when the second begins, which is where
`delivery_order` starts. In `files` two goroutines are too few for one of the things
`flushMu` prevents: without the lock three of them are needed to have a chunk refused
on an undisturbed link. The theorem is for any number of them.

Fairness (`DeliveryProgress!Fairness`) is weak and only on what the program does by
itself while its `Node.mu` is not lost: the dialer's tick, the goroutines of a session,
the one-second tick of outboxLoop that starts an unforced flush, a flush and a read loop
that have begun, and the passing of time. Users, failures, restarts, RetryNow and the
forced flush at the start of a session are never obliged to happen, so delivery does not
rest on them. `RoomProgress!Fairness` is of the same kind; no member is obliged to answer
an invitation. `FileProgress!Fairness` is weak, on each goroutine and each read loop, on
noticing a broken connection, and on making a session while none is live.
`Node!Fairness` is weak on each goroutine that is past its waiting point (a handshake has
a deadline), and strong on a loop's noticing that its context is done: a `select` that is
ready both ways is not decided the same way for ever. No peer is obliged to call or to
hang up and nobody to call Stop.

`JoinedGetsItsMessages` holds for a reason worth knowing. outboxLoop visits the members
in order and the attempt count is the message's: while the first member is connected
and does not acknowledge, each retry to it puts the message in backoff just before the
second member's turn. The second is passed over until the unclamped shift has
overflowed, which takes some 34 attempts, about a quarter of an hour, with the default
RetryBase and RetryMax: a negative backoff holds nothing back, and the second member's
turn comes. A clamp like the one in
`backoff` of `node.go` would starve the second member.

`StopReturns` names its two exceptions because the code has them. dialLoop calls logf
and emit while it holds `Node.mu` once a neighbour has not been announced for two
minutes (`node.go:281`), and both lock `Node.mu`: the loop and everything that needs
the lock after it wait for ever. A session made by Dial watches the background context
(`node.go:744`): when it registers after Stop has closed the live links, nothing on
this side ends it. The property says that whenever neither happens Stop returns, so
that these are all the ways for it to hang. `QuietAfterStop` says what Stop has waited
for when it returns: all loops and all sessions. A Dial that is then still in establish
goes on, and starts a session in a goroutine that nobody waits for.

`SentAndArrived` has two halves, because MarkFileSent asks for no answer. Whatever
happens, the file leaves the outbox; and if nothing disturbed the transfer the receiver
has completed it. What a disturbed transfer comes to is below.

### Where the code and its documents disagree

* `delivery_order`: `docs/PROTOCOL.md` says messages arrive in send order. A message
  attempted on a session that was lost is in backoff on the next; if the ticker's
  flush takes the lock before the new session's forced flush, it sends later messages
  first.
* `trust_outlives`: a comment on Forget says it drops any live session and removes all
  messages. A connection between Observe and its registration, a read loop holding a
  message, and a SendReply past its checks all outlive it. A comment on AcceptKey says no
  session can exist while a key is changed. A session of the pinned key stays up when
  another key claims the name, and stays live after the new key is accepted.
* `room_status`: a comment on MarkRoomDelivered, and the page with "Delivered to
  everyone", say that a message is delivered when all members have acknowledged it. It
  looks only for entries that are left. A member whose entry SendRoomMessage has not
  added yet is not waited for, and as a delivered message is left alone from then on
  (`store.go:1277`), its entry never goes and it is sent the message again and again.
  The converse fails too, with two messages: entries of any message are counted, so one
  acknowledged by all while another is queued stays queued.
* `membership_rejoin`: `docs/ARCHITECTURE.md:111` says that the creator cannot put
  someone in a room, and the page tells one who leaves that their copy is deleted. The
  copy stays, joined, and when the creator adds them again the create event refreshes it
  (`rooms.go:723`): they are back without being asked.

Met while modelling, and not given a run of their own:

* Files. MarkFileSent follows the last write, not the receiver's word. When the last
  chunks go into a connection that is already cut, or the receiver is killed after
  counting the last chunk and before CompleteFile, so that it answers the next header
  with the full size, the file leaves the outbox and the receiver's copy stays
  "receiving". `docs/PROTOCOL.md:74` says that a transfer that is cut off partway
  "picks up where it stopped". `Received` can also run ahead of the disk, which
  `docs/PROTOCOL.md:92` excludes: one read loop truncates `data.tmp` while another is
  between its write and its counter. Such a transfer ends "failed" at the hash check,
  which is why `NeverServedWrong` holds all the same. A sender killed before
  MarkFileSent sends again, and a completed file goes back to "receiving". When the read
  loops of two sessions both pass the hash, the second truncates `data.enc` and writes it
  again after the first has called the file complete (`files.go:54`): a reader in between,
  or a kill, finds a complete file that is short. `NeverServedWrong` allows just that.
* Rooms. When the owner leaves, only their own copy names a new owner; the others keep
  the one who left, so nobody can add, remove or rename any more, where
  `docs/ARCHITECTURE.md:113` and the comment at `rooms.go:338` say ownership is
  transferred. Two calls, or a call and a handler, that overlap lose one of their changes,
  and a write-back can restore a room that a remove event or a decline has just deleted.
* Node. Stop can hang, where its comment says that it shuts everything down: see
  `StopReturns` above. `docs/ARCHITECTURE.md:62` says that Stop waits for every goroutine;
  a session that a late Dial starts is not waited for.

`ShownOnce` says what the code promises when a received message is deleted: the dedup
entry goes with it, so a retransmission that is still due is announced again.
`docs/ARCHITECTURE.md` admits this for pruning; it also holds for deletion.

## The proofs

Every safety property that a passing run checks is also a theorem, without the run's
bounds. A leaf that names `Zenon` is first-order reasoning; the others are arithmetic
and sequences, and go to the SMT solver.

`Delivery_proofs`, for any number of messages, connections, frames in flight and
flush goroutines (`DeliveryBounds` says only that the bounds are natural numbers and a
connection holds at least one frame):

* `TypeCorrect`: `TypeOK` is inductive; lemma `TypeStep` has one step per action.
* `AcksAreSound`, `NoMessageLost`: `NothingLost` is not inductive. What keeps it true
  is that a sender drops a message only for an ack, and an ack exists only for a
  stored message. `Inv` adds to `TypeOK` that every ack in flight, every read loop past
  AddMessage and every delivered or pruned mark stands for a stored message
  (`AcksMeanPersisted`), and that a queued message is in the outbox.
* `NewestSessionWins`: `OneLiveLink` is inductive given `TypeOK`.
* `RInvHolds`, which the next two modules rest on: `RInv` adds to `Inv` that only posted
  messages are in the outbox, in a goroutine's list or on the wire, that what the
  receiver holds it has stored, and that a read loop about to announce has not met a
  duplicate.

`Trust_proofs`, for any set of keys and any number of connections:

* `VerifiedIsSound`, `SessionsSound`: both with the fact that a pending key belongs to
  a known peer and differs from the pin, without which AcceptKey could not be shown to
  change the pin.
* `PinIsKept`: an action property, by cases on the actions: of all steps only AcceptKey
  puts another key in the pin's place, the pending one, and only ForgetPeer empties it.
* `TypeCorrect`: `TypeOK` is inductive.

`RoomOutbox_proofs`, for any number of members and messages and any bounds:

* `CopiesKept`: with the fact that every ack in flight stands for a message its member
  has persisted (`AcksMeanStored`).
* `SentAsAddressed`: whoever is sent a message was in the room as SendRoomMessage read
  it. With the facts that the members a goroutine keeps, the outbox entries and every
  snapshot of them are of members the message is addressed to, although each may be out of
  date when used.
* `DeliveredIsPersisted`: an action property of MarkRoomDelivered. It looks at the
  entries that are left and not at the acks, so it rests on `NoCopyLost` for the entries
  that are gone: each left for an ack of its own member. It says
  nothing of a member without an entry: `room_status` is about that.
* `NumbersNotReused`: no two stored messages share a sender sequence number, with the
  fact that every number given out is at most the counter (`NumbersGiven`). It is only
  proved; no run is spent on it.

`Delivery_refinement`, under the same assumptions as `Delivery_proofs`:

* `DeliveryIsMailbox`: every step of Delivery is a step of Mailbox or a stutter. Without
  `RInv` a frame could be accepted that nobody posted.
* `NeverShownTwice`: by a count. For each message, the announcements made and the read
  loops about to make one are together at most the copies stored.

`Delivery_order`, under the same assumptions:

* `FirstSessionOrder`: until a second connection is made, what the receiver persists for
  the first time is newer than all it had persisted. The order rests on four things that
  hold together or not at all (`OInv`). A message on the wire is newer than all before it
  unless it is there for the second time (`WireOrder`). A message that a later one has
  overtaken is one its sender deleted, and nobody is about to write it (`NoneOvertaken`).
  A flush, whose list may be old, has left out nothing older than what it is going to
  send (`NoneLeftOut`); this is where the per-link lock and the skipping of messages in
  backoff meet, and it needs that a message in backoff has already gone out on this
  session or is just being written (`CoolingIsSent`). The last fact is the one that a
  second session breaks, because backoff outlives the session, and `delivery_order` shows
  how. Once the connection is cut only `WireOrder` goes on holding, and it is enough:
  nothing new is read that was not on the wire.

`Rooms_proofs`, for any number of nodes, calls and lost sessions:

* `OneOwner`, `Consent`: neither is inductive, because a copy read long ago may be
  written back. `AllOwn` says the same of every copy in the bucket, in a call's hand and
  in a handler's hand: it names its own node as the owner only at the founder, and is
  joined only at a node whose user agreed. Lemma `WrittenOwn` is the heart: no event
  makes the node it reaches the owner or joined, given that no node has a session with
  itself (`NoSelf`, which establish refuses).
* `LimitKept`: every copy in the bucket or in hand has at most MaxRoomMembers members.
  AddRoomMember and the handlers check the limit on the copy they are going to write, so
  that writing back an old copy cannot exceed it. It is only proved.

`FileTransfer_proofs`, for a file of any length and any number of sessions, goroutines,
failures and deletions:

* `OnlyTheRightBytes`: `Safe` adds that a read loop about to save has hashed the bytes
  it saves, and that, until somebody deletes, `data.enc` is whole, torn by a kill or just
  being written when the record says complete or a read loop is about to say so.
  Nothing is assumed of `data.tmp`, which is as wild as the interleavings make it.
* `TypeCorrect` needs that a goroutine with a chunk to send has not reached the end of
  the file, and that the chunk being counted is one of the file.
* `NothingFailsByItself`: a chunk is refused when it is past what the record counts, and
  a refusal closes the link, so that a transfer could in principle undo itself. `Smooth`,
  which holds while nothing was cut, killed, dialled twice, late or deleted, says why it
  does not. One goroutine is past `flushMu` (`Turns`). Each chunk on the wire, and the one
  about to be written, follows the frame before it, and the first is one the read loop
  will take (`Wire`, `Ready`). With CapResume one header is under way, on the wire, in the
  read loop, as an answer on the way back or in the channel, and the goroutine that sent it
  waits (`Answer`). The partial has no holes and is as long as the record says (`Disk`), so
  the hash is right at the end. Without CapResume a second goroutine starts from 0
  whatever the receiver has, and its chunks lie within the partial or follow it.

`Node_proofs`, for any number of connections, slots, subscribers and calls of Dial:

* `EmitsToOpen`: with `MuOK`, who holds the lock when. An emit holds it, and whoever
  else holds it is not emitting.
* `SlotsBalance`, `DialsOnce`: counts of the connections in a handshake and of those
  dialLoop made, carried through every step by the lemmas about `Cardinality`.
* `ServesTheLive`, `StopIsQuiet`: with `KindOK`, that only connections of dialLoop are
  in dial and dialDone, and `NotStarted`.

Only model-checked: liveness (`EventuallyDelivered`, `JoinedGetsItsMessages`,
`SentAndArrived`, `StopReturns`), since the prover handles neither fairness nor ENABLED.
`InSendOrder`, `NothingOutlivesThePin`, `DeliveredMeansEveryone` and `AskedAgain` are what
the violated runs refute.

## Not modelled

Noise, encryption, fingerprints, backups and QR codes are pure functions over library
primitives; the models take from them an authenticated key and an ordered stream. The
codec validates single envelopes without state. mDNS is a library: only its events
matter. The HTTP layer parses requests and calls one node operation each, with the
exception of deleteMessage, which is in Delivery. The browser code renders and polls.

Setup, Restore, Unlock and EnablePassphrase are not modelled: each is a short sequence
of the user's at start-up, and what could go wrong in them is which key a sealed record
opens under when two requests overlap: two Setups can leave the store with the key of
the one that failed, and two EnablePassphrase calls can seal the identity twice. That
takes a model of the key record, the sealed records and the running node together, of
which nothing else here has a part; `PROJECT.json` lists both as open hazards.

Of the room's messages, reactions (toggled in the store and sent once, without an
outbox), the deletion of a room while it is being sent to, and members added in the
middle of a delivery are left out. Typing and read marks are events that are passed on.
CancelReceive and DeleteFileOutbox have no callers.

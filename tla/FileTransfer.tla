---------------------------- MODULE FileTransfer ----------------------------
(***************************************************************************)
(* One file on its way from one node ("snd") to another ("rcv"): the file  *)
(* outbox, the goroutines that run flushFile, the resume offset and the    *)
(* timeout that waits for it, the receiver's partial on disk beside its    *)
(* record in the database, the final hash check, and deletion at both      *)
(* ends.                                                                   *)
(*                                                                         *)
(* internal/node/node.go, internal/node/link.go, internal/store/files.go.  *)
(* The file is Size chunks; a stored chunk is TRUE where it has the        *)
(* sender's bytes and FALSE where writing further on left a hole.  A bbolt *)
(* transaction is a step and so is each operation on the disk, because the *)
(* read loops of an old and a new session, and the user, share both.       *)
(*                                                                         *)
(* A definition whose name starts with Faulty is a plausible bug in the    *)
(* one that follows it; no specification uses it.                          *)
(***************************************************************************)
EXTENDS Integers, Sequences

CONSTANTS
  Size,         \* chunks of the file
  NLink,        \* sessions that exist at the same time, in any state
  Caps,         \* whether the two speak CapResume: the cases to consider
  NFlush,       \* goroutines that may be running flushFile at the same time
  MaxInFlight,  \* frames a direction of a connection holds before a write blocks
  MaxFail,      \* cuts, kills, extra dials and answers later than fileAckWait
  MaxDelete     \* deletions by the users

ASSUME TransferBounds ==
  /\ Size \in Nat \ {0} /\ NLink \in Nat /\ NFlush \in Nat /\ MaxInFlight \in Nat \ {0}
  /\ MaxFail \in Nat /\ MaxDelete \in Nat /\ Caps \subseteq BOOLEAN

VARIABLES
  resume,    \* both ends advertised CapResume in their hello
  file,      \* the sender's record of the file: its status (bFiles)
  queued,    \* whether the file is in the sender's file outbox (bFileOutbox)
  fl,        \* the flushFile goroutines
  ack,       \* link.fileAck: the registered channel of each link
  rec,       \* the receiver's record: status and Received (bFiles)
  dir,       \* whether the receiver's directory of the file exists
  tmp, held, \* data.tmp: whether it exists, and its content
  blob,      \* data.enc, written when the hash is right: "part" while it is
             \* being written and "torn" if a kill left it so
  rd,        \* the receiver's read loop of each link
  rm,        \* the receiver's user is between the two halves of DeleteFile
  live,      \* the sender's live link, or NoLink
  end,       \* what each end makes of each link
  cut,       \* links whose two ends no longer reach each other
  out, back, \* frames in flight to the receiver; offsets in flight to the sender
  fails, deletes  \* how much of MaxFail and MaxDelete is used up

sndVars  == <<resume, file, queued>>
diskVars == <<dir, tmp, held, blob>>
rcvVars  == <<rec, diskVars, rm>>
linkVars == <<live, end, cut>>
wireVars == <<out, back>>
vars == <<sndVars, fl, ack, rcvVars, rd, linkVars, wireVars, fails, deletes>>

Link   == 1 .. NLink
Flushers == 1 .. NFlush
NoLink == 0
End    == {"snd", "rcv"}
Offset == 0 .. Size
Whole  == [i \in 1 .. Size |-> TRUE]

\* What a link's fileAck map holds for the file: no channel, an empty one, or
\* one holding an offset.
NoChan    == -2
EmptyChan == -1

Frame == [t : {"file"}, off : {0}] \cup [t : {"chunk"}, off : 0 .. Size - 1]

\* A goroutine in flushFile: where it is, its link and the next chunk it sends.
FlushState == [pc : {"idle", "lock", "header", "wait", "chunk", "sent"},
               link : Link \cup {NoLink}, off : Offset]

\* A read loop: what it does next, the offset or chunk it is about, whether the
\* hash was right, and whether it has had a header (rxFile).
ReadState == [pc : {"recv", "init", "put", "ack", "count", "verify", "save", "fill",
                     "status", "fail", "remove"},
              off : Offset, ok : BOOLEAN, rx : BOOLEAN]

IdleFlush == [pc |-> "idle", link |-> NoLink, off |-> 0]
IdleRead  == [pc |-> "recv", off |-> 0, ok |-> FALSE, rx |-> FALSE]

NoRecord == [st |-> "none", got |-> 0]

Init ==
  /\ resume \in Caps
  /\ file = "none" /\ queued = FALSE
  /\ fl = [f \in Flushers |-> IdleFlush]
  /\ ack = [c \in Link |-> NoChan]
  /\ rec = NoRecord
  /\ dir = FALSE /\ tmp = FALSE /\ held = <<>> /\ blob = "none"
  /\ rd = [c \in Link |-> IdleRead]
  /\ rm = FALSE
  /\ live = NoLink
  /\ end = [e \in End |-> [c \in Link |-> "down"]]
  /\ cut = {}
  /\ out = [c \in Link |-> <<>>] /\ back = [c \in Link |-> <<>>]
  /\ fails = 0 /\ deletes = 0

-----------------------------------------------------------------------------
(* Sessions.  Delivery takes their establishment apart; here a session     *)
(* comes up at both ends at once.                                          *)

Fail == fails < MaxFail /\ fails' = fails + 1

\* End e closes link c, which the other end then notices.
CloseAt(e, c) ==
  /\ end' = [end EXCEPT ![e][c] = IF @ = "up" THEN "closed" ELSE @]
  /\ cut' = cut \cup {c}

\* No end and no goroutine has a use for link c any more.
Free(c) == (\A e \in End : end[e][c] = "down") /\ \A f \in Flushers : fl[f].link # c

\* A new session replaces the live one at both ends.  dialLoop only dials when
\* no session is live; an explicit Dial does not look.  The number c only names
\* the session, so the lowest one will do, as for the goroutines in StartFlush.
Connect(c) ==
  /\ Free(c) /\ \A d \in Link : Free(d) => c <= d
  /\ IF live = NoLink THEN UNCHANGED fails ELSE Fail
  /\ live' = c
  /\ end' = [e \in End |-> [d \in Link |->
               CASE d = c -> "up" [] d # c /\ end[e][d] = "up" -> "closed" [] OTHER -> end[e][d]]]
  /\ cut' = (cut \cup {d \in Link : \E e \in End : end[e][d] = "up"}) \ {c}
  /\ out' = [out EXCEPT ![c] = <<>>] /\ back' = [back EXCEPT ![c] = <<>>]
  /\ ack' = [ack EXCEPT ![c] = NoChan]
  /\ UNCHANGED <<sndVars, fl, rcvVars, rd, deletes>>

\* The network drops the connection.
Cut(c) ==
  /\ c \notin cut /\ \E e \in End : end[e][c] = "up"
  /\ Fail
  /\ cut' = cut \cup {c}
  /\ UNCHANGED <<sndVars, fl, ack, rcvVars, rd, live, end, wireVars, deletes>>

\* Recv fails or a ping does.
Notice(e, c) ==
  /\ end[e][c] = "up" /\ c \in cut
  /\ end' = [end EXCEPT ![e][c] = "closed"]
  /\ UNCHANGED <<sndVars, fl, ack, rcvVars, rd, live, cut, wireVars, fails, deletes>>

FaultyRunSessionEnds(e, c) ==
  /\ end[e][c] = "closed"
  /\ e = "rcv" => rd[c].pc = "recv"
  /\ end' = [end EXCEPT ![e][c] = "down"]
  /\ rd' = IF e = "rcv" THEN [rd EXCEPT ![c] = IdleRead] ELSE rd
  /\ out' = IF e = "rcv" THEN [out EXCEPT ![c] = <<>>] ELSE out
  /\ back' = IF e = "snd" THEN [back EXCEPT ![c] = <<>>] ELSE back
  /\ UNCHANGED <<sndVars, fl, ack, rcvVars, live, cut, fails, deletes>>

\* What follows readLoop in runSession; unread frames are lost.
runSessionEnds(e, c) ==
  /\ end[e][c] = "closed"
  /\ e = "rcv" => rd[c].pc = "recv"
  /\ end' = [end EXCEPT ![e][c] = "down"]
  /\ live' = IF e = "snd" /\ live = c THEN NoLink ELSE live
  /\ rd' = IF e = "rcv" THEN [rd EXCEPT ![c] = IdleRead] ELSE rd
  /\ out' = IF e = "rcv" THEN [out EXCEPT ![c] = <<>>] ELSE out
  /\ back' = IF e = "snd" THEN [back EXCEPT ![c] = <<>>] ELSE back
  /\ UNCHANGED <<sndVars, fl, ack, rcvVars, cut, fails, deletes>>

\* A read loop is writing data.enc.
Filling == \E c \in Link : rd[c].pc = "fill"

\* End e is killed and started again: the database and the disk survive, a
\* data.enc that was being written as far as it was.
Crash(e) ==
  /\ Fail
  /\ end' = [end EXCEPT ![e] = [c \in Link |-> "down"]]
  /\ cut' = cut \cup {c \in Link : end[e][c] # "down"}
  /\ IF e = "snd"
       THEN /\ live' = NoLink
            /\ fl' = [f \in Flushers |-> IdleFlush]
            /\ ack' = [c \in Link |-> NoChan]
            /\ back' = [c \in Link |-> <<>>]
            /\ UNCHANGED <<rd, rm, blob, out>>
       ELSE /\ rd' = [c \in Link |-> IdleRead]
            /\ rm' = FALSE
            /\ blob' \in (IF Filling THEN {blob, "torn"} ELSE {blob}) \ {"part"}
            /\ out' = [c \in Link |-> <<>>]
            /\ UNCHANGED <<live, fl, ack, back>>
  /\ UNCHANGED <<sndVars, rec, dir, tmp, held, deletes>>

\* A write by end e on link c of the queue q: it fails on a link this end has
\* closed, is lost or fails on one that is cut, and otherwise waits for room.
WriteFails(e, c) == end[e][c] # "up" \/ c \in cut
WriteLost(e, c)  == end[e][c] = "up" /\ c \in cut
WriteOK(e, c, q) == end[e][c] = "up" /\ c \notin cut /\ Len(q[c]) < MaxInFlight

-----------------------------------------------------------------------------
(* The sender.                                                             *)

\* SendFile: AddOutboundFile stores the data and then the record with its
\* outbox entry in one transaction.  The flushFile it starts is one of StartFlush's.
SendFile ==
  /\ file = "none"
  /\ file' = "queued" /\ queued' = TRUE
  /\ UNCHANGED <<resume, fl, ack, rcvVars, rd, linkVars, wireVars, fails, deletes>>

\* DeleteFile at the sender: a flushFile under way keeps the data it has read.
SndDelete ==
  /\ deletes < MaxDelete /\ file \notin {"none", "deleted"}
  /\ file' = "deleted" /\ queued' = FALSE
  /\ deletes' = deletes + 1
  /\ UNCHANGED <<resume, fl, ack, rcvVars, rd, linkVars, wireVars, fails>>

\* SendFile, or a tick of outboxLoop that found the file in FileOutbox, starts a
\* goroutine, whether or not an earlier one is still at work: linkFor, GetFile,
\* FileBlob and MarkFileSending.  One that finds no link or another status
\* returns and leaves no trace.
StartFlush(f) ==
  /\ fl[f].pc = "idle" /\ \A g \in Flushers : fl[g].pc = "idle" => f <= g
  /\ queued /\ live # NoLink /\ file \in {"queued", "sending"}
  /\ file' = "sending"
  /\ fl' = [fl EXCEPT ![f] = [pc |-> "lock", link |-> live, off |-> 0]]
  /\ UNCHANGED <<resume, queued, ack, rcvVars, rd, linkVars, wireVars, fails, deletes>>

\* Some goroutine holds the flushMu of link c.
FlushLocked(c) ==
  \E g \in Flushers : fl[g].link = c /\ fl[g].pc \in {"header", "wait", "chunk", "sent"}

\* flushMu taken, and, for a peer that resumes, awaitFileAck: a fresh channel
\* before the header goes out.
Lock(f) ==
  /\ fl[f].pc = "lock" /\ ~FlushLocked(fl[f].link)
  /\ ack' = [ack EXCEPT ![fl[f].link] = IF resume THEN EmptyChan ELSE @]
  /\ fl' = [fl EXCEPT ![f].pc = "header"]
  /\ UNCHANGED <<sndVars, rcvVars, rd, linkVars, wireVars, fails, deletes>>

\* The goroutine returns: cancelFileAck, flushMu released.
Return(f) ==
  /\ fl' = [fl EXCEPT ![f] = IdleFlush]
  /\ ack' = [ack EXCEPT ![fl[f].link] = NoChan]

\* A write of frame m by goroutine f, which goes on as g; if it fails the link
\* is closed and the file stays in the outbox.
Write(f, m, g) ==
  LET c == fl[f].link IN
  /\ \/ /\ WriteOK("snd", c, out)
        /\ out' = [out EXCEPT ![c] = Append(@, m)]
        /\ fl' = [fl EXCEPT ![f] = g]
        /\ UNCHANGED <<ack, end, cut>>
     \/ /\ WriteLost("snd", c)
        /\ fl' = [fl EXCEPT ![f] = g]
        /\ UNCHANGED <<out, ack, end, cut>>
     \/ /\ WriteFails("snd", c)
        /\ Return(f)
        /\ CloseAt("snd", c)
        /\ UNCHANGED out
  /\ UNCHANGED <<sndVars, rcvVars, rd, live, back, fails, deletes>>

Header(f) ==
  /\ fl[f].pc = "header"
  /\ Write(f, [t |-> "file", off |-> 0], [fl[f] EXCEPT !.pc = IF resume THEN "wait" ELSE "chunk"])

FaultyResume(f) ==
  LET off == ack[fl[f].link] IN
  /\ fl[f].pc = "wait" /\ off \in Offset
  /\ ack' = [ack EXCEPT ![fl[f].link] = EmptyChan]
  /\ fl' = [fl EXCEPT ![f] = [@ EXCEPT !.pc = IF off + 1 >= Size THEN "sent" ELSE "chunk", !.off = off + 1]]
  /\ UNCHANGED <<sndVars, rcvVars, rd, linkVars, wireVars, fails, deletes>>

\* The channel has the offset: send from there, or nothing is left to send.
Resume(f) ==
  LET off == ack[fl[f].link] IN
  /\ fl[f].pc = "wait" /\ off \in Offset
  /\ ack' = [ack EXCEPT ![fl[f].link] = EmptyChan]
  /\ fl' = [fl EXCEPT ![f] = [@ EXCEPT !.pc = IF off >= Size THEN "sent" ELSE "chunk", !.off = off]]
  /\ UNCHANGED <<sndVars, rcvVars, rd, linkVars, wireVars, fails, deletes>>

\* fileAckWait has passed.  On a working link the answer was only late, which
\* counts as a failure.
Timeout(f) ==
  LET c == fl[f].link IN
  /\ fl[f].pc = "wait"
  /\ IF WriteFails("snd", c) THEN UNCHANGED fails ELSE Fail
  /\ Return(f)
  /\ UNCHANGED <<sndVars, rcvVars, rd, linkVars, wireVars, deletes>>

Chunk(f) ==
  /\ fl[f].pc = "chunk"
  /\ Write(f, [t |-> "chunk", off |-> fl[f].off],
           [fl[f] EXCEPT !.off = @ + 1, !.pc = IF fl[f].off + 1 = Size THEN "sent" ELSE "chunk"])

\* MarkFileSent, a no-op for a file that was deleted meanwhile.
MarkFileSent(f) ==
  /\ fl[f].pc = "sent"
  /\ queued' = FALSE
  /\ file' = IF file = "deleted" THEN file ELSE "sent"
  /\ Return(f)
  /\ UNCHANGED <<resume, rcvVars, rd, linkVars, wireVars, fails, deletes>>

\* deliverFileAck: into the channel if one is registered and empty.
RecvFileAck(c) ==
  /\ end["snd"][c] = "up" /\ back[c] # <<>>
  /\ back' = [back EXCEPT ![c] = Tail(@)]
  /\ ack' = [ack EXCEPT ![c] = IF @ = EmptyChan THEN Head(back[c]) ELSE @]
  /\ UNCHANGED <<sndVars, fl, rcvVars, rd, linkVars, out, fails, deletes>>

-----------------------------------------------------------------------------
(* The receiver: the read loop of link c.  It reads a frame only while its *)
(* end is up, but a frame it has read it processes to the end, whatever    *)
(* happens to the connection.                                              *)

\* The read loop closes the connection and returns.
Abort(c) ==
  /\ rd' = [rd EXCEPT ![c] = IdleRead]
  /\ CloseAt("rcv", c)

Reads(c, t) == end["rcv"][c] = "up" /\ rd[c].pc = "recv" /\ out[c] # <<>> /\ Head(out[c]).t = t

MinOf(a, b) == IF a < b THEN a ELSE b

\* What BeginReceive decides to resume from: the smaller of the counter and
\* what is on the disk, when a transfer of this file was under way.
HeldSoFar == IF rec.st = "receiving" /\ tmp THEN MinOf(rec.got, Len(held)) ELSE 0

\* A header: BeginReceive up to the decision.
BeginReceive(c) ==
  /\ Reads(c, "file")
  /\ out' = [out EXCEPT ![c] = Tail(@)]
  /\ dir' = TRUE
  /\ rd' = [rd EXCEPT ![c] = [@ EXCEPT !.pc = IF HeldSoFar = 0 THEN "init" ELSE "put", !.off = HeldSoFar]]
  /\ UNCHANGED <<sndVars, fl, ack, rec, tmp, held, blob, rm, linkVars, back, fails, deletes>>

\* BeginReceive empties data.tmp, unless the directory has been removed.
InitTemp(c) ==
  /\ rd[c].pc = "init"
  /\ IF dir
       THEN /\ tmp' = TRUE /\ held' = <<>>
            /\ rd' = [rd EXCEPT ![c].pc = "put"]
            /\ UNCHANGED <<end, cut>>
       ELSE Abort(c) /\ UNCHANGED <<tmp, held>>
  /\ UNCHANGED <<sndVars, fl, ack, rec, dir, blob, rm, live, wireVars, fails, deletes>>

\* BeginReceive writes the record, replacing any earlier one.
PutRecord(c) ==
  /\ rd[c].pc = "put"
  /\ rec' = [st |-> "receiving", got |-> rd[c].off]
  /\ rd' = [rd EXCEPT ![c] = [@ EXCEPT !.pc = IF resume THEN "ack" ELSE "recv", !.rx = TRUE]]
  /\ UNCHANGED <<sndVars, fl, ack, diskVars, rm, linkVars, wireVars, fails, deletes>>

\* The read loop answers with the offset; a failed write ends it.
SendFileAck(c) ==
  /\ rd[c].pc = "ack"
  /\ \/ /\ WriteOK("rcv", c, back)
        /\ back' = [back EXCEPT ![c] = Append(@, rd[c].off)]
        /\ rd' = [rd EXCEPT ![c].pc = "recv"]
        /\ UNCHANGED <<end, cut>>
     \/ /\ WriteLost("rcv", c)
        /\ rd' = [rd EXCEPT ![c].pc = "recv"]
        /\ UNCHANGED <<back, end, cut>>
     \/ /\ WriteFails("rcv", c)
        /\ Abort(c)
        /\ UNCHANGED back
  /\ UNCHANGED <<sndVars, fl, ack, rcvVars, live, out, fails, deletes>>

\* held with the chunk at offset i written, and a hole before it if it was short.
WithChunk(i) == [j \in 1 .. IF i < Len(held) THEN Len(held) ELSE i + 1 |->
                   j = i + 1 \/ (j <= Len(held) /\ held[j])]

\* A chunk: WriteChunk puts the bytes on the disk, creating data.tmp if it has
\* to, which fails only without the directory.
WriteBytes(c) ==
  LET i == Head(out[c]).off IN
  /\ Reads(c, "chunk")
  /\ out' = [out EXCEPT ![c] = Tail(@)]
  /\ \/ /\ ~rd[c].rx
        /\ UNCHANGED <<tmp, held, rd, end, cut>>
     \/ /\ rd[c].rx /\ dir
        /\ tmp' = TRUE /\ held' = WithChunk(i)
        /\ rd' = [rd EXCEPT ![c] = [@ EXCEPT !.pc = "count", !.off = i]]
        /\ UNCHANGED <<end, cut>>
     \/ /\ rd[c].rx /\ ~dir
        /\ Abort(c)
        /\ UNCHANGED <<tmp, held>>
  /\ UNCHANGED <<sndVars, fl, ack, rec, dir, blob, rm, live, back, fails, deletes>>

FaultyCountBytes(c) ==
  LET got == rec.got + 1 IN
  /\ rd[c].pc = "count"
  /\ IF rec.st = "none" \/ rd[c].off > rec.got
       THEN Abort(c) /\ UNCHANGED rec
       ELSE /\ rec' = [rec EXCEPT !.got = got]
            /\ rd' = [rd EXCEPT ![c].pc = IF got >= Size THEN "verify" ELSE "recv"]
            /\ UNCHANGED <<end, cut>>
  /\ UNCHANGED <<sndVars, fl, ack, diskVars, rm, live, wireVars, fails, deletes>>

\* WriteChunk's transaction: refused without a record or past a gap, and
\* otherwise the high-water mark moves.
CountBytes(c) ==
  LET got == IF rd[c].off + 1 > rec.got THEN rd[c].off + 1 ELSE rec.got IN
  /\ rd[c].pc = "count"
  /\ IF rec.st = "none" \/ rd[c].off > rec.got
       THEN Abort(c) /\ UNCHANGED rec
       ELSE /\ rec' = [rec EXCEPT !.got = got]
            /\ rd' = [rd EXCEPT ![c].pc = IF got >= Size THEN "verify" ELSE "recv"]
            /\ UNCHANGED <<end, cut>>
  /\ UNCHANGED <<sndVars, fl, ack, diskVars, rm, live, wireVars, fails, deletes>>

FaultyVerify(c) ==
  /\ rd[c].pc = "verify"
  /\ rd' = [rd EXCEPT ![c] =
       IF rec.st = "receiving" /\ rec.got = Size /\ tmp
         THEN [@ EXCEPT !.pc = "save", !.ok = (held = Whole)]
         ELSE IdleRead]
  /\ UNCHANGED <<sndVars, fl, ack, rcvVars, linkVars, wireVars, fails, deletes>>

\* CompleteFile reads the record and data.tmp and compares the hash.  An error
\* is only logged, and the link's receive state is cleared either way.
Verify(c) ==
  /\ rd[c].pc = "verify"
  /\ rd' = [rd EXCEPT ![c] =
       IF rec.st = "receiving" /\ rec.got = Size /\ tmp
         THEN [@ EXCEPT !.pc = IF held = Whole THEN "save" ELSE "fail", !.ok = (held = Whole)]
         ELSE IdleRead]
  /\ UNCHANGED <<sndVars, fl, ack, rcvVars, linkVars, wireVars, fails, deletes>>

\* writeFileData with the bytes that were hashed: os.WriteFile first empties
\* data.enc, though another read loop may have written it already.
SaveData(c) ==
  /\ rd[c].pc = "save"
  /\ blob' = IF dir THEN "part" ELSE blob
  /\ rd' = [rd EXCEPT ![c] = IF dir THEN [@ EXCEPT !.pc = "fill"] ELSE IdleRead]
  /\ UNCHANGED <<sndVars, fl, ack, rec, dir, tmp, held, rm, linkVars, wireVars, fails, deletes>>

\* Then it writes them.
FillData(c) ==
  /\ rd[c].pc = "fill"
  /\ blob' = IF rd[c].ok THEN "whole" ELSE "wrong"
  /\ rd' = [rd EXCEPT ![c].pc = "status"]
  /\ UNCHANGED <<sndVars, fl, ack, rec, dir, tmp, held, rm, linkVars, wireVars, fails, deletes>>

\* setFileStatus, to complete or by markFileFailed to failed; only the former
\* stops at a record that is gone.
SetStatus(c) ==
  /\ rd[c].pc \in {"status", "fail"}
  /\ rec' = IF rec.st = "none" THEN rec
            ELSE [rec EXCEPT !.st = IF rd[c].pc = "status" THEN "complete" ELSE "failed"]
  /\ rd' = [rd EXCEPT ![c] = IF rec.st = "none" /\ rd[c].pc = "status" THEN IdleRead
                             ELSE [@ EXCEPT !.pc = "remove"]]
  /\ UNCHANGED <<sndVars, fl, ack, diskVars, rm, linkVars, wireVars, fails, deletes>>

\* CompleteFile removes data.tmp.
RemoveTemp(c) ==
  /\ rd[c].pc = "remove"
  /\ tmp' = FALSE /\ held' = <<>>
  /\ rd' = [rd EXCEPT ![c] = IdleRead]
  /\ UNCHANGED <<sndVars, fl, ack, rec, dir, blob, rm, linkVars, wireVars, fails, deletes>>

\* DeleteFile at the receiver: the record first, then the directory.
RcvDelete ==
  /\ deletes < MaxDelete /\ rec.st # "none" /\ ~rm
  /\ rec' = NoRecord
  /\ rm' = TRUE /\ deletes' = deletes + 1
  /\ UNCHANGED <<sndVars, fl, ack, diskVars, rd, linkVars, wireVars, fails>>

\* A data.enc that is being written loses its name; the write goes on, to nobody.
RemoveDir ==
  /\ rm
  /\ rm' = FALSE
  /\ dir' = FALSE /\ tmp' = FALSE /\ held' = <<>> /\ blob' = "none"
  /\ rd' = [c \in Link |-> IF rd[c].pc = "fill" THEN [rd[c] EXCEPT !.pc = "status"] ELSE rd[c]]
  /\ UNCHANGED <<sndVars, fl, ack, rec, linkVars, wireVars, fails, deletes>>

-----------------------------------------------------------------------------

Flush(f) ==
  \/ StartFlush(f) \/ Lock(f) \/ Header(f)
  \/ Resume(f) \/ Timeout(f) \/ Chunk(f) \/ MarkFileSent(f)

Read(c) ==
  \/ BeginReceive(c) \/ InitTemp(c) \/ PutRecord(c) \/ SendFileAck(c)
  \/ WriteBytes(c) \/ CountBytes(c)
  \/ Verify(c) \/ SaveData(c) \/ FillData(c) \/ SetStatus(c) \/ RemoveTemp(c)

Next ==
  \/ SendFile \/ SndDelete \/ RcvDelete \/ RemoveDir
  \/ \E f \in Flushers : Flush(f)
  \/ \E c \in Link : Connect(c) \/ Cut(c) \/ RecvFileAck(c) \/ Read(c)
  \/ \E e \in End, c \in Link : Notice(e, c) \/ runSessionEnds(e, c)
  \/ \E e \in End : Crash(e)

Spec == Init /\ [][Next]_vars

-----------------------------------------------------------------------------
(* Properties.                                                             *)

\* Every variable has its type.
TypeOK ==
  /\ resume \in Caps
  /\ file \in {"none", "queued", "sending", "sent", "deleted"}
  /\ queued \in BOOLEAN
  /\ fl \in [Flushers -> FlushState]
  /\ ack \in [Link -> Offset \cup {NoChan, EmptyChan}]
  /\ rec \in [st : {"none", "receiving", "complete", "failed"}, got : Offset]
  /\ dir \in BOOLEAN /\ tmp \in BOOLEAN /\ rm \in BOOLEAN
  /\ held \in Seq(BOOLEAN) /\ Len(held) <= Size
  /\ blob \in {"none", "part", "torn", "whole", "wrong"}
  /\ rd \in [Link -> ReadState]
  /\ live \in Link \cup {NoLink}
  /\ end \in [End -> [Link -> {"down", "up", "closed"}]]
  /\ cut \subseteq Link
  /\ out \in [Link -> Seq(Frame)] /\ back \in [Link -> Seq(Offset)]
  /\ fails \in 0 .. MaxFail /\ deletes \in 0 .. MaxDelete

\* The receiver never stores other bytes than the sender's, whatever the read
\* loops of two sessions and the user did to the partial they share; and a file
\* it calls complete is there, whole, as long as nobody has deleted it, but for
\* one case: a second read loop, also past the hash check, is writing it again,
\* or was when the node was killed.  CompleteFile writes data.enc from the
\* bytes it has just hashed, and the status after it.
NeverServedWrong ==
  /\ blob # "wrong"
  /\ rec.st = "complete" /\ deletes = 0 => blob \in {"whole", "torn"} \/ Filling

\* What nothing disturbs succeeds: as long as there is no cut, kill, second dial,
\* late answer or deletion, no chunk is refused, which would close the link, and
\* no hash is wrong, however many goroutines were started for the file: one at a
\* time writes on the link, and it sends what the receiver has asked for or all.
UndisturbedNeverFails ==
  fails = 0 /\ deletes = 0 => cut = {} /\ rec.st # "failed"

=============================================================================

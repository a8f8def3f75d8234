------------------------ MODULE FileTransfer_proofs ------------------------
(***************************************************************************)
(* Proofs about module FileTransfer, for a file of any number of chunks    *)
(* and any number of sessions, goroutines, failures and deletions: the     *)
(* receiver never keeps other bytes than the sender's, and a transfer that *)
(* nothing disturbs does not fail.                                         *)
(***************************************************************************)
EXTENDS FileTransfer, TLAPS

(* The invariant, by the part of the state it speaks of.                   *)

\* A goroutine at work has a link, and a chunk to send unless it is done.
SndOK ==
  /\ resume \in Caps /\ queued \in BOOLEAN
  /\ file \in {"none", "queued", "sending", "sent", "deleted"}
  /\ fl \in [Flushers -> FlushState]
  /\ ack \in [Link -> Offset \cup {NoChan, EmptyChan}]
  /\ \A f \in Flushers : /\ fl[f].pc # "idle" => fl[f].link \in Link
                         /\ fl[f].pc # "sent" => fl[f].off < Size

\* The disk, the record and the read loops; the chunk a loop counts is one of
\* the file.
RcvOK ==
  /\ rec \in [st : {"none", "receiving", "complete", "failed"}, got : Offset]
  /\ dir \in BOOLEAN /\ tmp \in BOOLEAN /\ rm \in BOOLEAN
  /\ held \in Seq(BOOLEAN) /\ Len(held) <= Size
  /\ blob \in {"none", "part", "torn", "whole", "wrong"}
  /\ rd \in [Link -> ReadState]
  /\ \A c \in Link : rd[c].pc = "count" => rd[c].off < Size

LinkOK ==
  /\ live \in Link \cup {NoLink}
  /\ end \in [End -> [Link -> {"down", "up", "closed"}]]
  /\ cut \subseteq Link

WireOK  == out \in [Link -> Seq(Frame)] /\ back \in [Link -> Seq(Offset)]
CountOK == fails \in 0 .. MaxFail /\ deletes \in 0 .. MaxDelete

\* Only bytes that were hashed are about to be saved; data.enc is half written
\* only while a read loop writes it; and until somebody deletes something it is
\* still there when the status follows.
Safe ==
  /\ blob # "wrong"
  /\ blob = "part" => Filling
  /\ \A c \in Link : rd[c].pc \in {"save", "fill"} => rd[c].ok
  /\ deletes = 0 => /\ ~rm
                    /\ \A c \in Link : rd[c].pc \in {"fill", "status"} => blob # "none"
                    /\ rec.st = "complete" => blob # "none"

Inv == SndOK /\ RcvOK /\ LinkOK /\ WireOK /\ CountOK /\ Safe

\* A part of the state that does not change keeps its part of the invariant.
LEMMA Same ==
  /\ SndOK  /\ UNCHANGED <<resume, file, queued, fl, ack>>           => SndOK'
  /\ RcvOK  /\ UNCHANGED <<rec, dir, tmp, held, blob, rd, rm>>       => RcvOK'
  /\ LinkOK /\ UNCHANGED <<live, end, cut>>                          => LinkOK'
  /\ WireOK /\ UNCHANGED <<out, back>>                               => WireOK'
  /\ CountOK /\ UNCHANGED <<fails, deletes>>                         => CountOK'
  /\ Safe   /\ UNCHANGED <<rec, blob, rd, rm, deletes>>              => Safe'
<1>1. SndOK /\ UNCHANGED <<resume, file, queued, fl, ack>> => SndOK'
  BY Zenon DEF SndOK
<1>2. RcvOK /\ UNCHANGED <<rec, dir, tmp, held, blob, rd, rm>> => RcvOK'
  BY Zenon DEF RcvOK
<1>3. LinkOK /\ UNCHANGED <<live, end, cut>> => LinkOK'
  BY Zenon DEF LinkOK
<1>4. WireOK /\ UNCHANGED <<out, back>> => WireOK'
  BY Zenon DEF WireOK
<1>5. CountOK /\ UNCHANGED <<fails, deletes>> => CountOK'
  BY Zenon DEF CountOK
<1>6. Safe /\ UNCHANGED <<rec, blob, rd, rm, deletes>> => Safe'
  BY DEF Safe, Filling
<1> QED
  BY <1>1, <1>2, <1>3, <1>4, <1>5, <1>6, Zenon

\* Goroutine f goes on as v.
LEMMA FlushTo ==
  ASSUME SndOK, NEW f \in Flushers, NEW v \in FlushState,
         v.pc # "idle" => v.link \in Link, v.pc # "sent" => v.off < Size,
         fl' = [fl EXCEPT ![f] = v], UNCHANGED resume,
         queued' \in BOOLEAN, file' \in {"none", "queued", "sending", "sent", "deleted"},
         ack' \in [Link -> Offset \cup {NoChan, EmptyChan}]
  PROVE  SndOK'
<1>1. fl' \in [Flushers -> FlushState] /\ fl'[f] = v /\ \A g \in Flushers \ {f} : fl'[g] = fl[g]
  BY Zenon DEF SndOK
<1> QED
  BY <1>1, Zenon DEF SndOK

\* The read loop of link c goes on as v.
LEMMA ReadTo ==
  ASSUME RcvOK, NEW c \in Link, NEW v \in ReadState, v.pc = "count" => v.off < Size,
         rd' = [rd EXCEPT ![c] = v]
  PROVE  /\ rd' \in [Link -> ReadState]
         /\ rd'[c] = v /\ \A d \in Link \ {c} : rd'[d] = rd[d]
         /\ \A d \in Link : rd'[d].pc = "count" => rd'[d].off < Size
<1>1. rd' \in [Link -> ReadState] /\ rd'[c] = v /\ \A d \in Link \ {c} : rd'[d] = rd[d]
  BY Zenon DEF RcvOK
<1> QED
  BY <1>1, Zenon DEF RcvOK

\* The loops that write data.enc go on writing it.
LEMMA StillFilling ==
  ASSUME Filling, RcvOK, NEW c \in Link, NEW v, rd' = [rd EXCEPT ![c] = v],
         rd[c].pc # "fill" \/ v.pc = "fill"
  PROVE  Filling'
<1>1. rd'[c] = v /\ \A d \in Link \ {c} : rd'[d] = rd[d]
  BY Zenon DEF RcvOK
<1>2. PICK d \in Link : rd[d].pc = "fill"
  BY Zenon DEF Filling
<1>3. rd'[d].pc = "fill"
  BY <1>1, <1>2, Zenon
<1> QED
  BY <1>3, Zenon DEF Filling

\* A read loop that neither is nor gets about to save or to set the status
\* keeps Safe.
LEMMA ReadSafe ==
  ASSUME Safe, RcvOK, NEW c \in Link, NEW v \in ReadState, v.pc \notin {"save", "fill", "status"},
         rd[c].pc # "fill", rd' = [rd EXCEPT ![c] = v], UNCHANGED <<rec, blob, rm, deletes>>
  PROVE  Safe'
<1>1. rd'[c] = v /\ \A d \in Link \ {c} : rd'[d] = rd[d]
  BY Zenon DEF RcvOK
<1>2. blob' = "part" => Filling'
  BY StillFilling, Zenon DEF Safe
<1> QED
  BY <1>1, <1>2, Zenon DEF Safe

\* Closing a link at one end keeps the links' types.
LEMMA CloseLink ==
  ASSUME LinkOK, NEW e \in End, NEW c \in Link, CloseAt(e, c), UNCHANGED live
  PROVE  LinkOK'
BY Zenon DEF LinkOK, CloseAt

\* IdleFlush and IdleRead are states of a goroutine and of a read loop.
LEMMA Idle ==
  /\ IdleFlush \in FlushState /\ IdleFlush.pc = "idle" /\ IdleFlush.off < Size
  /\ IdleRead \in ReadState /\ IdleRead.pc = "recv"
BY TransferBounds DEF IdleFlush, FlushState, IdleRead, ReadState, Offset

\* A goroutine that returns keeps the sender's part.
LEMMA ReturnOK ==
  ASSUME SndOK, NEW f \in Flushers, Return(f), UNCHANGED resume,
         queued' \in BOOLEAN, file' \in {"none", "queued", "sending", "sent", "deleted"}
  PROVE  SndOK'
<1>1. ack' \in [Link -> Offset \cup {NoChan, EmptyChan}]
  BY Zenon DEF SndOK, Return
<1>2. fl' = [fl EXCEPT ![f] = IdleFlush]
  BY Zenon DEF Return
<1> QED
  BY <1>1, <1>2, Idle, FlushTo, Zenon

\* Writing a frame keeps the invariant if the goroutine may go on as g.
LEMMA WriteStep ==
  ASSUME Inv, NEW f \in Flushers, NEW m \in Frame, NEW g \in FlushState, Write(f, m, g),
         fl[f].link \in Link, g.link \in Link, g.pc # "sent" => g.off < Size
  PROVE  Inv'
<1> DEFINE c == fl[f].link
<1>1. UNCHANGED <<resume, file, queued, rec, dir, tmp, held, blob, rm, rd, live, back, fails, deletes>>
  BY Zenon DEF Write, sndVars, rcvVars, diskVars
<1>2. RcvOK' /\ CountOK' /\ Safe'
  BY <1>1, Same, Zenon DEF Inv
<1>3. CASE WriteOK("snd", c, out) /\ out' = [out EXCEPT ![c] = Append(@, m)] /\ fl' = [fl EXCEPT ![f] = g]
           /\ UNCHANGED <<ack, end, cut>>
  <2>1. SndOK'
    BY <1>1, <1>3, FlushTo, Zenon DEF Inv, SndOK
  <2>2. LinkOK'
    BY <1>1, <1>3, Same, Zenon DEF Inv
  <2>3. out' \in [Link -> Seq(Frame)]
    <3>1. Append(out[c], m) \in Seq(Frame)
      BY DEF Inv, WireOK
    <3> QED
      BY <1>3, <3>1, Zenon DEF Inv, WireOK
  <2> QED
    BY <1>1, <1>2, <2>1, <2>2, <2>3, Zenon DEF Inv, WireOK
<1>4. CASE fl' = [fl EXCEPT ![f] = g] /\ UNCHANGED <<out, ack, end, cut>>
  <2>1. SndOK'
    BY <1>1, <1>4, FlushTo, Zenon DEF Inv, SndOK
  <2> QED
    BY <1>1, <1>2, <1>4, <2>1, Same, Zenon DEF Inv
<1>5. CASE Return(f) /\ CloseAt("snd", c) /\ UNCHANGED out
  <2>1. SndOK'
    BY <1>1, <1>5, ReturnOK, Zenon DEF Inv, SndOK
  <2>2. LinkOK'
    BY <1>1, <1>5, CloseLink, Zenon DEF Inv, End
  <2> QED
    BY <1>1, <1>2, <1>5, <2>1, <2>2, Same, Zenon DEF Inv
<1> QED
  BY <1>3, <1>4, <1>5, Zenon DEF Write

\* Every step of a flushFile goroutine preserves Inv.
LEMMA FlushStep ==
  ASSUME Inv, NEW f \in Flushers, Flush(f)
  PROVE  Inv'
<1>1. /\ fl \in [Flushers -> FlushState] /\ fl[f] \in FlushState
      /\ fl[f].pc # "idle" => fl[f].link \in Link /\ (fl[f].pc # "sent" => fl[f].off < Size)
      /\ ack \in [Link -> Offset \cup {NoChan, EmptyChan}]
      /\ file \in {"none", "queued", "sending", "sent", "deleted"} /\ queued \in BOOLEAN
  BY Zenon DEF Inv, SndOK
<1>2. CASE StartFlush(f)
  <2> DEFINE v == [pc |-> "lock", link |-> live, off |-> 0]
  <2>1. live \in Link
    BY <1>2, Zenon DEF StartFlush, Inv, LinkOK
  <2>2. v \in FlushState /\ v.pc = "lock" /\ v.link = live /\ v.off < Size
    BY <2>1, TransferBounds DEF FlushState, Offset
  <2>3. /\ fl' = [fl EXCEPT ![f] = v] /\ file' = "sending"
        /\ UNCHANGED <<resume, queued, ack, rcvVars, rd, linkVars, wireVars, fails, deletes>>
    BY <1>2, Zenon DEF StartFlush
  <2> HIDE DEF v
  <2>4. SndOK'
    BY <1>1, <2>1, <2>2, <2>3, FlushTo, Zenon DEF Inv
  <2> QED
    BY <2>3, <2>4, Same, Zenon DEF Inv, rcvVars, diskVars, linkVars, wireVars
<1>3. CASE Lock(f)
  <2> DEFINE v == [fl[f] EXCEPT !.pc = "header"]
  <2>1. fl[f].pc = "lock" /\ fl[f].link \in Link
    BY <1>1, <1>3, Zenon DEF Lock
  <2>2. v \in FlushState /\ v.pc = "header" /\ v.link = fl[f].link /\ v.off < Size
    BY <1>1, <2>1, Zenon DEF FlushState
  <2>3. /\ fl' = [fl EXCEPT ![f] = v]
        /\ UNCHANGED <<sndVars, rcvVars, rd, linkVars, wireVars, fails, deletes>>
    BY <1>3, Zenon DEF Lock
  <2>4. ack' \in [Link -> Offset \cup {NoChan, EmptyChan}]
    BY <1>1, <1>3, Zenon DEF Lock
  <2> HIDE DEF v
  <2>5. SndOK'
    BY <1>1, <2>1, <2>2, <2>3, <2>4, FlushTo, Zenon DEF Inv, sndVars
  <2> QED
    BY <2>3, <2>5, Same, Zenon DEF Inv, rcvVars, diskVars, linkVars, wireVars
<1>4. CASE Header(f)
  <2> DEFINE v == [fl[f] EXCEPT !.pc = IF resume THEN "wait" ELSE "chunk"]
             m == [t |-> "file", off |-> 0]
  <2>1. fl[f].pc = "header" /\ fl[f].link \in Link /\ Write(f, m, v)
    BY <1>1, <1>4, Zenon DEF Header
  <2>2. v \in FlushState /\ v.link = fl[f].link /\ v.off < Size
    BY <1>1, <2>1, Zenon DEF FlushState
  <2>3. m \in Frame
    BY Zenon DEF Frame
  <2> HIDE DEF v, m
  <2> QED
    BY <2>1, <2>2, <2>3, WriteStep, Zenon
<1>5. CASE Resume(f)
  <2> DEFINE off == ack[fl[f].link]
             p == IF off >= Size THEN "sent" ELSE "chunk"
             v == [fl[f] EXCEPT !.pc = p, !.off = off]
  <2>1. /\ fl[f].pc = "wait" /\ fl[f].link \in Link /\ off \in Offset
        /\ fl' = [fl EXCEPT ![f] = v]
        /\ UNCHANGED <<sndVars, rcvVars, rd, linkVars, wireVars, fails, deletes>>
    BY <1>1, <1>5, Zenon DEF Resume
  <2>2. ack' \in [Link -> Offset \cup {NoChan, EmptyChan}]
    BY <1>1, <1>5, Zenon DEF Resume
  <2>3. v \in FlushState /\ v.link = fl[f].link /\ (v.pc # "sent" => v.off < Size)
    <3>1. p \in {"sent", "chunk"} /\ (p # "sent" => off < Size)
      BY <2>1, TransferBounds DEF Offset
    <3> HIDE DEF p, off
    <3>2. v \in FlushState /\ v.link = fl[f].link /\ v.pc = p /\ v.off = off
      BY <1>1, <2>1, <3>1, Zenon DEF FlushState
    <3> QED
      BY <3>1, <3>2, Zenon
  <2> HIDE DEF v
  <2>4. SndOK'
    BY <1>1, <2>1, <2>2, <2>3, FlushTo, Zenon DEF Inv, sndVars
  <2> QED
    BY <2>1, <2>4, Same, Zenon DEF Inv, rcvVars, diskVars, linkVars, wireVars
<1>6. CASE Timeout(f)
  <2>1. Return(f) /\ UNCHANGED <<sndVars, rcvVars, rd, linkVars, wireVars, deletes>>
    BY <1>6, Zenon DEF Timeout
  <2>2. SndOK'
    BY <1>1, <2>1, ReturnOK, Zenon DEF Inv, sndVars
  <2>3. CountOK'
    BY <1>6, <2>1, TransferBounds DEF Timeout, Fail, Inv, CountOK
  <2> QED
    BY <2>1, <2>2, <2>3, Same, Zenon DEF Inv, rcvVars, diskVars, linkVars, wireVars
<1>7. CASE Chunk(f)
  <2> DEFINE p == IF fl[f].off + 1 = Size THEN "sent" ELSE "chunk"
             v == [fl[f] EXCEPT !.off = @ + 1, !.pc = p]
             m == [t |-> "chunk", off |-> fl[f].off]
  <2>1. fl[f].pc = "chunk" /\ fl[f].link \in Link /\ fl[f].off \in 0 .. Size - 1 /\ Write(f, m, v)
    BY <1>1, <1>7, TransferBounds DEF Chunk, FlushState, Offset
  <2>2. v \in FlushState /\ v.link = fl[f].link /\ (v.pc # "sent" => v.off < Size)
    <3>1. /\ p \in {"sent", "chunk"} /\ (p # "sent" => fl[f].off + 1 < Size)
          /\ fl[f].off + 1 \in Offset
      BY <2>1, TransferBounds DEF Offset
    <3> HIDE DEF p
    <3>2. v \in FlushState /\ v.link = fl[f].link /\ v.pc = p /\ v.off = fl[f].off + 1
      BY <1>1, <3>1, Zenon DEF FlushState
    <3> QED
      BY <3>1, <3>2, Zenon
  <2>3. m \in Frame
    BY <2>1, Zenon DEF Frame
  <2> HIDE DEF v, m
  <2> QED
    BY <2>1, <2>2, <2>3, WriteStep, Zenon
<1>8. CASE MarkFileSent(f)
  <2>1. /\ Return(f) /\ queued' = FALSE /\ file' = (IF file = "deleted" THEN file ELSE "sent")
        /\ UNCHANGED <<resume, rcvVars, rd, linkVars, wireVars, fails, deletes>>
    BY <1>8, Zenon DEF MarkFileSent
  <2>2. SndOK'
    BY <1>1, <2>1, ReturnOK, Zenon DEF Inv
  <2> QED
    BY <2>1, <2>2, Same, Zenon DEF Inv, rcvVars, diskVars, linkVars, wireVars
<1> QED
  BY <1>2, <1>3, <1>4, <1>5, <1>6, <1>7, <1>8, Zenon DEF Flush

\* What a read loop finds at the head of its link, and what is left.
LEMMA Reading ==
  ASSUME WireOK, NEW c \in Link, NEW t \in {"file", "chunk"}, Reads(c, t), out' = [out EXCEPT ![c] = Tail(@)],
         UNCHANGED back
  PROVE  WireOK' /\ Head(out[c]) \in Frame /\ (t = "chunk" => Head(out[c]).off \in 0 .. Size - 1)
<1>1. out \in [Link -> Seq(Frame)] /\ out[c] # <<>> /\ Head(out[c]).t = t
  BY Zenon DEF WireOK, Reads
<1>2. Head(out[c]) \in Frame /\ Tail(out[c]) \in Seq(Frame)
  BY <1>1
<1>3. out' \in [Link -> Seq(Frame)]
  BY <1>1, <1>2, Zenon
<1>4. t = "chunk" => Head(out[c]).off \in 0 .. Size - 1
  BY <1>1, <1>2, Zenon DEF Frame
<1> QED
  BY <1>2, <1>3, <1>4, Zenon DEF WireOK

\* A read loop that goes on as v, with the disk and the record as they were or
\* of their types.
LEMMA ReadOn ==
  ASSUME RcvOK, NEW c \in Link, NEW v \in ReadState, v.pc = "count" => v.off < Size,
         rd' = [rd EXCEPT ![c] = v],
         rec' \in [st : {"none", "receiving", "complete", "failed"}, got : Offset],
         dir' \in BOOLEAN, tmp' \in BOOLEAN, rm' \in BOOLEAN,
         held' \in Seq(BOOLEAN), Len(held') <= Size,
         blob' \in {"none", "part", "torn", "whole", "wrong"}
  PROVE  RcvOK'
<1>1. rd' \in [Link -> ReadState] /\ \A d \in Link : rd'[d].pc = "count" => rd'[d].off < Size
  BY ReadTo, Zenon
<1> QED
  BY <1>1, Zenon DEF RcvOK

\* Writing chunk i keeps data.tmp within the file.
LEMMA WithChunkType ==
  ASSUME RcvOK, NEW i \in 0 .. Size - 1
  PROVE  WithChunk(i) \in Seq(BOOLEAN) /\ Len(WithChunk(i)) <= Size
<1> DEFINE n == IF i < Len(held) THEN Len(held) ELSE i + 1
           w(j) == j = i + 1 \/ (j <= Len(held) /\ held[j])
<1>1. held \in Seq(BOOLEAN) /\ Len(held) \in Nat /\ Len(held) <= Size
  BY DEF RcvOK
<1>2. n \in Nat /\ n <= Size
  BY <1>1, TransferBounds
<1>3. WithChunk(i) = [j \in 1 .. n |-> w(j)]
  BY Zenon DEF WithChunk
<1>4. \A j \in 1 .. n : w(j) \in BOOLEAN
  BY Zenon
<1> HIDE DEF n, w
<1>5. [j \in 1 .. n |-> w(j)] \in [1 .. n -> BOOLEAN]
  BY <1>4, Zenon
<1>6. WithChunk(i) \in Seq(BOOLEAN) /\ Len(WithChunk(i)) = n
  BY <1>2, <1>3, <1>5
<1> QED
  BY <1>2, <1>6, Zenon

\* What BeginReceive resumes from is an offset of the file.
LEMMA HeldSoFarType ==
  ASSUME RcvOK PROVE HeldSoFar \in Offset
<1>1. rec.got \in 0 .. Size /\ Len(held) \in 0 .. Size
  BY TransferBounds DEF RcvOK, Offset
<1> QED
  BY <1>1, TransferBounds DEF HeldSoFar, MinOf, Offset

\* A read loop that gives up keeps its part, the links and Safe.
LEMMA AbortOK ==
  ASSUME Inv, NEW c \in Link, rd[c].pc # "fill", Abort(c), UNCHANGED <<rec, dir, tmp, held, blob, rm, live, deletes>>
  PROVE  RcvOK' /\ LinkOK' /\ Safe'
<1>1. rd' = [rd EXCEPT ![c] = IdleRead] /\ CloseAt("rcv", c)
  BY Zenon DEF Abort
<1>2. RcvOK'
  BY <1>1, Idle, ReadOn, Zenon DEF Inv, RcvOK
<1>3. LinkOK'
  BY <1>1, CloseLink, Zenon DEF Inv, End
<1>4. Safe'
  BY <1>1, Idle, ReadSafe, Zenon DEF Inv
<1> QED
  BY <1>2, <1>3, <1>4, Zenon

\* The steps that answer a header preserve Inv.
LEMMA HeaderRead ==
  ASSUME Inv, NEW c \in Link,
         RecvFileAck(c) \/ BeginReceive(c) \/ InitTemp(c) \/ PutRecord(c) \/ SendFileAck(c)
  PROVE  Inv'
<1>1. rd \in [Link -> ReadState] /\ rd[c] \in ReadState
  BY Zenon DEF Inv, RcvOK
<1>2. CASE RecvFileAck(c)
  <2>1. /\ back[c] # <<>> /\ back' = [back EXCEPT ![c] = Tail(@)]
        /\ ack' = [ack EXCEPT ![c] = IF @ = EmptyChan THEN Head(back[c]) ELSE @]
        /\ UNCHANGED <<resume, file, queued, fl, rec, dir, tmp, held, blob, rm, rd, live, end, cut, out, fails, deletes>>
    BY <1>2, Zenon DEF RecvFileAck, sndVars, rcvVars, diskVars, linkVars
  <2>2. back[c] \in Seq(Offset) /\ ack \in [Link -> Offset \cup {NoChan, EmptyChan}]
    BY Zenon DEF Inv, WireOK, SndOK
  <2>3. Head(back[c]) \in Offset /\ Tail(back[c]) \in Seq(Offset)
    BY <2>1, <2>2
  <2>4. ack' \in [Link -> Offset \cup {NoChan, EmptyChan}]
    BY <2>1, <2>2, <2>3, Zenon
  <2>5. back' \in [Link -> Seq(Offset)]
    BY <2>1, <2>3, Zenon DEF Inv, WireOK
  <2>6. WireOK' /\ SndOK'
    BY <2>1, <2>4, <2>5, Zenon DEF Inv, WireOK, SndOK
  <2> QED
    BY <2>1, <2>6, Same, Zenon DEF Inv
<1>3. CASE BeginReceive(c)
  <2> DEFINE v == [rd[c] EXCEPT !.pc = IF HeldSoFar = 0 THEN "init" ELSE "put", !.off = HeldSoFar]
  <2>1. /\ Reads(c, "file") /\ rd[c].pc = "recv" /\ out' = [out EXCEPT ![c] = Tail(@)] /\ dir' = TRUE
        /\ rd' = [rd EXCEPT ![c] = v]
        /\ UNCHANGED <<resume, file, queued, fl, ack, rec, tmp, held, blob, rm, live, end, cut, back, fails, deletes>>
    BY <1>3, Zenon DEF BeginReceive, Reads, sndVars, linkVars
  <2>2. HeldSoFar \in Offset
    BY HeldSoFarType, Zenon DEF Inv
  <2>3. v \in ReadState /\ v.pc \in {"init", "put"}
    BY <1>1, <2>2, Zenon DEF ReadState
  <2> HIDE DEF v
  <2>4. WireOK'
    BY <2>1, Reading, Zenon DEF Inv
  <2>5. RcvOK'
    BY <2>1, <2>3, ReadOn, Zenon DEF Inv, RcvOK
  <2>6. Safe'
    BY <2>1, <2>3, ReadSafe, Zenon DEF Inv
  <2> QED
    BY <2>1, <2>4, <2>5, <2>6, Same, Zenon DEF Inv
<1>4. CASE InitTemp(c)
  <2>1. rd[c].pc = "init" /\ UNCHANGED <<resume, file, queued, fl, ack, rec, dir, blob, rm, live, out, back, fails, deletes>>
    BY <1>4, Zenon DEF InitTemp, sndVars, wireVars
  <2>2. SndOK' /\ WireOK' /\ CountOK'
    BY <2>1, Same, Zenon DEF Inv
  <2>3. CASE dir
    <3> DEFINE v == [rd[c] EXCEPT !.pc = "put"]
    <3>1. tmp' = TRUE /\ held' = <<>> /\ rd' = [rd EXCEPT ![c] = v] /\ UNCHANGED <<end, cut>>
      BY <1>4, <2>3, Zenon DEF InitTemp
    <3>2. v \in ReadState /\ v.pc = "put"
      BY <1>1, Zenon DEF ReadState
    <3> HIDE DEF v
    <3>3. held' \in Seq(BOOLEAN) /\ Len(held') <= Size
      BY <3>1, TransferBounds
    <3>4. RcvOK'
      BY <2>1, <3>1, <3>2, <3>3, ReadOn, Zenon DEF Inv, RcvOK
    <3>5. Safe'
      BY <2>1, <3>1, <3>2, ReadSafe, Zenon DEF Inv
    <3> QED
      BY <2>1, <2>2, <3>1, <3>4, <3>5, Same, Zenon DEF Inv
  <2>4. CASE ~dir
    <3>1. Abort(c) /\ UNCHANGED <<tmp, held>>
      BY <1>4, <2>4, Zenon DEF InitTemp
    <3> QED
      BY <2>1, <2>2, <3>1, AbortOK, Zenon DEF Inv
  <2> QED
    BY <2>3, <2>4, Zenon
<1>5. CASE PutRecord(c)
  <2> DEFINE v == [rd[c] EXCEPT !.pc = IF resume THEN "ack" ELSE "recv", !.rx = TRUE]
  <2>1. /\ rd[c].pc = "put" /\ rec' = [st |-> "receiving", got |-> rd[c].off] /\ rd' = [rd EXCEPT ![c] = v]
        /\ UNCHANGED <<resume, file, queued, fl, ack, dir, tmp, held, blob, rm, live, end, cut, out, back, fails, deletes>>
    BY <1>5, Zenon DEF PutRecord, sndVars, diskVars, linkVars, wireVars
  <2>2. v \in ReadState /\ v.pc \in {"ack", "recv"}
    BY <1>1, Zenon DEF ReadState
  <2> HIDE DEF v
  <2>3. rec' \in [st : {"none", "receiving", "complete", "failed"}, got : Offset] /\ rec'.st = "receiving"
    BY <1>1, <2>1, Zenon DEF ReadState
  <2>4. RcvOK'
    BY <2>1, <2>2, <2>3, ReadOn, Zenon DEF Inv, RcvOK
  <2>5. Safe'
    <3>1. rd'[c] = v /\ \A d \in Link \ {c} : rd'[d] = rd[d]
      BY <1>1, <2>1, Zenon
    <3>2. blob' = "part" => Filling'
      BY <2>1, StillFilling, Zenon DEF Inv, Safe
    <3> QED
      BY <2>1, <2>2, <2>3, <3>1, <3>2, Zenon DEF Inv, Safe
  <2> QED
    BY <2>1, <2>4, <2>5, Same, Zenon DEF Inv
<1>6. CASE SendFileAck(c)
  <2> DEFINE v == [rd[c] EXCEPT !.pc = "recv"]
  <2>1. rd[c].pc = "ack" /\ UNCHANGED <<resume, file, queued, fl, ack, rec, dir, tmp, held, blob, rm, live, out, fails, deletes>>
    BY <1>6, Zenon DEF SendFileAck, sndVars, rcvVars, diskVars
  <2>2. SndOK' /\ CountOK'
    BY <2>1, Same, Zenon DEF Inv
  <2>3. v \in ReadState /\ v.pc = "recv"
    BY <1>1, Zenon DEF ReadState
  <2>4. CASE rd' = [rd EXCEPT ![c] = v] /\ UNCHANGED <<end, cut>>
             /\ (back' = back \/ back' = [back EXCEPT ![c] = Append(@, rd[c].off)])
    <3> HIDE DEF v
    <3>1. RcvOK'
      BY <2>1, <2>3, <2>4, ReadOn, Zenon DEF Inv, RcvOK
    <3>2. Safe'
      BY <2>1, <2>3, <2>4, ReadSafe, Zenon DEF Inv
    <3>3. Append(back[c], rd[c].off) \in Seq(Offset)
      BY <1>1 DEF Inv, WireOK, ReadState
    <3>4. back' \in [Link -> Seq(Offset)]
      BY <2>4, <3>3, Zenon DEF Inv, WireOK
    <3>5. WireOK'
      BY <2>1, <3>4, Zenon DEF Inv, WireOK
    <3> QED
      BY <2>1, <2>2, <2>4, <3>1, <3>2, <3>5, Same, Zenon DEF Inv
  <2>5. CASE Abort(c) /\ UNCHANGED back
    BY <2>1, <2>2, <2>5, AbortOK, Same, Zenon DEF Inv
  <2> QED
    BY <1>6, <2>4, <2>5, Zenon DEF SendFileAck
<1> QED
  BY <1>2, <1>3, <1>4, <1>5, <1>6, Zenon

\* The steps that take a chunk and complete the file preserve Inv.
LEMMA ChunkRead ==
  ASSUME Inv, NEW c \in Link,
         \/ WriteBytes(c) \/ CountBytes(c)
         \/ Verify(c) \/ SaveData(c) \/ FillData(c) \/ SetStatus(c) \/ RemoveTemp(c)
  PROVE  Inv'
<1>1. /\ rd \in [Link -> ReadState] /\ rd[c] \in ReadState
      /\ rec \in [st : {"none", "receiving", "complete", "failed"}, got : Offset]
  BY Zenon DEF Inv, RcvOK
<1>2. CASE WriteBytes(c)
  <2> DEFINE i == Head(out[c]).off
             v == [rd[c] EXCEPT !.pc = "count", !.off = i]
  <2>1. /\ Reads(c, "chunk") /\ rd[c].pc = "recv" /\ out' = [out EXCEPT ![c] = Tail(@)]
        /\ UNCHANGED <<resume, file, queued, fl, ack, rec, dir, blob, rm, live, back, fails, deletes>>
    BY <1>2, Zenon DEF WriteBytes, Reads, sndVars
  <2>2. WireOK' /\ i \in 0 .. Size - 1
    BY <2>1, Reading, Zenon DEF Inv
  <2>3. SndOK' /\ CountOK'
    BY <2>1, Same, Zenon DEF Inv
  <2> HIDE DEF i
  <2>4. CASE UNCHANGED <<tmp, held, rd, end, cut>>
    BY <2>1, <2>2, <2>3, <2>4, Same, Zenon DEF Inv
  <2>5. CASE tmp' = TRUE /\ held' = WithChunk(i) /\ rd' = [rd EXCEPT ![c] = v] /\ UNCHANGED <<end, cut>>
    <3>1. i \in Offset /\ i < Size
      BY <2>2, TransferBounds DEF Offset
    <3>2. v \in ReadState /\ v.pc = "count" /\ v.off = i
      BY <1>1, <3>1, Zenon DEF ReadState
    <3>3. held' \in Seq(BOOLEAN) /\ Len(held') <= Size
      BY <2>2, <2>5, WithChunkType, Zenon DEF Inv
    <3> HIDE DEF v
    <3>4. RcvOK'
      BY <2>1, <2>5, <3>1, <3>2, <3>3, ReadOn, Zenon DEF Inv, RcvOK
    <3>5. Safe'
      BY <2>1, <2>5, <3>2, ReadSafe, Zenon DEF Inv
    <3> QED
      BY <2>1, <2>2, <2>3, <2>5, <3>4, <3>5, Same, Zenon DEF Inv
  <2>6. CASE Abort(c) /\ UNCHANGED <<tmp, held>>
    BY <2>1, <2>2, <2>3, <2>6, AbortOK, Zenon DEF Inv
  <2> QED
    BY <1>2, <2>4, <2>5, <2>6, Zenon DEF WriteBytes, i
<1>3. CASE CountBytes(c)
  <2> DEFINE got == IF rd[c].off + 1 > rec.got THEN rd[c].off + 1 ELSE rec.got
             p == IF got >= Size THEN "verify" ELSE "recv"
             v == [rd[c] EXCEPT !.pc = p]
  <2>1. rd[c].pc = "count" /\ UNCHANGED <<resume, file, queued, fl, ack, dir, tmp, held, blob, rm, live, out, back, fails, deletes>>
    BY <1>3, Zenon DEF CountBytes, sndVars, diskVars, wireVars
  <2>2. SndOK' /\ CountOK' /\ WireOK'
    BY <2>1, Same, Zenon DEF Inv
  <2>3. CASE rec' = [rec EXCEPT !.got = got] /\ rd' = [rd EXCEPT ![c] = v] /\ UNCHANGED <<end, cut>>
    <3>1. got \in Offset
      <4>1. rd[c].off \in 0 .. Size /\ rd[c].off < Size /\ rec.got \in 0 .. Size
        BY <1>1, <1>3, Zenon DEF CountBytes, Inv, RcvOK, ReadState, Offset
      <4> QED
        BY <4>1, TransferBounds DEF Offset
    <3>2. p \in {"verify", "recv"}
      BY Zenon
    <3> HIDE DEF got, p
    <3>3. rec' \in [st : {"none", "receiving", "complete", "failed"}, got : Offset] /\ rec'.st = rec.st
      BY <1>1, <2>3, <3>1, Zenon
    <3>4. v \in ReadState /\ v.pc = p
      BY <1>1, <3>2, Zenon DEF ReadState
    <3> HIDE DEF v
    <3>5. RcvOK'
      BY <2>1, <2>3, <3>2, <3>3, <3>4, ReadOn, Zenon DEF Inv, RcvOK
    <3>6. rd'[c] = v /\ \A d \in Link \ {c} : rd'[d] = rd[d]
      BY <1>1, <2>3, Zenon
    <3>7. Safe'
      <4>1. blob' = "part" => Filling'
        BY <2>1, <2>3, StillFilling, Zenon DEF Inv, Safe
      <4> QED
        BY <2>1, <3>2, <3>3, <3>4, <3>6, <4>1, Zenon DEF Inv, Safe
    <3> QED
      BY <2>1, <2>2, <2>3, <3>5, <3>7, Same, Zenon DEF Inv
  <2>4. CASE Abort(c) /\ UNCHANGED rec
    BY <2>1, <2>2, <2>4, AbortOK, Zenon DEF Inv
  <2> QED
    BY <1>3, <2>3, <2>4, Zenon DEF CountBytes
<1>4. CASE Verify(c)
  <2>1. /\ rd[c].pc = "verify" /\ UNCHANGED <<resume, file, queued, fl, ack, rec, dir, tmp, held, blob, rm>>
        /\ UNCHANGED <<live, end, cut, out, back, fails, deletes>>
    BY <1>4, Zenon DEF Verify, sndVars, rcvVars, diskVars, linkVars, wireVars
  <2>2. PICK v : /\ rd' = [rd EXCEPT ![c] = v]
                 /\ \/ v = IdleRead
                    \/ held = Whole /\ v = [rd[c] EXCEPT !.pc = "save", !.ok = (held = Whole)]
                    \/ held # Whole /\ v = [rd[c] EXCEPT !.pc = "fail", !.ok = (held = Whole)]
    <3> DEFINE w == IF rec.st = "receiving" /\ rec.got = Size /\ tmp
                      THEN [rd[c] EXCEPT !.pc = IF held = Whole THEN "save" ELSE "fail", !.ok = (held = Whole)]
                      ELSE IdleRead
    <3>1. rd' = [rd EXCEPT ![c] = w]
      BY <1>4, Zenon DEF Verify
    <3>2. \/ w = IdleRead
          \/ held = Whole /\ w = [rd[c] EXCEPT !.pc = "save", !.ok = (held = Whole)]
          \/ held # Whole /\ w = [rd[c] EXCEPT !.pc = "fail", !.ok = (held = Whole)]
      BY Zenon
    <3> QED
      BY <3>1, <3>2, Zenon
  <2>3. \/ v \in ReadState /\ v.pc \notin {"save", "fill", "status", "count"}
        \/ v \in ReadState /\ v.pc = "save" /\ v.ok
    <3>1. CASE v = IdleRead
      BY <3>1, Idle, Zenon
    <3>2. CASE held = Whole /\ v = [rd[c] EXCEPT !.pc = "save", !.ok = (held = Whole)]
      <4>1. (held = Whole) = TRUE
        BY <3>2, Zenon
      <4>2. v = [rd[c] EXCEPT !.pc = "save", !.ok = TRUE]
        BY <3>2, <4>1, Zenon
      <4> QED
        BY <1>1, <4>2, Zenon DEF ReadState
    <3>3. CASE held # Whole /\ v = [rd[c] EXCEPT !.pc = "fail", !.ok = (held = Whole)]
      <4>1. (held = Whole) = FALSE
        BY <3>3, Zenon
      <4>2. v = [rd[c] EXCEPT !.pc = "fail", !.ok = FALSE]
        BY <3>3, <4>1, Zenon
      <4> QED
        BY <1>1, <4>2, Zenon DEF ReadState
    <3> QED
      BY <2>2, <3>1, <3>2, <3>3, Zenon
  <2>4. RcvOK'
    BY <2>1, <2>2, <2>3, ReadOn, Zenon DEF Inv, RcvOK
  <2>5. rd'[c] = v /\ \A d \in Link \ {c} : rd'[d] = rd[d]
    BY <1>1, <2>2, Zenon
  <2>6. Safe'
    <3>1. blob' = "part" => Filling'
      BY <2>1, <2>2, StillFilling, Zenon DEF Inv, Safe
    <3> QED
      BY <2>1, <2>3, <2>5, <3>1, Zenon DEF Inv, Safe
  <2> QED
    BY <2>1, <2>4, <2>6, Same, Zenon DEF Inv
<1>5. CASE SaveData(c)
  <2> DEFINE v == IF dir THEN [rd[c] EXCEPT !.pc = "fill"] ELSE IdleRead
  <2>1. /\ rd[c].pc = "save" /\ rd' = [rd EXCEPT ![c] = v] /\ blob' = (IF dir THEN "part" ELSE blob)
        /\ UNCHANGED <<resume, file, queued, fl, ack, rec, dir, tmp, held, rm>>
        /\ UNCHANGED <<live, end, cut, out, back, fails, deletes>>
    BY <1>5, Zenon DEF SaveData, sndVars, linkVars, wireVars
  <2>2. rd[c].ok
    BY <2>1, Zenon DEF Inv, Safe
  <2>3. blob' \in {"none", "part", "torn", "whole", "wrong"}
    BY <2>1, Zenon DEF Inv, RcvOK
  <2>4. CASE dir
    <3>1. v = [rd[c] EXCEPT !.pc = "fill"] /\ blob' = "part"
      BY <2>1, <2>4, Zenon
    <3>2. v \in ReadState /\ v.pc = "fill" /\ v.ok = rd[c].ok
      BY <1>1, <3>1, Zenon DEF ReadState
    <3> HIDE DEF v
    <3>3. RcvOK'
      BY <2>1, <2>3, <3>2, ReadOn, Zenon DEF Inv, RcvOK
    <3>4. rd'[c] = v /\ \A d \in Link \ {c} : rd'[d] = rd[d]
      BY <1>1, <2>1, Zenon
    <3>5. Filling'
      BY <3>2, <3>4, Zenon DEF Filling
    <3>6. Safe'
      BY <2>1, <2>2, <3>1, <3>2, <3>4, <3>5, Zenon DEF Inv, Safe
    <3> QED
      BY <2>1, <3>3, <3>6, Same, Zenon DEF Inv
  <2>5. CASE ~dir
    <3>1. v = IdleRead /\ blob' = blob
      BY <2>1, <2>5, Zenon
    <3> HIDE DEF v
    <3>2. RcvOK'
      BY <2>1, <2>3, <3>1, Idle, ReadOn, Zenon DEF Inv, RcvOK
    <3>3. Safe'
      BY <2>1, <3>1, Idle, ReadSafe, Zenon DEF Inv
    <3> QED
      BY <2>1, <3>2, <3>3, Same, Zenon DEF Inv
  <2> QED
    BY <2>4, <2>5, Zenon
<1>6. CASE FillData(c)
  <2> DEFINE v == [rd[c] EXCEPT !.pc = "status"]
  <2>1. /\ rd[c].pc = "fill" /\ rd' = [rd EXCEPT ![c] = v]
        /\ blob' = (IF rd[c].ok THEN "whole" ELSE "wrong")
        /\ UNCHANGED <<resume, file, queued, fl, ack, rec, dir, tmp, held, rm>>
        /\ UNCHANGED <<live, end, cut, out, back, fails, deletes>>
    BY <1>6, Zenon DEF FillData, sndVars, linkVars, wireVars
  <2>2. blob' = "whole"
    BY <2>1, Zenon DEF Inv, Safe
  <2>3. v \in ReadState /\ v.pc = "status"
    BY <1>1, Zenon DEF ReadState
  <2> HIDE DEF v
  <2>4. RcvOK'
    BY <2>1, <2>2, <2>3, ReadOn, Zenon DEF Inv, RcvOK
  <2>5. rd'[c] = v /\ \A d \in Link \ {c} : rd'[d] = rd[d]
    BY <1>1, <2>1, Zenon
  <2>6. Safe'
    BY <2>1, <2>2, <2>3, <2>5, Zenon DEF Inv, Safe
  <2> QED
    BY <2>1, <2>4, <2>6, Same, Zenon DEF Inv
<1>7. CASE SetStatus(c)
  <2> DEFINE v == IF rec.st = "none" /\ rd[c].pc = "status" THEN IdleRead ELSE [rd[c] EXCEPT !.pc = "remove"]
  <2>1. /\ rd[c].pc \in {"status", "fail"} /\ rd' = [rd EXCEPT ![c] = v]
        /\ rec' = (IF rec.st = "none" THEN rec
                   ELSE [rec EXCEPT !.st = IF rd[c].pc = "status" THEN "complete" ELSE "failed"])
        /\ UNCHANGED <<resume, file, queued, fl, ack, dir, tmp, held, blob, rm>>
        /\ UNCHANGED <<live, end, cut, out, back, fails, deletes>>
    BY <1>7, Zenon DEF SetStatus, sndVars, diskVars, linkVars, wireVars
  <2>2. v \in ReadState /\ v.pc \in {"recv", "remove"}
    <3>1. [rd[c] EXCEPT !.pc = "remove"] \in ReadState /\ [rd[c] EXCEPT !.pc = "remove"].pc = "remove"
      BY <1>1, Zenon DEF ReadState
    <3> QED
      BY <3>1, Idle, Zenon
  <2> HIDE DEF v
  <2>3. /\ rec' \in [st : {"none", "receiving", "complete", "failed"}, got : Offset]
        /\ rec'.st = "complete" => rec.st = "complete" \/ rd[c].pc = "status"
    BY <1>1, <2>1, Zenon
  <2>4. RcvOK'
    BY <2>1, <2>2, <2>3, ReadOn, Zenon DEF Inv, RcvOK
  <2>5. rd'[c] = v /\ \A d \in Link \ {c} : rd'[d] = rd[d]
    BY <1>1, <2>1, Zenon
  <2>6. Safe'
    <3>1. blob' = "part" => Filling'
      BY <2>1, StillFilling, Zenon DEF Inv, Safe
    <3> QED
      BY <2>1, <2>2, <2>3, <2>5, <3>1, Zenon DEF Inv, Safe
  <2> QED
    BY <2>1, <2>4, <2>6, Same, Zenon DEF Inv
<1>8. CASE RemoveTemp(c)
  <2>1. /\ rd[c].pc = "remove" /\ rd' = [rd EXCEPT ![c] = IdleRead] /\ tmp' = FALSE /\ held' = <<>>
        /\ UNCHANGED <<resume, file, queued, fl, ack, rec, dir, blob, rm>>
        /\ UNCHANGED <<live, end, cut, out, back, fails, deletes>>
    BY <1>8, Zenon DEF RemoveTemp, sndVars, linkVars, wireVars
  <2>2. held' \in Seq(BOOLEAN) /\ Len(held') <= Size
    BY <2>1, TransferBounds
  <2>3. RcvOK'
    BY <2>1, <2>2, Idle, ReadOn, Zenon DEF Inv, RcvOK
  <2>4. Safe'
    BY <2>1, Idle, ReadSafe, Zenon DEF Inv
  <2> QED
    BY <2>1, <2>3, <2>4, Same, Zenon DEF Inv
<1> QED
  BY <1>2, <1>3, <1>4, <1>5, <1>7, <1>8, <1>6, Zenon

\* The users' calls, and the removal of the directory, preserve Inv.
LEMMA UserStep ==
  ASSUME Inv, SendFile \/ SndDelete \/ RcvDelete \/ RemoveDir
  PROVE  Inv'
<1>1. deletes \in 0 .. MaxDelete
  BY Zenon DEF Inv, CountOK
<1>2. CASE SendFile
  <2>1. /\ file' = "queued" /\ queued' = TRUE
        /\ UNCHANGED <<resume, fl, ack, rec, dir, tmp, held, blob, rm, rd>>
        /\ UNCHANGED <<live, end, cut, out, back, fails, deletes>>
    BY <1>2, Zenon DEF SendFile, rcvVars, diskVars, linkVars, wireVars
  <2>2. SndOK'
    BY <2>1, Zenon DEF Inv, SndOK
  <2> QED
    BY <2>1, <2>2, Same, Zenon DEF Inv
<1>3. CASE SndDelete
  <2>1. /\ file' = "deleted" /\ queued' = FALSE /\ deletes < MaxDelete /\ deletes' = deletes + 1
        /\ UNCHANGED <<resume, fl, ack, rec, dir, tmp, held, blob, rm, rd>>
        /\ UNCHANGED <<live, end, cut, out, back, fails>>
    BY <1>3, Zenon DEF SndDelete, rcvVars, diskVars, linkVars, wireVars
  <2>2. SndOK'
    BY <2>1, Zenon DEF Inv, SndOK
  <2>3. CountOK' /\ deletes' # 0
    BY <1>1, <2>1, TransferBounds DEF Inv, CountOK
  <2>4. Safe'
    BY <2>1, <2>3, Zenon DEF Inv, Safe, Filling
  <2> QED
    BY <2>1, <2>2, <2>3, <2>4, Same, Zenon DEF Inv
<1>4. CASE RcvDelete
  <2>1. /\ rec' = NoRecord /\ rm' = TRUE /\ deletes < MaxDelete /\ deletes' = deletes + 1
        /\ UNCHANGED <<resume, file, queued, fl, ack, dir, tmp, held, blob, rd>>
        /\ UNCHANGED <<live, end, cut, out, back, fails>>
    BY <1>4, Zenon DEF RcvDelete, sndVars, diskVars, linkVars, wireVars
  <2>2. rec' \in [st : {"none", "receiving", "complete", "failed"}, got : Offset]
    BY <2>1, TransferBounds DEF NoRecord, Offset
  <2>3. RcvOK'
    BY <2>1, <2>2, Zenon DEF Inv, RcvOK
  <2>4. CountOK' /\ deletes' # 0
    BY <1>1, <2>1, TransferBounds DEF Inv, CountOK
  <2>5. Safe'
    BY <2>1, <2>4, Zenon DEF Inv, Safe, Filling
  <2> QED
    BY <2>1, <2>3, <2>4, <2>5, Same, Zenon DEF Inv
<1>5. CASE RemoveDir
  <2> DEFINE v(c) == IF rd[c].pc = "fill" THEN [rd[c] EXCEPT !.pc = "status"] ELSE rd[c]
  <2>1. /\ rm /\ rm' = FALSE /\ dir' = FALSE /\ tmp' = FALSE /\ held' = <<>> /\ blob' = "none"
        /\ rd' = [c \in Link |-> v(c)]
        /\ UNCHANGED <<resume, file, queued, fl, ack, rec>>
        /\ UNCHANGED <<live, end, cut, out, back, fails, deletes>>
    BY <1>5, Zenon DEF RemoveDir, sndVars, linkVars, wireVars
  <2>2. held' \in Seq(BOOLEAN) /\ Len(held') <= Size
    BY <2>1, TransferBounds
  <2>3. \A c \in Link : /\ v(c) \in ReadState
                        /\ v(c).pc = "status" \/ (v(c) = rd[c] /\ rd[c].pc # "fill")
    <3>1. \A u \in ReadState : [u EXCEPT !.pc = "status"] \in ReadState /\ [u EXCEPT !.pc = "status"].pc = "status"
      BY Zenon DEF ReadState
    <3> QED
      BY <3>1, Zenon DEF Inv, RcvOK
  <2> HIDE DEF v
  <2>4. RcvOK'
    BY <2>1, <2>2, <2>3, Zenon DEF Inv, RcvOK
  <2>5. Safe'
    BY <2>1, <2>3, Zenon DEF Inv, Safe
  <2> QED
    BY <2>1, <2>4, <2>5, Same, Zenon DEF Inv
<1> QED
  BY <1>2, <1>3, <1>4, <1>5, Zenon

\* The gain, loss and end of a session preserve Inv.
LEMMA SessionStep ==
  ASSUME Inv, NEW e \in End, NEW c \in Link,
         Connect(c) \/ Cut(c) \/ Notice(e, c) \/ runSessionEnds(e, c)
  PROVE  Inv'
<1>1. /\ ack \in [Link -> Offset \cup {NoChan, EmptyChan}]
      /\ end \in [End -> [Link -> {"down", "up", "closed"}]] /\ cut \subseteq Link
      /\ fails \in 0 .. MaxFail /\ deletes \in 0 .. MaxDelete
  BY Zenon DEF Inv, SndOK, LinkOK, CountOK
<1>2. CASE Connect(c)
  <2>1. UNCHANGED <<resume, file, queued, fl, rec, dir, tmp, held, blob, rm, rd, deletes>>
    BY <1>2, Zenon DEF Connect, sndVars, rcvVars, diskVars
  <2>2. CountOK'
    BY <1>1, <1>2, <2>1, TransferBounds DEF Connect, Fail, CountOK
  <2>3. ack' \in [Link -> Offset \cup {NoChan, EmptyChan}]
    BY <1>1, <1>2, Zenon DEF Connect
  <2>4. SndOK'
    BY <2>1, <2>3, Zenon DEF Inv, SndOK
  <2>5. out' \in [Link -> Seq(Frame)] /\ back' \in [Link -> Seq(Offset)]
    <3>1. <<>> \in Seq(Frame) /\ <<>> \in Seq(Offset)
      OBVIOUS
    <3>2. out \in [Link -> Seq(Frame)] /\ back \in [Link -> Seq(Offset)]
      BY Zenon DEF Inv, WireOK
    <3>3. out' = [out EXCEPT ![c] = <<>>] /\ back' = [back EXCEPT ![c] = <<>>]
      BY <1>2, Zenon DEF Connect
    <3> QED
      BY <3>1, <3>2, <3>3, Zenon
  <2>6. live' \in Link /\ cut' \subseteq Link
    BY <1>1, <1>2, Zenon DEF Connect
  <2>7. end' \in [End -> [Link -> {"down", "up", "closed"}]]
    BY <1>1, <1>2, Zenon DEF Connect
  <2> QED
    BY <2>1, <2>2, <2>4, <2>5, <2>6, <2>7, Same, Zenon DEF Inv, LinkOK, WireOK
<1>3. CASE Cut(c)
  <2>1. /\ cut' = cut \cup {c}
        /\ UNCHANGED <<resume, file, queued, fl, ack, rec, dir, tmp, held, blob, rm, rd>>
        /\ UNCHANGED <<live, end, out, back, deletes>>
    BY <1>3, Zenon DEF Cut, sndVars, rcvVars, diskVars, wireVars
  <2>2. CountOK'
    BY <1>1, <1>3, <2>1, TransferBounds DEF Cut, Fail, CountOK
  <2>3. LinkOK'
    BY <2>1, Zenon DEF Inv, LinkOK
  <2> QED
    BY <2>1, <2>2, <2>3, Same, Zenon DEF Inv
<1>4. CASE Notice(e, c)
  <2>1. /\ end' = [end EXCEPT ![e][c] = "closed"]
        /\ UNCHANGED <<resume, file, queued, fl, ack, rec, dir, tmp, held, blob, rm, rd>>
        /\ UNCHANGED <<live, cut, out, back, fails, deletes>>
    BY <1>4, Zenon DEF Notice, sndVars, rcvVars, diskVars, wireVars
  <2>2. LinkOK'
    BY <2>1, Zenon DEF Inv, LinkOK
  <2> QED
    BY <2>1, <2>2, Same, Zenon DEF Inv
<1>5. CASE runSessionEnds(e, c)
  <2>1. /\ end' = [end EXCEPT ![e][c] = "down"] /\ live' \in {live, NoLink}
        /\ rd' = rd \/ (rd[c].pc = "recv" /\ rd' = [rd EXCEPT ![c] = IdleRead])
        /\ out' = out \/ out' = [out EXCEPT ![c] = <<>>]
        /\ back' = back \/ back' = [back EXCEPT ![c] = <<>>]
        /\ UNCHANGED <<resume, file, queued, fl, ack, rec, dir, tmp, held, blob, rm, cut, fails, deletes>>
    BY <1>5, Zenon DEF runSessionEnds, sndVars, rcvVars, diskVars
  <2>2. LinkOK'
    BY <1>1, <2>1, Zenon DEF Inv, LinkOK
  <2>3. WireOK'
    <3>1. <<>> \in Seq(Frame) /\ <<>> \in Seq(Offset)
      OBVIOUS
    <3> QED
      BY <2>1, <3>1, Zenon DEF Inv, WireOK
  <2>4. RcvOK' /\ Safe'
    <3>1. CASE rd' = rd
      BY <2>1, <3>1, Same, Zenon DEF Inv
    <3>2. CASE rd[c].pc = "recv" /\ rd' = [rd EXCEPT ![c] = IdleRead]
      <4>1. RcvOK'
        BY <2>1, <3>2, Idle, ReadOn, Zenon DEF Inv, RcvOK
      <4>2. Safe'
        BY <2>1, <3>2, Idle, ReadSafe, Zenon DEF Inv
      <4> QED
        BY <4>1, <4>2, Zenon
    <3> QED
      BY <2>1, <3>1, <3>2, Zenon
  <2> QED
    BY <2>1, <2>2, <2>3, <2>4, Same, Zenon DEF Inv
<1> QED
  BY <1>2, <1>3, <1>4, <1>5, Zenon

\* A crash of either end preserves Inv.
LEMMA CrashStep ==
  ASSUME Inv, NEW e \in End, Crash(e)
  PROVE  Inv'
<1>1. /\ Fail /\ end' = [end EXCEPT ![e] = [c \in Link |-> "down"]]
      /\ cut' = cut \cup {c \in Link : end[e][c] # "down"}
      /\ UNCHANGED <<resume, file, queued, rec, dir, tmp, held, deletes>>
  BY Zenon DEF Crash, sndVars
<1>2. CountOK'
  BY <1>1, TransferBounds DEF Inv, Fail, CountOK
<1>3. end' \in [End -> [Link -> {"down", "up", "closed"}]] /\ cut' \subseteq Link
  BY <1>1, Zenon DEF Inv, LinkOK
<1>4. CASE e = "snd"
  <2>1. /\ live' = NoLink /\ fl' = [f \in Flushers |-> IdleFlush] /\ ack' = [c \in Link |-> NoChan]
        /\ back' = [c \in Link |-> <<>>] /\ UNCHANGED <<rd, rm, blob, out>>
    BY <1>4, Zenon DEF Crash
  <2>2. SndOK'
    BY <1>1, <2>1, Idle, Zenon DEF Inv, SndOK
  <2>3. WireOK'
    BY <2>1 DEF Inv, WireOK
  <2>4. LinkOK'
    BY <1>3, <2>1, Zenon DEF LinkOK
  <2> QED
    BY <1>1, <1>2, <2>1, <2>2, <2>3, <2>4, Same, Zenon DEF Inv
<1>5. CASE e # "snd"
  <2>1. /\ rd' = [c \in Link |-> IdleRead] /\ rm' = FALSE
        /\ blob' \in (IF Filling THEN {blob, "torn"} ELSE {blob}) \ {"part"}
        /\ out' = [c \in Link |-> <<>>] /\ UNCHANGED <<live, fl, ack, back>>
    BY <1>5, Zenon DEF Crash
  <2>2. blob' \in {blob, "torn"} /\ blob' # "part"
    BY <2>1, Zenon
  <2>3. RcvOK'
    BY <1>1, <2>1, <2>2, Idle, Zenon DEF Inv, RcvOK
  <2>4. WireOK'
    BY <2>1 DEF Inv, WireOK
  <2>5. LinkOK'
    BY <1>3, <2>1, Zenon DEF Inv, LinkOK
  <2>6. Safe'
    BY <1>1, <2>1, <2>2, Idle, Zenon DEF Inv, Safe
  <2> QED
    BY <1>1, <1>2, <2>1, <2>3, <2>4, <2>5, <2>6, Same, Zenon DEF Inv
<1> QED
  BY <1>4, <1>5, Zenon

\* The invariant holds in every reachable state.
THEOREM InvHolds == Spec => []Inv
<1>1. Init => Inv
  <2> SUFFICES ASSUME Init PROVE Inv
    BY Zenon
  <2>1. SndOK
    BY Idle, Zenon DEF Init, SndOK
  <2>2. RcvOK
    <3>1. held \in Seq(BOOLEAN) /\ Len(held) <= Size
      BY TransferBounds DEF Init
    <3>2. rec \in [st : {"none", "receiving", "complete", "failed"}, got : Offset]
      BY TransferBounds DEF Init, NoRecord, Offset
    <3> QED
      BY <3>1, <3>2, Idle, Zenon DEF Init, RcvOK
  <2>3. LinkOK /\ WireOK
    BY DEF Init, LinkOK, WireOK
  <2>4. CountOK
    BY TransferBounds DEF Init, CountOK
  <2>5. Safe
    BY Idle, Zenon DEF Init, Safe, NoRecord
  <2> QED
    BY <2>1, <2>2, <2>3, <2>4, <2>5, Zenon DEF Inv
<1>2. Inv /\ [Next]_vars => Inv'
  <2> SUFFICES ASSUME Inv, [Next]_vars PROVE Inv'
    BY Zenon
  <2>1. CASE SendFile \/ SndDelete \/ RcvDelete \/ RemoveDir
    BY <2>1, UserStep, Zenon
  <2>2. ASSUME NEW f \in Flushers, Flush(f) PROVE Inv'
    BY <2>2, FlushStep, Zenon
  <2>3. ASSUME NEW c \in Link, Connect(c) \/ Cut(c) PROVE Inv'
    BY <2>3, SessionStep, Zenon DEF End
  <2>4. ASSUME NEW c \in Link, RecvFileAck(c) \/ Read(c) PROVE Inv'
    BY <2>4, HeaderRead, ChunkRead, Zenon DEF Read
  <2>5. ASSUME NEW e \in End, NEW c \in Link, Notice(e, c) \/ runSessionEnds(e, c) PROVE Inv'
    BY <2>5, SessionStep, Zenon
  <2>6. ASSUME NEW e \in End, Crash(e) PROVE Inv'
    BY <2>6, CrashStep, Zenon
  <2>7. CASE UNCHANGED vars
    BY <2>7, Same, Zenon DEF Inv, vars, sndVars, rcvVars, diskVars, linkVars, wireVars
  <2> QED
    BY <2>1, <2>2, <2>3, <2>4, <2>5, <2>6, <2>7, Zenon DEF Next
<1> QED
  BY <1>1, <1>2, PTL DEF Spec

\* Every variable keeps its type: in particular no offset, counter or partial
\* ever passes the size of the file, in whatever order the read loops of two
\* sessions write and count chunks.
THEOREM TypeCorrect == Spec => []TypeOK
<1>1. Inv => TypeOK
  BY Zenon DEF Inv, SndOK, RcvOK, LinkOK, WireOK, CountOK, TypeOK
<1> QED
  BY <1>1, InvHolds, PTL

\* However large the file and however many sessions, goroutines and failures,
\* the receiver never keeps other bytes than the sender's.  The file it calls
\* complete it has until somebody deletes it: whole, unless a second read loop
\* is writing it again, or was when the node was killed.
THEOREM OnlyTheRightBytes == Spec => []NeverServedWrong
<1>1. Inv => NeverServedWrong
  BY Zenon DEF Inv, RcvOK, Safe, NeverServedWrong
<1> QED
  BY <1>1, InvHolds, PTL

-----------------------------------------------------------------------------
(* A transfer that nothing disturbs.  There is one link, live at both ends;  *)
(* what follows speaks of its queues q and b, its channel a, the state r of  *)
(* its read loop, the goroutines F and the counter got.                      *)

Quiet     == fails = 0 /\ deletes = 0
Bytes(n)  == [i \in 1 .. n |-> TRUE]
Answering == {"init", "put", "ack"}
Holds(f)  == fl[f].pc \in {"header", "wait", "chunk", "sent"}

\* The chunk at n will not be refused by the read loop once it reads on.
Ready(r, got, n) ==
  /\ r.pc = "recv" /\ r.rx => n <= got
  /\ r.pc \in Answering => n <= r.off
  /\ r.pc = "count" => n <= r.off + 1

\* The record k and the partial h, if there is one: it has no hole and is what
\* the record counts, as far as the read loop has got.
Partial(k, t, h, n) == k.st = "receiving" /\ t /\ h = Bytes(n)

Disk(r, k, d, t, h) ==
  /\ r.rx \/ r.pc # "recv" => d
  /\ r.pc = "recv" => IF r.rx THEN Partial(k, t, h, k.got) ELSE k.st # "receiving"
  /\ r.pc = "init" => r.off = 0
  /\ r.pc = "put" => t /\ h = Bytes(r.off)
  /\ r.pc = "ack" => r.rx /\ r.off = k.got /\ Partial(k, t, h, k.got)
  /\ r.pc = "count" =>
       r.rx /\ r.off <= k.got /\ Partial(k, t, h, IF r.off + 1 > k.got THEN r.off + 1 ELSE k.got)
  /\ r.pc = "verify" => k.got = Size /\ Partial(k, t, h, Size)
  /\ r.pc \in {"save", "fill", "status"} => k.st = "receiving"
  /\ r.pc = "remove" => k.st = "complete"
  /\ r.pc # "fail"

\* After the frame x comes the chunk at n.
Follows(x, n) == IF x.t = "chunk" THEN n = x.off + 1 ELSE n = 0

\* Each chunk on the wire, and the one about to be written, follows what is
\* before it.
Wire(q, r, got, F) ==
  /\ q # <<>> /\ q[1].t = "chunk" => Ready(r, got, q[1].off)
  /\ \A i \in 1 .. Len(q) - 1 : q[i + 1].t = "chunk" => Follows(q[i], q[i + 1].off)
  /\ \A f \in Flushers : F[f].pc = "chunk" =>
       IF q = <<>> THEN Ready(r, got, F[f].off) ELSE Follows(q[Len(q)], F[f].off)

\* With CapResume one header is under way at a time: on the wire, in the read
\* loop, its answer on the wire or in the channel.  A goroutine waits for it.
NoHeader(q, b, a, r) ==
  /\ \A i \in 1 .. Len(q) : q[i].t # "file"
  /\ r.pc \notin Answering /\ b = <<>> /\ a \notin Offset

Answer(q, b, a, r, got, F) ==
  /\ \A i \in 1 .. Len(q) : q[i].t = "file" =>
       i = Len(q) /\ b = <<>> /\ a \notin Offset /\ r.pc \notin Answering
  /\ r.pc \in Answering => q = <<>> /\ b = <<>> /\ a \notin Offset
  /\ b # <<>> => Len(b) = 1 /\ q = <<>> /\ a \notin Offset /\ r.pc = "recv" /\ Ready(r, got, b[1])
  /\ a \in Offset => b = <<>> /\ q = <<>> /\ r.pc = "recv" /\ Ready(r, got, a)
  /\ (\A f \in Flushers : F[f].pc # "wait") => NoHeader(q, b, a, r)

\* Nothing but the live link is in use.
Alone ==
  /\ cut = {}
  /\ \A e \in End, c \in Link : end[e][c] = IF c = live THEN "up" ELSE "down"
  /\ \A c \in Link : c # live => rd[c] = IdleRead

\* One goroutine at a time is past flushMu.
Turns ==
  /\ \A f \in Flushers : /\ fl[f].pc # "idle" => fl[f].link = live
                         /\ fl[f].pc \in {"lock", "header"} => fl[f].off = 0
                         /\ fl[f].pc = "wait" => resume
  /\ \A f, g \in Flushers : Holds(f) /\ Holds(g) => f = g

Smooth ==
  /\ Alone /\ Turns /\ rec.st # "failed"
  /\ live = NoLink => rec.st = "none"
  /\ live # NoLink =>
       /\ Disk(rd[live], rec, dir, tmp, held) /\ (rd[live].pc = "ack" => resume)
       /\ Wire(out[live], rd[live], rec.got, fl)
       /\ resume => Answer(out[live], back[live], ack[live], rd[live], rec.got, fl)

\* The values that stand for "no link" and "no answer yet".
LEMMA Nothing == NoLink \notin Link /\ NoChan \notin Offset /\ EmptyChan \notin Offset
BY TransferBounds DEF NoLink, Link, NoChan, EmptyChan, Offset

\* Offsets as numbers.
LEMMA Counting ==
  /\ \A n \in Offset : n \in Nat /\ 0 <= n
  /\ \A i, j \in Nat : i <= j => ~(i > j)
  /\ \A i \in Nat : i + 1 <= i + 1
  /\ \A n \in Nat : n <= Size /\ n >= Size => n = Size
  /\ \A m, i, n \in Nat : m <= i + 1 /\ i + 1 <= n => m <= n
  /\ \A i, j \in Nat : i < Size /\ j <= Size =>
       /\ (IF i + 1 > j THEN i + 1 ELSE j) \in Nat
       /\ i + 1 <= IF i + 1 > j THEN i + 1 ELSE j
       /\ (IF i + 1 > j THEN i + 1 ELSE j) <= Size
BY TransferBounds DEF Offset

\* The chunk a frame carries is one of the file.
LEMMA FrameChunk == \A x \in Frame : x.t = "chunk" => x.off \in Nat /\ x.off + 1 \in Offset
BY TransferBounds DEF Frame, Offset

\* Appending to a wire.
LEMMA Pushed ==
  ASSUME NEW s \in Seq(Frame), NEW x \in Frame
  PROVE  /\ Len(s) \in Nat /\ Len(Append(s, x)) = Len(s) + 1 /\ Append(s, x) # <<>>
         /\ Append(s, x)[Len(s) + 1] = x /\ \A j \in 1 .. Len(s) : Append(s, x)[j] = s[j]
         /\ s = <<>> <=> Len(s) = 0
         /\ Append(s, x)[1] = IF s = <<>> THEN x ELSE s[1]
<1>1. Len(s) \in Nat /\ Len(Append(s, x)) = Len(s) + 1
  OBVIOUS
<1>2. Append(s, x)[Len(s) + 1] = x /\ \A j \in 1 .. Len(s) : Append(s, x)[j] = s[j]
  OBVIOUS
<1>3. Append(s, x) # <<>>
  BY <1>1
<1>4. s = <<>> <=> Len(s) = 0
  OBVIOUS
<1>5. Append(s, x)[1] = IF s = <<>> THEN x ELSE s[1]
  <2>1. Len(s) = 0 \/ 1 \in 1 .. Len(s)
    BY <1>1
  <2>2. Len(s) = 0 => Len(s) + 1 = 1
    OBVIOUS
  <2> QED
    BY <1>2, <1>4, <2>1, <2>2, Zenon
<1> QED
  BY <1>1, <1>2, <1>3, <1>4, <1>5, Zenon

\* The places of a wire of n frames before another is appended, and after its
\* first is read.
LEMMA Places ==
  ASSUME NEW n \in Nat
  PROVE  /\ \A j \in 1 .. (n + 1) - 1 :
              IF j = n THEN n # 0 /\ j \in 1 .. n
                       ELSE j \in 1 .. n - 1 /\ j \in 1 .. n /\ j + 1 \in 1 .. n
         /\ n > 0 /\ n # 1 => 1 \in 1 .. n - 1 /\ n - 1 \in 1 .. n - 1 /\ (n - 1) + 1 = n
         /\ \A i \in 1 .. (n - 1) - 1 : i \in 1 .. n - 1 /\ i + 1 \in 1 .. n - 1
OBVIOUS

\* A queue of one.
LEMMA PushedOne ==
  ASSUME NEW x
  PROVE  Append(<<>>, x) # <<>> /\ Len(Append(<<>>, x)) = 1 /\ Append(<<>>, x)[1] = x
OBVIOUS

\* An empty wire.
LEMMA WireOff ==
  ASSUME NEW r, NEW got, NEW F, \A f \in Flushers : F[f].pc = "chunk" => Ready(r, got, F[f].off)
  PROVE  Wire(<<>>, r, got, F)
<1>1. \A i \in 1 .. Len(<<>>) - 1 : FALSE
  OBVIOUS
<1> QED
  BY <1>1, Zenon DEF Wire

\* The only header on a wire is the one just written.
LEMMA HeaderLast ==
  ASSUME NEW q \in Seq(Frame), NEW x \in Frame, \A i \in 1 .. Len(q) : q[i].t # "file"
  PROVE  \A i \in 1 .. Len(Append(q, x)) : Append(q, x)[i].t = "file" => i = Len(Append(q, x)) /\ x.t = "file"
<1> DEFINE p == Append(q, x)
<1>1. Len(q) \in Nat /\ Len(p) = Len(q) + 1 /\ p[Len(q) + 1] = x /\ \A i \in 1 .. Len(q) : p[i] = q[i]
  BY Pushed, Zenon
<1> HIDE DEF p
<1>2. \A i \in 1 .. Len(p) : i \in 1 .. Len(q) \/ i = Len(q) + 1
  BY <1>1
<1>3. \A i \in 1 .. Len(p) : p[i].t = "file" => i = Len(p) /\ x.t = "file"
  BY <1>1, <1>2, Zenon
<1> QED
  BY <1>3, Zenon DEF p

\* Where a header can be when the wire to the receiver is empty.
LEMMA AnswerOff ==
  ASSUME NEW b, NEW a, NEW r, NEW got, NEW F,
         r.pc \in Answering => b = <<>> /\ a \notin Offset,
         b # <<>> => Len(b) = 1 /\ a \notin Offset /\ r.pc = "recv" /\ Ready(r, got, b[1]),
         a \in Offset => b = <<>> /\ r.pc = "recv" /\ Ready(r, got, a),
         (\A f \in Flushers : F[f].pc # "wait") => r.pc \notin Answering /\ b = <<>> /\ a \notin Offset
  PROVE  Answer(<<>>, b, a, r, got, F)
<1>1. \A i \in 1 .. Len(<<>>) : FALSE
  OBVIOUS
<1> QED
  BY <1>1, Zenon DEF Answer, NoHeader

\* The failures and the deletions are never taken back.
LEMMA QuietBefore ==
  ASSUME Inv, [Next]_vars, Quiet' PROVE Quiet /\ UNCHANGED <<fails, deletes>>
<1>1. fails \in Nat /\ deletes \in Nat
  BY TransferBounds DEF Inv, CountOK
<1>2. fails' \in {fails, fails + 1} /\ deletes' \in {deletes, deletes + 1}
  <2>1. CASE SendFile \/ SndDelete \/ RcvDelete \/ RemoveDir
    BY <2>1, Zenon DEF SendFile, SndDelete, RcvDelete, RemoveDir
  <2>2. ASSUME NEW f \in Flushers, Flush(f)
        PROVE  fails' \in {fails, fails + 1} /\ deletes' \in {deletes, deletes + 1}
    BY <2>2, Zenon DEF Flush, StartFlush, Lock, Header, Resume, Timeout, Chunk, MarkFileSent, Write, Fail
  <2>3. ASSUME NEW c \in Link, Connect(c) \/ Cut(c)
        PROVE  fails' \in {fails, fails + 1} /\ deletes' \in {deletes, deletes + 1}
    BY <2>3, Zenon DEF Connect, Cut, Fail
  <2>4. ASSUME NEW c \in Link, RecvFileAck(c) \/ Read(c)
        PROVE  fails' \in {fails, fails + 1} /\ deletes' \in {deletes, deletes + 1}
    BY <2>4, Zenon DEF Read, RecvFileAck, BeginReceive, InitTemp, PutRecord, SendFileAck,
                WriteBytes, CountBytes, Verify, SaveData, FillData, SetStatus, RemoveTemp
  <2>5. ASSUME NEW e \in End, Crash(e) \/ \E c \in Link : Notice(e, c) \/ runSessionEnds(e, c)
        PROVE  fails' \in {fails, fails + 1} /\ deletes' \in {deletes, deletes + 1}
    BY <2>5, Zenon DEF Crash, Fail, Notice, runSessionEnds
  <2>6. CASE UNCHANGED vars
    BY <2>6, Zenon DEF vars
  <2> QED
    BY <2>1, <2>2, <2>3, <2>4, <2>5, <2>6, Zenon DEF Next
<1> QED
  BY <1>1, <1>2 DEF Quiet

\* What is left of Next: no failure, no deletion, and only the live link.
LEMMA QuietNext ==
  ASSUME Inv, Quiet, Smooth, [Next]_vars, UNCHANGED <<fails, deletes>>
  PROVE  \/ SendFile \/ UNCHANGED vars
         \/ live = NoLink /\ \E c \in Link : Connect(c)
         \/ \E f \in Flushers : Flush(f) /\ ~Timeout(f)
         \/ live \in Link /\ (RecvFileAck(live) \/ Read(live))
<1>1. fails = 0 /\ deletes = 0 /\ ~Fail /\ ~rm
  BY DEF Quiet, Fail, Inv, Safe
<1>2. ~SndDelete /\ ~RcvDelete /\ ~RemoveDir
  BY <1>1 DEF SndDelete, RcvDelete, RemoveDir
<1>3. ASSUME NEW c \in Link, Connect(c) PROVE live = NoLink
  BY <1>1, <1>3, Zenon DEF Connect
<1>4. ASSUME NEW f \in Flushers, Timeout(f) PROVE FALSE
  <2>1. live \in Link /\ fl[f].link = live
    <3>1. fl[f].pc = "wait"
      BY <1>4, Zenon DEF Timeout
    <3>2. fl[f].link = live /\ fl[f].link \in Link
      BY <3>1, Zenon DEF Smooth, Turns, Inv, SndOK
    <3> QED
      BY <3>2, Zenon
  <2>2. ~WriteFails("snd", live)
    BY <2>1, Zenon DEF WriteFails, Smooth, Alone, End
  <2> QED
    BY <1>1, <1>4, <2>1, <2>2, Zenon DEF Timeout
<1>5. ASSUME NEW c \in Link, RecvFileAck(c) \/ Read(c) PROVE c = live
  <2> SUFFICES ASSUME c # live PROVE FALSE
    BY Zenon
  <2>1. rd[c] = IdleRead /\ end["snd"][c] = "down" /\ end["rcv"][c] = "down"
    BY Zenon DEF Smooth, Alone, End
  <2>2. rd[c].pc = "recv"
    BY <2>1, Idle, Zenon
  <2> QED
    BY <1>5, <2>1, <2>2, Zenon DEF Read, RecvFileAck, BeginReceive, Reads, InitTemp, PutRecord,
                            SendFileAck, WriteBytes, CountBytes, Verify, SaveData, FillData,
                            SetStatus, RemoveTemp
<1>6. ASSUME NEW e \in End, NEW c \in Link, Notice(e, c) \/ runSessionEnds(e, c) PROVE FALSE
  <2>1. end[e][c] \in {"up", "down"} /\ cut = {}
    BY Zenon DEF Smooth, Alone
  <2> QED
    BY <1>6, <2>1, Zenon DEF Notice, runSessionEnds
<1>7. ASSUME NEW e \in End, Crash(e) PROVE FALSE
  BY <1>1, <1>7, Zenon DEF Crash
<1>8. ASSUME NEW c \in Link, Cut(c) PROVE FALSE
  BY <1>1, <1>8, Zenon DEF Cut
<1> QED
  BY <1>2, <1>3, <1>4, <1>5, <1>6, <1>7, <1>8, Zenon DEF Next

\* The first session.
LEMMA ConnectSmooth ==
  ASSUME Inv, Smooth, live = NoLink, NEW c \in Link, Connect(c) PROVE Smooth'
<1>1. /\ live' = c /\ cut' = (cut \cup {d \in Link : \E e \in End : end[e][d] = "up"}) \ {c}
      /\ end' = [e \in End |-> [d \in Link |->
                  CASE d = c -> "up" [] d # c /\ end[e][d] = "up" -> "closed" [] OTHER -> end[e][d]]]
      /\ out' = [out EXCEPT ![c] = <<>>] /\ back' = [back EXCEPT ![c] = <<>>]
      /\ ack' = [ack EXCEPT ![c] = NoChan]
      /\ UNCHANGED <<resume, fl, rec, dir, tmp, held, rd>>
  BY Zenon DEF Connect, sndVars, rcvVars, diskVars
<1>2. c # NoLink /\ NoLink \notin Link
  BY Nothing, Zenon
<1>3. \A e \in End, d \in Link : end[e][d] = "down"
  BY <1>2, Zenon DEF Smooth, Alone
<1>4. \A d \in Link : rd[d] = IdleRead
  BY <1>2, Zenon DEF Smooth, Alone
<1>5. Alone'
  BY <1>1, <1>3, <1>4, Zenon DEF Smooth, Alone
<1>6. \A f \in Flushers : fl[f].pc = "idle"
  BY <1>2, Zenon DEF Inv, SndOK, Smooth, Turns
<1>7. Turns'
  BY <1>1, <1>6, Zenon DEF Turns, Holds
<1>8. rec'.st = "none"
  BY <1>1, Zenon DEF Smooth
<1>9. rd'[c].pc = "recv" /\ ~rd'[c].rx
  BY <1>1, <1>4 DEF IdleRead
<1>10. Disk(rd[c], rec, dir, tmp, held)'
  BY <1>8, <1>9, Zenon DEF Disk
<1>11. out'[c] = <<>> /\ back'[c] = <<>> /\ ack'[c] = NoChan
  BY <1>1, Zenon DEF Inv, WireOK, SndOK
<1>12. Wire(out[c], rd[c], rec.got, fl)'
  <2>1. \A f \in Flushers : fl'[f].pc # "chunk"
    BY <1>1, <1>6, Zenon
  <2>2. Wire(<<>>, rd'[c], rec'.got, fl')
    BY <2>1, WireOff, Zenon
  <2> QED
    BY <1>11, <2>2, Zenon
<1>13. Answer(<<>>, <<>>, NoChan, rd'[c], rec'.got, fl')
  BY <1>9, Nothing, AnswerOff, Zenon DEF Answering
<1>14. Answer(out[c], back[c], ack[c], rd[c], rec.got, fl)'
  BY <1>11, <1>13, Zenon
<1> QED
  BY <1>1, <1>2, <1>5, <1>7, <1>8, <1>9, <1>10, <1>12, <1>14, Zenon DEF Smooth

\* A step of a goroutine that writes nothing and does not give up waiting.
LEMMA FlushKeeps ==
  ASSUME Smooth, live # NoLink, Turns',
         UNCHANGED <<resume, live, end, cut, rd, rec, dir, tmp, held, out, back>>,
         ack'[live] = ack[live] \/ ack'[live] \notin Offset,
         \A g \in Flushers : /\ fl'[g].pc = "chunk" => fl'[g] = fl[g]
                             /\ fl[g].pc = "wait" => fl'[g].pc = "wait"
  PROVE  Smooth'
<1>1. Alone' /\ Disk(rd[live], rec, dir, tmp, held)'
  BY Zenon DEF Smooth, Alone
<1>2. Wire(out[live], rd[live], rec.got, fl)'
  BY Zenon DEF Smooth, Wire
<1>3. resume => Answer(out[live], back[live], ack[live], rd[live], rec.got, fl)'
  BY Zenon DEF Smooth, Answer, NoHeader
<1> QED
  BY <1>1, <1>2, <1>3, Zenon DEF Smooth

\* While a goroutine writes no other waits, and no header is under way.
LEMMA NoneWaits ==
  ASSUME Smooth, live # NoLink, NEW f \in Flushers, Holds(f), fl[f].pc # "wait"
  PROVE  /\ \A g \in Flushers : fl[g].pc # "wait" /\ (Holds(g) => g = f)
         /\ resume => NoHeader(out[live], back[live], ack[live], rd[live])
<1>1. \A g \in Flushers : Holds(g) => g = f
  BY Zenon DEF Smooth, Turns
<1>2. \A g \in Flushers : fl[g].pc # "wait"
  BY <1>1, Zenon DEF Holds
<1> QED
  BY <1>1, <1>2, Zenon DEF Smooth, Answer

\* Another frame follows those on the wire.
LEMMA WirePush ==
  ASSUME NEW q \in Seq(Frame), NEW r, NEW got, NEW F, NEW G, NEW x \in Frame, Wire(q, r, got, F),
         x.t = "chunk" => IF q = <<>> THEN Ready(r, got, x.off) ELSE Follows(q[Len(q)], x.off),
         \A g \in Flushers : G[g].pc = "chunk" => Follows(x, G[g].off)
  PROVE  Wire(Append(q, x), r, got, G)
<1> DEFINE p == Append(q, x)
<1>1. /\ Len(q) \in Nat /\ Len(p) = Len(q) + 1 /\ p # <<>> /\ p[Len(q) + 1] = x
      /\ \A j \in 1 .. Len(q) : p[j] = q[j]
      /\ q = <<>> <=> Len(q) = 0
      /\ p[1] = IF q = <<>> THEN x ELSE q[1]
  BY Pushed, Zenon
<1> HIDE DEF p
<1>2. p[1].t = "chunk" => Ready(r, got, p[1].off)
  BY <1>1, Zenon DEF Wire
<1>3. ASSUME NEW j \in 1 .. Len(p) - 1, p[j + 1].t = "chunk" PROVE Follows(p[j], p[j + 1].off)
  <2>1. CASE j = Len(q)
    <3>1. q # <<>> /\ p[j] = q[Len(q)] /\ p[j + 1] = x
      BY <1>1, <2>1, Places, Zenon
    <3> QED
      BY <1>3, <3>1, Zenon
  <2>2. CASE j # Len(q)
    <3>1. j \in 1 .. Len(q) - 1 /\ p[j] = q[j] /\ p[j + 1] = q[j + 1]
      BY <1>1, <2>2, Places, Zenon
    <3> QED
      BY <1>3, <3>1, Zenon DEF Wire
  <2> QED
    BY <2>1, <2>2, Zenon
<1>4. p[Len(p)] = x
  BY <1>1, Zenon
<1>5. Wire(p, r, got, G)
  BY <1>1, <1>2, <1>3, <1>4, Zenon DEF Wire
<1> QED
  BY <1>5, Zenon DEF p

\* Goroutine f writes the frame x and goes on as v.
LEMMA PushSmooth ==
  ASSUME Inv, Smooth, live \in Link, NEW f \in Flushers, Holds(f), fl[f].pc # "wait",
         NEW x \in Frame, NEW v \in FlushState,
         out' = [out EXCEPT ![live] = Append(@, x)], fl' = [fl EXCEPT ![f] = v],
         UNCHANGED <<resume, live, end, cut, rd, rec, dir, tmp, held, back, ack>>,
         v.link = live, v.pc \in {"wait", "chunk", "sent"},
         v.pc = "wait" <=> resume /\ x.t = "file",
         v.pc = "chunk" => Follows(x, v.off),
         x.t = "chunk" => IF out[live] = <<>> THEN Ready(rd[live], rec.got, x.off)
                                              ELSE Follows(out[live][Len(out[live])], x.off)
  PROVE  Smooth'
<1>1. live # NoLink
  BY Nothing, Zenon
<1>2. out[live] \in Seq(Frame) /\ out'[live] = Append(out[live], x)
  BY Zenon DEF Inv, WireOK
<1>3. fl'[f] = v /\ \A g \in Flushers \ {f} : fl'[g] = fl[g]
  BY Zenon DEF Inv, SndOK
<1>4. /\ \A g \in Flushers : fl[g].pc # "wait" /\ (Holds(g) => g = f)
      /\ resume => NoHeader(out[live], back[live], ack[live], rd[live])
  BY <1>1, NoneWaits, Zenon
<1>5. Alone' /\ Disk(rd[live], rec, dir, tmp, held)'
  BY <1>1, Zenon DEF Smooth, Alone
<1>6. Turns'
  BY <1>3, <1>4, Zenon DEF Smooth, Turns, Holds
<1>7. Wire(out[live], rd[live], rec.got, fl)'
  <2>1. \A g \in Flushers : fl'[g].pc = "chunk" => Follows(x, fl'[g].off)
    BY <1>3, <1>4, Zenon DEF Holds
  <2>2. Wire(out[live], rd[live], rec.got, fl)
    BY <1>1, Zenon DEF Smooth
  <2>3. Wire(Append(out[live], x), rd[live], rec.got, fl')
    BY <1>2, <2>1, <2>2, WirePush, Zenon
  <2> QED
    BY <1>2, <2>3, Zenon
<1>8. ASSUME resume PROVE Answer(out[live], back[live], ack[live], rd[live], rec.got, fl)'
  <2> DEFINE q == out[live]
             p == Append(q, x)
  <2>1. \A i \in 1 .. Len(p) : p[i].t = "file" => i = Len(p) /\ x.t = "file"
    BY <1>2, <1>4, <1>8, HeaderLast, Zenon DEF NoHeader
  <2>2. rd[live].pc \notin Answering /\ back[live] = <<>> /\ ack[live] \notin Offset
    BY <1>4, <1>8, Zenon DEF NoHeader
  <2>3. Answer(p, back[live], ack[live], rd[live], rec.got, fl')
    BY <1>3, <1>8, <2>1, <2>2, Zenon DEF Answer, NoHeader
  <2> QED
    BY <1>2, <2>3, Zenon
<1> QED
  BY <1>1, <1>5, <1>6, <1>7, <1>8, Zenon DEF Smooth

\* A write on the live link goes through.
LEMMA QuietWrite ==
  ASSUME Smooth, live \in Link, NEW f \in Flushers, fl[f].link = live, NEW m, NEW v, Write(f, m, v)
  PROVE  /\ out' = [out EXCEPT ![live] = Append(@, m)] /\ fl' = [fl EXCEPT ![f] = v]
         /\ UNCHANGED <<resume, live, end, cut, rd, rec, dir, tmp, held, back, ack>>
<1>1. ~WriteLost("snd", live) /\ ~WriteFails("snd", live)
  BY Zenon DEF WriteLost, WriteFails, Smooth, Alone, End
<1> QED
  BY <1>1, Zenon DEF Write, sndVars, rcvVars, diskVars

\* The goroutines keep a transfer smooth.
LEMMA FlushSmooth ==
  ASSUME Inv, Smooth, NEW f \in Flushers, Flush(f), ~Timeout(f)
  PROVE  Smooth'
<1>1. /\ fl \in [Flushers -> FlushState] /\ resume \in BOOLEAN
      /\ ack \in [Link -> Offset \cup {NoChan, EmptyChan}]
  BY TransferBounds, Zenon DEF Inv, SndOK
<1>2. NoChan \notin Offset /\ EmptyChan \notin Offset /\ NoLink \notin Link
  BY Nothing, Zenon
<1>3. fl[f].pc # "idle" => fl[f].link = live /\ live \in Link /\ live # NoLink
  BY <1>2, Zenon DEF Inv, SndOK, Smooth, Turns
<1>4. fl[f].pc # "sent" => fl[f].off \in 0 .. Size - 1
  <2>1. fl[f].off \in Offset /\ (fl[f].pc # "sent" => fl[f].off < Size)
    BY <1>1, Zenon DEF Inv, SndOK, FlushState
  <2> QED
    BY <2>1, TransferBounds DEF Offset
<1>5. CASE StartFlush(f)
  <2>1. /\ fl' = [fl EXCEPT ![f] = [pc |-> "lock", link |-> live, off |-> 0]]
        /\ live # NoLink /\ fl[f].pc = "idle"
        /\ UNCHANGED <<resume, ack, live, end, cut, rd, rec, dir, tmp, held, out, back>>
    BY <1>5, Zenon DEF StartFlush, rcvVars, diskVars, linkVars, wireVars
  <2>2. /\ fl'[f].pc = "lock" /\ fl'[f].link = live /\ fl'[f].off = 0
        /\ \A g \in Flushers \ {f} : fl'[g] = fl[g]
    BY <1>1, <2>1, Zenon
  <2>3. Turns'
    BY <2>1, <2>2 DEF Smooth, Turns, Holds
  <2> QED
    BY <2>1, <2>2, <2>3, FlushKeeps, Zenon
<1>6. CASE Lock(f)
  <2>1. /\ fl' = [fl EXCEPT ![f].pc = "header"]
        /\ fl[f].pc = "lock" /\ ~FlushLocked(live)
        /\ ack' = [ack EXCEPT ![live] = IF resume THEN EmptyChan ELSE @]
        /\ UNCHANGED <<resume, live, end, cut, rd, rec, dir, tmp, held, out, back>>
    BY <1>3, <1>6, Zenon DEF Lock, sndVars, rcvVars, diskVars, linkVars, wireVars
  <2>2. /\ fl'[f].pc = "header" /\ fl'[f].link = fl[f].link /\ fl'[f].off = fl[f].off
        /\ \A g \in Flushers \ {f} : fl'[g] = fl[g]
    BY <1>1, <2>1, Zenon DEF FlushState
  <2>3. \A g \in Flushers : ~Holds(g)
    BY <2>1, Zenon DEF FlushLocked, Holds, Smooth, Turns
  <2>4. Turns'
    BY <2>1, <2>2, <2>3 DEF Smooth, Turns, Holds
  <2>5. ack'[live] = ack[live] \/ ack'[live] \notin Offset
    BY <1>1, <1>2, <1>3, <2>1, Zenon
  <2> QED
    BY <1>3, <2>1, <2>2, <2>4, <2>5, FlushKeeps, Zenon
<1>7. CASE Header(f)
  <2> DEFINE x == [t |-> "file", off |-> 0]
             v == [fl[f] EXCEPT !.pc = IF resume THEN "wait" ELSE "chunk"]
  <2>1. fl[f].pc = "header" /\ Write(f, x, v)
    BY <1>7, Zenon DEF Header
  <2>2. /\ v \in FlushState /\ v.link = fl[f].link /\ v.off = fl[f].off
        /\ v.pc = IF resume THEN "wait" ELSE "chunk"
    BY <1>1, Zenon DEF FlushState
  <2>3. x \in Frame /\ x.t = "file"
    BY Zenon DEF Frame
  <2>4. fl[f].off = 0
    BY <2>1, Zenon DEF Smooth, Turns
  <2> HIDE DEF x, v
  <2>5. v.pc = "chunk" => Follows(x, v.off)
    BY <2>2, <2>3, <2>4, Zenon DEF Follows
  <2>6. /\ out' = [out EXCEPT ![live] = Append(@, x)] /\ fl' = [fl EXCEPT ![f] = v]
        /\ UNCHANGED <<resume, live, end, cut, rd, rec, dir, tmp, held, back, ack>>
    BY <1>3, <2>1, QuietWrite, Zenon
  <2>7. Holds(f) /\ fl[f].pc # "wait" /\ live \in Link /\ v.link = live
    BY <1>3, <2>1, <2>2, Zenon DEF Holds
  <2>8. v.pc \in {"wait", "chunk", "sent"} /\ (v.pc = "wait" <=> resume /\ x.t = "file")
    BY <1>1, <2>2, <2>3, Zenon
  <2> QED
    BY <2>2, <2>3, <2>5, <2>6, <2>7, <2>8, PushSmooth, Zenon
<1>8. CASE Resume(f)
  <2> DEFINE a == ack[live]
             v == [fl[f] EXCEPT !.pc = IF a >= Size THEN "sent" ELSE "chunk", !.off = a]
  <2>1. /\ fl[f].pc = "wait" /\ a \in Offset /\ ack' = [ack EXCEPT ![live] = EmptyChan]
        /\ fl' = [fl EXCEPT ![f] = v]
        /\ UNCHANGED <<resume, live, end, cut, rd, rec, dir, tmp, held, out, back>>
    BY <1>3, <1>8, Zenon DEF Resume, sndVars, rcvVars, diskVars, linkVars, wireVars
  <2>2. v.pc \in {"sent", "chunk"} /\ v.link = fl[f].link /\ v.off = a
    BY <1>1, <2>1, Zenon DEF FlushState
  <2> HIDE DEF v
  <2>3. fl'[f] = v /\ \A g \in Flushers \ {f} : fl'[g] = fl[g]
    BY <1>1, <2>1, Zenon
  <2>4. resume
    BY <2>1, Zenon DEF Smooth, Turns
  <2>5. /\ back[live] = <<>> /\ out[live] = <<>> /\ rd[live].pc = "recv"
        /\ Ready(rd[live], rec.got, a)
    BY <1>3, <2>1, <2>4, Zenon DEF Smooth, Answer
  <2>6. \A g \in Flushers : Holds(g) => g = f
    BY <2>1, Zenon DEF Smooth, Turns, Holds
  <2>7. Turns'
    BY <1>3, <2>1, <2>2, <2>3, <2>6 DEF Smooth, Turns, Holds
  <2>8. Alone' /\ Disk(rd[live], rec, dir, tmp, held)'
    BY <1>3, <2>1, Zenon DEF Smooth, Alone
  <2>9. Wire(out[live], rd[live], rec.got, fl)'
    <3>1. \A g \in Flushers : fl'[g].pc = "chunk" => g = f
      BY <2>3, <2>6, Zenon DEF Holds
    <3>2. Wire(<<>>, rd[live], rec.got, fl')
      BY <2>2, <2>3, <2>5, <3>1, WireOff, Zenon
    <3> QED
      BY <2>1, <2>5, <3>2, Zenon
  <2>10. Answer(out[live], back[live], ack[live], rd[live], rec.got, fl)'
    <3>1. ack'[live] = EmptyChan
      BY <1>1, <1>3, <2>1, Zenon
    <3>2. Answer(<<>>, <<>>, EmptyChan, rd[live], rec.got, fl')
      BY <1>2, <2>5, AnswerOff, Zenon DEF Answering
    <3> QED
      BY <2>1, <2>5, <3>1, <3>2, Zenon
  <2> QED
    BY <1>3, <2>1, <2>7, <2>8, <2>9, <2>10, Zenon DEF Smooth
<1>9. CASE Chunk(f)
  <2> DEFINE n == fl[f].off
             x == [t |-> "chunk", off |-> n]
             v == [fl[f] EXCEPT !.off = @ + 1, !.pc = IF n + 1 = Size THEN "sent" ELSE "chunk"]
  <2>1. fl[f].pc = "chunk" /\ Write(f, x, v)
    BY <1>9, Zenon DEF Chunk
  <2>2. n \in 0 .. Size - 1 /\ n + 1 \in Offset
    BY <1>4, <2>1, TransferBounds DEF Offset
  <2>3. /\ v \in FlushState /\ v.link = fl[f].link /\ v.off = n + 1
        /\ v.pc \in {"sent", "chunk"}
    BY <1>1, <2>2, Zenon DEF FlushState
  <2>4. x \in Frame /\ x.t = "chunk" /\ x.off = n
    BY <2>2, Zenon DEF Frame
  <2>5. IF out[live] = <<>> THEN Ready(rd[live], rec.got, n) ELSE Follows(out[live][Len(out[live])], n)
    BY <1>3, <2>1, Zenon DEF Smooth, Wire
  <2> HIDE DEF x, v
  <2>6. Follows(x, v.off)
    BY <2>3, <2>4, Zenon DEF Follows
  <2>7. /\ out' = [out EXCEPT ![live] = Append(@, x)] /\ fl' = [fl EXCEPT ![f] = v]
        /\ UNCHANGED <<resume, live, end, cut, rd, rec, dir, tmp, held, back, ack>>
    BY <1>3, <2>1, QuietWrite, Zenon
  <2>8. Holds(f) /\ fl[f].pc # "wait" /\ live \in Link /\ v.link = live
    BY <1>3, <2>1, <2>3, Zenon DEF Holds
  <2>9. v.pc \in {"wait", "chunk", "sent"} /\ (v.pc = "wait" <=> resume /\ x.t = "file")
    BY <2>3, <2>4, Zenon
  <2> QED
    BY <2>3, <2>4, <2>5, <2>6, <2>7, <2>8, <2>9, PushSmooth, Zenon
<1>10. CASE MarkFileSent(f)
  <2>1. /\ fl[f].pc = "sent" /\ fl' = [fl EXCEPT ![f] = IdleFlush]
        /\ ack' = [ack EXCEPT ![live] = NoChan]
        /\ UNCHANGED <<resume, live, end, cut, rd, rec, dir, tmp, held, out, back>>
    BY <1>3, <1>10, Zenon DEF MarkFileSent, Return, rcvVars, diskVars, linkVars, wireVars
  <2>2. fl'[f].pc = "idle" /\ \A g \in Flushers \ {f} : fl'[g] = fl[g]
    BY <1>1, <2>1, Idle, Zenon
  <2>3. Turns'
    BY <2>1, <2>2, Zenon DEF Smooth, Turns, Holds
  <2>4. ack'[live] \notin Offset
    BY <1>1, <1>2, <1>3, <2>1, Zenon
  <2> QED
    BY <1>3, <2>1, <2>2, <2>3, <2>4, FlushKeeps, Zenon
<1> QED
  BY <1>5, <1>6, <1>7, <1>8, <1>9, <1>10, Zenon DEF Flush

\* The read loop of the live link goes on as v.
LEMMA ReadSmooth ==
  ASSUME Inv, Smooth, live \in Link, NEW v, rd' = [rd EXCEPT ![live] = v],
         UNCHANGED <<resume, fl, live, end, cut>>, rec'.st # "failed", v.pc = "ack" => resume,
         Disk(v, rec', dir', tmp', held'), Wire(out'[live], v, rec'.got, fl),
         resume => Answer(out'[live], back'[live], ack'[live], v, rec'.got, fl)
  PROVE  Smooth'
<1>1. live # NoLink
  BY Nothing, Zenon
<1>2. rd'[live] = v /\ \A d \in Link : d # live => rd'[d] = rd[d]
  BY Zenon DEF Inv, RcvOK
<1>3. Alone' /\ Turns'
  BY <1>2, Zenon DEF Smooth, Alone, Turns, Holds
<1> QED
  BY <1>1, <1>2, <1>3, Zenon DEF Smooth

\* The wire of a read loop that is at least as ready as it was.
LEMMA WireSame ==
  ASSUME NEW q \in Seq(Frame), NEW r, NEW got, NEW F \in [Flushers -> FlushState], NEW v, NEW k,
         Wire(q, r, got, F), \A n \in Offset : Ready(r, got, n) => Ready(v, k, n)
  PROVE  Wire(q, v, k, F)
<1>1. \A x \in Frame : x.off \in Offset
  BY TransferBounds DEF Frame, Offset
<1>2. q # <<>> => q[1] \in Frame
  OBVIOUS
<1>3. \A f \in Flushers : F[f].off \in Offset
  BY Zenon DEF FlushState
<1> QED
  BY <1>1, <1>2, <1>3, Zenon DEF Wire

\* A queue of one is empty once it is read.
LEMMA LastRead ==
  ASSUME NEW S, NEW s \in Seq(S), Len(s) = 1 PROVE Tail(s) = <<>>
<1>1. \A t \in Seq(S) : Len(t) = 0 => t = <<>>
  OBVIOUS
<1>2. Tail(s) \in Seq(S) /\ Len(Tail(s)) = 0
  OBVIOUS
<1> QED
  BY <1>1, <1>2, Zenon

\* The wire after its first frame was read.
LEMMA WirePop ==
  ASSUME NEW q \in Seq(Frame), q # <<>>, NEW r, NEW got, NEW F, NEW v, NEW k,
         Wire(q, r, got, F), \A n : Follows(q[1], n) => Ready(v, k, n)
  PROVE  Wire(Tail(q), v, k, F)
<1> DEFINE p == Tail(q)
<1>1. /\ Len(q) \in Nat /\ Len(q) > 0 /\ Len(p) = Len(q) - 1 /\ (p = <<>> <=> Len(q) = 1)
      /\ \A j \in 1 .. Len(p) : p[j] = q[j + 1]
  <2>1. Len(q) \in Nat /\ Len(q) > 0 /\ p \in Seq(Frame) /\ Len(p) = Len(q) - 1
    OBVIOUS
  <2>2. \A j \in 1 .. Len(p) : p[j] = q[j + 1]
    OBVIOUS
  <2>3. p = <<>> <=> Len(p) = 0
    <3>1. \A s \in Seq(Frame) : s = <<>> <=> Len(s) = 0
      OBVIOUS
    <3> QED
      BY <2>1, <3>1, Zenon
  <2> QED
    BY <2>1, <2>2, <2>3
<1> HIDE DEF p
<1>2. p # <<>> /\ p[1].t = "chunk" => Ready(v, k, p[1].off)
  <2> SUFFICES ASSUME p # <<>>, p[1].t = "chunk" PROVE Ready(v, k, p[1].off)
    BY Zenon
  <2>1. 1 \in 1 .. Len(q) - 1 /\ p[1] = q[1 + 1]
    BY <1>1, Places, Zenon
  <2>2. Follows(q[1], p[1].off)
    BY <2>1, Zenon DEF Wire
  <2> QED
    BY <2>2, Zenon
<1>3. ASSUME NEW i \in 1 .. Len(p) - 1, p[i + 1].t = "chunk" PROVE Follows(p[i], p[i + 1].off)
  <2>1. i + 1 \in 1 .. Len(q) - 1 /\ p[i] = q[i + 1] /\ p[i + 1] = q[(i + 1) + 1]
    BY <1>1, Places, Zenon
  <2> QED
    BY <1>3, <2>1, Zenon DEF Wire
<1>4. ASSUME NEW f \in Flushers, F[f].pc = "chunk"
      PROVE  IF p = <<>> THEN Ready(v, k, F[f].off) ELSE Follows(p[Len(p)], F[f].off)
  <2>1. Follows(q[Len(q)], F[f].off)
    BY <1>4, Zenon DEF Wire
  <2>2. CASE p = <<>>
    <3>1. Len(q) = 1
      BY <1>1, <2>2, Zenon
    <3> QED
      BY <2>1, <2>2, <3>1, Zenon
  <2>3. CASE p # <<>>
    <3>1. Len(p) \in 1 .. Len(p) /\ Len(p) + 1 = Len(q)
      BY <1>1, <2>3, Places, Zenon
    <3>2. p[Len(p)] = q[Len(q)]
      BY <1>1, <3>1, Zenon
    <3> QED
      BY <2>1, <2>3, <3>2, Zenon
  <2> QED
    BY <2>2, <2>3, Zenon
<1>5. Wire(p, v, k, F)
  BY <1>2, <1>3, <1>4, Zenon DEF Wire
<1> QED
  BY <1>5, Zenon DEF p

\* A read loop that has gone beyond answering, or has not come to it, leaves
\* the header and its answer where they are.
LEMMA AnswerSame ==
  ASSUME NEW q, NEW b, NEW a, NEW r, NEW got, NEW F, NEW v, NEW k,
         Answer(q, b, a, r, got, F), r.pc \notin Answering \cup {"recv"}, v.pc \notin Answering
  PROVE  Answer(q, b, a, v, k, F)
BY Zenon DEF Answer, NoHeader

\* A chunk is read: no answer is under way.
LEMMA AnswerPop ==
  ASSUME NEW q \in Seq(Frame), q # <<>>, NEW b, NEW a, NEW r, NEW got, NEW F, NEW v, NEW k,
         Answer(q, b, a, r, got, F), r.pc = "recv", v.pc \notin Answering
  PROVE  Answer(Tail(q), b, a, v, k, F)
<1>1. /\ Len(Tail(q)) = Len(q) - 1 /\ Len(q) \in Nat
      /\ \A j \in 1 .. Len(Tail(q)) : Tail(q)[j] = q[j + 1] /\ j + 1 \in 1 .. Len(q)
  OBVIOUS
<1>2. b = <<>> /\ a \notin Offset
  BY Zenon DEF Answer
<1>3. \A j \in 1 .. Len(Tail(q)) : Tail(q)[j].t = "file" => j = Len(Tail(q))
  <2> SUFFICES ASSUME NEW j \in 1 .. Len(Tail(q)), Tail(q)[j].t = "file" PROVE j = Len(Tail(q))
    BY Zenon
  <2>1. q[j + 1].t = "file" /\ j + 1 \in 1 .. Len(q)
    BY <1>1, Zenon
  <2>2. j + 1 = Len(q)
    BY <2>1, Zenon DEF Answer
  <2>3. j \in Int /\ Len(Tail(q)) = Len(q) - 1 /\ Len(q) \in Int
    BY <1>1
  <2> QED
    BY <2>2, <2>3
<1>4. (\A f \in Flushers : F[f].pc # "wait") => \A j \in 1 .. Len(Tail(q)) : Tail(q)[j].t # "file"
  BY <1>1, Zenon DEF Answer, NoHeader
<1> QED
  BY <1>2, <1>3, <1>4, Zenon DEF Answer, NoHeader

\* A chunk written at the end of a partial without holes, or within it, leaves
\* none.
LEMMA ChunkFits ==
  ASSUME NEW n \in Nat, NEW i \in 0 .. n, held = Bytes(n)
  PROVE  WithChunk(i) = Bytes(IF i + 1 > n THEN i + 1 ELSE n)
<1> DEFINE m == IF i + 1 > n THEN i + 1 ELSE n
<1>1. Len(held) = n /\ \A j \in 1 .. n : held[j] = TRUE
  BY DEF Bytes
<1>2. (IF i < Len(held) THEN Len(held) ELSE i + 1) = m
  BY <1>1
<1>3. \A j \in 1 .. m : j = i + 1 \/ (j <= Len(held) /\ held[j])
  BY <1>1
<1>4. WithChunk(i) = [j \in 1 .. m |-> j = i + 1 \/ (j <= Len(held) /\ held[j])]
  BY <1>2, Zenon DEF WithChunk
<1> HIDE DEF m
<1>5. \A j \in 1 .. m : (j = i + 1 \/ (j <= Len(held) /\ held[j])) = TRUE
  BY <1>3, Zenon
<1>6. WithChunk(i) = Bytes(m)
  BY <1>4, <1>5, Zenon DEF Bytes
<1> QED
  BY <1>6, Zenon DEF m

\* The read loop of the live link at a header.
LEMMA HeaderSmooth ==
  ASSUME Inv, Smooth, live \in Link,
         RecvFileAck(live) \/ BeginReceive(live) \/ InitTemp(live) \/ PutRecord(live) \/ SendFileAck(live)
  PROVE  Smooth'
<1> DEFINE q == out[live]
           b == back[live]
           a == ack[live]
           r == rd[live]
<1>1. /\ rd \in [Link -> ReadState] /\ r \in ReadState /\ fl \in [Flushers -> FlushState]
      /\ rec \in [st : {"none", "receiving", "complete", "failed"}, got : Offset]
      /\ out \in [Link -> Seq(Frame)] /\ back \in [Link -> Seq(Offset)]
      /\ ack \in [Link -> Offset \cup {NoChan, EmptyChan}] /\ resume \in BOOLEAN
  BY TransferBounds, Zenon DEF Inv, RcvOK, WireOK, SndOK
<1>2. live # NoLink
  BY Nothing, Zenon
<1>3. /\ Disk(r, rec, dir, tmp, held) /\ (r.pc = "ack" => resume) /\ Wire(q, r, rec.got, fl)
      /\ resume => Answer(q, b, a, r, rec.got, fl)
      /\ rec.st # "failed"
  BY <1>2, Zenon DEF Smooth
<1>4. q \in Seq(Frame) /\ b \in Seq(Offset) /\ Offset \subseteq Nat
  BY <1>1, TransferBounds DEF Offset
<1>5. CASE RecvFileAck(live)
  <2>1. /\ b # <<>> /\ back' = [back EXCEPT ![live] = Tail(@)]
        /\ ack' = [ack EXCEPT ![live] = IF @ = EmptyChan THEN Head(back[live]) ELSE @]
        /\ UNCHANGED <<resume, fl, rd, rec, dir, tmp, held, live, end, cut, out>>
    BY <1>5, Zenon DEF RecvFileAck, sndVars, rcvVars, diskVars, linkVars
  <2>2. back'[live] = Tail(b) /\ ack'[live] \in {a, b[1]}
    BY <1>1, <2>1
  <2>3. ASSUME resume PROVE Answer(q, back'[live], ack'[live], r, rec.got, fl)
    <3>1. Len(b) = 1 /\ q = <<>> /\ a \notin Offset /\ r.pc = "recv" /\ Ready(r, rec.got, b[1])
      BY <1>3, <2>1, <2>3, Zenon DEF Answer
    <3>2. Tail(b) = <<>>
      BY <1>4, <3>1, LastRead, Zenon
    <3>3. ~(\A f \in Flushers : fl[f].pc # "wait")
      BY <1>3, <2>1, <2>3, Zenon DEF Answer, NoHeader
    <3>4. Answer(<<>>, <<>>, ack'[live], r, rec.got, fl)
      BY <2>2, <3>1, <3>3, AnswerOff, Zenon DEF Answering
    <3> QED
      BY <2>2, <3>1, <3>2, <3>4, Zenon
  <2>4. Alone' /\ Turns'
    BY <2>1, Zenon DEF Smooth, Alone, Turns, Holds
  <2> QED
    BY <1>2, <1>3, <2>1, <2>3, <2>4, Zenon DEF Smooth
<1>6. CASE BeginReceive(live)
  <2> DEFINE n == HeldSoFar
             v == [r EXCEPT !.pc = IF n = 0 THEN "init" ELSE "put", !.off = n]
  <2>1. /\ r.pc = "recv" /\ q # <<>> /\ Head(q).t = "file"
        /\ out' = [out EXCEPT ![live] = Tail(@)] /\ dir' = TRUE /\ rd' = [rd EXCEPT ![live] = v]
        /\ UNCHANGED <<resume, fl, ack, rec, tmp, held, live, end, cut, back>>
    BY <1>6, Zenon DEF BeginReceive, Reads, sndVars, linkVars
  <2>2. n \in Offset
    BY HeldSoFarType, Zenon DEF Inv
  <2>3. n = 0 \/ (tmp /\ held = Bytes(n))
    <3>1. CASE rec.st = "receiving" /\ tmp
      <4>1. held = Bytes(rec.got)
        BY <1>3, <2>1, <3>1, Zenon DEF Disk, Partial
      <4>2. rec.got \in Nat
        BY <1>1, <1>4, Zenon
      <4>3. Len(held) = rec.got
        BY <4>1, <4>2 DEF Bytes
      <4>4. n = rec.got
        BY <3>1, <4>2, <4>3, Zenon DEF HeldSoFar, MinOf
      <4> QED
        BY <3>1, <4>1, <4>4, Zenon
    <3>2. CASE ~(rec.st = "receiving" /\ tmp)
      BY <3>2, Zenon DEF HeldSoFar
    <3> QED
      BY <3>1, <3>2, Zenon
  <2>4. v.pc = (IF n = 0 THEN "init" ELSE "put") /\ v.off = n
    BY <1>1, Zenon DEF ReadState
  <2> HIDE DEF n, v
  <2>5. Disk(v, rec', dir', tmp', held')
    BY <2>1, <2>3, <2>4, Zenon DEF Disk
  <2>6. q[1].t = "file" /\ 1 \in 1 .. Len(q) /\ out'[live] = Tail(q)
    BY <1>1, <1>4, <2>1
  <2>7. Wire(Tail(q), v, rec.got, fl)
    <3>1. q[1].t # "chunk" /\ v.pc # "recv" /\ v.pc # "count" /\ v.off = n
      BY <2>4, <2>6, Zenon
    <3>2. 0 <= n
      BY <2>2, Counting, Zenon
    <3>3. \A m : Follows(q[1], m) => Ready(v, rec.got, m)
      BY <3>1, <3>2, Zenon DEF Follows, Ready
    <3> QED
      BY <1>3, <1>4, <2>1, <3>3, WirePop, Zenon
  <2>8. ASSUME resume PROVE Answer(Tail(q), b, a, v, rec.got, fl)
    <3>1. Len(q) = 1 /\ b = <<>> /\ a \notin Offset
      BY <1>3, <2>6, <2>8, Zenon DEF Answer
    <3>2. Tail(q) = <<>>
      BY <1>4, <3>1, LastRead, Zenon
    <3>3. ~(\A f \in Flushers : fl[f].pc # "wait")
      BY <1>3, <2>6, <2>8, Zenon DEF Answer, NoHeader
    <3>4. Answer(<<>>, <<>>, a, v, rec.got, fl)
      BY <2>4, <3>1, <3>3, AnswerOff, Zenon
    <3> QED
      BY <3>1, <3>2, <3>4, Zenon
  <2> QED
    BY <1>3, <2>1, <2>4, <2>5, <2>6, <2>7, <2>8, ReadSmooth, Zenon
<1>7. CASE InitTemp(live)
  <2> DEFINE v == [r EXCEPT !.pc = "put"]
  <2>1. r.pc = "init" /\ dir
    BY <1>3, <1>7, Zenon DEF InitTemp, Disk
  <2>2. /\ tmp' = TRUE /\ held' = <<>> /\ rd' = [rd EXCEPT ![live] = v]
        /\ UNCHANGED <<resume, fl, ack, rec, dir, live, end, cut, out, back>>
    BY <1>1, <1>7, <2>1, Zenon DEF InitTemp, sndVars, wireVars
  <2>3. v.pc = "put" /\ v.off = r.off /\ r.off = 0
    BY <1>1, <1>3, <2>1, Zenon DEF ReadState, Disk
  <2> HIDE DEF v
  <2>4. Bytes(0) = <<>>
    BY DEF Bytes
  <2>5. Disk(v, rec', dir', tmp', held')
    BY <2>1, <2>2, <2>3, <2>4, Zenon DEF Disk
  <2>6. Wire(q, v, rec.got, fl)
    BY <1>1, <1>3, <1>4, <2>1, <2>3, WireSame, Zenon DEF Ready, Answering
  <2>7. resume => Answer(q, b, a, v, rec.got, fl)
    BY <1>3, <2>1, <2>3, Zenon DEF Answer, NoHeader, Answering
  <2> QED
    BY <1>3, <2>2, <2>3, <2>5, <2>6, <2>7, ReadSmooth, Zenon
<1>8. CASE PutRecord(live)
  <2> DEFINE v == [r EXCEPT !.pc = IF resume THEN "ack" ELSE "recv", !.rx = TRUE]
  <2>1. /\ r.pc = "put" /\ rec' = [st |-> "receiving", got |-> r.off] /\ rd' = [rd EXCEPT ![live] = v]
        /\ UNCHANGED <<resume, fl, ack, dir, tmp, held, live, end, cut, out, back>>
    BY <1>8, Zenon DEF PutRecord, sndVars, diskVars, linkVars, wireVars
  <2>2. v.pc = (IF resume THEN "ack" ELSE "recv") /\ v.off = r.off /\ v.rx
    BY <1>1, Zenon DEF ReadState
  <2> HIDE DEF v
  <2>3. rec'.st = "receiving" /\ rec'.got = r.off
    BY <2>1, Zenon
  <2>4. dir /\ tmp /\ held = Bytes(r.off)
    BY <1>3, <2>1, Zenon DEF Disk
  <2>5. Disk(v, rec', dir', tmp', held')
    BY <2>1, <2>2, <2>3, <2>4, Zenon DEF Disk, Partial
  <2>6. Wire(q, v, rec'.got, fl)
    BY <1>1, <1>3, <1>4, <2>1, <2>2, <2>3, WireSame, Zenon DEF Ready, Answering
  <2>7. resume => Answer(q, b, a, v, rec'.got, fl)
    BY <1>3, <2>1, <2>2, Zenon DEF Answer, NoHeader, Answering
  <2> QED
    BY <2>1, <2>2, <2>3, <2>5, <2>6, <2>7, ReadSmooth, Zenon
<1>9. CASE SendFileAck(live)
  <2> DEFINE v == [r EXCEPT !.pc = "recv"]
  <2>1. ~WriteLost("rcv", live) /\ ~WriteFails("rcv", live)
    BY Zenon DEF WriteLost, WriteFails, Smooth, Alone, End
  <2>2. /\ r.pc = "ack" /\ back' = [back EXCEPT ![live] = Append(@, r.off)] /\ rd' = [rd EXCEPT ![live] = v]
        /\ UNCHANGED <<resume, fl, ack, rec, dir, tmp, held, live, end, cut, out>>
    BY <1>9, <2>1, Zenon DEF SendFileAck, sndVars, rcvVars, diskVars
  <2>3. v.pc = "recv" /\ v.off = r.off /\ v.rx = r.rx
    BY <1>1, Zenon DEF ReadState
  <2> HIDE DEF v
  <2>4. resume /\ r.rx /\ dir /\ r.off = rec.got /\ Partial(rec, tmp, held, rec.got)
    BY <1>3, <2>2, Zenon DEF Disk
  <2>5. Disk(v, rec', dir', tmp', held')
    BY <2>2, <2>3, <2>4, Zenon DEF Disk
  <2>6. q = <<>> /\ b = <<>> /\ a \notin Offset /\ ~(\A f \in Flushers : fl[f].pc # "wait")
    BY <1>3, <2>2, <2>4, Zenon DEF Answer, NoHeader, Answering
  <2>7. Wire(q, v, rec.got, fl)
    BY <1>1, <1>3, <1>4, <2>2, <2>3, <2>4, WireSame, Zenon DEF Ready, Answering
  <2>8. Answer(q, back'[live], a, v, rec.got, fl)
    <3>1. back'[live] = Append(<<>>, r.off)
      BY <1>1, <2>2, <2>6, Zenon
    <3>2. back'[live] # <<>> /\ Len(back'[live]) = 1 /\ back'[live][1] = r.off
      BY <3>1, PushedOne, Zenon
    <3>3. r.off <= rec.got
      <4>1. rec.got \in Nat
        BY <1>1, TransferBounds DEF Offset
      <4> QED
        BY <2>4, <4>1
    <3>4. Ready(v, rec.got, r.off)
      BY <2>3, <3>3, Zenon DEF Ready, Answering
    <3>5. Answer(<<>>, back'[live], a, v, rec.got, fl)
      BY <2>3, <2>6, <3>2, <3>4, AnswerOff, Zenon DEF Answering
    <3> QED
      BY <2>6, <3>5, Zenon
  <2> QED
    BY <1>3, <2>2, <2>3, <2>5, <2>7, <2>8, ReadSmooth, Zenon
<1> QED
  BY <1>5, <1>6, <1>7, <1>8, <1>9, Zenon

\* The read loop of the live link at a chunk and at the end of the file.
LEMMA ChunkSmooth ==
  ASSUME Inv, Smooth, live \in Link,
         \/ WriteBytes(live) \/ CountBytes(live)
         \/ Verify(live) \/ SaveData(live) \/ FillData(live) \/ SetStatus(live) \/ RemoveTemp(live)
  PROVE  Smooth'
<1> DEFINE q == out[live]
           b == back[live]
           a == ack[live]
           r == rd[live]
<1>1. /\ rd \in [Link -> ReadState] /\ r \in ReadState /\ fl \in [Flushers -> FlushState]
      /\ rec \in [st : {"none", "receiving", "complete", "failed"}, got : Offset]
      /\ out \in [Link -> Seq(Frame)]
  BY Zenon DEF Inv, RcvOK, WireOK, SndOK
<1>2. live # NoLink
  BY Nothing, Zenon
<1>3. /\ Disk(r, rec, dir, tmp, held) /\ Wire(q, r, rec.got, fl)
      /\ resume => Answer(q, b, a, r, rec.got, fl)
      /\ rec.st # "failed"
  BY <1>2, Zenon DEF Smooth
<1>4. q \in Seq(Frame) /\ rec.got \in Nat /\ r.off \in Nat /\ \A n \in Offset : n \in Int
  BY <1>1, TransferBounds DEF Offset, ReadState
<1>5. CASE WriteBytes(live)
  <2> DEFINE i == Head(q).off
             v == [r EXCEPT !.pc = "count", !.off = i]
  <2>1. /\ r.pc = "recv" /\ q # <<>> /\ Head(q).t = "chunk"
        /\ out' = [out EXCEPT ![live] = Tail(@)]
        /\ UNCHANGED <<resume, fl, ack, rec, dir, live, back>>
    BY <1>5, Zenon DEF WriteBytes, Reads, sndVars
  <2>2. q[1] \in Frame /\ q[1] = Head(q) /\ out'[live] = Tail(q)
    BY <1>1, <1>4, <2>1
  <2>3. i \in Nat /\ i + 1 \in Offset
    BY <2>1, <2>2, FrameChunk, Zenon
  <2>4. CASE ~r.rx
    <3>1. UNCHANGED <<tmp, held, rd, end, cut>>
      BY <1>5, <2>4, Zenon DEF WriteBytes
    <3>2. \A n : Ready(r, rec.got, n)
      BY <2>1, <2>4, Zenon DEF Ready, Answering
    <3>3. Wire(Tail(q), r, rec.got, fl)
      BY <1>3, <1>4, <2>1, <3>2, WirePop, Zenon
    <3>4. resume => Answer(Tail(q), b, a, r, rec.got, fl)
      BY <1>3, <1>4, <2>1, AnswerPop, Zenon DEF Answering
    <3>5. rd' = [rd EXCEPT ![live] = r]
      BY <1>1, <3>1, Zenon
    <3> QED
      BY <1>3, <2>1, <2>2, <3>1, <3>3, <3>4, <3>5, ReadSmooth, Zenon
  <2>5. CASE r.rx
    <3>1. dir /\ Partial(rec, tmp, held, rec.got)
      BY <1>3, <2>1, <2>5, Zenon DEF Disk
    <3>2. tmp' = TRUE /\ held' = WithChunk(i) /\ rd' = [rd EXCEPT ![live] = v] /\ UNCHANGED <<end, cut>>
      BY <1>5, <2>5, <3>1, Zenon DEF WriteBytes
    <3>3. v.pc = "count" /\ v.off = i /\ v.rx = r.rx
      BY <1>1, Zenon DEF ReadState
    <3> HIDE DEF v
    <3>4. i <= rec.got
      BY <1>3, <2>1, <2>2, <2>5, Zenon DEF Wire, Ready
    <3>5. i \in 0 .. rec.got /\ rec.got \in Nat
      BY <1>4, <2>3, <3>4
    <3> HIDE DEF i
    <3>6. held' = Bytes(IF i + 1 > rec.got THEN i + 1 ELSE rec.got)
      BY <3>1, <3>2, <3>5, ChunkFits, Zenon DEF Partial
    <3>7. Disk(v, rec', dir', tmp', held')
      BY <2>1, <2>5, <3>1, <3>2, <3>3, <3>4, <3>6, Zenon DEF Disk, Partial
    <3>8. \A n : Follows(q[1], n) => Ready(v, rec.got, n)
      <4>1. q[1].off = i
        BY <2>2, Zenon DEF i
      <4>2. q[1].t = "chunk" /\ i + 1 <= i + 1
        BY <2>1, <2>2, <2>3, Counting, Zenon
      <4> QED
        BY <3>3, <4>1, <4>2, Zenon DEF Follows, Ready, Answering
    <3>9. Wire(Tail(q), v, rec.got, fl)
      BY <1>3, <1>4, <2>1, <3>8, WirePop, Zenon
    <3>10. resume => Answer(Tail(q), b, a, v, rec.got, fl)
      BY <1>3, <1>4, <2>1, <3>3, AnswerPop, Zenon DEF Answering
    <3> QED
      BY <1>3, <2>1, <2>2, <3>2, <3>3, <3>7, <3>9, <3>10, ReadSmooth, Zenon
  <2> QED
    BY <2>4, <2>5, Zenon
<1>6. CASE CountBytes(live)
  <2> DEFINE n == IF r.off + 1 > rec.got THEN r.off + 1 ELSE rec.got
             v == [r EXCEPT !.pc = IF n >= Size THEN "verify" ELSE "recv"]
  <2>1. r.pc = "count"
    BY <1>6, Zenon DEF CountBytes
  <2>2. dir /\ r.rx /\ r.off <= rec.got /\ Partial(rec, tmp, held, n)
    BY <1>3, <2>1, Zenon DEF Disk
  <2>3. ~(rec.st = "none" \/ r.off > rec.got)
    BY <1>4, <2>2, Counting, Zenon DEF Partial
  <2>4. /\ rec' = [rec EXCEPT !.got = n] /\ rd' = [rd EXCEPT ![live] = v]
        /\ UNCHANGED <<resume, fl, ack, dir, tmp, held, live, end, cut, out, back>>
    BY <1>6, <2>3, Zenon DEF CountBytes, sndVars, diskVars, wireVars
  <2>5. rec'.st = rec.st /\ rec'.got = n
    BY <1>1, <2>4, Zenon
  <2>6. v.pc = (IF n >= Size THEN "verify" ELSE "recv") /\ v.rx = r.rx
    BY <1>1, Zenon DEF ReadState
  <2>7. n \in Nat /\ r.off + 1 <= n /\ n <= Size
    <3>1. r.off < Size
      BY <2>1, Zenon DEF Inv, RcvOK
    <3>2. rec.got <= Size
      BY <1>1, TransferBounds DEF Offset
    <3> QED
      BY <1>4, <3>1, <3>2, Counting, Zenon
  <2> HIDE DEF v, n
  <2>8. v.pc = "verify" => n = Size
    BY <2>6, <2>7, Counting, Zenon
  <2>9. Disk(v, rec', dir', tmp', held')
    <3>1. Partial(rec', tmp', held', n)
      BY <2>2, <2>4, <2>5, Zenon DEF Partial
    <3> QED
      BY <2>2, <2>4, <2>5, <2>6, <2>8, <3>1, Zenon DEF Disk
  <2>10. Wire(q, v, n, fl)
    <3>1. \A m \in Offset : m <= r.off + 1 => m <= n
      BY <1>4, <2>7, Counting, Zenon
    <3>2. v.pc \in {"verify", "recv"}
      BY <2>6, Zenon
    <3>3. \A m \in Offset : Ready(r, rec.got, m) => Ready(v, n, m)
      BY <2>1, <3>1, <3>2, Zenon DEF Ready, Answering
    <3> QED
      BY <1>1, <1>3, <1>4, <3>3, WireSame, Zenon
  <2>11. resume => Answer(q, b, a, v, n, fl)
    BY <1>3, <2>1, <2>6, AnswerSame, Zenon DEF Answering
  <2> QED
    BY <1>3, <2>4, <2>5, <2>6, <2>9, <2>10, <2>11, ReadSmooth, Zenon
<1>7. ASSUME NEW v, rd' = [rd EXCEPT ![live] = v], r.pc \in {"verify", "save", "fill", "status", "remove"},
             v.pc \notin Answering \cup {"count"}, v.pc = "recv" => ~v.rx,
             UNCHANGED <<resume, fl, ack, live, end, cut, out, back>>,
             rec'.st # "failed", rec'.got = rec.got, Disk(v, rec', dir', tmp', held')
      PROVE  Smooth'
  <2>1. \A n \in Offset : Ready(v, rec.got, n)
    BY <1>7, Zenon DEF Ready
  <2>2. Wire(q, v, rec.got, fl)
    BY <1>1, <1>3, <1>4, <2>1, WireSame, Zenon
  <2>3. resume => Answer(q, b, a, v, rec.got, fl)
    BY <1>3, <1>7, AnswerSame, Zenon DEF Answering
  <2> QED
    BY <1>7, <2>2, <2>3, ReadSmooth, Zenon DEF Answering
<1>8. CASE Verify(live)
  <2>1. r.pc = "verify" /\ dir
    BY <1>3, <1>8, Zenon DEF Verify, Disk
  <2>2. rec.got = Size /\ rec.st = "receiving" /\ tmp /\ held = Whole
    BY <1>3, <2>1, Zenon DEF Disk, Partial, Bytes, Whole
  <2>3. PICK v : rd' = [rd EXCEPT ![live] = v] /\ v.pc = "save"
    <3>1. rd' = [rd EXCEPT ![live] = [r EXCEPT !.pc = "save", !.ok = (held = Whole)]]
      BY <1>8, <2>2, Zenon DEF Verify
    <3>2. [r EXCEPT !.pc = "save", !.ok = (held = Whole)].pc = "save"
      BY <1>1, Zenon DEF ReadState
    <3> QED
      BY <3>1, <3>2, Zenon
  <2>4. UNCHANGED <<resume, fl, ack, rec, dir, tmp, held, live, end, cut, out, back>>
    BY <1>8, Zenon DEF Verify, sndVars, rcvVars, diskVars, linkVars, wireVars
  <2>5. Disk(v, rec', dir', tmp', held')
    BY <2>1, <2>2, <2>3, <2>4, Zenon DEF Disk
  <2> QED
    BY <1>3, <1>7, <2>1, <2>3, <2>4, <2>5, Zenon DEF Answering
<1>9. CASE SaveData(live)
  <2> DEFINE v == [r EXCEPT !.pc = "fill"]
  <2>1. r.pc = "save" /\ dir /\ rec.st = "receiving"
    BY <1>3, <1>9, Zenon DEF SaveData, Disk
  <2>2. /\ rd' = [rd EXCEPT ![live] = v]
        /\ UNCHANGED <<resume, fl, ack, rec, dir, tmp, held, live, end, cut, out, back>>
    BY <1>9, <2>1, Zenon DEF SaveData, sndVars, linkVars, wireVars
  <2>3. v.pc = "fill"
    BY <1>1, Zenon DEF ReadState
  <2> HIDE DEF v
  <2>4. Disk(v, rec', dir', tmp', held')
    BY <2>1, <2>2, <2>3, Zenon DEF Disk
  <2> QED
    BY <1>3, <1>7, <2>1, <2>2, <2>3, <2>4, Zenon DEF Answering
<1>10. CASE FillData(live)
  <2> DEFINE v == [r EXCEPT !.pc = "status"]
  <2>1. r.pc = "fill" /\ dir /\ rec.st = "receiving"
    BY <1>3, <1>10, Zenon DEF FillData, Disk
  <2>2. /\ rd' = [rd EXCEPT ![live] = v]
        /\ UNCHANGED <<resume, fl, ack, rec, dir, tmp, held, live, end, cut, out, back>>
    BY <1>10, <2>1, Zenon DEF FillData, sndVars, linkVars, wireVars
  <2>3. v.pc = "status"
    BY <1>1, Zenon DEF ReadState
  <2> HIDE DEF v
  <2>4. Disk(v, rec', dir', tmp', held')
    BY <2>1, <2>2, <2>3, Zenon DEF Disk
  <2> QED
    BY <1>3, <1>7, <2>1, <2>2, <2>3, <2>4, Zenon DEF Answering
<1>11. CASE SetStatus(live)
  <2> DEFINE v == [r EXCEPT !.pc = "remove"]
  <2>1. r.pc = "status" /\ dir /\ rec.st = "receiving"
    BY <1>3, <1>11, Zenon DEF SetStatus, Disk
  <2>2. /\ rd' = [rd EXCEPT ![live] = v] /\ rec' = [rec EXCEPT !.st = "complete"]
        /\ UNCHANGED <<resume, fl, ack, dir, tmp, held, live, end, cut, out, back>>
    BY <1>11, <2>1, Zenon DEF SetStatus, sndVars, diskVars, linkVars, wireVars
  <2>3. v.pc = "remove" /\ rec'.st = "complete" /\ rec'.got = rec.got
    BY <1>1, <2>2, Zenon DEF ReadState
  <2> HIDE DEF v
  <2>4. Disk(v, rec', dir', tmp', held')
    BY <2>1, <2>2, <2>3, Zenon DEF Disk
  <2> QED
    BY <1>7, <2>1, <2>2, <2>3, <2>4, Zenon DEF Answering
<1>12. CASE RemoveTemp(live)
  <2>1. /\ r.pc = "remove" /\ rd' = [rd EXCEPT ![live] = IdleRead]
        /\ UNCHANGED <<resume, fl, ack, rec, dir, live, end, cut, out, back>>
    BY <1>12, Zenon DEF RemoveTemp, sndVars, linkVars, wireVars
  <2>2. rec.st = "complete" /\ IdleRead.pc = "recv" /\ ~IdleRead.rx
    BY <1>3, <2>1, Zenon DEF Disk, IdleRead
  <2>3. Disk(IdleRead, rec', dir', tmp', held')
    BY <2>1, <2>2, Zenon DEF Disk
  <2> QED
    BY <1>3, <1>7, <2>1, <2>2, <2>3, Zenon DEF Answering
<1> QED
  BY <1>5, <1>6, <1>8, <1>9, <1>11, <1>12, <1>10, Zenon

\* Nothing disturbs it, nothing fails.
THEOREM SmoothHolds == Spec => [](Quiet => Smooth)
<1> DEFINE Calm == Quiet => Smooth
<1>1. Init => Calm
  <2> SUFFICES ASSUME Init PROVE Smooth
    BY Zenon DEF Calm
  <2>1. Alone
    BY TransferBounds DEF Init, Alone, Link, NoLink
  <2>2. Turns
    BY Idle, Zenon DEF Init, Turns, Holds
  <2> QED
    BY <2>1, <2>2, Zenon DEF Init, Smooth, NoRecord
<1>2. Inv /\ Calm /\ [Next]_vars => Calm'
  <2> SUFFICES ASSUME Inv, Calm, [Next]_vars, Quiet' PROVE Smooth'
    BY Zenon DEF Calm
  <2>1. Quiet /\ UNCHANGED <<fails, deletes>> /\ Smooth
    BY QuietBefore, Zenon
  <2>2. CASE SendFile \/ UNCHANGED vars
    <3>1. UNCHANGED <<resume, fl, ack, rd, rec, dir, tmp, held, live, end, cut, out, back>>
      BY <2>2, Zenon DEF SendFile, vars, sndVars, rcvVars, diskVars, linkVars, wireVars
    <3>2. Alone' /\ Turns'
      BY <2>1, <3>1, Zenon DEF Smooth, Alone, Turns, Holds
    <3> QED
      BY <2>1, <3>1, <3>2, Zenon DEF Smooth
  <2>3. CASE live \in Link /\ (RecvFileAck(live) \/ Read(live))
    BY <2>1, <2>3, HeaderSmooth, ChunkSmooth, Zenon DEF Read
  <2> QED
    BY <2>1, <2>2, <2>3, QuietNext, ConnectSmooth, FlushSmooth, Zenon
<1> HIDE DEF Calm
<1>3. Spec => []Calm
  BY <1>1, <1>2, InvHolds, PTL DEF Spec
<1> QED
  BY <1>3, Zenon DEF Calm

\* A transfer that nothing disturbs, of a file of any length, with any number of
\* flushFile goroutines, resuming or not, has no chunk refused and no hash wrong.
THEOREM NothingFailsByItself == Spec => []UndisturbedNeverFails
<1>1. (Quiet => Smooth) => UndisturbedNeverFails
  BY Zenon DEF Quiet, Smooth, Alone, UndisturbedNeverFails
<1> QED
  BY <1>1, SmoothHolds, PTL

=============================================================================

----------------------------- MODULE Downloader -----------------------------
(***************************************************************************)
(* One multi-threaded download of internal/net/request.go: the caller that *)
(* starts it and reads the assembled stream, the worker goroutines that    *)
(* fetch chunks, the chunk channel and the ring of buffers between them,   *)
(* and the process-wide ConcurrencyLimit they draw their slots from.       *)
(*                                                                         *)
(* A byte of the range is its offset.  A section of the code under d.m is  *)
(* one action; everything the code does without that lock is a step of its *)
(* own.  The source of the data, the other downloads that share the limit, *)
(* the request context and the consumer of the stream are the environment. *)
(***************************************************************************)
EXTENDS ChunkPlan, Sequences, FiniteSets

CONSTANTS
  Length,          \* bytes in the requested range (params.Range.Length)
  PartSize,        \* cfg.PartSize
  CfgConcurrency,  \* cfg.Concurrency as the caller set it
  MaxRetries,      \* cfg.PartBodyMaxRetries
  Slots,           \* ConcurrencyLimit.Limit before any download
  Answers,         \* what the source may answer to a ranged request
  Drops            \* where a response body may break off: "inside", "end"

AnswerKinds == {"ok", "fail", "mismatch", "busy", "overload"}

ASSUME SizeAssumption == Length \in Nat /\ PartSize \in Nat \ {0}
ASSUME ConfigAssumption ==
  /\ CfgConcurrency \in Nat \ {0}
  /\ MaxRetries \in Nat
  /\ Slots \in Nat
  /\ Answers \subseteq AnswerKinds
  /\ Drops \subseteq {"inside", "end"}

Parts == MaxPart(Length, PartSize)
\* download() never starts more workers than there are parts.
Concurrency == IF Parts < CfgConcurrency THEN Parts ELSE CfgConcurrency
Workers == 1..Concurrency

VARIABLES
  limit,         \* ConcurrencyLimit.Limit
  others,        \* slots held by other downloads
  chunkChannel, chClosed,
  nextChunk, bufs, written, err, concurrency, pos, readingID,
  ctxDone,       \* d.ctx is cancelled
  keeper,        \* the goroutine that holds the slot of a one-part download
  m2,            \* the worker that holds d.m2, or 0
  pc, ch, retry, n, body, res,    \* of each worker goroutine
  rpc, rPos, curBuf, out,         \* of the caller and its MultiReadCloser
  crash          \* the panic that ended the program, or "no"

\* Groups of variables, for what a step leaves alone.
pool == <<limit, others, keeper>>
queue == <<chunkChannel, chClosed, nextChunk, bufs, concurrency, pos>>
state == <<written, err, ctxDone>>
task == <<ch, retry, n, body, res>>
workers == <<m2, pc, task>>
reader == <<rPos, curBuf, readingID, out>>
vars == <<pool, queue, state, workers, reader, rpc, crash>>

Chunk == [start : Nat, size : Int, id : Nat, buf : Nat, newConcurrency : BOOLEAN]
NoChunk == [start |-> 0, size |-> 0, id |-> 0, buf |-> 0, newConcurrency |-> FALSE]
Buf == [data : Seq(Nat), size : Nat, off : Nat, closed : BOOLEAN]
FreshBuf(size) == [data |-> <<>>, size |-> size, off |-> 0, closed |-> FALSE]
\* A buffer after k bytes of it are read, a piece is written to it, it is closed.
Consumed(b, k) ==
  [data |-> SubSeq(b.data, k + 1, Len(b.data)), size |-> b.size, off |-> b.off + k,
   closed |-> b.closed]
Filled(b, piece) == [b EXCEPT !.data = b.data \o piece]
Dropped(b) == [data |-> <<>>, size |-> b.size, off |-> b.off, closed |-> TRUE]

PcValues == {"unborn", "recv", "check", "loop", "http", "spawn", "copy", "write",
             "judge", "wait", "fail", "cancel", "exited"}
RpcValues == {"start", "refused", "single", "stream", "return", "discarded",
              "read", "finish", "eof", "err",
              "setErr", "cancel", "close", "drop", "negate", "closed"}
Panics == {"no", "index out of range", "send on closed channel", "nil buffer"}
Outcomes == {"ok", "retry", "infinite", "fatal", "revoked"}

Live(w) == pc[w] \notin {"unborn", "exited"}
LiveWorkers == {w \in Workers : Live(w)}

TypeOK ==
  /\ limit \in Nat /\ others \in Nat
  /\ chunkChannel \in Seq(Chunk) /\ chClosed \in BOOLEAN
  /\ nextChunk \in Nat /\ pos \in Nat
  /\ bufs \in Seq(Buf)
  /\ written \in Nat
  /\ err \in {"nil", "interrupted", "failed"}
  /\ concurrency \in Int /\ concurrency <= Concurrency
  /\ readingID \in Nat
  /\ ctxDone \in BOOLEAN /\ keeper \in BOOLEAN
  /\ m2 \in Workers \cup {0}
  /\ pc \in [Workers -> PcValues]
  /\ ch \in [Workers -> Chunk]
  /\ retry \in [Workers -> Nat]
  /\ n \in [Workers -> Nat]
  /\ body \in [Workers -> [next : Nat, end : Int]]
  /\ res \in [Workers -> Outcomes]
  /\ rpc \in RpcValues
  /\ rPos \in Nat /\ curBuf \in Nat
  /\ out \in Seq(Nat)
  /\ crash \in Panics

Init ==
  /\ limit = Slots /\ others = 0
  /\ chunkChannel = <<>> /\ chClosed = FALSE
  /\ nextChunk = 0 /\ bufs = <<>> /\ pos = 0
  /\ written = 0 /\ err = "nil"
  /\ concurrency = Concurrency
  /\ readingID = 0
  /\ ctxDone = FALSE /\ keeper = FALSE /\ m2 = 0
  /\ pc = [w \in Workers |-> "unborn"]
  /\ ch = [w \in Workers |-> NoChunk]
  /\ retry = [w \in Workers |-> 0]
  /\ n = [w \in Workers |-> 0]
  /\ body = [w \in Workers |-> [next |-> 0, end |-> 0]]
  /\ res = [w \in Workers |-> "ok"]
  /\ rpc = "start"
  /\ rPos = 0 /\ curBuf = 1 /\ out = <<>>
  /\ crash = "no"

-----------------------------------------------------------------------------
(* sendChunkTask: start a worker if one is asked for and still allowed, and *)
(* queue the next chunk.  The whole body runs under d.m.                   *)

\* make(chan chunk, d.cfg.Concurrency)
ChannelCap_mutant == Concurrency - 1
ChannelCap == Concurrency

\* A worker may be added: the download's own budget, then a slot of the limit
\* (the first chunk's slot is already taken by download()).
MayGrow_mutant == concurrency > 0
MayGrow == concurrency > 0 /\ (nextChunk > 0 => limit > 0)

\* The goroutine that the next `go d.downloadPart()' starts.
NextWorker == Concurrency - concurrency + 1

\* A buffer is added while the budget lasts (read before it is decremented),
\* afterwards chunk id goes to the buffer id % len(bufs), as getBuf has it.
BufIndex_mutant(id, bs) == ((id + 1) % Len(bs)) + 1
BufIndex(id, bs) == (id % Len(bs)) + 1

\* lim: the limit when the section is entered; pcs: pc after the caller's step.
SendChunkTask(newConcurrency, lim, pcs) ==
  IF newConcurrency /\ ~MayGrow
  THEN /\ limit' = lim /\ pc' = pcs
       /\ UNCHANGED <<queue, crash>>
  ELSE
    LET grown == IF concurrency > 0 THEN Append(bufs, FreshBuf(PartSize)) ELSE bufs
        buf == IF concurrency > 0 THEN Len(bufs) + 1 ELSE BufIndex(nextChunk, bufs)
        finalSize == FinalSize(nextChunk, Length, PartSize)
        chunk == [start |-> pos, size |-> finalSize, id |-> nextChunk, buf |-> buf,
                  newConcurrency |-> newConcurrency]
    IN /\ limit' = IF newConcurrency /\ nextChunk > 0 THEN lim - 1 ELSE lim
       /\ concurrency' = IF newConcurrency THEN concurrency - 1 ELSE concurrency
       /\ pc' = IF newConcurrency THEN [pcs EXCEPT ![NextWorker] = "recv"] ELSE pcs
       /\ IF pos < Length
          THEN /\ bufs' = [grown EXCEPT ![buf] = FreshBuf(finalSize)]
               /\ pos' = pos + finalSize
               /\ nextChunk' = nextChunk + 1
               /\ IF chClosed
                  THEN /\ crash' = "send on closed channel"
                       /\ UNCHANGED chunkChannel
                  ELSE /\ Len(chunkChannel) < ChannelCap
                       /\ chunkChannel' = Append(chunkChannel, chunk)
                       /\ UNCHANGED crash
          ELSE /\ bufs' = grown
               /\ UNCHANGED <<pos, nextChunk, chunkChannel, crash>>
       /\ UNCHANGED chClosed

-----------------------------------------------------------------------------
(* The caller of Download, then the consumer of the reader it returned.     *)

\* concurrencyFinish: the slot goes back to the limit.
ConcurrencyFinish_mutant == limit' = limit
ConcurrencyFinish == limit' = limit + 1

\* download(): one slot of the limit for the first request.
Refuse ==
  /\ rpc = "start" /\ limit = 0
  /\ rpc' = "refused"
  /\ UNCHANGED <<pool, queue, state, workers, reader, crash>>

\* One part or a concurrency of one: a plain request; a goroutine returns the
\* slot when the context ends.
StartSingle ==
  /\ rpc = "start" /\ limit > 0 /\ Concurrency = 1
  /\ limit' = limit - 1 /\ keeper' = TRUE
  /\ rpc' = "single"
  /\ UNCHANGED <<queue, state, workers, reader, others, crash>>

\* Several parts: the first chunk and its worker; d.bufs[0] is the reader's
\* first buffer, and an empty range has none.
StartParts ==
  /\ rpc = "start" /\ limit > 0 /\ Concurrency # 1
  /\ SendChunkTask(TRUE, limit - 1, pc)
  /\ rpc' = "return"
  /\ UNCHANGED <<state, task, reader, others, keeper, m2>>

\* The answer to the single request; on an error the caller gets no reader.
SingleAnswer ==
  /\ rpc = "single"
  /\ \/ ~ctxDone /\ rpc' = "stream"
     \/ rpc' = "discarded"
  /\ UNCHANGED <<pool, queue, state, workers, reader, crash>>

KeeperExit ==
  /\ keeper /\ ctxDone
  /\ keeper' = FALSE /\ ConcurrencyFinish
  /\ UNCHANGED <<queue, state, workers, reader, others, rpc, crash>>

\* NewMultiReadCloser(d.bufs[0], ...), return rc, d.err: a caller that gets an
\* error drops the reader without closing it.
ReturnReader ==
  /\ rpc = "return"
  /\ IF bufs = <<>>
     THEN crash' = "index out of range" /\ UNCHANGED rpc
     ELSE /\ rpc' = IF err = "nil" THEN "read" ELSE "discarded"
          /\ UNCHANGED crash
  /\ UNCHANGED <<pool, queue, state, workers, reader>>

\* Read, with data in the current buffer.  Read on an empty buffer returns
\* (0, nil) after 200ms and changes nothing.
Read ==
  /\ rpc = "read" /\ ~ctxDone
  /\ bufs[curBuf].off < bufs[curBuf].size
  /\ \E k \in 1..Len(bufs[curBuf].data) :
       /\ out' = out \o SubSeq(bufs[curBuf].data, 1, k)
       /\ bufs' = [bufs EXCEPT ![curBuf] = Consumed(bufs[curBuf], k)]
  /\ UNCHANGED <<pool, state, workers, chunkChannel, chClosed, nextChunk, concurrency, pos,
                 rPos, curBuf, readingID, rpc, crash>>

\* Read on a cancelled context fails.
ReadCancelled ==
  /\ rpc = "read" /\ ctxDone
  /\ rpc' = "err"
  /\ UNCHANGED <<pool, queue, state, workers, reader, crash>>

\* finishBuf's test for the last chunk, of the chunk after the one just read.
IsLast_mutant(id) == id + 1 >= Parts
IsLast(id) == id >= Parts

\* Read past the last byte of the last chunk.
ReadEOF ==
  /\ rpc = "read" /\ ~ctxDone
  /\ bufs[curBuf].off >= bufs[curBuf].size
  /\ IsLast(rPos + 1)
  /\ rpc' = "eof"
  /\ UNCHANGED <<pool, queue, state, workers, reader, crash>>

\* Read past the last byte of another chunk: finishBuf queues one more chunk,
FinishBuf ==
  /\ rpc = "read" /\ ~ctxDone
  /\ bufs[curBuf].off >= bufs[curBuf].size
  /\ ~IsLast(rPos + 1)
  /\ SendChunkTask(FALSE, limit, pc)
  /\ rpc' = "finish"
  /\ UNCHANGED <<state, task, reader, others, keeper, m2>>

\* then, without the lock, moves the reader to the next chunk's buffer.
NextBuf ==
  /\ rpc = "finish"
  /\ readingID' = rPos + 1
  /\ rPos' = rPos + 1
  /\ curBuf' = BufIndex(rPos + 1, bufs)
  /\ rpc' = "read"
  /\ UNCHANGED <<pool, queue, state, workers, out, crash>>

-----------------------------------------------------------------------------
(* interrupt(): the consumer closes the reader, at the end or before it.    *)

CloseCheck ==
  /\ rpc \in {"read", "eof", "err"}
  /\ rpc' = IF written # Length /\ err = "nil" THEN "setErr" ELSE "cancel"
  /\ UNCHANGED <<pool, queue, state, workers, reader, crash>>

CloseSetErr ==
  /\ rpc = "setErr"
  /\ err' = "interrupted"
  /\ rpc' = "cancel"
  /\ UNCHANGED <<pool, queue, workers, reader, written, ctxDone, crash>>

CloseCancel ==
  /\ rpc = "cancel"
  /\ ctxDone' = TRUE
  /\ rpc' = "close"
  /\ UNCHANGED <<pool, queue, workers, reader, written, err, crash>>

CloseChannel_mutant ==
  /\ rpc = "close"
  /\ rpc' = "drop"
  /\ UNCHANGED <<pool, queue, state, workers, reader, crash>>
CloseChannel ==
  /\ rpc = "close"
  /\ chClosed' = TRUE
  /\ rpc' = "drop"
  /\ UNCHANGED <<pool, state, workers, reader, chunkChannel, nextChunk, bufs, concurrency,
                 pos, crash>>

\* "cancel the remaining concurrency": what is left of the budget turns negative.
Stopped_mutant == concurrency
Stopped == IF concurrency > 0 THEN -concurrency ELSE concurrency

\* buf.Close() drops the storage of every buffer, without its lock.
CloseBufs ==
  /\ rpc = "drop"
  /\ bufs' = [i \in 1..Len(bufs) |-> Dropped(bufs[i])]
  /\ rpc' = "negate"
  /\ UNCHANGED <<pool, state, workers, reader, chunkChannel, chClosed, nextChunk,
                 concurrency, pos, crash>>

CloseNegate ==
  /\ rpc = "negate"
  /\ concurrency' = Stopped
  /\ rpc' = "closed"
  /\ UNCHANGED <<pool, state, workers, reader, chunkChannel, chClosed, nextChunk, bufs, pos,
                 crash>>

\* Closing the body of the single response ends nothing else.
CloseSingle ==
  /\ rpc = "stream"
  /\ rpc' = "closed"
  /\ UNCHANGED <<pool, queue, state, workers, reader, crash>>

-----------------------------------------------------------------------------
(* A worker goroutine: downloadPart, downloadChunk, tryDownloadChunk.       *)

WorkerStep(w, at) == crash = "no" /\ pc[w] = at
\* What most worker steps leave alone.
elsewhere == <<others, keeper, rpc, reader>>

\* c, ok := <-d.chunkChannel
Receive(w) ==
  /\ WorkerStep(w, "recv")
  /\ chunkChannel # <<>>
  /\ ch' = [ch EXCEPT ![w] = Head(chunkChannel)]
  /\ chunkChannel' = Tail(chunkChannel)
  /\ retry' = [retry EXCEPT ![w] = 0]
  /\ pc' = [pc EXCEPT ![w] = "check"]
  /\ UNCHANGED <<elsewhere, state, limit, chClosed, nextChunk, bufs, concurrency, pos, m2,
                 n, body, res, crash>>

\* The worker leaves its loop and gives its slot back.
Exit(w) == pc' = [pc EXCEPT ![w] = "exited"] /\ ConcurrencyFinish

ReceiveClosed(w) ==
  /\ WorkerStep(w, "recv")
  /\ chunkChannel = <<>> /\ chClosed
  /\ Exit(w)
  /\ UNCHANGED <<elsewhere, queue, state, task, m2, crash>>

\* A chunk received after an error ends the worker.
CheckErr(w) ==
  /\ WorkerStep(w, "check")
  /\ IF err # "nil" THEN Exit(w)
     ELSE pc' = [pc EXCEPT ![w] = "loop"] /\ UNCHANGED limit
  /\ UNCHANGED <<elsewhere, queue, state, task, m2, crash>>

\* The head of the retry loop: an error set meanwhile abandons the chunk.
RetryLoop(w) ==
  /\ WorkerStep(w, "loop")
  /\ pc' = [pc EXCEPT ![w] = IF err # "nil" THEN "recv" ELSE "http"]
  /\ n' = [n EXCEPT ![w] = 0]
  /\ UNCHANGED <<elsewhere, queue, state, limit, m2, ch, retry, body, res, crash>>

\* The outcome of tryDownloadChunk, judged by downloadChunk.
Return(w, outcome) ==
  /\ res' = [res EXCEPT ![w] = outcome]
  /\ pc' = [pc EXCEPT ![w] = "judge"]

\* The source answers with the bytes asked for.
AnswerBody(w) ==
  /\ WorkerStep(w, "http") /\ ~ctxDone
  /\ "ok" \in Answers /\ ch[w].size > 0
  /\ body' = [body EXCEPT ![w] = [next |-> ch[w].start, end |-> ch[w].start + ch[w].size]]
  /\ pc' = [pc EXCEPT ![w] = "spawn"]
  /\ UNCHANGED <<elsewhere, queue, state, limit, m2, ch, retry, n, res, crash>>

\* The first chunk's answer names another file size: checkTotalBytes sets the error.
AnswerMismatch(w) ==
  /\ WorkerStep(w, "http") /\ ~ctxDone
  /\ "mismatch" \in Answers /\ ch[w].id = 0
  /\ pc' = [pc EXCEPT ![w] = "fail"]
  /\ UNCHANGED <<elsewhere, queue, state, task, limit, m2, crash>>

\* No answer at all, or 416, or for the first chunk a status that is not worth a
\* retry (the only outcome on a cancelled context); the first chunk's request is
\* tried again after 429, 502, 503 and 504.
AnswerError(w) ==
  /\ WorkerStep(w, "http")
  /\ \/ (ctxDone \/ "fail" \in Answers \/ ch[w].size <= 0) /\ Return(w, "fatal")
     \/ ~ctxDone /\ "busy" \in Answers /\ ch[w].id = 0 /\ Return(w, "retry")
  /\ UNCHANGED <<elsewhere, limit, queue, state, m2, ch, retry, n, body, crash>>

\* Any error status for a later chunk is an overload.  The first of them stops
\* the growth of the pool; a worker whose chunk came with it hands the chunk
\* back and goes, another keeps trying, one at a time unless it is being read.
AnswerOverload(w) ==
  /\ WorkerStep(w, "http") /\ ~ctxDone
  /\ "overload" \in Answers /\ ch[w].id > 0
  /\ IF ch[w].newConcurrency \/ concurrency > 0
     THEN /\ concurrency' = Stopped - 1
          /\ IF chClosed
             THEN crash' = "send on closed channel" /\ UNCHANGED <<chunkChannel, pc, res>>
             ELSE /\ Len(chunkChannel) < ChannelCap
                  /\ chunkChannel' = Append(chunkChannel, ch[w])
                  /\ Return(w, "revoked")
                  /\ UNCHANGED crash
     ELSE /\ IF ch[w].id # readingID
             THEN pc' = [pc EXCEPT ![w] = "wait"] /\ UNCHANGED res
             ELSE Return(w, "infinite")
          /\ UNCHANGED <<concurrency, chunkChannel, crash>>
  /\ UNCHANGED <<elsewhere, state, limit, chClosed, nextChunk, bufs, pos, m2, ch, retry, n,
                 body>>

\* d.m2 is held over the pause.
LockM2(w) ==
  /\ WorkerStep(w, "wait") /\ m2 = 0
  /\ m2' = w
  /\ UNCHANGED <<elsewhere, queue, state, task, limit, pc, crash>>

UnlockM2(w) ==
  /\ WorkerStep(w, "wait") /\ m2 = w
  /\ m2' = 0
  /\ Return(w, "infinite")
  /\ UNCHANGED <<elsewhere, queue, state, limit, ch, retry, n, body, crash>>

\* A connection that works starts the next worker.
SpawnNext(w) ==
  /\ WorkerStep(w, "spawn")
  /\ SendChunkTask(TRUE, limit, [pc EXCEPT ![w] = "copy"])
  /\ UNCHANGED <<elsewhere, state, task, m2>>

\* CopyWithBuffer: the body ends, breaks off, or a piece of it arrives and
\* Buf.Write looks at the context before it takes the buffer's lock.
CopyEnd(w) ==
  /\ WorkerStep(w, "copy")
  /\ body[w].next = body[w].end
  /\ Return(w, IF n[w] = ch[w].size THEN "ok" ELSE "retry")
  /\ UNCHANGED <<elsewhere, queue, state, limit, m2, ch, retry, n, body, crash>>

CopyBreak(w) ==
  /\ WorkerStep(w, "copy")
  /\ ctxDone \/ (IF body[w].next < body[w].end THEN "inside" ELSE "end") \in Drops
  /\ Return(w, "retry")
  /\ UNCHANGED <<elsewhere, queue, state, limit, m2, ch, retry, n, body, crash>>

WriteCheck(w) ==
  /\ WorkerStep(w, "copy")
  /\ body[w].next < body[w].end /\ ~ctxDone
  /\ pc' = [pc EXCEPT ![w] = "write"]
  /\ UNCHANGED <<elsewhere, queue, state, task, limit, m2, crash>>

\* k bytes of the range, from offset `first' on.
Bytes(first, k) == [i \in 1..k |-> first + i - 1]

WriteBuf(w) ==
  /\ WorkerStep(w, "write")
  /\ IF bufs[ch[w].buf].closed
     THEN crash' = "nil buffer" /\ UNCHANGED <<bufs, body, n, pc>>
     ELSE \E k \in 1..(body[w].end - body[w].next) :
            /\ bufs' = [bufs EXCEPT ![ch[w].buf] =
                          Filled(bufs[ch[w].buf], Bytes(body[w].next, k))]
            /\ body' = [body EXCEPT ![w] = [next |-> body[w].next + k, end |-> body[w].end]]
            /\ n' = [n EXCEPT ![w] = n[w] + k]
            /\ pc' = [pc EXCEPT ![w] = "copy"]
            /\ UNCHANGED crash
  /\ UNCHANGED <<elsewhere, state, limit, chunkChannel, chClosed, nextChunk, concurrency,
                 pos, m2, ch, retry, res>>

-----------------------------------------------------------------------------
(* downloadChunk judges the outcome; downloadPart acts on its error.        *)

JudgeOk(w) ==
  /\ WorkerStep(w, "judge") /\ res[w] = "ok"
  /\ written' = written + n[w]
  /\ pc' = [pc EXCEPT ![w] = "recv"]
  /\ UNCHANGED <<elsewhere, queue, task, limit, err, ctxDone, m2, crash>>

\* An error set by another goroutine, or a cancelled context, goes before the
\* outcome of this chunk.
JudgeStopped(w) ==
  /\ WorkerStep(w, "judge") /\ res[w] # "ok"
  /\ err # "nil" \/ ctxDone
  /\ pc' = [pc EXCEPT ![w] = IF err # "nil" THEN "recv" ELSE "fail"]
  /\ UNCHANGED <<elsewhere, queue, state, task, limit, m2, crash>>

Judged(w, outcome) ==
  WorkerStep(w, "judge") /\ res[w] = outcome /\ err = "nil" /\ ~ctxDone

\* The part of chunk c that is missing after k bytes of it arrived.
Missing_mutant(c, k) == c
Missing(c, k) ==
  [start |-> c.start + k, size |-> c.size - k, id |-> c.id, buf |-> c.buf,
   newConcurrency |-> c.newConcurrency]

\* What arrived is kept: the next attempt asks for the rest of the chunk.
JudgeRetry(w) ==
  /\ Judged(w, "retry")
  /\ written' = written + n[w]
  /\ ch' = [ch EXCEPT ![w] = Missing(ch[w], n[w])]
  /\ retry' = [retry EXCEPT ![w] = retry[w] + 1]
  /\ pc' = [pc EXCEPT ![w] = IF retry[w] < MaxRetries THEN "loop" ELSE "fail"]
  /\ UNCHANGED <<elsewhere, queue, limit, err, ctxDone, m2, n, body, res, crash>>

\* An overload is tried again without end, any other error ends the download.
JudgeOther(w) ==
  /\ \/ Judged(w, "infinite") /\ pc' = [pc EXCEPT ![w] = "loop"]
     \/ Judged(w, "fatal") /\ pc' = [pc EXCEPT ![w] = "fail"]
  /\ UNCHANGED <<elsewhere, limit, queue, state, m2, task, crash>>

JudgeRevoked(w) ==
  /\ Judged(w, "revoked")
  /\ Exit(w)
  /\ UNCHANGED <<elsewhere, queue, state, task, m2, crash>>

\* d.setErr(err); d.cancel(err)
SetErr(w) ==
  /\ WorkerStep(w, "fail")
  /\ err' = "failed"
  /\ pc' = [pc EXCEPT ![w] = "cancel"]
  /\ UNCHANGED <<elsewhere, queue, task, limit, written, ctxDone, m2, crash>>

Cancel_mutant(w) ==
  /\ WorkerStep(w, "cancel")
  /\ pc' = [pc EXCEPT ![w] = "recv"]
  /\ UNCHANGED <<elsewhere, queue, state, task, limit, m2, crash>>
Cancel(w) ==
  /\ WorkerStep(w, "cancel")
  /\ ctxDone' = TRUE
  /\ pc' = [pc EXCEPT ![w] = "recv"]
  /\ UNCHANGED <<elsewhere, queue, task, limit, written, err, m2, crash>>

-----------------------------------------------------------------------------
(* The environment: the request that asked for the data ends, and other     *)
(* downloads draw on the same limit.                                        *)

ParentCancel ==
  /\ ~ctxDone
  /\ ctxDone' = TRUE
  /\ UNCHANGED <<pool, queue, workers, reader, written, err, rpc, crash>>

OthersTake ==
  /\ limit > 0
  /\ limit' = limit - 1 /\ others' = others + 1
  /\ UNCHANGED <<queue, state, workers, reader, keeper, rpc, crash>>

OthersReturn ==
  /\ others > 0
  /\ limit' = limit + 1 /\ others' = others - 1
  /\ UNCHANGED <<queue, state, workers, reader, keeper, rpc, crash>>

Request(w) ==
  AnswerBody(w) \/ AnswerMismatch(w) \/ AnswerError(w) \/ AnswerOverload(w) \/ LockM2(w) \/ UnlockM2(w)
Copy(w) == SpawnNext(w) \/ CopyEnd(w) \/ CopyBreak(w) \/ WriteCheck(w) \/ WriteBuf(w)
Judge(w) ==
  JudgeOk(w) \/ JudgeStopped(w) \/ JudgeRetry(w) \/ JudgeOther(w) \/ JudgeRevoked(w)
  \/ SetErr(w) \/ Cancel(w)
Worker(w) ==
  Receive(w) \/ ReceiveClosed(w) \/ CheckErr(w) \/ RetryLoop(w) \/ Request(w)
  \/ Copy(w) \/ Judge(w)

Open == Refuse \/ StartSingle \/ StartParts \/ SingleAnswer \/ ReturnReader
Consume == Read \/ ReadCancelled \/ ReadEOF \/ FinishBuf \/ NextBuf
Interrupt == CloseSetErr \/ CloseCancel \/ CloseChannel \/ CloseBufs \/ CloseNegate
Close == CloseCheck \/ CloseSingle
Caller == Open \/ Consume \/ Interrupt \/ Close

Next ==
  \/ crash = "no" /\ Caller
  \/ crash = "no" /\ (KeeperExit \/ ParentCancel \/ OthersTake \/ OthersReturn)
  \/ \E w \in Workers : Worker(w)

Spec == Init /\ [][Next]_vars

\* Goroutines run, requests are answered or fail, the consumer keeps reading
\* until the stream ends or fails, and then closes the reader it was given.
Fairness ==
  /\ WF_vars(crash = "no" /\ (Open \/ Consume \/ Interrupt))
  /\ WF_vars(crash = "no" /\ rpc \in {"eof", "err", "stream"} /\ Close)
  /\ WF_vars(crash = "no" /\ KeeperExit)
  /\ \A w \in Workers : WF_vars(Worker(w))
FairSpec == Spec /\ Fairness

-----------------------------------------------------------------------------
(* Properties.                                                             *)

\* The bytes handed to the consumer are the bytes of the range, in order, each
\* once, although they travel through buffers that are reused while workers
\* write into others (getBuf, Reset, MultiReadCloser.Read).
InOrder == out = [i \in 1..Len(out) |-> i - 1]

\* Every slot taken from the limit is held by someone who will give it back:
\* a live worker, the goroutine of a one-part download, or another download.
SlotsConserved ==
  limit + others + Cardinality(LiveWorkers) + (IF keeper THEN 1 ELSE 0) = Slots

\* A send on the chunk channel, made under d.m, never finds the channel full:
\* d.m is never held by a goroutine that waits for a worker that wants d.m.
NoSendBlocks ==
  /\ \A w \in Workers :
       /\ pc[w] = "spawn" /\ MayGrow /\ pos < Length => Len(chunkChannel) < ChannelCap
       /\ pc[w] = "http" /\ ch[w].id > 0 /\ (ch[w].newConcurrency \/ concurrency > 0)
            => Len(chunkChannel) < ChannelCap
  /\ rpc = "read" /\ rPos + 1 < Parts /\ pos < Length /\ bufs[curBuf].off >= bufs[curBuf].size
       => Len(chunkChannel) < ChannelCap

\* The workers that still owe bytes to the buffer of their chunk.
Owing ==
  {w \in Workers :
     \/ pc[w] \in {"check", "loop", "http", "wait"} /\ ch[w].size > 0
     \/ pc[w] \in {"spawn", "copy", "write", "judge"} /\ res[w] # "revoked"
          /\ ch[w].size > n[w]}
\* The chunks still to be filled, with the buffer each will be written to.
Pending ==
  {c \in {chunkChannel[i] : i \in 1..Len(chunkChannel)} : c.size > 0}
    \cup {ch[w] : w \in Owing}

\* A buffer is refilled only when the reader is done with it: two chunks that
\* are queued or being fetched never share a buffer, and none of them is behind
\* the reader or in the buffer being read unless it is the chunk being read.
BuffersExclusive ==
  err = "nil" /\ ~ctxDone =>
    /\ \A c, d \in Pending : c.buf = d.buf => c.id = d.id
    /\ \A v, w \in Owing : v # w => ch[v].id # ch[w].id
    /\ rpc = "read" =>
         \A c \in Pending : c.id >= rPos /\ (c.buf = curBuf => c.id = rPos)

\* With the last chunk queued, the range is queued: the chunk count announced
\* to the reader and the sizes that sendChunkTask hands out agree.
PlanAgrees == crash = "no" => ((nextChunk = Parts) <=> (pos >= Length)) /\ pos <= Length

\* The pool is counted: while the download is undisturbed, `concurrency' tells how
\* many workers are alive, as the remaining budget when it is positive and, once
\* an overload stopped the growth, through cfg.Concurrency + concurrency.
Kept == {w \in LiveWorkers : ~(pc[w] = "judge" /\ res[w] = "revoked")}
PoolCounted ==
  err = "nil" /\ ~ctxDone /\ Concurrency > 1 =>
    Cardinality(Kept) =
      IF concurrency > 0 THEN Concurrency - concurrency ELSE Concurrency + concurrency

\* The download as its caller sees it: a stream of the bytes of the range.
Stream == INSTANCE ByteStream WITH
  delivered <- out,
  status <- CASE rpc \in {"start", "return", "single"} -> "opening"
              [] rpc \in {"read", "finish", "stream"} -> "open"
              [] rpc \in {"refused", "discarded", "err"} -> "failed"
              [] rpc = "eof" -> "eof"
              [] OTHER -> "closed"

\* However workers, buffers and retries interleave, and wherever the download is
\* cut, the caller sees nothing but an in-order byte stream, and EOF only after
\* its last byte (MultiReadCloser over the ring of buffers).
ImplementsStream == Stream!Spec

\* A download whose reader was closed lets go of every worker and every slot.
ClosedReleases ==
  (rpc = "closed" /\ Concurrency > 1) ~> (LiveWorkers = {} \/ crash # "no")

\* A stream that is being read ends, fails or is closed: it is never silent for ever.
StreamEnds == rpc = "read" ~> (rpc \in {"eof", "err", "setErr", "cancel"} \/ crash # "no")

\* What the code or its comments promise and the runs refute.

\* Closing the reader interrupts the workers; it does not end the program.
CloseIsQuiet == crash \notin {"send on closed channel", "nil buffer"}
=============================================================================

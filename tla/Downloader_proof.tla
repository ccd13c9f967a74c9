-------------------------- MODULE Downloader_proof --------------------------
(***************************************************************************)
(* The chunk plan, the type correctness of the downloader and the          *)
(* conservation of the slots of the process-wide concurrency limit, for    *)
(* every range, part size, budget, limit and behaviour of the source.      *)
(*                                                                         *)
(* Then what the downloader does with the bytes: the plan is handed out as *)
(* announced, no two chunks share a buffer of the ring, the consumer gets  *)
(* the bytes of the range in order, the pool is counted and the channel of *)
(* chunks is never full when d.m is held.                                  *)
(***************************************************************************)
EXTENDS Downloader, FiniteSetTheorems, TLAPS

SeqFacts == INSTANCE SequenceTheorems

-----------------------------------------------------------------------------
(* The plan of the chunks (ChunkPlan), for every range and part.            *)

\* Quotient and remainder of a range by a part, the only arithmetic below.
LEMMA DivMod ==
  ASSUME NEW length \in Nat, NEW part \in Nat, part > 0
  PROVE  /\ length \div part \in Nat
         /\ length % part \in Nat /\ length % part < part
         /\ length = (part * (length \div part)) + (length % part)
  OBVIOUS

\* The number of chunks is a natural number, and only an empty range has none.
LEMMA MaxPartType ==
  ASSUME NEW length \in Nat, NEW part \in Nat, part > 0
  PROVE  /\ MaxPart(length, part) \in Nat
         /\ length > 0 <=> MaxPart(length, part) > 0
  <1>1. MaxPart(length, part) \in Nat
    BY DivMod DEF MaxPart
  <1>2. ASSUME length > 0, length \div part = 0, length % part = 0 PROVE FALSE
    BY <1>2, DivMod
  <1>3. ASSUME length = 0 PROVE length \div part = 0 /\ length % part = 0
    BY <1>3, DivMod
  <1>4. QED
    BY <1>1, <1>2, <1>3, DivMod DEF MaxPart

\* Every chunk that sendChunkTask queues holds at least one byte and at most
\* a part, whatever the remainder of the range.
THEOREM FinalSizeBounds ==
  ASSUME NEW length \in Nat, NEW part \in Nat, part > 0, NEW id \in Nat
  PROVE  FinalSize(id, length, part) \in 1..part
  <1>1. length % part \in Nat /\ length % part < part
    BY DivMod
  <1>2. part \div 2 \in Nat /\ part \div 2 <= part /\ 2 * (part \div 2) <= part
    OBVIOUS
  <1>3. CASE id = 0 /\ Rebalanced(length, part)
    BY <1>1, <1>2, <1>3 DEF FinalSize, Rebalanced, FirstSize, MinSize
  <1>4. CASE id = 0 /\ ~Rebalanced(length, part)
    BY <1>1, <1>2, <1>4 DEF FinalSize, Rebalanced, FirstSize, MinSize
  <1>5. CASE id = 1
    BY <1>1, <1>2, <1>5 DEF FinalSize, Rebalanced, FirstSize, MinSize
  <1>6. CASE id # 0 /\ id # 1
    BY <1>6 DEF FinalSize
  <1>7. QED
    BY <1>3, <1>4, <1>5, <1>6

\* The first two chunks together carry the remainder and one part, or, when there
\* is no remainder, two parts: raising a small first chunk is paid by the second.
LEMMA FirstTwo ==
  ASSUME NEW length \in Nat, NEW part \in Nat, part > 0
  PROVE  FinalSize(0, length, part) + FinalSize(1, length, part)
           = part + (IF length % part > 0 THEN length % part ELSE part)
  <1>1. length % part \in Nat /\ part \div 2 \in Nat
    BY DivMod
  <1>2. QED
    BY <1>1 DEF FinalSize, Rebalanced, FirstSize, MinSize

\* The chunks of a range of two or more tile it: each begins where the one before
\* it ends, none begins past the end, and after the announced number of chunks the
\* range is exhausted, neither short nor over.
THEOREM ChunksTileRange ==
  ASSUME NEW length \in Nat, NEW part \in Nat, part > 0,
         MaxPart(length, part) >= 2,
         NEW id \in 0..MaxPart(length, part)
  PROVE  /\ ChunkStart(id, length, part) \in 0..length
         /\ id < MaxPart(length, part) =>
              /\ ChunkStart(id, length, part) < length
              /\ ChunkStart(id + 1, length, part)
                   = ChunkStart(id, length, part) + FinalSize(id, length, part)
         /\ id = MaxPart(length, part) => ChunkStart(id, length, part) = length
  <1> DEFINE q == length \div part
             r == length % part
             M == MaxPart(length, part)
  <1>1. q \in Nat /\ r \in Nat /\ r < part /\ length = (part * q) + r
    BY DivMod
  <1>2. M \in Nat /\ M = IF r > 0 THEN q + 1 ELSE q
    BY <1>1 DEF MaxPart
  <1>3. \A i \in Nat : FinalSize(i, length, part) \in 1..part
    <2>1. TAKE i \in Nat
    <2>2. QED
      BY FinalSizeBounds
  <1>4. length - (part * (M - 2)) = part + (IF r > 0 THEN r ELSE part)
    <2>1. CASE r > 0
      <3>1. part * (M - 2) = (part * q) - part
        BY <1>1, <1>2, <2>1
      <3>2. QED
        BY <1>1, <2>1, <3>1
    <2>2. CASE r = 0
      <3>1. part * (M - 2) = ((part * q) - part) - part
        BY <1>1, <1>2, <2>2
      <3>2. QED
        BY <1>1, <2>2, <3>1
    <2>3. QED
      BY <1>1, <2>1, <2>2
  <1>5. ChunkStart(2, length, part)
          = FinalSize(0, length, part) + FinalSize(1, length, part)
    BY <1>4, FirstTwo DEF ChunkStart
  <1>6. ASSUME NEW i \in 2..M
        PROVE  /\ part * (M - i) \in Nat
               /\ part * (M - i) <= part * (M - 2)
               /\ i < M => part * (M - i) > 0 /\ part * (M - (i + 1)) = (part * (M - i)) - part
    <2>1. M - i \in Nat /\ M - i <= M - 2
      BY <1>2
    <2>2. part * (M - i) \in Nat /\ part * (M - i) <= part * (M - 2)
      BY <2>1, <1>2
    <2>3. i < M => part * (M - i) > 0
      BY <2>1, <1>2
    <2>4. part * (M - (i + 1)) = (part * (M - i)) - part
      BY <2>1, <1>2
    <2>5. QED
      BY <2>2, <2>3, <2>4
  <1>7. \A i \in 2..M : ChunkStart(i, length, part) = length - (part * (M - i))
    BY DEF ChunkStart
  <1>8. CASE id \in {0, 1}
    <2>1. FinalSize(0, length, part) < length
      <3>1. FinalSize(0, length, part) + FinalSize(1, length, part)
              = length - (part * (M - 2))
        BY <1>4, FirstTwo
      <3>2. part * (M - 2) \in Nat
        BY <1>2, <1>6
      <3>3. FinalSize(0, length, part) \in Nat /\ FinalSize(1, length, part) \in Nat \ {0}
        BY <1>3
      <3>4. QED
        BY <3>1, <3>2, <3>3
    <2>2. QED
      BY <1>2, <1>3, <1>5, <1>8, <2>1 DEF ChunkStart
  <1>9. CASE id \in 2..M
    <2>1. FinalSize(id, length, part) = part
      BY <1>9 DEF FinalSize
    <2>2. length - (part * (M - 2)) \in Nat
      BY <1>1, <1>4
    <2>3. part * (M - M) = 0
      BY <1>2
    <2>4. QED
      BY <1>2, <1>6, <1>7, <1>9, <2>1, <2>2, <2>3
  <1>10. QED
    BY <1>2, <1>8, <1>9

-----------------------------------------------------------------------------
(* Types and slots.                                                         *)

\* The number of workers is a natural number, positive unless the range is empty.
LEMMA ConcurrencyType ==
  /\ Parts \in Nat /\ Concurrency \in Nat
  /\ Length > 0 <=> Concurrency > 0
  <1>1. Parts \in Nat /\ (Length > 0 <=> Parts > 0)
    <2>1. Length \in Nat /\ PartSize \in Nat /\ PartSize > 0
      BY SizeAssumption
    <2>2. QED
      BY <2>1, MaxPartType DEF Parts
  <1>2. QED
    BY <1>1, ConfigAssumption DEF Concurrency

(***************************************************************************)
(* The strengthening.  Before the first section under d.m nothing exists;  *)
(* while budget is left, the goroutines it pays for are not yet started;   *)
(* a goroutine runs only after a chunk was queued; a reader is in a buffer.*)
(***************************************************************************)
Untouched ==
  rpc = "start" => /\ nextChunk = 0 /\ pos = 0 /\ bufs = <<>>
                   /\ concurrency = Concurrency /\ ~keeper
                   /\ \A w \in Workers : pc[w] = "unborn"
BudgetUnborn ==
  concurrency > 0 =>
    \A w \in Workers : w > Concurrency - concurrency => pc[w] = "unborn"
LiveAfterChunk == \A w \in Workers : pc[w] # "unborn" => nextChunk > 0
ReaderInBuf == rpc \in {"read", "finish"} => curBuf \in 1..Len(bufs)

FirstBuf == rpc \in {"start", "return"} => curBuf = 1

Shape == Untouched /\ BudgetUnborn /\ LiveAfterChunk /\ ReaderInBuf /\ FirstBuf

-----------------------------------------------------------------------------
\* A fresh or refilled buffer is a buffer.
LEMMA FreshBufType ==
  ASSUME NEW size \in Nat
  PROVE  FreshBuf(size) \in Buf
  BY DEF FreshBuf, Buf

\* The operations on buffers and chunks keep them buffers and chunks.
LEMMA BufType ==
  ASSUME NEW b \in Buf
  PROVE  /\ Dropped(b) \in Buf
         /\ \A k \in Nat : Consumed(b, k) \in Buf
         /\ \A piece \in Seq(Nat) : Filled(b, piece) \in Buf
  <1>1. b.data \in Seq(Nat) /\ b.off \in Nat
    BY DEF Buf
  <1>2. Dropped(b) \in Buf
    BY <1>1 DEF Buf, Dropped
  <1>3. ASSUME NEW k \in Nat PROVE Consumed(b, k) \in Buf
    <2>1. SubSeq(b.data, k + 1, Len(b.data)) \in Seq(Nat)
      BY <1>1
    <2>2. QED
      BY <1>1, <2>1 DEF Buf, Consumed
  <1>4. ASSUME NEW piece \in Seq(Nat) PROVE Filled(b, piece) \in Buf
    <2>1. b.data \o piece \in Seq(Nat)
      BY <1>1
    <2>2. QED
      BY <1>1, <2>1 DEF Buf, Filled
  <1>5. QED
    BY <1>2, <1>3, <1>4

\* What is left of a chunk is a chunk.
LEMMA MissingType ==
  ASSUME NEW c \in Chunk, NEW k \in Nat
  PROVE  Missing(c, k) \in Chunk
  BY DEF Chunk, Missing

\* Replacing an element of a sequence keeps its length and its type.
LEMMA ExceptSeq ==
  ASSUME NEW S, NEW s \in Seq(S), NEW i, NEW e, i \in 1..Len(s) => e \in S
  PROVE  [s EXCEPT ![i] = e] \in Seq(S) /\ Len([s EXCEPT ![i] = e]) = Len(s)
  <1>1. s \in [1..Len(s) -> S] /\ Len(s) \in Nat
    OBVIOUS
  <1>2. [s EXCEPT ![i] = e] \in [1..Len(s) -> S]
    BY <1>1
  <1>3. QED
    BY <1>1, <1>2

\* sendChunkTask, entered with a typed state, with a slot to take if it needs one
\* and with a buffer to reuse if it cannot add one, leaves a typed state.
LEMMA SendType ==
  ASSUME TypeOK, NEW newConcurrency \in BOOLEAN, NEW lim \in Nat,
         NEW pcs \in [Workers -> PcValues],
         newConcurrency /\ nextChunk > 0 /\ limit > 0 => lim > 0,
         ~newConcurrency /\ concurrency <= 0 => Len(bufs) > 0,
         SendChunkTask(newConcurrency, lim, pcs)
  PROVE  /\ limit' \in Nat
         /\ chunkChannel' \in Seq(Chunk) /\ chClosed' \in BOOLEAN
         /\ nextChunk' \in Nat /\ pos' \in Nat
         /\ bufs' \in Seq(Buf) /\ Len(bufs') >= Len(bufs)
         /\ concurrency' \in Int /\ concurrency' <= Concurrency
         /\ pc' \in [Workers -> PcValues]
         /\ crash' \in Panics
  <1> USE SizeAssumption, ConcurrencyType
  <1>1. CASE newConcurrency /\ ~MayGrow
    BY <1>1 DEF SendChunkTask, TypeOK, queue
  <1>2. CASE ~(newConcurrency /\ ~MayGrow)
    <2> DEFINE grown == IF concurrency > 0 THEN Append(bufs, FreshBuf(PartSize)) ELSE bufs
               buf == IF concurrency > 0 THEN Len(bufs) + 1 ELSE BufIndex(nextChunk, bufs)
               finalSize == FinalSize(nextChunk, Length, PartSize)
               refilled == [grown EXCEPT ![buf] = FreshBuf(finalSize)]
               chunk == [start |-> pos, size |-> finalSize, id |-> nextChunk, buf |-> buf,
                         newConcurrency |-> newConcurrency]
    <2> HIDE DEF grown, buf, finalSize, refilled, chunk
    <2>1. finalSize \in Nat
      <3>1. nextChunk \in Nat /\ PartSize > 0
        BY DEF TypeOK
      <3>2. FinalSize(nextChunk, Length, PartSize) \in 1..PartSize
        BY <3>1, FinalSizeBounds
      <3>3. QED
        BY <3>2 DEF finalSize
    <2>2. concurrency <= 0 => Len(bufs) > 0
      BY <1>2 DEF MayGrow, TypeOK
    <2>3. buf \in Nat
      <3>1. CASE concurrency > 0
        BY <3>1 DEF TypeOK, buf
      <3>2. CASE ~(concurrency > 0)
        <4>1. Len(bufs) \in Nat /\ Len(bufs) > 0 /\ nextChunk \in Nat
          BY <2>2, <3>2 DEF TypeOK
        <4>2. nextChunk % Len(bufs) \in Nat
          BY <4>1, DivMod
        <4>3. QED
          BY <3>2, <4>2 DEF BufIndex, buf
      <3>3. QED
        BY <3>1, <3>2
    <2>4. chunk \in Chunk
      BY <2>1, <2>3 DEF Chunk, TypeOK, chunk
    <2>5. grown \in Seq(Buf) /\ Len(grown) >= Len(bufs)
      BY FreshBufType DEF TypeOK, grown
    <2>6. refilled \in Seq(Buf) /\ Len(refilled) = Len(grown)
      <3>1. FreshBuf(finalSize) \in Buf
        BY <2>1, FreshBufType
      <3>2. buf \in 1..Len(grown) => FreshBuf(finalSize) \in Buf
        BY <3>1
      <3>3. grown \in Seq(Buf)
        BY <2>5
      <3>4. QED
        BY <3>2, <3>3, ExceptSeq DEF refilled
    <2>7. bufs' \in {grown, refilled}
      BY <1>2 DEF SendChunkTask, grown, buf, finalSize, refilled, chunk
    <2>8. bufs' \in Seq(Buf) /\ Len(bufs') >= Len(bufs)
      BY <2>5, <2>6, <2>7
    <2>9. chunkChannel' \in {chunkChannel, Append(chunkChannel, chunk)}
      BY <1>2 DEF SendChunkTask, grown, buf, finalSize, chunk
    <2>10. chunkChannel' \in Seq(Chunk)
      <3>1. chunkChannel \in Seq(Chunk)
        BY DEF TypeOK
      <3>2. QED
        BY <2>4, <2>9, <3>1
    <2>11. pos' \in {pos, pos + finalSize} /\ nextChunk' \in {nextChunk, nextChunk + 1}
      BY <1>2 DEF SendChunkTask, grown, buf, finalSize, chunk
    <2>12. pos' \in Nat /\ nextChunk' \in Nat
      BY <2>1, <2>11 DEF TypeOK
    <2>13. crash' \in {crash, "send on closed channel"} /\ chClosed' = chClosed
      BY <1>2 DEF SendChunkTask
    <2>14. concurrency' = IF newConcurrency THEN concurrency - 1 ELSE concurrency
      BY <1>2 DEF SendChunkTask
    <2>15. limit' = IF newConcurrency /\ nextChunk > 0 THEN lim - 1 ELSE lim
      BY <1>2 DEF SendChunkTask
    <2>16. limit' \in Nat
      BY <1>2, <2>15 DEF MayGrow
    <2>17. pc' \in {pcs, [pcs EXCEPT ![NextWorker] = "recv"]}
      BY <1>2 DEF SendChunkTask
    <2>18. pc' \in [Workers -> PcValues]
      BY <2>17 DEF PcValues
    <2>19. concurrency' \in Int /\ concurrency' <= Concurrency
      BY <2>14 DEF TypeOK
    <2>20. crash' \in Panics /\ chClosed' \in BOOLEAN
      BY <2>13 DEF TypeOK, Panics
    <2>21. QED
      BY <2>8, <2>10, <2>12, <2>16, <2>18, <2>19, <2>20
  <1>3. QED
    BY <1>1, <1>2

\* Every step leaves a typed state, given that a reader has a buffer to refill.
LEMMA TypeStep ==
  ASSUME TypeOK, Shape, [Next]_vars
  PROVE  TypeOK'
  <1>0. CASE UNCHANGED vars
    BY <1>0 DEF TypeOK, vars, pool, queue, state, workers, task, reader
  <1>1. CASE Refuse
    BY <1>1 DEF Refuse, TypeOK, RpcValues, Panics,
      pool, queue, state, workers, task, reader
  <1>2. CASE StartSingle
    <2>1. limit \in Nat
      BY DEF TypeOK
    <2>2. limit' \in Nat
      BY <1>2, <2>1 DEF StartSingle
    <2>3. QED
      BY <1>2, <2>2 DEF StartSingle, TypeOK, RpcValues, Panics,
        pool, queue, state, workers, task, reader
  <1>3. CASE SingleAnswer
    BY <1>3 DEF SingleAnswer, TypeOK, RpcValues, Panics,
      pool, queue, state, workers, task, reader
  <1>4. CASE ReturnReader
    BY <1>4 DEF ReturnReader, TypeOK, RpcValues, Panics,
      pool, queue, state, workers, task, reader
  <1>5. CASE ReadCancelled
    BY <1>5 DEF ReadCancelled, TypeOK, RpcValues, Panics,
      pool, queue, state, workers, task, reader
  <1>6. CASE ReadEOF
    BY <1>6 DEF ReadEOF, TypeOK, RpcValues, Panics,
      pool, queue, state, workers, task, reader
  <1>7. CASE NextBuf
    <2>1. rPos + 1 \in Nat /\ Len(bufs) \in Nat /\ Len(bufs) > 0
      BY <1>7 DEF NextBuf, TypeOK, Shape, ReaderInBuf
    <2>2. (rPos + 1) % Len(bufs) \in Nat
      BY <2>1, DivMod
    <2>3. rPos' \in Nat /\ readingID' \in Nat /\ curBuf' \in Nat
      BY <1>7, <2>1, <2>2 DEF NextBuf, BufIndex
    <2>4. rpc' \in RpcValues
      BY <1>7 DEF NextBuf, RpcValues
    <2>5. UNCHANGED <<pool, queue, state, workers, out, crash>>
      BY <1>7 DEF NextBuf
    <2>6. QED
      BY <2>3, <2>4, <2>5 DEF TypeOK, pool, queue, state, workers, task
  <1>8. CASE CloseCheck
    BY <1>8 DEF CloseCheck, TypeOK, RpcValues, Panics,
      pool, queue, state, workers, task, reader
  <1>9. CASE CloseSetErr
    BY <1>9 DEF CloseSetErr, TypeOK, RpcValues, Panics,
      pool, queue, state, workers, task, reader
  <1>10. CASE CloseCancel
    BY <1>10 DEF CloseCancel, TypeOK, RpcValues, Panics,
      pool, queue, state, workers, task, reader
  <1>11. CASE CloseChannel
    BY <1>11 DEF CloseChannel, TypeOK, RpcValues, Panics,
      pool, queue, state, workers, task, reader
  <1>12. CASE CloseBufs
    <2>1. bufs \in Seq(Buf) /\ Len(bufs) \in Nat
      BY DEF TypeOK
    <2>2. \A i \in 1..Len(bufs) : Dropped(bufs[i]) \in Buf
      BY <2>1, BufType
    <2>3. bufs' \in Seq(Buf)
      BY <1>12, <2>1, <2>2 DEF CloseBufs
    <2>4. QED
      BY <1>12, <2>3 DEF CloseBufs, TypeOK, RpcValues, pool, state, workers, task, reader
  <1>13. CASE CloseNegate
    <2>1. concurrency \in Int /\ concurrency <= Concurrency
      BY DEF TypeOK
    <2>2. concurrency' \in Int /\ concurrency' <= Concurrency
      BY <1>13, <2>1, ConcurrencyType DEF CloseNegate, Stopped
    <2>3. QED
      BY <1>13, <2>2 DEF CloseNegate, TypeOK, RpcValues,
        pool, queue, state, workers, task, reader
  <1>14. CASE CloseSingle
    BY <1>14 DEF CloseSingle, TypeOK, RpcValues, Panics,
      pool, queue, state, workers, task, reader
  <1>15. CASE KeeperExit
    <2>1. limit \in Nat
      BY DEF TypeOK
    <2>2. limit' \in Nat
      BY <1>15, <2>1 DEF KeeperExit, ConcurrencyFinish
    <2>3. QED
      BY <1>15, <2>2 DEF KeeperExit, ConcurrencyFinish, TypeOK, RpcValues, Panics,
        pool, queue, state, workers, task, reader
  <1>16. CASE ParentCancel
    BY <1>16, ZenonT(60) DEF ParentCancel, TypeOK, RpcValues, Panics,
      pool, queue, state, workers, task, reader
  <1>17. CASE OthersTake
    <2>1. limit \in Nat /\ others \in Nat
      BY DEF TypeOK
    <2>2. limit' \in Nat /\ others' \in Nat
      BY <1>17, <2>1 DEF OthersTake
    <2>3. UNCHANGED <<queue, state, workers, reader, keeper, rpc, crash>>
      BY <1>17 DEF OthersTake
    <2>4. QED
      BY <2>2, <2>3 DEF TypeOK, queue, state, workers, task, reader
  <1>18. CASE OthersReturn
    <2>1. limit \in Nat /\ others \in Nat
      BY DEF TypeOK
    <2>2. limit' \in Nat /\ others' \in Nat
      BY <1>18, <2>1 DEF OthersReturn
    <2>3. UNCHANGED <<queue, state, workers, reader, keeper, rpc, crash>>
      BY <1>18 DEF OthersReturn
    <2>4. QED
      BY <2>2, <2>3 DEF TypeOK, queue, state, workers, task, reader
  <1>19. CASE StartParts
    <2>1. limit - 1 \in Nat /\ pc \in [Workers -> PcValues] /\ ~(nextChunk > 0)
      BY <1>19 DEF StartParts, TypeOK, Shape, Untouched
    <2>2. SendChunkTask(TRUE, limit - 1, pc)
      BY <1>19 DEF StartParts
    <2>3. /\ limit' \in Nat /\ chunkChannel' \in Seq(Chunk) /\ chClosed' \in BOOLEAN
          /\ nextChunk' \in Nat /\ pos' \in Nat /\ bufs' \in Seq(Buf)
          /\ concurrency' \in Int /\ concurrency' <= Concurrency
          /\ pc' \in [Workers -> PcValues] /\ crash' \in Panics
      BY <2>1, <2>2, SendType, Zenon
    <2>4. QED
      BY <1>19, <2>3 DEF StartParts, TypeOK, RpcValues, state, task, reader
  <1>20. CASE FinishBuf
    <2>1. limit \in Nat /\ pc \in [Workers -> PcValues] /\ Len(bufs) > 0
      BY <1>20 DEF FinishBuf, TypeOK, Shape, ReaderInBuf
    <2>2. SendChunkTask(FALSE, limit, pc)
      BY <1>20 DEF FinishBuf
    <2>3. QED
      BY <1>20, <2>1, <2>2, SendType DEF FinishBuf, TypeOK, RpcValues, state, task, reader
  <1>21. CASE Read
    <2>1. PICK k \in 1..Len(bufs[curBuf].data) :
            /\ out' = out \o SubSeq(bufs[curBuf].data, 1, k)
            /\ bufs' = [bufs EXCEPT ![curBuf] = Consumed(bufs[curBuf], k)]
      BY <1>21 DEF Read
    <2>2. bufs[curBuf] \in Buf
      BY <1>21 DEF Read, TypeOK, Shape, ReaderInBuf
    <2>3. bufs[curBuf].data \in Seq(Nat) /\ Len(bufs[curBuf].data) \in Nat
      BY <2>2 DEF Buf
    <2>4. k \in Nat /\ k <= Len(bufs[curBuf].data)
      BY <2>3
    <2>5. out' \in Seq(Nat)
      <3>1. SubSeq(bufs[curBuf].data, 1, k) \in Seq(Nat)
        BY <2>3, <2>4
      <3>2. out \in Seq(Nat)
        BY DEF TypeOK
      <3>3. QED
        BY <2>1, <3>1, <3>2
    <2>6. bufs' \in Seq(Buf)
      <3>1. Consumed(bufs[curBuf], k) \in Buf /\ bufs \in Seq(Buf)
        BY <2>2, <2>4, BufType DEF TypeOK
      <3>2. QED
        BY <2>1, <3>1, ExceptSeq
    <2>7. QED
      BY <1>21, <2>5, <2>6 DEF Read, TypeOK, pool, state, workers, task
  <1>22. ASSUME NEW w \in Workers, ReceiveClosed(w) PROVE TypeOK'
    BY <1>22 DEF ReceiveClosed, Exit, ConcurrencyFinish, WorkerStep, TypeOK, PcValues, Outcomes, elsewhere, queue,
      state, task, reader
  <1>23. ASSUME NEW w \in Workers, CheckErr(w) PROVE TypeOK'
    <2>1. limit \in Nat
      BY DEF TypeOK
    <2>2. limit' \in Nat
      BY <1>23, <2>1 DEF CheckErr, Exit, ConcurrencyFinish
    <2>3. QED
      BY <1>23, <2>2 DEF CheckErr, Exit, ConcurrencyFinish, WorkerStep, TypeOK, PcValues, Outcomes, elsewhere, queue,
        state, task, reader
  <1>24. ASSUME NEW w \in Workers, RetryLoop(w) PROVE TypeOK'
    BY <1>24 DEF RetryLoop, WorkerStep, TypeOK, PcValues, Outcomes, elsewhere, queue,
      state, task, reader
  <1>25. ASSUME NEW w \in Workers, AnswerBody(w) PROVE TypeOK'
    BY <1>25, SMTT(60) DEF AnswerBody, Chunk, WorkerStep, TypeOK, PcValues, Outcomes, elsewhere, queue,
      state, task, reader
  <1>26. ASSUME NEW w \in Workers, AnswerMismatch(w) PROVE TypeOK'
    BY <1>26 DEF AnswerMismatch, WorkerStep, TypeOK, PcValues, Outcomes, elsewhere, queue,
      state, task, reader
  <1>27. ASSUME NEW w \in Workers, AnswerError(w) PROVE TypeOK'
    BY <1>27 DEF AnswerError, Return, WorkerStep, TypeOK, PcValues, Outcomes, elsewhere, queue,
      state, task, reader
  <1>28. ASSUME NEW w \in Workers, LockM2(w) PROVE TypeOK'
    BY <1>28 DEF LockM2, WorkerStep, TypeOK, PcValues, Outcomes, elsewhere, queue,
      state, task, reader
  <1>29. ASSUME NEW w \in Workers, UnlockM2(w) PROVE TypeOK'
    BY <1>29 DEF UnlockM2, Return, WorkerStep, TypeOK, PcValues, Outcomes, elsewhere, queue,
      state, task, reader
  <1>30. ASSUME NEW w \in Workers, CopyEnd(w) PROVE TypeOK'
    BY <1>30 DEF CopyEnd, Return, WorkerStep, TypeOK, PcValues, Outcomes, elsewhere, queue,
      state, task, reader
  <1>31. ASSUME NEW w \in Workers, CopyBreak(w) PROVE TypeOK'
    BY <1>31 DEF CopyBreak, Return, WorkerStep, TypeOK, PcValues, Outcomes, elsewhere, queue,
      state, task, reader
  <1>32. ASSUME NEW w \in Workers, WriteCheck(w) PROVE TypeOK'
    BY <1>32 DEF WriteCheck, WorkerStep, TypeOK, PcValues, Outcomes, elsewhere, queue,
      state, task, reader
  <1>33. ASSUME NEW w \in Workers, JudgeOk(w) PROVE TypeOK'
    BY <1>33 DEF JudgeOk, WorkerStep, TypeOK, PcValues, Outcomes, elsewhere, queue,
      state, task, reader
  <1>34. ASSUME NEW w \in Workers, JudgeStopped(w) PROVE TypeOK'
    BY <1>34 DEF JudgeStopped, WorkerStep, TypeOK, PcValues, Outcomes, elsewhere, queue,
      state, task, reader
  <1>35. ASSUME NEW w \in Workers, JudgeRetry(w) PROVE TypeOK'
    <2>1. ch[w] \in Chunk /\ n[w] \in Nat /\ retry[w] \in Nat /\ written \in Nat
      BY DEF TypeOK
    <2>2. Missing(ch[w], n[w]) \in Chunk /\ retry[w] + 1 \in Nat /\ written + n[w] \in Nat
      BY <2>1, MissingType
    <2>3. ch' \in [Workers -> Chunk] /\ retry' \in [Workers -> Nat] /\ written' \in Nat
      BY <1>35, <2>2 DEF JudgeRetry, TypeOK
    <2>4. pc' \in [Workers -> PcValues]
      BY <1>35 DEF JudgeRetry, TypeOK, PcValues
    <2>5. UNCHANGED <<elsewhere, queue, limit, err, ctxDone, m2, n, body, res, crash>>
      BY <1>35 DEF JudgeRetry
    <2>6. QED
      BY <2>3, <2>4, <2>5 DEF TypeOK, elsewhere, queue, reader
  <1>36. ASSUME NEW w \in Workers, JudgeOther(w) PROVE TypeOK'
    BY <1>36 DEF JudgeOther, Judged, WorkerStep, TypeOK, PcValues, Outcomes, elsewhere, queue,
      state, task, reader
  <1>37. ASSUME NEW w \in Workers, JudgeRevoked(w) PROVE TypeOK'
    BY <1>37 DEF JudgeRevoked, Exit, ConcurrencyFinish, Judged, WorkerStep, TypeOK, PcValues, Outcomes, elsewhere, queue,
      state, task, reader
  <1>38. ASSUME NEW w \in Workers, SetErr(w) PROVE TypeOK'
    BY <1>38 DEF SetErr, WorkerStep, TypeOK, PcValues, Outcomes, elsewhere, queue,
      state, task, reader
  <1>39. ASSUME NEW w \in Workers, Cancel(w) PROVE TypeOK'
    BY <1>39 DEF Cancel, WorkerStep, TypeOK, PcValues, Outcomes, elsewhere, queue,
      state, task, reader
  <1>40. ASSUME NEW w \in Workers, Receive(w) PROVE TypeOK'
    <2>1. chunkChannel \in Seq(Chunk) /\ chunkChannel # <<>>
      BY <1>40 DEF Receive, TypeOK
    <2>2. Head(chunkChannel) \in Chunk /\ Tail(chunkChannel) \in Seq(Chunk)
      BY <2>1
    <2>3. ch' \in [Workers -> Chunk] /\ chunkChannel' \in Seq(Chunk)
      BY <1>40, <2>2 DEF Receive, TypeOK
    <2>4. retry' \in [Workers -> Nat] /\ pc' \in [Workers -> PcValues]
      BY <1>40 DEF Receive, TypeOK, PcValues
    <2>5. UNCHANGED <<elsewhere, state, limit, chClosed, nextChunk, bufs, concurrency, pos,
                      m2, n, body, res, crash>>
      BY <1>40 DEF Receive
    <2>6. QED
      BY <2>3, <2>4, <2>5 DEF TypeOK, elsewhere, state, reader
  <1>41. ASSUME NEW w \in Workers, AnswerOverload(w) PROVE TypeOK'
    <2>1. chunkChannel \in Seq(Chunk) /\ ch[w] \in Chunk
      BY DEF TypeOK
    <2>2. chunkChannel' \in {chunkChannel, Append(chunkChannel, ch[w])}
      BY <1>41 DEF AnswerOverload
    <2>3. chunkChannel' \in Seq(Chunk)
      BY <2>1, <2>2
    <2>4. concurrency' \in Int /\ concurrency' <= Concurrency
      <3>1. concurrency \in Int /\ concurrency <= Concurrency
        BY DEF TypeOK
      <3>2. concurrency' \in {concurrency, Stopped - 1}
        BY <1>41 DEF AnswerOverload
      <3>3. QED
        BY <3>1, <3>2, ConcurrencyType DEF Stopped
    <2>5. /\ pc' \in {pc, [pc EXCEPT ![w] = "judge"], [pc EXCEPT ![w] = "wait"]}
          /\ res' \in {res, [res EXCEPT ![w] = "revoked"], [res EXCEPT ![w] = "infinite"]}
          /\ crash' \in {crash, "send on closed channel"}
      BY <1>41 DEF AnswerOverload, Return
    <2>6. /\ pc' \in [Workers -> PcValues] /\ res' \in [Workers -> Outcomes]
          /\ crash' \in Panics
      BY <2>5 DEF TypeOK, PcValues, Outcomes, Panics
    <2>7. UNCHANGED <<elsewhere, state, limit, chClosed, nextChunk, bufs, pos, m2, ch,
                      retry, n, body>>
      BY <1>41 DEF AnswerOverload
    <2>8. QED
      BY <2>3, <2>4, <2>6, <2>7 DEF TypeOK, elsewhere, state, reader
  <1>42. ASSUME NEW w \in Workers, SpawnNext(w) PROVE TypeOK'
    <2>1. limit \in Nat /\ [pc EXCEPT ![w] = "copy"] \in [Workers -> PcValues]
      BY DEF TypeOK, PcValues
    <2>2. SendChunkTask(TRUE, limit, [pc EXCEPT ![w] = "copy"])
      BY <1>42 DEF SpawnNext
    <2>3. QED
      BY <1>42, <2>1, <2>2, SendType DEF SpawnNext, TypeOK, elsewhere, state, task, reader
  <1>43. ASSUME NEW w \in Workers, WriteBuf(w) PROVE TypeOK'
    <2> DEFINE i == ch[w].buf
    <2>1. UNCHANGED <<elsewhere, state, limit, chunkChannel, chClosed, nextChunk, concurrency,
                      pos, m2, ch, retry, res>>
      BY <1>43 DEF WriteBuf
    <2>2. CASE bufs[i].closed
      BY <1>43, <2>1, <2>2 DEF WriteBuf, TypeOK, Panics, elsewhere, state, reader
    <2>3. CASE ~bufs[i].closed
      <3>1. PICK k \in 1..(body[w].end - body[w].next) :
              /\ bufs' = [bufs EXCEPT ![i] = Filled(bufs[i], Bytes(body[w].next, k))]
              /\ body' = [body EXCEPT ![w] = [next |-> body[w].next + k, end |-> body[w].end]]
              /\ n' = [n EXCEPT ![w] = n[w] + k]
              /\ pc' = [pc EXCEPT ![w] = "copy"]
              /\ crash' = crash
        BY <1>43, <2>3 DEF WriteBuf
      <3>2. body[w].next \in Nat /\ body[w].end \in Int /\ n[w] \in Nat
        BY DEF TypeOK
      <3>3. k \in Nat
        BY <3>2
      <3>4. Bytes(body[w].next, k) \in Seq(Nat)
        BY <3>2, <3>3 DEF Bytes
      <3>5. bufs' \in Seq(Buf)
        <4>1. bufs \in Seq(Buf)
          BY DEF TypeOK
        <4>2. i \in 1..Len(bufs) => Filled(bufs[i], Bytes(body[w].next, k)) \in Buf
          <5>1. i \in 1..Len(bufs) => bufs[i] \in Buf
            BY <4>1
          <5>2. QED
            BY <3>4, <5>1, BufType
        <4>3. QED
          BY <3>1, <4>1, <4>2, ExceptSeq
      <3>6. body' \in [Workers -> [next : Nat, end : Int]]
        BY <3>1, <3>2, <3>3 DEF TypeOK
      <3>7. n' \in [Workers -> Nat] /\ pc' \in [Workers -> PcValues] /\ crash' \in Panics
        BY <3>1, <3>2, <3>3, SMTT(60) DEF TypeOK, PcValues
      <3>8. QED
        BY <2>1, <3>5, <3>6, <3>7 DEF TypeOK, elsewhere, state, reader
    <2>4. QED
      BY <2>2, <2>3
  <1>44. QED
    BY <1>0, <1>1, <1>2, <1>3, <1>4, <1>5, <1>6, <1>7, <1>8, <1>9, <1>10, <1>11, <1>12, <1>13, <1>14, <1>15, <1>16, <1>17, <1>18, <1>19, <1>20, <1>21, <1>22, <1>23, <1>24, <1>25, <1>26, <1>27, <1>28, <1>29, <1>30, <1>31, <1>32, <1>33, <1>34, <1>35, <1>36, <1>37, <1>38, <1>39, <1>40, <1>41, <1>42, <1>43
      DEF Next, Caller, Open, Consume, Interrupt, Close, Worker, Request, Copy, Judge

-----------------------------------------------------------------------------
(***************************************************************************)
(* What a step does to the goroutines and their slots: all that the shape  *)
(* and the conservation of slots depend on.                                *)
(***************************************************************************)

\* A step of worker w other than the one that starts another: w stays alive, or
\* it leaves and gives its slot back.
WorkerEffect(w) ==
  /\ Live(w)
  /\ \A v \in Workers : v # w => pc'[v] = pc[v]
  /\ \/ pc'[w] \notin {"unborn", "exited"} /\ limit' = limit
     \/ pc'[w] = "exited" /\ limit' = limit + 1
  /\ UNCHANGED <<others, keeper, rpc, curBuf, nextChunk, pos>>
  /\ Len(bufs') = Len(bufs)
  /\ concurrency' = concurrency \/ (concurrency' \in Int /\ concurrency' <= 0)

\* sendChunkTask, entered after a step that changed the caller's pc only.
SendEffect(newConcurrency, lim, pcs) ==
  /\ \/ pc' = pcs /\ limit' = lim /\ concurrency' = concurrency
     \/ /\ newConcurrency /\ MayGrow
        /\ pc' = [pcs EXCEPT ![NextWorker] = "recv"]
        /\ limit' = IF nextChunk > 0 THEN lim - 1 ELSE lim
        /\ concurrency' = concurrency - 1
        /\ pos < Length => nextChunk' = nextChunk + 1
  /\ nextChunk' \in {nextChunk, nextChunk + 1}

\* sendChunkTask has that effect.
LEMMA SendEffects ==
  ASSUME NEW newConcurrency \in BOOLEAN, NEW lim, NEW pcs,
         SendChunkTask(newConcurrency, lim, pcs)
  PROVE  SendEffect(newConcurrency, lim, pcs)
  BY DEF SendChunkTask, SendEffect, queue

OtherWorkerStep(w) ==
  Receive(w) \/ ReceiveClosed(w) \/ CheckErr(w) \/ RetryLoop(w) \/ Request(w)
  \/ CopyEnd(w) \/ CopyBreak(w) \/ WriteCheck(w) \/ WriteBuf(w) \/ Judge(w)

\* Every worker step but SpawnNext has this effect.
LEMMA WorkerEffects ==
  ASSUME TypeOK, NEW w \in Workers, OtherWorkerStep(w)
  PROVE  WorkerEffect(w)
  <1> USE DEF WorkerEffect, WorkerStep, Live
  <1>0. pc \in [Workers -> PcValues] /\ bufs \in Seq(Buf)
    BY DEF TypeOK
  <1>1. CASE ReceiveClosed(w)
    BY <1>0, <1>1 DEF ReceiveClosed, Exit, ConcurrencyFinish, elsewhere, queue, reader
  <1>2. CASE CheckErr(w)
    BY <1>0, <1>2 DEF CheckErr, Exit, ConcurrencyFinish, elsewhere, queue, reader
  <1>3. CASE RetryLoop(w)
    BY <1>0, <1>3 DEF RetryLoop, elsewhere, queue, reader
  <1>4. CASE AnswerBody(w)
    BY <1>0, <1>4 DEF AnswerBody, elsewhere, queue, reader
  <1>5. CASE AnswerMismatch(w)
    BY <1>0, <1>5 DEF AnswerMismatch, elsewhere, queue, reader
  <1>6. CASE AnswerError(w)
    BY <1>0, <1>6 DEF AnswerError, Return, elsewhere, queue, reader
  <1>7. CASE LockM2(w)
    BY <1>0, <1>7 DEF LockM2, elsewhere, queue, reader
  <1>8. CASE UnlockM2(w)
    BY <1>0, <1>8 DEF UnlockM2, Return, elsewhere, queue, reader
  <1>9. CASE CopyEnd(w)
    BY <1>0, <1>9 DEF CopyEnd, Return, elsewhere, queue, reader
  <1>10. CASE CopyBreak(w)
    BY <1>0, <1>10 DEF CopyBreak, Return, elsewhere, queue, reader
  <1>11. CASE WriteCheck(w)
    BY <1>0, <1>11 DEF WriteCheck, elsewhere, queue, reader
  <1>12. CASE JudgeOk(w)
    BY <1>0, <1>12 DEF JudgeOk, elsewhere, queue, reader
  <1>13. CASE JudgeStopped(w)
    BY <1>0, <1>13 DEF JudgeStopped, elsewhere, queue, reader
  <1>14. CASE JudgeRetry(w)
    BY <1>0, <1>14 DEF JudgeRetry, Judged, elsewhere, queue, reader
  <1>15. CASE JudgeOther(w)
    BY <1>0, <1>15 DEF JudgeOther, Judged, elsewhere, queue, reader
  <1>16. CASE JudgeRevoked(w)
    BY <1>0, <1>16 DEF JudgeRevoked, Exit, ConcurrencyFinish, Judged, elsewhere, queue, reader
  <1>17. CASE SetErr(w)
    BY <1>0, <1>17 DEF SetErr, elsewhere, queue, reader
  <1>18. CASE Cancel(w)
    BY <1>0, <1>18 DEF Cancel, elsewhere, queue, reader
  <1>19. CASE Receive(w)
    BY <1>0, <1>19 DEF Receive, elsewhere, queue, reader
  <1>20. CASE AnswerOverload(w)
    <2>1. concurrency' = concurrency \/ (concurrency' \in Int /\ concurrency' <= 0)
      <3>1. concurrency \in Int
        BY DEF TypeOK
      <3>2. concurrency' \in {concurrency, Stopped - 1}
        BY <1>20 DEF AnswerOverload
      <3>3. QED
        BY <3>1, <3>2 DEF Stopped
    <2>2. QED
      BY <1>0, <1>20, <2>1 DEF AnswerOverload, Return, elsewhere, reader
  <1>21. CASE WriteBuf(w)
    <2>1. Len(bufs') = Len(bufs)
      <3>1. bufs' = bufs \/ \E i, e : bufs' = [bufs EXCEPT ![i] = e]
        BY <1>21 DEF WriteBuf
      <3>2. DOMAIN bufs' = DOMAIN bufs
        BY <3>1
      <3>3. QED
        BY <1>0, <3>2
    <2>2. QED
      BY <1>0, <1>21, <2>1 DEF WriteBuf, elsewhere, reader
  <1>22. QED
    BY <1>1, <1>2, <1>3, <1>4, <1>5, <1>6, <1>7, <1>8, <1>9, <1>10, <1>11, <1>12, <1>13, <1>14, <1>15, <1>16, <1>17, <1>18, <1>19, <1>20, <1>21 DEF OtherWorkerStep, Request, Judge

-----------------------------------------------------------------------------
\* The shape is kept: by a worker,
LEMMA WorkerShape ==
  ASSUME TypeOK, Shape, NEW w \in Workers, WorkerEffect(w)
  PROVE  Shape'
  <1>1. rpc # "start" /\ pc[w] # "unborn"
    BY DEF Shape, Untouched, WorkerEffect, Live
  <1>2. Untouched' /\ FirstBuf' /\ ReaderInBuf'
    BY <1>1 DEF Shape, WorkerEffect, Untouched, FirstBuf, ReaderInBuf
  <1>3. BudgetUnborn'
    <2>1. SUFFICES ASSUME concurrency' > 0, NEW v \in Workers, v > Concurrency - concurrency'
                   PROVE  pc'[v] = "unborn"
      BY DEF BudgetUnborn
    <2>2. concurrency' = concurrency
      BY <2>1 DEF WorkerEffect
    <2>3. pc[v] = "unborn"
      BY <2>1, <2>2 DEF Shape, BudgetUnborn
    <2>4. QED
      BY <1>1, <2>3 DEF WorkerEffect
  <1>4. LiveAfterChunk'
    BY <1>1 DEF Shape, WorkerEffect, LiveAfterChunk
  <1>5. QED
    BY <1>2, <1>3, <1>4 DEF Shape

\* by the start of a worker or the queueing of a chunk,
LEMMA SendShape ==
  ASSUME TypeOK, Shape, NEW newConcurrency \in BOOLEAN, NEW lim,
         NEW pcs \in [Workers -> PcValues],
         \A v \in Workers : pc[v] = "unborn" <=> pcs[v] = "unborn",
         SendEffect(newConcurrency, lim, pcs),
         nextChunk = 0 => pos < Length
  PROVE  BudgetUnborn' /\ LiveAfterChunk'
  <1>1. CASE pc' = pcs /\ concurrency' = concurrency
    BY <1>1 DEF Shape, BudgetUnborn, LiveAfterChunk, SendEffect, TypeOK
  <1>2. CASE /\ MayGrow
             /\ pc' = [pcs EXCEPT ![NextWorker] = "recv"]
             /\ concurrency' = concurrency - 1
             /\ pos < Length => nextChunk' = nextChunk + 1
    <2>1. concurrency \in Int /\ concurrency > 0 /\ Concurrency \in Nat /\ nextChunk \in Nat
      BY <1>2, ConcurrencyType DEF MayGrow, TypeOK
    <2>2. NextWorker = Concurrency - concurrency + 1
      BY DEF NextWorker
    <2>3. \A v \in Workers : v > Concurrency - concurrency' => pc'[v] = "unborn"
      <3>1. SUFFICES ASSUME NEW v \in Workers, v > Concurrency - concurrency'
                     PROVE  pc'[v] = "unborn"
        OBVIOUS
      <3>2. v # NextWorker /\ v > Concurrency - concurrency
        BY <1>2, <2>1, <2>2, <3>1 DEF Workers
      <3>3. pc[v] = "unborn"
        BY <2>1, <3>2 DEF Shape, BudgetUnborn
      <3>4. QED
        BY <1>2, <3>2, <3>3
    <2>4. nextChunk' > 0
      BY <1>2, <2>1 DEF SendEffect
    <2>5. QED
      BY <2>3, <2>4 DEF BudgetUnborn, LiveAfterChunk
  <1>3. QED
    BY <1>1, <1>2 DEF SendEffect

\* by a worker that starts the next one,
LEMMA SpawnNextShape ==
  ASSUME TypeOK, Shape, NEW w \in Workers, SpawnNext(w)
  PROVE  Shape'
  <1> DEFINE pcs == [pc EXCEPT ![w] = "copy"]
  <1>1. pcs \in [Workers -> PcValues] /\ pc[w] = "spawn"
    BY DEF SpawnNext, WorkerStep, TypeOK, PcValues
  <1>2. SendChunkTask(TRUE, limit, pcs) /\ UNCHANGED <<elsewhere>>
    BY DEF SpawnNext
  <1>3. nextChunk > 0 /\ rpc # "start" /\ \A v \in Workers : pc[v] = "unborn" <=> pcs[v] = "unborn"
    BY <1>1 DEF Shape, LiveAfterChunk, Untouched, TypeOK
  <1>4. SendEffect(TRUE, limit, pcs)
    BY <1>2, SendEffects
  <1>5. BudgetUnborn' /\ LiveAfterChunk'
    <2>1. nextChunk = 0 => pos < Length
      BY <1>3
    <2>2. QED
      BY <1>1, <1>3, <1>4, <2>1, SendShape
  <1>6. Len(bufs') >= Len(bufs)
    BY <1>1, <1>2, SendType DEF TypeOK
  <1>7. QED
    BY <1>2, <1>3, <1>5, <1>6
       DEF Shape, Untouched, FirstBuf, ReaderInBuf, elsewhere, reader, TypeOK

\* by the start of the download,
LEMMA StartPartsShape ==
  ASSUME TypeOK, Shape, StartParts
  PROVE  Shape' /\ SendEffect(TRUE, limit - 1, pc)
  <1>1. nextChunk = 0 /\ pos = 0 /\ curBuf = 1 /\ curBuf' = 1 /\ rpc' = "return"
    BY DEF StartParts, Shape, Untouched, FirstBuf, reader
  <1>2. SendEffect(TRUE, limit - 1, pc)
    BY SendEffects DEF StartParts
  <1>3. BudgetUnborn' /\ LiveAfterChunk'
    <2>1. CASE pos < Length
      <3>1. pc \in [Workers -> PcValues]
        BY DEF TypeOK
      <3>2. QED
        BY <1>2, <2>1, <3>1, SendShape
    <2>2. CASE ~(pos < Length)
      <3>1. Concurrency = 0
        BY <1>1, <2>2, ConcurrencyType, SizeAssumption
      <3>2. Workers = {}
        BY <3>1 DEF Workers
      <3>3. QED
        BY <3>2 DEF BudgetUnborn, LiveAfterChunk
    <2>3. QED
      BY <2>1, <2>2
  <1>4. QED
    BY <1>1, <1>2, <1>3 DEF Shape, Untouched, FirstBuf, ReaderInBuf

\* by the reader that queues one more chunk,
LEMMA FinishBufShape ==
  ASSUME TypeOK, Shape, FinishBuf
  PROVE  Shape' /\ pc' = pc /\ limit' = limit
  <1>1. pc \in [Workers -> PcValues] /\ limit \in Nat /\ Len(bufs) > 0
        /\ rpc = "read" /\ rpc' = "finish" /\ curBuf' = curBuf /\ curBuf \in 1..Len(bufs)
    BY DEF FinishBuf, TypeOK, Shape, ReaderInBuf, reader
  <1>2. SendChunkTask(FALSE, limit, pc)
    BY DEF FinishBuf
  <1>3. SendEffect(FALSE, limit, pc)
    BY <1>2, SendEffects
  <1>4. pc' = pc /\ limit' = limit /\ concurrency' = concurrency
        /\ nextChunk' \in {nextChunk, nextChunk + 1}
    BY <1>3 DEF SendEffect
  <1>5. Len(bufs') >= Len(bufs)
    BY <1>1, <1>2, SendType
  <1>6. BudgetUnborn' /\ LiveAfterChunk'
    BY <1>4 DEF Shape, BudgetUnborn, LiveAfterChunk, TypeOK
  <1>7. QED
    BY <1>1, <1>4, <1>5, <1>6 DEF Shape, Untouched, FirstBuf, ReaderInBuf, TypeOK

\* and by everything else, which starts no goroutine and adds no budget.
QuietStep ==
  \/ Refuse \/ StartSingle \/ SingleAnswer \/ ReturnReader \/ Read \/ ReadCancelled
  \/ ReadEOF \/ NextBuf \/ Interrupt \/ Close
  \/ KeeperExit \/ ParentCancel \/ OthersTake \/ OthersReturn

\* None of these steps moves a worker, and all of them keep the shape.
LEMMA QuietShape ==
  ASSUME TypeOK, Shape, QuietStep
  PROVE  Shape' /\ pc' = pc
  <1> USE DEF Shape, Untouched, BudgetUnborn, LiveAfterChunk, ReaderInBuf, FirstBuf
  <1>1. CASE Refuse
    BY <1>1 DEF Refuse, pool, queue, state, workers, reader
  <1>2. CASE StartSingle
    BY <1>2 DEF StartSingle, pool, queue, state, workers, reader
  <1>3. CASE SingleAnswer
    BY <1>3 DEF SingleAnswer, pool, queue, state, workers, reader
  <1>4. CASE ReturnReader
    <2>1. bufs # <<>> => 1 \in 1..Len(bufs)
      BY DEF TypeOK
    <2>2. QED
      BY <1>4, <2>1 DEF ReturnReader, pool, queue, state, workers, reader
  <1>5. CASE Read
    <2>1. DOMAIN bufs' = DOMAIN bufs
      BY <1>5 DEF Read
    <2>2. Len(bufs') = Len(bufs)
      BY <1>5, <2>1, TypeStep DEF Next, Caller, Consume, TypeOK
    <2>3. QED
      BY <1>5, <2>2 DEF Read, pool, state, workers
  <1>6. CASE ReadCancelled
    BY <1>6 DEF ReadCancelled, pool, queue, state, workers, reader
  <1>7. CASE ReadEOF
    BY <1>7 DEF ReadEOF, pool, queue, state, workers, reader
  <1>8. CASE NextBuf
    <2>1. Len(bufs) \in Nat /\ Len(bufs) > 0 /\ rPos + 1 \in Nat
      BY <1>8 DEF NextBuf, TypeOK
    <2>2. (rPos + 1) % Len(bufs) \in Nat /\ (rPos + 1) % Len(bufs) < Len(bufs)
      BY <2>1, DivMod
    <2>3. curBuf' \in 1..Len(bufs)
      BY <1>8, <2>1, <2>2 DEF NextBuf, BufIndex
    <2>4. QED
      BY <1>8, <2>3 DEF NextBuf, pool, queue, state, workers
  <1>9. CASE CloseCheck
    BY <1>9 DEF CloseCheck, pool, queue, state, workers, reader
  <1>10. CASE CloseSetErr
    BY <1>10 DEF CloseSetErr, pool, queue, state, workers, reader
  <1>11. CASE CloseCancel
    BY <1>11 DEF CloseCancel, pool, queue, state, workers, reader
  <1>12. CASE CloseChannel
    BY <1>12 DEF CloseChannel, pool, queue, state, workers, reader
  <1>13. CASE CloseBufs
    BY <1>13 DEF CloseBufs, pool, queue, state, workers, reader
  <1>14. CASE CloseNegate
    <2>1. concurrency' \in Int /\ concurrency' <= 0
      <3>1. concurrency \in Int
        BY DEF TypeOK
      <3>2. QED
        BY <1>14, <3>1 DEF CloseNegate, Stopped
    <2>2. QED
      BY <1>14, <2>1 DEF CloseNegate, TypeOK, pool, state, workers, reader
  <1>15. CASE CloseSingle
    BY <1>15 DEF CloseSingle, pool, queue, state, workers, reader
  <1>16. CASE KeeperExit
    BY <1>16 DEF KeeperExit, ConcurrencyFinish, pool, queue, state, workers, reader
  <1>17. CASE ParentCancel
    BY <1>17 DEF ParentCancel, pool, queue, state, workers, reader
  <1>18. CASE OthersTake
    BY <1>18 DEF OthersTake, pool, queue, state, workers, reader
  <1>19. CASE OthersReturn
    BY <1>19 DEF OthersReturn, pool, queue, state, workers, reader
  <1>20. QED
    BY <1>1, <1>2, <1>3, <1>4, <1>5, <1>6, <1>7, <1>8, <1>9, <1>10, <1>11, <1>12, <1>13, <1>14, <1>15, <1>16, <1>17, <1>18, <1>19 DEF QuietStep, Interrupt, Close

\* Every step keeps the shape.
LEMMA ShapeStep ==
  ASSUME TypeOK, Shape, [Next]_vars
  PROVE  Shape'
  <1>1. CASE UNCHANGED vars
    BY <1>1 DEF vars, pool, queue, state, workers, reader, Shape, Untouched, BudgetUnborn,
      LiveAfterChunk, ReaderInBuf, FirstBuf
  <1>2. ASSUME NEW w \in Workers, Worker(w) PROVE Shape'
    <2>1. CASE SpawnNext(w)
      BY <2>1, SpawnNextShape
    <2>2. CASE OtherWorkerStep(w)
      BY <2>2, WorkerEffects, WorkerShape
    <2>3. QED
      BY <1>2, <2>1, <2>2 DEF Worker, Copy, OtherWorkerStep
  <1>3. CASE StartParts
    BY <1>3, StartPartsShape
  <1>4. CASE FinishBuf
    BY <1>4, FinishBufShape
  <1>5. CASE QuietStep
    BY <1>5, QuietShape
  <1>6. QED
    BY <1>1, <1>2, <1>3, <1>4, <1>5
      DEF Next, Caller, Open, Consume, QuietStep

\* The initial state has the types and the shape.
LEMMA InitShape ==
  ASSUME Init
  PROVE  TypeOK /\ Shape
  <1>1. TypeOK
    <2>1. limit \in Nat /\ others \in Nat /\ nextChunk \in Nat /\ pos \in Nat /\ written \in Nat
          /\ readingID \in Nat /\ rPos \in Nat /\ curBuf \in Nat
      BY ConfigAssumption DEF Init
    <2>2. concurrency \in Int /\ concurrency <= Concurrency
      BY ConcurrencyType DEF Init
    <2>3. chunkChannel \in Seq(Chunk) /\ bufs \in Seq(Buf) /\ out \in Seq(Nat)
      BY DEF Init
    <2>4. NoChunk \in Chunk
      BY DEF Chunk, NoChunk
    <2>5. ch \in [Workers -> Chunk]
      BY <2>4 DEF Init
    <2>6. pc \in [Workers -> PcValues] /\ res \in [Workers -> Outcomes]
      BY DEF Init, PcValues, Outcomes
    <2>7. retry \in [Workers -> Nat] /\ n \in [Workers -> Nat]
          /\ body \in [Workers -> [next : Nat, end : Int]]
      BY DEF Init
    <2>8. chClosed \in BOOLEAN /\ err \in {"nil", "interrupted", "failed"} /\ ctxDone \in BOOLEAN
          /\ keeper \in BOOLEAN /\ m2 \in Workers \cup {0} /\ rpc \in RpcValues /\ crash \in Panics
      BY DEF Init, RpcValues, Panics
    <2>9. QED
      BY <2>1, <2>2, <2>3, <2>5, <2>6, <2>7, <2>8 DEF TypeOK
  <1>2. Shape
    BY ConcurrencyType DEF Init, Shape, Untouched, BudgetUnborn, LiveAfterChunk, ReaderInBuf,
      FirstBuf, Workers
  <1>3. QED
    BY <1>1, <1>2

\* In every reachable state every variable of the downloader has its type: no
\* counter of the limit goes below zero, no position leaves the naturals, and the
\* buffer ring and the chunk channel hold nothing but buffers and chunks.
THEOREM Typing == Spec => [](TypeOK /\ Shape)
  <1>1. Init => TypeOK /\ Shape
    BY InitShape
  <1>2. TypeOK /\ Shape /\ [Next]_vars => (TypeOK /\ Shape)'
    BY TypeStep, ShapeStep
  <1>3. QED
    BY <1>1, <1>2, PTL DEF Spec

-----------------------------------------------------------------------------
(***************************************************************************)
(* The slots.  A goroutine holds one from its start to its exit; the sum of *)
(* free and held slots never changes.                                      *)
(***************************************************************************)
\* The number of live workers is a natural number.
LEMMA LiveFinite == IsFiniteSet(LiveWorkers) /\ Cardinality(LiveWorkers) \in Nat
  <1>1. IsFiniteSet(Workers)
    BY ConcurrencyType, FS_Interval DEF Workers
  <1>2. IsFiniteSet(LiveWorkers)
    BY <1>1, FS_Subset DEF LiveWorkers
  <1>3. QED
    BY <1>2, FS_CardinalityType

\* And so it is after a step.
LEMMA LiveFiniteNext == IsFiniteSet(LiveWorkers') /\ Cardinality(LiveWorkers') \in Nat
  <1>1. IsFiniteSet(Workers)
    BY ConcurrencyType, FS_Interval DEF Workers
  <1>2. IsFiniteSet(LiveWorkers')
    BY <1>1, FS_Subset DEF LiveWorkers
  <1>3. QED
    BY <1>2, FS_CardinalityType

\* A worker keeps its slot while it lives and gives it back when it leaves.
LEMMA WorkerSlots ==
  ASSUME TypeOK, NEW w \in Workers, WorkerEffect(w), SlotsConserved
  PROVE  SlotsConserved'
  <1>1. limit \in Nat /\ others \in Nat /\ others' = others /\ keeper' = keeper
        /\ w \in LiveWorkers
    BY DEF TypeOK, WorkerEffect, LiveWorkers
  <1>2. CASE pc'[w] \notin {"unborn", "exited"} /\ limit' = limit
    <2>1. LiveWorkers' = LiveWorkers
      BY <1>2 DEF LiveWorkers, Live, WorkerEffect
    <2>2. QED
      BY <1>1, <1>2, <2>1 DEF SlotsConserved
  <1>3. CASE pc'[w] = "exited" /\ limit' = limit + 1
    <2>1. LiveWorkers' = LiveWorkers \ {w}
      BY <1>3 DEF LiveWorkers, Live, WorkerEffect
    <2>2. Cardinality(LiveWorkers') = Cardinality(LiveWorkers) - 1
      BY <1>1, <2>1, LiveFinite, FS_RemoveElement
    <2>3. QED
      BY <1>1, <1>3, <2>2, LiveFinite DEF SlotsConserved
  <1>4. QED
    BY <1>2, <1>3 DEF WorkerEffect

\* A goroutine that a section starts is one more that holds a slot.
LEMMA SendSlots ==
  ASSUME TypeOK, Shape, MayGrow, NEW pcs \in [Workers -> PcValues],
         \A v \in Workers : pcs[v] \in {"unborn", "exited"} <=> ~Live(v),
         pc' = [pcs EXCEPT ![NextWorker] = "recv"]
  PROVE  Cardinality(LiveWorkers') = Cardinality(LiveWorkers) + 1
  <1>1. concurrency \in Int /\ concurrency > 0 /\ concurrency <= Concurrency
        /\ Concurrency \in Nat
    BY ConcurrencyType DEF MayGrow, TypeOK
  <1>2. NextWorker \in Workers /\ NextWorker > Concurrency - concurrency
    BY <1>1 DEF NextWorker, Workers
  <1>3. pc[NextWorker] = "unborn"
    BY <1>1, <1>2 DEF Shape, BudgetUnborn
  <1>4. LiveWorkers' = LiveWorkers \cup {NextWorker} /\ NextWorker \notin LiveWorkers
    BY <1>2, <1>3 DEF LiveWorkers, Live
  <1>5. QED
    BY <1>4, LiveFinite, FS_AddElement

\* The worker that starts another one takes a slot for it, or starts none.
LEMMA SpawnSlots ==
  ASSUME TypeOK, Shape, SlotsConserved, NEW w \in Workers, SpawnNext(w)
  PROVE  SlotsConserved'
  <1> DEFINE pcs == [pc EXCEPT ![w] = "copy"]
  <1>1. pc[w] = "spawn" /\ limit \in Nat /\ others \in Nat /\ nextChunk > 0
    BY DEF SpawnNext, WorkerStep, TypeOK, Shape, LiveAfterChunk
  <1>2. pcs \in [Workers -> PcValues]
        /\ \A v \in Workers : pcs[v] \in {"unborn", "exited"} <=> ~Live(v)
    BY <1>1 DEF TypeOK, PcValues, Live
  <1>3. others' = others /\ keeper' = keeper /\ SendChunkTask(TRUE, limit, pcs)
    BY DEF SpawnNext, elsewhere
  <1>4. SendEffect(TRUE, limit, pcs)
    BY <1>3, SendEffects
  <1>5. CASE pc' = pcs /\ limit' = limit
    <2>1. LiveWorkers' = LiveWorkers
      BY <1>2, <1>5 DEF LiveWorkers, Live
    <2>2. QED
      BY <1>3, <1>5, <2>1 DEF SlotsConserved
  <1>6. CASE MayGrow /\ pc' = [pcs EXCEPT ![NextWorker] = "recv"] /\ limit' = limit - 1
    <2>1. Cardinality(LiveWorkers') = Cardinality(LiveWorkers) + 1
      BY <1>2, <1>6, SendSlots
    <2>2. QED
      BY <1>1, <1>3, <1>6, <2>1, LiveFinite DEF SlotsConserved
  <1>7. QED
    BY <1>1, <1>4, <1>5, <1>6 DEF SendEffect

\* The first worker holds the slot that the start of the download took.
LEMMA StartSlots ==
  ASSUME TypeOK, Shape, SlotsConserved, Length > 0, StartParts
  PROVE  SlotsConserved'
  <1>1. /\ nextChunk = 0 /\ concurrency = Concurrency /\ Concurrency > 0
        /\ limit \in Nat /\ others \in Nat /\ Concurrency \in Nat
    BY ConcurrencyType DEF StartParts, Shape, Untouched, TypeOK
  <1>2. MayGrow /\ ~(nextChunk > 0)
    BY <1>1 DEF MayGrow
  <1>3. SendChunkTask(TRUE, limit - 1, pc) /\ others' = others /\ keeper' = keeper
    BY DEF StartParts
  <1>4. pc' = [pc EXCEPT ![NextWorker] = "recv"] /\ limit' = limit - 1
    BY <1>2, <1>3 DEF SendChunkTask
  <1>5. Cardinality(LiveWorkers') = Cardinality(LiveWorkers) + 1
    <2>1. pc \in [Workers -> PcValues]
          /\ \A v \in Workers : pc[v] \in {"unborn", "exited"} <=> ~Live(v)
      BY DEF TypeOK, Live
    <2>2. QED
      BY <1>2, <1>4, <2>1, SendSlots
  <1>6. QED
    BY <1>1, <1>3, <1>4, <1>5, LiveFinite DEF SlotsConserved

\* Everything else moves slots between the limit, the keeper and other downloads.
LEMMA QuietSlots ==
  ASSUME TypeOK, Shape, SlotsConserved, QuietStep
  PROVE  SlotsConserved'
  <1>1. LiveWorkers' = LiveWorkers
    BY QuietShape DEF LiveWorkers, Live
  <1>2. limit \in Nat /\ others \in Nat /\ Cardinality(LiveWorkers) \in Nat
    BY LiveFinite DEF TypeOK
  <1>3. CASE StartSingle
    <2>1. ~keeper /\ keeper' /\ limit' = limit - 1 /\ others' = others
      BY <1>3 DEF StartSingle, Shape, Untouched
    <2>2. QED
      BY <1>1, <1>2, <2>1 DEF SlotsConserved
  <1>4. CASE KeeperExit
    <2>1. keeper /\ ~keeper' /\ limit' = limit + 1 /\ others' = others
      BY <1>4 DEF KeeperExit, ConcurrencyFinish
    <2>2. QED
      BY <1>1, <1>2, <2>1 DEF SlotsConserved
  <1>5. CASE OthersTake \/ OthersReturn
    <2>1. limit' + others' = limit + others /\ keeper' = keeper
      BY <1>2, <1>5 DEF OthersTake, OthersReturn
    <2>2. limit' \in Int /\ others' \in Int
      BY <1>2, <1>5 DEF OthersTake, OthersReturn
    <2>3. QED
      BY <1>1, <1>2, <2>1, <2>2 DEF SlotsConserved
  <1>6. CASE UNCHANGED pool
    BY <1>1, <1>6 DEF SlotsConserved, pool
  <1>7. UNCHANGED pool \/ StartSingle \/ KeeperExit \/ OthersTake \/ OthersReturn
    BY DEF QuietStep, Interrupt, Close, Refuse, SingleAnswer, ReturnReader, Read, ReadCancelled,
      ReadEOF, NextBuf, CloseSetErr, CloseCancel, CloseChannel, CloseBufs, CloseNegate,
      CloseCheck, CloseSingle, ParentCancel
  <1>8. QED
    BY <1>3, <1>4, <1>5, <1>6, <1>7

\* Every step keeps the sum.
LEMMA SlotsStep ==
  ASSUME TypeOK, Shape, SlotsConserved, Length > 0, [Next]_vars
  PROVE  SlotsConserved'
  <1>1. CASE UNCHANGED vars
    <2>1. UNCHANGED <<pool, pc>>
      BY <1>1 DEF vars, workers
    <2>2. LiveWorkers' = LiveWorkers
      BY <2>1 DEF LiveWorkers, Live
    <2>3. QED
      BY <2>1, <2>2 DEF SlotsConserved, pool
  <1>2. ASSUME NEW w \in Workers, Worker(w) PROVE SlotsConserved'
    <2>1. CASE SpawnNext(w)
      BY <2>1, SpawnSlots
    <2>2. CASE OtherWorkerStep(w)
      BY <2>2, WorkerEffects, WorkerSlots
    <2>3. QED
      BY <1>2, <2>1, <2>2 DEF Worker, Copy, OtherWorkerStep
  <1>3. CASE StartParts
    BY <1>3, StartSlots
  <1>4. CASE FinishBuf
    <2>1. pc' = pc /\ limit' = limit /\ others' = others /\ keeper' = keeper
      BY <1>4, FinishBufShape DEF FinishBuf
    <2>2. LiveWorkers' = LiveWorkers
      BY <2>1 DEF LiveWorkers, Live
    <2>3. QED
      BY <2>1, <2>2 DEF SlotsConserved
  <1>5. CASE QuietStep
    BY <1>5, QuietSlots
  <1>6. QED
    BY <1>1, <1>2, <1>3, <1>4, <1>5
      DEF Next, Caller, Open, Consume, QuietStep

\* The slots of the process-wide limit are conserved: whatever the source
\* answers, however often chunks are retried or handed back, wherever the reader
\* is closed, every slot taken is held by a live goroutine that returns it when it
\* leaves (concurrencyCheck, concurrencyFinish, downloadPart).  An empty range is
\* excluded: there download() takes a slot for a worker it never starts.
THEOREM SlotsHeld ==
  ASSUME Length > 0
  PROVE  Spec => []SlotsConserved
  <1>1. Init => SlotsConserved
    <2>1. ASSUME Init PROVE LiveWorkers = {}
      BY <2>1 DEF Init, LiveWorkers, Live
    <2>2. ASSUME Init PROVE SlotsConserved
      <3>1. Cardinality(LiveWorkers) = 0
        BY <2>1, <2>2, FS_EmptySet
      <3>2. limit = Slots /\ others = 0 /\ ~keeper /\ Slots \in Nat
        BY <2>2, ConfigAssumption DEF Init
      <3>3. QED
        BY <3>1, <3>2 DEF SlotsConserved
    <2>3. QED
      BY <2>2
  <1>2. TypeOK /\ Shape /\ SlotsConserved /\ [Next]_vars => SlotsConserved'
    BY SlotsStep
  <1>3. QED
    BY <1>1, <1>2, Typing, PTL DEF Spec

-----------------------------------------------------------------------------
(* Pieces of the range, and buffers by their number modulo the ring.        *)

\* A piece of the range is a sequence of the length asked for.
LEMMA BytesType ==
  ASSUME NEW a \in Nat, NEW k \in Nat
  PROVE  /\ Bytes(a, k) \in Seq(Nat) /\ Len(Bytes(a, k)) = k
         /\ \A i \in 1..k : Bytes(a, k)[i] = a + i - 1
  BY DEF Bytes

\* Two adjacent pieces make one.
LEMMA BytesJoin ==
  ASSUME NEW a \in Nat, NEW j \in Nat, NEW k \in Nat
  PROVE  Bytes(a, j) \o Bytes(a + j, k) = Bytes(a, j + k)
  <1> DEFINE s == Bytes(a, j)
             t == Bytes(a + j, k)
  <1>1. /\ s \in Seq(Nat) /\ Len(s) = j /\ \A i \in 1..j : s[i] = a + i - 1
        /\ t \in Seq(Nat) /\ Len(t) = k /\ \A i \in 1..k : t[i] = (a + j) + i - 1
    <2>1. a + j \in Nat
      OBVIOUS
    <2>2. QED
      BY <2>1, BytesType
  <1> HIDE DEF s, t
  <1> DEFINE u == s \o t
  <1>2. /\ u \in Seq(Nat) /\ Len(u) = j + k
        /\ \A i \in 1..(j + k) : u[i] = IF i <= j THEN s[i] ELSE t[i - j]
    BY <1>1, SeqFacts!ConcatProperties
  <1> HIDE DEF u
  <1>3. ASSUME NEW i \in 1..(j + k) PROVE u[i] = a + i - 1
    <2>1. CASE i <= j
      BY <1>1, <1>2, <2>1
    <2>2. CASE i > j
      <3>1. i - j \in 1..k
        BY <2>2
      <3>2. QED
        BY <1>1, <1>2, <2>2, <3>1
    <2>3. QED
      BY <2>1, <2>2
  <1>4. u = [i \in 1..(j + k) |-> u[i]]
    BY <1>2
  <1>5. QED
    BY <1>3, <1>4 DEF Bytes, s, t, u

\* The front of a piece, and the rest of it.
LEMMA BytesCut ==
  ASSUME NEW a \in Nat, NEW m \in Nat, NEW k \in 0..m
  PROVE  /\ SubSeq(Bytes(a, m), 1, k) = Bytes(a, k)
         /\ SubSeq(Bytes(a, m), k + 1, m) = Bytes(a + k, m - k)
  <1> DEFINE s == Bytes(a, m)
  <1>1. s \in Seq(Nat) /\ Len(s) = m /\ \A i \in 1..m : s[i] = a + i - 1
    BY BytesType
  <1> HIDE DEF s
  <1>2. SubSeq(s, 1, k) = [i \in 1..k |-> s[i]]
    BY <1>1
  <1>3. SubSeq(s, k + 1, m) = [i \in 1..(m - k) |-> s[k + i]]
    BY <1>1
  <1>4. \A i \in 1..k : s[i] = a + i - 1
    BY <1>1
  <1>5. \A i \in 1..(m - k) : s[k + i] = (a + k) + i - 1
    <2>1. TAKE i \in 1..(m - k)
    <2>2. k + i \in 1..m
      OBVIOUS
    <2>3. QED
      BY <1>1, <2>2
  <1>6. QED
    BY <1>2, <1>3, <1>4, <1>5 DEF Bytes, s

\* A number has a buffer of the ring, and two numbers closer than the ring is long
\* never have the same one.
LEMMA RingIndex ==
  ASSUME NEW bs, Len(bs) \in Nat \ {0}, NEW j \in Nat
  PROVE  /\ BufIndex(j, bs) \in 1..Len(bs)
         /\ j < Len(bs) => BufIndex(j, bs) = j + 1
  <1> DEFINE l == Len(bs)
  <1>1. /\ j \div l \in Nat /\ j % l \in Nat /\ j % l < l
        /\ j = (l * (j \div l)) + (j % l)
    BY DivMod
  <1>2. j < l => j % l = j
    OBVIOUS
  <1>3. QED
    BY <1>1, <1>2 DEF BufIndex

\* (See RingIndex.)
LEMMA RingApart ==
  ASSUME NEW bs, Len(bs) \in Nat \ {0}, NEW j \in Nat, NEW k \in Nat,
         j < k, k < j + Len(bs)
  PROVE  BufIndex(j, bs) # BufIndex(k, bs)
  <1> DEFINE l == Len(bs)
             p == j \div l
             q == k \div l
  <1>1. p \in Nat /\ j % l \in Nat /\ j = (l * p) + (j % l) /\ j % l < l
    BY DivMod
  <1>2. q \in Nat /\ k % l \in Nat /\ k = (l * q) + (k % l) /\ k % l < l
    BY DivMod
  <1>3. ASSUME j % l = k % l PROVE FALSE
    <2>1. (l * q) - (l * p) = k - j
      BY <1>1, <1>2, <1>3
    <2>2. l * (q - p) = (l * q) - (l * p)
      BY <1>1, <1>2
    <2>3. CASE q <= p
      <3>1. q - p \in Int /\ q - p <= 0
        BY <1>1, <1>2, <2>3
      <3>2. l * (q - p) <= 0
        BY <3>1
      <3>3. QED
        BY <2>1, <2>2, <3>2
    <2>4. CASE q > p
      <3>1. (q - p) - 1 \in Nat
        BY <1>1, <1>2, <2>4
      <3>2. l * ((q - p) - 1) >= 0
        BY <3>1
      <3>3. l * ((q - p) - 1) = (l * (q - p)) - l
        BY <1>1, <1>2
      <3>4. QED
        BY <2>1, <2>2, <3>2, <3>3
    <2>5. QED
      BY <1>1, <1>2, <2>3, <2>4
  <1>4. QED
    BY <1>3, <1>1, <1>2 DEF BufIndex

-----------------------------------------------------------------------------
(* The plan (ChunkPlan), for a download of several parts.                   *)

\* Where chunk k begins, how long it is, and the buffer it goes through.
Start(k) == ChunkStart(k, Length, PartSize)
Size(k) == FinalSize(k, Length, PartSize)
RingBuf(k) == bufs[BufIndex(k, bufs)]

\* Several workers mean several parts.
LEMMA SeveralParts == Concurrency >= 2 => Parts >= 2
  BY ConcurrencyType, ConfigAssumption DEF Concurrency

\* The chunks of the plan follow each other and end where the range ends.
LEMMA PlanTiles ==
  ASSUME Parts >= 2, NEW k \in Nat, k < Parts
  PROVE  /\ Start(k) \in Nat /\ Start(k + 1) \in Nat /\ Size(k) \in 1..PartSize
         /\ Start(k + 1) = Start(k) + Size(k)
         /\ Start(k) < Length /\ Start(k + 1) <= Length
  <1>1. Length \in Nat /\ PartSize \in Nat /\ PartSize > 0 /\ Parts \in Nat
    BY SizeAssumption, ConcurrencyType
  <1>2. k \in 0..Parts /\ k + 1 \in 0..Parts
    BY <1>1
  <1>3. /\ Start(k) \in 0..Length /\ Start(k) < Length
        /\ Start(k + 1) = Start(k) + Size(k)
    BY <1>1, <1>2, ChunksTileRange DEF Parts, Start, Size
  <1>4. Start(k + 1) \in 0..Length
    BY <1>1, <1>2, ChunksTileRange DEF Parts, Start
  <1>5. Size(k) \in 1..PartSize
    BY <1>1, FinalSizeBounds DEF Size
  <1>6. QED
    BY <1>1, <1>3, <1>4, <1>5

\* The plan begins at the first byte and ends after the last one.
LEMMA PlanEnds ==
  /\ Start(0) = 0
  /\ Parts >= 2 => Start(Parts) = Length
  <1>1. Length \in Nat /\ PartSize \in Nat /\ PartSize > 0 /\ Parts \in Nat
    BY SizeAssumption, ConcurrencyType
  <1>2. Start(0) = 0
    BY DEF Start, ChunkStart
  <1>3. ASSUME Parts >= 2 PROVE Start(Parts) = Length
    <2>1. Parts \in 0..Parts
      BY <1>1
    <2>2. QED
      BY <1>1, <1>3, <2>1, ChunksTileRange DEF Parts, Start
  <1>4. QED
    BY <1>2, <1>3

(***************************************************************************)
(* The invariant.                                                          *)
(***************************************************************************)
\* The chunk the reader is in, or moves to.
Cur == rPos + (IF rpc = "finish" THEN 1 ELSE 0)

\* Close has not yet dropped the buffers.
Intact == rpc \notin {"negate", "closed"}

\* What has been handed out is a prefix of the plan.
PlanInv ==
  /\ nextChunk <= Parts /\ pos = Start(nextChunk)
  /\ nextChunk > 0 => Concurrency >= 2

\* The ring: the chunks from the one being read to the last one handed out have a
\* buffer each; while the budget lasts there is a buffer for every chunk.
RingInv ==
  /\ bufs = <<>> <=> nextChunk = 0
  /\ nextChunk = 0 => Cur = 0
  /\ nextChunk > 0 => Cur < nextChunk /\ curBuf = BufIndex(rPos, bufs)
  /\ nextChunk <= Len(bufs) + Cur
  /\ concurrency > 0 =>
       nextChunk <= Len(bufs) /\ (pos < Length => nextChunk = Len(bufs))

\* The budget: every chunk handed out came with a worker or with a chunk read.
BudgetInv ==
  /\ nextChunk <= Concurrency + Cur
  /\ concurrency > 0 => nextChunk <= (Concurrency - concurrency) + Cur

\* A buffer of the window holds the bytes of its chunk, from where the reader is
\* to where its worker is.
BufOK(k) ==
  LET b == RingBuf(k)
  IN /\ ~b.closed /\ b.size = Size(k)
     /\ b.data = Bytes(Start(k) + b.off, Len(b.data))
     /\ b.off + Len(b.data) <= b.size
     /\ k # rPos => b.off = 0
DataInv ==
  /\ InOrder
  /\ nextChunk = 0 => out = <<>>
  /\ Intact => \A k \in Cur..(nextChunk - 1) : BufOK(k)
  /\ Intact /\ nextChunk > 0 => Len(out) = Start(Cur) + RingBuf(Cur).off

\* A chunk that is queued or fetched: its buffer, and that it ends where the plan
\* says; if k bytes of it have come and some are missing, it is not behind the
\* reader and its buffer is filled up to the byte that is fetched next.
ChunkOK(c) ==
  /\ c.id < nextChunk /\ c.buf = BufIndex(c.id, bufs)
  /\ c.size >= 0 /\ c.start + c.size = Start(c.id) + Size(c.id)
Ahead(c, k) ==
  /\ c.id >= Cur
  /\ Intact => Start(c.id) + RingBuf(c.id).off + Len(RingBuf(c.id).data) = c.start + k

QueueInv ==
  \A i \in 1..Len(chunkChannel) :
    /\ ChunkOK(chunkChannel[i])
    /\ chunkChannel[i].size > 0 => Ahead(chunkChannel[i], 0)

\* A worker answers for its chunk from Receive until it is done with it or has
\* handed it back.
Holds(w) ==
  \/ pc[w] \in {"check", "loop", "http", "wait", "spawn", "copy", "write"}
  \/ pc[w] = "judge" /\ res[w] # "revoked"
Got(w) == IF pc[w] \in {"check", "loop"} THEN 0 ELSE n[w]
Owes(w) == Holds(w) /\ ch[w].size > Got(w)

\* At a request nothing of the chunk has come; the body that is copied brings what
\* is missing of it.
BodyOK(w) ==
  /\ pc[w] \in {"http", "wait", "spawn"} => n[w] = 0
  /\ pc[w] = "judge" /\ res[w] = "infinite" => n[w] = 0
  /\ pc[w] \in {"spawn", "copy", "write"} =>
       body[w] = [next |-> ch[w].start + n[w], end |-> ch[w].start + ch[w].size]
  /\ pc[w] \in {"spawn", "write"} => ch[w].size > n[w]
WorkerOK(w) ==
  /\ Holds(w) => ChunkOK(ch[w]) /\ Got(w) <= ch[w].size
  /\ Owes(w) => Ahead(ch[w], Got(w))
  /\ BodyOK(w)
WorkerInv == \A w \in Workers : WorkerOK(w)

\* Nobody shares the rest of a chunk.
UniqueInv ==
  /\ \A i, j \in 1..Len(chunkChannel) :
       i # j /\ chunkChannel[i].size > 0 /\ chunkChannel[j].size > 0
         => chunkChannel[i].id # chunkChannel[j].id
  /\ \A i \in 1..Len(chunkChannel), w \in Workers :
       chunkChannel[i].size > 0 /\ Owes(w) => chunkChannel[i].id # ch[w].id
  /\ \A v, w \in Workers : v # w /\ Owes(v) /\ Owes(w) => ch[v].id # ch[w].id

Flow == PlanInv /\ RingInv /\ BudgetInv /\ DataInv /\ QueueInv /\ WorkerInv /\ UniqueInv

\* What the proofs below read from the types.
LEMMA FlowTypes ==
  ASSUME TypeOK
  PROVE  /\ Length \in Nat /\ Parts \in Nat /\ Concurrency \in Nat
         /\ nextChunk \in Nat /\ pos \in Nat /\ rPos \in Nat /\ Cur \in Nat
         /\ Len(bufs) \in Nat /\ concurrency \in Int
         /\ chunkChannel \in Seq(Chunk) /\ Len(chunkChannel) \in Nat
         /\ \A i \in 1..Len(chunkChannel) : chunkChannel[i] \in Chunk
         /\ \A w \in Workers : ch[w] \in Chunk /\ n[w] \in Nat /\ Got(w) \in Nat
         /\ \A i \in 1..Len(bufs) : bufs[i] \in Buf
  <1>1. /\ Length \in Nat /\ Parts \in Nat /\ Concurrency \in Nat
        /\ nextChunk \in Nat /\ pos \in Nat /\ rPos \in Nat /\ concurrency \in Int
    BY SizeAssumption, ConcurrencyType DEF TypeOK
  <1>2. Cur \in Nat
    BY <1>1 DEF Cur
  <1>3. bufs \in Seq(Buf) /\ chunkChannel \in Seq(Chunk)
    BY DEF TypeOK
  <1>4. /\ Len(bufs) \in Nat /\ \A i \in 1..Len(bufs) : bufs[i] \in Buf
        /\ Len(chunkChannel) \in Nat
        /\ \A i \in 1..Len(chunkChannel) : chunkChannel[i] \in Chunk
    BY <1>3
  <1>5. \A w \in Workers : ch[w] \in Chunk /\ n[w] \in Nat /\ Got(w) \in Nat
    BY DEF TypeOK, Got
  <1>6. QED
    BY <1>1, <1>2, <1>3, <1>4, <1>5

\* The chunks from the one being read on have different buffers.
LEMMA Window ==
  ASSUME TypeOK, RingInv, NEW j \in Nat, NEW k \in Nat,
         j >= Cur, k >= Cur, j < nextChunk, k < nextChunk,
         BufIndex(j, bufs) = BufIndex(k, bufs)
  PROVE  j = k
  <1>1. Len(bufs) \in Nat \ {0} /\ nextChunk <= Len(bufs) + Cur /\ Cur \in Nat
        /\ nextChunk \in Nat
    BY FlowTypes DEF RingInv, TypeOK
  <1>2. ~(j < k) /\ ~(k < j)
    BY <1>1, RingApart
  <1>3. QED
    BY <1>2

\* A chunk that was handed out has a buffer of the ring.
LEMMA HasBuffer ==
  ASSUME TypeOK, RingInv, NEW k \in Nat, k < nextChunk
  PROVE  /\ BufIndex(k, bufs) \in 1..Len(bufs) /\ RingBuf(k) \in Buf
         /\ RingBuf(k).off \in Nat /\ RingBuf(k).size \in Nat
         /\ RingBuf(k).data \in Seq(Nat) /\ Len(RingBuf(k).data) \in Nat
  <1>1. Len(bufs) \in Nat \ {0} /\ bufs \in Seq(Buf)
    BY FlowTypes DEF RingInv, TypeOK
  <1>2. BufIndex(k, bufs) \in 1..Len(bufs)
    BY <1>1, RingIndex
  <1>3. RingBuf(k) \in Buf
    BY <1>1, <1>2 DEF RingBuf
  <1>4. QED
    BY <1>2, <1>3 DEF Buf

-----------------------------------------------------------------------------
(* What sendChunkTask does to the plan and the ring.                        *)

\* Nothing is handed out; or the next chunk of the plan is, and it gets a fresh
\* buffer (the panic leaves it out of the channel).
NewChunk(newConcurrency) ==
  [start |-> Start(nextChunk), size |-> Size(nextChunk), id |-> nextChunk,
   buf |-> BufIndex(nextChunk, bufs'), newConcurrency |-> newConcurrency]
NothingSent == UNCHANGED <<nextChunk, pos, chunkChannel>>
ChunkSent(newConcurrency) ==
  /\ pos < Length /\ nextChunk < Parts
  /\ nextChunk' = nextChunk + 1 /\ pos' = Start(nextChunk + 1)
  /\ chunkChannel' \in {chunkChannel, Append(chunkChannel, NewChunk(newConcurrency))}
  /\ bufs'[BufIndex(nextChunk, bufs')] = FreshBuf(Size(nextChunk))

\* The ring grows while the budget lasts, and nothing else of it changes but the
\* buffer of the chunk that is handed out.
RingKept ==
  /\ Len(bufs') \in Nat
  /\ nextChunk' > 0 => Len(bufs') > 0
  /\ \A k \in Nat : k < nextChunk =>
       /\ BufIndex(k, bufs') = BufIndex(k, bufs)
       /\ nextChunk' <= k + Len(bufs') => RingBuf(k)' = RingBuf(k)

HandOut(newConcurrency) ==
  /\ NothingSent \/ ChunkSent(newConcurrency)
  /\ RingKept
  /\ \/ newConcurrency /\ ~MayGrow /\ UNCHANGED <<bufs, concurrency, nextChunk, pos>>
     \/ /\ newConcurrency => MayGrow
        /\ concurrency' = IF newConcurrency THEN concurrency - 1 ELSE concurrency
        /\ Len(bufs') = IF concurrency > 0 THEN Len(bufs) + 1 ELSE Len(bufs)
        /\ pos >= Length \/ nextChunk' = nextChunk + 1

\* BufIndex looks at the length of the ring only.
LEMMA RingLength ==
  ASSUME NEW bs, NEW cs, Len(bs) = Len(cs), NEW k
  PROVE  BufIndex(k, bs) = BufIndex(k, cs)
  BY DEF BufIndex

\* A ring that grows while it holds every chunk keeps the place of each of them.
LEMMA RingGrows ==
  ASSUME TypeOK, RingInv, concurrency > 0, NEW b \in Buf, NEW k \in Nat, k < nextChunk
  PROVE  /\ BufIndex(k, Append(bufs, b)) = BufIndex(k, bufs)
         /\ Append(bufs, b)[BufIndex(k, bufs)] = RingBuf(k)
  <1>1. bufs \in Seq(Buf) /\ Len(bufs) \in Nat /\ nextChunk \in Nat /\ nextChunk <= Len(bufs)
    BY FlowTypes DEF RingInv, TypeOK
  <1>2. Len(Append(bufs, b)) = Len(bufs) + 1
    BY <1>1
  <1>3. BufIndex(k, bufs) = k + 1 /\ BufIndex(k, Append(bufs, b)) = k + 1
    <2>1. Len(bufs) \in Nat \ {0} /\ k < Len(bufs)
      BY <1>1
    <2>2. Len(Append(bufs, b)) \in Nat \ {0} /\ k < Len(Append(bufs, b))
      BY <1>2, <2>1
    <2>3. BufIndex(k, bufs) = k + 1
      BY <2>1, RingIndex
    <2>4. BufIndex(k, Append(bufs, b)) = k + 1
      BY <2>2, RingIndex
    <2>5. QED
      BY <2>3, <2>4
  <1>4. Append(bufs, b)[k + 1] = bufs[k + 1]
    BY <1>1
  <1>5. QED
    BY <1>3, <1>4 DEF RingBuf

\* The position of the plan tells whether a chunk is left.
LEMMA PlanLeft ==
  ASSUME TypeOK, PlanInv, Concurrency >= 2
  PROVE  /\ pos < Length <=> nextChunk < Parts
         /\ pos >= Length <=> nextChunk = Parts
         /\ pos <= Length
  <1>1. nextChunk \in Nat /\ Parts \in Nat /\ Length \in Nat /\ pos \in Nat
        /\ nextChunk <= Parts /\ pos = Start(nextChunk) /\ Parts >= 2
    BY FlowTypes, SeveralParts DEF PlanInv
  <1>2. nextChunk < Parts => pos < Length
    BY <1>1, PlanTiles
  <1>3. nextChunk = Parts => pos = Length
    BY <1>1, PlanEnds
  <1>4. QED
    BY <1>1, <1>2, <1>3

\* sendChunkTask hands out at most the next chunk of the plan.
LEMMA SendHandsOut ==
  ASSUME TypeOK, PlanInv, RingInv, Concurrency >= 2,
         NEW newConcurrency \in BOOLEAN, NEW lim, NEW pcs,
         nextChunk = 0 => concurrency > 0,
         SendChunkTask(newConcurrency, lim, pcs)
  PROVE  HandOut(newConcurrency)
  <1>0. /\ bufs \in Seq(Buf) /\ Len(bufs) \in Nat /\ nextChunk \in Nat /\ concurrency \in Int
        /\ nextChunk > 0 => Len(bufs) > 0
        /\ Parts >= 2 /\ Parts \in Nat /\ PartSize \in Nat /\ Length \in Nat /\ pos \in Nat
        /\ chunkChannel \in Seq(Chunk)
    BY FlowTypes, SeveralParts, SizeAssumption DEF RingInv, TypeOK
  <1>1. CASE newConcurrency /\ ~MayGrow
    <2>1. UNCHANGED queue
      BY <1>1 DEF SendChunkTask
    <2>2. RingKept
      BY <1>0, <2>1 DEF RingKept, RingBuf, queue
    <2>3. QED
      BY <1>1, <2>1, <2>2 DEF HandOut, NothingSent, queue
  <1>2. CASE ~(newConcurrency /\ ~MayGrow)
    <2> DEFINE fresh == FreshBuf(PartSize)
               grown == IF concurrency > 0 THEN Append(bufs, fresh) ELSE bufs
               buf == IF concurrency > 0 THEN Len(bufs) + 1 ELSE BufIndex(nextChunk, bufs)
               refilled == [grown EXCEPT ![buf] = FreshBuf(Size(nextChunk))]
               chunk == [start |-> pos, size |-> Size(nextChunk), id |-> nextChunk,
                         buf |-> buf, newConcurrency |-> newConcurrency]
    <2>1. concurrency' = IF newConcurrency THEN concurrency - 1 ELSE concurrency
      BY <1>2 DEF SendChunkTask
    <2>2. pos < Length =>
            /\ bufs' = refilled /\ pos' = pos + Size(nextChunk) /\ nextChunk' = nextChunk + 1
            /\ chunkChannel' \in {chunkChannel, Append(chunkChannel, chunk)}
      BY <1>2 DEF SendChunkTask, Size
    <2>3. ~(pos < Length) => bufs' = grown /\ NothingSent
      BY <1>2 DEF SendChunkTask, NothingSent
    <2>4. fresh \in Buf
      BY <1>0, FreshBufType DEF fresh
    <2> HIDE DEF fresh
    <2>5. grown \in Seq(Buf) /\ Len(grown) = IF concurrency > 0 THEN Len(bufs) + 1 ELSE Len(bufs)
      BY <1>0, <2>4
    <2>6. \A k \in Nat : k < nextChunk =>
            BufIndex(k, grown) = BufIndex(k, bufs) /\ grown[BufIndex(k, bufs)] = RingBuf(k)
      BY <2>4, RingGrows DEF RingBuf
    <2>7. Len(grown) \in Nat \ {0}
      BY <1>0, <2>5
    <2>8. CASE ~(pos < Length)
      <3> HIDE DEF grown
      <3>1. RingKept
        BY <1>0, <2>3, <2>6, <2>7, <2>8 DEF RingKept, RingBuf, NothingSent
      <3>2. QED
        BY <1>0, <1>2, <2>1, <2>3, <2>5, <2>8, <3>1 DEF HandOut
    <2>9. CASE pos < Length
      <3>1. nextChunk < Parts /\ pos = Start(nextChunk) /\ Size(nextChunk) \in Nat
            /\ pos' = Start(nextChunk + 1)
        BY <1>0, <2>2, <2>9, PlanLeft, PlanTiles DEF PlanInv
      <3>2. buf = BufIndex(nextChunk, grown) /\ buf \in 1..Len(grown)
        <4>1. CASE concurrency > 0
          <5>1. nextChunk = Len(bufs) /\ nextChunk < Len(grown)
            BY <1>0, <2>5, <2>9, <4>1 DEF RingInv
          <5>2. BufIndex(nextChunk, grown) = nextChunk + 1
            BY <1>0, <2>7, <5>1, RingIndex
          <5>3. QED
            BY <1>0, <2>5, <4>1, <5>1, <5>2
        <4>2. CASE ~(concurrency > 0)
          <5>1. buf = BufIndex(nextChunk, grown)
            BY <4>2
          <5>2. QED
            BY <1>0, <2>7, <5>1, RingIndex
        <4>3. QED
          BY <4>1, <4>2
      <3>3. FreshBuf(Size(nextChunk)) \in Buf
        BY <3>1, FreshBufType
      <3>4. /\ bufs' \in Seq(Buf) /\ Len(bufs') = Len(grown)
            /\ bufs'[buf] = FreshBuf(Size(nextChunk))
            /\ \A i \in 1..Len(grown) : i # buf => bufs'[i] = grown[i]
        <4> DEFINE e == FreshBuf(Size(nextChunk))
        <4> HIDE DEF grown, buf, e
        <4>0. e \in Buf /\ grown \in Seq(Buf)
          BY <2>5, <3>3 DEF e
        <4>1. bufs' = refilled
          BY <2>2, <2>9
        <4>2. refilled \in Seq(Buf) /\ Len(refilled) = Len(grown)
          <5>1. [grown EXCEPT ![buf] = e] \in Seq(Buf)
                /\ Len([grown EXCEPT ![buf] = e]) = Len(grown)
            BY <4>0, ExceptSeq
          <5>2. QED
            BY <5>1 DEF e
        <4>3. grown \in [1..Len(grown) -> Buf]
          BY <2>5
        <4>4. QED
          BY <3>2, <4>1, <4>2, <4>3
      <3> HIDE DEF grown, refilled
      <3>5. \A k : BufIndex(k, bufs') = BufIndex(k, grown)
        BY <3>4, RingLength
      <3>6. RingKept
        <4>1. SUFFICES ASSUME NEW k \in Nat, k < nextChunk, nextChunk' <= k + Len(bufs')
                       PROVE  RingBuf(k)' = RingBuf(k)
          BY <2>6, <2>7, <3>4, <3>5 DEF RingKept
        <4>2. BufIndex(k, grown) # BufIndex(nextChunk, grown)
          <5>1. nextChunk' = nextChunk + 1
            BY <2>2, <2>9
          <5>2. nextChunk < k + Len(grown)
            BY <1>0, <2>7, <3>4, <4>1, <5>1
          <5>3. QED
            BY <1>0, <2>7, <4>1, <5>2, RingApart
        <4>3. BufIndex(k, grown) \in 1..Len(grown)
          BY <2>7, RingIndex
        <4>4. bufs'[BufIndex(k, grown)] = grown[BufIndex(k, grown)]
          BY <3>2, <3>4, <4>2, <4>3
        <4>5. QED
          BY <2>6, <3>5, <4>1, <4>4 DEF RingBuf
      <3>7. ChunkSent(newConcurrency)
        <4>1. bufs'[BufIndex(nextChunk, bufs')] = FreshBuf(Size(nextChunk))
          BY <3>2, <3>4, <3>5
        <4>2. chunk = NewChunk(newConcurrency)
          BY <3>1, <3>2, <3>5 DEF NewChunk
        <4> HIDE DEF chunk, buf
        <4>3. chunkChannel' \in {chunkChannel, Append(chunkChannel, NewChunk(newConcurrency))}
          BY <2>2, <2>9, <4>2
        <4>4. nextChunk' = nextChunk + 1
          BY <2>2, <2>9
        <4>5. QED
          BY <2>9, <3>1, <4>1, <4>3, <4>4 DEF ChunkSent, RingBuf
      <3>8. QED
        BY <1>2, <2>1, <2>2, <2>5, <2>9, <3>4, <3>6, <3>7 DEF HandOut
    <2>10. QED
      BY <2>8, <2>9
  <1>3. QED
    BY <1>1, <1>2

-----------------------------------------------------------------------------
(***************************************************************************)
(* The steps of a worker.  Most of them move neither a chunk nor a byte:   *)
(* the worker lets its chunk go, or carries it on with what it has of it.  *)
(***************************************************************************)
CarriesChunk(w) ==
  /\ Holds(w) /\ ch'[w].id = ch[w].id /\ ch'[w].buf = ch[w].buf
  /\ ch'[w].start + ch'[w].size = ch[w].start + ch[w].size
  /\ ch'[w].start + Got(w)' = ch[w].start + Got(w)
OthersKept(w) ==
  \A v \in Workers : v # w =>
    /\ pc'[v] = pc[v] /\ ch'[v] = ch[v] /\ n'[v] = n[v] /\ body'[v] = body[v]
    /\ res'[v] = res[v]
Carries(w) ==
  /\ UNCHANGED <<chunkChannel, nextChunk, pos, bufs, rpc, reader>>
  /\ concurrency' = concurrency \/ (concurrency' \in Int /\ concurrency' <= 0)
  /\ OthersKept(w)
  /\ Holds(w)' => CarriesChunk(w)
  /\ BodyOK(w)'

\* The plan, the ring and the reader are as they were.
Frame == UNCHANGED <<nextChunk, pos, bufs, rpc, reader>>

\* Where the plan, the ring and the reader are as they were, so is all that is said of them.
LEMMA FrameKeeps ==
  ASSUME TypeOK, Flow, Frame,
         concurrency' = concurrency \/ (concurrency' \in Int /\ concurrency' <= 0)
  PROVE  /\ PlanInv' /\ RingInv' /\ BudgetInv' /\ DataInv'
         /\ \A c : (ChunkOK(c) => ChunkOK(c)') /\ \A k : Ahead(c, k) => Ahead(c, k)'
  <1> USE DEF Frame, reader
  <1>1. nextChunk' = nextChunk /\ pos' = pos /\ bufs' = bufs /\ rpc' = rpc /\ rPos' = rPos
        /\ curBuf' = curBuf /\ out' = out /\ Cur' = Cur
    BY DEF Cur
  <1>2. PlanInv'
    BY <1>1 DEF Flow, PlanInv
  <1>3. RingInv'
    BY <1>1 DEF Flow, RingInv
  <1>4. BudgetInv'
    BY <1>1 DEF Flow, BudgetInv
  <1>5. DataInv'
    BY <1>1 DEF Flow, DataInv, InOrder, BufOK, RingBuf, Intact
  <1>6. \A c : (ChunkOK(c) => ChunkOK(c)') /\ \A k : Ahead(c, k) => Ahead(c, k)'
    BY <1>1 DEF ChunkOK, Ahead, RingBuf, Intact
  <1>7. QED
    BY <1>2, <1>3, <1>4, <1>5, <1>6

\* A worker that is not moved is as good as it was.
LEMMA OtherWorker ==
  ASSUME TypeOK, Flow, Frame,
         concurrency' = concurrency \/ (concurrency' \in Int /\ concurrency' <= 0),
         NEW w \in Workers, OthersKept(w), NEW v \in Workers, v # w
  PROVE  WorkerOK(v)' /\ (Owes(v)' <=> Owes(v)) /\ ch'[v] = ch[v]
  <1>1. pc'[v] = pc[v] /\ ch'[v] = ch[v] /\ n'[v] = n[v] /\ body'[v] = body[v]
        /\ res'[v] = res[v]
    BY DEF OthersKept
  <1>2. (Holds(v)' <=> Holds(v)) /\ Got(v)' = Got(v) /\ (Owes(v)' <=> Owes(v))
        /\ (BodyOK(v)' <=> BodyOK(v))
    BY <1>1 DEF Holds, Got, Owes, BodyOK
  <1>3. /\ ChunkOK(ch[v]) => ChunkOK(ch[v])'
        /\ Ahead(ch[v], Got(v)) => Ahead(ch[v], Got(v))'
    BY <1>1, <1>2, FrameKeeps DEF ChunkOK, Ahead, RingBuf, Intact
  <1>4. WorkerOK(v)
    BY DEF Flow, WorkerInv
  <1>5. QED
    BY <1>1, <1>2, <1>3, <1>4 DEF WorkerOK

\* A worker that carries its chunk on owes what it owed.
LEMMA CarriedOwes ==
  ASSUME TypeOK, TypeOK', NEW w \in Workers, Holds(w)' => CarriesChunk(w), Owes(w)'
  PROVE  Owes(w)
  <1>1. /\ ch[w] \in Chunk /\ Got(w) \in Nat /\ ch'[w] \in Chunk /\ Got(w)' \in Nat
    BY FlowTypes DEF TypeOK, Got
  <1>2. /\ ch[w].start \in Nat /\ ch[w].size \in Int
        /\ ch'[w].start \in Nat /\ ch'[w].size \in Int
    BY <1>1 DEF Chunk
  <1>3. CarriesChunk(w) /\ ch'[w].size > Got(w)'
    BY DEF Owes
  <1>4. QED
    BY <1>1, <1>2, <1>3 DEF CarriesChunk, Owes

\* What it carries is still what the plan says of it.
LEMMA CarriedOK ==
  ASSUME TypeOK, TypeOK', Flow, NEW w \in Workers, Carries(w)
  PROVE  WorkerOK(w)'
  <1>0. Frame /\ (concurrency' = concurrency \/ (concurrency' \in Int /\ concurrency' <= 0))
    BY DEF Carries, Frame
  <1>1. /\ ch[w] \in Chunk /\ Got(w) \in Nat /\ ch'[w] \in Chunk /\ Got(w)' \in Nat
    BY FlowTypes DEF TypeOK, Got
  <1>2. /\ ch[w].start \in Nat /\ ch[w].size \in Int
        /\ ch'[w].start \in Nat /\ ch'[w].size \in Int
    BY <1>1 DEF Chunk
  <1>3. WorkerOK(w)
    BY DEF Flow, WorkerInv
  <1>4. ASSUME Holds(w)' PROVE ChunkOK(ch[w])' /\ Got(w)' <= ch'[w].size
    <2>1. CarriesChunk(w)
      BY <1>4 DEF Carries
    <2>2. ChunkOK(ch[w]) /\ Got(w) <= ch[w].size
      BY <1>3, <2>1 DEF WorkerOK, CarriesChunk
    <2>3. Got(w)' <= ch'[w].size
      BY <1>1, <1>2, <2>1, <2>2 DEF CarriesChunk
    <2>4. ch'[w].size >= 0
      BY <1>1, <1>2, <2>3
    <2>5. nextChunk' = nextChunk /\ BufIndex(ch'[w].id, bufs') = BufIndex(ch[w].id, bufs)
      BY <2>1 DEF Carries, CarriesChunk
    <2>6. QED
      BY <2>1, <2>2, <2>3, <2>4, <2>5 DEF ChunkOK, CarriesChunk
  <1>5. ASSUME Owes(w)' PROVE Ahead(ch[w], Got(w))'
    <2>1. CarriesChunk(w)
      BY <1>5 DEF Carries, Owes
    <2>2. Ahead(ch[w], Got(w))
      BY <1>3, <1>5, CarriedOwes DEF WorkerOK, Carries
    <2>3. bufs' = bufs /\ rpc' = rpc /\ rPos' = rPos
      BY DEF Carries, reader
    <2>4. QED
      BY <2>1, <2>2, <2>3 DEF Ahead, CarriesChunk, Cur, Intact, RingBuf
  <1>6. QED
    BY <1>4, <1>5 DEF WorkerOK, Carries

\* Such a step keeps the invariant.
LEMMA CarriesFlow ==
  ASSUME TypeOK, TypeOK', Flow, NEW w \in Workers, Carries(w)
  PROVE  Flow'
  <1>0. Frame /\ (concurrency' = concurrency \/ (concurrency' \in Int /\ concurrency' <= 0))
        /\ OthersKept(w) /\ chunkChannel' = chunkChannel
    BY DEF Carries, Frame
  <1>1. PlanInv' /\ RingInv' /\ BudgetInv' /\ DataInv'
    BY <1>0, FrameKeeps
  <1>2. \A v \in Workers : v # w =>
          WorkerOK(v)' /\ (Owes(v)' <=> Owes(v)) /\ ch'[v] = ch[v]
    BY <1>0, OtherWorker
  <1>3. WorkerOK(w)' /\ (Owes(w)' => Owes(w) /\ ch'[w].id = ch[w].id)
    BY CarriedOK, CarriedOwes DEF Carries, CarriesChunk, Owes
  <1>4. WorkerInv'
    BY <1>2, <1>3 DEF WorkerInv
  <1>5. QueueInv'
    <2>1. SUFFICES ASSUME NEW i \in 1..Len(chunkChannel)
                   PROVE  /\ ChunkOK(chunkChannel[i])'
                          /\ chunkChannel[i].size > 0 => Ahead(chunkChannel[i], 0)'
      BY <1>0 DEF QueueInv
    <2>2. /\ ChunkOK(chunkChannel[i])
          /\ chunkChannel[i].size > 0 => Ahead(chunkChannel[i], 0)
      BY DEF Flow, QueueInv
    <2>3. QED
      BY <1>0, <2>2, FrameKeeps DEF ChunkOK, Ahead, RingBuf, Intact
  <1>6. UniqueInv'
    <2>1. \A v \in Workers : Owes(v)' => Owes(v) /\ ch'[v].id = ch[v].id
      BY <1>2, <1>3
    <2>2. UniqueInv
      BY DEF Flow
    <2>3. QED
      BY <1>0, <2>1, <2>2 DEF UniqueInv
  <1>7. QED
    BY <1>1, <1>4, <1>5, <1>6 DEF Flow

\* The steps of a worker that carry its chunk on or let it go.
CarryStep(w) ==
  \/ ReceiveClosed(w) \/ CheckErr(w) \/ RetryLoop(w) \/ AnswerBody(w) \/ AnswerMismatch(w)
  \/ AnswerError(w) \/ LockM2(w) \/ UnlockM2(w) \/ CopyEnd(w) \/ CopyBreak(w) \/ WriteCheck(w)
  \/ Judge(w)
  \/ AnswerOverload(w) /\ chunkChannel' = chunkChannel
  \/ WriteBuf(w) /\ bufs' = bufs /\ crash' # crash

\* They do.
LEMMA CarryEffects ==
  ASSUME TypeOK, TypeOK', NEW w \in Workers, WorkerOK(w), CarryStep(w)
  PROVE  Carries(w)
  <1> USE DEF Carries, OthersKept, CarriesChunk, WorkerOK, BodyOK, Holds, Got, WorkerStep
  <1>0. /\ pc \in [Workers -> PcValues] /\ ch \in [Workers -> Chunk] /\ n \in [Workers -> Nat]
        /\ res \in [Workers -> Outcomes]
        /\ body \in [Workers -> [next : Nat, end : Int]]
        /\ ch[w].start \in Nat /\ ch[w].size \in Int /\ n[w] \in Nat
    BY DEF TypeOK, Chunk
  <1>1. CASE ReceiveClosed(w)
    BY <1>0, <1>1 DEF ReceiveClosed, Exit, elsewhere, queue, task
  <1>2. CASE CheckErr(w)
    BY <1>0, <1>2 DEF CheckErr, Exit, elsewhere, queue, task
  <1>3. CASE RetryLoop(w)
    BY <1>0, <1>3 DEF RetryLoop, elsewhere, queue
  <1>4. CASE AnswerBody(w)
    BY <1>0, <1>4 DEF AnswerBody, elsewhere, queue
  <1>5. CASE AnswerMismatch(w)
    BY <1>0, <1>5 DEF AnswerMismatch, elsewhere, queue, task
  <1>6. CASE AnswerError(w)
    BY <1>0, <1>6 DEF AnswerError, Return, elsewhere, queue
  <1>7. CASE LockM2(w)
    BY <1>0, <1>7 DEF LockM2, elsewhere, queue, task
  <1>8. CASE UnlockM2(w)
    BY <1>0, <1>8 DEF UnlockM2, Return, elsewhere, queue
  <1>9. CASE CopyEnd(w)
    BY <1>0, <1>9 DEF CopyEnd, Return, elsewhere, queue
  <1>10. CASE CopyBreak(w)
    BY <1>0, <1>10 DEF CopyBreak, Return, elsewhere, queue
  <1>11. CASE WriteCheck(w)
    BY <1>0, <1>11 DEF WriteCheck, elsewhere, queue, task
  <1>12. CASE JudgeOk(w)
    BY <1>0, <1>12 DEF JudgeOk, elsewhere, queue, task
  <1>13. CASE JudgeStopped(w)
    BY <1>0, <1>13 DEF JudgeStopped, elsewhere, queue, task
  <1>14. CASE JudgeRetry(w)
    <2>1. /\ ch'[w].id = ch[w].id /\ ch'[w].buf = ch[w].buf
          /\ ch'[w].start = ch[w].start + n[w] /\ ch'[w].size = ch[w].size - n[w]
      BY <1>0, <1>14 DEF JudgeRetry, Missing
    <2>2. pc[w] = "judge" /\ res[w] = "retry" /\ pc'[w] \in {"loop", "fail"}
      BY <1>0, <1>14 DEF JudgeRetry, Judged
    <2>3. QED
      BY <1>0, <1>14, <2>1, <2>2 DEF JudgeRetry, elsewhere, queue
  <1>15. CASE JudgeOther(w)
    BY <1>0, <1>15 DEF JudgeOther, Judged, elsewhere, queue, task
  <1>16. CASE JudgeRevoked(w)
    BY <1>0, <1>16 DEF JudgeRevoked, Judged, Exit, elsewhere, queue, task
  <1>17. CASE SetErr(w)
    BY <1>0, <1>17 DEF SetErr, elsewhere, queue, task
  <1>18. CASE Cancel(w)
    BY <1>0, <1>18 DEF Cancel, elsewhere, queue, task
  <1>19. CASE AnswerOverload(w) /\ chunkChannel' = chunkChannel
    <2>1. concurrency' = concurrency \/ (concurrency' \in Int /\ concurrency' <= 0)
      BY <1>19, WorkerEffects DEF WorkerEffect, OtherWorkerStep, Request
    <2>2. chunkChannel \in Seq(Chunk)
      BY DEF TypeOK
    <2>3. chunkChannel # Append(chunkChannel, ch[w])
      <3>1. Len(Append(chunkChannel, ch[w])) = Len(chunkChannel) + 1 /\ Len(chunkChannel) \in Nat
        BY <2>2
      <3>2. QED
        BY <3>1
    <2>4. /\ pc' \in {pc, [pc EXCEPT ![w] = "wait"], [pc EXCEPT ![w] = "judge"]}
          /\ pc' = [pc EXCEPT ![w] = "judge"] => res' = [res EXCEPT ![w] = "infinite"]
          /\ pc' # [pc EXCEPT ![w] = "judge"] => res' = res
          /\ pc[w] = "http"
      BY <1>0, <1>19, <2>3 DEF AnswerOverload, Return
    <2>5. UNCHANGED <<nextChunk, pos, bufs, rpc, reader, ch, n, body>>
      BY <1>19 DEF AnswerOverload, elsewhere
    <2>6. QED
      BY <1>0, <1>19, <2>1, <2>4, <2>5
  <1>20. CASE WriteBuf(w) /\ bufs' = bufs /\ crash' # crash
    BY <1>0, <1>20 DEF WriteBuf, elsewhere
  <1>21. QED
    BY <1>1, <1>2, <1>3, <1>4, <1>5, <1>6, <1>7, <1>8, <1>9, <1>10, <1>11, <1>12, <1>13, <1>14, <1>15, <1>16, <1>17, <1>18, <1>19, <1>20 DEF CarryStep, Judge

\* A worker that takes the first chunk of the channel answers for it.
LEMMA ReceiveFlow ==
  ASSUME TypeOK, Flow, NEW w \in Workers, Receive(w)
  PROVE  Flow'
  <1> DEFINE c == Head(chunkChannel)
  <1>0. /\ pc \in [Workers -> PcValues] /\ ch \in [Workers -> Chunk]
        /\ chunkChannel \in Seq(Chunk) /\ chunkChannel # <<>> /\ Len(chunkChannel) \in Nat
    BY DEF TypeOK, Receive
  <1>1. Frame /\ concurrency' = concurrency /\ OthersKept(w)
    BY <1>0 DEF Receive, WorkerStep, Frame, OthersKept, elsewhere
  <1>2. /\ pc[w] = "recv" /\ pc'[w] = "check" /\ ch'[w] = c
        /\ chunkChannel' = Tail(chunkChannel)
    BY <1>0 DEF Receive, WorkerStep
  <1>3. /\ 1 \in 1..Len(chunkChannel) /\ c = chunkChannel[1]
        /\ Len(chunkChannel') = Len(chunkChannel) - 1
        /\ \A i \in 1..Len(chunkChannel') :
             i + 1 \in 1..Len(chunkChannel) /\ i + 1 # 1 /\ chunkChannel'[i] = chunkChannel[i + 1]
    BY <1>0, <1>2
  <1> HIDE DEF c
  <1>4. PlanInv' /\ RingInv' /\ BudgetInv' /\ DataInv'
    BY <1>1, FrameKeeps
  <1>5. \A i \in 1..Len(chunkChannel) :
          /\ ChunkOK(chunkChannel[i])
          /\ chunkChannel[i].size > 0 => Ahead(chunkChannel[i], 0)
    BY DEF Flow, QueueInv
  <1>6. QueueInv'
    <2>1. SUFFICES ASSUME NEW i \in 1..Len(chunkChannel')
                   PROVE  /\ ChunkOK(chunkChannel[i])'
                          /\ chunkChannel'[i].size > 0 => Ahead(chunkChannel[i], 0)'
      BY DEF QueueInv
    <2>2. /\ ChunkOK(chunkChannel[i + 1])
          /\ chunkChannel[i + 1].size > 0 => Ahead(chunkChannel[i + 1], 0)
      BY <1>3, <1>5
    <2>3. chunkChannel'[i] = chunkChannel[i + 1]
      BY <1>3
    <2>4. QED
      BY <1>1, <2>2, <2>3, FrameKeeps DEF ChunkOK, Ahead, RingBuf, Intact
  <1>7. \A v \in Workers : v # w =>
          WorkerOK(v)' /\ (Owes(v)' <=> Owes(v)) /\ ch'[v] = ch[v]
    BY <1>1, OtherWorker
  <1>8. Got(w)' = 0 /\ BodyOK(w)' /\ (Owes(w)' <=> c.size > 0)
    BY <1>2 DEF Got, BodyOK, Owes, Holds
  <1>9. WorkerOK(w)'
    <2>1. ChunkOK(c) /\ (c.size > 0 => Ahead(c, 0))
      BY <1>3, <1>5
    <2>2. ChunkOK(ch[w])' /\ (c.size > 0 => Ahead(ch[w], Got(w))')
      BY <1>1, <1>2, <1>8, <2>1, FrameKeeps DEF ChunkOK, Ahead, RingBuf, Intact
    <2>3. Got(w)' <= ch'[w].size
      BY <1>2, <1>8, <2>1 DEF ChunkOK
    <2>4. QED
      BY <1>8, <2>2, <2>3 DEF WorkerOK
  <1>10. UniqueInv'
    <2>1. UniqueInv
      BY DEF Flow
    <2>2. ASSUME NEW i \in 1..Len(chunkChannel'), NEW j \in 1..Len(chunkChannel'), i # j,
                 chunkChannel'[i].size > 0, chunkChannel'[j].size > 0
          PROVE  chunkChannel'[i].id # chunkChannel'[j].id
      <3>1. i + 1 # j + 1
        BY <2>2
      <3>2. QED
        BY <1>3, <2>1, <2>2, <3>1, SMTT(60) DEF UniqueInv
    <2>3. ASSUME NEW i \in 1..Len(chunkChannel'), NEW v \in Workers,
                 chunkChannel'[i].size > 0, Owes(v)'
          PROVE  chunkChannel'[i].id # ch'[v].id
      BY <1>2, <1>3, <1>7, <1>8, <2>1, <2>3 DEF UniqueInv
    <2>4. ASSUME NEW u \in Workers, NEW v \in Workers, u # v, Owes(u)', Owes(v)'
          PROVE  ch'[u].id # ch'[v].id
      BY <1>2, <1>3, <1>7, <1>8, <2>1, <2>4 DEF UniqueInv
    <2>5. QED
      BY <2>2, <2>3, <2>4 DEF UniqueInv
  <1>11. WorkerInv'
    BY <1>7, <1>9 DEF WorkerInv
  <1>12. QED
    BY <1>4, <1>6, <1>10, <1>11 DEF Flow

\* A worker that hands its chunk back, whole, no longer answers for it.
LEMMA HandBackFlow ==
  ASSUME TypeOK, Flow, NEW w \in Workers, AnswerOverload(w),
         chunkChannel' = Append(chunkChannel, ch[w]), pc'[w] = "judge", res'[w] = "revoked"
  PROVE  Flow'
  <1> DEFINE c == ch[w]
             l == Len(chunkChannel)
  <1>0. /\ pc \in [Workers -> PcValues] /\ res \in [Workers -> Outcomes]
        /\ ch \in [Workers -> Chunk]
        /\ chunkChannel \in Seq(Chunk) /\ l \in Nat /\ concurrency \in Int
    BY DEF TypeOK
  <1>1. Frame /\ OthersKept(w) /\ ch' = ch
        /\ (concurrency' = concurrency \/ (concurrency' \in Int /\ concurrency' <= 0))
    <2>1. Frame /\ OthersKept(w) /\ ch' = ch
      BY <1>0 DEF AnswerOverload, Return, WorkerStep, Frame, OthersKept, elsewhere
    <2>2. concurrency' = concurrency \/ (concurrency' \in Int /\ concurrency' <= 0)
      BY WorkerEffects DEF WorkerEffect, OtherWorkerStep, Request
    <2>3. QED
      BY <2>1, <2>2
  <1>2. pc[w] = "http"
    BY DEF AnswerOverload, WorkerStep
  <1>3. /\ Len(chunkChannel') = l + 1 /\ chunkChannel'[l + 1] = c
        /\ \A i \in 1..l : chunkChannel'[i] = chunkChannel[i]
    BY <1>0
  <1> HIDE DEF c, l
  <1>4. PlanInv' /\ RingInv' /\ BudgetInv' /\ DataInv'
    BY <1>1, FrameKeeps
  <1>5. ChunkOK(c) /\ (c.size > 0 => Owes(w) /\ Ahead(c, 0))
    <2>1. WorkerOK(w)
      BY DEF Flow, WorkerInv
    <2>2. n[w] = 0 /\ Got(w) = 0 /\ Holds(w)
      BY <1>2, <2>1 DEF WorkerOK, BodyOK, Got, Holds
    <2>3. QED
      BY <2>1, <2>2 DEF WorkerOK, Owes, c
  <1>6. ASSUME NEW i \in 1..Len(chunkChannel')
        PROVE  i \in 1..l \/ i = l + 1
    BY <1>0, <1>3, <1>6 DEF l
  <1>7. QueueInv'
    <2>1. SUFFICES ASSUME NEW i \in 1..Len(chunkChannel')
                   PROVE  /\ ChunkOK(chunkChannel[i])'
                          /\ chunkChannel'[i].size > 0 => Ahead(chunkChannel[i], 0)'
      BY DEF QueueInv
    <2>2. /\ ChunkOK(chunkChannel'[i])
          /\ chunkChannel'[i].size > 0 => Ahead(chunkChannel'[i], 0)
      <3>1. CASE i \in 1..l
        BY <1>3, <3>1 DEF Flow, QueueInv, l
      <3>2. CASE i = l + 1
        BY <1>3, <1>5, <3>2
      <3>3. QED
        BY <1>6, <3>1, <3>2
    <2>3. QED
      BY <1>1, <2>2, FrameKeeps DEF ChunkOK, Ahead, RingBuf, Intact
  <1>8. \A v \in Workers : v # w =>
          WorkerOK(v)' /\ (Owes(v)' <=> Owes(v)) /\ ch'[v] = ch[v]
    BY <1>1, OtherWorker
  <1>9. ~Holds(w)' /\ ~Owes(w)' /\ BodyOK(w)'
    BY DEF Holds, Owes, BodyOK
  <1>10. WorkerInv'
    BY <1>8, <1>9 DEF WorkerInv, WorkerOK
  <1>11. UniqueInv'
    <2>1. UniqueInv
      BY DEF Flow
    <2>2. ASSUME NEW i \in 1..l, chunkChannel[i].size > 0, c.size > 0
          PROVE  chunkChannel[i].id # c.id
      BY <1>5, <2>1, <2>2 DEF UniqueInv, l, c
    <2>3. ASSUME NEW i \in 1..Len(chunkChannel'), NEW j \in 1..Len(chunkChannel'), i # j,
                 chunkChannel'[i].size > 0, chunkChannel'[j].size > 0
          PROVE  chunkChannel'[i].id # chunkChannel'[j].id
      <3>1. CASE i \in 1..l /\ j \in 1..l
        BY <1>3, <2>1, <2>3, <3>1 DEF UniqueInv, l
      <3>2. CASE i = l + 1 \/ j = l + 1
        BY <1>3, <1>6, <2>2, <2>3, <3>2
      <3>3. QED
        BY <1>6, <3>1, <3>2
    <2>4. ASSUME NEW i \in 1..Len(chunkChannel'), NEW v \in Workers,
                 chunkChannel'[i].size > 0, Owes(v)'
          PROVE  chunkChannel'[i].id # ch'[v].id
      <3>1. v # w /\ Owes(v) /\ ch'[v] = ch[v]
        BY <1>8, <1>9, <2>4
      <3>2. CASE i \in 1..l
        BY <1>3, <2>1, <2>4, <3>1, <3>2 DEF UniqueInv, l
      <3>3. CASE i = l + 1
        BY <1>3, <1>5, <2>1, <2>4, <3>1, <3>3 DEF UniqueInv, c
      <3>4. QED
        BY <1>6, <3>2, <3>3
    <2>5. ASSUME NEW u \in Workers, NEW v \in Workers, u # v, Owes(u)', Owes(v)'
          PROVE  ch'[u].id # ch'[v].id
      BY <1>8, <1>9, <2>1, <2>5 DEF UniqueInv
    <2>6. QED
      BY <2>3, <2>4, <2>5 DEF UniqueInv
  <1>12. QED
    BY <1>4, <1>7, <1>10, <1>11 DEF Flow

\* The fields of a buffer after a piece is written to it.
LEMMA FilledFields ==
  ASSUME NEW b \in Buf, NEW piece \in Seq(Nat)
  PROVE  /\ Filled(b, piece).data = b.data \o piece /\ Filled(b, piece).off = b.off
         /\ Filled(b, piece).size = b.size /\ Filled(b, piece).closed = b.closed
  BY DEF Filled, Buf

\* Where the buffer of one chunk of the window is replaced, the others stay.
LEMMA OneBuffer ==
  ASSUME TypeOK, RingInv, NEW j \in Nat, j >= Cur, j < nextChunk, NEW b \in Buf,
         bufs' = [bufs EXCEPT ![BufIndex(j, bufs)] = b]
  PROVE  /\ Len(bufs') = Len(bufs)
         /\ \A i \in Nat : BufIndex(i, bufs') = BufIndex(i, bufs)
         /\ bufs'[BufIndex(j, bufs')] = b
         /\ \A i \in Nat : i >= Cur /\ i < nextChunk /\ i # j => RingBuf(i)' = RingBuf(i)
  <1>0. bufs \in Seq(Buf) /\ Len(bufs) \in Nat /\ bufs \in [1..Len(bufs) -> Buf]
    BY DEF TypeOK
  <1>1. BufIndex(j, bufs) \in 1..Len(bufs)
    BY HasBuffer
  <1>2. Len(bufs') = Len(bufs)
    BY <1>0, ExceptSeq
  <1>3. \A i \in Nat : BufIndex(i, bufs') = BufIndex(i, bufs)
    BY <1>2, RingLength
  <1>4. bufs'[BufIndex(j, bufs')] = b
    BY <1>0, <1>1, <1>3
  <1>5. ASSUME NEW i \in Nat, i >= Cur, i < nextChunk, i # j
        PROVE  RingBuf(i)' = RingBuf(i)
    <2>1. BufIndex(i, bufs) # BufIndex(j, bufs) /\ BufIndex(i, bufs) \in 1..Len(bufs)
      BY <1>5, Window, HasBuffer
    <2>2. bufs'[BufIndex(i, bufs)] = bufs[BufIndex(i, bufs)]
      BY <1>0, <2>1
    <2>3. QED
      BY <1>3, <2>2 DEF RingBuf
  <1>6. QED
    BY <1>2, <1>3, <1>4, <1>5

\* k more bytes after m of them, in a buffer and in the chunk that fills it.
LEMMA FillStep ==
  ASSUME NEW s \in Nat, NEW o \in Nat, NEW m \in Nat, NEW a \in Nat, NEW j \in Nat,
         NEW k \in Nat, s + o + m = a + j
  PROVE  s + o + (m + k) = a + (j + k)
  OBVIOUS

\* The write of k bytes, as WriteBuf has it.
Writes(w, k) ==
  /\ WriteBuf(w)
  /\ k > 0 /\ k <= body[w].end - body[w].next
  /\ bufs' = [bufs EXCEPT ![ch[w].buf] = Filled(bufs[ch[w].buf], Bytes(body[w].next, k))]
  /\ n' = [n EXCEPT ![w] = n[w] + k]
  /\ body' = [body EXCEPT ![w] = [next |-> body[w].next + k, end |-> body[w].end]]
  /\ pc' = [pc EXCEPT ![w] = "copy"]

\* A piece written to the buffer of a chunk continues it, and disturbs no other chunk
\* that is waited for or read.
LEMMA WriteFlow ==
  ASSUME TypeOK, Flow, NEW w \in Workers, NEW k \in Nat, Writes(w, k)
  PROVE  Flow'
  <1> DEFINE c == ch[w]
             b == RingBuf(c.id)
             piece == Bytes(c.start + n[w], k)
  <1>0. /\ pc \in [Workers -> PcValues] /\ n \in [Workers -> Nat]
        /\ body \in [Workers -> [next : Nat, end : Int]]
        /\ bufs \in Seq(Buf) /\ Len(bufs) \in Nat /\ nextChunk \in Nat /\ Cur \in Nat
        /\ c.start \in Nat /\ c.size \in Int /\ c.id \in Nat /\ n[w] \in Nat
    BY FlowTypes DEF TypeOK, Chunk
  <1>1. /\ OthersKept(w) /\ ch' = ch /\ pc[w] = "write" /\ pc'[w] = "copy"
        /\ UNCHANGED <<chunkChannel, nextChunk, pos, concurrency, rpc, rPos, curBuf, out>>
    BY <1>0 DEF Writes, WriteBuf, WorkerStep, OthersKept, elsewhere, reader
  <1>2. /\ ChunkOK(c) /\ Owes(w) /\ Got(w) = n[w] /\ Ahead(c, n[w]) /\ c.size > n[w]
        /\ body[w] = [next |-> c.start + n[w], end |-> c.start + c.size]
    <2>1. WorkerOK(w) /\ Holds(w) /\ Got(w) = n[w]
      BY <1>1 DEF Flow, WorkerInv, Holds, Got
    <2>2. QED
      BY <1>1, <2>1 DEF WorkerOK, BodyOK, Owes
  <1>3. /\ c.id < nextChunk /\ c.buf = BufIndex(c.id, bufs) /\ c.id >= Cur
        /\ c.buf \in 1..Len(bufs) /\ b \in Buf /\ bufs[c.buf] = b
        /\ k <= c.size - n[w]
    <2>1. c.id < nextChunk /\ c.buf = BufIndex(c.id, bufs) /\ c.id >= Cur
      BY <1>2 DEF ChunkOK, Ahead
    <2>2. BufIndex(c.id, bufs) \in 1..Len(bufs) /\ RingBuf(c.id) \in Buf
      BY <1>0, <2>1, HasBuffer DEF Flow
    <2>3. k <= (c.start + c.size) - (c.start + n[w])
      BY <1>2 DEF Writes
    <2>4. k <= c.size - n[w]
      BY <1>0, <2>3
    <2>5. QED
      BY <2>1, <2>2, <2>4 DEF RingBuf
  <1>4. piece \in Seq(Nat) /\ Len(piece) = k /\ bufs' = [bufs EXCEPT ![c.buf] = Filled(b, piece)]
    <2>1. c.start + n[w] \in Nat /\ k \in Nat
      BY <1>0
    <2>2. piece \in Seq(Nat) /\ Len(piece) = k
      BY <2>1, BytesType
    <2>3. body[w].next = c.start + n[w]
      BY <1>2
    <2>4. bufs' = [bufs EXCEPT ![c.buf] = Filled(bufs[c.buf], piece)]
      BY <2>3 DEF Writes
    <2>5. QED
      BY <1>3, <2>2, <2>4
  <1> HIDE DEF c, b, piece
  <1>5. /\ Filled(b, piece).data = b.data \o piece /\ Filled(b, piece).off = b.off
        /\ Filled(b, piece).size = b.size /\ Filled(b, piece).closed = b.closed
        /\ b.off \in Nat /\ b.data \in Seq(Nat) /\ Len(b.data) \in Nat
        /\ Len(b.data \o piece) = Len(b.data) + k
    <2>1. b.off \in Nat /\ b.data \in Seq(Nat) /\ Len(b.data) \in Nat
      BY <1>3 DEF Buf
    <2>2. Len(b.data \o piece) = Len(b.data) + k
      <3>1. b.data \in Seq(Nat) /\ piece \in Seq(Nat)
        BY <1>4, <2>1
      <3>2. Len(b.data \o piece) = Len(b.data) + Len(piece)
        BY <3>1, SeqFacts!ConcatProperties
      <3>3. QED
        BY <1>4, <3>2
    <2>3. QED
      BY <1>3, <1>4, <2>1, <2>2, FilledFields
  <1>6. /\ Len(bufs') = Len(bufs)
        /\ \A i \in Nat : BufIndex(i, bufs') = BufIndex(i, bufs)
        /\ bufs'[BufIndex(c.id, bufs')] = Filled(b, piece)
        /\ \A i \in Nat : i >= Cur /\ i < nextChunk /\ i # c.id => RingBuf(i)' = RingBuf(i)
    <2>1. Filled(b, piece) \in Buf
      BY <1>3, <1>4, BufType
    <2>2. bufs' = [bufs EXCEPT ![BufIndex(c.id, bufs)] = Filled(b, piece)]
      BY <1>3, <1>4
    <2>3. QED
      BY <1>0, <1>3, <2>1, <2>2, OneBuffer DEF Flow
  <1>8. Cur' = Cur /\ (Intact' <=> Intact)
    BY <1>1 DEF Cur, Intact
  <1>9. PlanInv' /\ BudgetInv'
    BY <1>1, <1>8 DEF Flow, PlanInv, BudgetInv
  <1>10. RingInv'
    <2>1. bufs' = <<>> <=> bufs = <<>>
      BY <1>3, <1>4, <1>0
    <2>2. BufIndex(rPos, bufs') = BufIndex(rPos, bufs)
      BY <1>6 DEF TypeOK
    <2>3. QED
      BY <1>1, <1>6, <1>8, <2>1, <2>2 DEF Flow, RingInv
  <1>11. ASSUME Intact PROVE Start(c.id) + b.off + Len(b.data) = c.start + n[w]
    BY <1>2, <1>11 DEF Ahead, b
  <1>12. /\ Start(c.id) \in Nat /\ Size(c.id) \in Nat /\ c.start + c.size = Start(c.id) + Size(c.id)
    <2>1. Parts >= 2 /\ c.id < Parts
      <3>1. nextChunk > 0 /\ PlanInv /\ Parts \in Nat
        BY <1>0, <1>3, FlowTypes DEF Flow
      <3>2. Parts >= 2 /\ nextChunk <= Parts
        BY <3>1, SeveralParts DEF PlanInv
      <3>3. QED
        BY <1>0, <1>3, <3>1, <3>2
    <2>2. Start(c.id) \in Nat /\ Size(c.id) \in 1..PartSize /\ PartSize \in Nat
      BY <1>0, <2>1, PlanTiles, SizeAssumption
    <2>3. QED
      BY <1>2, <2>2 DEF ChunkOK
  <1>13. DataInv'
    <2>1. DataInv
      BY DEF Flow
    <2>2. ASSUME Intact, NEW i \in Cur..(nextChunk - 1) PROVE BufOK(i)'
      <3>1. i \in Nat /\ i >= Cur /\ i < nextChunk /\ BufOK(i)
        BY <1>0, <2>1, <2>2 DEF DataInv
      <3>2. CASE i # c.id
        <4>1. RingBuf(i)' = RingBuf(i)
          BY <1>6, <3>1, <3>2
        <4>2. QED
          BY <1>1, <3>1, <4>1 DEF BufOK
      <3>3. CASE i = c.id
        <4>1. RingBuf(i)' = Filled(b, piece) /\ RingBuf(i) = b
          BY <1>6, <3>3 DEF RingBuf, b
        <4>2. /\ ~b.closed /\ b.size = Size(i) /\ b.data = Bytes(Start(i) + b.off, Len(b.data))
              /\ b.off + Len(b.data) <= b.size /\ (i # rPos => b.off = 0)
          BY <3>1, <4>1 DEF BufOK
        <4>3. b.data \o piece = Bytes(Start(i) + b.off, Len(b.data) + k)
          <5>1. piece = Bytes((Start(i) + b.off) + Len(b.data), k)
            BY <1>11, <2>2, <3>3 DEF piece, c
          <5>2. Start(i) + b.off \in Nat
            BY <1>5, <1>12, <3>3
          <5>3. k \in Nat /\ Len(b.data) \in Nat
            BY <1>5
          <5>4. Bytes(Start(i) + b.off, Len(b.data)) \o Bytes((Start(i) + b.off) + Len(b.data), k)
                  = Bytes(Start(i) + b.off, Len(b.data) + k)
            BY <5>2, <5>3, BytesJoin
          <5>5. QED
            BY <4>2, <5>1, <5>4
        <4>4. b.off + (Len(b.data) + k) <= b.size
          <5> DEFINE s == Start(i)
                     o == b.off
                     m == Len(b.data)
                     t == b.size
                     a == c.start
                     z == c.size
                     j == n[w]
          <5>1. s \in Nat /\ o \in Nat /\ m \in Nat /\ t \in Nat /\ a \in Nat /\ z \in Int
                /\ j \in Nat
            BY <1>0, <1>5, <1>12, <3>3, <4>2
          <5>2. s + o + m = a + j
            BY <1>11, <2>2, <3>3
          <5>3. a + z = s + t
            BY <1>12, <3>3, <4>2
          <5>4. k <= z - j /\ k \in Nat
            BY <1>3
          <5> HIDE DEF s, o, m, t, a, z, j
          <5>5. o + (m + k) <= t
            BY <5>1, <5>2, <5>3, <5>4
          <5>6. QED
            BY <5>5 DEF o, m, t
        <4>5. QED
          BY <1>1, <1>5, <4>1, <4>2, <4>3, <4>4 DEF BufOK
      <3>4. QED
        BY <3>2, <3>3
    <2>3. ASSUME Intact, nextChunk > 0 PROVE RingBuf(Cur)'.off = RingBuf(Cur).off
      <3>1. Cur < nextChunk
        BY <2>3 DEF Flow, RingInv
      <3>2. CASE Cur = c.id
        <4>1. RingBuf(Cur) = b
          BY <3>2 DEF b
        <4>2. RingBuf(Cur)' = Filled(b, piece)
          BY <1>6, <1>8, <3>2 DEF RingBuf
        <4>3. QED
          BY <1>5, <4>1, <4>2
      <3>3. CASE Cur # c.id
        <4>1. bufs'[BufIndex(Cur, bufs')] = bufs[BufIndex(Cur, bufs)]
          <5>1. Cur \in Nat /\ Cur >= Cur /\ Cur < nextChunk /\ Cur # c.id
            BY <1>0, <3>1, <3>3
          <5>2. \A i \in Nat : i >= Cur /\ i < nextChunk /\ i # c.id
                  => bufs'[BufIndex(i, bufs')] = bufs[BufIndex(i, bufs)]
            BY <1>6 DEF RingBuf
          <5>3. QED
            BY <5>1, <5>2
        <4>2. QED
          BY <1>8, <4>1 DEF RingBuf
      <3>4. QED
        BY <3>2, <3>3
    <2>4. QED
      BY <1>1, <1>8, <2>1, <2>2, <2>3 DEF DataInv, InOrder
  <1>14. ASSUME NEW d \in Chunk, ChunkOK(d) PROVE d.id < nextChunk' /\ d.buf = BufIndex(d.id, bufs')
    BY <1>1, <1>6, <1>14 DEF ChunkOK, Chunk
  <1>15. ASSUME NEW d \in Chunk, ChunkOK(d), NEW j, Ahead(d, j), d.id # c.id
         PROVE  d.id >= Cur /\ (Intact => Start(d.id) + bufs'[BufIndex(d.id, bufs')].off
                                  + Len(bufs'[BufIndex(d.id, bufs')].data) = d.start + j)
    <2>1. d.id \in Nat /\ d.id >= Cur /\ d.id < nextChunk
      BY <1>15 DEF Ahead, ChunkOK, Chunk
    <2>2. bufs'[BufIndex(d.id, bufs')] = RingBuf(d.id)
      BY <1>6, <1>15, <2>1 DEF RingBuf
    <2>3. QED
      BY <1>15, <2>1, <2>2 DEF Ahead
  <1>16. QueueInv'
    <2>1. SUFFICES ASSUME NEW i \in 1..Len(chunkChannel)
                   PROVE  /\ ChunkOK(chunkChannel[i])'
                          /\ chunkChannel[i].size > 0 => Ahead(chunkChannel[i], 0)'
      BY <1>1 DEF QueueInv
    <2> DEFINE d == chunkChannel[i]
    <2>2. d \in Chunk /\ ChunkOK(d) /\ (d.size > 0 => Ahead(d, 0) /\ d.id # c.id)
      BY <1>2, FlowTypes DEF Flow, QueueInv, UniqueInv, c
    <2> HIDE DEF d
    <2>3. d.id < nextChunk' /\ d.buf = BufIndex(d.id, bufs')
      BY <1>14, <2>2
    <2>4. ChunkOK(chunkChannel[i])'
      BY <1>1, <2>2, <2>3 DEF ChunkOK, d
    <2>5. d.size > 0 => Ahead(chunkChannel[i], 0)'
      BY <1>1, <1>8, <1>15, <2>2 DEF Ahead, RingBuf, d
    <2>6. QED
      BY <2>4, <2>5 DEF d
  <1>17. ASSUME NEW v \in Workers, v # w
         PROVE  WorkerOK(v)' /\ (Owes(v)' <=> Owes(v))
    <2> DEFINE d == ch[v]
    <2>1. pc'[v] = pc[v] /\ ch'[v] = d /\ n'[v] = n[v] /\ body'[v] = body[v] /\ res'[v] = res[v]
      BY <1>1, <1>17 DEF OthersKept
    <2>2. (Holds(v)' <=> Holds(v)) /\ Got(v)' = Got(v) /\ (Owes(v)' <=> Owes(v))
          /\ (BodyOK(v)' <=> BodyOK(v))
      BY <2>1 DEF Holds, Got, Owes, BodyOK
    <2>3. /\ d \in Chunk /\ WorkerOK(v) /\ (Owes(v) => d.id # c.id)
      BY <1>2, <1>17, FlowTypes DEF Flow, WorkerInv, UniqueInv, c
    <2> HIDE DEF d
    <2>4. ChunkOK(d) => ChunkOK(ch[v])'
      BY <1>14, <2>1, <2>3 DEF ChunkOK
    <2>5. Owes(v) => Ahead(ch[v], Got(v))'
      <3>1. Owes(v) => ChunkOK(d) /\ Ahead(d, Got(v))
        BY <2>3 DEF WorkerOK, Owes, d
      <3>2. QED
        BY <1>8, <1>15, <2>1, <2>2, <2>3, <3>1 DEF Ahead, RingBuf
    <2>6. QED
      BY <2>1, <2>2, <2>3, <2>4, <2>5 DEF WorkerOK, d
  <1>18. WorkerOK(w)' /\ (Owes(w)' => ch'[w].id = c.id)
    <2>1. n'[w] = n[w] + k /\ Got(w)' = n[w] + k /\ ch'[w] = c
      BY <1>0, <1>1 DEF Got, Writes, c
    <2>2. BodyOK(w)'
      BY <1>0, <1>1, <1>2, <2>1 DEF BodyOK, Writes
    <2>3. ChunkOK(ch[w])' /\ Got(w)' <= ch'[w].size
      <3>1. c \in Chunk
        BY FlowTypes DEF c
      <3>2. ChunkOK(ch[w])'
        BY <1>2, <1>14, <2>1, <3>1 DEF ChunkOK
      <3>3. n[w] + k <= c.size
        BY <1>0, <1>3
      <3>4. QED
        BY <2>1, <3>2, <3>3
    <2>4. Ahead(ch[w], Got(w))'
      <3>1. Intact => Start(c.id) + b.off + (Len(b.data) + k) = c.start + (n[w] + k)
        <4>1. /\ Start(c.id) \in Nat /\ b.off \in Nat /\ Len(b.data) \in Nat
              /\ c.start \in Nat /\ n[w] \in Nat
          BY <1>0, <1>5, <1>12
        <4>2. QED
          BY <1>11, <4>1, FillStep, SMTT(60)
      <3>2. QED
        BY <1>3, <1>5, <1>6, <1>8, <2>1, <3>1 DEF Ahead, RingBuf
    <2>5. QED
      BY <2>1, <2>2, <2>3, <2>4 DEF WorkerOK
  <1>19. WorkerInv'
    BY <1>17, <1>18 DEF WorkerInv
  <1>20. UniqueInv'
    <2>1. \A v \in Workers : Owes(v)' => Owes(v) /\ ch'[v] = ch[v]
      BY <1>1, <1>2, <1>17
    <2>2. UniqueInv
      BY DEF Flow
    <2>3. QED
      BY <1>1, <2>1, <2>2 DEF UniqueInv
  <1>21. QED
    BY <1>9, <1>10, <1>13, <1>16, <1>19, <1>20 DEF Flow

-----------------------------------------------------------------------------
(***************************************************************************)
(* The steps that call sendChunkTask: the first one, the start of a worker *)
(* by another, and the reader's move to the next chunk.                    *)
(***************************************************************************)
\* The reader has read its chunk to the end, and moves on.
AtEnd ==
  /\ Intact /\ Cur = rPos /\ nextChunk > 0
  /\ RingBuf(Cur).off >= RingBuf(Cur).size
MovesOn == AtEnd /\ Cur + 1 < Parts /\ Cur' = Cur + 1
SendStep(newConcurrency) ==
  /\ HandOut(newConcurrency) /\ Concurrency >= 2
  /\ UNCHANGED <<rPos, curBuf, out, ch>>
  /\ Intact' <=> Intact
  /\ nextChunk = 0 => curBuf = 1 /\ pos < Length /\ MayGrow
  /\ IF newConcurrency THEN Cur' = Cur ELSE MovesOn
  /\ \A v \in Workers : BodyOK(v)' /\ (Holds(v)' => Holds(v) /\ Got(v)' = Got(v))

\* A chunk that was read to the end has come in full, and nothing of it is missing.
LEMMA ReadThrough ==
  ASSUME TypeOK, Flow, AtEnd
  PROVE  /\ Len(out) = Start(Cur + 1)
         /\ \A c \in Chunk, k \in Nat : ChunkOK(c) /\ Ahead(c, k) /\ c.size > k => c.id >= Cur + 1
  <1> DEFINE b == RingBuf(Cur)
  <1>1. /\ Cur \in Nat /\ nextChunk \in Nat /\ Cur < nextChunk /\ Cur < Parts /\ Parts \in Nat
        /\ nextChunk <= Parts /\ Parts >= 2
    BY FlowTypes, SeveralParts DEF Flow, RingInv, PlanInv, AtEnd
  <1>2. BufOK(Cur) /\ Len(out) = Start(Cur) + b.off
    BY <1>1 DEF AtEnd, Flow, DataInv
  <1>3. b.off \in Nat /\ Len(b.data) \in Nat /\ b.size \in Nat
    BY <1>1, HasBuffer DEF Flow
  <1>4. b.size = Size(Cur) /\ b.off + Len(b.data) <= b.size /\ b.off >= b.size
    BY <1>2 DEF BufOK, AtEnd
  <1> HIDE DEF b
  <1>5. b.off = Size(Cur) /\ Len(b.data) = 0
    BY <1>3, <1>4
  <1>6. /\ Start(Cur) \in Nat /\ Size(Cur) \in Nat /\ Start(Cur + 1) = Start(Cur) + Size(Cur)
    BY <1>1, PlanTiles, SizeAssumption
  <1>7. ASSUME NEW c \in Chunk, NEW k \in Nat, ChunkOK(c), Ahead(c, k), c.size > k
        PROVE  c.id >= Cur + 1
    <2>1. c.id \in Nat /\ c.start \in Nat /\ c.size \in Int /\ c.id >= Cur
      BY <1>7 DEF Chunk, Ahead
    <2>2. ASSUME c.id = Cur PROVE FALSE
      <3>1. Start(Cur) + b.off + Len(b.data) = c.start + k
        BY <1>7, <2>2 DEF Ahead, AtEnd, b
      <3>2. c.start + c.size = Start(Cur) + Size(Cur)
        BY <1>7, <2>2 DEF ChunkOK
      <3>3. c.start + k = c.start + c.size
        BY <1>5, <1>6, <3>1, <3>2
      <3>4. QED
        BY <1>7, <2>1, <3>3
    <2>3. QED
      BY <1>1, <2>1, <2>2
  <1>8. QED
    BY <1>2, <1>5, <1>6, <1>7

\* How the counters of the plan, the ring and the budget move.
LEMMA SendCounts ==
  ASSUME TypeOK, TypeOK', Flow, NEW newConcurrency \in BOOLEAN, SendStep(newConcurrency)
  PROVE  /\ nextChunk' \in {nextChunk, nextChunk + 1} /\ nextChunk' > 0 /\ nextChunk >= Cur'
         /\ Cur' < nextChunk' /\ nextChunk' <= Len(bufs') + Cur'
         /\ Cur' \in {Cur, Cur + 1}
         /\ PlanInv' /\ RingInv' /\ BudgetInv'
  <1>0. /\ nextChunk \in Nat /\ pos \in Nat /\ rPos \in Nat /\ Cur \in Nat /\ Parts \in Nat
        /\ Len(bufs) \in Nat /\ concurrency \in Int /\ Concurrency \in Nat /\ Length \in Nat
        /\ Parts >= 2 /\ Len(bufs') \in Nat
    BY FlowTypes, SeveralParts DEF SendStep, HandOut, RingKept
  <1>1. HandOut(newConcurrency) /\ Concurrency >= 2 /\ PlanInv /\ RingInv /\ BudgetInv
        /\ rPos' = rPos /\ curBuf' = curBuf
    BY DEF SendStep, Flow
  <1>2. nextChunk' \in {nextChunk, nextChunk + 1}
    BY <1>1 DEF HandOut, NothingSent, ChunkSent
  <1>3. pos < Length <=> nextChunk < Parts
    BY <1>1, PlanLeft
  <1>4. Cur' \in {Cur, Cur + 1} /\ nextChunk' > 0 /\ Cur' < nextChunk' /\ nextChunk >= Cur'
    <2>1. CASE nextChunk = 0
      <3>1. Cur = 0 /\ newConcurrency /\ Cur' = Cur /\ pos < Length /\ MayGrow
        BY <1>0, <1>1, <2>1 DEF SendStep, RingInv, MovesOn, AtEnd
      <3>2. nextChunk' = nextChunk + 1
        BY <1>0, <1>1, <3>1 DEF HandOut
      <3>3. QED
        BY <1>0, <2>1, <3>1, <3>2
    <2>2. CASE nextChunk > 0 /\ newConcurrency
      BY <1>0, <1>1, <1>2, <2>2 DEF SendStep, RingInv
    <2>3. CASE nextChunk > 0 /\ ~newConcurrency
      <3>1. Cur' = Cur + 1 /\ Cur + 1 < Parts /\ Cur < nextChunk
        BY <1>1, <2>3 DEF SendStep, MovesOn, AtEnd, RingInv
      <3>2. pos >= Length => nextChunk = Parts
        BY <1>1, PlanLeft
      <3>3. pos >= Length \/ nextChunk' = nextChunk + 1
        BY <1>1, <2>3 DEF HandOut
      <3>4. QED
        BY <1>0, <1>2, <3>1, <3>2, <3>3
    <2>4. QED
      BY <1>0, <2>1, <2>2, <2>3
  <1>5. PlanInv'
    <2>1. CASE NothingSent
      BY <1>1, <2>1 DEF PlanInv, NothingSent
    <2>2. CASE ChunkSent(newConcurrency)
      BY <1>0, <1>1, <2>2 DEF PlanInv, ChunkSent
    <2>3. QED
      BY <1>1, <2>1, <2>2 DEF HandOut
  <1>6. nextChunk' <= Len(bufs') + Cur'
    <2>1. CASE newConcurrency /\ ~MayGrow /\ UNCHANGED <<bufs, concurrency, nextChunk, pos>>
      BY <1>0, <1>1, <1>4, <2>1 DEF RingInv
    <2>2. CASE newConcurrency /\ MayGrow
      BY <1>0, <1>1, <1>2, <1>4, <2>2 DEF HandOut, MayGrow, RingInv
    <2>3. CASE ~newConcurrency
      <3>1. Cur' = Cur + 1
        BY <2>3 DEF SendStep, MovesOn, AtEnd
      <3>2. Len(bufs') >= Len(bufs)
        BY <1>0, <1>1, <2>3 DEF HandOut
      <3>3. QED
        BY <1>0, <1>1, <1>2, <3>1, <3>2 DEF RingInv
    <2>4. QED
      BY <1>1, <2>1, <2>2, <2>3 DEF HandOut
  <1>7. ASSUME concurrency' > 0
        PROVE  nextChunk' <= Len(bufs') /\ (pos' < Length => nextChunk' = Len(bufs'))
    <2>1. CASE newConcurrency /\ ~MayGrow /\ UNCHANGED <<bufs, concurrency, nextChunk, pos>>
      BY <1>1, <1>7, <2>1 DEF RingInv
    <2>2. CASE ~(newConcurrency /\ ~MayGrow)
      <3>1. concurrency > 0 /\ Len(bufs') = Len(bufs) + 1
            /\ (pos >= Length \/ nextChunk' = nextChunk + 1)
        BY <1>0, <1>1, <1>7, <2>2 DEF HandOut
      <3>2. nextChunk <= Len(bufs) /\ (pos < Length => nextChunk = Len(bufs))
        BY <1>1, <3>1 DEF RingInv
      <3>3. pos' < Length => pos < Length
        <4>1. CASE NothingSent
          BY <4>1 DEF NothingSent
        <4>2. CASE ChunkSent(newConcurrency)
          BY <4>2 DEF ChunkSent
        <4>3. QED
          BY <1>1, <4>1, <4>2 DEF HandOut
      <3>4. QED
        BY <1>0, <1>2, <3>1, <3>2, <3>3
    <2>3. QED
      BY <1>1, <2>1, <2>2 DEF HandOut
  <1>8. curBuf' = BufIndex(rPos, bufs')
    <2>1. CASE nextChunk = 0
      <3>1. rPos = 0 /\ curBuf = 1 /\ Len(bufs') \in Nat \ {0}
        BY <1>0, <1>1, <1>4, <2>1 DEF SendStep, RingInv, Cur, HandOut, RingKept
      <3>2. BufIndex(0, bufs') = 1
        BY <3>1, RingIndex
      <3>3. QED
        BY <1>1, <3>1, <3>2
    <2>2. CASE nextChunk > 0
      <3>1. rPos < nextChunk /\ curBuf = BufIndex(rPos, bufs)
        BY <1>0, <1>1, <2>2 DEF RingInv, Cur
      <3>2. BufIndex(rPos, bufs') = BufIndex(rPos, bufs)
        BY <1>0, <1>1, <3>1 DEF HandOut, RingKept
      <3>3. QED
        BY <1>1, <3>1, <3>2
    <2>3. QED
      BY <1>0, <2>1, <2>2
  <1>9. RingInv'
    <2>1. Len(bufs') > 0 /\ nextChunk' # 0
      BY <1>0, <1>1, <1>4 DEF HandOut, RingKept
    <2>2. bufs' # <<>>
      BY <2>1
    <2>3. QED
      BY <1>1, <1>4, <1>6, <1>7, <1>8, <2>1, <2>2 DEF RingInv
  <1>10. BudgetInv'
    <2>0. newConcurrency => Cur' = Cur
      BY DEF SendStep
    <2>1. CASE newConcurrency /\ ~MayGrow /\ UNCHANGED <<bufs, concurrency, nextChunk, pos>>
      BY <1>1, <2>0, <2>1 DEF BudgetInv
    <2>2. CASE newConcurrency /\ MayGrow
      <3>1. concurrency > 0 /\ concurrency' = concurrency - 1
        BY <1>1, <2>2 DEF HandOut, MayGrow
      <3>2. nextChunk <= (Concurrency - concurrency) + Cur
        BY <1>1, <3>1 DEF BudgetInv
      <3>3. nextChunk' <= Concurrency + Cur' /\ nextChunk' <= (Concurrency - concurrency') + Cur'
        BY <1>0, <1>2, <2>0, <2>2, <3>1, <3>2
      <3>4. QED
        BY <3>3 DEF BudgetInv
    <2>3. CASE ~newConcurrency
      <3>1. Cur' = Cur + 1 /\ concurrency' = concurrency
        BY <1>1, <2>3 DEF SendStep, MovesOn, AtEnd, HandOut
      <3>2. QED
        BY <1>0, <1>1, <1>2, <3>1 DEF BudgetInv
    <2>4. QED
      BY <1>1, <2>1, <2>2, <2>3 DEF HandOut
  <1>11. QED
    BY <1>2, <1>4, <1>5, <1>6, <1>9, <1>10

\* The buffers of the chunks that are not behind the reader stay as they are, the
\* new chunk gets an empty one, and the reader is where its bytes end.
LEMMA SendData ==
  ASSUME TypeOK, TypeOK', Flow, NEW newConcurrency \in BOOLEAN, SendStep(newConcurrency)
  PROVE  /\ \A k \in Nat : k >= Cur' /\ k < nextChunk => RingBuf(k)' = RingBuf(k)
         /\ DataInv'
  <1>0. /\ nextChunk \in Nat /\ rPos \in Nat /\ Cur \in Nat /\ Cur' \in Nat /\ Parts \in Nat
        /\ Len(bufs) \in Nat /\ Len(bufs') \in Nat /\ nextChunk' \in Nat
        /\ Parts >= 2
    <2>1. nextChunk' \in Nat /\ Cur' \in {Cur, Cur + 1}
      BY SendCounts DEF TypeOK
    <2>2. Cur' \in Nat
      BY <2>1, FlowTypes
    <2>3. Len(bufs') \in Nat /\ Parts >= 2
      BY SeveralParts DEF SendStep, HandOut, RingKept
    <2>4. QED
      BY <2>1, <2>2, <2>3, FlowTypes
  <1>1. HandOut(newConcurrency) /\ rPos' = rPos /\ out' = out /\ (Intact' <=> Intact) /\ DataInv
    BY DEF SendStep, Flow
  <1>2. /\ nextChunk' \in {nextChunk, nextChunk + 1} /\ nextChunk' > 0 /\ nextChunk >= Cur'
        /\ Cur' < nextChunk' /\ nextChunk' <= Len(bufs') + Cur' /\ Cur' \in {Cur, Cur + 1}
    BY SendCounts
  <1>3. ASSUME NEW k \in Nat, k >= Cur', k < nextChunk
        PROVE  RingBuf(k)' = RingBuf(k)
    <2>1. nextChunk' <= k + Len(bufs')
      BY <1>0, <1>2, <1>3
    <2>2. QED
      BY <1>1, <1>3, <2>1 DEF HandOut, RingKept
  <1>4. ASSUME Intact, NEW k \in Nat, k >= Cur', k < nextChunk'
        PROVE  BufOK(k)' /\ (k = nextChunk => RingBuf(k)'.off = 0)
    <2>1. k \in Nat /\ k >= Cur' /\ k <= nextChunk
      BY <1>0, <1>2, <1>4
    <2>2. CASE k < nextChunk
      <3>1. BufOK(k) /\ RingBuf(k)' = RingBuf(k)
        BY <1>0, <1>1, <1>2, <1>3, <1>4, <2>1, <2>2 DEF DataInv
      <3>2. QED
        BY <1>1, <2>2, <3>1 DEF BufOK
    <2>3. CASE k = nextChunk
      <3>1. nextChunk' # nextChunk
        BY <1>0, <1>4, <2>3
      <3>2. bufs'[BufIndex(k, bufs')] = FreshBuf(Size(k))
        BY <1>1, <2>3, <3>1 DEF HandOut, NothingSent, ChunkSent
      <3>3. RingBuf(k)' = FreshBuf(Size(k))
        BY <3>2, <2>3, <3>1 DEF RingBuf
      <3>4. Start(k) + 0 \in Nat /\ Size(k) \in Nat
        <4>1. k < Parts
          BY <1>1, <2>3, <3>1 DEF HandOut, NothingSent, ChunkSent
        <4>2. Start(k) \in Nat /\ Size(k) \in 1..PartSize /\ PartSize \in Nat
          BY <1>0, <2>1, <4>1, PlanTiles, SizeAssumption
        <4>3. QED
          BY <4>2
      <3>5. <<>> = Bytes(Start(k) + 0, 0)
        BY <3>4 DEF Bytes
      <3>6. QED
        BY <3>3, <3>4, <3>5 DEF BufOK, FreshBuf
    <2>4. QED
      BY <1>0, <2>1, <2>2, <2>3
  <1>5. ASSUME Intact, NEW k \in Nat, k = Cur' PROVE Len(out) = Start(k) + RingBuf(k)'.off
    <2>1. k >= Cur' /\ k < nextChunk'
      BY <1>0, <1>2, <1>5
    <2>2. BufOK(k)' /\ (k = nextChunk => RingBuf(k)'.off = 0)
      BY <1>4, <1>5, <2>1
    <2>3. CASE nextChunk = 0
      <3>1. out = <<>> /\ k = 0 /\ k = nextChunk
        BY <1>0, <1>1, <1>2, <1>5, <2>3 DEF DataInv
      <3>2. QED
        BY <2>2, <3>1, PlanEnds
    <2>4. CASE nextChunk > 0 /\ newConcurrency
      <3>1. k = Cur /\ Cur < nextChunk
        BY <1>5, <2>4 DEF SendStep, Flow, RingInv
      <3>2. RingBuf(k)' = RingBuf(k)
        BY <1>0, <1>3, <1>5, <3>1
      <3>3. Len(out) = Start(Cur) + RingBuf(Cur).off
        BY <1>1, <1>5, <2>4 DEF DataInv
      <3>4. QED
        BY <3>1, <3>2, <3>3
    <2>5. CASE ~newConcurrency
      <3>1. MovesOn /\ k = Cur + 1 /\ Cur = rPos /\ k < Parts
        BY <1>5, <2>5 DEF SendStep, MovesOn, AtEnd
      <3>2. Len(out) = Start(k)
        BY <3>1, ReadThrough DEF MovesOn
      <3>3. RingBuf(k)'.off = 0
        BY <1>0, <1>1, <2>2, <3>1 DEF BufOK
      <3>4. Start(k) \in Nat
        BY <1>0, <3>1, PlanTiles
      <3>5. QED
        BY <3>2, <3>3, <3>4
    <2>6. QED
      BY <1>0, <2>3, <2>4, <2>5
  <1>6. DataInv'
    <2>1. InOrder'
      BY <1>1 DEF DataInv, InOrder
    <2>2. Intact' => \A k \in Cur'..(nextChunk' - 1) : BufOK(k)'
      <3>1. \A k \in Cur'..(nextChunk' - 1) : k \in Nat /\ k >= Cur' /\ k < nextChunk'
        <4> DEFINE lo == Cur'
                   hi == nextChunk'
        <4>1. lo \in Nat /\ hi \in Nat
          BY <1>0
        <4> HIDE DEF lo, hi
        <4>2. \A k \in lo..(hi - 1) : k \in Nat /\ k >= lo /\ k < hi
          BY <4>1
        <4>3. QED
          BY <4>2 DEF lo, hi
      <3>2. QED
        BY <1>1, <1>4, <3>1
    <2>3. Intact' => Len(out') = Start(Cur') + bufs'[BufIndex(Cur', bufs')].off
      BY <1>0, <1>1, <1>5 DEF RingBuf
    <2>4. QED
      BY <1>2, <2>1, <2>2, <2>3 DEF DataInv, RingBuf
  <1>7. QED
    BY <1>3, <1>6

\* What is said of the chunks that were handed out before stays true of them.
LEMMA SendOldChunks ==
  ASSUME TypeOK, TypeOK', Flow, NEW newConcurrency \in BOOLEAN, SendStep(newConcurrency),
         NEW c \in Chunk, ChunkOK(c)
  PROVE  /\ c.id < nextChunk' /\ c.buf = BufIndex(c.id, bufs')
         /\ \A k \in Nat : Ahead(c, k) /\ c.size > k =>
              /\ c.id >= Cur'
              /\ Intact' => Start(c.id) + bufs'[BufIndex(c.id, bufs')].off
                              + Len(bufs'[BufIndex(c.id, bufs')].data) = c.start + k
  <1>0. nextChunk \in Nat /\ c.id \in Nat /\ Cur \in Nat /\ c.id < nextChunk
    BY FlowTypes DEF Chunk, ChunkOK
  <1>1. nextChunk' \in {nextChunk, nextChunk + 1}
    BY SendCounts
  <1>2. BufIndex(c.id, bufs') = BufIndex(c.id, bufs)
    BY <1>0 DEF SendStep, HandOut, RingKept
  <1>3. ASSUME NEW k \in Nat, Ahead(c, k), c.size > k
        PROVE  /\ c.id >= Cur'
               /\ Intact' => Start(c.id) + bufs'[BufIndex(c.id, bufs')].off
                               + Len(bufs'[BufIndex(c.id, bufs')].data) = c.start + k
    <2>1. c.id >= Cur'
      <3>1. CASE newConcurrency
        BY <1>3, <3>1 DEF SendStep, Ahead
      <3>2. CASE ~newConcurrency
        <4>1. MovesOn /\ Cur' = Cur + 1
          BY <3>2 DEF SendStep, MovesOn, AtEnd
        <4>2. QED
          BY <1>3, <4>1, ReadThrough DEF MovesOn
      <3>3. QED
        BY <3>1, <3>2
    <2>2. RingBuf(c.id)' = RingBuf(c.id)
      BY <1>0, <2>1, SendData
    <2>3. Intact' <=> Intact
      BY DEF SendStep
    <2>4. bufs'[BufIndex(c.id, bufs')] = RingBuf(c.id)
      BY <2>2 DEF RingBuf
    <2>5. QED
      BY <1>3, <2>1, <2>3, <2>4 DEF Ahead
  <1>4. QED
    BY <1>0, <1>1, <1>2, <1>3 DEF ChunkOK

\* The chunk that is handed out is the next one of the plan, not begun.
LEMMA SendNewChunk ==
  ASSUME TypeOK, TypeOK', Flow, NEW newConcurrency \in BOOLEAN, SendStep(newConcurrency),
         ChunkSent(newConcurrency), NEW c, c = NewChunk(newConcurrency)
  PROVE  /\ c.id = nextChunk
         /\ ChunkOK(c)' /\ Ahead(c, 0)'
  <1>0. nextChunk \in Nat /\ nextChunk < Parts /\ Parts >= 2
    BY FlowTypes, SeveralParts DEF SendStep, ChunkSent
  <1>1. /\ c.id = nextChunk /\ c.start = Start(nextChunk) /\ c.size = Size(nextChunk)
        /\ c.buf = BufIndex(nextChunk, bufs')
    BY DEF NewChunk
  <1>2. Start(nextChunk) \in Nat /\ Size(nextChunk) \in Nat
    BY <1>0, PlanTiles, SizeAssumption
  <1>3. c.id < nextChunk' /\ c.id >= Cur'
    BY <1>0, <1>1, SendCounts DEF ChunkSent
  <1>4. bufs'[BufIndex(c.id, bufs')] = FreshBuf(Size(nextChunk))
    BY <1>1 DEF ChunkSent
  <1>5. ChunkOK(c)'
    BY <1>1, <1>2, <1>3 DEF ChunkOK
  <1>6. Ahead(c, 0)'
    <2>1. Start(c.id) + bufs'[BufIndex(c.id, bufs')].off
            + Len(bufs'[BufIndex(c.id, bufs')].data) = c.start + 0
      BY <1>1, <1>2, <1>4 DEF FreshBuf
    <2>2. QED
      BY <1>3, <2>1 DEF Ahead, RingBuf
  <1>7. QED
    BY <1>1, <1>5, <1>6

\* sendChunkTask keeps the invariant.
LEMMA SendFlow ==
  ASSUME TypeOK, TypeOK', Flow, NEW newConcurrency \in BOOLEAN, SendStep(newConcurrency)
  PROVE  Flow'
  <1>a. PICK new : new = NewChunk(newConcurrency)
    OBVIOUS
  <1> DEFINE l == Len(chunkChannel)
             fresh == ChunkSent(newConcurrency) /\ chunkChannel' = Append(chunkChannel, new)
  <1>0. chunkChannel \in Seq(Chunk) /\ l \in Nat /\ nextChunk \in Nat
    BY FlowTypes
  <1>1. /\ ch' = ch
        /\ \A v \in Workers : BodyOK(v)' /\ (Holds(v)' => Holds(v) /\ Got(v)' = Got(v))
    BY DEF SendStep
  <1>2. chunkChannel' = chunkChannel \/ fresh
    BY <1>a DEF SendStep, HandOut, NothingSent, ChunkSent
  <1>3. /\ PlanInv' /\ RingInv' /\ BudgetInv' /\ DataInv'
    BY SendCounts, SendData
  <1>4. /\ fresh => Len(chunkChannel') = l + 1 /\ chunkChannel'[l + 1] = new
        /\ \A i \in 1..l : chunkChannel'[i] = chunkChannel[i]
        /\ \A i \in 1..Len(chunkChannel') : i \in 1..l \/ (fresh /\ i = l + 1)
    <2>1. CASE chunkChannel' = chunkChannel /\ ~fresh
      BY <1>0, <2>1
    <2>2. CASE fresh
      BY <1>0, <2>2
    <2>3. QED
      BY <1>2, <2>1, <2>2
  <1>5. ASSUME fresh PROVE new.id = nextChunk /\ ChunkOK(new)' /\ Ahead(new, 0)'
    BY <1>a, <1>5, SendNewChunk
  <1> HIDE DEF fresh, l
  <1>6. \A i \in 1..l : chunkChannel[i] \in Chunk /\ ChunkOK(chunkChannel[i])
                        /\ (chunkChannel[i].size > 0 => Ahead(chunkChannel[i], 0))
    BY FlowTypes DEF Flow, QueueInv, l
  <1>7. QueueInv'
    <2>1. SUFFICES ASSUME NEW i \in 1..Len(chunkChannel'), NEW c, c = chunkChannel'[i]
                   PROVE  ChunkOK(c)' /\ (c.size > 0 => Ahead(c, 0)')
      BY DEF QueueInv, ChunkOK, Ahead, RingBuf
    <2>2. CASE i \in 1..l
      <3>1. c \in Chunk /\ ChunkOK(c) /\ (c.size > 0 => Ahead(c, 0))
        BY <1>4, <1>6, <2>1, <2>2
      <3>2. /\ c.id < nextChunk' /\ c.buf = BufIndex(c.id, bufs')
            /\ \A k \in Nat : Ahead(c, k) /\ c.size > k =>
              /\ c.id >= Cur'
              /\ Intact' => Start(c.id) + bufs'[BufIndex(c.id, bufs')].off
                              + Len(bufs'[BufIndex(c.id, bufs')].data) = c.start + k
        BY <3>1, SendOldChunks
      <3>3. 0 \in Nat
        OBVIOUS
      <3>4. QED
        BY <3>1, <3>2, <3>3 DEF ChunkOK, Ahead, RingBuf
    <2>3. CASE fresh /\ i = l + 1
      <3>1. c = new
        BY <1>4, <2>1, <2>3
      <3>2. QED
        BY <1>5, <2>3, <3>1
    <2>4. QED
      BY <1>4, <2>2, <2>3
  <1>8. ASSUME NEW v \in Workers
        PROVE  WorkerOK(v)' /\ (Owes(v)' => Owes(v) /\ ch[v].id < nextChunk)
    <2> DEFINE c == ch[v]
    <2>1. c \in Chunk /\ Got(v) \in Nat /\ WorkerOK(v) /\ ch'[v] = c
      BY <1>1, FlowTypes DEF Flow, WorkerInv
    <2>2. BodyOK(v)' /\ (Holds(v)' => Holds(v) /\ Got(v)' = Got(v))
      BY <1>1
    <2> HIDE DEF c
    <2>3. Holds(v)' => ChunkOK(c) /\ Got(v)' <= c.size
      BY <2>1, <2>2 DEF WorkerOK, c
    <2>4. Owes(v)' => Owes(v) /\ Ahead(c, Got(v)) /\ c.size > Got(v)
      BY <2>1, <2>2 DEF WorkerOK, Owes, c
    <2>5. ASSUME ChunkOK(c)
          PROVE  ChunkOK(ch[v])' /\ (Ahead(c, Got(v)) /\ c.size > Got(v) /\ Got(v)' = Got(v)
                                       => Ahead(ch[v], Got(v))')
      <3>1. /\ c.id < nextChunk' /\ c.buf = BufIndex(c.id, bufs')
            /\ \A k \in Nat : Ahead(c, k) /\ c.size > k =>
              /\ c.id >= Cur'
              /\ Intact' => Start(c.id) + bufs'[BufIndex(c.id, bufs')].off
                              + Len(bufs'[BufIndex(c.id, bufs')].data) = c.start + k
        BY <2>1, <2>5, SendOldChunks
      <3>2. QED
        BY <2>1, <2>5, <3>1 DEF ChunkOK, Ahead, RingBuf
    <2>6. WorkerOK(v)'
      BY <2>1, <2>2, <2>3, <2>4, <2>5 DEF WorkerOK, Owes
    <2>7. Owes(v)' => ch[v].id < nextChunk
      BY <2>3 DEF Owes, ChunkOK, c
    <2>8. QED
      BY <2>4, <2>6, <2>7
  <1>9. WorkerInv'
    BY <1>8 DEF WorkerInv
  <1>10. UniqueInv'
    <2>1. UniqueInv
      BY DEF Flow
    <2>2. ASSUME fresh PROVE /\ \A i \in 1..l : chunkChannel[i].id # new.id
                             /\ \A v \in Workers : Owes(v)' => ch[v].id # new.id
      <3>1. new.id = nextChunk
        BY <1>5, <2>2
      <3>2. ASSUME NEW i \in 1..l PROVE chunkChannel[i].id # new.id
        <4>1. chunkChannel[i].id < nextChunk /\ chunkChannel[i].id \in Nat
          BY <1>6 DEF ChunkOK, Chunk
        <4>2. QED
          BY <1>0, <3>1, <4>1
      <3>3. ASSUME NEW v \in Workers, Owes(v)' PROVE ch[v].id # new.id
        <4>1. ch[v].id < nextChunk /\ ch[v].id \in Nat
          BY <1>8, <3>3, FlowTypes DEF Chunk
        <4>2. QED
          BY <1>0, <3>1, <4>1
      <3>4. QED
        BY <3>2, <3>3
    <2>3. ASSUME NEW i \in 1..Len(chunkChannel'), NEW j \in 1..Len(chunkChannel'), i # j,
                 chunkChannel'[i].size > 0, chunkChannel'[j].size > 0
          PROVE  chunkChannel'[i].id # chunkChannel'[j].id
      <3>1. CASE i \in 1..l /\ j \in 1..l
        BY <1>4, <2>1, <2>3, <3>1 DEF UniqueInv, l
      <3>2. CASE fresh /\ i = l + 1
        BY <1>4, <2>2, <2>3, <3>2
      <3>3. CASE fresh /\ j = l + 1
        BY <1>4, <2>2, <2>3, <3>3
      <3>4. QED
        BY <1>4, <3>1, <3>2, <3>3
    <2>4. ASSUME NEW i \in 1..Len(chunkChannel'), NEW v \in Workers,
                 chunkChannel'[i].size > 0, Owes(v)'
          PROVE  chunkChannel'[i].id # ch'[v].id
      <3>1. Owes(v) /\ ch'[v] = ch[v]
        BY <1>1, <1>8, <2>4
      <3>2. CASE i \in 1..l
        BY <1>4, <2>1, <2>4, <3>1, <3>2 DEF UniqueInv, l
      <3>3. CASE fresh /\ i = l + 1
        BY <1>4, <2>2, <2>4, <3>1, <3>3
      <3>4. QED
        BY <1>4, <3>2, <3>3
    <2>5. ASSUME NEW u \in Workers, NEW v \in Workers, u # v, Owes(u)', Owes(v)'
          PROVE  ch'[u].id # ch'[v].id
      BY <1>1, <1>8, <2>1, <2>5 DEF UniqueInv
    <2>6. QED
      BY <2>3, <2>4, <2>5 DEF UniqueInv
  <1>11. QED
    BY <1>3, <1>7, <1>9, <1>10 DEF Flow

-----------------------------------------------------------------------------
(* The steps of the caller, of the consumer and of close.                   *)

\* The caller's steps that hand out nothing and read nothing: the reader stays or
\* moves to the next buffer, the buffers stay or are dropped for good.
Still ==
  /\ UNCHANGED <<nextChunk, pos, out, chunkChannel, pc, task>>
  /\ concurrency' = concurrency \/ (concurrency' \in Int /\ concurrency' <= 0)
  /\ Cur' = Cur /\ (Intact' => Intact)
  /\ UNCHANGED <<rPos, curBuf>> \/ (curBuf' = BufIndex(rPos', bufs) /\ rPos < Cur)
  /\ Len(bufs') = Len(bufs) /\ (bufs' = <<>> <=> bufs = <<>>)
  /\ Intact' => bufs' = bufs

\* They keep the invariant.
LEMMA StillFlow ==
  ASSUME TypeOK, Flow, Still
  PROVE  Flow'
  <1>1. /\ nextChunk' = nextChunk /\ pos' = pos /\ out' = out /\ chunkChannel' = chunkChannel
        /\ pc' = pc /\ ch' = ch /\ n' = n /\ body' = body /\ res' = res /\ Cur' = Cur
        /\ Intact' => Intact /\ bufs' = bufs
    BY DEF Still, task
  <1>2. /\ Len(bufs') = Len(bufs) /\ (bufs' = <<>> <=> bufs = <<>>)
        /\ \A k : BufIndex(k, bufs') = BufIndex(k, bufs)
    BY RingLength DEF Still
  <1>3. concurrency' = concurrency \/ (concurrency' \in Int /\ concurrency' <= 0)
    BY DEF Still
  <1>4. PlanInv' /\ BudgetInv'
    BY <1>1, <1>3 DEF Flow, PlanInv, BudgetInv
  <1>5. RingInv'
    <2>1. RingInv /\ curBuf' = IF UNCHANGED <<rPos, curBuf>> THEN curBuf ELSE BufIndex(rPos', bufs)
      BY DEF Flow, Still
    <2>2. nextChunk > 0 => curBuf' = BufIndex(rPos', bufs')
      BY <1>2, <2>1 DEF RingInv
    <2>3. QED
      BY <1>1, <1>2, <1>3, <2>1, <2>2 DEF RingInv
  <1>6. DataInv'
    <2>1. DataInv
      BY DEF Flow
    <2>2. ASSUME Intact', NEW k \in Cur..(nextChunk - 1) PROVE BufOK(k)'
      <3>1. BufOK(k) /\ RingBuf(k)' = RingBuf(k)
        BY <1>1, <2>1, <2>2 DEF DataInv, RingBuf
      <3>2. k # rPos' => k # rPos
        BY FlowTypes, <2>2 DEF Still
      <3>3. QED
        BY <3>1, <3>2 DEF BufOK
    <2>3. ASSUME Intact', nextChunk > 0 PROVE Len(out) = Start(Cur) + bufs'[BufIndex(Cur, bufs')].off
      BY <1>1, <2>1, <2>3 DEF DataInv, RingBuf
    <2>4. QED
      BY <1>1, <2>1, <2>2, <2>3 DEF DataInv, InOrder, RingBuf
  <1>7. \A c : (ChunkOK(c) => ChunkOK(c)') /\ \A k : Ahead(c, k) => Ahead(c, k)'
    BY <1>1, <1>2 DEF ChunkOK, Ahead, RingBuf
  <1>8. QueueInv'
    <2>1. SUFFICES ASSUME NEW i \in 1..Len(chunkChannel)
                   PROVE  /\ ChunkOK(chunkChannel[i])'
                          /\ chunkChannel[i].size > 0 => Ahead(chunkChannel[i], 0)'
      BY <1>1 DEF QueueInv
    <2>2. /\ ChunkOK(chunkChannel[i])
          /\ chunkChannel[i].size > 0 => Ahead(chunkChannel[i], 0)
      BY DEF Flow, QueueInv
    <2>3. QED
      BY <1>1, <1>2, <2>2 DEF ChunkOK, Ahead, RingBuf
  <1>9. \A v \in Workers : /\ (Holds(v)' <=> Holds(v)) /\ Got(v)' = Got(v)
                           /\ (Owes(v)' <=> Owes(v)) /\ (BodyOK(v)' <=> BodyOK(v))
    BY <1>1 DEF Holds, Got, Owes, BodyOK
  <1>10. WorkerInv'
    <2>1. SUFFICES ASSUME NEW v \in Workers PROVE WorkerOK(v)'
      BY DEF WorkerInv
    <2>2. WorkerOK(v)
      BY DEF Flow, WorkerInv
    <2>3. QED
      BY <1>1, <1>2, <1>9, <2>2 DEF WorkerOK, ChunkOK, Ahead, RingBuf
  <1>11. UniqueInv'
    BY <1>1, <1>9 DEF Flow, UniqueInv
  <1>12. QED
    BY <1>4, <1>5, <1>6, <1>8, <1>10, <1>11 DEF Flow

\* All the quiet steps but Read are of that kind.
LEMMA QuietStill ==
  ASSUME TypeOK, Shape, QuietStep, ~Read
  PROVE  Still
  <1> USE DEF Still, Cur, Intact, pool, queue, state, workers, task, reader
  <1>0. pc' = pc
    BY QuietShape
  <1>1. CASE Refuse \/ StartSingle \/ SingleAnswer \/ ReturnReader
    BY <1>1 DEF Refuse, StartSingle, SingleAnswer, ReturnReader
  <1>2. CASE ReadCancelled \/ ReadEOF
    BY <1>2 DEF ReadCancelled, ReadEOF
  <1>3. CASE NextBuf
    <2>1. rPos \in Nat
      BY DEF TypeOK
    <2>2. QED
      BY <1>3, <2>1 DEF NextBuf
  <1>4. CASE CloseSetErr \/ CloseCancel \/ CloseChannel
    BY <1>4 DEF CloseSetErr, CloseCancel, CloseChannel
  <1>5. CASE CloseBufs
    <2>1. bufs' = [i \in 1..Len(bufs) |-> Dropped(bufs[i])] /\ Len(bufs) \in Nat
          /\ bufs \in Seq(Buf)
      BY <1>5 DEF CloseBufs, TypeOK
    <2>2. Len(bufs') = Len(bufs) /\ (bufs' = <<>> <=> bufs = <<>>)
      BY <2>1
    <2>3. UNCHANGED <<nextChunk, pos, out, chunkChannel, pc, task, concurrency, rPos, curBuf>>
          /\ rpc = "drop" /\ rpc' = "negate"
      BY <1>5 DEF CloseBufs
    <2>4. QED
      BY <2>2, <2>3
  <1>6. CASE CloseNegate
    <2>1. concurrency \in Int
      BY DEF TypeOK
    <2>2. Stopped \in Int /\ Stopped <= 0
      BY <2>1 DEF Stopped
    <2>3. QED
      BY <1>6, <2>2 DEF CloseNegate
  <1>7. CASE Close
    BY <1>7 DEF Close, CloseCheck, CloseSingle
  <1>8. CASE KeeperExit \/ ParentCancel \/ OthersTake \/ OthersReturn
    BY <1>8 DEF KeeperExit, ParentCancel, OthersTake, OthersReturn
  <1>9. QED
    BY <1>1, <1>2, <1>3, <1>4, <1>5, <1>6, <1>7, <1>8 DEF QuietStep, Interrupt

\* What is read from a buffer is the next piece of the range, and the rest of it
\* is what the buffer keeps.
LEMMA ReadPiece ==
  ASSUME NEW b \in Buf, NEW s \in Nat, NEW k \in 1..Len(b.data), NEW o \in Seq(Nat),
         b.data = Bytes(s + b.off, Len(b.data)), o = Bytes(0, Len(o)), Len(o) = s + b.off
  PROVE  LET c == Consumed(b, k)
             p == o \o SubSeq(b.data, 1, k)
         IN /\ c \in Buf /\ c.off = b.off + k /\ c.size = b.size /\ c.closed = b.closed
            /\ Len(c.data) = Len(b.data) - k /\ c.data = Bytes(s + c.off, Len(c.data))
            /\ p = Bytes(0, Len(p)) /\ Len(p) = s + c.off
  <1> DEFINE l == Len(b.data)
             a == s + b.off
             c == Consumed(b, k)
             p == o \o SubSeq(b.data, 1, k)
  <1>1. /\ b.off \in Nat /\ l \in Nat /\ k \in Nat /\ k > 0 /\ k <= l
        /\ a \in Nat /\ b.data \in Seq(Nat)
    BY DEF Buf
  <1>2. c \in Buf /\ c.off = b.off + k /\ c.size = b.size /\ c.closed = b.closed
        /\ c.data = SubSeq(b.data, k + 1, l)
    BY <1>1, BufType DEF Consumed
  <1> HIDE DEF c, p, l, a
  <1>3. b.data = Bytes(a, l) /\ o = Bytes(0, a) /\ Len(o) = a
    BY DEF l, a
  <1>4. SubSeq(b.data, 1, k) = Bytes(a, k) /\ SubSeq(b.data, k + 1, l) = Bytes(a + k, l - k)
    <2>1. k \in 0..l
      BY <1>1
    <2>2. /\ SubSeq(Bytes(a, l), 1, k) = Bytes(a, k)
          /\ SubSeq(Bytes(a, l), k + 1, l) = Bytes(a + k, l - k)
      BY <1>1, <2>1, BytesCut
    <2>3. QED
      BY <1>3, <2>2
  <1>5. c.data = Bytes(s + c.off, l - k) /\ Len(c.data) = l - k
    <2>1. s + c.off = a + k
      BY <1>1, <1>2 DEF a
    <2>2. l - k \in Nat /\ a + k \in Nat
      BY <1>1
    <2>3. Len(Bytes(a + k, l - k)) = l - k
      BY <2>2, BytesType
    <2>4. c.data = Bytes(a + k, l - k)
      BY <1>2, <1>4
    <2>5. QED
      BY <2>1, <2>3, <2>4
  <1>6. p = Bytes(0, a + k) /\ Len(p) = a + k
    <2>1. Bytes(0, a) \o Bytes(0 + a, k) = Bytes(0, a + k)
      BY <1>1, BytesJoin
    <2>2. 0 + a = a /\ a + k \in Nat
      BY <1>1
    <2>3. p = Bytes(0, a + k)
      BY <1>3, <1>4, <2>1, <2>2 DEF p
    <2>4. QED
      BY <2>2, <2>3, BytesType
  <1>7. a + k = s + c.off
    BY <1>1, <1>2 DEF a
  <1>8. QED
    BY <1>2, <1>5, <1>6, <1>7 DEF c, p, l

\* Read takes a piece from the buffer of the reader's chunk.
LEMMA ReadFlow ==
  ASSUME TypeOK, Shape, Flow, Read
  PROVE  Flow'
  <1> DEFINE b == RingBuf(rPos)
             s == Start(rPos)
  <1>0. /\ bufs \in Seq(Buf) /\ Len(bufs) \in Nat /\ nextChunk \in Nat /\ rPos \in Nat
        /\ Cur \in Nat /\ out \in Seq(Nat) /\ Parts \in Nat
    BY FlowTypes DEF TypeOK
  <1>1. /\ rpc = "read" /\ rpc' = rpc /\ Cur = rPos /\ Cur' = Cur /\ Intact /\ Intact'
        /\ UNCHANGED <<nextChunk, pos, concurrency, chunkChannel, pc, task, rPos, curBuf>>
    BY <1>0 DEF Read, Cur, Intact, workers, task
  <1>2. nextChunk > 0 /\ rPos < nextChunk /\ curBuf = BufIndex(rPos, bufs) /\ bufs[curBuf] = b
    <2>1. curBuf \in 1..Len(bufs)
      BY <1>1 DEF Shape, ReaderInBuf
    <2>2. bufs # <<>>
      BY <1>0, <2>1
    <2>3. RingInv
      BY DEF Flow
    <2>4. QED
      BY <1>0, <1>1, <2>2, <2>3 DEF RingInv, RingBuf
  <1>3. BufOK(rPos) /\ Len(out) = s + b.off /\ b \in Buf /\ InOrder
    <2>1. Cur \in Cur..(nextChunk - 1)
      BY <1>0, <1>1, <1>2
    <2>2. QED
      BY <1>0, <1>1, <1>2, <2>1, HasBuffer DEF Flow, DataInv
  <1>4. s \in Nat
    <2>1. rPos < Parts /\ Parts >= 2
      BY <1>0, <1>2, SeveralParts DEF Flow, PlanInv
    <2>2. QED
      BY <1>0, <2>1, PlanTiles
  <1>5. PICK k \in 1..Len(b.data) :
          /\ out' = out \o SubSeq(b.data, 1, k)
          /\ bufs' = [bufs EXCEPT ![BufIndex(rPos, bufs)] = Consumed(b, k)]
    BY <1>2 DEF Read
  <1> HIDE DEF b, s
  <1>6. ~b.closed /\ b.size = Size(rPos) /\ b.data = Bytes(s + b.off, Len(b.data))
        /\ b.off + Len(b.data) <= b.size
    BY <1>3 DEF BufOK, b, s
  <1> DEFINE c == Consumed(b, k)
  <1>7. /\ c \in Buf /\ c.off = b.off + k /\ c.size = b.size /\ c.closed = b.closed
        /\ Len(c.data) = Len(b.data) - k /\ c.data = Bytes(s + c.off, Len(c.data))
        /\ out' = Bytes(0, Len(out')) /\ Len(out') = s + c.off
    <2>1. out = Bytes(0, Len(out))
      BY <1>0, <1>3 DEF InOrder, Bytes
    <2>2. QED
      BY <1>0, <1>3, <1>4, <1>5, <1>6, <2>1, ReadPiece
  <1> HIDE DEF c
  <1>8. b.off \in Nat /\ Len(b.data) \in Nat /\ k \in Nat /\ k <= Len(b.data)
        /\ c.off + Len(c.data) = b.off + Len(b.data)
    <2>1. b.off \in Nat /\ b.data \in Seq(Nat)
      BY <1>3 DEF Buf
    <2>2. Len(b.data) \in Nat
      BY <2>1
    <2>3. k \in Nat /\ k <= Len(b.data)
      BY <2>2
    <2>4. QED
      BY <1>7, <2>1, <2>2, <2>3
  <1>9. /\ Len(bufs') = Len(bufs)
        /\ \A i \in Nat : BufIndex(i, bufs') = BufIndex(i, bufs)
        /\ bufs'[BufIndex(rPos, bufs')] = c
        /\ \A i \in Nat : i >= Cur /\ i < nextChunk /\ i # rPos => RingBuf(i)' = RingBuf(i)
    <2>1. bufs' = [bufs EXCEPT ![BufIndex(rPos, bufs)] = c]
      BY <1>5 DEF c
    <2>2. rPos >= Cur /\ RingInv
      BY <1>0, <1>1 DEF Flow
    <2>3. QED
      BY <1>0, <1>2, <1>7, <2>1, <2>2, OneBuffer
  <1>10. PlanInv' /\ BudgetInv'
    BY <1>1 DEF Flow, PlanInv, BudgetInv
  <1>11. RingInv'
    <2>1. bufs' # <<>> /\ bufs # <<>>
      <3>1. bufs # <<>>
        BY <1>2 DEF Flow, RingInv
      <3>2. Len(bufs) > 0
        BY <1>0, <3>1
      <3>3. QED
        BY <1>9, <3>1, <3>2
    <2>2. BufIndex(rPos, bufs') = BufIndex(rPos, bufs)
      BY <1>0, <1>9
    <2>3. QED
      BY <1>1, <1>2, <1>9, <2>1, <2>2 DEF Flow, RingInv
  <1>12. DataInv'
    <2>1. ASSUME NEW i \in Cur..(nextChunk - 1) PROVE BufOK(i)'
      <3>1. i \in Nat /\ i >= Cur /\ i < nextChunk /\ BufOK(i)
        BY <1>0, <1>1, <2>1 DEF Flow, DataInv
      <3>2. CASE i # rPos
        BY <1>1, <1>9, <3>1, <3>2 DEF BufOK
      <3>3. CASE i = rPos
        <4>1. RingBuf(i)' = c
          BY <1>9, <3>3 DEF RingBuf
        <4>2. ~c.closed /\ c.size = Size(i) /\ c.data = Bytes(Start(i) + c.off, Len(c.data))
              /\ c.off + Len(c.data) <= c.size
          BY <1>6, <1>7, <1>8, <3>3 DEF s
        <4>3. QED
          BY <1>1, <3>3, <4>1, <4>2 DEF BufOK
      <3>4. QED
        BY <3>2, <3>3
    <2>2. Len(out') = Start(Cur) + bufs'[BufIndex(Cur, bufs')].off
      BY <1>1, <1>7, <1>9 DEF s
    <2>3. InOrder'
      <3> DEFINE m == Len(out')
      <3>1. out' = [i \in 1..m |-> 0 + i - 1]
        BY <1>7 DEF Bytes
      <3> HIDE DEF m
      <3>2. out' = [i \in 1..m |-> i - 1]
        BY <3>1
      <3>3. QED
        BY <3>2 DEF InOrder, m
    <2>4. QED
      BY <1>1, <1>2, <2>1, <2>2, <2>3 DEF DataInv, RingBuf
  <1>13. \A d \in Chunk : ChunkOK(d) =>
           /\ d.id < nextChunk' /\ d.buf = BufIndex(d.id, bufs')
           /\ \A j : Ahead(d, j) =>
                Start(d.id) + bufs'[BufIndex(d.id, bufs')].off
                  + Len(bufs'[BufIndex(d.id, bufs')].data) = d.start + j
    <2>1. SUFFICES ASSUME NEW d \in Chunk, ChunkOK(d)
                   PROVE  /\ d.id < nextChunk' /\ d.buf = BufIndex(d.id, bufs')
                          /\ \A j : Ahead(d, j) =>
                               Start(d.id) + bufs'[BufIndex(d.id, bufs')].off
                                 + Len(bufs'[BufIndex(d.id, bufs')].data) = d.start + j
      OBVIOUS
    <2>2. d.id \in Nat /\ d.id < nextChunk' /\ d.buf = BufIndex(d.id, bufs')
      BY <1>1, <1>9, <2>1 DEF ChunkOK, Chunk
    <2>3. ASSUME NEW j, Ahead(d, j)
          PROVE  Start(d.id) + bufs'[BufIndex(d.id, bufs')].off
                   + Len(bufs'[BufIndex(d.id, bufs')].data) = d.start + j
      <3>1. d.id >= Cur /\ d.id < nextChunk
            /\ Start(d.id) + RingBuf(d.id).off + Len(RingBuf(d.id).data) = d.start + j
        BY <1>1, <2>2, <2>3 DEF Ahead
      <3>2. CASE d.id # rPos
        <4>1. bufs'[BufIndex(d.id, bufs')] = RingBuf(d.id)
          BY <1>9, <2>2, <3>1, <3>2 DEF RingBuf
        <4>2. QED
          BY <3>1, <4>1
      <3>3. CASE d.id = rPos
        <4>1. s + b.off + Len(b.data) = d.start + j
          BY <3>1, <3>3 DEF s, b
        <4>2. c.off \in Nat /\ Len(c.data) \in Nat
          BY <1>7, <1>8
        <4>3. s + c.off + Len(c.data) = s + b.off + Len(b.data)
          <5> DEFINE x == c.off
                     y == Len(c.data)
                     u == b.off
                     v == Len(b.data)
          <5>1. x \in Nat /\ y \in Nat /\ u \in Nat /\ v \in Nat /\ x + y = u + v
            BY <1>8, <4>2
          <5> HIDE DEF x, y, u, v
          <5>2. s + x + y = s + u + v
            BY <1>4, <5>1
          <5>3. QED
            BY <5>2 DEF x, y, u, v
        <4>4. s + c.off + Len(c.data) = d.start + j
          BY <4>1, <4>3
        <4>5. QED
          BY <1>9, <3>3, <4>4 DEF s
      <3>4. QED
        BY <3>2, <3>3
    <2>4. QED
      BY <2>2, <2>3
  <1>14. QueueInv'
    <2>1. SUFFICES ASSUME NEW i \in 1..Len(chunkChannel)
                   PROVE  /\ ChunkOK(chunkChannel[i])'
                          /\ chunkChannel[i].size > 0 => Ahead(chunkChannel[i], 0)'
      BY <1>1 DEF QueueInv
    <2>2. /\ chunkChannel[i] \in Chunk /\ ChunkOK(chunkChannel[i])
          /\ chunkChannel[i].size > 0 => Ahead(chunkChannel[i], 0)
      BY FlowTypes DEF Flow, QueueInv
    <2>3. QED
      BY <1>1, <1>13, <2>2 DEF ChunkOK, Ahead, RingBuf
  <1>15. \A v \in Workers : /\ (Holds(v)' <=> Holds(v)) /\ Got(v)' = Got(v)
                            /\ (Owes(v)' <=> Owes(v)) /\ (BodyOK(v)' <=> BodyOK(v))
    BY <1>1 DEF Holds, Got, Owes, BodyOK, task
  <1>16. WorkerInv'
    <2>1. SUFFICES ASSUME NEW v \in Workers PROVE WorkerOK(v)'
      BY DEF WorkerInv
    <2>2. WorkerOK(v) /\ ch[v] \in Chunk /\ ch'[v] = ch[v]
      BY <1>1, FlowTypes DEF Flow, WorkerInv, task
    <2>3. QED
      BY <1>1, <1>13, <1>15, <2>2 DEF WorkerOK, ChunkOK, Ahead, RingBuf, Owes
  <1>17. UniqueInv'
    BY <1>1, <1>15 DEF Flow, UniqueInv, task
  <1>18. QED
    BY <1>10, <1>11, <1>12, <1>14, <1>16, <1>17 DEF Flow

\* The first chunk: a download of several parts, or of an empty range, which hands
\* out nothing.
LEMMA StartFlow ==
  ASSUME TypeOK, TypeOK', Shape, Flow, StartParts
  PROVE  Flow'
  <1>1. /\ rpc = "start" /\ rpc' = "return" /\ Concurrency # 1
        /\ UNCHANGED <<rPos, curBuf, out, task>>
        /\ SendChunkTask(TRUE, limit - 1, pc)
    BY DEF StartParts, reader
  <1>2. /\ nextChunk = 0 /\ pos = 0 /\ bufs = <<>> /\ concurrency = Concurrency /\ curBuf = 1
        /\ \A v \in Workers : pc[v] = "unborn"
    BY <1>1 DEF Shape, Untouched, FirstBuf
  <1>3. Cur' = Cur /\ Intact /\ Intact' /\ Concurrency \in Nat
    BY <1>1, ConcurrencyType DEF Cur, Intact
  <1>4. CASE Concurrency = 0
    <2>1. ~MayGrow
      BY <1>2, <1>4 DEF MayGrow
    <2>2. pc' = pc /\ UNCHANGED queue
      BY <1>1, <2>1 DEF SendChunkTask
    <2>3. Still
      BY <1>1, <1>3, <2>2 DEF Still, queue
    <2>4. QED
      BY <2>3, StillFlow
  <1>5. CASE Concurrency > 0
    <2>1. Concurrency >= 2 /\ concurrency > 0 /\ MayGrow
      BY <1>1, <1>2, <1>3, <1>5 DEF MayGrow
    <2>2. HandOut(TRUE)
      BY <1>1, <1>2, <2>1, SendHandsOut DEF Flow
    <2>3. pos < Length
      BY <1>2, <1>5, ConcurrencyType, SizeAssumption
    <2>4. \A v \in Workers : BodyOK(v)' /\ ~Holds(v)'
      <3>1. pc' = [pc EXCEPT ![NextWorker] = "recv"]
        BY <1>1, <2>1 DEF SendChunkTask
      <3>2. \A v \in Workers : pc'[v] \in {"unborn", "recv"}
        BY <1>2, <3>1 DEF TypeOK
      <3>3. QED
        BY <3>2 DEF BodyOK, Holds
    <2>5. SendStep(TRUE)
      BY <1>1, <1>2, <1>3, <2>1, <2>2, <2>3, <2>4 DEF SendStep, task
    <2>6. QED
      BY <2>5, SendFlow
  <1>6. QED
    BY <1>3, <1>4, <1>5

\* A worker whose connection works starts the next one and goes on.
LEMMA SpawnFlow ==
  ASSUME TypeOK, TypeOK', Shape, Flow, NEW w \in Workers, SpawnNext(w)
  PROVE  Flow'
  <1> DEFINE pcs == [pc EXCEPT ![w] = "copy"]
  <1>1. /\ pc[w] = "spawn" /\ UNCHANGED <<rpc, rPos, curBuf, out, task>>
        /\ SendChunkTask(TRUE, limit, pcs)
    BY DEF SpawnNext, WorkerStep, elsewhere, reader
  <1>2. nextChunk > 0 /\ PlanInv /\ RingInv /\ Concurrency >= 2 /\ WorkerInv
    BY <1>1 DEF Shape, LiveAfterChunk, Flow, PlanInv
  <1>3. HandOut(TRUE) /\ nextChunk # 0
    <2>1. nextChunk # 0
      BY <1>2
    <2>2. QED
      BY <1>1, <1>2, <2>1, SendHandsOut
  <1>4. Cur' = Cur /\ (Intact' <=> Intact)
    BY <1>1 DEF Cur, Intact
  <1>5. ASSUME NEW v \in Workers
        PROVE  BodyOK(v)' /\ (Holds(v)' => Holds(v) /\ Got(v)' = Got(v))
    <2>1. BodyOK(v) /\ pc \in [Workers -> PcValues]
      BY <1>2 DEF WorkerInv, WorkerOK, TypeOK
    <2>2. \/ pc' = pcs
          \/ pc' = [pcs EXCEPT ![NextWorker] = "recv"]
      BY <1>1 DEF SendChunkTask
    <2>3. pcs \in [Workers -> PcValues]
      BY <2>1 DEF PcValues
    <2>4. \/ pc'[v] = "recv"
          \/ v = w /\ pc'[v] = "copy"
          \/ v # w /\ pc'[v] = pc[v]
      BY <2>1, <2>2, <2>3
    <2>5. QED
      BY <1>1, <2>1, <2>4 DEF BodyOK, Holds, Got, task
  <1>6. SendStep(TRUE)
    BY <1>1, <1>2, <1>3, <1>4, <1>5 DEF SendStep, task
  <1>7. QED
    BY <1>6, SendFlow

\* The reader has read a chunk to the end: one more is handed out.
LEMMA FinishFlow ==
  ASSUME TypeOK, TypeOK', Shape, Flow, FinishBuf
  PROVE  Flow'
  <1>1. /\ rpc = "read" /\ rpc' = "finish" /\ UNCHANGED <<rPos, curBuf, out, task>>
        /\ SendChunkTask(FALSE, limit, pc) /\ ~IsLast(rPos + 1)
        /\ bufs[curBuf].off >= bufs[curBuf].size
    BY DEF FinishBuf, reader
  <1>2. rPos \in Nat /\ Parts \in Nat /\ Len(bufs) \in Nat /\ nextChunk \in Nat
    BY FlowTypes
  <1>3. PlanInv /\ RingInv /\ WorkerInv
    BY DEF Flow
  <1>4. nextChunk > 0 /\ curBuf = BufIndex(rPos, bufs) /\ Concurrency >= 2
    <2>1. curBuf \in 1..Len(bufs)
      BY <1>1 DEF Shape, ReaderInBuf
    <2>2. bufs # <<>>
      BY <1>2, <2>1
    <2>3. QED
      BY <1>2, <1>3, <2>2 DEF RingInv, PlanInv
  <1>5. HandOut(FALSE) /\ nextChunk # 0
    <2>1. nextChunk # 0
      BY <1>4
    <2>2. QED
      BY <1>1, <1>3, <1>4, <2>1, SendHandsOut
  <1>6. Cur = rPos /\ Cur' = Cur + 1 /\ Intact /\ Intact'
    BY <1>1, <1>2 DEF Cur, Intact
  <1>7. MovesOn
    BY <1>1, <1>2, <1>4, <1>6 DEF MovesOn, AtEnd, IsLast, RingBuf
  <1>8. pc' = pc
    BY <1>1 DEF SendChunkTask
  <1>9. \A v \in Workers : BodyOK(v)' /\ (Holds(v)' => Holds(v) /\ Got(v)' = Got(v))
    BY <1>1, <1>3, <1>8 DEF BodyOK, Holds, Got, task, WorkerInv, WorkerOK
  <1>10. SendStep(FALSE)
    BY <1>1, <1>4, <1>5, <1>6, <1>7, <1>9 DEF SendStep, task
  <1>11. QED
    BY <1>10, SendFlow

\* The other steps of a worker: it carries its chunk on or lets it go, it receives
\* a chunk, it hands one back, it writes a piece.
LEMMA WorkerFlow ==
  ASSUME TypeOK, TypeOK', Shape, Flow, NEW w \in Workers, OtherWorkerStep(w)
  PROVE  Flow'
  <1>0. WorkerOK(w)
    BY DEF Flow, WorkerInv
  <1>1. CASE CarryStep(w)
    BY <1>0, <1>1, CarryEffects, CarriesFlow
  <1>2. CASE Receive(w)
    BY <1>2, ReceiveFlow
  <1>3. CASE AnswerOverload(w)
    <2>1. CASE chunkChannel' = chunkChannel
      BY <1>1, <1>3, <2>1 DEF CarryStep
    <2>2. CASE chunkChannel' # chunkChannel
      <3>1. chunkChannel' = Append(chunkChannel, ch[w]) /\ Return(w, "revoked")
        BY <1>3, <2>2 DEF AnswerOverload
      <3>2. pc'[w] = "judge" /\ res'[w] = "revoked"
        BY <3>1 DEF Return, TypeOK
      <3>3. QED
        BY <1>3, <3>1, <3>2, HandBackFlow
    <2>3. QED
      BY <2>1, <2>2
  <1>4. CASE WriteBuf(w)
    <2>1. CASE bufs[ch[w].buf].closed
      <3>1. bufs' = bufs /\ crash' = "nil buffer" /\ crash = "no"
        BY <1>4, <2>1 DEF WriteBuf, WorkerStep
      <3>2. QED
        BY <1>1, <1>4, <3>1 DEF CarryStep
    <2>2. CASE ~bufs[ch[w].buf].closed
      <3>1. PICK k \in 1..(body[w].end - body[w].next) :
              /\ bufs' = [bufs EXCEPT ![ch[w].buf] =
                            Filled(bufs[ch[w].buf], Bytes(body[w].next, k))]
              /\ body' = [body EXCEPT ![w] = [next |-> body[w].next + k, end |-> body[w].end]]
              /\ n' = [n EXCEPT ![w] = n[w] + k]
              /\ pc' = [pc EXCEPT ![w] = "copy"]
        BY <1>4, <2>2 DEF WriteBuf
      <3>2. body[w].next \in Nat /\ body[w].end \in Int
        BY DEF TypeOK
      <3>3. k \in Nat /\ k > 0 /\ k <= body[w].end - body[w].next
        BY <3>2
      <3>4. Writes(w, k)
        BY <1>4, <3>1, <3>3 DEF Writes
      <3>5. QED
        BY <3>3, <3>4, WriteFlow
    <2>3. QED
      BY <2>1, <2>2
  <1>5. QED
    BY <1>1, <1>2, <1>3, <1>4 DEF OtherWorkerStep, CarryStep, Request

\* Every step keeps the invariant.
LEMMA FlowStep ==
  ASSUME TypeOK, TypeOK', Shape, Flow, [Next]_vars
  PROVE  Flow'
  <1>1. CASE UNCHANGED vars
    <2>1. Still
      BY <1>1 DEF Still, Cur, Intact, vars, pool, queue, state, workers, reader
    <2>2. QED
      BY <2>1, StillFlow
  <1>2. ASSUME NEW w \in Workers, Worker(w) PROVE Flow'
    BY <1>2, SpawnFlow, WorkerFlow DEF Worker, Copy, OtherWorkerStep
  <1>3. CASE StartParts
    BY <1>3, StartFlow
  <1>4. CASE FinishBuf
    BY <1>4, FinishFlow
  <1>5. CASE QuietStep
    BY <1>5, QuietStill, StillFlow, ReadFlow
  <1>6. QED
    BY <1>1, <1>2, <1>3, <1>4, <1>5 DEF Next, Caller, Open, Consume, QuietStep

\* The invariant holds before anything is handed out.
LEMMA InitFlow ==
  ASSUME Init
  PROVE  Flow
  <1>0. TypeOK /\ Parts \in Nat /\ Concurrency \in Nat
    BY InitShape, ConcurrencyType
  <1>1. /\ nextChunk = 0 /\ pos = 0 /\ bufs = <<>> /\ chunkChannel = <<>> /\ rPos = 0
        /\ rpc = "start" /\ out = <<>> /\ concurrency = Concurrency
        /\ \A w \in Workers : pc[w] = "unborn"
    BY DEF Init
  <1>2. Cur = 0
    BY <1>1 DEF Cur
  <1>3. PlanInv /\ BudgetInv
    BY <1>0, <1>1, <1>2, PlanEnds DEF PlanInv, BudgetInv
  <1>4. RingInv
    <2>1. concurrency > 0 => Len(bufs) = 0
      BY <1>1
    <2>2. QED
      BY <1>1, <1>2, <2>1 DEF RingInv
  <1>5. DataInv
    <2>1. InOrder
      BY <1>1 DEF InOrder
    <2>2. Cur..(nextChunk - 1) = {}
      BY <1>1, <1>2
    <2>3. QED
      BY <1>1, <2>1, <2>2 DEF DataInv
  <1>6. QueueInv /\ WorkerInv /\ UniqueInv
    <2>1. Len(chunkChannel) = 0
      BY <1>1
    <2>2. \A w \in Workers : ~Holds(w) /\ ~Owes(w) /\ BodyOK(w)
      BY <1>1 DEF Holds, Owes, BodyOK
    <2>3. QED
      BY <2>1, <2>2 DEF QueueInv, WorkerInv, WorkerOK, UniqueInv
  <1>7. QED
    BY <1>3, <1>4, <1>5, <1>6 DEF Flow

-----------------------------------------------------------------------------
(* What follows for the plan, the ring and the stream.                      *)

\* The invariant holds throughout every download.
THEOREM FlowHolds == Spec => [](TypeOK /\ Shape /\ Flow)
  <1>1. Init => TypeOK /\ Shape /\ Flow
    BY InitShape, InitFlow
  <1>2. TypeOK /\ Shape /\ Flow /\ [Next]_vars => (TypeOK /\ Shape /\ Flow)'
    BY TypeStep, ShapeStep, FlowStep
  <1>3. QED
    BY <1>1, <1>2, PTL DEF Spec

\* The chunks announced to the reader are the chunks handed out: sendChunkTask has
\* handed out the last of them exactly when it has handed out the whole range.
THEOREM PlanAgreesAlways == Spec => []PlanAgrees
  <1>1. ASSUME TypeOK, Flow PROVE PlanAgrees
    <2>1. PlanInv /\ nextChunk \in Nat /\ Parts \in Nat /\ Length \in Nat /\ Concurrency \in Nat
          /\ pos \in Nat
      BY <1>1, FlowTypes DEF Flow
    <2>2. CASE Concurrency >= 2
      BY <1>1, <2>1, <2>2, PlanLeft DEF PlanAgrees
    <2>3. CASE Concurrency < 2
      <3>1. nextChunk = 0 /\ pos = 0
        BY <2>1, <2>3, PlanEnds DEF PlanInv
      <3>2. Parts = 0 <=> Length = 0
        BY <2>1, ConcurrencyType, ConfigAssumption DEF Concurrency
      <3>3. QED
        BY <2>1, <3>1, <3>2 DEF PlanAgrees
    <2>4. QED
      BY <2>1, <2>2, <2>3
  <1>2. QED
    BY <1>1, FlowHolds, PTL

\* The consumer is given the bytes of the range, each once and in order.
THEOREM InOrderAlways == Spec => []InOrder
  <1>1. Flow => InOrder
    BY DEF Flow, DataInv
  <1>2. QED
    BY <1>1, FlowHolds, PTL

\* A chunk that still has bytes to come is one of the window, in its buffer.
LEMMA PendingInWindow ==
  ASSUME TypeOK, Flow, NEW c \in Pending
  PROVE  c.id \in Nat /\ c.id >= Cur /\ c.id < nextChunk /\ c.buf = BufIndex(c.id, bufs)
  <1>1. CASE \E i \in 1..Len(chunkChannel) : c = chunkChannel[i] /\ c.size > 0
    BY <1>1, FlowTypes DEF Flow, QueueInv, ChunkOK, Ahead, Chunk
  <1>2. CASE \E w \in Owing : c = ch[w]
    <2>1. PICK w \in Owing : c = ch[w]
      BY <1>2
    <2>2. w \in Workers /\ Owes(w) /\ WorkerOK(w)
      BY <2>1 DEF Flow, WorkerInv, Owing, Owes, WorkerOK, BodyOK, Holds, Got
    <2>3. QED
      BY <2>1, <2>2, FlowTypes DEF WorkerOK, Owes, ChunkOK, Ahead, Chunk
  <1>3. QED
    BY <1>1, <1>2 DEF Pending

\* No two chunks with bytes to come share a buffer, no two workers the rest of a
\* chunk, and none of them writes where the consumer reads, but for its own chunk.
THEOREM BuffersExclusiveAlways == Spec => []BuffersExclusive
  <1>1. ASSUME TypeOK, Flow PROVE BuffersExclusive
    <2>1. RingInv /\ UniqueInv /\ nextChunk \in Nat /\ Cur \in Nat /\ rPos \in Nat
      BY <1>1, FlowTypes DEF Flow
    <2>2. ASSUME NEW c \in Pending, NEW d \in Pending, c.buf = d.buf PROVE c.id = d.id
      BY <1>1, <2>1, <2>2, PendingInWindow, Window
    <2>3. ASSUME NEW v \in Owing, NEW w \in Owing, v # w PROVE ch[v].id # ch[w].id
      <3>1. \A u \in Owing : u \in Workers /\ Owes(u)
        BY <1>1 DEF Flow, WorkerInv, Owing, Owes, WorkerOK, BodyOK, Holds, Got
      <3>2. QED
        BY <2>1, <2>3, <3>1 DEF UniqueInv
    <2>4. ASSUME rpc = "read", NEW c \in Pending
          PROVE  c.id >= rPos /\ (c.buf = curBuf => c.id = rPos)
      <3>1. Cur = rPos
        BY <2>1, <2>4 DEF Cur
      <3>2. c.id \in Nat /\ c.id >= Cur /\ c.id < nextChunk /\ c.buf = BufIndex(c.id, bufs)
        BY <1>1, <2>4, PendingInWindow
      <3>3. curBuf = BufIndex(rPos, bufs) /\ rPos < nextChunk
        BY <2>1, <3>1, <3>2 DEF RingInv
      <3>4. QED
        BY <1>1, <2>1, <3>1, <3>2, <3>3, Window
    <2>5. QED
      BY <2>2, <2>3, <2>4 DEF BuffersExclusive
  <1>2. QED
    BY <1>1, FlowHolds, PTL

-----------------------------------------------------------------------------
(***************************************************************************)
(* The download implements the stream its caller was promised.             *)
(***************************************************************************)
\* The status of the stream, as the refinement has it.
Status ==
  CASE rpc \in {"start", "return", "single"} -> "opening"
    [] rpc \in {"read", "finish", "stream"} -> "open"
    [] rpc \in {"refused", "discarded", "err"} -> "failed"
    [] rpc = "eof" -> "eof"
    [] OTHER -> "closed"

\* What the status is where the caller is.
LEMMA StatusAt ==
  ASSUME rpc \in RpcValues
  PROVE  /\ rpc \in {"start", "return", "single"} <=> Status = "opening"
         /\ rpc \in {"read", "finish", "stream"} <=> Status = "open"
         /\ rpc \in {"refused", "discarded", "err"} <=> Status = "failed"
         /\ rpc = "eof" <=> Status = "eof"
         /\ rpc \in {"setErr", "cancel", "close", "drop", "negate", "closed"} <=> Status = "closed"
  BY DEF Status, RpcValues

\* And after a step.
LEMMA StatusNext ==
  ASSUME rpc' \in RpcValues
  PROVE  /\ rpc' \in {"start", "return", "single"} <=> Status' = "opening"
         /\ rpc' \in {"read", "finish", "stream"} <=> Status' = "open"
         /\ rpc' \in {"refused", "discarded", "err"} <=> Status' = "failed"
         /\ rpc' = "eof" <=> Status' = "eof"
         /\ rpc' \in {"setErr", "cancel", "close", "drop", "negate", "closed"} <=> Status' = "closed"
  BY DEF Status, RpcValues

\* The steps of the stream, in the terms of the download.
StreamStep ==
  \/ UNCHANGED <<out, Status>>
  \/ Status = "opening" /\ Status' \in {"open", "failed"} /\ out' = out
  \/ /\ Status = "open" /\ Status' = Status
     /\ \E k \in 1..(Length - Len(out)) : out' = out \o [i \in 1..k |-> Len(out) + i - 1]
  \/ Status = "open" /\ Len(out) = Length /\ Status' = "eof" /\ out' = out
  \/ Status = "open" /\ Status' = "failed" /\ out' = out
  \/ Status \in {"open", "eof", "failed"} /\ Status' = "closed" /\ out' = out

\* A worker moves neither the caller nor what it was given.
LEMMA WorkersKeepStream ==
  ASSUME NEW w \in Workers, Worker(w)
  PROVE  rpc' = rpc /\ out' = out
  <1> USE DEF elsewhere, reader
  <1>1. CASE Receive(w) \/ ReceiveClosed(w) \/ CheckErr(w) \/ RetryLoop(w)
    BY <1>1 DEF Receive, ReceiveClosed, CheckErr, RetryLoop
  <1>2. CASE Request(w)
    BY <1>2 DEF Request, AnswerBody, AnswerMismatch, AnswerError, AnswerOverload, LockM2, UnlockM2
  <1>3. CASE Copy(w)
    BY <1>3 DEF Copy, SpawnNext, CopyEnd, CopyBreak, WriteCheck, WriteBuf
  <1>4. CASE Judge(w)
    BY <1>4 DEF Judge, JudgeOk, JudgeStopped, JudgeRetry, JudgeOther, JudgeRevoked, SetErr, Cancel
  <1>5. QED
    BY <1>1, <1>2, <1>3, <1>4 DEF Worker

\* What was delivered is never more than the range, and all of it once the last
\* chunk is read to its end.
LEMMA Delivered ==
  ASSUME TypeOK, Shape, Flow, Intact
  PROVE  /\ Len(out) \in Nat
         /\ rpc = "read" => Len(out) + Len(bufs[curBuf].data) <= Length
         /\ rpc = "read" /\ bufs[curBuf].off >= bufs[curBuf].size /\ rPos + 1 >= Parts
              => Len(out) = Length
  <1>0. /\ nextChunk \in Nat /\ Cur \in Nat /\ rPos \in Nat /\ Length \in Nat /\ out \in Seq(Nat)
        /\ Parts \in Nat /\ PlanInv /\ RingInv /\ DataInv /\ Len(bufs) \in Nat
    BY FlowTypes DEF Flow, TypeOK
  <1>1. Len(out) \in Nat
    BY <1>0
  <1>2. ASSUME rpc = "read"
        PROVE  Cur = rPos /\ curBuf = BufIndex(rPos, bufs) /\ Cur < nextChunk /\ nextChunk <= Parts
               /\ Parts >= 2
    <2>1. curBuf \in 1..Len(bufs)
      BY <1>2 DEF Shape, ReaderInBuf
    <2>2. bufs # <<>>
      BY <1>0, <2>1
    <2>3. QED
      BY <1>0, <1>2, <2>2, SeveralParts DEF RingInv, PlanInv, Cur
  <1>3. ASSUME rpc = "read" PROVE Len(out) + Len(bufs[curBuf].data) <= Length
    <2> DEFINE b == RingBuf(Cur)
    <2>1. BufOK(Cur) /\ Len(out) = Start(Cur) + b.off /\ bufs[curBuf] = b
      BY <1>0, <1>2, <1>3 DEF DataInv, RingBuf
    <2>2. b.off \in Nat /\ Len(b.data) \in Nat /\ b.size \in Nat
      BY <1>0, <1>2, <1>3, HasBuffer
    <2>3. b.size = Size(Cur) /\ b.off + Len(b.data) <= b.size
      BY <2>1 DEF BufOK
    <2>4. Start(Cur) \in Nat /\ Start(Cur + 1) = Start(Cur) + Size(Cur) /\ Start(Cur + 1) <= Length
      BY <1>0, <1>2, <1>3, PlanTiles
    <2> DEFINE s == Start(Cur)
               o == b.off
               m == Len(b.data)
               z == b.size
    <2>5. s \in Nat /\ o \in Nat /\ m \in Nat /\ z \in Nat /\ o + m <= z /\ s + z <= Length
      BY <2>2, <2>3, <2>4
    <2> HIDE DEF s, o, m, z, b
    <2>6. (s + o) + m <= Length
      BY <1>0, <2>5
    <2>7. QED
      BY <2>1, <2>6 DEF s, o, m
  <1>4. ASSUME rpc = "read", bufs[curBuf].off >= bufs[curBuf].size, rPos + 1 >= Parts
        PROVE  Len(out) = Length
    <2>1. AtEnd
      BY <1>0, <1>2, <1>4 DEF AtEnd, RingBuf
    <2>2. Len(out) = Start(Cur + 1) /\ Cur + 1 = Parts
      BY <1>0, <1>2, <1>4, <2>1, ReadThrough
    <2>3. QED
      BY <1>2, <1>4, <2>2, PlanEnds
  <1>5. QED
    BY <1>1, <1>3, <1>4

\* Read delivers the next piece of the range.
LEMMA ReadDelivers ==
  ASSUME TypeOK, TypeOK', Shape, Shape', Flow, Flow', Read
  PROVE  StreamStep
  <1>1. rpc = "read" /\ rpc' = rpc /\ Intact /\ Intact'
    BY DEF Read, Intact
  <1>2. Status = "open" /\ Status' = Status
    BY <1>1, StatusAt, StatusNext DEF TypeOK
  <1>3. PICK k \in 1..Len(bufs[curBuf].data) : out' = out \o SubSeq(bufs[curBuf].data, 1, k)
    BY DEF Read
  <1> DEFINE l == Len(out)
             p == SubSeq(bufs[curBuf].data, 1, k)
  <1>4. /\ out \in Seq(Nat) /\ l \in Nat /\ bufs[curBuf].data \in Seq(Nat)
        /\ k \in Nat /\ k > 0 /\ p \in Seq(Nat) /\ Len(p) = k
    <2>1. out \in Seq(Nat) /\ bufs \in Seq(Buf) /\ curBuf \in 1..Len(bufs)
      BY <1>1 DEF TypeOK, Shape, ReaderInBuf
    <2>2. bufs[curBuf] \in Buf
      BY <2>1
    <2>3. bufs[curBuf].data \in Seq(Nat)
      BY <2>2 DEF Buf
    <2>4. QED
      BY <2>1, <2>3
  <1> HIDE DEF p
  <1>5. Len(out') = l + k /\ \A i \in 1..k : out'[l + i] = p[i]
    <2> DEFINE u == out \o p
    <2>1. /\ Len(u) = l + k
          /\ \A i \in 1..(l + k) : u[i] = IF i <= l THEN out[i] ELSE p[i - l]
      BY <1>4, SeqFacts!ConcatProperties
    <2> HIDE DEF u
    <2>2. \A i \in 1..k : l + i \in 1..(l + k) /\ ~(l + i <= l) /\ (l + i) - l = i
      BY <1>4
    <2>3. out' = u
      BY <1>3 DEF u, p
    <2>4. QED
      BY <2>1, <2>2, <2>3
  <1>6. \A i \in 1..k : p[i] = l + i - 1
    <2>1. out' = [i \in 1..(l + k) |-> i - 1]
      BY <1>5 DEF Flow, DataInv, InOrder
    <2>2. \A i \in 1..k : l + i \in 1..(l + k)
      BY <1>4
    <2>3. QED
      BY <1>5, <2>1, <2>2
  <1>7. p = [i \in 1..k |-> l + i - 1]
    <2>1. p = [i \in 1..k |-> p[i]]
      BY <1>4
    <2>2. QED
      BY <1>6, <2>1
  <1>8. k \in 1..(Length - l)
    <2> DEFINE m == Len(bufs[curBuf].data)
    <2>1. l + m <= Length /\ m \in Nat /\ k <= m
      BY <1>1, <1>4, Delivered
    <2> HIDE DEF m
    <2>2. QED
      BY <1>4, <2>1, SizeAssumption
  <1>9. QED
    BY <1>2, <1>3, <1>7, <1>8 DEF StreamStep, p

\* Every step is a step of the stream or none.
LEMMA StreamSteps ==
  ASSUME TypeOK, TypeOK', Shape, Shape', Flow, Flow', [Next]_vars
  PROVE  StreamStep
  <1>0. rpc \in RpcValues /\ rpc' \in RpcValues
    BY DEF TypeOK
  <1>1. CASE UNCHANGED <<rpc, out>>
    BY <1>1 DEF StreamStep, Status
  <1>2. CASE Read
    BY <1>2, ReadDelivers
  <1>3. CASE ReadEOF
    <2>1. rpc = "read" /\ rpc' = "eof" /\ out' = out /\ Intact
      BY <1>3 DEF ReadEOF, reader, Intact
    <2>2. Len(out) = Length
      BY <1>3, <2>1, Delivered DEF ReadEOF, IsLast
    <2>3. QED
      BY <1>0, <2>1, <2>2, StatusAt, StatusNext DEF StreamStep
  <1>4. CASE Open
    <2>1. /\ rpc \in {"start", "single", "return"} /\ out' = out
          /\ rpc' \in {"refused", "single", "return", "stream", "discarded", "read"}
      BY <1>4 DEF Open, Refuse, StartSingle, StartParts, SingleAnswer, ReturnReader, reader
    <2>2. QED
      BY <1>0, <2>1, StatusAt, StatusNext DEF StreamStep
  <1>5. CASE ReadCancelled \/ FinishBuf \/ NextBuf
    <2>1. /\ rpc \in {"read", "finish"} /\ rpc' \in {"err", "finish", "read"} /\ out' = out
      BY <1>5 DEF ReadCancelled, FinishBuf, NextBuf, reader
    <2>2. QED
      BY <1>0, <2>1, StatusAt, StatusNext DEF StreamStep
  <1>6. CASE Interrupt \/ Close
    <2>1. /\ rpc \in {"read", "eof", "err", "stream", "setErr", "cancel", "close", "drop", "negate"}
          /\ rpc' \in {"setErr", "cancel", "close", "drop", "negate", "closed"} /\ out' = out
      BY <1>6 DEF Interrupt, Close, CloseSetErr, CloseCancel, CloseChannel, CloseBufs,
        CloseNegate, CloseCheck, CloseSingle, reader
    <2>2. QED
      BY <1>0, <2>1, StatusAt, StatusNext DEF StreamStep
  <1>7. CASE KeeperExit \/ ParentCancel \/ OthersTake \/ OthersReturn
    BY <1>1, <1>7 DEF KeeperExit, ParentCancel, OthersTake, OthersReturn, reader
  <1>8. CASE UNCHANGED vars
    BY <1>1, <1>8 DEF vars, reader
  <1>9. CASE \E w \in Workers : Worker(w)
    BY <1>1, <1>9, WorkersKeepStream
  <1>10. QED
    BY <1>2, <1>3, <1>4, <1>5, <1>6, <1>7, <1>8, <1>9 DEF Next, Caller, Consume

\* The caller sees the stream ByteStream describes: the bytes of the range in order,
\* an end only after the last of them, or a failure, and nothing after the close.
THEOREM StreamRefined == Spec => ImplementsStream
  <1>1. Init => Stream!Init
    BY DEF Init, Stream!Init
  <1>2. ASSUME TypeOK, Shape, Flow, [Next]_vars
        PROVE  [Stream!Next]_(Stream!vars)
    <2>1. TypeOK' /\ Shape' /\ Flow'
      BY <1>2, TypeStep, ShapeStep, FlowStep
    <2>2. StreamStep
      BY <1>2, <2>1, StreamSteps
    <2>3. QED
      BY <2>2 DEF StreamStep, Status, Stream!Next, Stream!vars, Stream!Open, Stream!Deliver,
        Stream!End, Stream!Fail, Stream!Close
  <1>3. QED
    BY <1>1, <1>2, FlowHolds, PTL DEF Spec, ImplementsStream, Stream!Spec

-----------------------------------------------------------------------------
(***************************************************************************)
(* The size of the pool.                                                   *)
(***************************************************************************)
\* What close leaves behind, in its order: the context is cancelled before the
\* channel is closed and the budget is taken away.
CloseInv ==
  /\ chClosed => ctxDone
  /\ rpc \in {"close", "drop", "negate"} => ctxDone

Undisturbed == err = "nil" /\ ~ctxDone

\* A worker neither closes the channel nor undoes an error or a cancellation.
LEMMA WorkersLeave ==
  ASSUME NEW w \in Workers, Worker(w)
  PROVE  /\ rpc' = rpc /\ chClosed' = chClosed
         /\ ctxDone => ctxDone'
         /\ err # "nil" => err' # "nil"
  <1> USE DEF elsewhere, queue, state
  <1>1. CASE Receive(w) \/ ReceiveClosed(w) \/ CheckErr(w) \/ RetryLoop(w)
    BY <1>1 DEF Receive, ReceiveClosed, CheckErr, RetryLoop
  <1>2. CASE Request(w)
    <2>1. CASE AnswerOverload(w)
      BY <2>1 DEF AnswerOverload
    <2>2. CASE AnswerBody(w) \/ AnswerMismatch(w) \/ AnswerError(w)
      BY <2>2 DEF AnswerBody, AnswerMismatch, AnswerError
    <2>3. CASE LockM2(w) \/ UnlockM2(w)
      BY <2>3 DEF LockM2, UnlockM2
    <2>4. QED
      BY <1>2, <2>1, <2>2, <2>3 DEF Request
  <1>3. CASE SpawnNext(w) \/ WriteBuf(w)
    <2>1. CASE SpawnNext(w)
      BY <2>1 DEF SpawnNext, SendChunkTask
    <2>2. CASE WriteBuf(w)
      BY <2>2 DEF WriteBuf
    <2>3. QED
      BY <1>3, <2>1, <2>2
  <1>4. CASE CopyEnd(w) \/ CopyBreak(w) \/ WriteCheck(w)
    BY <1>4 DEF CopyEnd, CopyBreak, WriteCheck
  <1>5. CASE Judge(w)
    BY <1>5 DEF Judge, JudgeOk, JudgeStopped, JudgeRetry, JudgeOther, JudgeRevoked, SetErr, Cancel
  <1>6. QED
    BY <1>1, <1>2, <1>3, <1>4, <1>5 DEF Worker, Copy

\* Nothing undoes a disturbance, and close keeps its order.
LEMMA CloseStep ==
  ASSUME CloseInv, [Next]_vars
  PROVE  /\ CloseInv'
         /\ Undisturbed' => Undisturbed
  <1> USE DEF CloseInv, Undisturbed, queue, state
  <1>1. CASE UNCHANGED vars
    BY <1>1 DEF vars
  <1>2. CASE \E w \in Workers : Worker(w)
    BY <1>2, WorkersLeave
  <1>3. CASE StartParts \/ FinishBuf
    BY <1>3 DEF StartParts, FinishBuf, SendChunkTask
  <1>4. CASE Refuse \/ StartSingle \/ SingleAnswer \/ ReturnReader
    <2>1. /\ UNCHANGED <<chClosed, err, ctxDone>>
          /\ rpc' \notin {"close", "drop", "negate"} \/ rpc' = rpc
      <3>1. CASE ReturnReader
        BY <3>1 DEF ReturnReader
      <3>2. QED
        BY <1>4, <3>1 DEF Refuse, StartSingle, SingleAnswer
    <2>2. QED
      BY <2>1
  <1>5. CASE Read \/ ReadCancelled \/ ReadEOF \/ NextBuf
    BY <1>5 DEF Read, ReadCancelled, ReadEOF, NextBuf
  <1>6. CASE Interrupt \/ Close
    BY <1>6 DEF Interrupt, Close, CloseSetErr, CloseCancel, CloseChannel, CloseBufs,
      CloseNegate, CloseCheck, CloseSingle
  <1>7. CASE KeeperExit \/ ParentCancel \/ OthersTake \/ OthersReturn
    BY <1>7 DEF KeeperExit, ParentCancel, OthersTake, OthersReturn
  <1>8. QED
    BY <1>1, <1>2, <1>3, <1>4, <1>5, <1>6, <1>7 DEF Next, Caller, Open, Consume

\* A worker that is alive and has not handed its chunk back.
InPool(w) == Live(w) /\ ~(pc[w] = "judge" /\ res[w] = "revoked")

\* In a download that is not disturbed a worker leaves the pool only by handing its
\* chunk back, which the counter takes note of.
LEMMA PoolEffects ==
  ASSUME TypeOK, CloseInv, NEW w \in Workers, OtherWorkerStep(w), Undisturbed, Undisturbed'
  PROVE  /\ \A v \in Workers : v # w => (InPool(v)' <=> InPool(v))
         /\ \/ (InPool(w)' <=> InPool(w)) /\ concurrency' = concurrency
            \/ InPool(w) /\ ~InPool(w)' /\ concurrency' = Stopped - 1
  <1> USE DEF InPool, Live, WorkerStep, Undisturbed
  <1>0. pc \in [Workers -> PcValues] /\ res \in [Workers -> Outcomes]
    BY DEF TypeOK
  <1>1. CASE Receive(w) \/ CheckErr(w) \/ RetryLoop(w)
    BY <1>0, <1>1 DEF Receive, CheckErr, RetryLoop, queue, task
  <1>2. CASE ReceiveClosed(w)
    BY <1>2 DEF ReceiveClosed, CloseInv
  <1>3. CASE AnswerBody(w) \/ AnswerMismatch(w)
    BY <1>0, <1>3 DEF AnswerBody, AnswerMismatch, queue, task
  <1>4. CASE AnswerError(w)
    BY <1>0, <1>4 DEF AnswerError, Return, queue
  <1>5. CASE AnswerOverload(w)
    <2>1. pc[w] = "http" /\ ~chClosed
      BY <1>5 DEF AnswerOverload, CloseInv
    <2>2. CASE ch[w].newConcurrency \/ concurrency > 0
      BY <1>0, <1>5, <2>1, <2>2 DEF AnswerOverload, Return
    <2>3. CASE ~(ch[w].newConcurrency \/ concurrency > 0)
      BY <1>0, <1>5, <2>1, <2>3 DEF AnswerOverload, Return
    <2>4. QED
      BY <2>2, <2>3
  <1>6. CASE LockM2(w) \/ UnlockM2(w)
    BY <1>0, <1>6 DEF LockM2, UnlockM2, Return, queue, task
  <1>7. CASE CopyEnd(w) \/ CopyBreak(w)
    BY <1>0, <1>7 DEF CopyEnd, CopyBreak, Return, queue
  <1>8. CASE WriteCheck(w) \/ WriteBuf(w)
    BY <1>0, <1>8 DEF WriteCheck, WriteBuf, queue, task
  <1>9. CASE JudgeOk(w) \/ JudgeStopped(w)
    BY <1>0, <1>9 DEF JudgeOk, JudgeStopped, queue, task
  <1>10. CASE JudgeRetry(w) \/ JudgeOther(w) \/ JudgeRevoked(w)
    BY <1>0, <1>10 DEF JudgeRetry, JudgeOther, JudgeRevoked, Judged, Exit, queue, task
  <1>11. CASE SetErr(w) \/ Cancel(w)
    BY <1>11 DEF SetErr, Cancel
  <1>12. QED
    BY <1>1, <1>2, <1>3, <1>4, <1>5, <1>6, <1>7, <1>8, <1>9, <1>10, <1>11
      DEF OtherWorkerStep, Request, Judge

\* The pool is finite.
LEMMA PoolFinite ==
  /\ Kept = {w \in Workers : InPool(w)} /\ IsFiniteSet(Kept) /\ Cardinality(Kept) \in Nat
  <1>1. Kept = {w \in Workers : InPool(w)}
    BY DEF Kept, LiveWorkers, InPool
  <1>2. IsFiniteSet(Workers)
    BY ConcurrencyType, FS_Interval DEF Workers
  <1>3. IsFiniteSet(Kept)
    BY <1>1, <1>2, FS_Subset
  <1>4. QED
    BY <1>1, <1>3, FS_CardinalityType

\* sendChunkTask takes one off the budget for each worker it adds.
LEMMA PoolGrows ==
  ASSUME TypeOK, Shape, PoolCounted, Undisturbed, Concurrency > 1,
         NEW pcs \in [Workers -> PcValues],
         \A v \in Workers : (pcs[v] = "unborn" <=> pc[v] = "unborn") /\
           (InPool(v) <=> pcs[v] \notin {"unborn", "exited"} /\ ~(pcs[v] = "judge" /\ res[v] = "revoked")),
         NEW nc \in BOOLEAN, NEW lim, SendEffect(nc, lim, pcs), res' = res
  PROVE  PoolCounted'
  <1>1. concurrency \in Int /\ concurrency <= Concurrency /\ Concurrency \in Nat
    BY ConcurrencyType DEF TypeOK
  <1>2. Kept' = {w \in Workers : InPool(w)'}
    BY DEF Kept, LiveWorkers, InPool, Live
  <1>3. Cardinality(Kept) =
          IF concurrency > 0 THEN Concurrency - concurrency ELSE Concurrency + concurrency
    BY DEF PoolCounted, Undisturbed
  <1>4. CASE pc' = pcs /\ concurrency' = concurrency
    <2>1. Kept' = Kept
      BY <1>2, <1>4, PoolFinite DEF InPool, Live
    <2>2. QED
      BY <1>3, <1>4, <2>1 DEF PoolCounted
  <1>5. CASE MayGrow /\ pc' = [pcs EXCEPT ![NextWorker] = "recv"] /\ concurrency' = concurrency - 1
    <2>1. concurrency > 0
      BY <1>5 DEF MayGrow
    <2>2. PICK u \in Workers : u = NextWorker /\ u > Concurrency - concurrency
      BY <1>1, <2>1 DEF NextWorker, Workers
    <2>3. pc[u] = "unborn"
      BY <1>1, <2>1, <2>2 DEF Shape, BudgetUnborn
    <2>4. ~InPool(u) /\ InPool(u)'
      BY <1>5, <2>2, <2>3 DEF InPool, Live
    <2>5. \A v \in Workers : v # u => (InPool(v)' <=> InPool(v))
      BY <1>5, <2>2 DEF InPool, Live
    <2>6. Kept' = Kept \cup {u} /\ u \notin Kept
      BY <1>2, <2>2, <2>4, <2>5, PoolFinite
    <2>7. Cardinality(Kept') = Cardinality(Kept) + 1
      BY <2>6, PoolFinite, FS_AddElement
    <2>8. Cardinality(Kept') =
            IF concurrency' > 0 THEN Concurrency - concurrency' ELSE Concurrency + concurrency'
      BY <1>1, <1>3, <1>5, <2>1, <2>7
    <2>9. QED
      BY <2>8 DEF PoolCounted
  <1>6. QED
    BY <1>4, <1>5 DEF SendEffect

\* Every step keeps the count.
LEMMA PoolStep ==
  ASSUME TypeOK, Shape, CloseInv, PoolCounted, [Next]_vars
  PROVE  PoolCounted'
  <1>1. SUFFICES ASSUME Undisturbed', Concurrency > 1
                 PROVE  PoolCounted'
    BY DEF PoolCounted, Undisturbed
  <1>2. Undisturbed
    BY <1>1, CloseStep
  <1>3. concurrency \in Int /\ concurrency <= Concurrency /\ Concurrency \in Nat
    BY ConcurrencyType DEF TypeOK
  <1>4. Cardinality(Kept) =
          IF concurrency > 0 THEN Concurrency - concurrency ELSE Concurrency + concurrency
    BY <1>1, <1>2 DEF PoolCounted, Undisturbed
  <1>5. Kept = {w \in Workers : InPool(w)} /\ Kept' = {w \in Workers : InPool(w)'}
    BY PoolFinite DEF Kept, LiveWorkers, InPool, Live
  <1>6. CASE UNCHANGED <<pc, res, concurrency>>
    <2>1. Kept' = Kept
      BY <1>5, <1>6 DEF InPool, Live
    <2>2. QED
      BY <1>4, <1>6, <2>1 DEF PoolCounted
  <1>7. ASSUME NEW w \in Workers, OtherWorkerStep(w) PROVE PoolCounted'
    <2>1. \A v \in Workers : v # w => (InPool(v)' <=> InPool(v))
      BY <1>1, <1>2, <1>7, PoolEffects
    <2>2. CASE (InPool(w)' <=> InPool(w)) /\ concurrency' = concurrency
      <3>1. Kept' = Kept
        BY <1>5, <2>1, <2>2
      <3>2. QED
        BY <1>4, <2>2, <3>1 DEF PoolCounted
    <2>3. CASE InPool(w) /\ ~InPool(w)' /\ concurrency' = Stopped - 1
      <3>1. Kept' = Kept \ {w} /\ w \in Kept
        BY <1>5, <2>1, <2>3
      <3>2. Cardinality(Kept') = Cardinality(Kept) - 1
        BY <3>1, PoolFinite, FS_RemoveElement
      <3>3. Cardinality(Kept') = Concurrency + concurrency' /\ ~(concurrency' > 0)
        BY <1>3, <1>4, <2>3, <3>2 DEF Stopped
      <3>4. QED
        BY <3>3 DEF PoolCounted
    <2>4. QED
      BY <1>1, <1>2, <1>7, <2>2, <2>3, PoolEffects
  <1>8. ASSUME NEW w \in Workers, SpawnNext(w) PROVE PoolCounted'
    <2> DEFINE pcs == [pc EXCEPT ![w] = "copy"]
    <2>1. pc[w] = "spawn" /\ res' = res /\ SendChunkTask(TRUE, limit, pcs)
      BY <1>8 DEF SpawnNext, WorkerStep, task
    <2>2. SendEffect(TRUE, limit, pcs)
      BY <2>1, SendEffects
    <2>3. pc \in [Workers -> PcValues] /\ pcs \in [Workers -> PcValues]
      BY DEF TypeOK, PcValues
    <2>4. \A v \in Workers :
            (pcs[v] = "unborn" <=> pc[v] = "unborn") /\
            (InPool(v) <=> pcs[v] \notin {"unborn", "exited"}
                           /\ ~(pcs[v] = "judge" /\ res[v] = "revoked"))
      BY <2>1, <2>3 DEF InPool, Live
    <2> HIDE DEF pcs
    <2>5. QED
      BY <1>1, <1>2, <2>1, <2>2, <2>3, <2>4, PoolGrows
  <1>9. CASE StartParts \/ FinishBuf
    <2>1. res' = res
      BY <1>9 DEF StartParts, FinishBuf, task
    <2>2. pc \in [Workers -> PcValues]
          /\ \A v \in Workers :
               (InPool(v) <=> pc[v] \notin {"unborn", "exited"}
                              /\ ~(pc[v] = "judge" /\ res[v] = "revoked"))
      BY DEF TypeOK, InPool, Live
    <2>3. SendEffect(TRUE, limit - 1, pc) \/ SendEffect(FALSE, limit, pc)
      BY <1>9, SendEffects DEF StartParts, FinishBuf
    <2>4. QED
      BY <1>1, <1>2, <2>1, <2>2, <2>3, PoolGrows
  <1>10. CASE QuietStep
    <2>1. pc' = pc
      BY <1>10, QuietShape
    <2>2. res' = res
      BY <1>10 DEF QuietStep, Interrupt, Close, Refuse, StartSingle, SingleAnswer, ReturnReader,
        Read, ReadCancelled, ReadEOF, NextBuf, CloseSetErr, CloseCancel, CloseChannel, CloseBufs,
        CloseNegate, CloseCheck, CloseSingle, KeeperExit, ParentCancel, OthersTake, OthersReturn,
        workers, task
    <2>3. ~CloseNegate
      BY <1>2 DEF CloseNegate, CloseInv, Undisturbed
    <2>4. concurrency' = concurrency
      BY <1>10, <2>3 DEF QuietStep, Interrupt, Close, Refuse, StartSingle, SingleAnswer,
        ReturnReader, Read, ReadCancelled, ReadEOF, NextBuf, CloseSetErr, CloseCancel,
        CloseChannel, CloseBufs, CloseCheck, CloseSingle, KeeperExit, ParentCancel, OthersTake,
        OthersReturn, queue
    <2>5. QED
      BY <1>6, <2>1, <2>2, <2>4
  <1>11. CASE UNCHANGED vars
    BY <1>6, <1>11 DEF vars, queue, workers, task
  <1>12. QED
    BY <1>7, <1>8, <1>9, <1>10, <1>11
      DEF Next, Caller, Open, Consume, QuietStep, Worker, Copy, OtherWorkerStep

\* While a download is not disturbed, `concurrency' tells the size of its pool.
THEOREM PoolCountedAlways == Spec => []PoolCounted
  <1>1. Init => CloseInv /\ PoolCounted
    <2>1. ASSUME Init PROVE CloseInv
      BY <2>1 DEF Init, CloseInv
    <2>2. ASSUME Init PROVE PoolCounted
      <3>1. Kept = {}
        BY <2>2 DEF Init, Kept, LiveWorkers, Live
      <3>2. Cardinality(Kept) = 0
        BY <3>1, FS_EmptySet
      <3>3. concurrency = Concurrency /\ Concurrency \in Nat
        BY <2>2, ConcurrencyType DEF Init
      <3>4. QED
        BY <3>2, <3>3 DEF PoolCounted
    <2>3. QED
      BY <2>1, <2>2
  <1>2. TypeOK /\ Shape /\ CloseInv /\ PoolCounted /\ [Next]_vars => (CloseInv /\ PoolCounted)'
    BY CloseStep, PoolStep
  <1>3. QED
    BY <1>1, <1>2, Typing, PTL DEF Spec

-----------------------------------------------------------------------------
(***************************************************************************)
(* The channel of chunks has room when d.m is held.                        *)
(***************************************************************************)
\* No chunk is asked for again when nothing of it is missing: bodies do not break
\* off after their last byte, or nothing is retried.
NeverEmpty == "end" \notin Drops \/ MaxRetries = 0

\* Under NeverEmpty, what is queued or asked for is never empty.
SizedOK(w) ==
  /\ pc[w] \in {"check", "loop", "http", "wait"} => ch[w].size > 0
  /\ pc[w] = "judge" /\ res[w] = "infinite" => ch[w].size > 0
  /\ pc[w] = "judge" /\ res[w] = "retry" /\ "end" \notin Drops /\ ~ctxDone
       => ch[w].size > n[w]
SizedInv ==
  /\ \A i \in 1..Len(chunkChannel) : chunkChannel[i].size > 0
  /\ \A w \in Workers : SizedOK(w)

\* A worker changes its own state only.
LEMMA TouchesOwn ==
  ASSUME TypeOK, NEW w \in Workers, OtherWorkerStep(w)
  PROVE  OthersKept(w)
  <1> USE DEF OthersKept, task
  <1>0. /\ pc \in [Workers -> PcValues] /\ ch \in [Workers -> Chunk] /\ n \in [Workers -> Nat]
        /\ body \in [Workers -> [next : Nat, end : Int]] /\ res \in [Workers -> Outcomes]
    BY DEF TypeOK
  <1>1. CASE Receive(w) \/ ReceiveClosed(w) \/ CheckErr(w) \/ RetryLoop(w)
    BY <1>0, <1>1 DEF Receive, ReceiveClosed, CheckErr, RetryLoop, Exit
  <1>2. CASE AnswerBody(w) \/ AnswerMismatch(w) \/ AnswerError(w) \/ LockM2(w) \/ UnlockM2(w)
    BY <1>0, <1>2 DEF AnswerBody, AnswerMismatch, AnswerError, LockM2, UnlockM2, Return
  <1>3. CASE AnswerOverload(w)
    BY <1>0, <1>3 DEF AnswerOverload, Return
  <1>4. CASE CopyEnd(w) \/ CopyBreak(w) \/ WriteCheck(w)
    BY <1>0, <1>4 DEF CopyEnd, CopyBreak, WriteCheck, Return
  <1>5. CASE WriteBuf(w)
    BY <1>0, <1>5 DEF WriteBuf
  <1>6. CASE JudgeOk(w) \/ JudgeStopped(w) \/ JudgeRetry(w) \/ JudgeOther(w)
    BY <1>0, <1>6 DEF JudgeOk, JudgeStopped, JudgeRetry, JudgeOther, Judged
  <1>7. CASE JudgeRevoked(w) \/ SetErr(w) \/ Cancel(w)
    BY <1>0, <1>7 DEF JudgeRevoked, Judged, Exit, SetErr, Cancel
  <1>8. QED
    BY <1>1, <1>2, <1>3, <1>4, <1>5, <1>6, <1>7 DEF OtherWorkerStep, Request, Judge

\* What a worker asks for is not empty.
LEMMA WorkerSized ==
  ASSUME NeverEmpty, TypeOK, NEW w \in Workers, WorkerOK(w), SizedInv, OtherWorkerStep(w)
  PROVE  SizedOK(w)'
  <1> USE DEF SizedOK, WorkerStep
  <1>0. /\ pc \in [Workers -> PcValues] /\ res \in [Workers -> Outcomes]
        /\ ch \in [Workers -> Chunk] /\ n \in [Workers -> Nat] /\ retry \in [Workers -> Nat]
        /\ ch[w].start \in Nat /\ ch[w].size \in Int /\ n[w] \in Nat
    BY DEF TypeOK, Chunk
  <1>1. SizedOK(w) /\ (ctxDone => ctxDone')
    BY WorkersLeave DEF SizedInv, OtherWorkerStep, Worker, Copy
  <1>2. CASE Receive(w)
    <2>1. chunkChannel \in Seq(Chunk) /\ chunkChannel # <<>>
      BY <1>2 DEF TypeOK, Receive
    <2>2. 1 \in 1..Len(chunkChannel) /\ Head(chunkChannel) = chunkChannel[1]
      BY <2>1
    <2>3. Head(chunkChannel).size > 0
      BY <2>2 DEF SizedInv
    <2>4. QED
      BY <1>0, <1>2, <2>3 DEF Receive
  <1>3. CASE ReceiveClosed(w) \/ CheckErr(w)
    BY <1>0, <1>1, <1>3 DEF ReceiveClosed, CheckErr, Exit, task
  <1>4. CASE RetryLoop(w)
    BY <1>0, <1>1, <1>4 DEF RetryLoop
  <1>5. CASE AnswerBody(w) \/ AnswerMismatch(w)
    BY <1>0, <1>1, <1>5 DEF AnswerBody, AnswerMismatch, task
  <1>6. CASE AnswerError(w)
    BY <1>0, <1>1, <1>6 DEF AnswerError, Return, WorkerOK, BodyOK
  <1>7. CASE AnswerOverload(w)
    BY <1>0, <1>1, <1>7 DEF AnswerOverload, Return
  <1>8. CASE LockM2(w) \/ UnlockM2(w)
    BY <1>0, <1>1, <1>8 DEF LockM2, UnlockM2, Return, task
  <1>9. CASE CopyEnd(w)
    <2>1. body[w].next = body[w].end /\ pc[w] = "copy" /\ ch' = ch
          /\ body[w] = [next |-> ch[w].start + n[w], end |-> ch[w].start + ch[w].size]
      BY <1>9 DEF CopyEnd, WorkerOK, BodyOK
    <2>2. n[w] = ch[w].size
      BY <1>0, <2>1
    <2>3. res'[w] = "ok" /\ pc'[w] = "judge"
      BY <1>0, <1>9, <2>2 DEF CopyEnd, Return
    <2>4. QED
      BY <2>3
  <1>10. CASE CopyBreak(w)
    <2>1. pc[w] = "copy" /\ ch' = ch /\ n' = n /\ ctxDone' = ctxDone
          /\ body[w] = [next |-> ch[w].start + n[w], end |-> ch[w].start + ch[w].size]
          /\ (ctxDone \/ (IF body[w].next < body[w].end THEN "inside" ELSE "end") \in Drops)
      BY <1>10 DEF CopyBreak, WorkerOK, BodyOK, state
    <2>2. "end" \notin Drops /\ ~ctxDone => ch[w].size > n[w]
      BY <1>0, <2>1
    <2>3. res'[w] = "retry" /\ pc'[w] = "judge"
      BY <1>0, <1>10 DEF CopyBreak, Return
    <2>4. QED
      BY <2>1, <2>2, <2>3
  <1>11. CASE WriteCheck(w) \/ WriteBuf(w)
    <2>1. pc'[w] \in {"write", "copy"} \/ (pc' = pc /\ pc[w] = "write")
      BY <1>0, <1>11 DEF WriteCheck, WriteBuf
    <2>2. QED
      BY <2>1
  <1>12. CASE JudgeOk(w) \/ JudgeStopped(w)
    BY <1>0, <1>12 DEF JudgeOk, JudgeStopped
  <1>13. CASE JudgeRetry(w)
    <2>1. pc[w] = "judge" /\ res[w] = "retry" /\ ~ctxDone /\ retry[w] \in Nat /\ MaxRetries \in Nat
      BY <1>0, <1>13, ConfigAssumption DEF JudgeRetry, Judged
    <2>2. CASE MaxRetries = 0
      <3>1. pc'[w] = "fail"
        BY <1>0, <1>13, <2>1, <2>2 DEF JudgeRetry
      <3>2. QED
        BY <3>1
    <2>3. CASE "end" \notin Drops
      <3>1. ch[w].size > n[w]
        BY <1>1, <2>1, <2>3
      <3>2. ch'[w].size = ch[w].size - n[w]
        BY <1>0, <1>13 DEF JudgeRetry, Missing
      <3>3. ch'[w].size > 0
        BY <1>0, <3>1, <3>2
      <3>4. pc'[w] \in {"loop", "fail"}
        BY <1>0, <1>13 DEF JudgeRetry
      <3>5. QED
        BY <3>3, <3>4
    <2>4. QED
      BY <2>2, <2>3 DEF NeverEmpty
  <1>14. CASE JudgeOther(w)
    BY <1>0, <1>1, <1>14 DEF JudgeOther, Judged, task
  <1>15. CASE JudgeRevoked(w) \/ SetErr(w) \/ Cancel(w)
    BY <1>0, <1>15 DEF JudgeRevoked, Exit, SetErr, Cancel
  <1>16. QED
    BY <1>2, <1>3, <1>4, <1>5, <1>6, <1>7, <1>8, <1>9, <1>10, <1>11, <1>12, <1>13, <1>14, <1>15
      DEF OtherWorkerStep, Request, Judge

\* What a worker does to the channel.
LEMMA WorkerQueues ==
  ASSUME TypeOK, NEW w \in Workers, SizedInv, OtherWorkerStep(w)
  PROVE  \A i \in 1..Len(chunkChannel') : chunkChannel'[i].size > 0
  <1>0. chunkChannel \in Seq(Chunk) /\ Len(chunkChannel) \in Nat
    BY DEF TypeOK
  <1>1. CASE chunkChannel' = chunkChannel
    BY <1>1 DEF SizedInv
  <1>2. CASE Receive(w)
    <2>1. chunkChannel # <<>> /\ chunkChannel' = Tail(chunkChannel)
      BY <1>2 DEF Receive
    <2>2. \A i \in 1..Len(chunkChannel') :
            i + 1 \in 1..Len(chunkChannel) /\ chunkChannel'[i] = chunkChannel[i + 1]
      BY <1>0, <2>1
    <2>3. QED
      BY <2>2 DEF SizedInv
  <1>3. CASE AnswerOverload(w) /\ chunkChannel' = Append(chunkChannel, ch[w])
    <2>1. ch[w].size > 0
      BY <1>3 DEF AnswerOverload, WorkerStep, SizedInv, SizedOK
    <2>2. \A i \in 1..Len(chunkChannel') :
            \/ i \in 1..Len(chunkChannel) /\ chunkChannel'[i] = chunkChannel[i]
            \/ chunkChannel'[i] = ch[w]
      BY <1>0, <1>3
    <2>3. QED
      BY <2>1, <2>2 DEF SizedInv
  <1>4. chunkChannel' = chunkChannel \/ Receive(w)
        \/ (AnswerOverload(w) /\ chunkChannel' = Append(chunkChannel, ch[w]))
    <2> USE DEF queue
    <2>1. CASE AnswerOverload(w)
      BY <2>1 DEF AnswerOverload
    <2>2. CASE WriteBuf(w)
      BY <2>2 DEF WriteBuf
    <2>3. CASE ReceiveClosed(w) \/ CheckErr(w) \/ RetryLoop(w) \/ AnswerBody(w)
               \/ AnswerMismatch(w) \/ AnswerError(w) \/ LockM2(w) \/ UnlockM2(w)
      BY <2>3 DEF ReceiveClosed, CheckErr, RetryLoop, AnswerBody, AnswerMismatch, AnswerError,
        LockM2, UnlockM2
    <2>4. CASE CopyEnd(w) \/ CopyBreak(w) \/ WriteCheck(w) \/ Judge(w)
      BY <2>4 DEF CopyEnd, CopyBreak, WriteCheck, Judge, JudgeOk, JudgeStopped, JudgeRetry,
        JudgeOther, JudgeRevoked, SetErr, Cancel
    <2>5. QED
      BY <2>1, <2>2, <2>3, <2>4 DEF OtherWorkerStep, Request
  <1>5. QED
    BY <1>1, <1>2, <1>3, <1>4

\* sendChunkTask queues chunks of the plan, which are not empty.
LEMMA SendSized ==
  ASSUME TypeOK, PlanInv, SizedInv, Concurrency >= 2,
         NEW newConcurrency \in BOOLEAN, NEW lim, NEW pcs,
         SendChunkTask(newConcurrency, lim, pcs)
  PROVE  \A i \in 1..Len(chunkChannel') : chunkChannel'[i].size > 0
  <1> DEFINE chunk == [start |-> pos, size |-> Size(nextChunk), id |-> nextChunk,
                       buf |-> IF concurrency > 0 THEN Len(bufs) + 1 ELSE BufIndex(nextChunk, bufs),
                       newConcurrency |-> newConcurrency]
  <1>1. \/ chunkChannel' = chunkChannel
        \/ pos < Length /\ chunkChannel' = Append(chunkChannel, chunk)
    BY DEF SendChunkTask, queue, Size
  <1>2. chunk.size = Size(nextChunk)
    OBVIOUS
  <1> HIDE DEF chunk
  <1>3. CASE chunkChannel' = chunkChannel
    BY <1>3 DEF SizedInv
  <1>4. CASE pos < Length /\ chunkChannel' = Append(chunkChannel, chunk)
    <2>1. nextChunk < Parts /\ nextChunk \in Nat /\ Parts >= 2 /\ PartSize \in Nat
      BY <1>4, PlanLeft, FlowTypes, SeveralParts, SizeAssumption
    <2>2. chunk.size > 0
      BY <1>2, <2>1, PlanTiles
    <2>3. chunkChannel \in Seq(Chunk)
      BY DEF TypeOK
    <2>4. \A i \in 1..Len(chunkChannel') :
            \/ i \in 1..Len(chunkChannel) /\ chunkChannel'[i] = chunkChannel[i]
            \/ chunkChannel'[i] = chunk
      BY <1>4, <2>3
    <2>5. QED
      BY <2>2, <2>4 DEF SizedInv
  <1>5. QED
    BY <1>1, <1>3, <1>4

\* The steps of the caller and of the environment leave chunks and workers alone.
LEMMA QuietLeaves ==
  ASSUME QuietStep
  PROVE  UNCHANGED <<chunkChannel, task>> /\ (ctxDone => ctxDone')
  <1> USE DEF pool, queue, state, workers, reader
  <1>1. CASE Refuse \/ StartSingle \/ SingleAnswer \/ ReturnReader
    <2>1. CASE ReturnReader
      BY <2>1 DEF ReturnReader
    <2>2. CASE Refuse \/ StartSingle \/ SingleAnswer
      BY <2>2 DEF Refuse, StartSingle, SingleAnswer
    <2>3. QED
      BY <1>1, <2>1, <2>2
  <1>2. CASE Read \/ ReadCancelled \/ ReadEOF \/ NextBuf
    <2>1. CASE Read
      BY <2>1 DEF Read
    <2>2. CASE ReadCancelled \/ ReadEOF \/ NextBuf
      BY <2>2 DEF ReadCancelled, ReadEOF, NextBuf
    <2>3. QED
      BY <1>2, <2>1, <2>2
  <1>3. CASE Interrupt \/ Close
    <2>1. CASE Interrupt
      BY <1>3, <2>1 DEF Interrupt, CloseSetErr, CloseCancel, CloseChannel, CloseBufs, CloseNegate
    <2>2. CASE Close
      BY <2>2 DEF Close, CloseCheck, CloseSingle
    <2>3. QED
      BY <1>3, <2>1, <2>2
  <1>4. CASE KeeperExit \/ ParentCancel \/ OthersTake \/ OthersReturn
    BY <1>4 DEF KeeperExit, ParentCancel, OthersTake, OthersReturn
  <1> HIDE DEF pool, queue, state, workers, reader
  <1>5. QED
    BY <1>1, <1>2, <1>3, <1>4 DEF QuietStep

\* Nothing empty is ever queued or asked for.
LEMMA SizedStep ==
  ASSUME NeverEmpty, TypeOK, Shape, Flow, SizedInv, [Next]_vars
  PROVE  SizedInv'
  <1>0. /\ pc \in [Workers -> PcValues] /\ PlanInv /\ WorkerInv /\ Concurrency \in Nat
        /\ \A v \in Workers : SizedOK(v)
    BY ConcurrencyType DEF TypeOK, Flow, SizedInv
  <1>1. ASSUME UNCHANGED <<chunkChannel, pc, task>>, ctxDone => ctxDone'
        PROVE  SizedInv'
    BY <1>1 DEF SizedInv, SizedOK, task
  <1>2. ASSUME UNCHANGED <<task, ctxDone>>,
               \A i \in 1..Len(chunkChannel') : chunkChannel'[i].size > 0,
               \A v \in Workers : pc'[v] = pc[v] \/ pc'[v] \in {"recv", "copy"}
        PROVE  SizedInv'
    <2>1. ASSUME NEW v \in Workers PROVE SizedOK(v)'
      BY <1>0, <1>2, <2>1 DEF SizedOK, task
    <2>2. QED
      BY <1>2, <2>1 DEF SizedInv
  <1>3. ASSUME NEW w \in Workers, OtherWorkerStep(w) PROVE SizedInv'
    <2>1. SizedOK(w)' /\ \A i \in 1..Len(chunkChannel') : chunkChannel'[i].size > 0
      BY <1>0, <1>3, WorkerSized, WorkerQueues DEF WorkerInv
    <2>2. OthersKept(w) /\ (ctxDone => ctxDone')
      BY <1>3, TouchesOwn, WorkersLeave DEF OtherWorkerStep, Worker, Copy
    <2>3. ASSUME NEW v \in Workers, v # w PROVE SizedOK(v)'
      BY <1>0, <2>2, <2>3 DEF SizedOK, OthersKept
    <2>4. QED
      BY <2>1, <2>3 DEF SizedInv
  <1>4. ASSUME NEW w \in Workers, SpawnNext(w) PROVE SizedInv'
    <2> DEFINE pcs == [pc EXCEPT ![w] = "copy"]
    <2>1. pc[w] = "spawn" /\ UNCHANGED <<task, ctxDone>> /\ SendChunkTask(TRUE, limit, pcs)
      BY <1>4 DEF SpawnNext, WorkerStep, state
    <2>2. Concurrency >= 2
      BY <1>0, <2>1 DEF Shape, LiveAfterChunk, PlanInv
    <2>3. \A v \in Workers : pc'[v] = pc[v] \/ pc'[v] \in {"recv", "copy"}
      <3>1. pcs \in [Workers -> PcValues]
        BY <1>0 DEF PcValues
      <3>2. pc' = pcs \/ pc' = [pcs EXCEPT ![NextWorker] = "recv"]
        BY <2>1 DEF SendChunkTask
      <3>3. QED
        BY <1>0, <3>1, <3>2
    <2>4. QED
      BY <1>0, <1>2, <2>1, <2>2, <2>3, SendSized
  <1>5. CASE StartParts \/ FinishBuf
    <2>0. PICK nc \in BOOLEAN : \E lim : SendChunkTask(nc, lim, pc) /\ (nc <=> StartParts)
      BY <1>5 DEF StartParts, FinishBuf
    <2>1. PICK lim : SendChunkTask(nc, lim, pc) /\ (nc <=> StartParts)
      BY <2>0
    <2>2. UNCHANGED <<task, ctxDone>>
      BY <1>5 DEF StartParts, FinishBuf, state
    <2>3. pc' = pc \/ pc' = [pc EXCEPT ![NextWorker] = "recv"]
      BY <2>1 DEF SendChunkTask
    <2>4. CASE Concurrency >= 2
      BY <1>0, <1>2, <2>1, <2>2, <2>3, <2>4, SendSized
    <2>5. CASE Concurrency < 2
      <3>1. nextChunk = 0 /\ pos = Start(0) /\ Start(0) = 0 /\ bufs = <<>>
        BY <1>0, <2>5, FlowTypes, PlanEnds DEF PlanInv, Flow, RingInv
      <3>2. ~FinishBuf
        <4>1. Len(bufs) = 0
          BY <3>1
        <4>2. rpc \notin {"read", "finish"}
          BY <4>1 DEF Shape, ReaderInBuf
        <4>3. QED
          BY <4>2 DEF FinishBuf
      <3>3. StartParts /\ Concurrency = 0
        <4>1. StartParts
          BY <1>5, <3>2
        <4>2. Concurrency # 1
          BY <4>1 DEF StartParts
        <4>3. QED
          BY <1>0, <2>5, <4>1, <4>2
      <3>4. ~MayGrow
        BY <3>3 DEF MayGrow, TypeOK
      <3>5. UNCHANGED <<chunkChannel, pc>>
        BY <3>3, <3>4 DEF StartParts, SendChunkTask, queue
      <3>6. QED
        BY <1>1, <2>2, <3>5
    <2>6. QED
      BY <1>0, <2>4, <2>5
  <1>6. CASE QuietStep
    BY <1>1, <1>6, QuietLeaves, QuietShape
  <1>7. CASE UNCHANGED vars
    BY <1>1, <1>7 DEF vars, queue, workers, state
  <1>8. QED
    BY <1>3, <1>4, <1>5, <1>6, <1>7
      DEF Next, Caller, Open, Consume, QuietStep, Worker, Copy, OtherWorkerStep

\* The queued chunks are different ones of the plan: where their numbers are
\* among hi - lo, or among those but one, there are no more of them.
LEMMA QueueFits ==
  ASSUME TypeOK, Flow, SizedInv, NEW lo \in Nat, NEW hi \in Nat, lo <= hi,
         \A i \in 1..Len(chunkChannel) : chunkChannel[i].id >= lo /\ chunkChannel[i].id < hi
  PROVE  /\ Len(chunkChannel) <= hi - lo
         /\ \A x \in lo..(hi - 1) :
              (\A i \in 1..Len(chunkChannel) : chunkChannel[i].id # x)
                => Len(chunkChannel) < hi - lo
  <1> DEFINE places == 1..Len(chunkChannel)
             ids == lo..(hi - 1)
             id == [i \in places |-> chunkChannel[i].id]
  <1>1. Len(chunkChannel) \in Nat /\ \A i \in places : chunkChannel[i].id \in Nat
    BY FlowTypes DEF Chunk
  <1>2. \A i, j \in places : i # j => id[i] # id[j]
    BY DEF Flow, UniqueInv, SizedInv
  <1>3. \A i \in places : id[i] \in ids
    BY <1>1
  <1>4. IsFiniteSet(places) /\ Cardinality(places) = Len(chunkChannel)
    <2>1. \A k \in Nat : IsFiniteSet(1..k) /\ Cardinality(1..k) = k
      <3> SUFFICES ASSUME NEW k \in Nat PROVE IsFiniteSet(1..k) /\ Cardinality(1..k) = k
        OBVIOUS
      <3>1. IsFiniteSet(1..k) /\ Cardinality(1..k) = IF 1 > k THEN 0 ELSE k - 1 + 1
        BY FS_Interval
      <3>2. QED
        BY <3>1
    <2>2. Len(chunkChannel) \in Nat
      BY <1>1
    <2>3. QED
      BY <2>1, <2>2
  <1>5. IsFiniteSet(ids) /\ Cardinality(ids) = hi - lo
    <2>1. hi - 1 \in Int /\ lo \in Int
      OBVIOUS
    <2>2. IsFiniteSet(ids) /\ Cardinality(ids) = IF lo > hi - 1 THEN 0 ELSE (hi - 1) - lo + 1
      BY <2>1, FS_Interval
    <2> HIDE DEF ids
    <2>3. QED
      BY <2>2
  <1>6. ASSUME NEW T, IsFiniteSet(T), \A i \in places : id[i] \in T
        PROVE  Len(chunkChannel) <= Cardinality(T)
    <2>1. id \in [places -> T]
      BY <1>6
    <2>2. Cardinality(T) \in Nat
      BY <1>6, FS_CardinalityType
    <2> HIDE DEF id, places
    <2>3. ~(Cardinality(T) < Cardinality(places))
      BY <1>2, <1>4, <1>6, <2>1, FS_PigeonHole
    <2>4. QED
      BY <1>1, <1>4, <2>2, <2>3
  <1>7. Len(chunkChannel) <= hi - lo
    BY <1>3, <1>5, <1>6
  <1>8. ASSUME NEW x \in ids, \A i \in places : chunkChannel[i].id # x
        PROVE  Len(chunkChannel) < hi - lo
    <2>1. IsFiniteSet(ids \ {x}) /\ Cardinality(ids \ {x}) = (hi - lo) - 1
      BY <1>5, <1>8, FS_RemoveElement
    <2>2. \A i \in places : id[i] \in ids \ {x}
      BY <1>3, <1>8
    <2>3. Len(chunkChannel) <= (hi - lo) - 1
      BY <1>6, <2>1, <2>2
    <2>4. QED
      BY <1>1, <2>3
  <1>9. QED
    BY <1>7, <1>8

\* A worker that owes a byte of its chunk keeps a place of the channel free.
LEMMA RoomWhileOwing ==
  ASSUME TypeOK, Flow, SizedInv, NEW w \in Workers, Owes(w)
  PROVE  Len(chunkChannel) < Concurrency
  <1>1. /\ nextChunk \in Nat /\ Cur \in Nat /\ Concurrency \in Nat /\ Len(chunkChannel) \in Nat
        /\ nextChunk <= Concurrency + Cur
    BY FlowTypes DEF Flow, BudgetInv
  <1>2. ch[w].id \in Nat /\ ch[w].id >= Cur /\ ch[w].id < nextChunk
    BY FlowTypes DEF Flow, WorkerInv, WorkerOK, Owes, ChunkOK, Ahead, Chunk
  <1>3. \A i \in 1..Len(chunkChannel) :
          /\ chunkChannel[i].id >= Cur /\ chunkChannel[i].id < nextChunk
          /\ chunkChannel[i].id # ch[w].id
    BY DEF Flow, QueueInv, ChunkOK, Ahead, SizedInv, UniqueInv
  <1>4. ch[w].id \in Cur..(nextChunk - 1) /\ Cur <= nextChunk
    BY <1>1, <1>2
  <1>5. Len(chunkChannel) < nextChunk - Cur
    BY <1>1, <1>3, <1>4, QueueFits
  <1>6. QED
    BY <1>1, <1>5

\* So does the reader when it moves on.
LEMMA RoomAtEnd ==
  ASSUME TypeOK, Flow, SizedInv, AtEnd
  PROVE  Len(chunkChannel) < Concurrency
  <1>1. /\ nextChunk \in Nat /\ Cur \in Nat /\ Concurrency \in Nat /\ Len(chunkChannel) \in Nat
        /\ nextChunk <= Concurrency + Cur /\ Cur < nextChunk
    BY FlowTypes DEF Flow, BudgetInv, RingInv, AtEnd
  <1>2. ASSUME NEW i \in 1..Len(chunkChannel)
        PROVE  chunkChannel[i].id >= Cur + 1 /\ chunkChannel[i].id < nextChunk
    <2>1. /\ chunkChannel[i] \in Chunk /\ chunkChannel[i].size > 0
          /\ ChunkOK(chunkChannel[i]) /\ Ahead(chunkChannel[i], 0)
      BY FlowTypes DEF Flow, QueueInv, SizedInv
    <2>2. chunkChannel[i].id >= Cur + 1
      BY <2>1, ReadThrough
    <2>3. QED
      BY <2>1, <2>2 DEF ChunkOK
  <1>3. Len(chunkChannel) <= nextChunk - (Cur + 1)
    <2>1. Cur + 1 \in Nat /\ Cur + 1 <= nextChunk
      BY <1>1
    <2>2. QED
      BY <1>1, <1>2, <2>1, QueueFits
  <1>4. QED
    BY <1>1, <1>3

\* A send on the channel under d.m finds room, for every plan, budget and source:
\* unless a body breaks off after its last byte and what is left of the chunk,
\* nothing, is asked for again.
THEOREM NoSendBlocksAlways ==
  ASSUME NeverEmpty
  PROVE  Spec => []NoSendBlocks
  <1>1. ASSUME Init PROVE SizedInv
    <2>1. Len(chunkChannel) = 0 /\ \A w \in Workers : pc[w] = "unborn"
      BY <1>1 DEF Init
    <2>2. QED
      BY <2>1 DEF SizedInv, SizedOK
  <1>2. TypeOK /\ Shape /\ Flow /\ SizedInv /\ [Next]_vars => SizedInv'
    BY SizedStep
  <1>3. ASSUME TypeOK, Shape, Flow, SizedInv PROVE NoSendBlocks
    <2>1. ASSUME NEW w \in Workers, pc[w] = "spawn" PROVE Len(chunkChannel) < ChannelCap
      <3>1. ch[w].size > n[w]
        BY <1>3, <2>1 DEF Flow, WorkerInv, WorkerOK, BodyOK
      <3>2. Owes(w)
        BY <2>1, <3>1 DEF Owes, Holds, Got
      <3>3. QED
        BY <1>3, <3>2, RoomWhileOwing DEF ChannelCap
    <2>2. ASSUME NEW w \in Workers, pc[w] = "http" PROVE Len(chunkChannel) < ChannelCap
      <3>1. ch[w].size > 0 /\ n[w] = 0
        BY <1>3, <2>2 DEF SizedInv, SizedOK, Flow, WorkerInv, WorkerOK, BodyOK
      <3>2. Owes(w)
        BY <2>2, <3>1 DEF Owes, Holds, Got
      <3>3. QED
        BY <1>3, <3>2, RoomWhileOwing DEF ChannelCap
    <2>3. ASSUME rpc = "read", bufs[curBuf].off >= bufs[curBuf].size
          PROVE  Len(chunkChannel) < ChannelCap
      <3>1. rPos \in Nat /\ nextChunk \in Nat /\ curBuf \in 1..Len(bufs) /\ RingInv
        BY <1>3, <2>3, FlowTypes DEF Shape, ReaderInBuf, Flow
      <3>2. nextChunk > 0 /\ curBuf = BufIndex(rPos, bufs)
        BY <3>1 DEF RingInv
      <3>3. Cur = rPos /\ Intact
        BY <2>3, <3>1 DEF Cur, Intact
      <3>4. AtEnd
        BY <2>3, <3>2, <3>3 DEF AtEnd, RingBuf
      <3>5. QED
        BY <1>3, <3>4, RoomAtEnd DEF ChannelCap
    <2>4. QED
      BY <2>1, <2>2, <2>3 DEF NoSendBlocks
  <1>4. QED
    BY <1>1, <1>2, <1>3, FlowHolds, PTL DEF Spec
=============================================================================

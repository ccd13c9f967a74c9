----------------------------- MODULE ChunkPlan -----------------------------
(***************************************************************************)
(* How the multi-part downloader of internal/net/request.go cuts a range   *)
(* of `length' bytes into chunks of `part' bytes: download() counts them,  *)
(* sendChunkTask() sizes them one at a time, the odd-sized chunk first.    *)
(***************************************************************************)
EXTENDS Integers

\* The number of chunks download() announces to the reader.
MaxPart(length, part) ==
  length \div part + (IF length % part > 0 THEN 1 ELSE 0)

\* The remainder of the range, which the first chunk carries when it is not
\* below half a part, and the half part it is raised to when it is.
FirstSize(length, part) == length % part
MinSize(part) == part \div 2
Rebalanced(length, part) ==
  FirstSize(length, part) > 0 /\ FirstSize(length, part) < MinSize(part)

\* The size sendChunkTask gives to chunk `id': the remainder goes first, a
\* remainder below half a part is raised to half a part and the second
\* chunk gives back the difference.
FinalSize_mutant(id, length, part) ==
  IF Rebalanced(length, part) /\ id = 0 THEN MinSize(part)
  ELSE IF FirstSize(length, part) > 0 /\ id = 0 THEN FirstSize(length, part)
  ELSE part
FinalSize(id, length, part) ==
  IF Rebalanced(length, part) /\ id = 0 THEN MinSize(part)
  ELSE IF Rebalanced(length, part) /\ id = 1
       THEN (part - MinSize(part)) + FirstSize(length, part)
  ELSE IF FirstSize(length, part) > 0 /\ id = 0 THEN FirstSize(length, part)
  ELSE part

\* Where chunk `id' begins when the range has at least two chunks: the closed form
\* of the offsets sendChunkTask adds up, counted back from the end of the range.
ChunkStart(id, length, part) ==
  IF id = 0 THEN 0
  ELSE IF id = 1 THEN FinalSize(0, length, part)
  ELSE length - (part * (MaxPart(length, part) - id))
=============================================================================

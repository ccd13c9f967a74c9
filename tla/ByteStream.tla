----------------------------- MODULE ByteStream -----------------------------
(***************************************************************************)
(* What Downloader.Download promises its caller: an error, or a reader that *)
(* delivers the bytes of the range in order, says EOF after the last of     *)
(* them and only then, or fails; and that can be closed at any time, after  *)
(* which it delivers nothing.                                               *)
(***************************************************************************)
EXTENDS Integers, Sequences

CONSTANT Length

VARIABLES delivered, status

vars == <<delivered, status>>

Init == delivered = <<>> /\ status = "opening"

Open == status = "opening" /\ status' \in {"open", "failed"} /\ UNCHANGED delivered

Deliver ==
  /\ status = "open"
  /\ \E k \in 1..(Length - Len(delivered)) :
       delivered' = delivered \o [i \in 1..k |-> Len(delivered) + i - 1]
  /\ UNCHANGED status

End ==
  /\ status = "open" /\ Len(delivered) = Length
  /\ status' = "eof"
  /\ UNCHANGED delivered

Fail == status = "open" /\ status' = "failed" /\ UNCHANGED delivered

Close ==
  /\ status \in {"open", "eof", "failed"}
  /\ status' = "closed"
  /\ UNCHANGED delivered

Next == Open \/ Deliver \/ End \/ Fail \/ Close

Spec == Init /\ [][Next]_vars
=============================================================================

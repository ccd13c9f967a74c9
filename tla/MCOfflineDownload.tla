------------------------- MODULE MCOfflineDownload -------------------------
(* Instances of OfflineDownload for TLC: a file and a magnet. *)
EXTENDS OfflineDownload
CONSTANTS t1, t2
Policies == [t \in Task |-> IF t = t1 THEN "delete_on_upload_succeed" ELSE "delete_always"]
=============================================================================

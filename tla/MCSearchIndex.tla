--------------------------- MODULE MCSearchIndex ---------------------------
(* A small instance of SearchIndex for TLC. *)
EXTENDS SearchIndex
=============================================================================

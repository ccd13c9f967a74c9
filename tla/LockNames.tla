----------------------------- MODULE LockNames -----------------------------
(***************************************************************************)
(* Resource names and the locks on them (server/webdav/lock.go). A name is *)
(* the sequence of its components, << >> being "/". A lock protects its    *)
(* root and, unless it has zero depth, everything below. Time is a         *)
(* counter.                                                                *)
(***************************************************************************)
EXTENDS Integers, FiniteSets, Sequences

CONSTANTS
  Component,  \* what names are made of
  Name,       \* the resource names, with every name's ancestors
  Durations,  \* the finite lock timeouts clients ask for
  MaxTime,    \* bound on the clock
  MaxGen      \* bound on the number of locks ever created

\* The names walkToRoot visits, from name up to "/".
Walk(name) == {SubSeq(name, 1, i) : i \in 0..Len(name)}

ASSUME NameAssumption ==
  Name \subseteq Seq(Component) /\ \A x \in Name : Walk(x) \subseteq Name
ASSUME BoundAssumption ==
  Durations \subseteq Nat /\ MaxTime \in Nat /\ MaxGen \in Nat

Never == -1   \* infiniteTimeout, and the deadline of a lock that has it

\* Lock l protects the resource name.
Covers(l, name) == name = l.root \/ (~l.zeroDepth /\ l.root \in Walk(name))

\* Two locks that may not exist together.
Conflict(l, k) == Covers(l, k.root) \/ Covers(k, l.root)

Lock == [root : Name, zeroDepth : BOOLEAN, deadline : Nat \cup {Never}]
=============================================================================

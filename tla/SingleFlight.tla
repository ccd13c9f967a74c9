---------------------------- MODULE SingleFlight ----------------------------
(***************************************************************************)
(* pkg/singleflight: duplicate calls for a key wait for the call that is   *)
(* already running and share its result.                                   *)
(*                                                                         *)
(* A call is named by the caller that leads it.  Its fields are written    *)
(* before wg.Done and only read afterwards, so Finish hands the value to   *)
(* every caller that waits.  The call leaves the map in a later step, with *)
(* the mutex taken again: until then a new caller still joins it.          *)
(***************************************************************************)
CONSTANTS Caller, Key, Value, None

VARIABLES
  m,          \* Group.m: the leader of the call in flight for a key, or None
  role,       \* where a caller is in Do
  key,        \* the key of its Do, while it is in Do
  val,        \* the value it has, as leader or as one who waited
  leader,     \* the call it waits for
  forgotten   \* call.forgotten, of the call a caller leads

sfvars == <<m, role, key, val, leader, forgotten>>

InFlight == {"run", "done"}

SFInit ==
  /\ m = [k \in Key |-> None]
  /\ role = [c \in Caller |-> "out"]
  /\ key = [c \in Caller |-> CHOOSE k \in Key : TRUE]
  /\ val = [c \in Caller |-> None]
  /\ leader = [c \in Caller |-> None]
  /\ forgotten = [c \in Caller |-> FALSE]

\* Fault: the map is looked at before the mutex is taken.
Free_mutant(k) == TRUE

\* No call for the key is in the map.
Free(k) == m[k] = None

\* Do, when the key is free: the caller leads, and will run fn.
Lead(c, k) ==
  /\ role[c] = "out" /\ Free(k)
  /\ m' = [m EXCEPT ![k] = c]
  /\ role' = [role EXCEPT ![c] = "run"]
  /\ key' = [key EXCEPT ![c] = k]
  /\ forgotten' = [forgotten EXCEPT ![c] = FALSE]
  /\ UNCHANGED <<val, leader>>

\* Do, when a call for the key is in the map: wait for it, or take its result.
Join(c, k) ==
  /\ role[c] = "out" /\ ~Free(k)
  /\ key' = [key EXCEPT ![c] = k]
  /\ IF role[m[k]] = "run"
     THEN /\ role' = [role EXCEPT ![c] = "wait"]
          /\ leader' = [leader EXCEPT ![c] = m[k]]
          /\ UNCHANGED val
     ELSE /\ role' = [role EXCEPT ![c] = "got"]
          /\ val' = [val EXCEPT ![c] = val[m[k]]]
          /\ UNCHANGED leader
  /\ UNCHANGED <<m, forgotten>>

\* Fault: wg.Done is left out, and nobody is woken.
Waiters_mutant(c) == {}

\* Those who wait for the call of `c'.
Waiters(c) == {w \in Caller : role[w] = "wait" /\ leader[w] = c}

\* doCall: fn has returned (or panicked, or exited), wg.Done lets the others go.
Finish(c, v) ==
  /\ role[c] = "run"
  /\ role' = [w \in Caller |->
                IF w = c THEN "done" ELSE IF w \in Waiters(c) THEN "got" ELSE role[w]]
  /\ val' = [w \in Caller |-> IF w = c \/ w \in Waiters(c) THEN v ELSE val[w]]
  /\ leader' = [w \in Caller |-> IF w \in Waiters(c) THEN None ELSE leader[w]]
  /\ UNCHANGED <<m, key, forgotten>>

\* A call that Forget took out of the map must leave its successor there.
Mine(c) == ~forgotten[c]

\* doCall: the mutex again, and the call leaves the map.
Unmap(c) ==
  /\ role[c] = "done"
  /\ m' = IF Mine(c) THEN [m EXCEPT ![key[c]] = None] ELSE m
  /\ role' = [role EXCEPT ![c] = "got"]
  /\ UNCHANGED <<key, val, leader, forgotten>>

\* Do returns.
Leave(c) ==
  /\ role[c] = "got"
  /\ role' = [role EXCEPT ![c] = "out"]
  /\ val' = [val EXCEPT ![c] = None]
  /\ UNCHANGED <<m, key, leader, forgotten>>

\* Forget: the next Do for the key starts a call of its own.
Forget(k) ==
  /\ m[k] # None
  /\ forgotten' = [forgotten EXCEPT ![m[k]] = TRUE]
  /\ m' = [m EXCEPT ![k] = None]
  /\ UNCHANGED <<role, key, val, leader>>

SFNext ==
  \/ \E c \in Caller :
       \/ \E k \in Key : Lead(c, k) \/ Join(c, k)
       \/ \E v \in Value : Finish(c, v)
       \/ Unmap(c) \/ Leave(c)
  \/ \E k \in Key : Forget(k)

SFSpec == SFInit /\ [][SFNext]_sfvars

-----------------------------------------------------------------------------
(* Properties.                                                             *)

SFTypeOK ==
  /\ m \in [Key -> Caller \cup {None}]
  /\ role \in [Caller -> {"out", "run", "done", "wait", "got"}]
  /\ key \in [Caller -> Key]
  /\ val \in [Caller -> Value \cup {None}]
  /\ leader \in [Caller -> Caller \cup {None}]
  /\ forgotten \in [Caller -> BOOLEAN]

\* Do: "only one execution is in-flight for a given key at a time", until the key
\* is forgotten; and the map names exactly the calls that can still be joined.
OneFlight ==
  /\ \A c, d \in Caller :
       role[c] = "run" /\ role[d] = "run" /\ key[c] = key[d]
         /\ ~forgotten[c] /\ ~forgotten[d] => c = d
  /\ \A k \in Key : \A c \in Caller :
       m[k] = c <=> role[c] \in InFlight /\ key[c] = k /\ ~forgotten[c]

\* A caller that waits, waits for a call of its own key that is still running: the
\* wake-up cannot have been missed, and it gets no other key's value.
WaitsForRunning ==
  \A c \in Caller : role[c] = "wait" =>
    leader[c] \in Caller /\ role[leader[c]] = "run" /\ key[leader[c]] = key[c]
=============================================================================

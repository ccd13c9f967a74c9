------------------------ MODULE SingleFlight_proof ------------------------
(***************************************************************************)
(* Proofs about SingleFlight, for any callers, keys and values.  The       *)
(* lemmas about single steps say nothing about the value of a call, so     *)
(* that a module that composes SingleFlight with steps of its own can use  *)
(* them.                                                                   *)
(***************************************************************************)
EXTENDS SingleFlight, TLAPS

\* The part of the state that decides who runs, who waits and for whom.
FlightTypes ==
  /\ m \in [Key -> Caller \cup {None}]
  /\ role \in [Caller -> {"out", "run", "done", "wait", "got"}]
  /\ key \in [Caller -> Key]
  /\ leader \in [Caller -> Caller \cup {None}]
  /\ forgotten \in [Caller -> BOOLEAN]

\* The second half of OneFlight, from which the first follows.
MapNamesFlights ==
  \A k \in Key : \A c \in Caller :
    m[k] = c <=> role[c] \in InFlight /\ key[c] = k /\ ~forgotten[c]

FlightInv == FlightTypes /\ MapNamesFlights /\ WaitsForRunning

\* One step of Do, whatever value a call ends with.
Moves(c) ==
  \/ \E k \in Key : Lead(c, k) \/ Join(c, k)
  \/ \E v : Finish(c, v)
  \/ Unmap(c) \/ Leave(c)

\* At most one unforgotten call runs for a key, because the map can name one only.
LEMMA MapGivesOneFlight == FlightInv => OneFlight
BY DEF FlightInv, FlightTypes, MapNamesFlights, OneFlight, InFlight

\* Nobody is in Do at first.
LEMMA FlightInitial ==
  ASSUME None \notin Caller, Key # {}, SFInit PROVE FlightInv
BY DEF SFInit, FlightInv, FlightTypes, MapNamesFlights, WaitsForRunning, InFlight

\* A caller leads only when the map has no call for the key.
LEMMA LeadKeeps ==
  ASSUME None \notin Caller, FlightInv, NEW c \in Caller, NEW k \in Key, Lead(c, k)
  PROVE  FlightInv'
<1>1. FlightTypes'
  BY DEF FlightInv, FlightTypes, Lead, Free
<1>2. MapNamesFlights'
  BY DEF FlightInv, FlightTypes, MapNamesFlights, Lead, Free, InFlight
<1>3. WaitsForRunning'
  BY DEF FlightInv, FlightTypes, WaitsForRunning, Lead, Free
<1> QED BY <1>1, <1>2, <1>3 DEF FlightInv

\* A caller that joins waits for the call the map names, if that still runs.
LEMMA JoinKeeps ==
  ASSUME None \notin Caller, FlightInv, NEW c \in Caller, NEW k \in Key, Join(c, k)
  PROVE  FlightInv'
<1>1. m[k] \in Caller /\ role[m[k]] \in InFlight /\ key[m[k]] = k /\ m[k] # c
  BY DEF FlightInv, FlightTypes, MapNamesFlights, Join, Free, InFlight
<1>2. FlightTypes'
  BY <1>1 DEF FlightInv, FlightTypes, Join, Free
<1>3. MapNamesFlights'
  BY DEF FlightInv, FlightTypes, MapNamesFlights, Join, Free, InFlight
<1>4. WaitsForRunning'
  BY <1>1 DEF FlightInv, FlightTypes, WaitsForRunning, Join, Free
<1> QED BY <1>2, <1>3, <1>4 DEF FlightInv

\* The call that ends wakes everyone who waits for it, and stays in the map.
LEMMA FinishKeeps ==
  ASSUME None \notin Caller, FlightInv, NEW c \in Caller, NEW v, Finish(c, v)
  PROVE  FlightInv'
<1>1. FlightTypes'
  BY DEF FlightInv, FlightTypes, Finish, Waiters
<1>2. MapNamesFlights'
  BY DEF FlightInv, FlightTypes, MapNamesFlights, Finish, Waiters, InFlight
<1>3. WaitsForRunning'
  BY DEF FlightInv, FlightTypes, WaitsForRunning, Finish, Waiters
<1> QED BY <1>1, <1>2, <1>3 DEF FlightInv

\* The call leaves the map when nobody waits for it any more.
LEMMA UnmapKeeps ==
  ASSUME None \notin Caller, FlightInv, NEW c \in Caller, Unmap(c)
  PROVE  FlightInv'
<1>1. FlightTypes'
  BY DEF FlightInv, FlightTypes, Unmap, Mine
<1>2. MapNamesFlights'
  BY DEF FlightInv, FlightTypes, MapNamesFlights, Unmap, Mine, InFlight
<1>3. WaitsForRunning'
  BY DEF FlightInv, FlightTypes, WaitsForRunning, Unmap, Mine
<1> QED BY <1>1, <1>2, <1>3 DEF FlightInv

\* A caller that leaves is no longer in flight and nobody waits for it.
LEMMA LeaveKeeps ==
  ASSUME None \notin Caller, FlightInv, NEW c \in Caller, Leave(c)
  PROVE  FlightInv'
<1>1. FlightTypes'
  BY DEF FlightInv, FlightTypes, Leave
<1>2. MapNamesFlights'
  BY DEF FlightInv, FlightTypes, MapNamesFlights, Leave, InFlight
<1>3. WaitsForRunning'
  BY DEF FlightInv, FlightTypes, WaitsForRunning, Leave
<1> QED BY <1>1, <1>2, <1>3 DEF FlightInv

\* A call that is forgotten is out of the map, but those who wait for it still do.
LEMMA ForgetKeeps ==
  ASSUME None \notin Caller, FlightInv, NEW k \in Key, Forget(k)
  PROVE  FlightInv'
<1>1. m[k] \in Caller /\ role[m[k]] \in InFlight /\ key[m[k]] = k
  BY DEF FlightInv, FlightTypes, MapNamesFlights, Forget
<1>2. FlightTypes'
  BY <1>1 DEF FlightInv, FlightTypes, Forget
<1>3. MapNamesFlights'
  BY <1>1 DEF FlightInv, FlightTypes, MapNamesFlights, Forget, InFlight
<1>4. WaitsForRunning'
  BY <1>1 DEF FlightInv, FlightTypes, WaitsForRunning, Forget
<1> QED BY <1>2, <1>3, <1>4 DEF FlightInv

\* The step of one caller.
LEMMA MovesKeep ==
  ASSUME None \notin Caller, FlightInv, NEW c \in Caller, Moves(c)
  PROVE  FlightInv'
BY LeadKeeps, JoinKeeps, FinishKeeps, UnmapKeeps, LeaveKeeps DEF Moves

\* Nothing of SingleFlight changes.
LEMMA FlightStutters ==
  ASSUME FlightInv, UNCHANGED sfvars PROVE FlightInv'
BY DEF FlightInv, FlightTypes, MapNamesFlights, WaitsForRunning, sfvars

\* Do and doCall (singleflight.go:87-156): "only one execution is in-flight for a
\* given key at a time", and nobody waits for a call that is over, however many
\* callers there are and whatever is forgotten in between.
THEOREM FlightsAreShared ==
  ASSUME None \notin Caller, Key # {}
  PROVE  SFSpec => [](OneFlight /\ WaitsForRunning)
<1>1. SFInit => FlightInv
  BY FlightInitial
<1>2. FlightInv /\ [SFNext]_sfvars => FlightInv'
  <2> SUFFICES ASSUME FlightInv, [SFNext]_sfvars PROVE FlightInv'
    OBVIOUS
  <2>1. CASE \E c \in Caller : Moves(c)
    BY <2>1, MovesKeep
  <2>2. CASE \E k \in Key : Forget(k)
    BY <2>2, ForgetKeeps
  <2>3. CASE UNCHANGED sfvars
    BY <2>3, FlightStutters
  <2> QED
    BY <2>1, <2>2, <2>3 DEF SFNext, Moves
<1>3. FlightInv => OneFlight /\ WaitsForRunning
  BY MapGivesOneFlight DEF FlightInv
<1> QED
  BY <1>1, <1>2, <1>3, PTL DEF SFSpec
=============================================================================

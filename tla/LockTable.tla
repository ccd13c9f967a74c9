----------------------------- MODULE LockTable -----------------------------
(***************************************************************************)
(* What the WebDAV lock system (server/webdav/lock.go, interface           *)
(* LockSystem) promises: a table of locks, each on a resource and, unless  *)
(* it has zero depth, on everything below it. Any call may find locks      *)
(* expired. A confirmed lock is claimed until its release: it can neither  *)
(* expire nor be refreshed, removed or claimed again.                      *)
(*                                                                         *)
(* A lock is known by its token. A caller reads the time before it gets    *)
(* the mutex, so a call may carry any earlier time.                        *)
(***************************************************************************)
EXTENDS LockNames

VARIABLES
  locks,    \* token -> Lock
  gen,      \* the last token given out
  claims,   \* release functions not called yet, each as the tokens it holds
  clock

vars == <<locks, gen, claims, clock>>

Deadline(now, duration) == IF duration = Never THEN Never ELSE now + duration

Init == locks = [t \in {} |-> Never] /\ gen = 0 /\ claims = {} /\ clock = 0

Held == UNION claims

\* The locks a call made at time now still finds.
Live(now) == {t \in DOMAIN locks :
                t \in Held \/ locks[t].deadline = Never \/ now < locks[t].deadline}
Kept(now) == [t \in Live(now) |-> locks[t]]

OnlyExpire(now) == locks' = Kept(now) /\ UNCHANGED <<gen, claims, clock>>

Create(now, l) ==
  /\ gen < MaxGen
  /\ \A t \in Live(now) : ~Conflict(locks[t], l)
  /\ gen' = gen + 1
  /\ locks' = [t \in Live(now) \cup {gen + 1} |-> IF t = gen + 1 THEN l ELSE locks[t]]
  /\ UNCHANGED <<claims, clock>>

CreateLocked(now, l) ==
  /\ \E t \in Live(now) : Conflict(locks[t], l)
  /\ OnlyExpire(now)

\* The locks among the tokens tokens that a request may claim for name.
Claimable(now, tokens, name) ==
  {t \in (tokens \cap Live(now)) \ Held : Covers(locks[t], name)}

Confirm(now, names, tokens) ==
  /\ \E pick \in [names -> tokens] :
       /\ \A x \in names : pick[x] \in Claimable(now, tokens, x)
       /\ claims' = claims \cup {{pick[x] : x \in names}}
  /\ locks' = Kept(now)
  /\ UNCHANGED <<gen, clock>>

ConfirmFailed(now, names, tokens) ==
  /\ \E x \in names : Claimable(now, tokens, x) = {}
  /\ OnlyExpire(now)

Release(claim) ==
  /\ claims' = claims \ {claim}
  /\ UNCHANGED <<locks, gen, clock>>

Refresh(now, t, duration) ==
  /\ t \in Live(now) \ Held
  /\ locks' = [Kept(now) EXCEPT ![t].deadline = Deadline(now, duration)]
  /\ UNCHANGED <<gen, claims, clock>>

Unlock(now, t) ==
  /\ t \in Live(now) \ Held
  /\ locks' = [u \in Live(now) \ {t} |-> locks[u]]
  /\ UNCHANGED <<gen, claims, clock>>

\* Refresh or Unlock of a lock that is gone or claimed.
Refused(now, t) == t \notin Live(now) \ Held /\ OnlyExpire(now)

Tick == clock < MaxTime /\ clock' = clock + 1 /\ UNCHANGED <<locks, gen, claims>>

-----------------------------------------------------------------------------
\* The inputs of the calls: any time up to the present, one or two names, one
\* or two tokens.
Now == 0..clock
Request == [root : Name, zeroDepth : BOOLEAN, duration : Durations \cup {Never}]
Requested(now, r) ==
  [root |-> r.root, zeroDepth |-> r.zeroDepth, deadline |-> Deadline(now, r.duration)]
UpToTwo(S) == {{x, y} : x \in S, y \in S}

Next ==
  \/ Tick
  \/ \E claim \in claims : Release(claim)
  \/ \E now \in Now :
       \/ \E r \in Request : Create(now, Requested(now, r)) \/ CreateLocked(now, Requested(now, r))
       \/ \E names \in UpToTwo(Name), tokens \in UpToTwo(1..MaxGen) :
            Confirm(now, names, tokens) \/ ConfirmFailed(now, names, tokens)
       \/ \E t \in 1..MaxGen :
            \/ \E d \in Durations \cup {Never} : Refresh(now, t, d)
            \/ Unlock(now, t)
            \/ Refused(now, t)

Spec == Init /\ [][Next]_vars

-----------------------------------------------------------------------------
TypeOK ==
  /\ gen \in 0..MaxGen
  /\ clock \in 0..MaxTime
  /\ DOMAIN locks \subseteq 1..gen
  /\ locks \in [DOMAIN locks -> Lock]
  /\ claims \subseteq SUBSET DOMAIN locks

\* canCreate: no resource is ever under two locks.
NoConflict ==
  \A t, u \in DOMAIN locks : t # u => ~Conflict(locks[t], locks[u])

\* Confirm promises exclusive access: two releases outstanding at a time share
\* no lock and no resource.
ExclusiveClaims ==
  \A c, d \in claims : c # d =>
    \A t \in c, u \in d, x \in Name : ~(Covers(locks[t], x) /\ Covers(locks[u], x))
=============================================================================

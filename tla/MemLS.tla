------------------------------- MODULE MemLS -------------------------------
(***************************************************************************)
(* memLS of server/webdav/lock.go, the lock system of the WebDAV server.   *)
(* Every method runs under m.mu and is one action. Locks live in a tree of *)
(* nodes, one for each locked name and each of its ancestors, kept by      *)
(* reference counts; a heap holds the nodes that will expire.              *)
(*                                                                         *)
(* A node is found by its name, so a pointer to a node is that name. The   *)
(* heap is the set of nodes with queued; a node that loses its lock keeps  *)
(* the rest of its fields, as in the code. The function that Confirm       *)
(* returns is an element of claims until it is called. Owner texts are     *)
(* left out.                                                               *)
(***************************************************************************)
EXTENDS LockNames

VARIABLES
  byName,    \* name -> node
  byToken,   \* token -> name of its node
  gen, claims, clock

vars == <<byName, byToken, gen, claims, clock>>

NoToken == 0
Node == [token : Nat, refCount : Nat, zeroDepth : BOOLEAN, finite : BOOLEAN,
         expiry : Nat, held : BOOLEAN, queued : BOOLEAN]
FreshNode == [token |-> NoToken, refCount |-> 0, zeroDepth |-> FALSE,
              finite |-> TRUE, expiry |-> 0, held |-> FALSE, queued |-> FALSE]

Init ==
  /\ byName = [x \in {} |-> FreshNode] /\ byToken = [t \in {} |-> << >>]
  /\ gen = 0 /\ claims = {} /\ clock = 0

-----------------------------------------------------------------------------
(* The tree. B is a value of byName, T one of byToken.                     *)

\* Fault: a node that several removed locks share is counted down once.
Removed_mutant(B, G) ==
  LET Gone(x) == IF \E g \in G : x \in Walk(g) THEN 1 ELSE 0
  IN [x \in {y \in DOMAIN B : B[y].refCount > Gone(y)} |->
        [B[x] EXCEPT !.token = IF x \in G THEN NoToken ELSE @,
                     !.refCount = @ - Gone(x), !.queued = @ /\ x \notin G]]
\* remove, of every node of G: the nodes lose their lock, and what has no
\* lock at or below it any more is deleted.
Removed(B, G) ==
  LET Gone(x) == Cardinality({g \in G : x \in Walk(g)})
  IN [x \in {y \in DOMAIN B : B[y].refCount > Gone(y)} |->
        [token |-> IF x \in G THEN NoToken ELSE B[x].token,
         refCount |-> B[x].refCount - Gone(x),
         zeroDepth |-> B[x].zeroDepth, finite |-> B[x].finite, expiry |-> B[x].expiry,
         held |-> B[x].held, queued |-> B[x].queued /\ x \notin G]]
\* Fault: the token stays in byToken.
Forgotten_mutant(T, G) == T

Forgotten(T, G) == [t \in {u \in DOMAIN T : T[u] \notin G} |-> T[t]]

\* collectExpiredNodes, the first step of every method.
Expired(now) == {x \in DOMAIN byName : byName[x].queued /\ byName[x].expiry <= now}
Fresh(now) == Removed(byName, Expired(now))
FreshTokens(now) == Forgotten(byToken, Expired(now))
Collect(now) ==
  byName' = Fresh(now) /\ byToken' = FreshTokens(now) /\ UNCHANGED <<gen, claims, clock>>

\* Fault: infinite-depth locks on ancestors are not looked at.
CanCreate_mutant(B, name, zeroDepth) ==
  name \in DOMAIN B => B[name].token = NoToken /\ zeroDepth

CanCreate(B, name, zeroDepth) ==
  \A x \in Walk(name) \cap DOMAIN B :
    IF x = name THEN B[x].token = NoToken /\ zeroDepth
                ELSE B[x].token = NoToken \/ B[x].zeroDepth

NodeAt(B, x) == IF x \in DOMAIN B THEN B[x] ELSE FreshNode

\* create: node becomes the node of name, which is counted in every ancestor.
Created(B, name, node) ==
  LET new(x) == IF x = name THEN node ELSE NodeAt(B, x)
      more(x) == IF x \in Walk(name) THEN 1 ELSE 0
  IN [x \in DOMAIN B \cup Walk(name) |->
        [token |-> new(x).token, refCount |-> NodeAt(B, x).refCount + more(x),
         zeroDepth |-> new(x).zeroDepth, finite |-> new(x).finite,
         expiry |-> new(x).expiry, held |-> new(x).held, queued |-> new(x).queued]]

\* Fault: a held node stays in the heap.
Hold_mutant(B, H) ==
  [x \in DOMAIN B |-> IF x \in H THEN [B[x] EXCEPT !.held = TRUE] ELSE B[x]]
\* Fault: a released node does not return to the heap.
Unhold_mutant(B, H) ==
  [x \in DOMAIN B |-> IF x \in H THEN [B[x] EXCEPT !.held = FALSE] ELSE B[x]]

\* hold and unhold, of every node of H.
Hold(B, H) ==
  [x \in DOMAIN B |->
     IF x \in H THEN [B[x] EXCEPT !.held = TRUE, !.queued = B[x].queued /\ ~B[x].finite]
                ELSE B[x]]
Unhold(B, H) ==
  [x \in DOMAIN B |->
     IF x \in H THEN [B[x] EXCEPT !.held = FALSE, !.queued = B[x].queued \/ B[x].finite]
                ELSE B[x]]

\* A node's lock: its root, depth and deadline.
LockAt(B, x) == [root |-> x, zeroDepth |-> B[x].zeroDepth,
                 deadline |-> IF B[x].finite THEN B[x].expiry ELSE Never]

\* Fault: a lock somebody else holds matches.
Matches_mutant(B, T, tokens, name) ==
  {t \in tokens \cap DOMAIN T : Covers(LockAt(B, T[t]), name)}

\* lookup: the tokens among a request's that lock name and are not held. The
\* code takes the first; NoConflict leaves at most one.
Matches(B, T, tokens, name) ==
  {t \in tokens \cap DOMAIN T : ~B[T[t]].held /\ Covers(LockAt(B, T[t]), name)}

-----------------------------------------------------------------------------
(* The methods. now is the caller's time.                                  *)

Create(now, root, zeroDepth, duration) ==
  LET B == Fresh(now)
      finite == duration # Never
      node == [NodeAt(B, root) EXCEPT
                 !.token = gen + 1, !.zeroDepth = zeroDepth, !.finite = finite,
                 !.expiry = IF finite THEN now + duration ELSE @,
                 !.queued = finite \/ @]
  IN /\ gen < MaxGen
     /\ CanCreate(B, root, zeroDepth)
     /\ gen' = gen + 1
     /\ byName' = Created(B, root, node)
     /\ byToken' = [t \in DOMAIN FreshTokens(now) \cup {gen + 1} |->
                      IF t = gen + 1 THEN root ELSE byToken[t]]
     /\ UNCHANGED <<claims, clock>>

CreateLocked(now, root, zeroDepth) ==
  ~CanCreate(Fresh(now), root, zeroDepth) /\ Collect(now)

\* Confirm of up to two names under the condition tokens of one If list.
Confirm(now, names, tokens) ==
  LET B == Fresh(now)
      T == FreshTokens(now)
  IN \E pick \in [names -> tokens] :
       /\ \A x \in names : pick[x] \in Matches(B, T, tokens, x)
       /\ byName' = Hold(B, {T[pick[x]] : x \in names})
       /\ byToken' = T
       /\ claims' = claims \cup {{pick[x] : x \in names}}
       /\ UNCHANGED <<gen, clock>>

ConfirmFailed(now, names, tokens) ==
  /\ \E x \in names : Matches(Fresh(now), FreshTokens(now), tokens, x) = {}
  /\ Collect(now)

\* The function Confirm returned is called, once.
Release(claim) ==
  /\ byName' = Unhold(byName, {byToken[t] : t \in claim})
  /\ claims' = claims \ {claim}
  /\ UNCHANGED <<byToken, gen, clock>>

\* Fault: a held lock may be refreshed and unlocked.
Free_mutant(now, t) == t \in DOMAIN FreshTokens(now)

Free(now, t) == t \in DOMAIN FreshTokens(now) /\ ~Fresh(now)[byToken[t]].held

\* Fault: a lock made infinite stays in the heap.
Refresh_mutant(now, t, duration) ==
  LET x == byToken[t]
      finite == duration # Never
      node == [Fresh(now)[x] EXCEPT !.finite = finite, !.queued = finite \/ @,
                                    !.expiry = IF finite THEN now + duration ELSE @]
  IN /\ Free(now, t)
     /\ byName' = [y \in DOMAIN Fresh(now) |-> IF y = x THEN node ELSE Fresh(now)[y]]
     /\ byToken' = FreshTokens(now)
     /\ UNCHANGED <<gen, claims, clock>>

Refresh(now, t, duration) ==
  LET x == byToken[t]
      finite == duration # Never
      old == Fresh(now)[x]
      node == [old EXCEPT !.finite = finite, !.queued = finite,
                          !.expiry = IF finite THEN now + duration ELSE @]
  IN /\ Free(now, t)
     /\ byName' = [y \in DOMAIN Fresh(now) |-> IF y = x THEN node ELSE Fresh(now)[y]]
     /\ byToken' = FreshTokens(now)
     /\ UNCHANGED <<gen, claims, clock>>

Unlock(now, t) ==
  /\ Free(now, t)
  /\ byName' = Removed(Fresh(now), {byToken[t]})
  /\ byToken' = Forgotten(FreshTokens(now), {byToken[t]})
  /\ UNCHANGED <<gen, claims, clock>>

\* ErrNoSuchLock or ErrLocked from Refresh or Unlock.
Refused(now, t) == ~Free(now, t) /\ Collect(now)

Tick == clock < MaxTime /\ clock' = clock + 1 /\ UNCHANGED <<byName, byToken, gen, claims>>

-----------------------------------------------------------------------------
Now == 0..clock
UpToTwo(S) == {{x, y} : x \in S, y \in S}

Next ==
  \/ Tick
  \/ \E claim \in claims : Release(claim)
  \/ \E now \in Now :
       \/ \E root \in Name, zeroDepth \in BOOLEAN :
            \/ \E d \in Durations \cup {Never} : Create(now, root, zeroDepth, d)
            \/ CreateLocked(now, root, zeroDepth)
       \/ \E names \in UpToTwo(Name), tokens \in UpToTwo(1..MaxGen) :
            Confirm(now, names, tokens) \/ ConfirmFailed(now, names, tokens)
       \/ \E t \in 1..MaxGen :
            \/ \E d \in Durations \cup {Never} : Refresh(now, t, d)
            \/ Unlock(now, t)
            \/ Refused(now, t)

Spec == Init /\ [][Next]_vars

-----------------------------------------------------------------------------
TypeOK ==
  /\ gen \in 0..MaxGen
  /\ clock \in 0..MaxTime
  /\ DOMAIN byName \subseteq Name
  /\ byName \in [DOMAIN byName -> Node]
  /\ DOMAIN byToken \subseteq 1..gen
  /\ byToken \in [DOMAIN byToken -> DOMAIN byName]
  /\ claims \subseteq SUBSET DOMAIN byToken

\* The names that carry a lock, at or below x.
LockedBelow(x) == {y \in DOMAIN byName : byName[y].token # NoToken /\ x \in Walk(y)}

\* refCount, after any creations, expiries and removals: a node exists exactly
\* while something at or below it is locked, and counts how many names are.
RefCounts ==
  /\ \A x \in DOMAIN byName : byName[x].refCount = Cardinality(LockedBelow(x)) /\ LockedBelow(x) # {}
  /\ \A y \in DOMAIN byName : byName[y].token # NoToken => Walk(y) \subseteq DOMAIN byName

\* Tokens and nodes name each other.
TokensLink ==
  /\ \A t \in DOMAIN byToken : byName[byToken[t]].token = t
  /\ \A x \in DOMAIN byName : byName[x].token # NoToken =>
       byName[x].token \in DOMAIN byToken /\ byToken[byName[x].token] = x

\* The heap holds the locks that can expire: of finite duration and not held.
HeapExact ==
  \A x \in DOMAIN byName :
    byName[x].queued <=> byName[x].token # NoToken /\ byName[x].finite /\ ~byName[x].held

\* hold and unhold never panic: a node is held while, and only while, one
\* release function that will unhold it is outstanding.
HeldConsistent ==
  /\ \A x \in DOMAIN byName : byName[x].held <=> byName[x].token \in UNION claims
  /\ \A c, d \in claims : c # d => c \cap d = {}

\* canCreate sees every conflict: no resource is ever under two locks.
NoConflict ==
  \A t, u \in DOMAIN byToken :
    t # u => ~Conflict(LockAt(byName, byToken[t]), LockAt(byName, byToken[u]))

\* Confirm promises exclusive access: two release functions outstanding at a
\* time share no resource, through whatever locks they were claimed.
ExclusiveClaims ==
  \A c, d \in claims : c # d =>
    \A t \in c, u \in d, x \in Name :
      ~(Covers(LockAt(byName, byToken[t]), x) /\ Covers(LockAt(byName, byToken[u]), x))

\* A claimed lock keeps its root, depth and deadline until its release.
ClaimKept ==
  [][\A t \in UNION claims :
       /\ t \in DOMAIN byToken'
       /\ LockAt(byName', byToken'[t]) = LockAt(byName, byToken[t])]_vars

\* A lock goes only by its own UNLOCK or once its time is over: every lock
\* that is infinite or still has time survives the calls on other locks.
OnlyExpiredGo ==
  [][\A t \in DOMAIN byToken :
       t \notin DOMAIN byToken' =>
         \/ \E now \in Now : Unlock(now, t)
         \/ byName[byToken[t]].finite /\ byName[byToken[t]].expiry <= clock]_vars

\* memLS implements the lock table.
Table == INSTANCE LockTable WITH
  locks <- [t \in DOMAIN byToken |-> LockAt(byName, byToken[t])]
ImplementsTable == Table!Spec

=============================================================================

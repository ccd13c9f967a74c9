---------------------------- MODULE WebDavLocks ----------------------------
(***************************************************************************)
(* The requests of several WebDAV clients over one lock system             *)
(* (server/webdav/webdav.go over LockTable). A handler that changes        *)
(* resources calls confirmLocks, then the file operations, then release:   *)
(*                                                                         *)
(*  - without an If header it creates temporary locks, source first, in    *)
(*    calls of their own, and unlocks them at the end;                     *)
(*  - with one it tries the lists of the header in turn until Confirm      *)
(*    accepts one.                                                         *)
(*                                                                         *)
(* Each call of the lock system is a step, and so is the time the file     *)
(* operations take (phase "acting"). LOCK and UNLOCK are one call each. A  *)
(* client uses the tokens it was given, and 0 for one nobody was given.    *)
(***************************************************************************)
EXTENDS LockNames, SequencesExt

CONSTANTS
  Client,
  Base,      \* the clients' base path (model.User.BasePath)
  Kinds,     \* the kinds of request: of "write" (PUT, MKCOL, PROPPATCH), "delete", "copy", "move"
  Tagged,    \* whether If lists may carry a resource tag
  MaxLists   \* bound on the lists of an If header

ASSUME RequestAssumption ==
  /\ Base \in Name /\ Tagged \in BOOLEAN /\ MaxLists \in Nat
  /\ Kinds \subseteq {"write", "delete", "copy", "move"}

VARIABLES
  locks, gen, claims, clock,  \* the lock system
  own,                        \* the tokens a client got from LOCK
  req                         \* the request a client is waiting for

T == INSTANCE LockTable
system == <<locks, gen, claims, clock>>
vars == <<locks, gen, claims, clock, own, req>>

-----------------------------------------------------------------------------
(* Requests.                                                               *)

\* user.JoinPath, and the paths of URLs that stay inside Name.
Join(path) == Base \o path
Path == {p \in Name : Join(p) \in Name}

Request ==
  {r \in [kind : Kinds, src : Path, dst : Path] :
     IF r.kind \in {"copy", "move"} THEN r.src # r.dst /\ r.src # << >> /\ r.dst # << >>
                                    ELSE r.dst = << >>}

\* Fault: a MOVE confirms its destination only.
SrcName_mutant(r) == IF r.kind \in {"copy", "move"} THEN << >> ELSE <<r.src>>

\* The names a handler passes to confirmLocks.
SrcName(r) ==
  CASE r.kind = "copy" -> << >>
    [] r.kind = "move" -> <<Join(r.src)>>
    [] OTHER -> <<r.src>>
DstName(r) == IF r.kind \in {"copy", "move"} THEN <<Join(r.dst)>> ELSE << >>

\* The resources the client asks to change.
Named(r) ==
  CASE r.kind = "copy" -> {Join(r.dst)}
    [] r.kind = "move" -> {Join(r.src), Join(r.dst)}
    [] OTHER -> {Join(r.src)}

\* A list of an If header: a token under an optional resource tag.  A request carries
\* one list or more; which one comes next is chosen when it is tried.
IfList(c) ==
  [tag : {{}} \cup (IF Tagged THEN {{x} : x \in Path} ELSE {}), tokens : {{t} : t \in own[c] \cup {0}}]

NoRequest == [kind |-> "none", src |-> << >>, dst |-> << >>]
Idle == [phase |-> "idle", r |-> NoRequest, pending |-> << >>, lists |-> 0,
         temp |-> << >>, claim |-> {}, now |-> 0]

Init == T!Init /\ own = [c \in Client |-> {}] /\ req = [c \in Client |-> Idle]

-----------------------------------------------------------------------------
(* confirmLocks.                                                           *)

\* Temporary locks still to be created, so that MaxGen never stops a request.
Owed == Cardinality({p \in Client \X (1..2) : p[2] <= Len(req[p[1]].pending)})

\* No If header.
Begin(c) ==
  \E r \in Request :
    LET pending == SrcName(r) \o DstName(r)
    IN /\ req[c].phase = "idle"
       /\ gen + Owed + Len(pending) <= MaxGen
       /\ req' = [req EXCEPT ![c] = [Idle EXCEPT !.phase = "locking", !.r = r,
                                                 !.pending = pending, !.now = clock]]
       /\ UNCHANGED <<system, own>>

TempLock(c) ==
  [root |-> Head(req[c].pending), zeroDepth |-> TRUE, deadline |-> Never]

CreateTemp(c) ==
  /\ req[c].phase = "locking"
  /\ T!Create(req[c].now, TempLock(c))
  /\ req' = [req EXCEPT ![c] =
                 [@ EXCEPT !.pending = Tail(req[c].pending), !.temp = Append(req[c].temp, gen + 1),
                           !.phase = IF Len(req[c].pending) = 1 THEN "acting" ELSE "locking"]]
  /\ UNCHANGED own

\* Fault: the lock on the source stays when the destination is locked.
TempLocked_mutant(c) ==
  /\ req[c].phase = "locking"
  /\ T!CreateLocked(req[c].now, TempLock(c))
  /\ req' = [req EXCEPT ![c] = Idle]
  /\ UNCHANGED own

\* 423; the lock on the source goes before the request ends.
TempLocked(c) ==
  /\ req[c].phase = "locking"
  /\ T!CreateLocked(req[c].now, TempLock(c))
  /\ req' = [req EXCEPT ![c] = IF @.temp = << >> THEN Idle
                               ELSE [@ EXCEPT !.phase = "releasing", !.pending = << >>]]
  /\ UNCHANGED own

\* An If header.
BeginIf(c) ==
  \E r \in Request, lists \in 1..MaxLists :
    /\ req[c].phase = "idle"
    /\ req' = [req EXCEPT ![c] = [Idle EXCEPT !.phase = "trying", !.r = r, !.lists = lists]]
    /\ UNCHANGED <<system, own>>

\* Fault: Confirm is asked about the source only.
ConfirmNames_mutant(r, list) ==
  IF r.kind = "copy" THEN ToSet(DstName(r))
  ELSE IF list.tag = {} THEN ToSet(SrcName(r)) ELSE list.tag

\* The names Confirm is asked about: the tag of a list stands for the source.
ConfirmNames(r, list) ==
  (IF list.tag = {} THEN ToSet(SrcName(r)) ELSE list.tag) \cup ToSet(DstName(r))

ConfirmList(c) ==
  /\ req[c].phase = "trying"
  /\ \E list \in IfList(c) : T!Confirm(clock, ConfirmNames(req[c].r, list), list.tokens)
  /\ req' = [req EXCEPT ![c] = [@ EXCEPT !.phase = "acting", !.lists = 0,
                                         !.claim = UNION (claims' \ claims)]]
  /\ UNCHANGED own

\* The next list, or 412.
ListFails(c) ==
  /\ req[c].phase = "trying"
  /\ \E list \in IfList(c) :
       T!ConfirmFailed(clock, ConfirmNames(req[c].r, list), list.tokens)
  /\ req' = [req EXCEPT ![c] = IF @.lists = 1 THEN Idle
                               ELSE [@ EXCEPT !.lists = req[c].lists - 1]]
  /\ UNCHANGED own

\* Fault: release is called before the file operations, not deferred.
ReleaseClaim_mutant(c) ==
  /\ req[c].phase = "acting" /\ req[c].temp = << >> /\ req[c].claim \in claims
  /\ T!Release(req[c].claim)
  /\ UNCHANGED <<own, req>>

\* The file operations are over; release is deferred.
ReleaseClaim(c) ==
  /\ req[c].phase = "acting" /\ req[c].temp = << >>
  /\ T!Release(req[c].claim)
  /\ req' = [req EXCEPT ![c] = Idle]
  /\ UNCHANGED own

\* Unlock of the last temporary lock; its error is ignored.
UnlockTemp(c) ==
  LET temp == req[c].temp
  IN /\ req[c].phase \in {"acting", "releasing"} /\ temp # << >>
     /\ T!Unlock(req[c].now, Last(temp)) \/ T!Refused(req[c].now, Last(temp))
     /\ req' = [req EXCEPT ![c] = IF Len(temp) = 1 THEN Idle
                                  ELSE [@ EXCEPT !.phase = "releasing", !.temp = Front(temp)]]
     /\ UNCHANGED own

-----------------------------------------------------------------------------
(* LOCK and UNLOCK.                                                        *)

HandleLock(c) ==
  \E path \in Path, zeroDepth \in BOOLEAN, d \in Durations \cup {Never} :
    LET l == [root |-> Join(path), zeroDepth |-> zeroDepth, deadline |-> T!Deadline(clock, d)]
    IN /\ req[c].phase = "idle"
       /\ \/ gen + Owed < MaxGen /\ T!Create(clock, l) /\ own' = [own EXCEPT ![c] = @ \cup {gen + 1}]
          \/ T!CreateLocked(clock, l) /\ UNCHANGED own
       /\ UNCHANGED req

\* LOCK without a body: the token of the If header is refreshed.
HandleRefresh(c) ==
  \E t \in own[c] \cup {0}, d \in Durations \cup {Never} :
    /\ req[c].phase = "idle"
    /\ T!Refresh(clock, t, d) \/ T!Refused(clock, t)
    /\ UNCHANGED <<own, req>>

HandleUnlock(c) ==
  \E t \in own[c] \cup {0} :
    /\ req[c].phase = "idle"
    /\ T!Unlock(clock, t) \/ T!Refused(clock, t)
    /\ UNCHANGED <<own, req>>

Tick == T!Tick /\ UNCHANGED <<own, req>>

Next ==
  \/ Tick
  \/ \E c \in Client :
       \/ Begin(c) \/ CreateTemp(c) \/ TempLocked(c)
       \/ BeginIf(c) \/ ConfirmList(c) \/ ListFails(c)
       \/ ReleaseClaim(c) \/ UnlockTemp(c)
       \/ HandleLock(c) \/ HandleRefresh(c) \/ HandleUnlock(c)

Spec == Init /\ [][Next]_vars

-----------------------------------------------------------------------------
Acting == {c \in Client : req[c].phase = "acting"}
TempOf(c) == ToSet(req[c].temp)
Mine(c) == TempOf(c) \cup req[c].claim

\* No request leaves a lock behind: every lock that has not been given to a
\* client by LOCK belongs to a request that is still running and will unlock it.
NoLeakedLock ==
  DOMAIN locks \subseteq UNION {own[c] \cup TempOf(c) : c \in Client}

\* While the file operations of a request run, every lock on a resource the
\* client named is one the request created or claimed ("we still need to check
\* that the resources aren't locked by another client").
LocksRespected ==
  \A c \in Acting : \A t \in DOMAIN locks, x \in Named(req[c].r) :
    Covers(locks[t], x) => t \in Mine(c)

\* Two requests whose file operations run at the same time named no resource
\* in common, whether they hold temporary locks or claims.
ExclusiveRequests ==
  \A c, d \in Acting : c # d => Named(req[c].r) \cap Named(req[d].r) = {}

\* A request holds what it confirmed until it is done: nobody's UNLOCK, refresh,
\* claim or expiry takes its locks away.
RequestKeepsLocks == \A c \in Acting : Mine(c) \subseteq DOMAIN locks
=============================================================================

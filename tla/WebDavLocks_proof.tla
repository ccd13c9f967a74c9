------------------------- MODULE WebDavLocks_proof -------------------------
(***************************************************************************)
(* Requests and locks: nothing is leaked, a request keeps what it          *)
(* confirmed and, under the configuration in which a handler locks what    *)
(* it changes, locks are respected.  For every number of clients, names,   *)
(* timeouts and If lists.                                                  *)
(***************************************************************************)
EXTENDS WebDavLocks, TLAPS

-----------------------------------------------------------------------------
(* Two locks on the way to one name (LockNames).                            *)

\* Of two names on the way from x to the root, one is on the other's way.
LEMMA WalkChain ==
  ASSUME NEW x \in Name, NEW y \in Walk(x), NEW z \in Walk(x)
  PROVE  y \in Walk(z) \/ z \in Walk(y)
  <1>1. x \in Seq(Component)
    BY NameAssumption
  <1>2. PICK i \in 0..Len(x) : y = SubSeq(x, 1, i)
    BY DEF Walk
  <1>3. PICK j \in 0..Len(x) : z = SubSeq(x, 1, j)
    BY DEF Walk
  <1>4. ASSUME NEW a \in 0..Len(x), NEW b \in 0..Len(x), a <= b
        PROVE  SubSeq(x, 1, a) \in Walk(SubSeq(x, 1, b))
    <2>1. Len(SubSeq(x, 1, b)) = b /\ SubSeq(x, 1, b) \in Seq(Component)
      BY <1>1, <1>4
    <2>2. SubSeq(SubSeq(x, 1, b), 1, a) = SubSeq(x, 1, a)
      BY <1>1, <1>4, <2>1
    <2>3. a \in 0..Len(SubSeq(x, 1, b))
      BY <1>4, <2>1
    <2>4. QED
      BY <2>2, <2>3 DEF Walk
  <1>5. i <= j \/ j <= i
    OBVIOUS
  <1>6. QED
    BY <1>2, <1>3, <1>4, <1>5

\* Two locks that protect the same name may not exist together.
LEMMA CoversMeet ==
  ASSUME NEW l, NEW k, NEW x \in Name, Covers(l, x), Covers(k, x)
  PROVE  Conflict(l, k)
  <1>1. CASE x = l.root \/ x = k.root
    BY <1>1 DEF Conflict
  <1>2. CASE x # l.root /\ x # k.root
    <2>1. l.root \in Walk(x) /\ k.root \in Walk(x) /\ ~l.zeroDepth /\ ~k.zeroDepth
      BY <1>2 DEF Covers
    <2>2. l.root \in Walk(k.root) \/ k.root \in Walk(l.root)
      BY <2>1, WalkChain
    <2>3. QED
      BY <2>1, <2>2 DEF Conflict, Covers
  <1>3. QED
    BY <1>1, <1>2

-----------------------------------------------------------------------------
(* The invariant: the table, ...                                           *)

Table ==
  /\ gen \in Nat /\ clock \in Nat
  /\ DOMAIN locks \subseteq 1..gen /\ locks \in [DOMAIN locks -> Lock]
  /\ claims \subseteq SUBSET DOMAIN locks
  /\ \A C, D \in claims : C # D => C \cap D = {}
  /\ \A t, u \in DOMAIN locks : t # u => ~Conflict(locks[t], locks[u])

\* ... the clients, ...
Phase == {"idle", "locking", "trying", "acting", "releasing"}
ReqType ==
  [phase : Phase, r : Request \cup {NoRequest}, pending : Seq(Name), lists : Int,
   temp : Seq(Nat), claim : SUBSET Nat, now : Nat]
Typed ==
  /\ own \in [Client -> SUBSET (1..gen)]
  /\ req \in [Client -> ReqType]

\* ... what a request holds, ...
Holds(c) ==
  /\ req[c].phase \in {"idle", "trying"} => req[c].temp = << >>
  /\ req[c].claim # {} => req[c].phase = "acting" /\ req[c].temp = << >>
  /\ req[c].claim = {} \/ req[c].claim \in claims
  /\ TempOf(c) \subseteq 1..gen
  /\ \A t \in TempOf(c) \cap DOMAIN locks : locks[t].deadline = Never
  /\ req[c].phase \in {"locking", "acting"} => TempOf(c) \subseteq DOMAIN locks
  /\ req[c].phase = "locking" => req[c].pending # << >>

\* ... and whose a token is: the temporary ones are known to nobody, what is claimed
\* was given out by LOCK, and no two requests share anything.
Given == UNION {own[d] : d \in Client}
Apart ==
  /\ \A c \in Client : TempOf(c) \cap Given = {}
  /\ UNION claims \subseteq Given
  /\ \A c, d \in Client : c # d =>
       TempOf(c) \cap TempOf(d) = {} /\ req[c].claim \cap req[d].claim = {}

Inv == Table /\ Typed /\ (\A c \in Client : Holds(c)) /\ Apart /\ NoLeakedLock

\* With all names of a request confirmed, something it holds covers each.
Guarded(S, x) == \E t \in S : Covers(locks[t], x)
Guards(c) ==
  /\ req[c].phase = "locking" => \A x \in Named(req[c].r) :
       x \in ToSet(req[c].pending) \/ Guarded(TempOf(c), x)
  /\ req[c].phase \in {"locking", "trying", "acting"} => req[c].r \in Request
  /\ req[c].phase = "acting" => \A x \in Named(req[c].r) : Guarded(Mine(c), x)
GuardInv == Inv /\ \A c \in Client : Guards(c)

-----------------------------------------------------------------------------
(* Sequences of tokens and of names.                                       *)

\* What ToSet makes of the sequences a request goes through.
LEMMA SetOfSeq ==
  ASSUME NEW S, NEW s \in Seq(S)
  PROVE  /\ ToSet(<< >>) = {} /\ ToSet(s) \subseteq S
         /\ s # << >> =>
              /\ Front(s) \in Seq(S) /\ Last(s) \in ToSet(s)
              /\ ToSet(Front(s)) \subseteq ToSet(s)
              /\ ToSet(s) \subseteq ToSet(Front(s)) \cup {Last(s)}
              /\ Tail(s) \in Seq(S) /\ Head(s) \in S
              /\ ToSet(s) = ToSet(Tail(s)) \cup {Head(s)}
              /\ (Len(s) = 1 => Tail(s) = << >>) /\ (Len(s) # 1 => Tail(s) # << >>)
  <1>1. ToSet(<< >>) = {} /\ ToSet(s) \subseteq S
    BY DEF ToSet
  <1>3. ASSUME s # << >>
        PROVE  /\ Front(s) \in Seq(S) /\ Last(s) \in ToSet(s)
               /\ ToSet(Front(s)) \subseteq ToSet(s)
               /\ ToSet(s) \subseteq ToSet(Front(s)) \cup {Last(s)}
    <2>1. Len(s) \in Nat /\ Len(s) > 0 /\ DOMAIN s = 1..Len(s)
      BY <1>3
    <2>2. Front(s) \in Seq(S) /\ DOMAIN Front(s) = 1..(Len(s) - 1)
      BY <2>1 DEF Front
    <2>3. \A i \in 1..(Len(s) - 1) : Front(s)[i] = s[i]
      BY <2>1 DEF Front
    <2>4. Last(s) \in ToSet(s)
      BY <2>1 DEF Last, ToSet
    <2>5. ToSet(Front(s)) \subseteq ToSet(s)
      BY <2>1, <2>2, <2>3 DEF ToSet
    <2>6. ToSet(s) \subseteq ToSet(Front(s)) \cup {Last(s)}
      <3>1. SUFFICES ASSUME NEW i \in 1..Len(s), i # Len(s)
                     PROVE  s[i] \in ToSet(Front(s))
        BY <2>1 DEF ToSet, Last
      <3>2. i \in 1..(Len(s) - 1)
        <4>1. Len(s) \in Nat /\ i \in 1..Len(s) /\ i # Len(s)
          BY <2>1, <3>1
        <4>2. QED
          BY ONLY <4>1
      <3>3. QED
        BY <2>2, <2>3, <3>2 DEF ToSet
    <2>7. QED
      BY <2>2, <2>4, <2>5, <2>6
  <1>4. ASSUME s # << >>
        PROVE  /\ Tail(s) \in Seq(S) /\ Head(s) \in S
               /\ ToSet(s) = ToSet(Tail(s)) \cup {Head(s)}
               /\ (Len(s) = 1 => Tail(s) = << >>) /\ (Len(s) # 1 => Tail(s) # << >>)
    <2>1. Len(s) \in Nat /\ Len(s) > 0 /\ DOMAIN s = 1..Len(s)
      BY <1>4
    <2>2. Tail(s) \in Seq(S) /\ Head(s) = s[1] /\ Head(s) \in S /\ Len(Tail(s)) = Len(s) - 1
          /\ DOMAIN Tail(s) = 1..(Len(s) - 1)
      BY <1>4, <2>1
    <2>3. \A i \in 1..(Len(s) - 1) : Tail(s)[i] = s[i + 1]
      BY <1>4, <2>1
    <2>4. ToSet(Tail(s)) \cup {Head(s)} \subseteq ToSet(s)
      BY <2>1, <2>2, <2>3 DEF ToSet
    <2>5. ToSet(s) \subseteq ToSet(Tail(s)) \cup {Head(s)}
      <3>1. SUFFICES ASSUME NEW i \in 1..Len(s), i # 1
                     PROVE  s[i] \in ToSet(Tail(s))
        BY <2>1, <2>2 DEF ToSet
      <3>2. i - 1 \in 1..(Len(s) - 1) /\ (i - 1) + 1 = i
        BY <2>1, <3>1
      <3>3. QED
        BY <2>2, <2>3, <3>2 DEF ToSet
    <2>6. Len(s) = 1 => Tail(s) = << >>
      BY <2>2
    <2>7. Len(s) # 1 => Tail(s) # << >>
      <3>1. Len(<< >>) = 0 /\ (Len(s) # 1 => Len(Tail(s)) # 0)
        BY <2>1, <2>2
      <3>2. QED
        BY ONLY <3>1
    <2>8. QED
      BY <2>2, <2>4, <2>5, <2>6, <2>7
  <1>5. QED
    BY <1>1, <1>3, <1>4

\* Append adds its element.
LEMMA SetOfAppend ==
  ASSUME NEW S, NEW s \in Seq(S), NEW e \in S
  PROVE  Append(s, e) \in Seq(S) /\ ToSet(Append(s, e)) = ToSet(s) \cup {e}
  <1>1. Append(s, e) \in Seq(S) /\ DOMAIN Append(s, e) = 1..(Len(s) + 1)
    OBVIOUS
  <1>2. \A i \in 1..Len(s) : Append(s, e)[i] = s[i]
    OBVIOUS
  <1>3. Append(s, e)[Len(s) + 1] = e /\ Len(s) \in Nat /\ DOMAIN s = 1..Len(s)
    OBVIOUS
  <1>4. ToSet(Append(s, e)) \subseteq ToSet(s) \cup {e}
    BY <1>1, <1>2, <1>3 DEF ToSet
  <1>5. ToSet(s) \cup {e} \subseteq ToSet(Append(s, e))
    BY <1>1, <1>2, <1>3 DEF ToSet
  <1>6. QED
    BY <1>1, <1>4, <1>5

-----------------------------------------------------------------------------
(* The calls of the lock system.                                           *)

\* The table's words are those of LockNames.
LEMMA SameWords ==
  /\ T!Never = Never
  /\ \A l, k : T!Conflict(l, k) <=> Conflict(l, k)
  /\ \A l, x : T!Covers(l, x) <=> Covers(l, x)
  BY DEF T!Never, Never, T!Conflict, Conflict, T!Covers, Covers, T!Walk, Walk

\* A lock stays as it is.
Same(t) == t \in DOMAIN locks' /\ locks'[t] = locks[t]
\* A lock that cannot expire.
Firm(t) == t \in UNION claims \/ locks[t].deadline = Never

\* Some locks expire, and those of S may be removed or refreshed.
Thins(S) ==
  /\ gen' = gen
  /\ DOMAIN locks' \subseteq DOMAIN locks /\ locks' \in [DOMAIN locks' -> Lock]
  /\ \A t \in DOMAIN locks' :
       locks'[t].root = locks[t].root /\ locks'[t].zeroDepth = locks[t].zeroDepth
  /\ \A t \in DOMAIN locks \ S : Firm(t) \/ t \in DOMAIN locks' => Same(t)

\* Some locks expire and one is added.
Adds(l) ==
  /\ gen' = gen + 1 /\ claims' = claims /\ clock' = clock
  /\ DOMAIN locks' \subseteq DOMAIN locks \cup {gen + 1}
  /\ gen + 1 \in DOMAIN locks' /\ locks'[gen + 1] = l
  /\ \A t \in DOMAIN locks : Firm(t) \/ t \in DOMAIN locks' => Same(t)

\* Locks that go leave a good table.
LEMMA ThinTable ==
  ASSUME Table, NEW S, Thins(S), S \cap UNION claims = {}, claims' = claims, clock' \in Nat
  PROVE  Table'
  <1>1. \A t \in UNION claims : t \in DOMAIN locks'
    BY DEF Table, Thins, Firm, Same
  <1>2. ASSUME NEW t \in DOMAIN locks', NEW u \in DOMAIN locks', t # u
        PROVE  ~Conflict(locks'[t], locks'[u])
    <2>1. ~Conflict(locks[t], locks[u])
      BY <1>2 DEF Table, Thins
    <2>2. QED
      BY <1>2, <2>1 DEF Thins, Conflict, Covers
  <1>3. gen' \in Nat /\ DOMAIN locks' \subseteq 1..gen'
    BY DEF Table, Thins
  <1>4. claims' \subseteq SUBSET DOMAIN locks'
    BY <1>1 DEF Table
  <1>5. QED
    BY <1>2, <1>3, <1>4 DEF Table, Thins

\* What is live, and what is kept.
LEMMA KeptThins ==
  ASSUME Table, NEW now
  PROVE  /\ T!Live(now) \subseteq DOMAIN locks
         /\ \A t \in DOMAIN locks : Firm(t) => t \in T!Live(now)
         /\ T!Held = UNION claims
         /\ (locks' = T!Kept(now) /\ gen' = gen) => Thins({})
  BY SameWords DEF Table, T!Live, T!Held, T!Kept, Thins, Firm, Same

\* A call that changes nothing but finds locks expired.
LEMMA ExpireStep ==
  ASSUME Table, NEW now, T!OnlyExpire(now)
  PROVE  Table' /\ Thins({}) /\ claims' = claims
  <1>1. Thins({}) /\ claims' = claims /\ clock' = clock
    BY KeptThins DEF T!OnlyExpire
  <1>2. QED
    BY <1>1, ThinTable DEF Table

\* Unlock removes a lock that is not claimed.
LEMMA UnlockStep ==
  ASSUME Table, NEW now, NEW t, T!Unlock(now, t)
  PROVE  Table' /\ Thins({t}) /\ claims' = claims /\ t \notin DOMAIN locks'
  <1>1. t \notin UNION claims /\ claims' = claims /\ clock' = clock /\ gen' = gen
    BY KeptThins DEF T!Unlock
  <1>2. DOMAIN locks' = T!Live(now) \ {t} /\ \A u \in T!Live(now) \ {t} : locks'[u] = locks[u]
    BY DEF T!Unlock
  <1>3. locks' = [u \in DOMAIN locks' |-> locks'[u]]
    BY <1>2 DEF T!Unlock
  <1>4. Thins({t})
    BY <1>1, <1>2, <1>3, KeptThins DEF Table, Thins, Same
  <1>5. QED
    BY <1>1, <1>2, <1>4, ThinTable DEF Table

\* Refresh gives a lock that is not claimed a new deadline.
LEMMA RefreshStep ==
  ASSUME Table, NEW now \in Nat, NEW t, NEW d \in Durations \cup {Never}, T!Refresh(now, t, d)
  PROVE  Table' /\ Thins({t}) /\ claims' = claims
  <1>1. t \notin UNION claims /\ claims' = claims /\ clock' = clock /\ gen' = gen
    BY KeptThins DEF T!Refresh
  <1>2. T!Deadline(now, d) \in Nat \cup {Never}
    BY SameWords, BoundAssumption DEF T!Deadline
  <1> DEFINE K == T!Kept(now)
  <1>3. DOMAIN K = T!Live(now) /\ (\A u \in T!Live(now) : K[u] = locks[u]) /\ t \in DOMAIN K
    BY DEF T!Kept, T!Refresh
  <1>4. locks' = [K EXCEPT ![t].deadline = T!Deadline(now, d)]
    BY DEF T!Refresh
  <1> HIDE DEF K
  <1>5. DOMAIN locks' = T!Live(now) /\ (\A u \in T!Live(now) \ {t} : locks'[u] = locks[u])
        /\ locks'[t] = [K[t] EXCEPT !.deadline = T!Deadline(now, d)]
        /\ locks' = [u \in DOMAIN locks' |-> locks'[u]]
    BY <1>3, <1>4
  <1>6. locks[t] \in Lock /\ K[t] = locks[t]
    BY <1>3, KeptThins DEF Table
  <1>7. locks'[t] \in Lock /\ locks'[t].root = locks[t].root
        /\ locks'[t].zeroDepth = locks[t].zeroDepth
    BY <1>2, <1>5, <1>6 DEF Lock
  <1>8. Thins({t})
    <2>1. DOMAIN locks' \subseteq DOMAIN locks
          /\ \A u \in DOMAIN locks : Firm(u) => u \in DOMAIN locks'
      BY <1>5, KeptThins
    <2>2. \A u \in DOMAIN locks' : locks'[u] \in Lock
      BY <1>5, <1>7, <2>1 DEF Table
    <2>3. locks' \in [DOMAIN locks' -> Lock]
      BY <1>5, <2>2
    <2>4. \A u \in DOMAIN locks' :
            locks'[u].root = locks[u].root /\ locks'[u].zeroDepth = locks[u].zeroDepth
      BY <1>5, <1>7
    <2>5. QED
      BY <1>1, <1>5, <2>1, <2>3, <2>4 DEF Thins, Same
  <1>9. QED
    BY <1>1, <1>8, ThinTable DEF Table

\* Create adds a lock that meets no other.
LEMMA CreateStep ==
  ASSUME Table, NEW now, NEW l \in Lock, T!Create(now, l)
  PROVE  Table' /\ Adds(l)
  <1>1. DOMAIN locks' = T!Live(now) \cup {gen + 1}
        /\ (\A t \in DOMAIN locks' : locks'[t] = IF t = gen + 1 THEN l ELSE locks[t])
        /\ locks' = [t \in DOMAIN locks' |-> locks'[t]]
        /\ gen' = gen + 1 /\ claims' = claims /\ clock' = clock
    BY DEF T!Create
  <1>2. gen \in Nat /\ gen + 1 \notin DOMAIN locks
    BY DEF Table
  <1>3. Adds(l)
    BY <1>1, <1>2, KeptThins DEF Adds, Same
  <1>4. \A t \in T!Live(now) : ~Conflict(locks[t], l)
    BY SameWords DEF T!Create
  <1>5. ASSUME NEW t \in DOMAIN locks', NEW u \in DOMAIN locks', t # u
        PROVE  ~Conflict(locks'[t], locks'[u])
    <2>1. CASE t # gen + 1 /\ u # gen + 1
      BY <1>1, <1>5, <2>1, KeptThins DEF Table
    <2>2. CASE u = gen + 1
      BY <1>1, <1>4, <1>5, <2>2
    <2>3. CASE t = gen + 1
      <3>1. ~Conflict(locks[u], l)
        BY <1>1, <1>4, <1>5, <2>3
      <3>2. QED
        BY <1>1, <1>5, <2>3, <3>1 DEF Conflict
    <2>4. QED
      BY <2>1, <2>2, <2>3
  <1>6. locks' \in [DOMAIN locks' -> Lock]
    BY <1>1, KeptThins DEF Table
  <1>7. DOMAIN locks' \subseteq 1..gen'
    BY <1>1, <1>2, KeptThins DEF Table
  <1>8. claims' \subseteq SUBSET DOMAIN locks'
    BY <1>1, KeptThins DEF Table, Firm
  <1>9. QED
    BY <1>1, <1>2, <1>3, <1>5, <1>6, <1>7, <1>8 DEF Table

\* A claim of unclaimed locks among the tokens, one at least for each name.
Claimed(names, tokens, C) ==
  /\ claims' = claims \cup {C}
  /\ C \subseteq tokens \cap DOMAIN locks' /\ C \cap UNION claims = {}
  /\ \A x \in names : Guarded(C, x)

\* Confirm makes such a claim.
LEMMA ConfirmStep ==
  ASSUME Table, NEW now, NEW names, NEW tokens, T!Confirm(now, names, tokens)
  PROVE  Table' /\ Thins({}) /\ \E C : Claimed(names, tokens, C)
  <1>1. Thins({}) /\ clock' = clock /\ gen' = gen /\ DOMAIN locks' = T!Live(now)
    BY KeptThins DEF T!Confirm, T!Kept
  <1>2. PICK pick \in [names -> tokens] :
          /\ \A x \in names : pick[x] \in T!Claimable(now, tokens, x)
          /\ claims' = claims \cup {{pick[x] : x \in names}}
    BY DEF T!Confirm
  <1> DEFINE C == {pick[x] : x \in names}
  <1>3. \A x \in names : /\ pick[x] \in tokens \cap T!Live(now) /\ pick[x] \notin UNION claims
                          /\ Covers(locks[pick[x]], x)
    BY <1>2, SameWords, KeptThins DEF T!Claimable
  <1>4. C \subseteq tokens \cap T!Live(now) /\ C \cap UNION claims = {}
        /\ \A x \in names : Guarded(C, x)
    BY <1>3 DEF Guarded
  <1>5. claims' = claims \cup {C}
    BY <1>2
  <1> HIDE DEF C
  <1>6. Claimed(names, tokens, C)
    BY <1>1, <1>4, <1>5 DEF Claimed
  <1>7. \A A, B \in claims' : A # B => A \cap B = {}
    BY <1>4, <1>5 DEF Table
  <1>8. claims' \subseteq SUBSET DOMAIN locks'
    BY <1>1, <1>4, <1>5, KeptThins DEF Table, Firm
  <1>9. \A t, u \in DOMAIN locks' : t # u => ~Conflict(locks'[t], locks'[u])
    BY <1>1 DEF Table, Thins, Same
  <1>10. QED
    BY <1>1, <1>6, <1>7, <1>8, <1>9 DEF Table, Thins

-----------------------------------------------------------------------------
(* Requests.                                                               *)

\* The client d does not move, and its locks are left alone.
Preserved(d) ==
  /\ req'[d] = req[d]
  /\ \A t \in Mine(d) : t \in DOMAIN locks /\ Firm(t) => Same(t)
  /\ \A t \in TempOf(d) \cap DOMAIN locks' : t \in DOMAIN locks /\ Same(t)

\* It holds what it held ...
LEMMA OthersHold ==
  ASSUME NEW d, Holds(d), Preserved(d), gen \in Nat, gen' \in {gen, gen + 1},
         req[d].claim = {} \/ req[d].claim \in claims'
  PROVE  Holds(d)'
  <1>1. TempOf(d)' = TempOf(d)
    BY DEF TempOf, Preserved
  <1>2. TempOf(d) \subseteq 1..gen'
    BY DEF Holds
  <1>3. \A t \in TempOf(d) \cap DOMAIN locks' : locks'[t].deadline = Never
    BY DEF Holds, Preserved, Same
  <1>4. req[d].phase \in {"locking", "acting"} => TempOf(d) \subseteq DOMAIN locks'
    BY DEF Holds, Preserved, Same, Firm, Mine
  <1>5. QED
    BY <1>1, <1>2, <1>3, <1>4 DEF Holds, Preserved

\* ... and is guarded by what guarded it.
LEMMA OthersGuarded ==
  ASSUME NEW d, Table, Holds(d), Guards(d), Preserved(d)
  PROVE  Guards(d)'
  <1>1. TempOf(d)' = TempOf(d) /\ Mine(d)' = Mine(d)
    BY DEF TempOf, Mine, Preserved
  <1>2. req[d].phase = "locking" => \A t \in TempOf(d) : Same(t)
    BY DEF Holds, Preserved, Firm, Mine
  <1>3. req[d].phase = "acting" => \A t \in Mine(d) : Same(t)
    BY DEF Table, Holds, Preserved, Firm, Mine
  <1>4. QED
    BY <1>1, <1>2, <1>3 DEF Guards, Guarded, Preserved, Same

\* Locks that go are not its own.
LEMMA ThinPreserves ==
  ASSUME NEW d, NEW S, Holds(d), Thins(S), S \cap TempOf(d) = {}, S \cap UNION claims = {},
         req'[d] = req[d]
  PROVE  Preserved(d)
  <1>1. \A t \in Mine(d) : t \notin S
    BY DEF Mine, Holds
  <1>2. QED
    BY <1>1 DEF Preserved, Thins

\* A lock that comes is none it had.
LEMMA AddPreserves ==
  ASSUME NEW d, NEW l, Holds(d), gen \in Nat, Adds(l), req'[d] = req[d]
  PROVE  Preserved(d)
  BY DEF Preserved, Adds, Holds

\* What the step of a client c has to show.
LEMMA OneMoves ==
  ASSUME Inv, NEW c \in Client, Table', Typed', Holds(c)', Apart', NoLeakedLock',
         gen' \in {gen, gen + 1},
         \A d \in Client \ {c} : Preserved(d) /\ (req[d].claim = {} \/ req[d].claim \in claims')
  PROVE  Inv'
  <1>1. gen \in Nat
    BY DEF Inv, Table
  <1>2. \A d \in Client \ {c} : Holds(d)'
    BY <1>1, OthersHold DEF Inv
  <1>3. QED
    BY <1>2 DEF Inv

\* The request of c, and no other, becomes r.
LEMMA Becomes ==
  ASSUME Typed, NEW c \in Client, NEW r \in ReqType, req' = [req EXCEPT ![c] = r]
  PROVE  /\ req' \in [Client -> ReqType] /\ req'[c] = r
         /\ \A d \in Client \ {c} : req'[d] = req[d]
  BY DEF Typed

\* What a request becomes.
Begun(o, q, p, now) == [o EXCEPT !.phase = "locking", !.r = q, !.pending = p, !.now = now]
Tried(o, q, n) == [o EXCEPT !.phase = "trying", !.r = q, !.lists = n]
Extended(o, pending, temp, phase) ==
  [o EXCEPT !.pending = pending, !.temp = temp, !.phase = phase]
Left(o, p) == [o EXCEPT !.phase = "releasing", !.pending = p]
Next1(o, n) == [o EXCEPT !.lists = n]
Confirmed(o, n, claim) == [o EXCEPT !.phase = "acting", !.lists = n, !.claim = claim]
Shortened(o, temp) == [o EXCEPT !.phase = "releasing", !.temp = temp]

\* The phases a request goes through.
LEMMA Phases == {"idle", "locking", "trying", "acting", "releasing"} \subseteq Phase
  BY DEF Phase
\* What each change of a request leaves as it was: a request begins, ...
LEMMA BegunTyped ==
  ASSUME NEW o \in ReqType, NEW q \in Request, NEW p \in Seq(Name), NEW now \in Nat
  PROVE  LET x == Begun(o, q, p, now) IN
         /\ x \in ReqType /\ x.phase = "locking" /\ x.r = q /\ x.pending = p
         /\ x.temp = o.temp /\ x.claim = o.claim
  BY Phases DEF Begun, ReqType
\* ... begins with lists to try, ...
LEMMA TriedTyped ==
  ASSUME NEW o \in ReqType, NEW q \in Request, NEW n \in Int
  PROVE  LET x == Tried(o, q, n) IN
         /\ x \in ReqType /\ x.phase = "trying" /\ x.r = q
         /\ x.temp = o.temp /\ x.claim = o.claim
  BY Phases DEF Tried, ReqType
\* ... has created a lock, ...
LEMMA ExtendedTyped ==
  ASSUME NEW o \in ReqType, NEW pending \in Seq(Name), NEW temp \in Seq(Nat), NEW phase \in Phase
  PROVE  LET x == Extended(o, pending, temp, phase) IN
         /\ x \in ReqType /\ x.phase = phase /\ x.r = o.r /\ x.pending = pending
         /\ x.temp = temp /\ x.claim = o.claim
  BY SetOfSeq, Phases DEF Extended, ReqType
\* ... has been refused one, ...
LEMMA LeftTyped ==
  ASSUME NEW o \in ReqType, NEW p \in Seq(Name)
  PROVE  LET x == Left(o, p) IN
         x \in ReqType /\ x.phase = "releasing" /\ x.temp = o.temp /\ x.claim = o.claim
  BY Phases DEF Left, ReqType
\* ... turns to the next list, ...
LEMMA Next1Typed ==
  ASSUME NEW o \in ReqType, NEW n \in Int
  PROVE  LET x == Next1(o, n) IN
         x \in ReqType /\ x.phase = o.phase /\ x.r = o.r /\ x.temp = o.temp /\ x.claim = o.claim
  BY Phases DEF Next1, ReqType
\* ... has claimed locks, ...
LEMMA ConfirmedTyped ==
  ASSUME NEW o \in ReqType, NEW n \in Int, NEW claim \in SUBSET Nat
  PROVE  LET x == Confirmed(o, n, claim) IN
         x \in ReqType /\ x.phase = "acting" /\ x.r = o.r /\ x.temp = o.temp /\ x.claim = claim
  BY Phases DEF Confirmed, ReqType
\* ... and has unlocked one.
LEMMA ShortenedTyped ==
  ASSUME NEW o \in ReqType, NEW temp \in Seq(Nat)
  PROVE  LET x == Shortened(o, temp) IN
         x \in ReqType /\ x.phase = "releasing" /\ x.temp = temp /\ x.claim = o.claim
  BY Phases DEF Shortened, ReqType

\* Nothing is asked and nothing is held.
LEMMA IdleTyped == Idle \in ReqType /\ ToSet(Idle.temp) = {}
  BY DEF Idle, ReqType, Phase, NoRequest, ToSet

\* A client that begins, or is done, holds nothing; c does not touch the locks.
LEMMA FreshHolds ==
  ASSUME NEW c, req'[c].temp = << >>, req'[c].claim = {},
         req'[c].phase = "locking" => req'[c].pending # << >>
  PROVE  Holds(c)' /\ TempOf(c)' = {}
  <1>1. TempOf(c)' = {}
    BY DEF TempOf, ToSet
  <1>2. QED
    BY <1>1 DEF Holds

\* The names of a request.
LEMMA Names ==
  ASSUME NEW r \in Request
  PROVE  /\ SrcName(r) \o DstName(r) \in Seq(Name) /\ SrcName(r) \o DstName(r) # << >>
         /\ Base = << >> => Named(r) \subseteq ToSet(SrcName(r) \o DstName(r))
         /\ Base = << >> => Named(r) \subseteq ToSet(SrcName(r)) \cup ToSet(DstName(r))
         /\ Named(r) \subseteq Name
  <1>1. /\ r.src \in Name /\ r.dst \in Name /\ Join(r.src) \in Name /\ Join(r.dst) \in Name
    BY DEF Request, Path
  <1>2. Base = << >> => Join(r.src) = r.src
    BY <1>1, NameAssumption DEF Join
  <1>3. CASE r.kind = "copy"
    <2>1. SrcName(r) = << >> /\ DstName(r) = <<Join(r.dst)>> /\ Named(r) = {Join(r.dst)}
      BY <1>3 DEF SrcName, DstName, Named
    <2>2. << >> \o <<Join(r.dst)>> = <<Join(r.dst)>>
      OBVIOUS
    <2>3. QED
      BY <1>1, <2>1, <2>2 DEF ToSet
  <1>4. CASE r.kind = "move"
    <2>1. SrcName(r) = <<Join(r.src)>> /\ DstName(r) = <<Join(r.dst)>>
          /\ Named(r) = {Join(r.src), Join(r.dst)}
      BY <1>4 DEF SrcName, DstName, Named
    <2> DEFINE q == <<Join(r.src)>> \o <<Join(r.dst)>>
    <2>2. q \in Seq(Name) /\ Len(q) = 2 /\ q[1] = Join(r.src) /\ q[2] = Join(r.dst)
      BY <1>1
    <2>3. ToSet(<<Join(r.src)>>) = {Join(r.src)} /\ ToSet(<<Join(r.dst)>>) = {Join(r.dst)}
      BY DEF ToSet
    <2> HIDE DEF q
    <2>4. Named(r) \subseteq ToSet(q) /\ q # << >>
      <3>1. DOMAIN q = 1..2
        BY <2>2
      <3>2. q[1] \in ToSet(q) /\ q[2] \in ToSet(q)
        BY <3>1 DEF ToSet
      <3>3. QED
        BY <2>1, <2>2, <3>2
    <2>5. SrcName(r) \o DstName(r) = q
      BY <2>1 DEF q
    <2>6. QED
      BY <1>1, <2>1, <2>2, <2>3, <2>4, <2>5
  <1>5. CASE r.kind \notin {"copy", "move"}
    <2>1. SrcName(r) = <<r.src>> /\ DstName(r) = << >> /\ Named(r) = {Join(r.src)}
      BY <1>5 DEF SrcName, DstName, Named
    <2>2. <<r.src>> \o << >> = <<r.src>>
      OBVIOUS
    <2>3. QED
      <3>1. <<r.src>> \in Seq(Name) /\ <<r.src>> # << >> /\ ToSet(<<r.src>>) = {r.src}
        BY <1>1 DEF ToSet
      <3>2. QED
        BY <1>1, <1>2, <2>1, <2>2, <3>1
  <1>6. QED
    BY <1>3, <1>4, <1>5

-----------------------------------------------------------------------------
(* The steps of a client: the invariant, and that the others are left alone. *)

OthersPreserved(c) == \A d \in Client \ {c} : Preserved(d)

\* Steps that change a request which holds nothing, and no lock.
LEMMA QuietStep ==
  ASSUME Inv, NEW c \in Client, NEW r \in ReqType, req' = [req EXCEPT ![c] = r],
         UNCHANGED <<system, own>>, req[c].phase = "idle",
         r.temp = << >>, r.claim = {}, r.phase = "locking" => r.pending # << >>
  PROVE  Inv' /\ OthersPreserved(c)
  <1>1. /\ req' \in [Client -> ReqType] /\ req'[c] = r
        /\ \A d \in Client \ {c} : req'[d] = req[d]
    BY Becomes DEF Inv
  <1>2. Table' /\ gen' = gen /\ claims' = claims /\ locks' = locks /\ own' = own
    BY DEF Inv, Table, system
  <1>3. Typed'
    BY <1>1, <1>2 DEF Inv, Typed
  <1>4. Holds(c)' /\ TempOf(c)' = {}
    BY <1>1, FreshHolds
  <1>5. \A d \in Client \ {c} : Preserved(d) /\ TempOf(d)' = TempOf(d)
    BY <1>1, <1>2 DEF Preserved, Same, TempOf
  <1>6. TempOf(c) = {}
    BY DEF Inv, Holds, TempOf, ToSet
  <1>7. Given' = Given
    BY <1>2 DEF Given
  <1>8. Apart'
    BY <1>1, <1>2, <1>4, <1>5, <1>7 DEF Inv, Apart
  <1>9. NoLeakedLock'
    BY <1>2, <1>4, <1>5, <1>6 DEF Inv, NoLeakedLock
  <1>10. \A d \in Client \ {c} : req[d].claim = {} \/ req[d].claim \in claims'
    BY <1>2 DEF Inv, Holds
  <1>11. Inv'
    BY <1>2, <1>3, <1>4, <1>5, <1>8, <1>9, <1>10, OneMoves
  <1>12. QED
    BY <1>5, <1>11 DEF OthersPreserved

\* Steps in which locks go and c keeps no lock, or still has to unlock some.
LEMMA ThinStep ==
  ASSUME Inv, NEW c \in Client, NEW S, NEW r \in ReqType, req' = [req EXCEPT ![c] = r],
         Table', Thins(S), claims' = claims, own' = own, S \cap UNION claims = {},
         \A d \in Client \ {c} : S \cap TempOf(d) = {},
         S \cap TempOf(c) \cap DOMAIN locks' = {},
         TempOf(c) \cap DOMAIN locks' \subseteq ToSet(r.temp),
         ToSet(r.temp) \subseteq TempOf(c), r.claim = {},
         r.phase # "releasing" => r.temp = << >>, r.phase # "locking"
  PROVE  Inv' /\ OthersPreserved(c)
  <1>1. /\ req' \in [Client -> ReqType] /\ req'[c] = r
        /\ \A d \in Client \ {c} : req'[d] = req[d]
    BY Becomes DEF Inv
  <1>2. gen' = gen /\ DOMAIN locks' \subseteq DOMAIN locks /\ Given' = Given
    BY DEF Thins, Given
  <1>3. Typed'
    BY <1>1, <1>2 DEF Inv, Typed
  <1>4. TempOf(c)' = ToSet(r.temp)
    BY <1>1 DEF TempOf
  <1>5. \A t \in TempOf(c)' \cap DOMAIN locks' : locks'[t].deadline = Never
    BY <1>2, <1>4 DEF Inv, Holds, Thins, Same
  <1>6. TempOf(c)' \subseteq 1..gen'
    BY <1>2, <1>4 DEF Inv, Holds
  <1>7. r.phase \in {"locking", "acting"} => TempOf(c)' = {}
    BY <1>4 DEF ToSet
  <1>8. Holds(c)'
    BY <1>1, <1>5, <1>6, <1>7 DEF Holds
  <1>9. \A d \in Client \ {c} : Preserved(d) /\ TempOf(d)' = TempOf(d)
    BY <1>1, ThinPreserves DEF Inv, TempOf
  <1>10. Apart'
    BY <1>1, <1>2, <1>4, <1>9 DEF Inv, Apart
  <1>11. NoLeakedLock'
    BY <1>2, <1>4, <1>9 DEF Inv, NoLeakedLock
  <1>12. \A d \in Client \ {c} : req[d].claim = {} \/ req[d].claim \in claims'
    BY DEF Inv, Holds
  <1>13. Inv'
    BY <1>2, <1>3, <1>8, <1>9, <1>10, <1>11, <1>12, OneMoves
  <1>14. QED
    BY <1>9, <1>13 DEF OthersPreserved

\* confirmLocks begins.
LEMMA BeginStep ==
  ASSUME Inv, NEW c \in Client, Begin(c) PROVE Inv' /\ OthersPreserved(c)
  <1>1. PICK q \in Request :
          /\ req[c].phase = "idle" /\ UNCHANGED <<system, own>>
          /\ req' = [req EXCEPT ![c] = [Idle EXCEPT !.phase = "locking", !.r = q,
                            !.pending = SrcName(q) \o DstName(q), !.now = clock]]
    BY DEF Begin
  <1> DEFINE p == SrcName(q) \o DstName(q)
             r == Begun(Idle, q, p, clock)
  <1>2. p \in Seq(Name) /\ p # << >>
    BY Names
  <1>3. clock \in Nat
    BY DEF Inv, Table
  <1>4. req' = [req EXCEPT ![c] = r]
    BY <1>1 DEF Begun
  <1> HIDE DEF p
  <1>5. r \in ReqType /\ r.pending = p /\ r.temp = Idle.temp /\ r.claim = Idle.claim
    BY <1>2, <1>3, IdleTyped, BegunTyped
  <1>6. r.temp = << >> /\ r.claim = {}
    BY <1>5 DEF Idle
  <1> HIDE DEF r
  <1>7. QED
    BY <1>1, <1>2, <1>4, <1>5, <1>6, QuietStep

\* A request with an If header begins.
LEMMA BeginIfStep ==
  ASSUME Inv, NEW c \in Client, BeginIf(c) PROVE Inv' /\ OthersPreserved(c)
  <1>1. PICK q \in Request, n \in 1..MaxLists :
          /\ req[c].phase = "idle" /\ UNCHANGED <<system, own>>
          /\ req' = [req EXCEPT ![c] = [Idle EXCEPT !.phase = "trying", !.r = q, !.lists = n]]
    BY DEF BeginIf
  <1> DEFINE r == Tried(Idle, q, n)
  <1>2. req' = [req EXCEPT ![c] = r]
    BY <1>1 DEF Tried
  <1>3. r \in ReqType /\ r.phase = "trying" /\ r.temp = Idle.temp /\ r.claim = Idle.claim
    BY IdleTyped, TriedTyped, RequestAssumption
  <1>4. r.temp = << >> /\ r.claim = {}
    BY <1>3 DEF Idle
  <1> HIDE DEF r
  <1>5. QED
    BY <1>1, <1>2, <1>3, <1>4, QuietStep

\* 423: the temporary lock on the source is left to be unlocked.
LEMMA TempLockedStep ==
  ASSUME Inv, NEW c \in Client, TempLocked(c) PROVE Inv' /\ OthersPreserved(c)
  <1>1. Table' /\ Thins({}) /\ claims' = claims /\ own' = own /\ req[c].phase = "locking"
    BY ExpireStep DEF TempLocked, T!CreateLocked, Inv
  <1>2. req[c] \in ReqType /\ req[c].claim = {}
    BY <1>1 DEF Inv, Typed, Holds
  <1> DEFINE r == IF req[c].temp = << >> THEN Idle ELSE Left(req[c], << >>)
  <1>3. req' = [req EXCEPT ![c] = r]
    BY DEF TempLocked, Left
  <1>4. r \in ReqType /\ r.temp = req[c].temp /\ r.claim = {} /\ r.phase # "locking"
        /\ (r.phase # "releasing" => r.temp = << >>)
    <2>1. CASE req[c].temp = << >>
      BY <2>1, IdleTyped DEF Idle
    <2>2. CASE req[c].temp # << >>
      <3>1. << >> \in Seq(Name)
        OBVIOUS
      <3>2. QED
        BY <1>2, <2>2, <3>1, LeftTyped
    <2>3. QED
      BY <2>1, <2>2
  <1> HIDE DEF r
  <1>5. ToSet(r.temp) = TempOf(c)
    BY <1>4 DEF TempOf
  <1>6. QED
    BY <1>1, <1>3, <1>4, <1>5, ThinStep

\* Confirm has refused a list: the next one, or 412.
LEMMA ListFailsStep ==
  ASSUME Inv, NEW c \in Client, ListFails(c) PROVE Inv' /\ OthersPreserved(c)
  <1>1. Table' /\ Thins({}) /\ claims' = claims /\ own' = own /\ req[c].phase = "trying"
    BY ExpireStep DEF ListFails, T!ConfirmFailed, Inv
  <1>2. req[c] \in ReqType /\ req[c].claim = {} /\ req[c].temp = << >>
    BY <1>1 DEF Inv, Typed, Holds
  <1> DEFINE r == IF req[c].lists = 1 THEN Idle ELSE Next1(req[c], req[c].lists - 1)
  <1>3. req' = [req EXCEPT ![c] = r]
    BY DEF ListFails, Next1
  <1>4. r \in ReqType /\ r.temp = << >> /\ r.claim = {} /\ r.phase \notin {"locking", "releasing"}
    <2>1. CASE req[c].lists = 1
      BY <2>1, IdleTyped DEF Idle
    <2>2. CASE req[c].lists # 1
      <3>1. req[c].lists - 1 \in Int
        BY <1>2 DEF ReqType
      <3>2. QED
        BY <1>1, <1>2, <2>2, <3>1, Next1Typed
    <2>3. QED
      BY <2>1, <2>2
  <1> HIDE DEF r
  <1>5. ToSet(r.temp) = TempOf(c)
    BY <1>2, <1>4 DEF TempOf
  <1>6. QED
    BY <1>1, <1>3, <1>4, <1>5, ThinStep

\* The last temporary lock is unlocked, or was gone: it is not claimed and has no
\* deadline, so nothing else can be the reason of a refusal.
LEMMA UnlockTempStep ==
  ASSUME Inv, NEW c \in Client, UnlockTemp(c) PROVE Inv' /\ OthersPreserved(c)
  <1> DEFINE temp == req[c].temp
             t == Last(temp)
  <1>1. temp \in Seq(Nat) /\ temp # << >> /\ req[c] \in ReqType /\ TempOf(c) = ToSet(temp)
    BY DEF UnlockTemp, Inv, Typed, ReqType, TempOf
  <1>2. /\ Front(temp) \in Seq(Nat) /\ t \in TempOf(c) /\ ToSet(Front(temp)) \subseteq TempOf(c)
        /\ TempOf(c) \subseteq ToSet(Front(temp)) \cup {t}
    BY <1>1, SetOfSeq
  <1>3. t \notin UNION claims /\ \A d \in Client \ {c} : t \notin TempOf(d)
    BY <1>2 DEF Inv, Apart
  <1>4. req[c].claim = {}
    BY <1>1 DEF Inv, Holds
  <1>5. Table' /\ Thins({t}) /\ claims' = claims /\ t \notin DOMAIN locks'
    <2>1. CASE T!Unlock(req[c].now, t)
      BY <2>1, UnlockStep DEF Inv
    <2>2. CASE T!Refused(req[c].now, t)
      <3>1. Table' /\ Thins({}) /\ claims' = claims
        BY <2>2, ExpireStep DEF T!Refused, Inv
      <3>2. t \notin DOMAIN locks
        <4>1. t \in DOMAIN locks => Firm(t)
          BY <1>2 DEF Inv, Holds, Firm
        <4>2. t \notin T!Live(req[c].now)
          BY <1>3, <2>2, KeptThins DEF T!Refused, Inv
        <4>3. QED
          BY <4>1, <4>2, KeptThins DEF Inv
      <3>3. QED
        BY <3>1, <3>2 DEF Thins
    <2>3. QED
      BY <2>1, <2>2 DEF UnlockTemp
  <1> DEFINE r == IF Len(temp) = 1 THEN Idle ELSE Shortened(req[c], Front(temp))
  <1>6. req' = [req EXCEPT ![c] = r] /\ own' = own
    BY DEF UnlockTemp, Shortened
  <1>7. r \in ReqType /\ r.claim = {} /\ r.phase # "locking"
        /\ (r.phase # "releasing" => r.temp = << >>)
        /\ TempOf(c) \subseteq ToSet(r.temp) \cup {t} /\ ToSet(r.temp) \subseteq TempOf(c)
    <2>1. CASE Len(temp) = 1
      <3>1. ToSet(temp) = {t}
        BY <1>1, <2>1 DEF ToSet, Last
      <3>2. r = Idle /\ ToSet(Idle.temp) = {}
        BY <2>1, IdleTyped
      <3>3. QED
        BY <1>1, <3>1, <3>2, IdleTyped DEF Idle
    <2>2. CASE Len(temp) # 1
      <3>1. r = Shortened(req[c], Front(temp))
        BY <2>2
      <3>2. r \in ReqType /\ r.phase = "releasing" /\ r.temp = Front(temp) /\ r.claim = {}
        BY <1>1, <1>2, <1>4, <3>1, ShortenedTyped
      <3> HIDE DEF r, temp, t
      <3>3. QED
        BY <1>2, <3>2
    <2>3. QED
      BY <2>1, <2>2
  <1> HIDE DEF r, t, temp
  <1>8. TempOf(c) \cap DOMAIN locks' \subseteq ToSet(r.temp)
    BY <1>5, <1>7
  <1>9. QED
    BY <1>3, <1>5, <1>6, <1>7, <1>8, ThinStep

\* A client between two requests calls the lock system with tokens of its own.
LEMMA IdleThin ==
  ASSUME Inv, NEW c \in Client, NEW S, req[c].phase = "idle", req' = req,
         Table', Thins(S), claims' = claims, own' = own, S \cap UNION claims = {},
         S \subseteq own[c] \cup {0}
  PROVE  Inv' /\ OthersPreserved(c)
  <1>1. req[c] \in ReqType /\ req[c].temp = << >> /\ req[c].claim = {}
    BY DEF Inv, Typed, Holds
  <1>2. req' = [req EXCEPT ![c] = req[c]]
    BY DEF Inv, Typed
  <1>3. \A d \in Client : S \cap TempOf(d) = {}
    <2>1. own[c] \subseteq Given
      BY DEF Given
    <2>2. QED
      BY <2>1 DEF Inv, Apart, Holds
  <1>4. TempOf(c) = ToSet(req[c].temp)
    BY DEF TempOf
  <1>5. QED
    BY <1>1, <1>2, <1>3, <1>4, ThinStep

\* LOCK without a body.
LEMMA HandleRefreshStep ==
  ASSUME Inv, NEW c \in Client, HandleRefresh(c) PROVE Inv' /\ OthersPreserved(c)
  <1>1. PICK t \in own[c] \cup {0}, d \in Durations \cup {Never} :
          T!Refresh(clock, t, d) \/ T!Refused(clock, t)
    BY DEF HandleRefresh
  <1>2. req[c].phase = "idle" /\ UNCHANGED <<own, req>> /\ clock \in Nat
    BY DEF HandleRefresh, Inv, Table
  <1>3. CASE T!Refresh(clock, t, d)
    <2>1. t \notin UNION claims
      BY <1>3, KeptThins DEF Inv, T!Refresh
    <2>2. Table' /\ Thins({t}) /\ claims' = claims
      BY <1>2, <1>3, RefreshStep DEF Inv
    <2> DEFINE S == {t}
    <2>3. Thins(S) /\ S \cap UNION claims = {} /\ S \subseteq own[c] \cup {0}
      BY <2>1, <2>2
    <2> HIDE DEF S
    <2>4. QED
      BY <1>2, <2>2, <2>3, IdleThin
  <1>4. CASE T!Refused(clock, t)
    <2>1. Table' /\ Thins({}) /\ claims' = claims
      BY <1>4, ExpireStep DEF T!Refused, Inv
    <2>2. {} \cap UNION claims = {} /\ {} \subseteq own[c] \cup {0} /\ own' = own /\ req' = req
      BY <1>2
    <2> DEFINE S == {}
    <2>3. Thins(S) /\ S \cap UNION claims = {} /\ S \subseteq own[c] \cup {0}
      BY <2>1, <2>2
    <2> HIDE DEF S
    <2>4. QED
      BY <1>2, <2>1, <2>2, <2>3, IdleThin
  <1>5. QED
    BY <1>1, <1>3, <1>4

\* UNLOCK.
LEMMA HandleUnlockStep ==
  ASSUME Inv, NEW c \in Client, HandleUnlock(c) PROVE Inv' /\ OthersPreserved(c)
  <1>1. PICK t \in own[c] \cup {0} : T!Unlock(clock, t) \/ T!Refused(clock, t)
    BY DEF HandleUnlock
  <1>2. req[c].phase = "idle" /\ UNCHANGED <<own, req>>
    BY DEF HandleUnlock
  <1>3. CASE T!Unlock(clock, t)
    <2>1. t \notin UNION claims
      BY <1>3, KeptThins DEF Inv, T!Unlock
    <2>2. Table' /\ Thins({t}) /\ claims' = claims
      BY <1>2, <1>3, UnlockStep DEF Inv
    <2> DEFINE S == {t}
    <2>3. Thins(S) /\ S \cap UNION claims = {} /\ S \subseteq own[c] \cup {0}
      BY <2>1, <2>2
    <2> HIDE DEF S
    <2>4. QED
      BY <1>2, <2>2, <2>3, IdleThin
  <1>4. CASE T!Refused(clock, t)
    <2>1. Table' /\ Thins({}) /\ claims' = claims
      BY <1>4, ExpireStep DEF T!Refused, Inv
    <2>2. {} \cap UNION claims = {} /\ {} \subseteq own[c] \cup {0} /\ own' = own /\ req' = req
      BY <1>2
    <2> DEFINE S == {}
    <2>3. Thins(S) /\ S \cap UNION claims = {} /\ S \subseteq own[c] \cup {0}
      BY <2>1, <2>2
    <2> HIDE DEF S
    <2>4. QED
      BY <1>2, <2>1, <2>2, <2>3, IdleThin
  <1>5. QED
    BY <1>1, <1>3, <1>4

\* A temporary lock is created; nobody else has seen its token.
LEMMA CreateTempStep ==
  ASSUME Inv, NEW c \in Client, CreateTemp(c)
  PROVE  /\ Inv' /\ OthersPreserved(c)
         /\ Adds(TempLock(c)) /\ req[c].phase = "locking" /\ req'[c].r = req[c].r
         /\ TempOf(c)' = TempOf(c) \cup {gen + 1}
         /\ req'[c].pending = Tail(req[c].pending)
         /\ ToSet(req[c].pending) = ToSet(req'[c].pending) \cup {Head(req[c].pending)}
         /\ req'[c].phase \in {"locking", "acting"}
         /\ req'[c].phase = "acting" => req'[c].pending = << >>
  <1> DEFINE o == req[c]
             pending == req[c].pending
             temp == req[c].temp
             phase == IF Len(pending) = 1 THEN "acting" ELSE "locking"
             r == Extended(o, Tail(pending), Append(temp, gen + 1), phase)
             l == TempLock(c)
  <1>1. o \in ReqType /\ o.phase = "locking" /\ o.claim = {} /\ pending # << >>
    BY DEF Inv, Typed, Holds, CreateTemp
  <1>2. pending \in Seq(Name) /\ temp \in Seq(Nat) /\ gen \in Nat /\ own' = own
        /\ TempOf(c) = ToSet(temp)
    BY <1>1 DEF ReqType, Inv, Table, CreateTemp, TempOf
  <1>7. req' = [req EXCEPT ![c] = r]
    BY DEF CreateTemp, Extended
  <1>8. phase \in {"locking", "acting"} /\ (phase = "locking" => Len(pending) # 1)
        /\ (phase = "acting" => Len(pending) = 1)
    OBVIOUS
  <1> HIDE DEF o, pending, temp
  <1>3. Tail(pending) \in Seq(Name) /\ Head(pending) \in Name
        /\ (Len(pending) # 1 => Tail(pending) # << >>)
        /\ (Len(pending) = 1 => Tail(pending) = << >>)
        /\ ToSet(pending) = ToSet(Tail(pending)) \cup {Head(pending)}
    BY <1>1, <1>2, SetOfSeq
  <1>4. Append(temp, gen + 1) \in Seq(Nat)
        /\ ToSet(Append(temp, gen + 1)) = TempOf(c) \cup {gen + 1}
    <2>1. gen + 1 \in Nat
      BY <1>2
    <2>2. QED
      BY <1>2, <2>1, SetOfAppend
  <1>5. l \in Lock /\ l.deadline = Never
    BY <1>3, SameWords DEF TempLock, Lock, pending
  <1>6. Table' /\ Adds(l)
    BY <1>5, CreateStep DEF CreateTemp, Inv
  <1> HIDE DEF phase, l
  <1>9. r \in ReqType /\ r.phase = phase /\ r.pending = Tail(pending)
        /\ r.temp = Append(temp, gen + 1) /\ r.claim = {} /\ r.r = o.r
    <2> DEFINE p == Tail(pending)
               q == Append(temp, gen + 1)
    <2>1. p \in Seq(Name) /\ q \in Seq(Nat) /\ phase \in Phase
      BY <1>3, <1>4, <1>8, Phases
    <2> HIDE DEF p, q
    <2>2. LET x == Extended(o, p, q, phase) IN
          /\ x \in ReqType /\ x.phase = phase /\ x.pending = p
          /\ x.temp = q /\ x.claim = o.claim /\ x.r = o.r
      BY <1>1, <2>1, ExtendedTyped
    <2>3. QED
      BY <1>1, <2>2 DEF p, q
  <1> HIDE DEF r
  <1>10. /\ req' \in [Client -> ReqType] /\ req'[c] = r
         /\ \A d \in Client \ {c} : req'[d] = req[d]
    BY <1>7, <1>9, Becomes DEF Inv
  <1>11. TempOf(c)' = TempOf(c) \cup {gen + 1} /\ gen' = gen + 1 /\ claims' = claims
         /\ Given' = Given /\ Given \subseteq 1..gen
    <2>1. TempOf(c)' = TempOf(c) \cup {gen + 1}
      BY <1>4, <1>9, <1>10 DEF TempOf
    <2>2. QED
      BY <1>2, <1>6, <2>1 DEF Adds, Given, Inv, Typed
  <1>12. Typed'
    BY <1>2, <1>10, <1>11 DEF Inv, Typed
  <1>13. \A d \in Client \ {c} : Preserved(d) /\ TempOf(d)' = TempOf(d)
    BY <1>2, <1>6, <1>10, AddPreserves DEF Inv, TempOf
  <1>14. Holds(c)'
    <2>1. TempOf(c) \subseteq 1..gen /\ TempOf(c) \subseteq DOMAIN locks
          /\ \A t \in TempOf(c) : locks[t].deadline = Never
      BY <1>1 DEF Inv, Holds, o
    <2>2. \A t \in TempOf(c)' : t \in DOMAIN locks' /\ locks'[t].deadline = Never
      BY <1>5, <1>6, <1>11, <2>1 DEF Adds, Firm, Same
    <2>3. TempOf(c)' \subseteq 1..gen'
      BY <1>2, <1>11, <2>1
    <2>4. QED
      BY <1>3, <1>8, <1>9, <1>10, <2>2, <2>3 DEF Holds
  <1>15. \A d \in Client : gen + 1 \notin TempOf(d)
    BY <1>2 DEF Inv, Holds
  <1>16. Apart'
    <2>1. \A d \in Client : TempOf(d)' \cap Given' = {}
      BY <1>2, <1>11, <1>13 DEF Inv, Apart
    <2>2. \A d \in Client \ {c} : TempOf(c)' \cap TempOf(d)' = {}
      BY <1>11, <1>13, <1>15 DEF Inv, Apart
    <2>3. req'[c].claim = {} /\ \A d \in Client \ {c} : req'[d].claim = req[d].claim
      BY <1>9, <1>10
    <2>4. \A x, y \in Client : x # y =>
            TempOf(x)' \cap TempOf(y)' = {} /\ req'[x].claim \cap req'[y].claim = {}
      BY <1>13, <2>2, <2>3 DEF Inv, Apart
    <2>5. UNION claims' \subseteq Given'
      BY <1>11 DEF Inv, Apart
    <2>6. QED
      BY <2>1, <2>4, <2>5 DEF Apart
  <1>17. NoLeakedLock'
    BY <1>2, <1>6, <1>11, <1>13 DEF Inv, NoLeakedLock, Adds
  <1>18. \A d \in Client \ {c} : req[d].claim = {} \/ req[d].claim \in claims'
    BY <1>11 DEF Inv, Holds
  <1>19. Inv'
    BY <1>6, <1>11, <1>12, <1>13, <1>14, <1>16, <1>17, <1>18, OneMoves
  <1>20. /\ req'[c].r = req[c].r /\ req'[c].pending = Tail(pending)
         /\ req'[c].phase = phase /\ req[c].phase = "locking"
    BY <1>1, <1>9, <1>10 DEF o
  <1>21. Adds(TempLock(c))
    BY <1>6 DEF l
  <1>22. QED
    BY <1>3, <1>8, <1>11, <1>13, <1>19, <1>20, <1>21 DEF OthersPreserved, pending

\* LOCK: the client is given a new token, or refused.
LEMMA HandleLockStep ==
  ASSUME Inv, NEW c \in Client, HandleLock(c) PROVE Inv' /\ OthersPreserved(c)
  <1>1. PICK path \in Path, zeroDepth \in BOOLEAN, d \in Durations \cup {Never} :
          LET l == [root |-> Join(path), zeroDepth |-> zeroDepth, deadline |-> T!Deadline(clock, d)]
          IN /\ req[c].phase = "idle" /\ req' = req
             /\ \/ T!Create(clock, l) /\ own' = [own EXCEPT ![c] = @ \cup {gen + 1}]
                \/ T!CreateLocked(clock, l) /\ own' = own
    BY DEF HandleLock
  <1> DEFINE l == [root |-> Join(path), zeroDepth |-> zeroDepth, deadline |-> T!Deadline(clock, d)]
  <1>2. T!Deadline(clock, d) \in Nat \cup {Never}
    BY SameWords, BoundAssumption DEF T!Deadline, Inv, Table
  <1>3. l \in Lock
    BY <1>2 DEF Lock, Path
  <1>4. req[c].phase = "idle" /\ req' = req
        /\ \/ T!Create(clock, l) /\ own' = [own EXCEPT ![c] = @ \cup {gen + 1}]
           \/ T!CreateLocked(clock, l) /\ own' = own
    BY <1>1
  <1> HIDE DEF l
  <1>5. CASE T!CreateLocked(clock, l) /\ own' = own
    <2>1. Table' /\ Thins({}) /\ claims' = claims
      BY <1>5, ExpireStep DEF T!CreateLocked, Inv
    <2> DEFINE S == {}
    <2>2. Thins(S) /\ S \cap UNION claims = {} /\ S \subseteq own[c] \cup {0}
      BY <2>1
    <2> HIDE DEF S
    <2>3. QED
      BY <1>4, <1>5, <2>1, <2>2, IdleThin
  <1>6. CASE T!Create(clock, l) /\ own' = [own EXCEPT ![c] = @ \cup {gen + 1}]
    <2>1. Table' /\ Adds(l)
      BY <1>3, <1>6, CreateStep DEF Inv
    <2>2. gen \in Nat /\ gen' = gen + 1 /\ claims' = claims
      BY <2>1 DEF Inv, Table, Adds
    <2>3. own' \in [Client -> SUBSET (1..gen')] /\ Given' = Given \cup {gen + 1}
      <3>1. own'[c] = own[c] \cup {gen + 1} /\ \A x \in Client \ {c} : own'[x] = own[x]
        BY <1>6 DEF Inv, Typed
      <3>2. \A x \in Client : own'[x] \in SUBSET (1..gen')
        BY <2>2, <3>1 DEF Inv, Typed
      <3>3. own' = [x \in Client |-> own'[x]]
        BY <1>6 DEF Inv, Typed
      <3>4. Given' = Given \cup {gen + 1}
        BY <3>1 DEF Given
      <3>5. QED
        BY <3>2, <3>3, <3>4
    <2>4. Typed'
      BY <1>4, <2>3 DEF Inv, Typed
    <2>5. \A x \in Client : Preserved(x) /\ TempOf(x)' = TempOf(x)
      BY <1>4, <2>1, <2>2, AddPreserves DEF Inv, TempOf
    <2>6. \A x \in Client : gen + 1 \notin TempOf(x)
      BY <2>2 DEF Inv, Holds
    <2>7. \A x \in Client : req[x].claim = {} \/ req[x].claim \in claims'
      BY <2>2 DEF Inv, Holds
    <2>8. Holds(c)'
      BY <2>2, <2>5, <2>7, OthersHold DEF Inv
    <2>9. Apart'
      BY <1>4, <2>2, <2>3, <2>5, <2>6 DEF Inv, Apart
    <2>10. NoLeakedLock'
      <3>1. \A t \in Given' : \E x \in Client : t \in own'[x]
        BY DEF Given
      <3>2. \A t \in DOMAIN locks' : t \in Given' \/ \E x \in Client : t \in TempOf(x)'
        BY <2>1, <2>3, <2>5 DEF Inv, NoLeakedLock, Adds, Given
      <3>3. QED
        BY <3>1, <3>2 DEF NoLeakedLock
    <2>11. Inv'
      BY <2>1, <2>2, <2>4, <2>5, <2>7, <2>8, <2>9, <2>10, OneMoves
    <2>12. QED
      BY <2>5, <2>11 DEF OthersPreserved
  <1>7. QED
    BY <1>4, <1>5, <1>6

\* Confirm accepts a list: unclaimed tokens of the client become its claim.
LEMMA ConfirmListStep ==
  ASSUME Inv, NEW c \in Client, ConfirmList(c)
  PROVE  /\ Inv' /\ OthersPreserved(c)
         /\ \E list \in IfList(c) : \A x \in ConfirmNames(req[c].r, list) :
              Guarded(req'[c].claim, x)
         /\ Thins({}) /\ req'[c].phase = "acting" /\ req'[c].r = req[c].r
         /\ req'[c].temp = << >> /\ req'[c].claim \subseteq DOMAIN locks'
  <1>1. PICK list \in IfList(c) : T!Confirm(clock, ConfirmNames(req[c].r, list), list.tokens)
    BY DEF ConfirmList
  <1> DEFINE names == ConfirmNames(req[c].r, list)
  <1>2. Table' /\ Thins({}) /\ \E C : Claimed(names, list.tokens, C)
    BY <1>1, ConfirmStep DEF Inv
  <1>3. PICK C : Claimed(names, list.tokens, C)
    BY <1>2
  <1>4. /\ claims' = claims \cup {C} /\ C \cap UNION claims = {}
        /\ \A x \in names : Guarded(C, x)
        /\ C \subseteq list.tokens /\ C \subseteq DOMAIN locks'
    BY <1>3 DEF Claimed
  <1> HIDE DEF names
  <1>5. C \subseteq own[c] /\ C \subseteq Nat /\ C \subseteq Given
    <2>1. list.tokens \subseteq own[c] \cup {0}
      BY DEF IfList
    <2>2. 0 \notin DOMAIN locks'
      BY <1>2 DEF Table
    <2>3. C \subseteq own[c]
      BY <1>4, <2>1, <2>2
    <2>4. own[c] \subseteq Nat
      BY DEF Inv, Typed, Table
    <2>5. QED
      BY <2>3, <2>4 DEF Given
  <1>6. UNION (claims' \ claims) = C
    <2>1. CASE C \in claims
      <3>1. C = {}
        BY <1>4, <2>1
      <3>2. QED
        BY <1>4, <2>1, <3>1
    <2>2. CASE C \notin claims
      BY <1>4, <2>2
    <2>3. QED
      BY <2>1, <2>2
  <1>7. req[c] \in ReqType /\ req[c].temp = << >> /\ req[c].claim = {} /\ own' = own
    BY DEF ConfirmList, Inv, Typed, Holds
  <1> DEFINE r == Confirmed(req[c], 0, C)
  <1>8. req' = [req EXCEPT ![c] = r]
    BY <1>6 DEF ConfirmList, Confirmed
  <1>9. r \in ReqType /\ r.phase = "acting" /\ r.temp = << >> /\ r.claim = C /\ r.r = req[c].r
    BY <1>5, <1>7, ConfirmedTyped
  <1> HIDE DEF r
  <1>10. /\ req' \in [Client -> ReqType] /\ req'[c] = r
         /\ \A d \in Client \ {c} : req'[d] = req[d]
    BY <1>8, <1>9, Becomes DEF Inv
  <1>11. gen' = gen /\ Given' = Given /\ TempOf(c) = {} /\ TempOf(c)' = {}
    BY <1>2, <1>7, <1>9, <1>10 DEF Thins, Given, TempOf, ToSet
  <1>12. Typed'
    BY <1>7, <1>10, <1>11 DEF Inv, Typed
  <1>13. Holds(c)'
    BY <1>4, <1>9, <1>10, <1>11 DEF Holds
  <1>14. \A d \in Client \ {c} : Preserved(d) /\ TempOf(d)' = TempOf(d)
    <2> DEFINE S == {}
    <2>1. Thins(S) /\ S \cap UNION claims = {} /\ \A d : S \cap TempOf(d) = {}
      BY <1>2
    <2> HIDE DEF S
    <2>2. QED
      BY <1>10, <2>1, ThinPreserves DEF Inv, TempOf
  <1>15. Apart'
    <2>1. \A d \in Client : TempOf(d)' \cap Given' = {}
      BY <1>11, <1>14 DEF Inv, Apart
    <2>2. \A d \in Client \ {c} : req'[d].claim \cap C = {}
      BY <1>4, <1>10 DEF Inv, Holds
    <2>3. \A x, y \in Client : x # y =>
            TempOf(x)' \cap TempOf(y)' = {} /\ req'[x].claim \cap req'[y].claim = {}
      BY <1>9, <1>10, <1>11, <1>14, <2>2 DEF Inv, Apart
    <2>4. UNION claims' \subseteq Given'
      BY <1>4, <1>5, <1>11 DEF Inv, Apart
    <2>5. QED
      BY <2>1, <2>3, <2>4 DEF Apart
  <1>16. NoLeakedLock'
    BY <1>2, <1>7, <1>11, <1>14 DEF Inv, NoLeakedLock, Thins
  <1>17. \A d \in Client \ {c} : req[d].claim = {} \/ req[d].claim \in claims'
    BY <1>4 DEF Inv, Holds
  <1>18. Inv'
    BY <1>2, <1>11, <1>12, <1>13, <1>14, <1>15, <1>16, <1>17, OneMoves
  <1>19. \A x \in ConfirmNames(req[c].r, list) : Guarded(req'[c].claim, x)
    BY <1>4, <1>9, <1>10 DEF names
  <1>20. QED
    BY <1>2, <1>4, <1>9, <1>10, <1>14, <1>18, <1>19 DEF OthersPreserved

\* The deferred release: nobody else's claim is the same one, unless it is empty.
LEMMA ReleaseClaimStep ==
  ASSUME Inv, NEW c \in Client, ReleaseClaim(c) PROVE Inv' /\ OthersPreserved(c)
  <1>1. /\ claims' = claims \ {req[c].claim} /\ locks' = locks /\ gen' = gen /\ clock' = clock
        /\ own' = own /\ req' = [req EXCEPT ![c] = Idle] /\ req[c].temp = << >>
    BY DEF ReleaseClaim, T!Release
  <1>2. /\ req' \in [Client -> ReqType] /\ req'[c] = Idle
        /\ \A d \in Client \ {c} : req'[d] = req[d]
    BY <1>1, IdleTyped, Becomes DEF Inv
  <1>3. Table'
    BY <1>1 DEF Inv, Table
  <1>4. Typed'
    BY <1>1, <1>2 DEF Inv, Typed
  <1>5. Idle.temp = << >> /\ Idle.claim = {} /\ Idle.phase = "idle"
    BY DEF Idle
  <1>6. Holds(c)' /\ TempOf(c)' = {} /\ TempOf(c) = {}
    BY <1>1, <1>2, <1>5, FreshHolds DEF TempOf, ToSet
  <1>7. \A d \in Client \ {c} : Preserved(d) /\ TempOf(d)' = TempOf(d)
    BY <1>1, <1>2 DEF Preserved, Same, TempOf
  <1>8. \A d \in Client \ {c} : req[d].claim = {} \/ req[d].claim \in claims'
    <2>1. SUFFICES ASSUME NEW d \in Client \ {c}, req[d].claim # {}, req[d].claim = req[c].claim
                   PROVE  FALSE
      BY <1>1 DEF Inv, Holds
    <2>2. QED
      BY <2>1 DEF Inv, Apart
  <1>9. Apart'
    BY <1>1, <1>2, <1>5, <1>6, <1>7 DEF Inv, Apart, Given
  <1>10. NoLeakedLock'
    BY <1>1, <1>6, <1>7 DEF Inv, NoLeakedLock
  <1>11. Inv'
    BY <1>1, <1>3, <1>4, <1>6, <1>7, <1>8, <1>9, <1>10, OneMoves
  <1>12. QED
    BY <1>7, <1>11 DEF OthersPreserved

-----------------------------------------------------------------------------
(* The invariant.                                                          *)

\* No lock, no request.
LEMMA InitInv == Init => Inv
  <1> SUFFICES ASSUME Init PROVE Inv
    OBVIOUS
  <1>1. DOMAIN locks = {} /\ gen = 0 /\ claims = {} /\ clock = 0
    BY DEF Init, T!Init
  <1>2. locks \in [DOMAIN locks -> Lock]
    BY <1>1 DEF Init, T!Init
  <1>3. Table
    BY <1>1, <1>2 DEF Table
  <1>4. own = [c \in Client |-> {}] /\ req = [c \in Client |-> Idle]
    BY DEF Init
  <1>5. Typed
    BY <1>4, IdleTyped DEF Typed
  <1>6. \A c \in Client : TempOf(c) = {} /\ req[c].claim = {} /\ req[c].phase = "idle" /\ req[c].temp = << >>
    BY <1>4, IdleTyped DEF TempOf, Idle
  <1>7. \A c \in Client : Holds(c)
    BY <1>6 DEF Holds
  <1>8. Apart /\ NoLeakedLock
    BY <1>1, <1>6 DEF Apart, NoLeakedLock
  <1>9. QED
    BY <1>3, <1>5, <1>7, <1>8 DEF Inv

\* Time passes, or nothing happens.
LEMMA QuietInv ==
  ASSUME Inv, UNCHANGED <<locks, gen, claims, own, req>>, clock' \in Nat
  PROVE  Inv' /\ (GuardInv => GuardInv')
  <1>1. Table'
    BY DEF Inv, Table
  <1>2. Typed' /\ Apart' /\ NoLeakedLock' /\ \A c \in Client : Holds(c)'
    BY DEF Inv, Typed, Apart, NoLeakedLock, Holds, TempOf, Given
  <1>3. GuardInv => \A c \in Client : Guards(c)'
    BY DEF GuardInv, Guards, Guarded, TempOf, Mine
  <1>4. QED
    BY <1>1, <1>2, <1>3 DEF Inv, GuardInv

\* The steps of a client.
ClientStep(c) ==
  \/ Begin(c) \/ CreateTemp(c) \/ TempLocked(c)
  \/ BeginIf(c) \/ ConfirmList(c) \/ ListFails(c)
  \/ ReleaseClaim(c) \/ UnlockTemp(c)
  \/ HandleLock(c) \/ HandleRefresh(c) \/ HandleUnlock(c)

\* Each of them keeps the invariant and leaves the other clients alone.
LEMMA ClientInv ==
  ASSUME Inv, NEW c \in Client, ClientStep(c) PROVE Inv' /\ OthersPreserved(c)
  BY BeginStep, CreateTempStep, TempLockedStep, BeginIfStep, ConfirmListStep, ListFailsStep,
     ReleaseClaimStep, UnlockTempStep, HandleLockStep, HandleRefreshStep, HandleUnlockStep
  DEF ClientStep

\* A step is one of time, one of a client, or none.
LEMMA NextCases ==
  ASSUME Inv, [Next]_vars
  PROVE  \/ UNCHANGED <<locks, gen, claims, own, req>> /\ clock' \in Nat
         \/ \E c \in Client : ClientStep(c)
  <1>1. clock \in Nat
    BY DEF Inv, Table
  <1>2. CASE Tick
    BY <1>1, <1>2 DEF Tick, T!Tick
  <1>3. CASE UNCHANGED vars
    BY <1>1, <1>3 DEF vars
  <1>4. CASE \E c \in Client : ClientStep(c)
    BY <1>4
  <1>5. QED
    BY <1>2, <1>3, <1>4 DEF Next, ClientStep

\* The invariant is inductive.
LEMMA StepInv == Inv /\ [Next]_vars => Inv'
  BY NextCases, QuietInv, ClientInv

-----------------------------------------------------------------------------
(* The names of a request are guarded, when no name is locked in place of  *)
(* another: clients without a base path, and lists without a tag.          *)

\* At the beginning the names are all still to be locked.
LEMMA BeginGuards ==
  ASSUME Inv, Base = << >>, NEW c \in Client, Begin(c) \/ BeginIf(c) PROVE Guards(c)'
  <1>1. CASE Begin(c)
    <2>1. PICK q \in Request :
            req' = [req EXCEPT ![c] = [Idle EXCEPT !.phase = "locking", !.r = q,
                                       !.pending = SrcName(q) \o DstName(q), !.now = clock]]
      BY <1>1 DEF Begin
    <2>2. req'[c].phase = "locking" /\ req'[c].r = q /\ req'[c].pending = SrcName(q) \o DstName(q)
      BY <2>1 DEF Inv, Typed, Idle
    <2>3. Named(q) \subseteq ToSet(SrcName(q) \o DstName(q))
      BY Names
    <2>4. QED
      BY <2>2, <2>3 DEF Guards
  <1>2. CASE BeginIf(c)
    <2>1. PICK q \in Request, n \in 1..MaxLists :
            req' = [req EXCEPT ![c] = [Idle EXCEPT !.phase = "trying", !.r = q, !.lists = n]]
      BY <1>2 DEF BeginIf
    <2>2. req'[c].phase = "trying" /\ req'[c].r = q
      BY <2>1 DEF Inv, Typed, Idle
    <2>3. QED
      BY <2>2 DEF Guards
  <1>3. QED
    BY <1>1, <1>2

\* A temporary lock guards the name it is created for, and the others stay.
LEMMA CreateTempGuards ==
  ASSUME Inv, NEW c \in Client, Guards(c), CreateTemp(c) PROVE Guards(c)'
  <1>1. /\ Adds(TempLock(c)) /\ req[c].phase = "locking" /\ req'[c].r = req[c].r
        /\ TempOf(c)' = TempOf(c) \cup {gen + 1}
        /\ ToSet(req[c].pending) = ToSet(req'[c].pending) \cup {Head(req[c].pending)}
        /\ req'[c].phase \in {"locking", "acting"}
        /\ req'[c].phase = "acting" => req'[c].pending = << >>
    BY CreateTempStep
  <1>2. \A t \in TempOf(c) : Same(t)
    BY <1>1 DEF Inv, Holds, Adds, Firm
  <1>3. Covers(locks'[gen + 1], Head(req[c].pending))
    BY <1>1 DEF Adds, TempLock, Covers
  <1>4. ASSUME NEW x \in Named(req'[c].r)
        PROVE  x \in ToSet(req'[c].pending) \/ \E t \in TempOf(c)' : Covers(locks'[t], x)
    <2>1. x \in ToSet(req[c].pending) \/ \E t \in TempOf(c) : Covers(locks[t], x)
      BY <1>1, <1>4 DEF Guards, Guarded
    <2>2. QED
      BY <1>1, <1>2, <1>3, <2>1 DEF Same
  <1>5. req'[c].phase = "acting" => ToSet(req'[c].pending) = {}
    BY <1>1 DEF ToSet
  <1>6. req'[c].r \in Request
    BY <1>1 DEF Guards
  <1>7. QED
    BY <1>1, <1>4, <1>5, <1>6 DEF Guards, Guarded, Mine, TempOf

\* What Confirm claims guards the names it was asked about.
LEMMA ConfirmGuards ==
  ASSUME Inv, Base = << >>, Tagged = FALSE, NEW c \in Client, Guards(c), ConfirmList(c)
  PROVE  Guards(c)'
  <1>1. /\ req'[c].phase = "acting" /\ req'[c].r = req[c].r /\ Thins({})
        /\ req'[c].claim \subseteq DOMAIN locks'
        /\ \E list \in IfList(c) : \A x \in ConfirmNames(req[c].r, list) :
             Guarded(req'[c].claim, x)
    BY ConfirmListStep
  <1>2. PICK list \in IfList(c) : \A x \in ConfirmNames(req[c].r, list) :
          Guarded(req'[c].claim, x)
    BY <1>1
  <1>3. list.tag = {}
    BY DEF IfList
  <1>4. req[c].r \in Request
    BY DEF ConfirmList, Guards
  <1>5. Named(req[c].r) \subseteq ConfirmNames(req[c].r, list)
    BY <1>3, <1>4, Names DEF ConfirmNames
  <1>6. \A t \in req'[c].claim : locks'[t] = locks[t]
    BY <1>1 DEF Thins, Same
  <1>7. \A x \in Named(req[c].r) : \E t \in req'[c].claim : Covers(locks'[t], x)
    BY <1>2, <1>5, <1>6 DEF Guarded
  <1>8. QED
    BY <1>1, <1>4, <1>7 DEF Guards, Guarded, Mine

\* A list is refused: the request stays the same, or is over.
LEMMA ListFailsGuards ==
  ASSUME Inv, NEW c \in Client, Guards(c), ListFails(c) PROVE Guards(c)'
  <1>1. req[c] \in ReqType /\ req[c].phase = "trying" /\ req[c].r \in Request
    BY DEF Inv, Typed, ListFails, Guards
  <1> DEFINE r == IF req[c].lists = 1 THEN Idle ELSE Next1(req[c], req[c].lists - 1)
  <1>2. req' = [req EXCEPT ![c] = r]
    BY DEF ListFails, Next1
  <1>3. r.phase = "idle" \/ (r.phase = "trying" /\ r.r \in Request)
    BY <1>1 DEF Next1, Idle, ReqType
  <1> HIDE DEF r
  <1>4. req'[c] = r
    BY <1>2 DEF Inv, Typed
  <1>5. QED
    BY <1>3, <1>4 DEF Guards

\* A request that ends, and a client between two requests, name nothing.
LEMMA EndGuards ==
  ASSUME Inv, NEW c \in Client,
         \/ TempLocked(c) \/ UnlockTemp(c) \/ ReleaseClaim(c)
         \/ HandleLock(c) \/ HandleRefresh(c) \/ HandleUnlock(c)
  PROVE  Guards(c)'
  <1>1. req[c] \in ReqType /\ req \in [Client -> ReqType]
    BY DEF Inv, Typed
  <1> DEFINE r(o) == IF o.temp = << >> THEN Idle ELSE Left(o, << >>)
             q(o) == IF Len(o.temp) = 1 THEN Idle ELSE Shortened(o, Front(o.temp))
  <1>2. r(req[c]).phase \in {"idle", "releasing"} /\ q(req[c]).phase \in {"idle", "releasing"}
        /\ Idle.phase = "idle"
    BY <1>1 DEF Idle, Left, Shortened, ReqType
  <1>3. CASE TempLocked(c)
    <2>1. req'[c] = r(req[c])
      BY <1>1, <1>3 DEF TempLocked, Left
    <2>2. QED
      BY <1>2, <2>1 DEF Guards
  <1>4. CASE UnlockTemp(c)
    <2>1. req'[c] = q(req[c])
      BY <1>1, <1>4 DEF UnlockTemp, Shortened
    <2>2. QED
      BY <1>2, <2>1 DEF Guards
  <1>5. CASE ReleaseClaim(c)
    <2>1. req'[c] = Idle
      BY <1>1, <1>5 DEF ReleaseClaim
    <2>2. QED
      BY <1>2, <2>1 DEF Guards
  <1>6. CASE HandleLock(c) \/ HandleRefresh(c) \/ HandleUnlock(c)
    <2>1. req'[c].phase = "idle"
      BY <1>6 DEF HandleLock, HandleRefresh, HandleUnlock
    <2>2. QED
      BY <2>1 DEF Guards
  <1>7. QED
    BY <1>3, <1>4, <1>5, <1>6

\* Every client is guarded after the step of one.
LEMMA StepGuards ==
  ASSUME Base = << >>, Tagged = FALSE PROVE GuardInv /\ [Next]_vars => GuardInv'
  <1> SUFFICES ASSUME GuardInv, [Next]_vars PROVE GuardInv'
    OBVIOUS
  <1>1. Inv /\ \A c \in Client : Guards(c)
    BY DEF GuardInv
  <1>2. ASSUME NEW c \in Client, ClientStep(c) PROVE GuardInv'
    <2>1. Inv' /\ OthersPreserved(c)
      BY <1>1, <1>2, ClientInv
    <2>2. Guards(c)'
      BY <1>1, <1>2, BeginGuards, CreateTempGuards, ConfirmGuards, ListFailsGuards, EndGuards
         DEF ClientStep
    <2>3. \A d \in Client \ {c} : Guards(d)'
      BY <1>1, <2>1, OthersGuarded DEF OthersPreserved, Inv
    <2>4. QED
      BY <2>1, <2>2, <2>3 DEF GuardInv
  <1>3. QED
    BY <1>1, <1>2, NextCases, QuietInv

-----------------------------------------------------------------------------
(* The theorems.                                                           *)

\* A request never leaves a temporary lock behind: the 423 of a second lock
\* removes the first, and the deferred release the rest.
THEOREM NothingLeaked == Spec => []NoLeakedLock
  <1>1. Inv => NoLeakedLock
    BY DEF Inv
  <1>2. QED
    BY <1>1, InitInv, StepInv, PTL DEF Spec

\* While the file operations run, what confirmLocks took stays: no UNLOCK, refresh,
\* claim or expiry of anybody removes it.
THEOREM LocksKept == Spec => []RequestKeepsLocks
  <1>1. Inv => RequestKeepsLocks
    BY DEF Inv, Table, Holds, RequestKeepsLocks, Acting, Mine
  <1>2. QED
    BY <1>1, InitInv, StepInv, PTL DEF Spec

\* Two requests hold no lock in common.
LEMMA MineApart ==
  ASSUME Inv, NEW c \in Client, NEW d \in Client, c # d PROVE Mine(c) \cap Mine(d) = {}
  <1>1. req[c].claim \subseteq Given /\ req[d].claim \subseteq Given
    BY DEF Inv, Apart, Holds
  <1>2. QED
    BY <1>1 DEF Inv, Apart, Mine

\* A lock on a resource that a request changes is the one it holds.
LEMMA OneLock ==
  ASSUME GuardInv, NEW c \in Acting, NEW x \in Named(req[c].r),
         NEW t \in DOMAIN locks, Covers(locks[t], x)
  PROVE  t \in Mine(c)
  <1>1. c \in Client /\ req[c].phase = "acting" /\ Inv /\ Guards(c)
    BY DEF Acting, GuardInv
  <1>2. PICK u \in Mine(c) : Covers(locks[u], x)
    BY <1>1 DEF Guards, Guarded
  <1>3. u \in DOMAIN locks
    BY <1>1, <1>2 DEF Inv, Table, Holds, Mine
  <1>4. x \in Name
    BY <1>1, Names DEF Guards
  <1>5. Conflict(locks[t], locks[u])
    BY <1>2, <1>4, CoversMeet
  <1>6. t = u
    BY <1>1, <1>3, <1>5 DEF Inv, Table
  <1>7. QED
    BY <1>2, <1>6

\* Nobody changes a resource under somebody else's lock, as long as a handler
\* locks the names it changes.
THEOREM ChangesLocked ==
  ASSUME Base = << >>, Tagged = FALSE PROVE Spec => []LocksRespected
  <1>1. GuardInv => LocksRespected
    BY OneLock DEF LocksRespected
  <1>2. Init => GuardInv
    <2>1. Init => \A c \in Client : Guards(c)
      BY DEF Init, Guards, Idle
    <2>2. QED
      BY <2>1, InitInv DEF GuardInv
  <1>3. QED
    BY <1>1, <1>2, StepGuards, PTL DEF Spec

\* Two requests never change the same resource at a time, whether they hold
\* temporary locks or claims, as long as a handler locks the names it changes.
THEOREM ChangesExclusive ==
  ASSUME Base = << >>, Tagged = FALSE PROVE Spec => []ExclusiveRequests
  <1>1. GuardInv => ExclusiveRequests
    <2>1. SUFFICES ASSUME GuardInv, NEW c \in Acting, NEW d \in Acting, c # d,
                          NEW x \in Named(req[c].r) \cap Named(req[d].r)
                   PROVE  FALSE
      BY DEF ExclusiveRequests
    <2>2. c \in Client /\ d \in Client /\ Inv /\ Guards(c) /\ req[c].phase = "acting"
      BY <2>1 DEF Acting, GuardInv
    <2>3. PICK t \in Mine(c) : Covers(locks[t], x)
      BY <2>2 DEF Guards, Guarded
    <2>4. t \in DOMAIN locks
      BY <2>2, <2>3 DEF Inv, Table, Holds, Mine
    <2>5. t \in Mine(d)
      BY <2>1, <2>3, <2>4, OneLock
    <2>6. QED
      BY <2>1, <2>2, <2>3, <2>5, MineApart
  <1>2. Init => GuardInv
    <2>1. Init => \A c \in Client : Guards(c)
      BY DEF Init, Guards, Idle
    <2>2. QED
      BY <2>1, InitInv DEF GuardInv
  <1>3. QED
    BY <1>1, <1>2, StepGuards, PTL DEF Spec
=============================================================================

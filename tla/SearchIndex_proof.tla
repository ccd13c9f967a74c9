------------------------- MODULE SearchIndex_proof -------------------------
(***************************************************************************)
(* Proofs about SearchIndex, for any number of requests of any kind and of *)
(* deaths of the program: one build at a time, a build that returns has    *)
(* indexed what it met, and the progress ends as done.                     *)
(***************************************************************************)
EXTENDS SearchIndex, TLAPS

-----------------------------------------------------------------------------
(* The invariant.                                                          *)

Path == Obj \cup {"/"}
WalkFields == {"pc", "kind", "paths", "rest", "found", "todo", "target"}
IsWalk(o) ==
  /\ DOMAIN o = WalkFields /\ o.paths \in Seq(Path) /\ o.rest \in Seq(Obj)
  /\ o.pc = "got" => o.paths # << >>
ConsumerAt == {"none", "loop", "batch", "report", "leave", "done", "flag", "dead"}
Consumers == [pc : ConsumerAt, mq : Seq(Obj), batch : Seq(Obj), final : BOOLEAN,
              err : {None, "walk", "batch"}, token : BOOLEAN, waited : BOOLEAN,
              running : BOOLEAN]
Types ==
  /\ quit \in Request \cup {None}
  /\ w = [r \in Request |-> w[r]] /\ \A r \in Request : IsWalk(w[r])
  /\ c \in [Request -> Consumers]
  /\ seen \in [Request -> [sent : SUBSET Obj, gone : SUBSET Obj]]

\* Where the walker and the consumer of a build are while they run.
Building == {"admin", "start", "path", "got", "walk", "walked", "return", "tell"}
Consuming == {"loop", "batch", "report"}

\* The consumer of a build nobody stopped is there as long as the walker needs it, hears
\* of the end from the walker only, and has then nothing left in its hands.
InStep(r) ==
  /\ w[r].pc \in Building =>
       c[r].pc \in Consuming /\ c[r].running /\ ~c[r].final /\ ~c[r].token
  /\ c[r].pc \in Consuming => w[r].pc \in Building \cup {"wait"}
  /\ w[r].pc = "built" => c[r].pc \notin Consuming
  /\ c[r].waited => c[r].pc \notin Consuming
  /\ c[r].final \/ c[r].pc \notin Consuming => c[r].mq = << >>
  /\ c[r].pc # "batch" => c[r].batch = << >>

\* What a build has published is in its hands, in the index, or was lost.
Accounted(r) ==
  seen[r].sent \subseteq index \cup seen[r].gone \cup ToSet(c[r].mq) \cup ToSet(c[r].batch)

Unstopped == \A r \in Request \ stops : InStep(r) /\ Accounted(r)

\* A progress that is not done is so for a build that will still report, or was stopped.
Pending(r) == Counts(r) /\ (r \in stops \/ c[r].pc \in Consuming)
Reports ==
  /\ ~progress => \E r \in Request : Pending(r)
  /\ \A r \in Request : At(r, "idle") => ~Counts(r)

IndexInv == Types /\ QuitOwned /\ Unstopped /\ Reports

-----------------------------------------------------------------------------
(* Sequences.                                                              *)

\* What an append adds.
LEMMA Appended ==
  ASSUME NEW s \in Seq(Obj), NEW o \in Obj
  PROVE  Append(s, o) \in Seq(Obj) /\ ToSet(Append(s, o)) = ToSet(s) \cup {o}
BY DEF ToSet

\* Nothing is in an empty queue.
LEMMA Emptied == << >> \in Seq(Obj) /\ ToSet(<< >>) = {}
BY DEF ToSet

\* What a queue holds are objects.
LEMMA Queued == ASSUME NEW s \in Seq(Obj) PROVE ToSet(s) \subseteq Obj
BY DEF ToSet

\* The first of a list, and the rest.
LEMMA Split ==
  ASSUME NEW S, NEW s \in Seq(S), s # << >>
  PROVE  Head(s) \in S /\ Tail(s) \in Seq(S)
OBVIOUS

\* A walk meets objects.
LEMMA Met == ASSUME NEW p \in Path PROVE Below(p) \in Seq(Obj)
<1>1. "a" \in Obj /\ "d" \in Obj
  BY DEF Obj
<1>2. <<"a", "d">> \in Seq(Obj)
  BY <1>1
<1>3. p # "/" => <<p>> \in Seq(Obj)
  BY DEF Path
<1> QED BY <1>2, <1>3 DEF Below

\* The paths of a request.
LEMMA Asked == ASSUME NEW kind PROVE Paths(kind) \in Seq(Path) /\ << >> \in Seq(Path)
<1>1. "/" \in Path /\ "a" \in Path /\ "d" \in Path
  BY DEF Path, Obj
<1>2. <<"/">> \in Seq(Path) /\ <<"a", "d">> \in Seq(Path) /\ << >> \in Seq(Path)
  BY <1>1
<1> QED BY <1>2 DEF Paths

-----------------------------------------------------------------------------
(* Steps of a walker.                                                      *)

\* The consumers are as they were, but for their error.
Same == \A x \in Request :
  /\ c'[x].pc = c[x].pc /\ c'[x].mq = c[x].mq /\ c'[x].batch = c[x].batch
  /\ c'[x].final = c[x].final /\ c'[x].waited = c[x].waited
  /\ c'[x].running = c[x].running /\ c'[x].token = c[x].token

\* What the walker of r may become, for the consumers to stay in step with it.
MayBe(r, o) ==
  /\ IsWalk(o) /\ o.pc # "idle" /\ (Counts(r) => o.kind = "build")
  /\ o.pc \in Building => w[r].pc \in Building
  /\ r \notin stops =>
       /\ c[r].pc \in Consuming => o.pc \in Building \cup {"wait"}
       /\ o.pc = "built" => c[r].pc \notin Consuming

\* A step of a walker keeps the invariant if its books are kept.
LEMMA Walks ==
  ASSUME IndexInv, NEW r \in Request, NEW o, MayBe(r, o), w' = [w EXCEPT ![r] = o],
         c' \in [Request -> Consumers], Same,
         seen' \in [Request -> [sent : SUBSET Obj, gone : SUBSET Obj]],
         UNCHANGED <<quit, stops>>,
         ~progress' => ~progress \/ Pending(r),
         \A x \in Request \ stops : Accounted(x)'
  PROVE  IndexInv'
<1> USE DEF IndexInv, Types, MayBe
<1>1. /\ w'[r] = o /\ \A x \in Request \ {r} : w'[x] = w[x]
      /\ w' = [x \in Request |-> w'[x]]
  OBVIOUS
<1>2. Types'
  BY <1>1
<1>3. QuitOwned'
  BY DEF QuitOwned, Same
<1>4. ASSUME NEW x \in Request \ stops PROVE InStep(x)'
  <2>1. InStep(x)
    BY DEF Unstopped
  <2>2. CASE x = r
    BY <1>1, <2>1, <2>2 DEF InStep, Same
  <2>3. CASE x # r
    BY <1>1, <2>1, <2>3 DEF InStep, Same
  <2> QED BY <2>2, <2>3
<1>5. Unstopped'
  BY <1>4 DEF Unstopped
<1>6. ASSUME NEW x \in Request, Pending(x) PROVE Pending(x)'
  BY <1>1, <1>6 DEF Pending, Counts, Same
<1>7. Reports'
  BY <1>1, <1>6 DEF Reports, At, Counts
<1> QED BY <1>2, <1>3, <1>5, <1>7

\* Most steps of a walker change nothing but itself.
LEMMA Moves ==
  ASSUME IndexInv, NEW r \in Request, NEW o, MayBe(r, o), w' = [w EXCEPT ![r] = o],
         UNCHANGED <<index, quit, c, seen, stops>>,
         ~progress' => ~progress \/ Pending(r)
  PROVE  IndexInv'
<1>1. c' \in [Request -> Consumers] /\ Same
      /\ seen' \in [Request -> [sent : SUBSET Obj, gone : SUBSET Obj]]
  BY DEF IndexInv, Types, Same
<1>2. \A x \in Request \ stops : Accounted(x)'
  BY DEF IndexInv, Unstopped, Accounted
<1> QED BY <1>1, <1>2, Walks

\* A walker that only goes on to another place.
ToPc(r, pc) == IF pc = "end" THEN Ended(w[r].kind) ELSE [w[r] EXCEPT !.pc = pc]
\* It becomes a walk at that place, and stays in its build.
LEMMA Goes ==
  ASSUME IndexInv, NEW r \in Request, NEW pc, Goto(r, pc), pc # "got"
  PROVE  /\ w' = [w EXCEPT ![r] = ToPc(r, pc)]
         /\ IsWalk(ToPc(r, pc)) /\ ToPc(r, pc).pc = pc
         /\ Counts(r) => ToPc(r, pc).kind = "build"
<1>1. IsWalk(w[r]) /\ w = [x \in Request |-> w[x]]
  BY DEF IndexInv, Types
<1>2. IsWalk(NoWalk)
  BY Asked DEF NoWalk, IsWalk, WalkFields
<1>3. CASE pc = "end"
  BY <1>1, <1>2, <1>3, Asked DEF Goto, ToPc, Ended, NoWalk, IsWalk, WalkFields, Counts
<1>4. CASE pc # "end"
  BY <1>1, <1>4 DEF Goto, ToPc, IsWalk, WalkFields, Counts
<1> QED BY <1>3, <1>4

\* Steps before a build and after it, and those that end one that is in step.
LEMMA GoesOn ==
  ASSUME IndexInv, NEW r \in Request, NEW pc, Goto(r, pc), pc \notin {"idle", "got"},
         UNCHANGED <<index, quit, c, seen, stops>>,
         ~progress' => ~progress \/ Pending(r),
         pc \in Building => w[r].pc \in Building,
         r \notin stops => (c[r].pc \in Consuming => pc \in Building \cup {"wait"}),
         r \notin stops => (pc = "built" => c[r].pc \notin Consuming)
  PROVE  IndexInv'
<1> DEFINE o == ToPc(r, pc)
<1>1. w' = [w EXCEPT ![r] = o] /\ MayBe(r, o)
  BY Goes DEF MayBe
<1> HIDE DEF o
<1> QED BY <1>1, Moves

\* Outside a build no consumer of its own is at work, unless it was stopped.
LEMMA Outside ==
  ASSUME IndexInv, NEW r \in Request \ stops, w[r].pc \notin Building \cup {"wait"}
  PROVE  c[r].pc \notin Consuming
BY DEF IndexInv, Unstopped, InStep

\* A request is asked for.
LEMMA AskKeeps ==
  ASSUME IndexInv, NEW r \in Request, NEW kind, Ask(r, kind) PROVE IndexInv'
<1> DEFINE next == CASE kind = "stop" -> IF Running THEN "stop" ELSE "end"
                     [] kind = "hook" -> IF Running THEN "end" ELSE "progress"
                     [] OTHER -> IF Running THEN "end" ELSE "erase"
           o == IF next = "end" THEN Ended(kind)
                ELSE [NoWalk EXCEPT !.pc = next, !.kind = kind, !.paths = Paths(kind),
                                    !.target = IF next = "stop" THEN quit ELSE None]
<1>1. next \in {"stop", "end", "progress", "erase"}
  OBVIOUS
<1>2. w' = [w EXCEPT ![r] = o] /\ At(r, "idle") /\ UNCHANGED <<index, progress, quit, c, seen, stops>>
  BY DEF Ask, Walk
<1> HIDE DEF next
<1>3. IsWalk(o) /\ o.pc = next
  BY <1>1, Asked DEF Ended, NoWalk, IsWalk, WalkFields
<1>4. ~Counts(r)
  BY <1>2 DEF IndexInv, Reports
<1>5. MayBe(r, o)
  BY <1>1, <1>2, <1>3, <1>4, Outside DEF MayBe, Building, At
<1> HIDE DEF o
<1> QED BY <1>2, <1>5, Moves

\* The handlers' steps that change their own place only.
LEMMA HandlerKeeps ==
  ASSUME IndexInv, NEW r \in Request,
         EraseFails(r) \/ Cleared(r) \/ ReadProgress(r) \/ HookEnd(r)
  PROVE  IndexInv'
<1> DEFINE From == {"erase", "cleared", "progress", "hook"}
           To == {"cas", "cleared", "end", "nodes"}
<1>1. PICK pc \in To : Goto(r, pc) /\ w[r].pc \in From
  <2>1. CASE EraseFails(r)
    BY <2>1 DEF EraseFails, At
  <2>2. CASE Cleared(r)
    BY <2>2 DEF Cleared, At
  <2>3. CASE ReadProgress(r)
    BY <2>3 DEF ReadProgress, At
  <2>4. CASE HookEnd(r)
    BY <2>4 DEF HookEnd, At
  <2> QED BY <2>1, <2>2, <2>3, <2>4
<1>2. UNCHANGED <<index, quit, c, seen, stops>> /\ (~progress' => ~progress)
  BY DEF EraseFails, Cleared, ReadProgress, HookEnd
<1>3. r \notin stops => c[r].pc \notin Consuming
  BY <1>1, Outside DEF Building
<1> QED BY <1>1, <1>2, <1>3, GoesOn DEF Building

\* The hook finds out what is missing.
LEMMA ReadNodesKeeps ==
  ASSUME IndexInv, NEW r \in Request, ReadNodes(r) PROVE IndexInv'
<1> DEFINE missing == SelectSeq(<<"a", "d">>, LAMBDA x : x \notin index)
           o == [w[r] EXCEPT !.pc = "hook", !.todo = missing]
<1>1. w' = [w EXCEPT ![r] = o] /\ At(r, "nodes") /\ UNCHANGED <<index, progress, quit, c, seen, stops>>
  BY DEF ReadNodes, Walk
<1> HIDE DEF missing
<1>2. IsWalk(w[r])
  BY DEF IndexInv, Types
<1>3. IsWalk(o) /\ o.pc = "hook" /\ o.kind = w[r].kind
  BY <1>2 DEF IsWalk, WalkFields
<1>4. MayBe(r, o)
  BY <1>1, <1>3, Outside DEF MayBe, Building, At, Counts
<1> HIDE DEF o
<1> QED BY <1>1, <1>4, Moves

\* The hook builds a directory.
LEMMA HookBuildKeeps ==
  ASSUME IndexInv, NEW r \in Request, HookBuild(r) PROVE IndexInv'
<1> DEFINE left == Tail(w[r].todo)
           o == [w[r] EXCEPT !.pc = "cas", !.paths = <<"d">>, !.todo = left]
<1>1. w' = [w EXCEPT ![r] = o] /\ At(r, "hook") /\ UNCHANGED <<index, progress, quit, c, seen, stops>>
  BY DEF HookBuild, Walk
<1> HIDE DEF left
<1>2. IsWalk(w[r])
  BY DEF IndexInv, Types
<1>3. <<"d">> \in Seq(Path)
  BY DEF Path, Obj
<1>4. IsWalk(o) /\ o.pc = "cas" /\ o.kind = w[r].kind
  BY <1>2, <1>3 DEF IsWalk, WalkFields
<1>5. MayBe(r, o)
  BY <1>1, <1>4, Outside DEF MayBe, Building, At, Counts
<1> HIDE DEF o
<1> QED BY <1>1, <1>5, Moves

\* The hook adds a file to the index: nothing leaves it.
LEMMA HookIndexKeeps ==
  ASSUME IndexInv, NEW r \in Request, HookIndex(r) PROVE IndexInv'
<1>1. CASE Goto(r, "end") /\ UNCHANGED index
  <2>1. r \notin stops => c[r].pc \notin Consuming
    BY Outside DEF HookIndex, At, Building
  <2> QED BY <1>1, <2>1, GoesOn DEF HookIndex, Building
<1>2. CASE index' = index \cup {"a"} /\ Walk(r, [w[r] EXCEPT !.todo = Tail(@)])
  <2> DEFINE left == Tail(w[r].todo)
             o == [w[r] EXCEPT !.todo = left]
  <2>1. w' = [w EXCEPT ![r] = o] /\ At(r, "hook") /\ UNCHANGED <<progress, quit, c, seen, stops>>
    BY <1>2 DEF HookIndex, Walk
  <2> HIDE DEF left
  <2>2. IsWalk(w[r]) /\ c' \in [Request -> Consumers] /\ Same
        /\ seen' \in [Request -> [sent : SUBSET Obj, gone : SUBSET Obj]]
    BY <2>1 DEF IndexInv, Types, Same
  <2>3. IsWalk(o) /\ o.pc = w[r].pc /\ o.kind = w[r].kind
    BY <2>2 DEF IsWalk, WalkFields
  <2>4. MayBe(r, o)
    BY <2>1, <2>3, Outside DEF MayBe, Building, At, Counts
  <2>5. \A x \in Request \ stops : Accounted(x)'
    BY <1>2, <2>1 DEF IndexInv, Unstopped, Accounted
  <2> HIDE DEF o
  <2> QED BY <2>1, <2>2, <2>4, <2>5, Walks
<1> QED BY <1>1, <1>2 DEF HookIndex

\* What is erased is written down as lost for every build that put it there.
LEMMA EraseKeeps ==
  ASSUME IndexInv, NEW r \in Request, Erase(r) PROVE IndexInv'
<1>1. PICK lost : index' = index \ lost /\ Lose(lost)
  BY DEF Erase
<1>2. PICK pc \in {"cleared", "cas"} : Goto(r, pc)
  BY DEF Erase
<1> DEFINE o == ToPc(r, pc)
<1>3. UNCHANGED <<progress, quit, c, stops>> /\ w[r].pc = "erase"
  BY DEF Erase, At
<1>4. w' = [w EXCEPT ![r] = o] /\ MayBe(r, o)
  BY <1>2, <1>3, Goes, Outside DEF MayBe, Building
<1>5. c' \in [Request -> Consumers] /\ Same /\ seen \in [Request -> [sent : SUBSET Obj, gone : SUBSET Obj]]
  BY <1>3 DEF IndexInv, Types, Same
<1>6. \A x \in Request : seen'[x] = [seen[x] EXCEPT !.gone = @ \cup (lost \cap seen[x].sent)]
  BY <1>1 DEF Lose
<1>7. \A x \in Request : seen'[x] \in [sent : SUBSET Obj, gone : SUBSET Obj]
        /\ seen'[x].sent = seen[x].sent /\ seen'[x].gone = seen[x].gone \cup (lost \cap seen[x].sent)
  <2> SUFFICES ASSUME NEW x \in Request
               PROVE  /\ seen'[x] \in [sent : SUBSET Obj, gone : SUBSET Obj]
                      /\ seen'[x].sent = seen[x].sent
                      /\ seen'[x].gone = seen[x].gone \cup (lost \cap seen[x].sent)
    OBVIOUS
  <2> DEFINE more == seen[x].gone \cup (lost \cap seen[x].sent)
  <2>1. seen[x] \in [sent : SUBSET Obj, gone : SUBSET Obj]
    BY <1>5
  <2>2. seen'[x] = [seen[x] EXCEPT !.gone = more] /\ more \subseteq Obj
    BY <1>6, <2>1
  <2> HIDE DEF more
  <2>3. seen'[x] \in [sent : SUBSET Obj, gone : SUBSET Obj] /\ seen'[x].sent = seen[x].sent
        /\ seen'[x].gone = more
    BY <2>1, <2>2
  <2> QED BY <2>3 DEF more
<1>8. seen' \in [Request -> [sent : SUBSET Obj, gone : SUBSET Obj]]
  BY <1>1, <1>7 DEF Lose
<1>9. \A x \in Request \ stops : Accounted(x)'
  BY <1>1, <1>3, <1>7 DEF IndexInv, Unstopped, Accounted
<1> HIDE DEF o
<1> QED BY <1>3, <1>4, <1>5, <1>8, <1>9, Walks

-----------------------------------------------------------------------------
(* The walker of a build.                                                  *)

\* Only the error of a consumer is another.
LEMMA ErrOnly ==
  ASSUME IndexInv, NEW r \in Request, NEW e \in {None, "walk", "batch"},
         Consume(r, [c[r] EXCEPT !.err = e])
  PROVE  c' \in [Request -> Consumers] /\ Same
<1>1. c \in [Request -> Consumers] /\ c[r] \in Consumers
  BY DEF IndexInv, Types
<1>2. [c[r] EXCEPT !.err = e] \in Consumers
  BY <1>1 DEF Consumers
<1>3. c' \in [Request -> Consumers]
  BY <1>1, <1>2 DEF Consume
<1>4. Same
  BY <1>1 DEF Consume, Same, Consumers
<1> QED BY <1>3, <1>4

\* And nothing that the books are about.
LEMMA BooksKept ==
  ASSUME IndexInv, Same, UNCHANGED <<index, seen>>
  PROVE  \A x \in Request \ stops : Accounted(x)'
BY DEF IndexInv, Unstopped, Accounted, Same

\* A build begins when Quit is free: no consumer is at work, and the new one is told of
\* nothing yet.
LEMMA BeginKeeps ==
  ASSUME IndexInv, NEW r \in Request, Begin(r) PROVE IndexInv'
<1>1. CASE Goto(r, "end") /\ UNCHANGED <<quit, c>>
  <2>1. r \notin stops => c[r].pc \notin Consuming
    BY Outside DEF Begin, At, Building
  <2> QED BY <1>1, <2>1, GoesOn DEF Begin, Building
<1>2. CASE Free /\ quit' = r /\ Goto(r, "admin")
           /\ Consume(r, [NoConsumer EXCEPT !.pc = "loop", !.running = TRUE])
  <2> DEFINE o == ToPc(r, "admin")
             n == [NoConsumer EXCEPT !.pc = "loop", !.running = TRUE]
  <2>1. /\ w' = [w EXCEPT ![r] = o] /\ IsWalk(o) /\ o.pc = "admin"
        /\ Counts(r) => o.kind = "build"
    BY <1>2, Goes
  <2> HIDE DEF o
  <2>2. /\ n \in Consumers /\ n.pc = "loop" /\ n.mq = << >> /\ n.batch = << >> /\ n.running
        /\ ~n.final /\ ~n.token /\ ~n.waited
    BY Emptied DEF NoConsumer, Consumers, ConsumerAt
  <2>3. c' = [c EXCEPT ![r] = n] /\ UNCHANGED <<index, progress, seen, stops>> /\ w[r].pc = "cas"
    BY <1>2 DEF Consume, Begin, At
  <2> HIDE DEF n
  <2>4. \A x \in Request : c[x].pc \notin Working
    BY <1>2, NoneAssumption DEF Free, IndexInv, QuitOwned
  <2>5. Types'
    BY <1>2, <2>1, <2>2, <2>3 DEF IndexInv, Types
  <2>6. /\ w'[r] = o /\ \A x \in Request \ {r} : w'[x] = w[x]
        /\ c'[r] = n /\ \A x \in Request \ {r} : c'[x] = c[x]
    BY <2>1, <2>3 DEF IndexInv, Types
  <2>7. QuitOwned'
    BY <1>2, <2>2, <2>4, <2>6 DEF QuitOwned, Working
  <2>8. ASSUME NEW x \in Request \ stops PROVE InStep(x)' /\ Accounted(x)'
    <3>1. InStep(x) /\ Accounted(x)
      BY DEF IndexInv, Unstopped
    <3>2. CASE x = r
      <4>1. InStep(x)'
        BY <2>1, <2>2, <2>6, <3>2 DEF InStep, Building, Consuming
      <4>2. c[r].pc \notin Consuming /\ c[r].pc # "batch"
        BY <2>4 DEF Working, Consuming
      <4>3. seen[r].sent \subseteq index \cup seen[r].gone
        BY <3>1, <3>2, <4>2, Emptied DEF InStep, Accounted
      <4>4. Accounted(x)'
        BY <2>3, <2>6, <3>2, <4>3 DEF Accounted
      <4> QED BY <4>1, <4>4
    <3>3. CASE x # r
      BY <2>3, <2>6, <3>1, <3>3 DEF InStep, Accounted
    <3> QED BY <3>2, <3>3
  <2>9. Unstopped'
    BY <2>3, <2>8 DEF Unstopped
  <2>10. Reports'
    BY <2>1, <2>2, <2>3, <2>6 DEF IndexInv, Reports, Pending, Counts, At, Consuming
  <2> QED BY <2>5, <2>7, <2>9, <2>10 DEF IndexInv
<1> QED BY <1>1, <1>2 DEF Begin

\* The steps of a walk that set the shared error.
LEMMA ErrKeeps ==
  ASSUME IndexInv, NEW r \in Request,
         (\E ok \in BOOLEAN : Admin(r, ok) \/ GetPath(r, ok)) \/ Walked(r)
  PROVE  IndexInv'
<1>1. PICK e \in {None, "walk", "batch"} : Consume(r, [c[r] EXCEPT !.err = e])
  BY DEF Admin, GetPath, Walked
<1>2. c' \in [Request -> Consumers] /\ Same
  BY <1>1, ErrOnly
<1>3. UNCHANGED <<index, progress, quit, seen, stops>> /\ w[r].pc \in {"admin", "path", "walk"}
  BY DEF Admin, GetPath, Walked, At
<1>4. \A x \in Request \ stops : Accounted(x)'
  BY <1>2, <1>3, BooksKept
<1>5. \E o : w' = [w EXCEPT ![r] = o] /\ MayBe(r, o)
  <2>1. ASSUME NEW pc \in {"start", "return", "walked"}, Goto(r, pc)
        PROVE  \E o : w' = [w EXCEPT ![r] = o] /\ MayBe(r, o)
    <3>1. w' = [w EXCEPT ![r] = ToPc(r, pc)] /\ MayBe(r, ToPc(r, pc))
      BY <1>3, <2>1, Goes DEF MayBe, Building
    <3> QED BY <3>1
  <2>2. ASSUME NEW ok \in BOOLEAN, Admin(r, ok)
        PROVE  \E pc \in {"start", "return", "walked"} : Goto(r, pc)
    BY <2>2 DEF Admin
  <2>3. Walked(r) => \E pc \in {"start", "return", "walked"} : Goto(r, pc)
    BY DEF Walked
  <2>4. ASSUME NEW ok \in BOOLEAN, GetPath(r, ok)
        PROVE  \E o : w' = [w EXCEPT ![r] = o] /\ MayBe(r, o)
    <3> DEFINE o == [w[r] EXCEPT !.pc = "got", !.found = ok]
    <3>1. w' = [w EXCEPT ![r] = o] /\ w[r].pc = "path"
      BY <2>4 DEF GetPath, Walk, At
    <3>2. IsWalk(w[r]) /\ w[r].paths # << >>
      BY <2>4 DEF IndexInv, Types, GetPath
    <3>3. IsWalk(o) /\ o.pc = "got" /\ o.kind = w[r].kind
      BY <3>2 DEF IsWalk, WalkFields
    <3>4. MayBe(r, o)
      BY <3>1, <3>3 DEF MayBe, Building, Counts
    <3> QED BY <3>1, <3>4
  <2> QED BY <2>1, <2>2, <2>3, <2>4
<1>6. seen' \in [Request -> [sent : SUBSET Obj, gone : SUBSET Obj]]
  BY <1>3 DEF IndexInv, Types
<1>7. PICK o : w' = [w EXCEPT ![r] = o] /\ MayBe(r, o)
  BY <1>5
<1> QED BY <1>2, <1>3, <1>4, <1>6, <1>7, Walks

\* A build of the whole tree takes the progress back; it will report, or was stopped.
LEMMA StartKeeps ==
  ASSUME IndexInv, NEW r \in Request, Start(r) PROVE IndexInv'
<1>1. Goto(r, "path") /\ w[r].pc = "start" /\ UNCHANGED <<index, quit, c, seen, stops>>
  BY DEF Start, At
<1>2. r \notin stops => c[r].pc \in Consuming
  BY <1>1 DEF IndexInv, Unstopped, InStep, Building
<1>3. ~progress' => ~progress \/ Pending(r)
  BY <1>2 DEF Start, Pending
<1> QED BY <1>1, <1>3, GoesOn DEF Building

\* The walker's other steps from path to path, and when it returns.
LEMMA WalkKeeps ==
  ASSUME IndexInv, NEW r \in Request, GotPath(r) \/ Skip(r) PROVE IndexInv'
<1> DEFINE ret == [w[r] EXCEPT !.pc = "return", !.found = TRUE]
           below == Below(Head(w[r].paths))
           left == Tail(w[r].paths)
           walk == [w[r] EXCEPT !.pc = "walk", !.rest = below, !.paths = left]
           skip == [w[r] EXCEPT !.rest = << >>]
<1>1. IsWalk(w[r])
  BY DEF IndexInv, Types
<1>2. /\ IsWalk(ret) /\ ret.pc = "return" /\ ret.kind = w[r].kind
      /\ IsWalk(skip) /\ skip.pc = w[r].pc /\ skip.kind = w[r].kind
  BY <1>1, Emptied DEF IsWalk, WalkFields
<1>3. UNCHANGED <<index, progress, quit, c, seen, stops>> /\ w[r].pc \in {"got", "walk"}
  BY DEF GotPath, Skip, At
<1>4. CASE w' = [w EXCEPT ![r] = ret]
  <2>1. MayBe(r, ret)
    BY <1>2, <1>3 DEF MayBe, Building, Counts
  <2> HIDE DEF ret
  <2> QED BY <1>3, <1>4, <2>1, Moves
<1>5. CASE w' = [w EXCEPT ![r] = skip]
  <2>1. MayBe(r, skip)
    BY <1>2, <1>3 DEF MayBe, Building, Counts
  <2> HIDE DEF skip
  <2> QED BY <1>3, <1>5, <2>1, Moves
<1>6. CASE w[r].paths # << >> /\ w' = [w EXCEPT ![r] = walk]
  <2>1. Head(w[r].paths) \in Path /\ left \in Seq(Path)
    BY <1>1, <1>6, Split DEF IsWalk
  <2>2. below \in Seq(Obj)
    BY <2>1, Met
  <2> HIDE DEF below, left
  <2>3. IsWalk(walk) /\ walk.pc = "walk" /\ walk.kind = w[r].kind
    BY <1>1, <2>1, <2>2 DEF IsWalk, WalkFields
  <2>4. MayBe(r, walk)
    BY <1>3, <2>3 DEF MayBe, Building, Counts
  <2> HIDE DEF walk
  <2> QED BY <1>3, <1>6, <2>4, Moves
<1>7. GotPath(r) => w[r].paths # << >>
  BY <1>1 DEF GotPath, At, IsWalk
<1> QED BY <1>4, <1>5, <1>6, <1>7 DEF GotPath, Skip, Walk

\* What is published is in the queue, which the consumer will empty once more.
LEMMA PublishKeeps ==
  ASSUME IndexInv, NEW r \in Request, Publish(r) PROVE IndexInv'
<1> DEFINE x == Head(w[r].rest)
           left == Tail(w[r].rest)
           more == Append(c[r].mq, x)
           o == [w[r] EXCEPT !.rest = left]
           n == [c[r] EXCEPT !.mq = more]
<1>1. IsWalk(w[r]) /\ c[r] \in Consumers /\ w[r].pc = "walk" /\ w[r].rest # << >>
  BY DEF IndexInv, Types, Publish, At
<1>2. x \in Obj /\ left \in Seq(Obj)
  BY <1>1, Split DEF IsWalk
<1>3. more \in Seq(Obj) /\ ToSet(more) = ToSet(c[r].mq) \cup {x}
  BY <1>1, <1>2, Appended DEF Consumers
<1>4. /\ w' = [w EXCEPT ![r] = o] /\ c' = [c EXCEPT ![r] = n]
      /\ UNCHANGED <<index, progress, quit, stops>>
      /\ seen' = [seen EXCEPT ![r].sent = @ \cup {x}]
  BY DEF Publish, Walk, Consume
<1> HIDE DEF x, left, more
<1>5. IsWalk(o) /\ o.pc = "walk" /\ o.kind = w[r].kind
  BY <1>1, <1>2 DEF IsWalk, WalkFields
<1>6. /\ n \in Consumers /\ n.mq = more /\ n.pc = c[r].pc /\ n.batch = c[r].batch
      /\ n.final = c[r].final /\ n.waited = c[r].waited /\ n.running = c[r].running
      /\ n.token = c[r].token
  BY <1>1, <1>3 DEF Consumers
<1> HIDE DEF o, n
<1>7. /\ \A y \in Request \ {r} : w'[y] = w[y] /\ c'[y] = c[y] /\ seen'[y] = seen[y]
      /\ w'[r] = o /\ c'[r] = n
  BY <1>4 DEF IndexInv, Types
<1>8. /\ seen'[r].sent = seen[r].sent \cup {x} /\ seen'[r].gone = seen[r].gone
      /\ seen' \in [Request -> [sent : SUBSET Obj, gone : SUBSET Obj]]
  <2>1. seen \in [Request -> [sent : SUBSET Obj, gone : SUBSET Obj]]
    BY DEF IndexInv, Types
  <2> QED BY <1>2, <1>4, <2>1
<1>9. Types'
  BY <1>4, <1>5, <1>6, <1>8 DEF IndexInv, Types
<1>10. QuitOwned'
  BY <1>4, <1>6, <1>7 DEF IndexInv, QuitOwned
<1>11. ASSUME NEW y \in Request \ stops PROVE InStep(y)' /\ Accounted(y)'
  <2>1. InStep(y) /\ Accounted(y)
    BY DEF IndexInv, Unstopped
  <2>2. CASE y = r
    <3>1. InStep(y)'
      BY <1>1, <1>5, <1>6, <1>7, <2>1, <2>2 DEF InStep, Building
    <3>2. Accounted(y)'
      BY <1>3, <1>4, <1>6, <1>7, <1>8, <2>1, <2>2 DEF Accounted
    <3> QED BY <3>1, <3>2
  <2>3. CASE y # r
    BY <1>4, <1>7, <2>1, <2>3 DEF InStep, Accounted
  <2> QED BY <2>2, <2>3
<1>12. Unstopped'
  BY <1>4, <1>11 DEF Unstopped
<1>13. Reports'
  BY <1>1, <1>4, <1>5, <1>6, <1>7 DEF IndexInv, Reports, Pending, Counts, At
<1> QED BY <1>9, <1>10, <1>12, <1>13 DEF IndexInv

\* The walker's steps after the last path.
LEMMA ReturnKeeps ==
  ASSUME IndexInv, NEW r \in Request, NextPath(r) \/ Return(r) \/ Wait(r) PROVE IndexInv'
<1>1. CASE NextPath(r)
  <2>1. PICK pc \in {"return", "path"} : Goto(r, pc)
    BY <1>1 DEF NextPath
  <2> QED BY <1>1, <2>1, GoesOn DEF NextPath, At, Building
<1>2. CASE Return(r)
  <2>1. r \notin stops => c[r].running /\ quit = r
    BY <1>2 DEF Return, At, IndexInv, Unstopped, InStep, QuitOwned, Working, Building, Consuming
  <2>2. PICK pc \in {"stopped", "tell"} : Goto(r, pc) /\ (r \notin stops => pc = "tell")
    BY <1>2, <2>1 DEF Return
  <2> QED BY <1>2, <2>2, GoesOn DEF Return, At, Building
<1>3. CASE Wait(r)
  <2>1. r \notin stops => c[r].pc \notin Consuming
    BY <1>3 DEF Wait, Finished, IndexInv, Unstopped, InStep
  <2> QED BY <1>3, <2>1, GoesOn DEF Wait, At, Building
<1> QED BY <1>1, <1>2, <1>3

\* BuildIndex has returned, and its books are closed.
LEMMA BuiltKeeps ==
  ASSUME IndexInv, NEW r \in Request, Built(r) PROVE IndexInv'
<1>1. PICK pc \in {"hook", "end"} : Goto(r, pc)
  BY DEF Built
<1>2. /\ w[r].pc \in {"built", "stopped"} /\ UNCHANGED <<index, progress, quit, stops>>
      /\ seen' = [seen EXCEPT ![r] = Nothing]
      /\ Consume(r, [c[r] EXCEPT !.err = None])
  BY DEF Built
<1>3. c' \in [Request -> Consumers] /\ Same
  BY <1>2, ErrOnly
<1>4. /\ seen' \in [Request -> [sent : SUBSET Obj, gone : SUBSET Obj]]
      /\ seen'[r].sent = {} /\ \A x \in Request \ {r} : seen'[x] = seen[x]
  BY <1>2 DEF Nothing, IndexInv, Types
<1>5. \A x \in Request \ stops : Accounted(x)'
  BY <1>2, <1>3, <1>4 DEF IndexInv, Unstopped, Accounted, Same
<1>6. r \notin stops => c[r].pc \notin Consuming
  BY <1>2, Outside DEF Building
<1> DEFINE o == ToPc(r, pc)
<1>7. w' = [w EXCEPT ![r] = o] /\ MayBe(r, o)
  BY <1>1, <1>6, Goes DEF MayBe, Building
<1> HIDE DEF o
<1> QED BY <1>2, <1>3, <1>4, <1>5, <1>7, Walks

\* Once it has told its consumer, a walker is not building any more; so the token that
\* is in the channel of a build nobody stopped is the walker's.
LEMMA TellKeeps ==
  ASSUME IndexInv, NEW r \in Request, Tell(r) PROVE IndexInv'
<1> DEFINE o == ToPc(r, "wait")
           n == [c[r] EXCEPT !.token = Told(r)]
<1>1. w[r].pc = "tell" /\ c' = [c EXCEPT ![r] = n] /\ UNCHANGED <<index, progress, quit, seen, stops>>
  BY DEF Tell, At, Consume
<1>2. w' = [w EXCEPT ![r] = o] /\ IsWalk(o) /\ o.pc = "wait" /\ (Counts(r) => o.kind = "build")
  BY Goes DEF Tell
<1>3. c[r] \in Consumers
  BY DEF IndexInv, Types
<1>4. /\ n \in Consumers /\ n.mq = c[r].mq /\ n.pc = c[r].pc /\ n.batch = c[r].batch
      /\ n.final = c[r].final /\ n.waited = c[r].waited
  BY <1>3 DEF Consumers, Told
<1> HIDE DEF o, n
<1>5. /\ \A y \in Request \ {r} : w'[y] = w[y] /\ c'[y] = c[y]
      /\ w'[r] = o /\ c'[r] = n
  BY <1>1, <1>2 DEF IndexInv, Types
<1>6. Types'
  BY <1>1, <1>2, <1>4 DEF IndexInv, Types
<1>7. QuitOwned'
  BY <1>1, <1>4, <1>5 DEF IndexInv, QuitOwned
<1>8. ASSUME NEW y \in Request \ stops PROVE InStep(y)' /\ Accounted(y)'
  BY <1>1, <1>2, <1>4, <1>5 DEF IndexInv, Unstopped, InStep, Accounted, Building
<1>9. Unstopped'
  BY <1>1, <1>8 DEF Unstopped
<1>10. Reports'
  BY <1>1, <1>2, <1>4, <1>5 DEF IndexInv, Reports, Pending, Counts, At
<1> QED BY <1>6, <1>7, <1>9, <1>10 DEF IndexInv

\* StopIndex sends into the channel of a build, which counts as stopped from then on.
LEMMA StopKeeps ==
  ASSUME IndexInv, NEW r \in Request, Stop(r) PROVE IndexInv'
<1> DEFINE o == ToPc(r, "end")
           t == w[r].target
<1>1. /\ w[r].pc = "stop" /\ UNCHANGED <<index, progress, quit, seen>>
      /\ stops' = stops \cup {t} /\ c' = [c EXCEPT ![t].token = c[t].pc # "dead"]
  BY DEF Stop, At
<1>2. w' = [w EXCEPT ![r] = o] /\ IsWalk(o) /\ o.pc = "end" /\ (Counts(r) => o.kind = "build")
  BY Goes DEF Stop
<1> HIDE DEF o, t
<1>3. c \in [Request -> Consumers]
  BY DEF IndexInv, Types
<1>4. /\ c' \in [Request -> Consumers] /\ \A y \in Request : c'[y].pc = c[y].pc
      /\ \A y \in Request \ {t} : c'[y] = c[y]
  BY <1>1, <1>3, ZenonT(60) DEF Consumers
<1>5. \A y \in Request \ {r} : w'[y] = w[y]
  BY <1>2 DEF IndexInv, Types
<1>6. w'[r] = o
  BY <1>2 DEF IndexInv, Types
<1>7. Types'
  BY <1>1, <1>2, <1>4 DEF IndexInv, Types
<1>8. QuitOwned'
  BY <1>1, <1>4 DEF IndexInv, QuitOwned
<1>9. ASSUME NEW y \in Request \ stops' PROVE InStep(y)' /\ Accounted(y)'
  <2>1. y \in Request \ stops /\ y # t /\ InStep(y) /\ Accounted(y)
    BY <1>1, <1>9 DEF IndexInv, Unstopped
  <2>2. Accounted(y)'
    BY <1>1, <1>4, <2>1 DEF Accounted
  <2>3. CASE y = r
    <3>1. c[y].pc \notin Consuming
      BY <1>1, <2>1, <2>3, Outside DEF Building
    <3>2. InStep(y)'
      BY <1>2, <1>4, <1>6, <2>1, <2>3, <3>1 DEF InStep, Building
    <3> QED BY <2>2, <3>2
  <2>4. CASE y # r
    BY <1>4, <1>5, <2>1, <2>2, <2>4 DEF InStep
  <2> QED BY <2>3, <2>4
<1>10. Unstopped'
  BY <1>9 DEF Unstopped
<1>11. Reports'
  BY <1>1, <1>2, <1>4, <1>5, <1>6 DEF IndexInv, Reports, Pending, Counts, At
<1> QED BY <1>7, <1>8, <1>10, <1>11 DEF IndexInv

\* A step of a walker keeps the invariant, unless the program dies of it.
LEMMA WalkerKeeps ==
  ASSUME IndexInv, NEW r \in Request, Walker(r), ~Panic(r) PROVE IndexInv'
BY HandlerKeeps, ReadNodesKeeps, HookBuildKeeps, HookIndexKeeps, EraseKeeps, BeginKeeps,
   ErrKeeps, StartKeeps, WalkKeeps, PublishKeeps, ReturnKeeps, BuiltKeeps, TellKeeps, StopKeeps
   DEF Walker

-----------------------------------------------------------------------------
(* Steps of a consumer.                                                    *)

\* What the consumer of r may become.
Becomes(r, n) ==
  /\ n \in Consumers
  /\ r \notin stops =>
       /\ w[r].pc \in Building => n.pc \in Consuming /\ n.running /\ ~n.final /\ ~n.token
       /\ n.pc \in Consuming => c[r].pc \in Consuming
       /\ n.waited => n.pc \notin Consuming
       /\ n.final \/ n.pc \notin Consuming => n.mq = << >>
       /\ n.pc # "batch" => n.batch = << >>

\* A step of a consumer keeps the invariant if Quit and its books are kept.
LEMMA Consumes ==
  ASSUME IndexInv, NEW r \in Request, NEW n, Becomes(r, n), Consume(r, n),
         UNCHANGED <<w, stops>>,
         seen' \in [Request -> [sent : SUBSET Obj, gone : SUBSET Obj]],
         quit' \in {quit, None},
         \A x \in Request \ {r} : x = quit <=> x = quit',
         n.pc \in Working <=> r = quit',
         \A x \in Request \ stops : Accounted(x)',
         ~progress' => \E x \in Request : Pending(x)'
  PROVE  IndexInv'
<1>1. /\ c' \in [Request -> Consumers] /\ c'[r] = n
      /\ \A x \in Request \ {r} : c'[x] = c[x]
  BY DEF IndexInv, Types, Becomes, Consume
<1>2. Types'
  BY <1>1 DEF IndexInv, Types
<1>3. QuitOwned'
  BY <1>1 DEF IndexInv, QuitOwned
<1>4. ASSUME NEW x \in Request \ stops PROVE InStep(x)'
  <2>1. InStep(x)
    BY DEF IndexInv, Unstopped
  <2>2. CASE x = r
    BY <1>1, <2>1, <2>2 DEF InStep, Becomes
  <2>3. CASE x # r
    BY <1>1, <2>1, <2>3 DEF InStep
  <2> QED BY <2>2, <2>3
<1>5. Unstopped'
  BY <1>4 DEF Unstopped
<1>6. Reports'
  BY DEF IndexInv, Reports, At, Counts
<1> QED BY <1>2, <1>3, <1>5, <1>6 DEF IndexInv

\* A consumer that is at work, or goes on after it, takes nothing from the others'
\* reports.
LEMMA StillReports ==
  ASSUME IndexInv, NEW r \in Request, NEW n, Consume(r, n), UNCHANGED <<w, progress, stops>>,
         c[r].pc \in Consuming => n.pc \in Consuming
  PROVE  ~progress' => \E x \in Request : Pending(x)'
<1>1. c'[r] = n /\ \A x \in Request \ {r} : c'[x] = c[x]
  BY DEF IndexInv, Types, Consume
<1> SUFFICES ASSUME ~progress' PROVE \E x \in Request : Pending(x)'
  OBVIOUS
<1>2. PICK x \in Request : Pending(x)
  BY DEF IndexInv, Reports
<1>3. Pending(x)'
  BY <1>1, <1>2 DEF Pending, Counts
<1> QED BY <1>3

\* The books of the others.
LEMMA OtherBooks ==
  ASSUME IndexInv, NEW r \in Request, NEW n, Consume(r, n), UNCHANGED stops,
         index \subseteq index', \A x \in Request \ {r} : seen'[x] = seen[x],
         r \notin stops =>
           seen'[r].sent \subseteq index' \cup seen'[r].gone \cup ToSet(n.mq) \cup ToSet(n.batch)
  PROVE  \A x \in Request \ stops : Accounted(x)'
<1>1. c'[r] = n /\ \A x \in Request \ {r} : c'[x] = c[x]
  BY DEF IndexInv, Types, Consume
<1> SUFFICES ASSUME NEW x \in Request \ stops PROVE Accounted(x)'
  OBVIOUS
<1>2. Accounted(x)
  BY DEF IndexInv, Unstopped
<1> QED BY <1>1, <1>2 DEF Accounted

\* The queue becomes the batch; the token is the sign that it is the last one.
LEMMA TakeKeeps ==
  ASSUME IndexInv, NEW r \in Request, Tick(r) \/ ReceiveQuit(r) PROVE IndexInv'
<1> DEFINE tick == Take(r)
           last == [Take(r) EXCEPT !.token = FALSE, !.final = TRUE]
<1>1. /\ c[r] \in Consumers /\ c[r].pc = "loop"
      /\ UNCHANGED <<index, progress, quit, w, seen, stops>>
      /\ seen' \in [Request -> [sent : SUBSET Obj, gone : SUBSET Obj]]
  BY DEF IndexInv, Types, Tick, ReceiveQuit
<1>2. PICK n \in {tick, last} : Consume(r, n) /\ (n = tick \/ c[r].token)
  BY DEF Tick, ReceiveQuit
<1>3. /\ tick \in Consumers /\ tick.pc = "batch" /\ tick.mq = << >> /\ tick.batch = c[r].mq
      /\ tick.final = c[r].final /\ tick.token = c[r].token /\ tick.running = c[r].running
      /\ tick.waited = c[r].waited
  BY <1>1, Emptied DEF Take, Consumers, ConsumerAt
<1> HIDE DEF tick
<1>4. /\ last \in Consumers /\ last.pc = "batch" /\ last.mq = << >> /\ last.batch = c[r].mq
      /\ last.running = c[r].running /\ last.waited = c[r].waited
  BY <1>3 DEF tick, Consumers, ConsumerAt
<1> HIDE DEF last
<1>5. Becomes(r, n)
  BY <1>1, <1>2, <1>3, <1>4 DEF Becomes, IndexInv, Unstopped, InStep, Consuming
<1>6. n.pc = "batch" /\ n.mq = << >> /\ n.batch = c[r].mq
  BY <1>2, <1>3, <1>4
<1>7. r \notin stops =>
        seen'[r].sent \subseteq index' \cup seen'[r].gone \cup ToSet(n.mq) \cup ToSet(n.batch)
  BY <1>1, <1>6, Emptied DEF IndexInv, Unstopped, InStep, Accounted
<1>8. \A x \in Request \ stops : Accounted(x)'
  BY <1>1, <1>2, <1>7, OtherBooks
<1>9. ~progress' => \E x \in Request : Pending(x)'
  BY <1>1, <1>2, <1>6, StillReports DEF Consuming
<1>10. n.pc \in Working <=> r = quit'
  BY <1>1, <1>6 DEF IndexInv, QuitOwned, Working
<1> QED BY <1>1, <1>2, <1>5, <1>8, <1>9, <1>10, Consumes

\* The batch is in the index, or is written down as lost.
LEMMA BatchKeeps ==
  ASSUME IndexInv, NEW r \in Request, NEW ok \in BOOLEAN, Batch(r, ok) PROVE IndexInv'
<1> DEFINE e == IF ok THEN None ELSE "batch"
           n == [c[r] EXCEPT !.pc = "report", !.batch = << >>, !.err = e]
           lost == ToSet(c[r].batch)
<1>1. /\ c[r] \in Consumers /\ c[r].pc = "batch" /\ Consume(r, n)
      /\ UNCHANGED <<progress, quit, w, stops>>
      /\ index' = IF ok THEN index \cup lost ELSE index
      /\ seen' = IF ok THEN seen ELSE [seen EXCEPT ![r].gone = @ \cup lost]
  BY DEF IndexInv, Types, Batch
<1>2. lost \subseteq Obj /\ e \in {None, "walk", "batch"}
  BY <1>1, Queued DEF Consumers
<1> HIDE DEF e
<1>3. /\ n \in Consumers /\ n.pc = "report" /\ n.mq = c[r].mq /\ n.batch = << >>
      /\ n.final = c[r].final /\ n.token = c[r].token /\ n.running = c[r].running
      /\ n.waited = c[r].waited
  BY <1>1, <1>2, Emptied DEF Consumers, ConsumerAt
<1> HIDE DEF n
<1>4. Becomes(r, n)
  BY <1>1, <1>3 DEF Becomes, IndexInv, Unstopped, InStep, Consuming
<1>5. seen \in [Request -> [sent : SUBSET Obj, gone : SUBSET Obj]]
  BY DEF IndexInv, Types
<1>6. /\ seen' \in [Request -> [sent : SUBSET Obj, gone : SUBSET Obj]]
      /\ \A x \in Request \ {r} : seen'[x] = seen[x]
      /\ seen'[r].sent = seen[r].sent
      /\ seen'[r].gone = IF ok THEN seen[r].gone ELSE seen[r].gone \cup lost
  BY <1>1, <1>2, <1>5
<1>7. r \notin stops =>
        seen'[r].sent \subseteq index' \cup seen'[r].gone \cup ToSet(n.mq) \cup ToSet(n.batch)
  BY <1>1, <1>3, <1>6, Emptied DEF IndexInv, Unstopped, Accounted
<1>8. index \subseteq index'
  BY <1>1
<1> HIDE DEF lost
<1>9. \A x \in Request \ stops : Accounted(x)'
  BY <1>1, <1>6, <1>7, <1>8, OtherBooks
<1>10. ~progress' => \E x \in Request : Pending(x)'
  BY <1>1, <1>3, StillReports DEF Consuming
<1>11. n.pc \in Working <=> r = quit'
  BY <1>1, <1>3 DEF IndexInv, QuitOwned, Working
<1> QED BY <1>1, <1>4, <1>6, <1>9, <1>10, <1>11, Consumes

\* A build of the whole tree that reports less than its end is still at work.
LEMMA ReportKeeps ==
  ASSUME IndexInv, NEW r \in Request, Report(r) PROVE IndexInv'
<1> DEFINE pc == IF c[r].final THEN "leave" ELSE "loop"
           n == [c[r] EXCEPT !.pc = pc]
<1>1. /\ c[r] \in Consumers /\ c[r].pc = "report" /\ Consume(r, n)
      /\ UNCHANGED <<index, quit, w, seen, stops>>
      /\ progress' = IF Counts(r) THEN c[r].final ELSE progress
      /\ seen' \in [Request -> [sent : SUBSET Obj, gone : SUBSET Obj]]
  BY DEF IndexInv, Types, Report, Reported
<1>2. pc \in ConsumerAt /\ pc \in Working /\ (~c[r].final => pc = "loop")
      /\ (pc \in Consuming => ~c[r].final)
  BY DEF ConsumerAt, Working, Consuming
<1> HIDE DEF pc
<1>3. /\ n \in Consumers /\ n.pc = pc /\ n.mq = c[r].mq /\ n.batch = c[r].batch
      /\ n.final = c[r].final /\ n.token = c[r].token /\ n.running = c[r].running
      /\ n.waited = c[r].waited
  BY <1>1, <1>2 DEF Consumers
<1> HIDE DEF n
<1>4. Becomes(r, n)
  BY <1>1, <1>2, <1>3 DEF Becomes, IndexInv, Unstopped, InStep, Consuming
<1>5. r \notin stops =>
        seen'[r].sent \subseteq index' \cup seen'[r].gone \cup ToSet(n.mq) \cup ToSet(n.batch)
  BY <1>1, <1>3 DEF IndexInv, Unstopped, Accounted
<1>6. \A x \in Request \ stops : Accounted(x)'
  BY <1>1, <1>5, OtherBooks
<1>7. c'[r] = n /\ \A x \in Request \ {r} : c'[x] = c[x]
  BY <1>1 DEF Consume, IndexInv, Types
<1>8. ~progress' => \E x \in Request : Pending(x)'
  <2>1. CASE Counts(r)
    BY <1>1, <1>2, <1>3, <1>7, <2>1 DEF Pending, Counts, Consuming
  <2>2. CASE ~Counts(r)
    <3> SUFFICES ASSUME ~progress' PROVE \E x \in Request : Pending(x)'
      OBVIOUS
    <3>1. PICK x \in Request : Pending(x)
      BY <1>1, <2>2 DEF IndexInv, Reports
    <3>2. Pending(x)'
      BY <1>1, <1>7, <2>2, <3>1 DEF Pending, Counts
    <3> QED BY <3>2
  <2> QED BY <2>1, <2>2
<1>9. n.pc \in Working <=> r = quit'
  BY <1>1, <1>2, <1>3 DEF IndexInv, QuitOwned, Working
<1> QED BY <1>1, <1>4, <1>6, <1>8, <1>9, Consumes

\* The consumer goes: it has reported, and it was its own Quit that it clears.
LEMMA LeaveKeeps ==
  ASSUME IndexInv, NEW r \in Request, Leave(r) \/ WgDone(r) \/ Flag(r) PROVE IndexInv'
<1> DEFINE left == [c[r] EXCEPT !.pc = "done"]
           waited == [c[r] EXCEPT !.pc = "flag", !.waited = TRUE]
           e == c[r].err
           dead == [NoConsumer EXCEPT !.pc = "dead", !.waited = TRUE, !.err = e]
<1>1. /\ c[r] \in Consumers /\ UNCHANGED <<index, progress, w, seen, stops>>
      /\ seen' \in [Request -> [sent : SUBSET Obj, gone : SUBSET Obj]]
  BY DEF IndexInv, Types, Leave, WgDone, Flag
<1>2. PICK n \in {left, waited, dead} :
        /\ Consume(r, n) /\ c[r].pc \in {"leave", "done", "flag"}
        /\ quit' = IF c[r].pc = "leave" THEN None ELSE quit
  BY DEF Leave, WgDone, Flag
<1>3. e \in {None, "walk", "batch"}
  BY <1>1 DEF Consumers
<1> HIDE DEF e
<1>4. /\ left \in Consumers /\ left.pc = "done" /\ left.mq = c[r].mq /\ left.batch = c[r].batch
      /\ waited \in Consumers /\ waited.pc = "flag" /\ waited.mq = c[r].mq
      /\ waited.batch = c[r].batch
      /\ dead \in Consumers /\ dead.pc = "dead" /\ dead.mq = << >> /\ dead.batch = << >>
  BY <1>1, <1>3, Emptied DEF Consumers, ConsumerAt, NoConsumer
<1> HIDE DEF left, waited, dead
<1>5. n \in Consumers /\ n.pc \in {"done", "flag", "dead"}
      /\ (r \notin stops => n.mq = << >> /\ n.batch = << >>)
  BY <1>2, <1>4 DEF IndexInv, Unstopped, InStep, Consuming
<1>6. Becomes(r, n)
  BY <1>2, <1>5 DEF Becomes, IndexInv, Unstopped, InStep, Consuming
<1>7. r \notin stops =>
        seen'[r].sent \subseteq index' \cup seen'[r].gone \cup ToSet(n.mq) \cup ToSet(n.batch)
  BY <1>1, <1>2, <1>5, Emptied DEF IndexInv, Unstopped, InStep, Accounted, Consuming
<1>8. \A x \in Request \ stops : Accounted(x)'
  BY <1>1, <1>2, <1>7, OtherBooks
<1>9. ~progress' => \E x \in Request : Pending(x)'
  BY <1>1, <1>2, StillReports DEF Consuming
<1>10. quit' \in {quit, None} /\ (n.pc \in Working <=> r = quit')
       /\ \A x \in Request \ {r} : x = quit <=> x = quit'
  BY <1>2, <1>5, NoneAssumption DEF IndexInv, QuitOwned, Working
<1> QED BY <1>1, <1>2, <1>6, <1>8, <1>9, <1>10, Consumes

-----------------------------------------------------------------------------
(* Death and restart, and the theorems.                                    *)

\* Who is not in a build has nothing to account for.
DeadWalk == [NoWalk EXCEPT !.pc = "end"]
\* And is nowhere.
LEMMA QuietFacts ==
  /\ IsWalk(NoWalk) /\ NoWalk.pc = "idle" /\ NoWalk.kind # "build"
  /\ IsWalk(DeadWalk) /\ DeadWalk.pc = "end" /\ DeadWalk.kind # "build"
  /\ NoConsumer \in Consumers /\ NoConsumer.pc = "none" /\ ~NoConsumer.final
  /\ NoConsumer.mq = << >> /\ NoConsumer.batch = << >> /\ ~NoConsumer.waited
  /\ Nothing \in [sent : SUBSET Obj, gone : SUBSET Obj] /\ Nothing.sent = {}
BY Asked, Emptied, NoneAssumption
   DEF NoWalk, DeadWalk, IsWalk, WalkFields, NoConsumer, Consumers, ConsumerAt, Nothing

\* At first.
LEMMA InitialGood == Init => IndexInv
<1> SUFFICES ASSUME Init PROVE IndexInv
  OBVIOUS
<1>1. /\ quit = None /\ progress /\ stops = {}
      /\ \A r \in Request : w[r] = NoWalk /\ c[r] = NoConsumer /\ seen[r] = Nothing
      /\ w = [r \in Request |-> w[r]] /\ c = [r \in Request |-> NoConsumer]
      /\ seen = [r \in Request |-> Nothing]
  BY DEF Init
<1> HIDE DEF Init
<1>2. Types
  BY <1>1, QuietFacts DEF Types
<1>3. QuitOwned
  BY <1>1, QuietFacts, NoneAssumption DEF QuitOwned, Working
<1>4. Unstopped
  BY <1>1, QuietFacts DEF Unstopped, InStep, Accounted, Building, Consuming
<1>5. Reports
  BY <1>1, QuietFacts DEF Reports, Counts
<1> QED BY <1>2, <1>3, <1>4, <1>5 DEF IndexInv

\* And after the program has died: the progress is done although a build was not.
LEMMA RestartGood == ASSUME Restarted PROVE IndexInv'
<1>1. /\ quit' = None /\ progress' /\ stops' = {}
      /\ \A r \in Request : w'[r] \in {NoWalk, DeadWalk} /\ c'[r] = NoConsumer /\ seen'[r] = Nothing
      /\ w' = [r \in Request |-> w'[r]] /\ c' = [r \in Request |-> NoConsumer]
      /\ seen' = [r \in Request |-> Nothing]
  BY DEF Restarted, DeadWalk
<1>2. Types'
  BY <1>1, QuietFacts DEF Types
<1>3. QuitOwned'
  BY <1>1, QuietFacts, NoneAssumption DEF QuitOwned, Working
<1>4. Unstopped'
  BY <1>1, QuietFacts DEF Unstopped, InStep, Accounted, Building, Consuming
<1>5. Reports'
  BY <1>1, QuietFacts DEF Reports, Counts
<1> QED BY <1>2, <1>3, <1>4, <1>5 DEF IndexInv

\* The invariant is inductive.
LEMMA Inductive == Spec => []IndexInv
<1>1. ASSUME IndexInv, [Next]_vars PROVE IndexInv'
  <2>1. CASE Crash
    BY <2>1, RestartGood DEF Crash
  <2>2. ASSUME NEW r \in Request, Panic(r) PROVE IndexInv'
    BY <2>2, RestartGood DEF Panic
  <2>3. ASSUME NEW r \in Request, NEW kind \in Kinds, Ask(r, kind) PROVE IndexInv'
    BY <1>1, <2>3, AskKeeps
  <2>4. ASSUME NEW r \in Request, Walker(r) PROVE IndexInv'
    BY <1>1, <2>2, <2>4, WalkerKeeps
  <2>5. ASSUME NEW r \in Request, Consumer(r) \/ Tick(r) \/ ReceiveQuit(r) PROVE IndexInv'
    <3>1. ASSUME NEW ok \in BOOLEAN, Batch(r, ok) PROVE IndexInv'
      BY <1>1, <3>1, BatchKeeps
    <3> QED BY <1>1, <2>5, <3>1, ReportKeeps, LeaveKeeps, TakeKeeps DEF Consumer
  <2>6. CASE UNCHANGED vars
    <3>1. UNCHANGED <<index, progress, quit, w, c, seen, stops>>
      BY <2>6 DEF vars
    <3>2. Types' /\ QuitOwned'
      BY <1>1, <3>1 DEF IndexInv, Types, QuitOwned
    <3>3. Unstopped'
      BY <1>1, <3>1 DEF IndexInv, Unstopped, InStep, Accounted
    <3>4. Reports'
      BY <1>1, <3>1 DEF IndexInv, Reports, Pending, Counts, At
    <3> QED BY <3>2, <3>3, <3>4 DEF IndexInv
  <2> QED BY <1>1, <2>1, <2>3, <2>4, <2>5, <2>6 DEF Next
<1> QED BY <1>1, InitialGood, PTL DEF Spec

\* build.go: a consumer is at work exactly while Quit is its own, so two builds never
\* run at a time, however requests, stops and failures fall.
THEOREM OneBuild == Spec => []QuitOwned
<1>1. IndexInv => QuitOwned
  BY DEF IndexInv
<1> QED BY <1>1, Inductive, PTL

\* build.go: when a build that nobody stopped returns, its queue and its batch are empty
\* and what it met is in the index, or was lost by a failing batch or another request.
THEOREM BuildsIndex == Spec => []ReturnsIndexed
<1>1. IndexInv => ReturnsIndexed
  BY Emptied DEF IndexInv, Unstopped, InStep, Accounted, ReturnsIndexed, At, Consuming
<1> QED BY <1>1, Inductive, PTL

\* build.go: after the builds of the whole tree, if none was stopped, the progress is
\* done: the last report of each is its last word.
THEOREM ProgressDone == Spec => []ProgressSettled
<1>1. IndexInv => ProgressSettled
  BY DEF IndexInv, Unstopped, InStep, Reports, Pending, ProgressSettled, Building
<1> QED BY <1>1, Inductive, PTL
=============================================================================

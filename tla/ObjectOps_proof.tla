---------------------------- MODULE ObjectOps_proof ----------------------------
(***************************************************************************)
(* Proofs about ObjectOps, for any number of clients and operations, any   *)
(* driver and any mixture of lazy callers: listings and MakeDirs are       *)
(* shared, an upload never loses the file it replaces, and the edits made  *)
(* by hand keep a cached listing equal to the driver's.                    *)
(***************************************************************************)
EXTENDS ObjectOps, TLAPS

SFP == INSTANCE SingleFlight_proof
         WITH Caller <- Client, Key <- Dir, Value <- Listing \cup {None}

-----------------------------------------------------------------------------
(* The shape of an operation.                                               *)

Steps == {"idle", "enter", "join", "find", "fill", "call", "edit", "apply"}
Acts == {"clear", "del", "upd", "add"}
EditRec == [act : Acts, dir : Dir, name : Name, as : Name, new : Obj]
OpRec == [step : Steps, kind : Changing \cup {"list", "get"}, dir : Dir, name : Name,
          to : Dir, as : Name, lazy : BOOLEAN, refresh : BOOLEAN,
          need : Seq(Dir \X Name), parent : {"no", "look", "ok"},
          obj : Obj, ok : BOOLEAN, edits : Seq(EditRec), base : Listing \cup {None},
          put : Stages \cup {None}, new : Upload \cup {None}, had : BOOLEAN]

\* What an operation of a client's own asks for.
Own(o) ==
  \/ o.kind = "list"
  \/ o.kind = "mkdir" /\ o.dir = "root" /\ o.name = "d"
  \/ o.kind = "remove" /\ <<o.dir, o.name>> \in {<<"root", "d">>, <<"d", "f">>}
  \/ o.kind = "rename" /\ o.dir = "root" /\ o.name = "d" /\ o.as = "e"
  \/ o.kind = "move" /\ o.dir = "d" /\ o.name = "f" /\ o.to = "root"
  \/ o.kind = "copy" /\ o.dir = "root" /\ o.name = "f" /\ o.to = "d"

\* What an operation that Put calls asks for, at each stage.
Staged(o) ==
  \/ o.put = "check" /\ o.kind = "get" /\ ~o.had
  \/ o.put = "empty" /\ o.kind = "remove" /\ o.dir = "d" /\ o.name = "f" /\ ~o.had
  \/ o.put = "aside" /\ o.kind = "rename" /\ o.dir = "d" /\ o.name = "f" /\ o.as = "temp" /\ o.had
  \/ o.put = "mkdir" /\ o.kind = "mkdir" /\ o.dir = "root" /\ o.name = "d"
  \/ o.put = "parent" /\ o.kind = "get"
  \/ o.put = "send" /\ o.kind = "put" /\ o.dir = "d" /\ o.name = "f"
  \/ o.put = "clean" /\ o.kind = "remove" /\ o.dir = "d" /\ o.name = "temp" /\ o.had
  \/ o.put = "recover" /\ o.kind = "rename" /\ o.dir = "d" /\ o.name = "temp" /\ o.as = "f" /\ o.had

Asked(o) ==
  IF o.put = None THEN Own(o) /\ ~o.had /\ o.new = None
  ELSE Staged(o) /\ o.new \in Upload \ {0, 1}

\* What an operation has in its hands at each step.
Phase(o) ==
  /\ o.step = "idle" => o.kind = "list"
  /\ o.step \in {"enter", "join"} => o.kind = "mkdir"
  /\ o.step \in {"enter", "join", "find", "fill"} => o.need # << >>
  /\ o.step \in {"call", "edit", "apply"} => o.kind \in Changing
  /\ o.step \in {"edit", "apply"} <=> o.edits # << >>
  /\ o.step \notin {"fill", "apply"} => o.base = None

Fit(o) == o \in OpRec /\ Asked(o) /\ Phase(o)

Types ==
  /\ tree \in [Dir -> Listing]
  /\ cache \in [Dir -> Listing \cup {None}]
  /\ op \in [Client -> OpRec] /\ \A c \in Client : Fit(op[c])
  /\ ops \in 0 .. MaxOps /\ excused \subseteq Dir /\ touched \in BOOLEAN
  /\ val \in [Client -> Listing \cup {None}]

-----------------------------------------------------------------------------
(* Who is in listG and mkdirG.                                              *)

Roles ==
  \A c \in Client :
    /\ op[c].step = "fill" => role[c] = "run"
    /\ role[c] # "out" => op[c].step \in {"find", "fill"}

Joined == (\E c \in Client : Is(c, "join")) => Making # {}

LinkInv == SFP!FlightInv /\ Roles /\ Joined

-----------------------------------------------------------------------------
(* The file an upload replaces.                                             *)

\* The upload has set the file aside, and not yet put it back or let it go.
Owns(o) ==
  /\ o.put # None /\ o.had
  /\ IF o.step \in {"edit", "apply"} THEN o.put \notin {"clean", "recover"}
     ELSE o.put # "aside"

Content(x) == tree["d"][x] \in Upload \ {0}

\* No empty file is in the listing, or in an operation's hands.
NoZero(l) == l # None => \A x \in Name : l[x] # 0
Sees(o) ==
  /\ NoZero(o.base) /\ o.obj # 0 /\ o.put # "empty"
  /\ \A i \in 1 .. Len(o.edits) : o.edits[i].new # 0

\* Nobody has seen an empty file.
NoneEmpty ==
  /\ \A d \in Dir : NoZero(tree[d]) /\ NoZero(cache[d])
  /\ \A c \in Client : NoZero(val[c]) /\ Sees(op[c])

\* Nobody asked to take a file away.
Peaceful ==
  /\ tree["root"]["d"] = Folder /\ tree["root"]["f"] = None
  /\ tree["d"]["f"] # Folder /\ tree["d"]["temp"] # Folder
  /\ \A c \in Client : op[c].put = None => op[c].kind \in {"list", "mkdir", "copy"}

\* The new content is there before the old one is let go.
Safe(o) ==
  Owns(o) /\ (o.put = "clean" \/ (o.put = "send" /\ o.step \in {"edit", "apply"})) => Content("f")

\* The file, or what was set aside of it, is there; one upload at a time owns the
\* temporary name.
Owned ==
  /\ Content("f") \/ Content("temp")
  /\ \A b, c \in Client : Owns(op[b]) /\ Owns(op[c]) => b = c
  /\ \A c \in Client : (Owns(op[c]) => Content("temp")) /\ Safe(op[c])

KeepInv == ~touched => NoneEmpty /\ Peaceful /\ Owned

-----------------------------------------------------------------------------
(* The cached listings.                                                     *)

\* The content of an upload that has not been sent yet.
Unsent(o) ==
  /\ o.put \notin {None, "clean", "recover"}
  /\ ~(o.put = "send" /\ o.step \in {"edit", "apply"})

\* Contents are new, each upload has its own, and it is nowhere before it is sent.
Unique ==
  /\ \A k \in Upload : k > ops + 1 =>
       /\ \A d \in Dir, x \in Name : tree[d][x] # k
       /\ \A c \in Client : op[c].new # k
  /\ \A b, c \in Client : b # c /\ op[b].new # None => op[b].new # op[c].new
  /\ \A c \in Client : Unsent(op[c]) => \A d \in Dir, x \in Name : tree[d][x] # op[c].new

\* A listing with the edit made.
Ed(e, l) ==
  CASE e.act = "del" -> [l EXCEPT ![e.name] = None]
    [] e.act = "upd" -> [l EXCEPT ![e.as] = IF l[e.name] = None THEN None ELSE e.new,
                                  ![e.name] = None]
    [] e.act = "add" -> [l EXCEPT ![e.name] = e.new]

Fills(c, d) == op[c].step = "fill" /\ key[c] = d
Owes(c, d) == \E i \in 1 .. Len(op[c].edits) : op[c].edits[i].dir = d
Makes(c, d) ==
  \E i \in 1 .. Len(op[c].edits) : op[c].edits[i].dir = d /\ op[c].edits[i].act # "clear"

\* Unless somebody still has a word on it, the cached listing is the driver's.
Quiet(d) ==
  (\A c \in Client : ~Owes(c, d) /\ ~(Fills(c, d) /\ op[c].base # None))
    => cache[d] \in {None, tree[d]}

\* A listing on its way to the cache is the driver's.
OnItsWay(d) ==
  \A c \in Client : Fills(c, d) => op[c].base \in {None, tree[d]}

\* An edit will make the cached listing the driver's; once it has the listing in its
\* hands, nobody else brings in another.
EditRight(o, i, d) ==
  IF o.step = "apply" /\ i = 1
  THEN IF o.base = None THEN cache[d] = None ELSE Ed(o.edits[i], o.base) = tree[d]
  ELSE cache[d] = None \/ Ed(o.edits[i], cache[d]) = tree[d]
EditsRight(d) ==
  \A c \in Client : \A i \in 1 .. Len(op[c].edits) :
    op[c].edits[i].dir = d /\ op[c].edits[i].act # "clear" => EditRight(op[c], i, d)

\* One client at a time, but for those who only drop the listing.
Solo(d) ==
  \A b, c \in Client :
    b # c /\ (Fills(b, d) \/ Makes(b, d)) => ~Fills(c, d) /\ ~Makes(c, d)

\* An operation edits a directory once.
Apart ==
  \A c \in Client : \A i, j \in 1 .. Len(op[c].edits) :
    op[c].edits[i].dir = op[c].edits[j].dir => i = j

UpToDate(d) == Quiet(d) /\ OnItsWay(d) /\ EditsRight(d) /\ Solo(d)

FreshInv == Unique /\ Apart /\ \A d \in Dir \ excused : UpToDate(d)

-----------------------------------------------------------------------------
(* Single operations.                                                       *)

\* The sets the models are made of.
LEMMA Sets ==
  /\ Upload \subseteq Nat /\ 0 \in Upload /\ 1 \in Upload /\ MaxOps \in Nat
  /\ None \notin Upload /\ Folder \notin Upload /\ None # Folder
  /\ None \notin Stages /\ None \notin Listing /\ None \notin Client
  /\ Empty \in Listing /\ None \in Obj /\ Folder \in Obj /\ Upload \subseteq Obj
  <1>1. MaxOps \in Nat /\ Upload \subseteq Nat /\ 0 \in Upload /\ 1 \in Upload
    BY BoundAssumption DEF Upload
  <1>2. /\ None \notin Upload /\ Folder \notin Upload /\ None # Folder
        /\ None \notin Listing /\ None \notin Client /\ None \notin Stages
    BY NoneAssumption
  <1>4. None \in Obj /\ Folder \in Obj /\ Upload \subseteq Obj
    BY DEF Obj
  <1>5. Empty \in Listing
    BY <1>4 DEF Empty, Listing
  <1>6. QED
    BY <1>1, <1>2, <1>4, <1>5

\* The fields of an operation that begins.
LEMMA StartFields ==
  ASSUME NEW kind, NEW d, NEW x
  PROVE  LET s == Start(kind, d, x) IN
         /\ s.step = IF kind = "mkdir" THEN "enter" ELSE "find"
         /\ s.kind = kind /\ s.dir = d /\ s.name = x /\ s.to = "root" /\ s.as = "f"
         /\ s.lazy = FALSE /\ s.refresh = FALSE /\ s.need = <<<<d, x>>>> /\ s.parent = "no"
         /\ s.obj = None /\ s.ok = TRUE /\ s.edits = << >> /\ s.base = None
         /\ s.put = None /\ s.new = None /\ s.had = FALSE
  BY DEF Start, Idle

\* An idle client.
LEMMA IdleFit ==
  /\ Fit(Idle) /\ Idle.step = "idle" /\ Idle.edits = << >> /\ Idle.base = None
  /\ Idle.put = None /\ Idle.kind = "list" /\ Idle.obj = None /\ ~Idle.had /\ Idle.new = None
  <1>1. Idle \in OpRec
    BY Sets DEF Idle, OpRec, Steps, Dir, Name, Changing
  <1>2. QED
    BY <1>1 DEF Idle, Fit, Asked, Own, Phase

\* An operation that begins is one.
LEMMA StartFit ==
  ASSUME NEW kind \in Changing \cup {"list", "get"}, NEW d \in Dir, NEW x \in Name
  PROVE  Start(kind, d, x) \in OpRec
  <1>1. <<<<d, x>>>> \in Seq(Dir \X Name)
    OBVIOUS
  <1> DEFINE s == IF kind = "mkdir" THEN "enter" ELSE "find"
             v == <<<<d, x>>>>
  <1>2. s \in Steps /\ v \in Seq(Dir \X Name)
    BY <1>1 DEF Steps
  <1>3. Start(kind, d, x) = [Idle EXCEPT !.kind = kind, !.dir = d, !.name = x, !.need = v, !.step = s]
    BY DEF Start
  <1>4. Idle \in OpRec
    BY IdleFit DEF Fit
  <1> HIDE DEF s, v
  <1>5. QED
    BY <1>2, <1>3, <1>4, ZenonT(60) DEF OpRec

\* The fields of the next call of an upload.
LEMMA StageFields ==
  ASSUME NEW o, NEW stage, NEW kind, NEW x
  PROVE  LET s == Stage(o, stage, kind, x) IN
         /\ s.step = IF kind = "mkdir" THEN "enter" ELSE "find"
         /\ s.kind = kind /\ s.dir = "d" /\ s.name = x /\ s.to = "root" /\ s.as = "f"
         /\ s.lazy = o.lazy /\ s.refresh = FALSE /\ s.need = <<<<"d", x>>>> /\ s.parent = "no"
         /\ s.obj = None /\ s.ok = TRUE /\ s.edits = << >> /\ s.base = None
         /\ s.put = stage /\ s.new = o.new /\ s.had = o.had
  BY DEF Stage, Start, Idle

\* It is an operation.
LEMMA StageFit ==
  ASSUME NEW o \in OpRec, NEW stage \in Stages, NEW kind \in Changing \cup {"list", "get"},
         NEW x \in Name
  PROVE  Stage(o, stage, kind, x) \in OpRec
  <1>1. Start(kind, "d", x) \in OpRec
    BY StartFit DEF Dir
  <1>2. QED
    BY <1>1 DEF OpRec, Stage

\* What an operation of Put's is after another one (a) that ended: what it asks for
\* and where it stands in the upload.
Follows(o, ok, a) ==
  /\ Fit(a)
  /\ a.step \in {"idle", "find", "enter", "call"} /\ a.edits = << >> /\ a.base = None
  /\ a.obj \in {None, Folder}
  /\ a.put = None => a.kind = "list"
  /\ a.put # None => o.put # None /\ a.new = o.new
  /\ a.put = "empty" => o.put = "check" /\ o.obj = 0
  /\ a.put \notin {None, "empty", "aside"} => (a.had => o.had /\ o.put # "check")
  /\ a.put = "send" => o.put = "parent"
  /\ a.put \in {"clean", "recover"} => o.put = "send" /\ (a.put = "clean" <=> ok)
  /\ o.put = "aside" /\ a.put # None => ok
  /\ o.put \in {"send", "clean", "recover"} => a.put \in {None, "clean", "recover"}
  /\ a.put # "check"

\* Nothing follows.
LEMMA NothingFollows ==
  ASSUME NEW o, NEW ok PROVE Follows(o, ok, Idle)
  BY IdleFit, Sets DEF Follows, Stages

\* The parent is made or looked up next.
LEMMA RootFits ==
  ASSUME NEW o \in OpRec, Asked(o), o.put # None,
         NEW stage \in {"mkdir", "parent"}, NEW kind, kind = IF stage = "mkdir" THEN "mkdir" ELSE "get"
  PROVE  LET a == FindRoot(o, stage, kind) IN
         /\ Fit(a) /\ a.step \in {"enter", "find"} /\ a.edits = << >> /\ a.base = None
         /\ a.obj = None /\ a.put = stage /\ a.new = o.new /\ a.had = o.had
  <1> DEFINE s == Stage(o, stage, kind, "d")
             a == FindRoot(o, stage, kind)
             v == <<<<"root", "d">>>>
  <1>1. stage \in Stages /\ kind \in Changing \cup {"list", "get"} /\ "d" \in Name /\ "root" \in Dir
    BY DEF Stages, Changing, Name, Dir
  <1>2. s \in OpRec
    BY <1>1, StageFit
  <1>3. v \in Seq(Dir \X Name) /\ v # << >>
    BY <1>1
  <1>4. a = [s EXCEPT !.dir = "root", !.need = v]
    BY DEF FindRoot
  <1>5. /\ s.step = IF kind = "mkdir" THEN "enter" ELSE "find"
        /\ s.kind = kind /\ s.name = "d" /\ s.obj = None /\ s.edits = << >> /\ s.base = None
        /\ s.put = stage /\ s.new = o.new /\ s.had = o.had
    BY DEF Stage, Start, Idle
  <1> HIDE DEF s, v, a
  <1>6. a \in OpRec
    BY <1>1, <1>2, <1>3, <1>4 DEF OpRec
  <1>7. /\ a.step = s.step /\ a.kind = kind /\ a.dir = "root" /\ a.name = "d" /\ a.obj = None
        /\ a.edits = << >> /\ a.base = None /\ a.put = stage /\ a.new = o.new /\ a.had = o.had
        /\ a.need = v
    BY <1>2, <1>4, <1>5 DEF OpRec
  <1>8. Asked(a)
    BY <1>1, <1>7, Sets DEF Asked, Staged, Fit
  <1>9. Phase(a)
    BY <1>3, <1>5, <1>7 DEF Phase
  <1>10. QED
    BY <1>5, <1>6, <1>7, <1>8, <1>9 DEF Fit, a

\* A call of the upload about the file follows.
LEMMA FileFits ==
  ASSUME NEW o, Asked(o), o.put # None, NEW a \in OpRec,
         a.step = "find", a.need # << >>, a.edits = << >>, a.base = None, a.new = o.new,
         a.dir = "d",
         \/ a.put = "empty" /\ a.kind = "remove" /\ a.name = "f" /\ ~a.had
         \/ a.put = "aside" /\ a.kind = "rename" /\ a.name = "f" /\ a.as = "temp" /\ a.had
         \/ a.put = "clean" /\ a.kind = "remove" /\ a.name = "temp" /\ a.had
         \/ a.put = "recover" /\ a.kind = "rename" /\ a.name = "temp" /\ a.as = "f" /\ a.had
  PROVE  Fit(a)
  <1>1. a.put \in Stages
    BY DEF Stages
  <1>2. Asked(a)
    BY <1>1, Sets DEF Asked, Staged, Fit
  <1>3. Phase(a)
    BY DEF Phase
  <1>4. QED
    BY <1>2, <1>3 DEF Fit

\* The upload itself follows.
LEMMA SendFits ==
  ASSUME NEW o \in OpRec, Asked(o), o.put # None,
         NEW a, a = [Stage(o, "send", "put", "f") EXCEPT !.step = "call", !.need = << >>, !.obj = Folder]
  PROVE  /\ Fit(a) /\ a.step = "call" /\ a.edits = << >> /\ a.base = None
         /\ a.obj = Folder /\ a.put = "send" /\ a.new = o.new /\ a.had = o.had
  <1> DEFINE s == Stage(o, "send", "put", "f")
  <1>1. s \in OpRec
    BY StageFit DEF Stages, Changing, Name
  <1>2. a = [s EXCEPT !.step = "call", !.need = << >>, !.obj = Folder]
    OBVIOUS
  <1>3. /\ s.kind = "put" /\ s.dir = "d" /\ s.name = "f"
        /\ s.edits = << >> /\ s.base = None /\ s.put = "send" /\ s.new = o.new /\ s.had = o.had
    BY DEF Stage, Start, Idle
  <1> HIDE DEF s
  <1>4. a \in OpRec
    <2>1. << >> \in Seq(Dir \X Name) /\ "call" \in Steps /\ Folder \in Obj
      BY Sets DEF Steps
    <2>2. QED
      BY <1>1, <1>2, <2>1, ZenonT(60) DEF OpRec
  <1>5. /\ a.step = "call" /\ a.kind = "put" /\ a.dir = "d" /\ a.name = "f" /\ a.obj = Folder
        /\ a.edits = << >> /\ a.base = None /\ a.put = "send" /\ a.new = o.new /\ a.had = o.had
    BY <1>1, <1>2, <1>3, ZenonT(60) DEF OpRec
  <1>6. Asked(a)
    BY <1>5, Sets DEF Asked, Staged, Fit, Stages
  <1>7. Phase(a)
    BY <1>5 DEF Phase, Changing
  <1>8. QED
    BY <1>4, <1>5, <1>6, <1>7 DEF Fit

\* What follows is one of these.
LEMMA AfterPutCases ==
  ASSUME NEW o, NEW ok \in BOOLEAN
  PROVE  /\ o.put = "check" /\ ~ok => AfterPut(o, ok) = MakeParent(o)
         /\ o.put = "check" /\ ok /\ RemovesFirst(o) =>
              AfterPut(o, ok) = Stage(o, "empty", "remove", "f")
         /\ o.put = "check" /\ ok /\ ~RemovesFirst(o) /\ NoOverwrite =>
              AfterPut(o, ok) = [Stage(o, "aside", "rename", "f") EXCEPT !.as = "temp", !.had = TRUE]
         /\ o.put = "check" /\ ok /\ ~RemovesFirst(o) /\ ~NoOverwrite =>
              AfterPut(o, ok) = MakeParent(o)
         /\ o.put \in {"empty", "aside"} =>
              AfterPut(o, ok) = IF ok THEN MakeParent(o) ELSE Idle
         /\ o.put = "mkdir" => AfterPut(o, ok) = IF ok THEN FindRoot(o, "parent", "get") ELSE Idle
         /\ o.put = "parent" => AfterPut(o, ok) =
              IF ok THEN [Stage(o, "send", "put", "f") EXCEPT !.step = "call", !.need = << >>, !.obj = Folder]
              ELSE Idle
         /\ o.put = "send" => AfterPut(o, ok) =
              IF ~o.had THEN Idle
              ELSE IF ok THEN Stage(o, "clean", "remove", "temp")
              ELSE [Stage(o, "recover", "rename", "temp") EXCEPT !.as = "f"]
         /\ o.put \in {"clean", "recover"} => AfterPut(o, ok) = Idle
  <1>1. CASE o.put = "check"
    BY <1>1 DEF AfterPut
  <1>2. CASE o.put \in {"empty", "aside"}
    BY <1>2 DEF AfterPut
  <1>3. CASE o.put = "mkdir"
    BY <1>3 DEF AfterPut
  <1>4. CASE o.put = "parent"
    BY <1>4 DEF AfterPut
  <1>5. CASE o.put = "send"
    BY <1>5 DEF AfterPut, Cleans
  <1>6. CASE o.put \in {"clean", "recover"}
    BY <1>6 DEF AfterPut
  <1>7. QED
    BY <1>1, <1>2, <1>3, <1>4, <1>5, <1>6

\* What Put does when one of its calls is over, and every other operation ends.
LEMMA AfterFollows ==
  ASSUME NEW o \in OpRec, Asked(o), NEW ok \in BOOLEAN
  PROVE  Follows(o, ok, After(o, ok))
  <1>0. o \in OpRec
    OBVIOUS
  <1>1. CASE o.put = None
    BY <1>1, NothingFollows DEF After
  <1> SUFFICES ASSUME o.put # None PROVE Follows(o, ok, AfterPut(o, ok))
    BY <1>1 DEF After
  <1>2. ASSUME o.put \in {"check", "empty", "aside"}, ~o.had \/ o.put # "check", o.put \in {"empty", "aside"} => ok
        PROVE  Follows(o, ok, MakeParent(o))
    <2> DEFINE a == FindRoot(o, "mkdir", "mkdir")
    <2>1. /\ Fit(a) /\ a.step \in {"enter", "find"} /\ a.edits = << >> /\ a.base = None
          /\ a.obj = None /\ a.put = "mkdir" /\ a.new = o.new /\ a.had = o.had
      BY <1>0, RootFits
    <2>2. MakeParent(o) = a
      BY DEF MakeParent
    <2> HIDE DEF a
    <2>3. QED
      BY <1>2, <2>1, <2>2, Sets DEF Follows, Stages
  <1>3. CASE o.put = "check"
    <2>0. ~o.had
      BY <1>3, Sets DEF Asked, Staged, Stages
    <2>1. CASE ok /\ RemovesFirst(o)
      <3> DEFINE a == Stage(o, "empty", "remove", "f")
      <3>1. AfterPut(o, ok) = a
        BY <1>3, <2>1, AfterPutCases
      <3>2. a \in OpRec
        BY <1>0, StageFit DEF Stages, Changing, Name
      <3>3. /\ a.step = "find" /\ a.edits = << >> /\ a.base = None /\ a.new = o.new
            /\ a.dir = "d" /\ a.put = "empty" /\ a.kind = "remove" /\ a.name = "f"
            /\ a.obj = None /\ a.need # << >>
        BY DEF Stage, Start, Idle
      <3>4. ~a.had
        BY <2>0 DEF Stage, Start, Idle
      <3> HIDE DEF a
      <3>5. Fit(a)
        BY <3>2, <3>3, <3>4, FileFits
      <3>6. Follows(o, ok, a)
        BY <1>3, <2>1, <3>3, <3>4, <3>5, Sets DEF Follows, Stages, RemovesFirst
      <3>7. QED
        BY <3>1, <3>6
    <2>2. CASE ok /\ ~RemovesFirst(o) /\ NoOverwrite
      <3> DEFINE s == Stage(o, "aside", "rename", "f")
                 a == [s EXCEPT !.as = "temp", !.had = TRUE]
      <3>1. AfterPut(o, ok) = a
        BY <1>3, <2>2, AfterPutCases
      <3>2. s \in OpRec
        BY <1>0, StageFit DEF Stages, Changing, Name
      <3>3. /\ s.step = "find" /\ s.edits = << >> /\ s.base = None /\ s.new = o.new
            /\ s.dir = "d" /\ s.put = "aside" /\ s.kind = "rename" /\ s.name = "f"
            /\ s.obj = None /\ s.need # << >>
        BY DEF Stage, Start, Idle
      <3> HIDE DEF s
      <3>4. /\ a \in OpRec
            /\ a.step = "find" /\ a.edits = << >> /\ a.base = None /\ a.new = o.new
            /\ a.dir = "d" /\ a.put = "aside" /\ a.kind = "rename" /\ a.name = "f"
            /\ a.obj = None /\ a.need # << >> /\ a.as = "temp" /\ a.had
        BY <3>2, <3>3, ZenonT(60) DEF OpRec, Name
      <3> HIDE DEF a
      <3>5. Fit(a)
        BY <3>4, FileFits
      <3>6. Follows(o, ok, a)
        BY <1>3, <2>2, <3>4, <3>5, Sets DEF Follows, Stages
      <3>7. QED
        BY <3>1, <3>6
    <2>3. CASE ~ok \/ (~RemovesFirst(o) /\ ~NoOverwrite)
      <3>1. AfterPut(o, ok) = MakeParent(o)
        BY <1>3, <2>3, AfterPutCases
      <3>2. Follows(o, ok, MakeParent(o))
        BY <1>2, <1>3, <2>0
      <3>3. QED
        BY <3>1, <3>2
    <2>4. QED
      BY <2>1, <2>2, <2>3
  <1>4. CASE o.put \in {"empty", "aside"}
    <2>1. AfterPut(o, ok) = IF ok THEN MakeParent(o) ELSE Idle
      BY <1>4, AfterPutCases
    <2>2. CASE ok
      BY <1>2, <1>4, <2>1, <2>2
    <2>3. CASE ~ok
      BY <2>1, <2>3, NothingFollows
    <2>4. QED
      BY <2>2, <2>3
  <1>5. CASE o.put = "mkdir"
    <2> DEFINE a == FindRoot(o, "parent", "get")
    <2>1. AfterPut(o, ok) = IF ok THEN a ELSE Idle
      BY <1>5, AfterPutCases
    <2>2. /\ Fit(a) /\ a.step \in {"enter", "find"} /\ a.edits = << >> /\ a.base = None
          /\ a.obj = None /\ a.put = "parent" /\ a.new = o.new /\ a.had = o.had
      BY <1>0, RootFits
    <2> HIDE DEF a
    <2>3. Follows(o, ok, a)
      BY <1>5, <2>2, Sets DEF Follows, Stages
    <2>4. QED
      BY <2>1, <2>3, NothingFollows
  <1>6. CASE o.put = "parent"
    <2> DEFINE a == [Stage(o, "send", "put", "f") EXCEPT !.step = "call", !.need = << >>, !.obj = Folder]
    <2>1. AfterPut(o, ok) = IF ok THEN a ELSE Idle
      BY <1>6, AfterPutCases
    <2>2. /\ Fit(a) /\ a.step = "call" /\ a.edits = << >> /\ a.base = None
          /\ a.obj = Folder /\ a.put = "send" /\ a.new = o.new /\ a.had = o.had
      BY <1>0, SendFits
    <2> HIDE DEF a
    <2>3. Follows(o, ok, a)
      BY <1>6, <2>2, Sets DEF Follows, Stages
    <2>4. QED
      BY <2>1, <2>3, NothingFollows
  <1>7. CASE o.put = "send"
    <2>1. CASE ~o.had
      <3>1. AfterPut(o, ok) = Idle
        BY <1>7, <2>1, AfterPutCases
      <3>2. QED
        BY <3>1, NothingFollows
    <2>2. CASE o.had /\ ok
      <3> DEFINE a == Stage(o, "clean", "remove", "temp")
      <3>1. AfterPut(o, ok) = a
        BY <1>7, <2>2, AfterPutCases
      <3>2. a \in OpRec
        BY <1>0, StageFit DEF Stages, Changing, Name
      <3>3. /\ a.step = "find" /\ a.edits = << >> /\ a.base = None /\ a.new = o.new
            /\ a.dir = "d" /\ a.put = "clean" /\ a.kind = "remove" /\ a.name = "temp"
            /\ a.obj = None /\ a.need # << >>
        BY DEF Stage, Start, Idle
      <3>4. a.had
        BY <2>2 DEF Stage, Start, Idle
      <3> HIDE DEF a
      <3>5. Fit(a)
        BY <3>2, <3>3, <3>4, FileFits
      <3>6. Follows(o, ok, a)
        BY <1>7, <2>2, <3>3, <3>4, <3>5, Sets DEF Follows, Stages
      <3>7. QED
        BY <3>1, <3>6
    <2>3. CASE o.had /\ ~ok
      <3> DEFINE s == Stage(o, "recover", "rename", "temp")
                 a == [s EXCEPT !.as = "f"]
      <3>1. AfterPut(o, ok) = a
        BY <1>7, <2>3, AfterPutCases
      <3>2. s \in OpRec
        BY <1>0, StageFit DEF Stages, Changing, Name
      <3>3. /\ s.step = "find" /\ s.edits = << >> /\ s.base = None /\ s.new = o.new
            /\ s.dir = "d" /\ s.put = "recover" /\ s.kind = "rename" /\ s.name = "temp"
            /\ s.obj = None /\ s.need # << >>
        BY DEF Stage, Start, Idle
      <3>8. s.had
        BY <2>3 DEF Stage, Start, Idle
      <3> HIDE DEF s
      <3>4. /\ a \in OpRec
            /\ a.step = "find" /\ a.edits = << >> /\ a.base = None /\ a.new = o.new
            /\ a.dir = "d" /\ a.put = "recover" /\ a.kind = "rename" /\ a.name = "temp"
            /\ a.obj = None /\ a.need # << >> /\ a.as = "f" /\ a.had
        BY <3>2, <3>3, <3>8, ZenonT(60) DEF OpRec, Name
      <3> HIDE DEF a
      <3>5. Fit(a)
        BY <3>4, FileFits
      <3>6. Follows(o, ok, a)
        BY <1>7, <2>3, <3>4, <3>5, Sets DEF Follows, Stages
      <3>7. QED
        BY <3>1, <3>6
    <2>4. QED
      BY <1>0, <2>1, <2>2, <2>3
  <1>8. CASE o.put \in {"clean", "recover"}
    <2>1. AfterPut(o, ok) = Idle
      BY <1>8, AfterPutCases
    <2>2. QED
      BY <2>1, NothingFollows
  <1>9. QED
    BY <1>0, <1>3, <1>4, <1>5, <1>6, <1>7, <1>8 DEF OpRec, Stages

-----------------------------------------------------------------------------
(* Steps of one client.                                                     *)

\* The same operation, further on in its look-ups.
Same(o, p) ==
  /\ p.kind = o.kind /\ p.dir = o.dir /\ p.name = o.name /\ p.to = o.to /\ p.as = o.as
  /\ p.lazy = o.lazy /\ p.edits = o.edits /\ p.base = o.base /\ p.put = o.put
  /\ p.new = o.new /\ p.had = o.had

\* What it has found may come from the listing it looked at.
Seen(o, l, p) == p.obj \in {o.obj, None} \/ (l # None /\ \E x \in Name : p.obj = l[x])

\* Where a look-up leads, from a listing.
Looked(o, l) ==
  IF o.parent # "look" THEN Found(o, l)
  ELSE IF l # None /\ l["d"] = Folder THEN [o EXCEPT !.parent = "ok"]
  ELSE [o EXCEPT !.need = << >>, !.obj = None, !.ok = l # None]

\* The same operation asks for the same.
LEMMA SameAsked ==
  ASSUME NEW o, NEW p, Asked(o), Same(o, p) PROVE Asked(p)
  BY DEF Asked, Own, Staged, Same

\* A look-up goes on with the same operation.
LEMMA LookedSame ==
  ASSUME NEW o, Fit(o), o.step = "find", NEW l \in Listing \cup {None}
  PROVE  LET p == Looked(o, l) IN
         p \in OpRec /\ Same(o, p) /\ p.step = "find" /\ Seen(o, l, p) /\ Asked(p)
  <1> DEFINE p == Looked(o, l)
             t == Tail(o.need)
  <1>1. /\ o \in OpRec /\ o.need # << >> /\ o.need \in Seq(Dir \X Name)
    BY DEF Fit, Phase, OpRec
  <1>2. t \in Seq(Dir \X Name) /\ o.need[1] \in Dir \X Name
    BY <1>1
  <1>3. o.need[1][2] \in Name
    BY <1>2
  <1> DEFINE x == IF l = None THEN None ELSE l[o.need[1][2]]
             first == [o EXCEPT !.need = t, !.parent = "no"]
             r == << >>
             b == l # None
  <1>4. x \in Obj /\ (x # None => l # None /\ \E y \in Name : x = l[y])
    BY <1>3, Sets DEF Listing
  <1>5. Found(o, l) = IF o.kind = "list" THEN [first EXCEPT !.ok = b]
                      ELSE IF x = None THEN [first EXCEPT !.need = r, !.obj = None, !.ok = b]
                      ELSE IF o.obj = None THEN [first EXCEPT !.obj = x]
                      ELSE first
    BY DEF Found
  <1>6. r \in Seq(Dir \X Name) /\ b \in BOOLEAN /\ None \in Obj
    BY Sets
  <1> HIDE DEF t, x, r, b
  <1>7. /\ first \in OpRec /\ Same(o, first) /\ first.step = "find" /\ first.obj = o.obj
    BY <1>1, <1>2 DEF OpRec, Same
  <1> HIDE DEF first
  <1>8. /\ [first EXCEPT !.ok = b] \in OpRec
        /\ Same(o, [first EXCEPT !.ok = b])
        /\ [first EXCEPT !.ok = b].step = "find"
        /\ [first EXCEPT !.ok = b].obj = o.obj
    BY <1>6, <1>7 DEF OpRec, Same
  <1>9. /\ [first EXCEPT !.need = r, !.obj = None, !.ok = b] \in OpRec
        /\ Same(o, [first EXCEPT !.need = r, !.obj = None, !.ok = b])
        /\ [first EXCEPT !.need = r, !.obj = None, !.ok = b].step = "find"
        /\ [first EXCEPT !.need = r, !.obj = None, !.ok = b].obj = None
    BY <1>6, <1>7 DEF OpRec, Same
  <1>10. /\ [first EXCEPT !.obj = x] \in OpRec
         /\ Same(o, [first EXCEPT !.obj = x])
         /\ [first EXCEPT !.obj = x].step = "find"
         /\ [first EXCEPT !.obj = x].obj = x
    BY <1>4, <1>7 DEF OpRec, Same
  <1>11. ASSUME o.parent # "look"
         PROVE  p \in OpRec /\ Same(o, p) /\ p.step = "find" /\ Seen(o, l, p)
    <2>1. p = Found(o, l)
      BY <1>11 DEF Looked
    <2> HIDE DEF p
    <2>2. CASE o.kind = "list"
      BY <1>5, <1>8, <2>1, <2>2 DEF Seen
    <2>3. CASE o.kind # "list" /\ x = None
      BY <1>5, <1>9, <2>1, <2>3 DEF Seen
    <2>4. CASE o.kind # "list" /\ x # None /\ o.obj = None
      BY <1>4, <1>5, <1>10, <2>1, <2>4 DEF Seen
    <2>5. CASE o.kind # "list" /\ x # None /\ o.obj # None
      BY <1>5, <1>7, <2>1, <2>5 DEF Seen
    <2>6. QED
      BY <2>2, <2>3, <2>4, <2>5
  <1>12. ASSUME o.parent = "look"
         PROVE  p \in OpRec /\ Same(o, p) /\ p.step = "find" /\ Seen(o, l, p)
    <2>1. p = IF l # None /\ l["d"] = Folder THEN [o EXCEPT !.parent = "ok"]
              ELSE [o EXCEPT !.need = r, !.obj = None, !.ok = b]
      BY <1>12 DEF Looked, r, b
    <2> HIDE DEF p
    <2>2. /\ [o EXCEPT !.parent = "ok"] \in OpRec
          /\ Same(o, [o EXCEPT !.parent = "ok"])
          /\ [o EXCEPT !.parent = "ok"].step = "find"
          /\ [o EXCEPT !.parent = "ok"].obj = o.obj
      BY <1>1 DEF OpRec, Same
    <2>3. /\ [o EXCEPT !.need = r, !.obj = None, !.ok = b] \in OpRec
          /\ Same(o, [o EXCEPT !.need = r, !.obj = None, !.ok = b])
          /\ [o EXCEPT !.need = r, !.obj = None, !.ok = b].step = "find"
          /\ [o EXCEPT !.need = r, !.obj = None, !.ok = b].obj = None
      BY <1>1, <1>6 DEF OpRec, Same
    <2>4. QED
      BY <2>1, <2>2, <2>3 DEF Seen
  <1> HIDE DEF p
  <1>13. p \in OpRec /\ Same(o, p) /\ p.step = "find" /\ Seen(o, l, p)
    BY <1>11, <1>12
  <1>14. Asked(p)
    BY <1>13, SameAsked DEF Fit
  <1>15. QED
    BY <1>13, <1>14 DEF p

-----------------------------------------------------------------------------
(* What the helpers of the actions do to the operations.                    *)

OpTypes == op \in [Client -> OpRec] /\ \A c \in Client : Fit(op[c])

\* One client's operation becomes another.
LEMMA SetEffect ==
  ASSUME OpTypes, NEW c \in Client, NEW p, Fit(p), Set(c, p)
  PROVE  OpTypes' /\ op'[c] = p /\ \A x \in Client : x # c => op'[x] = op[x]
  BY DEF OpTypes, Fit, Set

\* The call is over; only clients that wait in mkdirG end with it.
LEMMA EndEffect ==
  ASSUME OpTypes, NEW c \in Client, NEW o \in OpRec, Asked(o), NEW ok \in BOOLEAN, End(c, o, ok)
  PROVE  /\ OpTypes'
         /\ Follows(o, ok, op'[c])
         /\ \A x \in Client : x # c =>
              \/ op'[x] = op[x]
              \/ o.kind = "mkdir" /\ op[x].step = "join" /\ Follows(op[x], ok, op'[x])
         /\ o.kind = "mkdir" => \A x \in Client : op'[x].step # "join"
  <1>1. Follows(o, ok, After(o, ok))
    BY AfterFollows
  <1>2. ASSUME NEW x \in Client PROVE Follows(op[x], ok, After(op[x], ok))
    BY <1>2, AfterFollows DEF OpTypes, Fit
  <1>3. \A x \in Client : op'[x] = IF x = c THEN After(o, ok)
                                  ELSE IF Shares(o, x) THEN After(op[x], ok) ELSE op[x]
    BY DEF End
  <1>4. ASSUME NEW x \in Client PROVE Fit(op'[x])
    BY <1>1, <1>2, <1>3 DEF Follows, OpTypes
  <1>5. OpTypes'
    <2>1. op' = [x \in Client |-> op'[x]]
      BY DEF End
    <2>2. \A x \in Client : op'[x] \in OpRec
      BY <1>4 DEF Fit
    <2>3. QED
      BY <1>4, <2>1, <2>2 DEF OpTypes
  <1>6. ASSUME NEW x \in Client, x # c
        PROVE  \/ op'[x] = op[x]
               \/ o.kind = "mkdir" /\ op[x].step = "join" /\ Follows(op[x], ok, op'[x])
    BY <1>2, <1>3, <1>6 DEF Shares, Is
  <1>7. ASSUME o.kind = "mkdir", NEW x \in Client PROVE op'[x].step # "join"
    <2>1. CASE x = c
      BY <1>1, <1>3, <2>1 DEF Follows
    <2>2. CASE x # c /\ Shares(o, x)
      BY <1>2, <1>3, <2>2 DEF Follows
    <2>3. CASE x # c /\ ~Shares(o, x)
      BY <1>3, <1>7, <2>3 DEF Shares, Is
    <2>4. QED
      BY <2>1, <2>2, <2>3
  <1>8. Follows(o, ok, op'[c])
    BY <1>1, <1>3
  <1>9. QED
    BY <1>5, <1>6, <1>7, <1>8

\* A look-up from a listing: the operation goes on, calls the driver, or ends.
LEMMA GotEffect ==
  ASSUME OpTypes, NEW c \in Client, op[c].step = "find", NEW l \in Listing \cup {None}, Got(c, l)
  PROVE  \/ \E p \in OpRec : /\ Set(c, p) /\ Fit(p) /\ Same(op[c], p) /\ Seen(op[c], l, p)
                            /\ p.step \in {"find", "call"}
         \/ \E p \in OpRec, ok \in BOOLEAN :
              /\ End(c, p, ok) /\ Asked(p) /\ Same(op[c], p) /\ Seen(op[c], l, p)
              /\ p.kind \in {"rename", "put"} => ~ok
  <1> DEFINE o == op[c]
             p == Looked(o, l)
  <1>1. Fit(o) /\ o \in OpRec
    BY DEF OpTypes
  <1>2. p \in OpRec /\ Same(o, p) /\ p.step = "find" /\ Seen(o, l, p) /\ Asked(p)
    BY <1>1, LookedSame
  <1>3. IF p.need = << >> THEN Decide(c, p) ELSE Set(c, p)
    BY DEF Got, Looked
  <1>4. o.edits = << >> /\ o.base = None
    BY <1>1 DEF Fit, Phase
  <1> HIDE DEF p
  <1>5. CASE p.need # << >>
    <2>1. Phase(p)
      BY <1>2, <1>4, <1>5 DEF Phase, Same
    <2>2. QED
      BY <1>2, <1>3, <1>5, <2>1 DEF Fit
  <1>6. CASE p.need = << >> /\ Outcome(p) = "call"
    <2> DEFINE q == [p EXCEPT !.step = "call"]
    <2>1. Set(c, q)
      BY <1>3, <1>6 DEF Decide
    <2>2. q \in OpRec /\ Same(p, q) /\ q.step = "call" /\ q.obj = p.obj /\ q.edits = p.edits /\ q.base = p.base
          /\ q.kind = p.kind
      BY <1>2 DEF OpRec, Same, Steps
    <2>3. Same(o, q) /\ Seen(o, l, q)
      BY <1>2, <2>2 DEF Same, Seen
    <2>4. p.kind \in Changing
      BY <1>2, <1>6 DEF Outcome, OpRec
    <2> HIDE DEF q
    <2>5. Asked(q)
      BY <1>2, <2>2, SameAsked
    <2>6. Phase(q)
      BY <1>2, <1>4, <2>2, <2>4 DEF Phase, Same
    <2>7. QED
      BY <2>1, <2>2, <2>3, <2>5, <2>6 DEF Fit
  <1>7. CASE p.need = << >> /\ Outcome(p) # "call"
    <2>1. End(c, p, Good(p))
      BY <1>3, <1>7 DEF Decide
    <2>2. Good(p) \in BOOLEAN
      BY <1>2 DEF Good, OpRec
    <2>3. p.kind \in {"rename", "put"} => ~Good(p)
      BY <1>7 DEF Good, Outcome
    <2>4. QED
      BY <1>2, <2>1, <2>2, <2>3
  <1>8. QED
    BY <1>5, <1>6, <1>7

-----------------------------------------------------------------------------
(* What the driver's call does, and the edits that go with it.              *)

\* What an operation that calls the driver asks for.
Shape(o) ==
  \/ o.kind = "mkdir" /\ o.dir = "root" /\ o.name = "d"
  \/ o.kind = "remove" /\ <<o.dir, o.name>> \in {<<"root", "d">>, <<"d", "f">>, <<"d", "temp">>}
  \/ /\ o.kind = "rename"
     /\ <<o.dir, o.name, o.as>> \in {<<"root", "d", "e">>, <<"d", "f", "temp">>, <<"d", "temp", "f">>}
  \/ o.kind = "move" /\ o.dir = "d" /\ o.name = "f" /\ o.to = "root"
  \/ o.kind = "copy" /\ o.dir = "root" /\ o.name = "f" /\ o.to = "d"
  \/ o.kind = "put" /\ o.dir = "d" /\ o.name = "f" /\ o.put = "send" /\ o.new \in Upload \ {0, 1}

\* An operation that calls the driver asks for one of these.
LEMMA AskedShape ==
  ASSUME NEW o, Asked(o), o.kind \in Changing PROVE Shape(o)
  BY Sets DEF Asked, Own, Staged, Changing, Shape

\* The tree after a call, directory by directory.
LEMMA DoneMkdir ==
  ASSUME tree \in [Dir -> Listing], NEW o, Shape(o), CanDo(o), o.kind = "mkdir"
  PROVE  /\ Done(o) \in [Dir -> Listing]
         /\ Done(o)["root"] = [tree["root"] EXCEPT !["d"] = Folder]
         /\ Done(o)["d"] = tree["d"]
         /\ tree["root"]["d"] = None
  <1> DEFINE t == [tree EXCEPT !["root"]["d"] = Folder]
  <1>1. o.dir = "root" /\ o.name = "d"
    BY DEF Shape
  <1>2. Done(o) = IF t["root"]["d"] = Folder THEN t ELSE [t EXCEPT !["d"] = Empty]
    BY DEF Done
  <1>3. t \in [Dir -> Listing] /\ t["root"]["d"] = Folder /\ t["d"] = tree["d"]
        /\ t["root"] = [tree["root"] EXCEPT !["d"] = Folder]
    BY Sets DEF Dir, Name, Listing
  <1>4. tree["root"]["d"] = None
    BY DEF CanDo, Taken
  <1> HIDE DEF t
  <1>5. QED
    BY <1>2, <1>3, <1>4

\* Remove takes the object away; with the directory goes what is in it.
LEMMA DoneRemove ==
  ASSUME tree \in [Dir -> Listing], NEW o, Shape(o), CanDo(o), o.kind = "remove"
  PROVE  /\ Done(o) \in [Dir -> Listing]
         /\ tree[o.dir][o.name] # None
         /\ Done(o)[o.dir] = [tree[o.dir] EXCEPT ![o.name] = None]
         /\ o.dir = "root" => o.name = "d" /\ Done(o)["d"] = Empty
         /\ o.dir = "d" => Done(o)["root"] = tree["root"] /\ tree["root"]["d"] = Folder
  <1> DEFINE t == [tree EXCEPT ![o.dir][o.name] = None]
  <1>1. /\ o.dir \in Dir /\ o.name \in Name
        /\ o.dir = "root" \/ o.dir = "d"
        /\ o.dir = "root" => o.name = "d"
    BY DEF Shape, Dir, Name
  <1>2. Done(o) = IF t["root"]["d"] = Folder THEN t ELSE [t EXCEPT !["d"] = Empty]
    BY DEF Done, Without
  <1>3. /\ t \in [Dir -> Listing] /\ t[o.dir] = [tree[o.dir] EXCEPT ![o.name] = None]
        /\ \A d \in Dir : d # o.dir => t[d] = tree[d]
    BY <1>1, Sets DEF Listing
  <1>4. tree[o.dir][o.name] # None /\ Exists(o.dir)
    BY DEF CanDo, Taken
  <1> HIDE DEF t
  <1>5. CASE o.dir = "root"
    <2>1. t["root"]["d"] = None
      BY <1>1, <1>3, <1>5 DEF Listing, Name, Dir
    <2>2. Done(o) = [t EXCEPT !["d"] = Empty]
      BY <1>2, <2>1, Sets
    <2>3. QED
      BY <1>1, <1>3, <1>4, <1>5, <2>2, Sets DEF Dir
  <1>6. CASE o.dir = "d"
    <2>1. t["root"] = tree["root"] /\ tree["root"]["d"] = Folder
      BY <1>3, <1>4, <1>6 DEF Exists, Dir
    <2>2. QED
      BY <1>2, <1>3, <1>4, <1>6, <2>1
  <1>7. QED
    BY <1>1, <1>5, <1>6

\* Rename gives the object its new name; the directory takes what is in it along.
LEMMA DoneRename ==
  ASSUME tree \in [Dir -> Listing], NEW o, Shape(o), CanDo(o), o.kind = "rename"
  PROVE  /\ Done(o) \in [Dir -> Listing]
         /\ tree[o.dir][o.name] # None /\ tree[o.dir][o.as] = None
         /\ Done(o)[o.dir] = [tree[o.dir] EXCEPT ![o.name] = None, ![o.as] = tree[o.dir][o.name]]
         /\ o.dir = "root" => o.name = "d" /\ o.as = "e" /\ Done(o)["d"] = Empty
         /\ o.dir = "d" => Done(o)["root"] = tree["root"] /\ tree["root"]["d"] = Folder
  <1> DEFINE x == tree[o.dir][o.name]
             t == [[tree EXCEPT ![o.dir][o.name] = None] EXCEPT ![o.dir][o.as] = x]
  <1>1. /\ o.dir \in Dir /\ o.name \in Name /\ o.as \in Name /\ o.as # o.name
        /\ o.dir = "root" \/ o.dir = "d"
        /\ o.dir = "root" => o.name = "d" /\ o.as = "e"
    BY DEF Shape, Dir, Name
  <1>2. Done(o) = IF t["root"]["d"] = Folder THEN t ELSE [t EXCEPT !["d"] = Empty]
    BY DEF Done, Without
  <1>3. /\ t \in [Dir -> Listing] /\ t[o.dir] = [tree[o.dir] EXCEPT ![o.name] = None, ![o.as] = x]
        /\ \A d \in Dir : d # o.dir => t[d] = tree[d]
    BY <1>1, Sets DEF Listing
  <1>4. tree[o.dir][o.name] # None /\ tree[o.dir][o.as] = None /\ Exists(o.dir)
    BY DEF CanDo, Taken
  <1> HIDE DEF t
  <1>5. CASE o.dir = "root"
    <2>1. t["root"]["d"] = None
      BY <1>1, <1>3, <1>5 DEF Listing, Name, Dir
    <2>2. Done(o) = [t EXCEPT !["d"] = Empty]
      BY <1>2, <2>1, Sets
    <2>3. QED
      BY <1>1, <1>3, <1>4, <1>5, <2>2, Sets DEF Dir
  <1>6. CASE o.dir = "d"
    <2>1. t["root"] = tree["root"] /\ tree["root"]["d"] = Folder
      BY <1>3, <1>4, <1>6 DEF Exists, Dir
    <2>2. QED
      BY <1>2, <1>3, <1>4, <1>6, <2>1
  <1>7. QED
    BY <1>1, <1>5, <1>6

\* Move puts the file into the root directory.
LEMMA DoneMove ==
  ASSUME tree \in [Dir -> Listing], NEW o, Shape(o), CanDo(o), o.kind = "move"
  PROVE  /\ Done(o) \in [Dir -> Listing]
         /\ tree["d"]["f"] # None /\ tree["root"]["f"] = None
         /\ Done(o)["d"] = [tree["d"] EXCEPT !["f"] = None]
         /\ Done(o)["root"] = [tree["root"] EXCEPT !["f"] = tree["d"]["f"]]
  <1> DEFINE x == tree["d"]["f"]
             t == [[tree EXCEPT !["d"]["f"] = None] EXCEPT !["root"]["f"] = x]
  <1>1. o.dir = "d" /\ o.name = "f" /\ o.to = "root"
    BY DEF Shape
  <1>2. Done(o) = IF t["root"]["d"] = Folder THEN t ELSE [t EXCEPT !["d"] = Empty]
    BY <1>1 DEF Done, Without
  <1>3. /\ t \in [Dir -> Listing] /\ t["d"] = [tree["d"] EXCEPT !["f"] = None]
        /\ t["root"] = [tree["root"] EXCEPT !["f"] = x]
        /\ t["root"]["d"] = tree["root"]["d"]
    BY Sets DEF Listing, Dir, Name
  <1>4. tree["d"]["f"] # None /\ tree["root"]["f"] = None /\ tree["root"]["d"] = Folder
    BY <1>1 DEF CanDo, Taken, Exists
  <1> HIDE DEF t
  <1>5. QED
    BY <1>2, <1>3, <1>4

\* Copy puts the file into "d" as well.
LEMMA DoneCopy ==
  ASSUME tree \in [Dir -> Listing], NEW o, Shape(o), CanDo(o), o.kind = "copy"
  PROVE  /\ Done(o) \in [Dir -> Listing]
         /\ tree["root"]["f"] # None /\ tree["d"]["f"] = None
         /\ Done(o)["d"] = [tree["d"] EXCEPT !["f"] = tree["root"]["f"]]
         /\ Done(o)["root"] = tree["root"]
  <1> DEFINE x == tree["root"]["f"]
             t == [tree EXCEPT !["d"]["f"] = x]
  <1>1. o.dir = "root" /\ o.name = "f" /\ o.to = "d"
    BY DEF Shape
  <1>2. Done(o) = IF t["root"]["d"] = Folder THEN t ELSE [t EXCEPT !["d"] = Empty]
    BY <1>1 DEF Done
  <1>3. /\ t \in [Dir -> Listing] /\ t["d"] = [tree["d"] EXCEPT !["f"] = x]
        /\ t["root"] = tree["root"]
    BY Sets DEF Listing, Dir, Name
  <1>4. tree["root"]["f"] # None /\ tree["d"]["f"] = None /\ tree["root"]["d"] = Folder
    BY <1>1 DEF CanDo, Taken, Exists
  <1> HIDE DEF t
  <1>5. QED
    BY <1>2, <1>3, <1>4

\* Put sets the upload's content.
LEMMA DonePut ==
  ASSUME tree \in [Dir -> Listing], NEW o, Shape(o), CanDo(o), o.kind = "put"
  PROVE  /\ Done(o) \in [Dir -> Listing]
         /\ Done(o)["d"] = [tree["d"] EXCEPT !["f"] = o.new]
         /\ Done(o)["root"] = tree["root"]
         /\ o.new \in Upload \ {0, 1} /\ o.put = "send"
  <1> DEFINE t == [tree EXCEPT !["d"]["f"] = o.new]
  <1>1. o.dir = "d" /\ o.name = "f" /\ o.new \in Upload \ {0, 1} /\ o.new \in Obj /\ o.put = "send"
    BY Sets DEF Shape
  <1>2. Done(o) = IF t["root"]["d"] = Folder THEN t ELSE [t EXCEPT !["d"] = Empty]
    BY <1>1 DEF Done
  <1>3. /\ t \in [Dir -> Listing] /\ t["d"] = [tree["d"] EXCEPT !["f"] = o.new]
        /\ t["root"] = tree["root"]
    BY <1>1, Sets DEF Listing, Dir, Name
  <1>4. tree["root"]["d"] = Folder
    BY <1>1 DEF CanDo, Exists
  <1> HIDE DEF t
  <1>5. QED
    BY <1>1, <1>2, <1>3, <1>4

\* An edit is right: made to the listing before the call it gives the one after it,
\* and if it is not just a drop of the listing, the listing has changed, but for an
\* upload that is there already.
EditOK(e, o) ==
  /\ e \in EditRec
  /\ e.new \in {None, Folder, o.new} \/ \E d \in Dir, x \in Name : e.new = tree[d][x]
  /\ e.act # "clear" =>
       /\ Ed(e, tree[e.dir]) = Done(o)[e.dir]
       /\ Done(o)[e.dir] # tree[e.dir] \/ (o.kind = "put" /\ tree["d"]["f"] = o.new)

AllOK(es, o) ==
  /\ es \in Seq(EditRec)
  /\ \A i \in 1 .. Len(es) : EditOK(es[i], o)
  /\ \A i, j \in 1 .. Len(es) : es[i].dir = es[j].dir => i = j

\* No edit, one, or two of different directories.
LEMMA AllOKs ==
  ASSUME NEW o
  PROVE  /\ AllOK(<< >>, o)
         /\ \A e : EditOK(e, o) => AllOK(<<e>>, o)
         /\ \A e, f : EditOK(e, o) /\ EditOK(f, o) /\ e.dir # f.dir => AllOK(<<e, f>>, o)
  <1>1. AllOK(<< >>, o)
    BY DEF AllOK
  <1>2. ASSUME NEW e, EditOK(e, o) PROVE AllOK(<<e>>, o)
    BY <1>2 DEF AllOK, EditOK
  <1>3. ASSUME NEW e, NEW f, EditOK(e, o), EditOK(f, o), e.dir # f.dir PROVE AllOK(<<e, f>>, o)
    <2> DEFINE s == <<e, f>>
    <2>1. s \in Seq(EditRec) /\ Len(s) = 2 /\ s[1] = e /\ s[2] = f
      BY <1>3 DEF EditOK
    <2> HIDE DEF s
    <2>2. \A i \in 1 .. Len(s) : i = 1 \/ i = 2
      BY <2>1
    <2>3. \A i \in 1 .. Len(s) : EditOK(s[i], o)
      BY <1>3, <2>1, <2>2
    <2>4. \A i, j \in 1 .. Len(s) : s[i].dir = s[j].dir => i = j
      BY <1>3, <2>1, <2>2
    <2>5. QED
      BY <2>1, <2>3, <2>4 DEF AllOK, s
  <1>4. QED
    BY <1>1, <1>2, <1>3

\* Dropping a listing needs nothing.
LEMMA ClearOK ==
  ASSUME NEW o, NEW d \in Dir
  PROVE  EditOK(Clear(d), o) /\ Clear(d).dir = d /\ Clear(d).act = "clear"
  <1>1. Clear(d) = [act |-> "clear", dir |-> d, name |-> "d", as |-> "d", new |-> None]
    BY DEF Clear, Edit
  <1>2. Clear(d) \in EditRec
    BY <1>1, Sets DEF EditRec, Acts, Name
  <1>3. QED
    BY <1>1, <1>2 DEF EditOK

\* The edit that removes the object.
LEMMA DelOK ==
  ASSUME tree \in [Dir -> Listing], NEW o, Shape(o), CanDo(o), o.kind \in {"remove", "move"}
  PROVE  EditOK(Del(o), o) /\ Del(o).dir = o.dir
  <1>1. /\ Del(o) = [act |-> "del", dir |-> o.dir, name |-> o.name, as |-> o.name, new |-> None]
        /\ o.dir \in Dir /\ o.name \in Name
    BY DEF Del, Edit, Shape, Dir, Name
  <1>2. Del(o) \in EditRec
    BY <1>1, Sets DEF EditRec, Acts
  <1>3. /\ Done(o)[o.dir] = [tree[o.dir] EXCEPT ![o.name] = None]
        /\ tree[o.dir][o.name] # None
    <2>1. CASE o.kind = "remove"
      BY <2>1, DoneRemove
    <2>2. CASE o.kind = "move"
      <3>1. o.dir = "d" /\ o.name = "f"
        BY <2>2 DEF Shape
      <3>2. QED
        BY <2>2, <3>1, DoneMove
    <2>3. QED
      BY <2>1, <2>2
  <1>4. Ed(Del(o), tree[o.dir]) = [tree[o.dir] EXCEPT ![o.name] = None]
    BY <1>1 DEF Ed
  <1>5. Done(o)[o.dir] # tree[o.dir]
    BY <1>1, <1>3 DEF Listing
  <1>6. QED
    BY <1>1, <1>2, <1>3, <1>4, <1>5 DEF EditOK

\* The edit that adds the object.
LEMMA AddOK ==
  ASSUME tree \in [Dir -> Listing], NEW o, Shape(o), CanDo(o),
         NEW in, NEW new,
         \/ o.kind = "mkdir" /\ in = o.dir /\ new = Folder
         \/ o.kind \in {"move", "copy"} /\ in = o.to /\ new = tree[o.dir][o.name]
         \/ o.kind = "put" /\ in = o.dir /\ new = o.new
  PROVE  LET e == Edit("add", in, o.name, o.name, new) IN EditOK(e, o) /\ e.dir = in /\ in \in Dir
  <1> DEFINE e == Edit("add", in, o.name, o.name, new)
  <1>1. e = [act |-> "add", dir |-> in, name |-> o.name, as |-> o.name, new |-> new]
    BY DEF Edit
  <1>2. /\ in \in Dir /\ o.name \in Name /\ new \in Obj
        /\ new \in {None, Folder, o.new} \/ \E d \in Dir, x \in Name : new = tree[d][x]
        /\ Done(o)[in] = [tree[in] EXCEPT ![o.name] = new]
        /\ new # tree[in][o.name] \/ (o.kind = "put" /\ tree["d"]["f"] = o.new)
    <2>1. CASE o.kind = "mkdir"
      <3>1. in = "root" /\ o.name = "d" /\ new = Folder
        BY <2>1 DEF Shape
      <3>2. QED
        BY <2>1, <3>1, DoneMkdir, Sets DEF Dir, Name
    <2>2. CASE o.kind = "move"
      <3>1. in = "root" /\ o.name = "f" /\ new = tree["d"]["f"]
        BY <2>2 DEF Shape
      <3>2. "d" \in Dir /\ "f" \in Name /\ "root" \in Dir /\ new \in Obj
        BY <3>1 DEF Dir, Name, Listing
      <3>3. QED
        BY <2>2, <3>1, <3>2, DoneMove
    <2>3. CASE o.kind = "copy"
      <3>1. in = "d" /\ o.name = "f" /\ new = tree["root"]["f"]
        BY <2>3 DEF Shape
      <3>2. "d" \in Dir /\ "f" \in Name /\ "root" \in Dir /\ new \in Obj
        BY <3>1 DEF Dir, Name, Listing
      <3>3. QED
        BY <2>3, <3>1, <3>2, DoneCopy
    <2>4. CASE o.kind = "put"
      <3>1. in = "d" /\ o.name = "f" /\ new = o.new
        BY <2>4 DEF Shape
      <3>2. "d" \in Dir /\ "f" \in Name /\ new \in Obj
        BY <2>4, <3>1, DonePut, Sets DEF Dir, Name
      <3>3. QED
        BY <2>4, <3>1, <3>2, DonePut
    <2>5. QED
      BY <2>1, <2>2, <2>3, <2>4
  <1>3. e \in EditRec
    BY <1>1, <1>2 DEF EditRec, Acts
  <1>4. Ed(e, tree[in]) = [tree[in] EXCEPT ![o.name] = new]
    BY <1>1 DEF Ed
  <1>5. Done(o)[in] # tree[in] \/ (o.kind = "put" /\ tree["d"]["f"] = o.new)
    BY <1>2 DEF Listing
  <1>6. e.dir = in /\ e.new = new /\ e.act = "add"
    BY <1>1
  <1> HIDE DEF e
  <1>7. EditOK(e, o)
    BY <1>2, <1>3, <1>4, <1>5, <1>6 DEF EditOK
  <1>8. QED
    BY <1>2, <1>6, <1>7 DEF e

\* The edit that renames the object.
LEMMA UpdOK ==
  ASSUME tree \in [Dir -> Listing], NEW o, Shape(o), CanDo(o), o.kind = "rename"
  PROVE  LET e == Edit("upd", o.dir, o.name, o.as, tree[o.dir][o.name])
         IN EditOK(e, o) /\ e.dir = o.dir /\ o.dir \in Dir
  <1> DEFINE new == tree[o.dir][o.name]
             e == Edit("upd", o.dir, o.name, o.as, new)
  <1>1. e = [act |-> "upd", dir |-> o.dir, name |-> o.name, as |-> o.as, new |-> new]
    BY DEF Edit
  <1>2. o.dir \in Dir /\ o.name \in Name /\ o.as \in Name /\ o.as # o.name
    BY DEF Shape, Dir, Name
  <1>3. /\ Done(o)[o.dir] = [tree[o.dir] EXCEPT ![o.name] = None, ![o.as] = new]
        /\ new # None /\ new \in Obj /\ tree[o.dir] \in Listing
    BY <1>2, DoneRename DEF Listing
  <1>4. e \in EditRec
    BY <1>1, <1>2, <1>3 DEF EditRec, Acts
  <1>5. Ed(e, tree[o.dir]) = [tree[o.dir] EXCEPT ![o.as] = new, ![o.name] = None]
    BY <1>1, <1>3 DEF Ed
  <1> HIDE DEF new
  <1>6. [tree[o.dir] EXCEPT ![o.as] = new, ![o.name] = None]
          = [tree[o.dir] EXCEPT ![o.name] = None, ![o.as] = new]
    BY <1>2, <1>3 DEF Listing
  <1>7. Done(o)[o.dir] # tree[o.dir]
    <2>1. Done(o)[o.dir][o.name] = None
      BY <1>2, <1>3 DEF Listing
    <2>2. QED
      BY <1>3, <2>1 DEF new
  <1>8. e.dir = o.dir /\ e.new = new /\ e.act = "upd"
    BY <1>1
  <1>9. \E d \in Dir, x \in Name : new = tree[d][x]
    BY <1>2 DEF new
  <1> HIDE DEF e
  <1>10. EditOK(e, o)
    BY <1>3, <1>4, <1>5, <1>6, <1>7, <1>8, <1>9 DEF EditOK
  <1>11. QED
    BY <1>2, <1>8, <1>10 DEF e, new

\* Two edits one after the other.
LEMMA TwoEdits ==
  ASSUME NEW a, NEW b PROVE <<a>> \o <<b>> = <<a, b>>
  <1> DEFINE u == <<a>> \o <<b>>
  <1>1. <<a>> \in Seq({a, b}) /\ <<b>> \in Seq({a, b}) /\ Len(<<a>>) = 1 /\ Len(<<b>>) = 1
    OBVIOUS
  <1>2. u \in Seq({a, b}) /\ Len(u) = 2 /\ u[1] = <<a>>[1] /\ u[2] = <<b>>[1]
    BY <1>1
  <1> HIDE DEF u
  <1>3. u = <<u[1], u[2]>>
    BY <1>2
  <1>4. QED
    BY <1>2, <1>3 DEF u

\* The edits an operation owes are right, and about every directory it changed,
\* unless the caller is lazy.
LEMMA EditsOK ==
  ASSUME tree \in [Dir -> Listing], NEW o, Shape(o), CanDo(o), NEW result \in BOOLEAN
  PROVE  /\ AllOK(Edits(o, result), o)
         /\ \A d \in About(o) : Done(o)[d] # tree[d] =>
              \E i \in 1 .. Len(Edits(o, result)) : Edits(o, result)[i].dir = d
  <1> DEFINE es == Edits(o, result)
             new == IF o.kind = "put" THEN o.new ELSE IF o.kind = "mkdir" THEN Folder
                    ELSE tree[o.dir][o.name]
             in == IF o.kind \in {"move", "copy"} THEN o.to ELSE o.dir
             e == Edit("add", in, o.name, o.name, new)
             add == IF result THEN <<e>> ELSE IF Lazy(o) THEN << >> ELSE <<Clear(in)>>
             Covered == \A d \in About(o) : Done(o)[d] # tree[d] =>
                          \E i \in 1 .. Len(es) : es[i].dir = d
  <1>1. /\ o.kind \in {"mkdir", "remove", "rename", "move", "copy", "put"}
        /\ o.dir \in Dir /\ o.name \in Name /\ in \in Dir
    BY DEF Shape, Dir, Name
  <1>2. /\ o.kind = "remove" => es = RemoveEdits(o)
        /\ o.kind = "move" => es = MoveEdits(o, add)
        /\ o.kind = "rename" =>
             es = IF result THEN <<Edit("upd", o.dir, o.name, o.as, new)>> ELSE add
        /\ o.kind \in {"mkdir", "copy", "put"} => es = add
    BY <1>1 DEF Edits
  <1>3. Lazy(o) => About(o) = {}
    BY DEF Lazy, About
  <1>4. EditOK(Clear(in), o) /\ Clear(in).dir = in
    BY <1>1, ClearOK
  <1>5. CASE o.kind = "remove"
    <2>1. EditOK(Del(o), o) /\ Del(o).dir = o.dir
      BY <1>5, DelOK
    <2>2. CASE o.name = "d"
      <3>1. es = <<Del(o), Clear("d")>>
        BY <1>2, <1>5, <2>2 DEF RemoveEdits
      <3>2. EditOK(Clear("d"), o) /\ Clear("d").dir = "d" /\ o.dir = "root"
        BY <1>5, <2>2, ClearOK DEF Shape, Dir
      <3>3. AllOK(<<Del(o), Clear("d")>>, o)
        BY <2>1, <3>2, AllOKs
      <3>4. /\ Len(<<Del(o), Clear("d")>>) = 2 /\ <<Del(o), Clear("d")>>[1] = Del(o)
        OBVIOUS
      <3>5. About(o) \subseteq {o.dir}
        BY <1>5 DEF About
      <3>6. QED
        BY <2>1, <3>1, <3>3, <3>4, <3>5
    <2>3. CASE o.name # "d"
      <3>1. es = <<Del(o)>>
        BY <1>2, <1>5, <2>3 DEF RemoveEdits
      <3>2. AllOK(<<Del(o)>>, o)
        BY <2>1, AllOKs
      <3>3. Len(<<Del(o)>>) = 1 /\ <<Del(o)>>[1] = Del(o)
        OBVIOUS
      <3>4. About(o) \subseteq {o.dir}
        BY <1>5 DEF About
      <3>5. QED
        BY <2>1, <3>1, <3>2, <3>3, <3>4
    <2>4. QED
      BY <2>2, <2>3
  <1>6. CASE o.kind = "rename" /\ result
    <2> DEFINE u == Edit("upd", o.dir, o.name, o.as, new)
    <2>1. EditOK(u, o) /\ u.dir = o.dir
      BY <1>6, UpdOK
    <2>2. es = <<u>>
      BY <1>2, <1>6
    <2> HIDE DEF u, es
    <2>3. AllOK(<<u>>, o) /\ Len(<<u>>) = 1 /\ <<u>>[1] = u
      BY <2>1, AllOKs
    <2>4. About(o) \subseteq {o.dir}
      BY <1>6 DEF About
    <2>5. AllOK(es, o) /\ Covered
      BY <2>1, <2>2, <2>3, <2>4
    <2>6. QED
      BY <2>5 DEF es
  <1>7. ASSUME o.kind # "remove", o.kind = "rename" => ~result
        PROVE  \/ result /\ add = <<e>> /\ EditOK(e, o) /\ e.dir = in
               \/ add = <<Clear(in)>>
               \/ add = << >> /\ About(o) = {}
    <2>1. CASE result
      <3>1. EditOK(e, o) /\ e.dir = in
        BY <1>1, <1>7, <2>1, AddOK
      <3>2. QED
        BY <2>1, <3>1
    <2>2. CASE ~result
      BY <1>3, <2>2
    <2>3. QED
      BY <2>1, <2>2
  <1> HIDE DEF e, new, add
  <1>8. CASE o.kind \in {"mkdir", "copy", "put"} \/ (o.kind = "rename" /\ ~result)
    <2>1. es = add
      BY <1>2, <1>8
    <2>2. PICK k : (add = <<k>> /\ EditOK(k, o) /\ k.dir = in) \/ (add = << >> /\ About(o) = {})
      BY <1>4, <1>7, <1>8
    <2>3. AllOK(<<k>>, o) \/ add = << >>
      BY <2>2, AllOKs
    <2>4. ASSUME NEW d \in About(o), Done(o)[d] # tree[d] PROVE d = in
      <3>1. CASE o.kind = "copy"
        <4>1. o.dir = "root" /\ Done(o)["root"] = tree["root"]
          BY <3>1, DoneCopy DEF Shape
        <4>2. d \in {o.dir, o.to}
          BY <2>4, <3>1 DEF About
        <4>3. QED
          BY <2>4, <3>1, <4>1, <4>2
      <3>2. CASE o.kind # "copy"
        BY <1>8, <2>4, <3>2 DEF About
      <3>3. QED
        BY <3>1, <3>2
    <2> HIDE DEF es
    <2>5. Len(<<k>>) = 1 /\ <<k>>[1] = k
      OBVIOUS
    <2>6. AllOK(es, o) /\ Covered
      BY <2>1, <2>2, <2>3, <2>4, <2>5, AllOKs
    <2>7. QED
      BY <2>6 DEF es
  <1>9. CASE o.kind = "move"
    <2>1. es = <<Del(o)>> \o add
      BY <1>2, <1>9 DEF MoveEdits
    <2>2. EditOK(Del(o), o) /\ Del(o).dir = "d" /\ in = "root" /\ About(o) \subseteq {"d", "root"}
      BY <1>9, DelOK DEF Shape, About
    <2>3. PICK k : (add = <<k>> /\ EditOK(k, o) /\ k.dir = in) \/ (add = << >> /\ About(o) = {})
      BY <1>4, <1>7, <1>9
    <2> HIDE DEF es
    <2>4. CASE add = <<k>> /\ EditOK(k, o) /\ k.dir = in
      <3>1. es = <<Del(o), k>>
        BY <2>1, <2>4, TwoEdits
      <3>2. AllOK(<<Del(o), k>>, o)
        BY <2>2, <2>4, AllOKs
      <3>3. Len(<<Del(o), k>>) = 2 /\ <<Del(o), k>>[1] = Del(o) /\ <<Del(o), k>>[2] = k
        OBVIOUS
      <3>4. \A d \in About(o) : \E i \in 1 .. Len(es) : es[i].dir = d
        BY <2>2, <2>4, <3>1, <3>3
      <3>5. QED
        BY <3>1, <3>2, <3>4 DEF es
    <2>5. CASE add = << >> /\ About(o) = {}
      <3>1. es = <<Del(o)>>
        BY <2>1, <2>5
      <3>2. AllOK(<<Del(o)>>, o)
        BY <2>2, AllOKs
      <3>3. QED
        BY <2>5, <3>1, <3>2 DEF es
    <2>6. QED
      BY <2>3, <2>4, <2>5
  <1>10. QED
    BY <1>1, <1>5, <1>6, <1>8, <1>9

-----------------------------------------------------------------------------
(* What each action does to the operation of its client.                    *)

\* An operation of a client's own that has just begun.
Begun(o) ==
  /\ o \in OpRec /\ o.step = (IF o.kind = "mkdir" THEN "enter" ELSE "find")
  /\ o.need # << >> /\ o.edits = << >> /\ o.base = None /\ o.obj = None
  /\ o.put = None /\ o.new = None

\* It is one as Start makes it.
LEMMA StartBegun ==
  ASSUME NEW kind \in Changing \cup {"list", "get"}, NEW d \in Dir, NEW x \in Name
  PROVE  LET s == Start(kind, d, x) IN
         Begun(s) /\ s.kind = kind /\ s.dir = d /\ s.name = x /\ ~s.had
  <1> DEFINE s == Start(kind, d, x)
  <1>1. s \in OpRec
    BY StartFit
  <1>2. /\ s.step = (IF kind = "mkdir" THEN "enter" ELSE "find")
        /\ s.kind = kind /\ s.dir = d /\ s.name = x /\ s.need = <<<<d, x>>>>
        /\ s.obj = None /\ s.edits = << >> /\ s.base = None
        /\ s.put = None /\ s.new = None
    BY DEF Start, Idle
  <1>3. ~s.had
    BY DEF Start, Idle
  <1> HIDE DEF s
  <1>4. s.need # << >>
    BY <1>2
  <1>5. Begun(s)
    BY <1>1, <1>2, <1>4 DEF Begun
  <1>6. QED
    BY <1>2, <1>3, <1>5 DEF s

\* What an operation is when it begins.
LEMMA BegunFits ==
  ASSUME NEW o, Begun(o), ~o.had, Own(o), o.kind # "get"
  PROVE  /\ Fit(o) /\ o.step \in {"find", "enter"} /\ o.edits = << >> /\ o.base = None
         /\ o.obj = None /\ ~o.had /\ o.put = None /\ o.new = None
  <1>1. Asked(o)
    BY DEF Asked, Begun
  <1>2. Phase(o)
    BY DEF Phase, Begun
  <1>3. QED
    BY <1>1, <1>2 DEF Fit, Begun

\* What a client asks for.
LEMMA RequestFit ==
  ASSUME ops \in 0 .. MaxOps, NEW kind \in Kinds, NEW lazy \in Lazies, NEW o \in Request(kind, lazy),
         kind \in Changing => ops < MaxOps
  PROVE  /\ Fit(o) /\ o.step \in {"find", "enter"} /\ o.edits = << >> /\ o.base = None
         /\ o.obj = None /\ ~o.had
         /\ o.put = None => o.kind = kind /\ o.new = None
         /\ o.put # None => o.put = "check" /\ kind = "put" /\ o.new = ops + 2
  <1>0. kind \in {"list", "mkdir", "remove", "rename", "move", "copy", "put"} /\ lazy \in BOOLEAN
        /\ ops \in Nat /\ MaxOps \in Nat
    BY KindAssumption, Sets DEF Changing
  <1>1. CASE kind = "list"
    <2>1. PICK d \in Dir : \/ o = Start("list", d, "d")
                          \/ o = [Start("list", d, "d") EXCEPT !.refresh = TRUE]
      BY <1>1 DEF Request, Dir
    <2> DEFINE s == Start("list", d, "d")
    <2>2. Begun(s) /\ s.kind = "list" /\ ~s.had
      BY StartBegun DEF Name
    <2>3. o = s \/ o = [s EXCEPT !.refresh = TRUE]
      BY <2>1
    <2> HIDE DEF s
    <2>4. Begun(o) /\ o.kind = "list"
      BY <2>2, <2>3 DEF Begun, OpRec
    <2>5. ~o.had
      BY <2>2, <2>3 DEF Begun, OpRec
    <2>6. QED
      BY <1>1, <2>4, <2>5, BegunFits DEF Own
  <1>2. CASE kind = "put"
    <2> DEFINE s == Stage(Idle, "check", "get", "f")
               n == ops + 2
    <2>1. s \in OpRec
      BY IdleFit, StageFit DEF Stages, Name, Fit
    <2>2. /\ s.step = "find" /\ s.kind = "get"
          /\ s.obj = None /\ s.edits = << >> /\ s.base = None
          /\ s.put = "check" /\ s.need # << >>
      BY DEF Stage, Start, Idle
    <2>3. ~s.had
      BY DEF Stage, Start, Idle
    <2>4. o = [s EXCEPT !.new = n, !.lazy = lazy]
      BY <1>2 DEF Request
    <2>5. n \in Upload \ {0, 1}
      BY <1>0, <1>2 DEF Changing, Upload
    <2> HIDE DEF s, n
    <2>6. /\ o \in OpRec /\ o.step = "find" /\ o.kind = "get"
          /\ o.obj = None /\ o.edits = << >> /\ o.base = None
          /\ o.put = "check" /\ o.need # << >> /\ o.new = n
      BY <1>0, <2>1, <2>2, <2>4, <2>5 DEF OpRec
    <2>7. ~o.had
      BY <2>1, <2>3, <2>4 DEF OpRec
    <2>8. Asked(o)
      BY <2>5, <2>6, <2>7, Sets DEF Asked, Staged, Stages
    <2>9. Phase(o)
      BY <2>6 DEF Phase
    <2>10. QED
      BY <1>2, <2>6, <2>7, <2>8, <2>9, Sets DEF Fit, n, Stages
  <1>3. CASE kind = "mkdir"
    <2> DEFINE s == Start("mkdir", "root", "d")
    <2>1. Begun(s) /\ s.kind = "mkdir" /\ s.dir = "root" /\ s.name = "d" /\ ~s.had
      BY StartBegun DEF Changing, Dir, Name
    <2>2. o = [s EXCEPT !.lazy = lazy]
      BY <1>3 DEF Request
    <2> HIDE DEF s
    <2>3. Begun(o) /\ o.kind = "mkdir" /\ o.dir = "root" /\ o.name = "d"
      BY <1>0, <2>1, <2>2 DEF Begun, OpRec, Dir, Name
    <2>4. ~o.had
      BY <2>1, <2>2 DEF Begun, OpRec
    <2>5. QED
      BY <1>3, <2>3, <2>4, BegunFits DEF Own
  <1>4. CASE kind = "remove"
    <2>1. PICK d \in Dir, x \in Name : o = Start("remove", d, x) /\ <<d, x>> \in {<<"root", "d">>, <<"d", "f">>}
      BY <1>4 DEF Request, Dir, Name
    <2>2. Begun(o) /\ o.kind = "remove" /\ o.dir = d /\ o.name = x /\ ~o.had
      BY <2>1, StartBegun DEF Changing
    <2>3. QED
      BY <1>4, <2>1, <2>2, BegunFits DEF Own
  <1>5. CASE kind = "rename"
    <2> DEFINE s == Start("rename", "root", "d")
    <2>1. Begun(s) /\ s.kind = "rename" /\ s.dir = "root" /\ s.name = "d" /\ ~s.had
      BY StartBegun DEF Changing, Dir, Name
    <2>2. o = [s EXCEPT !.as = "e", !.lazy = lazy]
      BY <1>5 DEF Request
    <2> HIDE DEF s
    <2>3. Begun(o) /\ o.kind = "rename" /\ o.dir = "root" /\ o.name = "d" /\ o.as = "e"
      BY <1>0, <2>1, <2>2 DEF Begun, OpRec, Dir, Name
    <2>4. ~o.had
      BY <2>1, <2>2 DEF Begun, OpRec
    <2>5. QED
      BY <1>5, <2>3, <2>4, BegunFits DEF Own
  <1>6. CASE kind = "move"
    <2> DEFINE s == Start("move", "d", "f")
    <2>1. Begun(s) /\ s.kind = "move" /\ s.dir = "d" /\ s.name = "f" /\ ~s.had
      BY StartBegun DEF Changing, Dir, Name
    <2>2. o = [s EXCEPT !.to = "root", !.lazy = lazy]
      BY <1>6 DEF Request
    <2> HIDE DEF s
    <2>3. Begun(o) /\ o.kind = "move" /\ o.dir = "d" /\ o.name = "f" /\ o.to = "root"
      BY <1>0, <2>1, <2>2 DEF Begun, OpRec, Dir, Name
    <2>4. ~o.had
      BY <2>1, <2>2 DEF Begun, OpRec
    <2>5. QED
      BY <1>6, <2>3, <2>4, BegunFits DEF Own
  <1>7. CASE kind = "copy"
    <2> DEFINE s == Start("copy", "root", "f")
    <2>1. Begun(s) /\ s.kind = "copy" /\ s.dir = "root" /\ s.name = "f" /\ ~s.had
      BY StartBegun DEF Changing, Dir, Name
    <2> DEFINE v == <<<<"root", "f">>, <<"root", "d">>>>
    <2>0. v \in Seq(Dir \X Name) /\ v # << >>
      BY DEF Dir, Name
    <2>2. o = [s EXCEPT !.to = "d", !.lazy = lazy, !.need = v]
      BY <1>7 DEF Request
    <2> HIDE DEF s, v
    <2>3. Begun(o) /\ o.kind = "copy" /\ o.dir = "root" /\ o.name = "f" /\ o.to = "d"
      BY <1>0, <2>0, <2>1, <2>2, ZenonT(60) DEF Begun, OpRec, Dir, Name
    <2>4. ~o.had
      BY <2>1, <2>2 DEF Begun, OpRec
    <2>5. QED
      BY <1>7, <2>3, <2>4, BegunFits DEF Own
  <1>8. QED
    BY <1>0, <1>1, <1>2, <1>3, <1>4, <1>5, <1>6, <1>7

\* All that is said about types.
LEMMA TypesGive ==
  ASSUME Types, NEW c \in Client
  PROVE  /\ OpTypes /\ op[c] \in OpRec /\ Fit(op[c]) /\ Asked(op[c]) /\ Phase(op[c])
         /\ val[c] \in Listing \cup {None}
  BY DEF Types, OpTypes, Fit

\* The other clients go on where they are.
Others(c) == \A x \in Client : x # c => op'[x] = op[x]

\* A client begins an operation of its own.
LEMMA BeginEffect ==
  ASSUME Types, NEW c \in Client, Begin(c)
  PROVE  /\ op[c].step = "idle" /\ OpTypes' /\ Others(c)
         /\ op'[c].step \in {"find", "enter"} /\ op'[c].edits = << >> /\ op'[c].base = None
         /\ op'[c].obj = None /\ ~op'[c].had
         /\ op'[c].put = None => op'[c].new = None
         /\ op'[c].put # None => op'[c].put = "check" /\ op'[c].new = ops + 2 /\ ops' = ops + 1
         /\ op'[c].put = None /\ op'[c].kind \in {"remove", "rename", "move"} => touched'
         /\ touched => touched'
         /\ ops' \in 0 .. MaxOps /\ ops' \in {ops, ops + 1}
  <1>1. PICK kind \in Kinds, lazy \in Lazies : \E o \in Request(kind, lazy) :
          /\ kind \in Changing => ops < MaxOps
          /\ ops' = IF kind \in Changing THEN ops + 1 ELSE ops
          /\ touched' = (touched \/ kind \in {"remove", "rename", "move"})
          /\ Set(c, o)
    BY DEF Begin
  <1>2. PICK o \in Request(kind, lazy) :
          /\ kind \in Changing => ops < MaxOps
          /\ ops' = IF kind \in Changing THEN ops + 1 ELSE ops
          /\ touched' = (touched \/ kind \in {"remove", "rename", "move"})
          /\ Set(c, o)
    BY <1>1
  <1>3. ops \in 0 .. MaxOps /\ touched \in BOOLEAN /\ OpTypes /\ op[c].step = "idle"
    BY DEF Types, OpTypes, Begin, Is
  <1>4. /\ Fit(o) /\ o.step \in {"find", "enter"} /\ o.edits = << >> /\ o.base = None
        /\ o.obj = None /\ ~o.had
        /\ o.put = None => o.kind = kind /\ o.new = None
        /\ o.put # None => o.put = "check" /\ kind = "put" /\ o.new = ops + 2
    BY <1>2, <1>3, RequestFit
  <1>5. OpTypes' /\ op'[c] = o /\ Others(c)
    BY <1>2, <1>3, <1>4, SetEffect DEF Others
  <1>6. ops' \in 0 .. MaxOps /\ ops' \in {ops, ops + 1} /\ (kind = "put" => ops' = ops + 1)
    BY <1>2, <1>3, Sets DEF Changing
  <1>7. /\ touched => touched'
        /\ kind \in {"remove", "rename", "move"} => touched'
    BY <1>2, <1>3
  <1>8. /\ op'[c].step \in {"find", "enter"} /\ op'[c].edits = << >> /\ op'[c].base = None
        /\ op'[c].obj = None /\ ~op'[c].had
    BY <1>4, <1>5
  <1>9. /\ op'[c].put = None => op'[c].new = None
        /\ op'[c].put # None => op'[c].put = "check" /\ op'[c].new = ops + 2 /\ ops' = ops + 1
    BY <1>4, <1>5, <1>6
  <1>10. op'[c].put = None /\ op'[c].kind \in {"remove", "rename", "move"} => touched'
    BY <1>4, <1>5, <1>7
  <1>11. QED
    BY <1>3, <1>5, <1>6, <1>7, <1>8, <1>9, <1>10

\* A client goes to mkdirG.
LEMMA EnterEffect ==
  ASSUME Types, NEW c \in Client, Enter(c)
  PROVE  /\ op[c].step = "enter" /\ OpTypes' /\ Others(c)
         /\ Same(op[c], op'[c]) /\ op'[c].obj = op[c].obj
         /\ op'[c].step = IF Making = {} THEN "find" ELSE "join"
  <1> DEFINE o == op[c]
             s == IF Making = {} THEN "find" ELSE "join"
             p == [o EXCEPT !.step = s]
  <1>1. op[c].step = "enter" /\ Set(c, p)
    BY DEF Enter, Is
  <1>2. OpTypes /\ o \in OpRec /\ Asked(o) /\ Phase(o)
    BY TypesGive
  <1>3. s \in {"find", "join"} /\ s \in Steps
    BY DEF Steps
  <1> HIDE DEF o, s
  <1>4. p \in OpRec /\ Same(o, p) /\ p.step = s /\ p.obj = o.obj /\ p.need = o.need
    BY <1>2, <1>3 DEF OpRec, Same
  <1>5. Asked(p)
    BY <1>2, <1>4, SameAsked
  <1>6. o.step = "enter"
    BY <1>1 DEF o
  <1> HIDE DEF p
  <1>7. Phase(p)
    BY <1>2, <1>3, <1>4, <1>6 DEF Phase, Same
  <1>8. OpTypes' /\ op'[c] = p /\ Others(c)
    BY <1>1, <1>2, <1>4, <1>5, <1>7, SetEffect DEF Fit, Others
  <1>9. QED
    BY <1>4, <1>6, <1>8 DEF o, s

\* A client looks for "d" on its way.
LEMMA FindParentEffect ==
  ASSUME Types, NEW c \in Client, FindParent(c)
  PROVE  /\ op[c].step = "find" /\ op'[c].step = "find" /\ OpTypes' /\ Others(c)
         /\ Same(op[c], op'[c]) /\ op'[c].obj = op[c].obj
  <1> DEFINE o == op[c]
             p == [o EXCEPT !.parent = "look"]
  <1>1. op[c].step = "find" /\ Set(c, p)
    BY DEF FindParent, Finding, Is
  <1>2. OpTypes /\ o \in OpRec /\ Asked(o) /\ Phase(o)
    BY TypesGive
  <1>3. o.step = "find"
    BY <1>1
  <1> HIDE DEF o
  <1>4. p \in OpRec /\ Same(o, p) /\ p.step = "find" /\ p.obj = o.obj /\ p.need = o.need
    BY <1>2, <1>3 DEF OpRec, Same
  <1>5. Asked(p)
    BY <1>2, <1>4, SameAsked
  <1> HIDE DEF p
  <1>6. Phase(p)
    BY <1>2, <1>3, <1>4 DEF Phase, Same
  <1>7. OpTypes' /\ op'[c] = p /\ Others(c)
    BY <1>1, <1>2, <1>4, <1>5, <1>6, SetEffect DEF Fit, Others
  <1>8. QED
    BY <1>3, <1>4, <1>7 DEF o

\* The same call of the driver or of List, with other edits or another listing in
\* its hands.
SameCall(o, p) ==
  /\ p.kind = o.kind /\ p.dir = o.dir /\ p.name = o.name /\ p.to = o.to /\ p.as = o.as
  /\ p.lazy = o.lazy /\ p.put = o.put /\ p.new = o.new /\ p.had = o.had /\ p.obj = o.obj

\* It is what it was asked to be.
LEMMA SameCallAsked ==
  ASSUME NEW o, NEW p, Asked(o), SameCall(o, p) PROVE Asked(p)
  BY DEF Asked, Own, Staged, SameCall

\* The listing is read.
LEMMA ReadDirEffect ==
  ASSUME Types, key \in [Client -> Dir], NEW c \in Client, ReadDir(c)
  PROVE  /\ op[c].step = "find" /\ op'[c].step = "fill" /\ OpTypes' /\ Others(c)
         /\ SameCall(op[c], op'[c]) /\ op'[c].edits = << >> /\ op[c].edits = << >>
         /\ op'[c].base \in {None, tree[key[c]]} /\ role[c] = "run"
         /\ excused' = IF Open(key[c]) # {} THEN excused \cup {key[c]}
                       ELSE IF op'[c].base = None THEN excused ELSE excused \ {key[c]}
         /\ key[c] \in Dir
  <1> DEFINE o == op[c]
  <1>1. op[c].step = "find" /\ role[c] = "run"
    BY DEF ReadDir, Is
  <1>2. OpTypes /\ o \in OpRec /\ Asked(o) /\ Phase(o) /\ tree \in [Dir -> Listing]
    BY TypesGive DEF Types
  <1>3. PICK l \in {tree[key[c]], None} :
          /\ Set(c, [o EXCEPT !.step = "fill", !.base = l])
          /\ l = None => key[c] \in Unreadable \/ ~Exists(key[c])
          /\ excused' = IF Open(key[c]) # {} THEN excused \cup {key[c]}
                        ELSE IF l = None THEN excused ELSE excused \ {key[c]}
    BY DEF ReadDir
  <1> DEFINE p == [o EXCEPT !.step = "fill", !.base = l]
  <1>4. key[c] \in Dir
    OBVIOUS
  <1>5. l \in Listing \cup {None}
    BY <1>2, <1>4
  <1>6. o.step = "find"
    BY <1>1
  <1>7. Set(c, p)
    BY <1>3
  <1> HIDE DEF o
  <1>8. p \in OpRec /\ SameCall(o, p) /\ p.step = "fill" /\ p.need = o.need
        /\ p.base = l /\ p.edits = o.edits
    BY <1>2, <1>5 DEF OpRec, SameCall, Steps
  <1>9. Asked(p)
    BY <1>2, <1>8, SameCallAsked
  <1> HIDE DEF p
  <1>10. Phase(p)
    BY <1>2, <1>6, <1>8 DEF Phase, SameCall
  <1>11. OpTypes' /\ op'[c] = p /\ Others(c)
    BY <1>2, <1>7, <1>8, <1>9, <1>10, SetEffect DEF Fit, Others
  <1>12. o.edits = << >>
    BY <1>2, <1>6 DEF Phase
  <1>13. QED
    BY <1>1, <1>3, <1>4, <1>6, <1>8, <1>11, <1>12 DEF o

\* The listing is in the cache.
LEMMA FillEffect ==
  ASSUME Types, NEW c \in Client, Fill(c)
  PROVE  /\ op[c].step = "fill" /\ op'[c].step = "find" /\ OpTypes' /\ Others(c)
         /\ SameCall(op[c], op'[c]) /\ op'[c].edits = << >> /\ op[c].edits = << >>
         /\ op'[c].base = None
  <1> DEFINE o == op[c]
             p == [o EXCEPT !.step = "find", !.base = None]
  <1>1. op[c].step = "fill" /\ Set(c, p)
    BY DEF Fill, Is
  <1>2. OpTypes /\ o \in OpRec /\ Asked(o) /\ Phase(o)
    BY TypesGive
  <1>3. o.step = "fill"
    BY <1>1
  <1> HIDE DEF o
  <1>4. p \in OpRec /\ SameCall(o, p) /\ p.step = "find" /\ p.need = o.need
        /\ p.base = None /\ p.edits = o.edits
    BY <1>2 DEF OpRec, SameCall, Steps
  <1>5. Asked(p)
    BY <1>2, <1>4, SameCallAsked
  <1> HIDE DEF p
  <1>6. Phase(p)
    BY <1>2, <1>3, <1>4 DEF Phase, SameCall
  <1>7. OpTypes' /\ op'[c] = p /\ Others(c)
    BY <1>1, <1>2, <1>4, <1>5, <1>6, SetEffect DEF Fit, Others
  <1>8. o.edits = << >>
    BY <1>2, <1>3 DEF Phase
  <1>9. QED
    BY <1>3, <1>4, <1>7, <1>8 DEF o

\* A client takes the listing it has to edit.
LEMMA GrabEffect ==
  ASSUME Types, NEW c \in Client, Grab(c)
  PROVE  /\ op[c].step = "edit" /\ op'[c].step = "apply" /\ OpTypes' /\ Others(c)
         /\ SameCall(op[c], op'[c]) /\ op'[c].edits = op[c].edits /\ op[c].edits # << >>
         /\ op[c].edits \in Seq(EditRec)
         /\ op'[c].base = cache[op[c].edits[1].dir]
  <1> DEFINE o == op[c]
             l == cache[Head(o.edits).dir]
             p == [o EXCEPT !.step = "apply", !.base = l]
  <1>1. op[c].step = "edit" /\ Set(c, p)
    BY DEF Grab, Is
  <1>2. OpTypes /\ o \in OpRec /\ Asked(o) /\ Phase(o)
    BY TypesGive
  <1>3. o.step = "edit"
    BY <1>1
  <1>4. o.edits \in Seq(EditRec) /\ o.edits # << >>
    BY <1>2, <1>3 DEF OpRec, Phase
  <1>5. Head(o.edits) \in EditRec /\ Head(o.edits) = o.edits[1]
    BY <1>4
  <1>6. l \in Listing \cup {None}
    BY <1>5 DEF Types, EditRec
  <1>7. l = cache[o.edits[1].dir]
    BY <1>5
  <1> HIDE DEF o, l
  <1>8. p \in OpRec /\ SameCall(o, p) /\ p.step = "apply" /\ p.need = o.need
        /\ p.base = l /\ p.edits = o.edits
    BY <1>2, <1>6 DEF OpRec, SameCall, Steps
  <1>9. Asked(p)
    BY <1>2, <1>8, SameCallAsked
  <1> HIDE DEF p
  <1>10. Phase(p)
    BY <1>2, <1>3, <1>8 DEF Phase, SameCall
  <1>11. OpTypes' /\ op'[c] = p /\ Others(c)
    BY <1>1, <1>2, <1>8, <1>9, <1>10, SetEffect DEF Fit, Others
  <1>12. QED
    BY <1>3, <1>4, <1>7, <1>8, <1>11 DEF o

\* A client makes an edit: another one is left, or its operation ends.
LEMMA ApplyEffect ==
  ASSUME Types, NEW c \in Client, Apply(c)
  PROVE  /\ op[c].step = "apply" /\ op[c].edits \in Seq(EditRec) /\ op[c].edits # << >>
         /\ op[c].edits[1] \in EditRec
         /\ cache' = Edited(op[c].edits[1], op[c].base)
         /\ \/ /\ OpTypes' /\ Others(c) /\ op'[c].step = "edit" /\ SameCall(op[c], op'[c])
               /\ op'[c].edits = Tail(op[c].edits) /\ Tail(op[c].edits) # << >>
               /\ op'[c].base = None
            \/ End(c, op[c], TRUE) /\ Tail(op[c].edits) = << >>
  <1> DEFINE o == op[c]
             t == Tail(o.edits)
             p == [o EXCEPT !.step = "edit", !.edits = t, !.base = None]
  <1>1. /\ op[c].step = "apply" /\ cache' = Edited(Head(o.edits), o.base)
        /\ IF t = << >> THEN End(c, op[c], TRUE) ELSE Set(c, p)
    BY DEF Apply, Is
  <1>2. OpTypes /\ o \in OpRec /\ Asked(o) /\ Phase(o)
    BY TypesGive
  <1>3. o.step = "apply"
    BY <1>1
  <1>4. o.edits \in Seq(EditRec) /\ o.edits # << >> /\ o.kind \in Changing
    BY <1>2, <1>3 DEF OpRec, Phase
  <1>5. Head(o.edits) = o.edits[1] /\ t \in Seq(EditRec) /\ o.edits[1] \in EditRec
    BY <1>4
  <1>6. CASE t = << >>
    BY <1>1, <1>4, <1>5, <1>6
  <1>7. CASE t # << >>
    <2>1. Set(c, p)
      BY <1>1, <1>7
    <2> HIDE DEF o, t
    <2>2. p \in OpRec /\ SameCall(o, p) /\ p.step = "edit" /\ p.need = o.need
          /\ p.base = None /\ p.edits = t
      BY <1>2, <1>5 DEF OpRec, SameCall, Steps
    <2>3. Asked(p)
      BY <1>2, <2>2, SameCallAsked
    <2> HIDE DEF p
    <2>4. Phase(p)
      BY <1>2, <1>4, <1>7, <2>2 DEF Phase, SameCall
    <2>5. OpTypes' /\ op'[c] = p /\ Others(c)
      BY <1>2, <2>1, <2>2, <2>3, <2>4, SetEffect DEF Fit, Others
    <2>6. QED
      BY <1>1, <1>4, <1>5, <1>7, <2>2, <2>5 DEF o, t
  <1>8. QED
    BY <1>6, <1>7

\* The driver does what it is asked: the client owes edits, or its operation ends.
LEMMA CallEffect ==
  ASSUME Types, NEW c \in Client, NEW result \in BOOLEAN, Call(c, result)
  PROVE  LET es == Edits(op[c], result) IN
         /\ op[c].step = "call" /\ Shape(op[c]) /\ CanDo(op[c]) /\ tree' = Done(op[c])
         /\ op[c].edits = << >> /\ AllOK(es, op[c])
         /\ \A d \in About(op[c]) : tree'[d] # tree[d] => \E i \in 1 .. Len(es) : es[i].dir = d
         /\ excused' = excused \cup
              {d \in Dir : /\ tree'[d] # tree[d]
                           /\ \/ Open(d) # {}
                              \/ /\ \A i \in 1 .. Len(es) : es[i].dir # d
                                 /\ d \notin About(op[c]) /\ cache[d] # None}
         /\ \/ /\ OpTypes' /\ Others(c) /\ op'[c].step = "edit" /\ SameCall(op[c], op'[c])
               /\ op'[c].edits = es /\ es # << >> /\ op'[c].base = None
            \/ End(c, op[c], TRUE) /\ es = << >>
  <1> DEFINE o == op[c]
             es == Edits(o, result)
             p == [o EXCEPT !.step = "edit", !.edits = es]
  <1>1. /\ op[c].step = "call" /\ CanDo(o) /\ tree' = Done(o)
        /\ IF es = << >> THEN End(c, op[c], TRUE) ELSE Set(c, p)
    BY DEF Call, Is
  <1>2. OpTypes /\ o \in OpRec /\ Asked(o) /\ Phase(o) /\ tree \in [Dir -> Listing]
    BY TypesGive DEF Types
  <1>3. o.step = "call"
    BY <1>1
  <1>4. o.edits = << >> /\ o.base = None /\ o.kind \in Changing
    BY <1>2, <1>3 DEF Phase
  <1>5. Shape(o)
    BY <1>2, <1>4, AskedShape
  <1>6. AllOK(es, o) /\ \A d \in About(o) : Done(o)[d] # tree[d] => \E i \in 1 .. Len(es) : es[i].dir = d
    BY <1>1, <1>2, <1>5, EditsOK
  <1>7. es \in Seq(EditRec)
    BY <1>6 DEF AllOK
  <1>8. excused' = excused \cup
          {d \in Dir : /\ tree'[d] # tree[d]
                       /\ \/ Open(d) # {}
                          \/ /\ \A i \in 1 .. Len(es) : es[i].dir # d
                             /\ d \notin About(op[c]) /\ cache[d] # None}
    <2> DEFINE changed == {d \in Dir : tree'[d] # tree[d]}
               followed == {es[i].dir : i \in DOMAIN es}
    <2>1. excused' = excused \cup
            {d \in changed : Open(d) # {} \/ (d \notin followed \cup About(o) /\ cache[d] # None)}
      BY DEF Call
    <2>2. DOMAIN es = 1 .. Len(es)
      BY <1>7
    <2> HIDE DEF es
    <2>3. \A d : d \in followed <=> \E i \in 1 .. Len(es) : es[i].dir = d
      BY <2>2
    <2> HIDE DEF followed
    <2>4. QED
      BY <2>1, <2>3
  <1>9. CASE es = << >>
    BY <1>1, <1>4, <1>5, <1>6, <1>8, <1>9
  <1>10. CASE es # << >>
    <2>1. Set(c, p)
      BY <1>1, <1>10
    <2> HIDE DEF o, es
    <2>2. p \in OpRec /\ SameCall(o, p) /\ p.step = "edit" /\ p.need = o.need
          /\ p.base = o.base /\ p.edits = es
      BY <1>2, <1>7 DEF OpRec, SameCall, Steps
    <2>3. Asked(p)
      BY <1>2, <2>2, SameCallAsked
    <2> HIDE DEF p
    <2>4. Phase(p)
      BY <1>2, <1>4, <1>10, <2>2 DEF Phase, SameCall
    <2>5. OpTypes' /\ op'[c] = p /\ Others(c)
      BY <1>2, <2>1, <2>2, <2>3, <2>4, SetEffect DEF Fit, Others
    <2>6. QED
      BY <1>1, <1>4, <1>5, <1>6, <1>8, <1>10, <2>2, <2>5 DEF o, es
  <1>11. QED
    BY <1>9, <1>10

-----------------------------------------------------------------------------
(* Types, and who is in listG and mkdirG, after each action.                *)

\* The part of Types that the actions leave alone, or change by an assignment.
Rest ==
  /\ tree \in [Dir -> Listing]
  /\ cache \in [Dir -> Listing \cup {None}]
  /\ ops \in 0 .. MaxOps /\ excused \subseteq Dir /\ touched \in BOOLEAN
  /\ val \in [Client -> Listing \cup {None}]

\* Types is that and the shape of the operations.
LEMMA TypesParts == Types <=> Rest /\ OpTypes
  BY DEF Types, Rest, OpTypes

\* The single flight's types.
LEMMA FlightGives ==
  ASSUME LinkInv
  PROVE  /\ key \in [Client -> Dir] /\ m \in [Dir -> Client \cup {None}]
         /\ role \in [Client -> {"out", "run", "done", "wait", "got"}]
         /\ SFP!FlightInv /\ Roles /\ Joined
  BY DEF LinkInv, SFP!FlightInv, SFP!FlightTypes

\* A look-up, in the cache or with the listing a call of List ended with.
Looks(c, l) == (Hit(c) /\ l = cache[Cur(op[c])]) \/ (Take(c) /\ l = val[c])

\* The directory being looked at.
LEMMA CurIsDir ==
  ASSUME NEW o \in OpRec, o.need # << >> PROVE Cur(o) \in Dir
  <1>1. o.need \in Seq(Dir \X Name)
    BY DEF OpRec
  <1>2. o.need[1] \in Dir \X Name
    BY <1>1
  <1>3. QED
    BY <1>2 DEF Cur, Dir

\* What a look-up does to the operations.
LEMMA LooksEffect ==
  ASSUME Types, LinkInv, NEW c \in Client, NEW l, Looks(c, l)
  PROVE  /\ op[c].step = "find" /\ l \in Listing \cup {None}
         /\ (\E d \in Dir : l = cache[d]) \/ l = val[c]
         /\ UNCHANGED <<tree, cache, ops, excused, touched>>
         /\ \/ /\ OpTypes' /\ Others(c) /\ Same(op[c], op'[c]) /\ Seen(op[c], l, op'[c])
               /\ op'[c].step \in {"find", "call"}
            \/ \E p \in OpRec, ok \in BOOLEAN :
                 /\ End(c, p, ok) /\ Asked(p) /\ Same(op[c], p) /\ Seen(op[c], l, p)
                 /\ p.kind \in {"rename", "put"} => ~ok
  <1>1. OpTypes /\ op[c] \in OpRec /\ Phase(op[c]) /\ val[c] \in Listing \cup {None}
    BY TypesGive
  <1>2. /\ op[c].step = "find" /\ Got(c, l) /\ l \in Listing \cup {None}
        /\ (\E d \in Dir : l = cache[d]) \/ l = val[c]
        /\ UNCHANGED <<tree, cache, ops, excused, touched>>
    <2>1. CASE Hit(c) /\ l = cache[Cur(op[c])]
      <3>1. op[c].need # << >> /\ op[c].step = "find" /\ Got(c, l)
        BY <2>1 DEF Hit, Finding, Is
      <3>2. Cur(op[c]) \in Dir
        BY <1>1, <3>1, CurIsDir
      <3>3. cache \in [Dir -> Listing \cup {None}]
        BY DEF Types
      <3>4. QED
        BY <2>1, <3>1, <3>2, <3>3 DEF Hit
    <2>2. CASE Take(c) /\ l = val[c]
      <3>1. role[c] = "got" /\ Got(c, l)
        BY <2>2 DEF Take
      <3>2. op[c].step = "find"
        BY <3>1, FlightGives DEF Roles
      <3>3. QED
        BY <1>1, <2>2, <3>1, <3>2 DEF Take
    <2>3. QED
      BY <2>1, <2>2 DEF Looks
  <1>3. CASE \E p \in OpRec : /\ Set(c, p) /\ Fit(p) /\ Same(op[c], p) /\ Seen(op[c], l, p)
                             /\ p.step \in {"find", "call"}
    <2>1. PICK p \in OpRec : /\ Set(c, p) /\ Fit(p) /\ Same(op[c], p) /\ Seen(op[c], l, p)
                             /\ p.step \in {"find", "call"}
      BY <1>3
    <2>2. OpTypes' /\ op'[c] = p /\ Others(c)
      BY <1>1, <2>1, SetEffect DEF Others
    <2>3. QED
      BY <1>2, <2>1, <2>2
  <1>4. QED
    BY <1>1, <1>2, <1>3, GotEffect

\* What keeps Joined when one client goes on.
LEMMA JoinedOn ==
  ASSUME OpTypes, Joined, NEW c \in Client, Others(c),
         \/ op[c].kind # "mkdir" \/ op[c].step = "enter"
         \/ op'[c].kind = "mkdir" /\ op'[c].step \notin {"enter", "join"},
         op'[c].step = "join" => op[c].step = "join" \/ Making # {}
  PROVE  Joined'
  <1> SUFFICES ASSUME NEW x \in Client, op'[x].step = "join"
               PROVE  \E w \in Client : op'[w].kind = "mkdir" /\ op'[w].step \notin {"enter", "join"}
    BY DEF Joined, Is, Making
  <1>1. Making # {}
    <2>1. CASE x = c /\ op[c].step # "join"
      BY <2>1
    <2>2. CASE x # c \/ op[c].step = "join"
      BY <2>2 DEF Joined, Is, Others
    <2>3. QED
      BY <2>1, <2>2
  <1>2. PICK w \in Client : op[w].kind = "mkdir" /\ op[w].step \notin {"enter", "join"}
    BY <1>1 DEF Making
  <1>3. CASE w = c
    BY <1>2, <1>3
  <1>4. CASE w # c
    BY <1>2, <1>4 DEF Others
  <1>5. QED
    BY <1>3, <1>4

\* What keeps it when a call is over: a MakeDir takes those that wait with it.
LEMMA JoinedEnds ==
  ASSUME OpTypes, Joined, NEW c \in Client, NEW p \in OpRec, Asked(p), p.kind = op[c].kind,
         NEW ok \in BOOLEAN, End(c, p, ok)
  PROVE  Joined'
  <1>1. /\ Follows(p, ok, op'[c])
        /\ \A x \in Client : x # c =>
             \/ op'[x] = op[x]
             \/ p.kind = "mkdir" /\ op[x].step = "join" /\ Follows(op[x], ok, op'[x])
        /\ p.kind = "mkdir" => \A x \in Client : op'[x].step # "join"
    BY EndEffect
  <1>2. op'[c].step # "join"
    BY <1>1 DEF Follows
  <1> SUFFICES ASSUME NEW x \in Client, op'[x].step = "join"
               PROVE  \E w \in Client : op'[w].kind = "mkdir" /\ op'[w].step \notin {"enter", "join"}
    BY DEF Joined, Is, Making
  <1>3. p.kind # "mkdir" /\ op[x].step = "join"
    BY <1>1, <1>2
  <1>4. PICK w \in Client : op[w].kind = "mkdir" /\ op[w].step \notin {"enter", "join"}
    BY <1>3 DEF Joined, Is, Making
  <1>5. op'[w] = op[w]
    BY <1>1, <1>3, <1>4
  <1>6. QED
    BY <1>4, <1>5

\* What keeps Roles when one client goes on.
LEMMA RolesOn ==
  ASSUME Roles, NEW c \in Client, Others(c), \A x \in Client : x # c => role'[x] = role[x],
         op'[c].step = "fill" => role'[c] = "run",
         role'[c] # "out" => op'[c].step \in {"find", "fill"}
  PROVE  Roles'
  BY DEF Roles, Others

\* What keeps it when a call is over.
LEMMA RolesEnds ==
  ASSUME OpTypes, Roles, NEW c \in Client, NEW p \in OpRec, Asked(p), NEW ok \in BOOLEAN, End(c, p, ok),
         \A x \in Client : x # c => role'[x] = role[x], role'[c] = "out"
  PROVE  Roles'
  <1>1. /\ Follows(p, ok, op'[c])
        /\ \A x \in Client : x # c =>
             \/ op'[x] = op[x]
             \/ p.kind = "mkdir" /\ op[x].step = "join" /\ Follows(op[x], ok, op'[x])
    BY EndEffect
  <1>2. ASSUME NEW x \in Client
        PROVE  /\ op'[x].step = "fill" => role'[x] = "run"
               /\ role'[x] # "out" => op'[x].step \in {"find", "fill"}
    <2>1. CASE x = c
      BY <1>1, <2>1 DEF Follows
    <2>2. CASE x # c /\ op'[x] = op[x]
      BY <2>2 DEF Roles
    <2>3. CASE x # c /\ op[x].step = "join" /\ Follows(op[x], ok, op'[x])
      BY <2>3 DEF Roles, Follows
    <2>4. QED
      BY <1>1, <2>1, <2>2, <2>3
  <1>3. QED
    BY <1>2 DEF Roles

\* Nothing happens in listG.
LEMMA FlightSame ==
  ASSUME LinkInv, UNCHANGED flight PROVE SFP!FlightInv' /\ role' = role /\ val' = val /\ key' = key
  <1>1. UNCHANGED <<m, role, key, val, leader, forgotten>>
    BY DEF flight
  <1>2. SFP!FlightInv'
    BY <1>1, FlightGives, SFP!FlightStutters DEF SFP!sfvars
  <1>3. QED
    BY <1>1, <1>2

Core == Types /\ LinkInv

\* A client begins.
LEMMA BeginCore == ASSUME Core, NEW c \in Client, Begin(c) PROVE Core'
  <1>1. Types /\ LinkInv /\ SFP!FlightInv /\ Roles /\ Joined /\ OpTypes /\ Rest
    BY FlightGives, TypesParts DEF Core
  <1>2. /\ op[c].step = "idle" /\ OpTypes' /\ Others(c)
        /\ op'[c].step \in {"find", "enter"}
        /\ ops' \in 0 .. MaxOps
    BY <1>1, BeginEffect
  <1>0. touched' \in BOOLEAN
    <2>1. \E kind \in Kinds : touched' = (touched \/ kind \in {"remove", "rename", "move"})
      BY DEF Begin
    <2>2. QED
      BY <2>1
  <1>3. UNCHANGED <<tree, cache, excused>> /\ UNCHANGED flight
    BY DEF Begin
  <1>4. SFP!FlightInv' /\ role' = role /\ val' = val
    BY <1>1, <1>3, FlightSame
  <1>5. op[c].kind # "mkdir" /\ role[c] = "out"
    BY <1>1, <1>2, TypesGive DEF Phase, Roles
  <1>6. Joined'
    BY <1>1, <1>2, <1>5, JoinedOn
  <1>7. Roles'
    BY <1>1, <1>2, <1>4, <1>5, RolesOn
  <1>8. Rest'
    BY <1>0, <1>1, <1>2, <1>3, <1>4 DEF Rest
  <1>9. QED
    BY <1>2, <1>4, <1>6, <1>7, <1>8, TypesParts DEF Core, LinkInv, Types, OpTypes, Rest

\* It goes through mkdirG, or waits there.
LEMMA EnterCore == ASSUME Core, NEW c \in Client, Enter(c) PROVE Core'
  <1>1. Types /\ LinkInv /\ SFP!FlightInv /\ Roles /\ Joined /\ OpTypes /\ Rest
    BY FlightGives, TypesParts DEF Core
  <1>2. /\ op[c].step = "enter" /\ OpTypes' /\ Others(c)
        /\ op'[c].step = IF Making = {} THEN "find" ELSE "join"
    BY <1>1, EnterEffect
  <1>3. UNCHANGED <<tree, cache, ops, excused, touched>> /\ UNCHANGED flight
    BY DEF Enter
  <1>4. SFP!FlightInv' /\ role' = role /\ val' = val
    BY <1>1, <1>3, FlightSame
  <1>5. role[c] = "out"
    BY <1>1, <1>2 DEF Roles
  <1>6. Joined'
    BY <1>1, <1>2, JoinedOn
  <1>7. Roles'
    BY <1>1, <1>2, <1>4, <1>5, RolesOn
  <1>8. Rest'
    BY <1>1, <1>3, <1>4 DEF Rest
  <1>9. QED
    BY <1>2, <1>4, <1>6, <1>7, <1>8, TypesParts DEF Core, LinkInv, Types, OpTypes, Rest

\* It looks for the directory first.
LEMMA FindParentCore == ASSUME Core, NEW c \in Client, FindParent(c) PROVE Core'
  <1>1. Types /\ LinkInv /\ SFP!FlightInv /\ Roles /\ Joined /\ OpTypes /\ Rest
    BY FlightGives, TypesParts DEF Core
  <1>2. /\ op[c].step = "find" /\ op'[c].step = "find" /\ OpTypes' /\ Others(c)
        /\ Same(op[c], op'[c])
    BY <1>1, FindParentEffect
  <1>3. UNCHANGED <<tree, cache, ops, excused, touched>> /\ UNCHANGED flight
    BY DEF FindParent
  <1>4. SFP!FlightInv' /\ role' = role /\ val' = val
    BY <1>1, <1>3, FlightSame
  <1>5. op[c].kind # "mkdir" \/ op'[c].kind = "mkdir"
    BY <1>2 DEF Same
  <1>6. Joined'
    BY <1>1, <1>2, <1>5, JoinedOn
  <1>7. Roles'
    BY <1>1, <1>2, <1>4, RolesOn
  <1>8. Rest'
    BY <1>1, <1>3, <1>4 DEF Rest
  <1>9. QED
    BY <1>2, <1>4, <1>6, <1>7, <1>8, TypesParts DEF Core, LinkInv, Types, OpTypes, Rest

\* Looking at a listing, found in the cache or shared, keeps all that.
LEMMA LooksCore == ASSUME Core, NEW c \in Client, NEW l, Looks(c, l) PROVE Core'
  <1>1. Types /\ LinkInv /\ SFP!FlightInv /\ Roles /\ Joined /\ OpTypes /\ Rest
    BY FlightGives, TypesParts DEF Core
  <1>2. /\ op[c].step = "find" /\ UNCHANGED <<tree, cache, ops, excused, touched>>
        /\ \/ /\ OpTypes' /\ Others(c) /\ Same(op[c], op'[c])
              /\ op'[c].step \in {"find", "call"}
           \/ \E p \in OpRec, ok \in BOOLEAN : End(c, p, ok) /\ Asked(p) /\ Same(op[c], p)
    BY <1>1, LooksEffect
  <1>3. /\ SFP!FlightInv' /\ val' \in [Client -> Listing \cup {None}]
        /\ role'[c] = "out" /\ \A x \in Client : x # c => role'[x] = role[x]
    <2>1. CASE Hit(c)
      <3>1. UNCHANGED flight /\ role[c] = "out"
        BY <2>1 DEF Hit, Finding
      <3>2. SFP!FlightInv' /\ role' = role /\ val' = val
        BY <1>1, <3>1, FlightSame
      <3>3. QED
        BY <1>1, <3>1, <3>2 DEF Rest
    <2>2. CASE Take(c)
      <3>1. SF!Leave(c)
        BY <2>2 DEF Take
      <3>2. SFP!Leave(c)
        BY <3>1 DEF SF!Leave, SFP!Leave
      <3>3. SFP!FlightInv'
        BY <1>1, <3>2, SFP!LeaveKeeps, Sets
      <3>4. val' = [val EXCEPT ![c] = None] /\ role' = [role EXCEPT ![c] = "out"]
        BY <3>1 DEF SF!Leave
      <3>5. QED
        BY <1>1, <3>3, <3>4, FlightGives DEF Rest
    <2>3. QED
      BY <2>1, <2>2 DEF Looks
  <1>4. Rest'
    BY <1>1, <1>2, <1>3 DEF Rest
  <1>5. CASE /\ OpTypes' /\ Others(c) /\ Same(op[c], op'[c])
             /\ op'[c].step \in {"find", "call"}
    <2>1. op[c].kind # "mkdir" \/ op'[c].kind = "mkdir"
      BY <1>5 DEF Same
    <2>2. Joined'
      BY <1>1, <1>5, <2>1, JoinedOn
    <2>3. Roles'
      BY <1>1, <1>3, <1>5, RolesOn
    <2>4. QED
      BY <1>3, <1>4, <1>5, <2>2, <2>3, TypesParts DEF Core, LinkInv, Types, OpTypes, Rest
  <1>6. CASE \E p \in OpRec, ok \in BOOLEAN : End(c, p, ok) /\ Asked(p) /\ Same(op[c], p)
    <2>1. PICK p \in OpRec, ok \in BOOLEAN : End(c, p, ok) /\ Asked(p) /\ Same(op[c], p)
      BY <1>6
    <2>2. OpTypes'
      BY <1>1, <2>1, EndEffect
    <2>3. p.kind = op[c].kind
      BY <2>1 DEF Same
    <2>4. Joined'
      BY <1>1, <2>1, <2>3, JoinedEnds
    <2>5. Roles'
      BY <1>1, <1>3, <2>1, RolesEnds
    <2>6. QED
      BY <1>3, <1>4, <2>2, <2>4, <2>5, TypesParts DEF Core, LinkInv, Types, OpTypes, Rest
  <1>7. QED
    BY <1>2, <1>5, <1>6

\* It lists the directory itself, or joins who does.
LEMMA DoCore == ASSUME Core, NEW c \in Client, Do(c) PROVE Core'
  <1>1. Types /\ LinkInv /\ SFP!FlightInv /\ Roles /\ Joined /\ OpTypes /\ Rest
    BY FlightGives, TypesParts DEF Core
  <1> DEFINE d == Cur(op[c])
  <1>2. /\ op[c].step = "find" /\ op[c].need # << >>
        /\ SF!Lead(c, d) \/ SF!Join(c, d)
        /\ UNCHANGED <<tree, cache, op, ops, excused, touched>>
    BY DEF Do, Finding, Is
  <1>3. op[c] \in OpRec
    BY <1>1, TypesGive
  <1>4. d \in Dir
    BY <1>2, <1>3, CurIsDir
  <1> HIDE DEF d
  <1>5. /\ SFP!FlightInv' /\ val' \in [Client -> Listing \cup {None}]
        /\ \A x \in Client : x # c => role'[x] = role[x]
    <2>1. CASE SF!Lead(c, d)
      <3>1. SFP!Lead(c, d)
        BY <2>1 DEF SF!Lead, SFP!Lead, SF!Free, SFP!Free
      <3>2. SFP!FlightInv'
        BY <1>1, <1>4, <3>1, SFP!LeadKeeps, Sets
      <3>3. val' = val /\ role' = [role EXCEPT ![c] = "run"]
        BY <2>1 DEF SF!Lead
      <3>4. QED
        BY <1>1, <3>2, <3>3, FlightGives DEF Rest
    <2>2. CASE SF!Join(c, d)
      <3>1. SFP!Join(c, d)
        BY <2>2 DEF SF!Join, SFP!Join, SF!Free, SFP!Free
      <3>2. SFP!FlightInv'
        BY <1>1, <1>4, <3>1, SFP!JoinKeeps, Sets
      <3>3. m[d] \in Client
        BY <1>1, <1>4, <2>2, FlightGives DEF SF!Join, SF!Free
      <3>4. val' = val \/ val' = [val EXCEPT ![c] = val[m[d]]]
        BY <2>2 DEF SF!Join
      <3>5. val' \in [Client -> Listing \cup {None}]
        BY <1>1, <3>3, <3>4 DEF Rest
      <3>6. role' = [role EXCEPT ![c] = "wait"] \/ role' = [role EXCEPT ![c] = "got"]
        BY <2>2 DEF SF!Join
      <3>7. QED
        BY <1>1, <3>2, <3>5, <3>6, FlightGives
    <2>3. QED
      BY <1>2, <2>1, <2>2
  <1>6. Others(c) /\ op'[c].step = "find" /\ OpTypes'
    BY <1>1, <1>2 DEF Others, OpTypes, Fit
  <1>7. Joined'
    BY <1>1, <1>2 DEF Joined, Is, Making
  <1>8. Roles'
    BY <1>1, <1>5, <1>6, RolesOn
  <1>9. Rest'
    BY <1>1, <1>2, <1>5 DEF Rest
  <1>10. QED
    BY <1>5, <1>6, <1>7, <1>8, <1>9, TypesParts DEF Core, LinkInv, Types, OpTypes, Rest

\* The listing is read.
LEMMA ReadDirCore == ASSUME Core, NEW c \in Client, ReadDir(c) PROVE Core'
  <1>1. Types /\ LinkInv /\ SFP!FlightInv /\ Roles /\ Joined /\ OpTypes /\ Rest /\ key \in [Client -> Dir]
    BY FlightGives, TypesParts DEF Core
  <1>2. /\ op[c].step = "find" /\ op'[c].step = "fill" /\ OpTypes' /\ Others(c)
        /\ SameCall(op[c], op'[c]) /\ role[c] = "run" /\ key[c] \in Dir
        /\ excused' = IF Open(key[c]) # {} THEN excused \cup {key[c]}
                      ELSE IF op'[c].base = None THEN excused ELSE excused \ {key[c]}
    BY <1>1, ReadDirEffect
  <1>3. UNCHANGED <<tree, cache, ops, touched>> /\ UNCHANGED flight
    BY DEF ReadDir
  <1>4. SFP!FlightInv' /\ role' = role /\ val' = val
    BY <1>1, <1>3, FlightSame
  <1>5. op[c].kind # "mkdir" \/ op'[c].kind = "mkdir"
    BY <1>2 DEF SameCall
  <1>6. Joined'
    BY <1>1, <1>2, <1>5, JoinedOn
  <1>7. Roles'
    BY <1>1, <1>2, <1>4, RolesOn
  <1>8. Rest'
    BY <1>1, <1>2, <1>3, <1>4 DEF Rest
  <1>9. QED
    BY <1>2, <1>4, <1>6, <1>7, <1>8, TypesParts DEF Core, LinkInv, Types, OpTypes, Rest

\* It is in the cache, and those that wait for it have it.
LEMMA FillCore == ASSUME Core, NEW c \in Client, Fill(c) PROVE Core'
  <1> DEFINE l == op[c].base
  <1>1. /\ Types /\ LinkInv /\ SFP!FlightInv /\ Roles /\ Joined /\ OpTypes /\ Rest
        /\ key \in [Client -> Dir] /\ role \in [Client -> {"out", "run", "done", "wait", "got"}]
    BY FlightGives, TypesParts DEF Core
  <1>2. /\ op[c].step = "fill" /\ op'[c].step = "find" /\ OpTypes' /\ Others(c)
        /\ SameCall(op[c], op'[c])
    BY <1>1, FillEffect
  <1>3. /\ UNCHANGED <<tree, ops, excused, touched>> /\ SF!Finish(c, l)
        /\ cache' = IF l = None THEN cache ELSE [cache EXCEPT ![key[c]] = Kept(l)]
    BY DEF Fill
  <1>4. l \in Listing \cup {None}
    <2>1. op[c] \in OpRec
      BY <1>1, TypesGive
    <2>2. QED
      BY <2>1 DEF OpRec
  <1> HIDE DEF l
  <1>5. SFP!FlightInv'
    <2>1. SFP!Finish(c, l)
      BY <1>3 DEF SF!Finish, SFP!Finish, SF!Waiters, SFP!Waiters
    <2>2. QED
      BY <1>1, <2>1, SFP!FinishKeeps, Sets
  <1>6. /\ val' = [w \in Client |-> IF w = c \/ w \in SF!Waiters(c) THEN l ELSE val[w]]
        /\ role' = [w \in Client |->
             IF w = c THEN "done" ELSE IF w \in SF!Waiters(c) THEN "got" ELSE role[w]]
    BY <1>3 DEF SF!Finish
  <1>7. val' \in [Client -> Listing \cup {None}]
    BY <1>1, <1>4, <1>6 DEF Rest
  <1>8. Kept(l) \in Listing \cup {None}
    BY <1>4 DEF Kept
  <1>9. Rest'
    BY <1>1, <1>3, <1>4, <1>7, <1>8 DEF Rest
  <1>10. op[c].kind # "mkdir" \/ op'[c].kind = "mkdir"
    BY <1>2 DEF SameCall
  <1>11. Joined'
    BY <1>1, <1>2, <1>10, JoinedOn
  <1>12. Roles'
    <2>1. \A w \in SF!Waiters(c) : role[w] = "wait"
      BY DEF SF!Waiters
    <2>2. QED
      BY <1>1, <1>2, <1>6, <2>1 DEF Roles, Others
  <1>13. QED
    BY <1>2, <1>5, <1>9, <1>11, <1>12, TypesParts DEF Core, LinkInv, Types, OpTypes, Rest

\* The flight is over.
LEMMA UnmapCore == ASSUME Core, NEW c \in Client, Unmap(c) PROVE Core'
  <1>1. /\ Types /\ LinkInv /\ SFP!FlightInv /\ Roles /\ Joined /\ OpTypes /\ Rest
        /\ role \in [Client -> {"out", "run", "done", "wait", "got"}]
    BY FlightGives, TypesParts DEF Core
  <1>2. UNCHANGED <<tree, cache, op, ops, excused, touched>> /\ SF!Unmap(c)
    BY DEF Unmap
  <1>3. SFP!FlightInv'
    <2>1. SFP!Unmap(c)
      BY <1>2 DEF SF!Unmap, SFP!Unmap, SF!Mine, SFP!Mine
    <2>2. QED
      BY <1>1, <2>1, SFP!UnmapKeeps, Sets
  <1>4. role[c] = "done" /\ val' = val /\ role' = [role EXCEPT ![c] = "got"]
    BY <1>2 DEF SF!Unmap
  <1>5. op[c].step = "find"
    BY <1>1, <1>4 DEF Roles
  <1>6. Roles'
    BY <1>1, <1>2, <1>4, <1>5 DEF Roles
  <1>7. Joined'
    BY <1>1, <1>2 DEF Joined, Is, Making
  <1>8. Rest' /\ OpTypes'
    BY <1>1, <1>2, <1>4 DEF Rest, OpTypes, Fit
  <1>9. QED
    BY <1>3, <1>6, <1>7, <1>8, TypesParts DEF Core, LinkInv, Types, OpTypes, Rest

\* The call is over, and nothing happens in listG.
LEMMA EndCore ==
  ASSUME OpTypes, LinkInv, NEW c \in Client, op[c].step \notin {"find", "fill"},
         NEW ok \in BOOLEAN, End(c, op[c], ok), UNCHANGED flight
  PROVE  OpTypes' /\ LinkInv'
  <1>1. SFP!FlightInv /\ Roles /\ Joined /\ op[c] \in OpRec /\ Asked(op[c])
    BY FlightGives DEF OpTypes, Fit
  <1>2. SFP!FlightInv' /\ role' = role
    BY <1>1, FlightSame
  <1>3. role[c] = "out"
    BY <1>1 DEF Roles
  <1>4. OpTypes'
    BY <1>1, EndEffect
  <1>5. Joined'
    BY <1>1, JoinedEnds
  <1>6. Roles'
    BY <1>1, <1>2, <1>3, RolesEnds
  <1>7. QED
    BY <1>2, <1>4, <1>5, <1>6 DEF LinkInv

\* The call goes on, and nothing happens in listG.
LEMMA GoesOnCore ==
  ASSUME OpTypes, OpTypes', LinkInv, NEW c \in Client, Others(c), SameCall(op[c], op'[c]),
         op[c].step \notin {"find", "fill"}, op'[c].step \notin {"enter", "join", "fill"},
         UNCHANGED flight
  PROVE  LinkInv'
  <1>1. SFP!FlightInv /\ Roles /\ Joined
    BY FlightGives
  <1>2. SFP!FlightInv' /\ role' = role
    BY <1>1, FlightSame
  <1>3. role[c] = "out"
    BY <1>1 DEF Roles
  <1>4. op[c].kind # "mkdir" \/ op'[c].kind = "mkdir"
    BY DEF SameCall
  <1>5. Joined'
    BY <1>1, <1>4, JoinedOn
  <1>6. Roles'
    BY <1>1, <1>2, <1>3, RolesOn
  <1>7. QED
    BY <1>2, <1>5, <1>6 DEF LinkInv

\* The driver does what it is asked.
LEMMA CallCore == ASSUME Core, NEW c \in Client, NEW result \in BOOLEAN, Call(c, result) PROVE Core'
  <1> DEFINE es == Edits(op[c], result)
  <1>1. Types /\ LinkInv /\ OpTypes /\ Rest
    BY TypesParts DEF Core
  <1>2. /\ op[c].step = "call" /\ Shape(op[c]) /\ CanDo(op[c]) /\ tree' = Done(op[c])
        /\ excused' \subseteq excused \cup Dir
        /\ \/ /\ OpTypes' /\ Others(c) /\ op'[c].step = "edit" /\ SameCall(op[c], op'[c])
           \/ End(c, op[c], TRUE)
    BY <1>1, CallEffect, ZenonT(60)
  <1>3. UNCHANGED <<cache, ops, touched>> /\ UNCHANGED flight
    BY DEF Call
  <1>4. val' = val
    BY <1>3 DEF flight
  <1>5. tree' \in [Dir -> Listing]
    <2>1. op[c].kind \in {"mkdir", "remove", "rename", "move", "copy", "put"} /\ tree \in [Dir -> Listing]
      BY <1>1, <1>2 DEF Shape, Rest
    <2>2. QED
      BY <1>2, <2>1, DoneMkdir, DoneRemove, DoneRename, DoneMove, DoneCopy, DonePut
  <1>6. Rest'
    BY <1>1, <1>2, <1>3, <1>4, <1>5 DEF Rest
  <1>7. OpTypes' /\ LinkInv'
    <2>1. CASE End(c, op[c], TRUE)
      BY <1>1, <1>2, <1>3, <2>1, EndCore
    <2>2. CASE OpTypes' /\ Others(c) /\ op'[c].step = "edit" /\ SameCall(op[c], op'[c])
      BY <1>1, <1>2, <1>3, <2>2, GoesOnCore
    <2>3. QED
      BY <1>2, <2>1, <2>2
  <1>8. QED
    BY <1>6, <1>7, TypesParts DEF Core, Types, OpTypes, Rest

\* The driver fails.
LEMMA CallFailsCore == ASSUME Core, NEW c \in Client, CallFails(c) PROVE Core'
  <1>1. Types /\ LinkInv /\ OpTypes /\ Rest
    BY TypesParts DEF Core
  <1>2. /\ op[c].step = "call" /\ End(c, op[c], FALSE)
        /\ UNCHANGED <<tree, cache, ops, excused, touched>> /\ UNCHANGED flight
    BY DEF CallFails, Is
  <1>3. val' = val
    BY <1>2 DEF flight
  <1>4. OpTypes' /\ LinkInv'
    BY <1>1, <1>2, EndCore
  <1>5. Rest'
    BY <1>1, <1>2, <1>3 DEF Rest
  <1>6. QED
    BY <1>4, <1>5, TypesParts DEF Core, Types, OpTypes, Rest

\* An edit reads the cached listing.
LEMMA GrabCore == ASSUME Core, NEW c \in Client, Grab(c) PROVE Core'
  <1>1. Types /\ LinkInv /\ OpTypes /\ Rest
    BY TypesParts DEF Core
  <1>2. /\ op[c].step = "edit" /\ op'[c].step = "apply" /\ OpTypes' /\ Others(c)
        /\ SameCall(op[c], op'[c])
    BY <1>1, GrabEffect
  <1>3. UNCHANGED <<tree, cache, ops, excused, touched>> /\ UNCHANGED flight
    BY DEF Grab
  <1>4. val' = val
    BY <1>3 DEF flight
  <1>5. LinkInv'
    BY <1>1, <1>2, <1>3, GoesOnCore
  <1>6. Rest'
    BY <1>1, <1>3, <1>4 DEF Rest
  <1>7. QED
    BY <1>2, <1>5, <1>6, TypesParts DEF Core, Types, OpTypes, Rest

\* A listing with the edit made holds the edit's object and what was there.
LEMMA EdValues ==
  ASSUME NEW e \in EditRec, e.act # "clear", NEW l \in Listing
  PROVE  /\ Ed(e, l) \in Listing
         /\ \A x \in Name : Ed(e, l)[x] \in {None, e.new} \/ \E y \in Name : Ed(e, l)[x] = l[y]
  <1>1. /\ e.name \in Name /\ e.as \in Name /\ e.new \in Obj /\ e.act \in {"del", "upd", "add"}
        /\ None \in Obj /\ l \in [Name -> Obj]
    BY Sets DEF EditRec, Acts, Listing
  <1>2. CASE e.act = "del"
    <2>1. Ed(e, l) = [l EXCEPT ![e.name] = None]
      BY <1>2 DEF Ed
    <2>2. QED
      BY <1>1, <2>1 DEF Listing
  <1>3. CASE e.act = "upd"
    <2> DEFINE y == IF l[e.name] = None THEN None ELSE e.new
    <2>1. Ed(e, l) = [l EXCEPT ![e.as] = y, ![e.name] = None]
      BY <1>3 DEF Ed
    <2>2. y \in Obj /\ y \in {None, e.new}
      BY <1>1
    <2> HIDE DEF y
    <2>3. QED
      BY <1>1, <2>1, <2>2 DEF Listing
  <1>4. CASE e.act = "add"
    <2>1. Ed(e, l) = [l EXCEPT ![e.name] = e.new]
      BY <1>4 DEF Ed
    <2>2. QED
      BY <1>1, <2>1 DEF Listing
  <1>5. QED
    BY <1>1, <1>2, <1>3, <1>4

\* The cache once an edit is made: it sets one listing, drops some, or does nothing.
LEMMA EditedIs ==
  ASSUME NEW e \in EditRec, NEW l
  PROVE  /\ e.act # "clear" /\ l # None => Edited(e, l) = [cache EXCEPT ![e.dir] = Ed(e, l)]
         /\ e.act # "clear" /\ l = None => Edited(e, l) = cache
         /\ e.act = "clear" => Edited(e, l) =
              [d \in Dir |-> IF d = e.dir \/ (l # None /\ d # "root" /\ l[d] = Folder)
                             THEN None ELSE cache[d]]
  <1>1. e.act \in {"clear", "del", "upd", "add"}
    BY DEF EditRec, Acts
  <1>2. CASE e.act = "clear"
    BY <1>2 DEF Edited
  <1>3. CASE e.act # "clear" /\ l = None
    BY <1>3 DEF Edited
  <1>4. CASE e.act = "del" /\ l # None
    BY <1>4 DEF Edited, Ed
  <1>5. CASE e.act = "upd" /\ l # None
    BY <1>5 DEF Edited, Ed
  <1>6. CASE e.act = "add" /\ l # None
    BY <1>6 DEF Edited, Ed
  <1>7. QED
    BY <1>1, <1>2, <1>3, <1>4, <1>5, <1>6

\* An edit leaves a listing, or nothing, for every directory.
LEMMA EditedTypes ==
  ASSUME cache \in [Dir -> Listing \cup {None}], NEW e \in EditRec, NEW l \in Listing \cup {None}
  PROVE  Edited(e, l) \in [Dir -> Listing \cup {None}]
  <1>1. e.act # "clear" /\ l # None => Ed(e, l) \in Listing
    BY EdValues
  <1>2. e.dir \in Dir
    BY DEF EditRec
  <1>3. QED
    BY <1>1, <1>2, EditedIs

\* An edit is made.
LEMMA ApplyCore == ASSUME Core, NEW c \in Client, Apply(c) PROVE Core'
  <1>1. Types /\ LinkInv /\ OpTypes /\ Rest /\ op[c] \in OpRec
    BY TypesParts, TypesGive DEF Core
  <1>2. /\ op[c].step = "apply" /\ op[c].edits[1] \in EditRec
        /\ cache' = Edited(op[c].edits[1], op[c].base)
        /\ \/ /\ OpTypes' /\ Others(c) /\ op'[c].step = "edit" /\ SameCall(op[c], op'[c])
           \/ End(c, op[c], TRUE)
    BY <1>1, ApplyEffect
  <1>3. UNCHANGED <<tree, ops, excused, touched>> /\ UNCHANGED flight
    BY DEF Apply
  <1>4. val' = val
    BY <1>3 DEF flight
  <1>5. op[c].base \in Listing \cup {None}
    BY <1>1 DEF OpRec
  <1>6. cache' \in [Dir -> Listing \cup {None}]
    BY <1>1, <1>2, <1>5, EditedTypes DEF Rest
  <1>7. Rest'
    BY <1>1, <1>3, <1>4, <1>6 DEF Rest
  <1>8. OpTypes' /\ LinkInv'
    <2>1. CASE End(c, op[c], TRUE)
      BY <1>1, <1>2, <1>3, <2>1, EndCore
    <2>2. CASE OpTypes' /\ Others(c) /\ op'[c].step = "edit" /\ SameCall(op[c], op'[c])
      BY <1>1, <1>2, <1>3, <2>2, GoesOnCore
    <2>3. QED
      BY <1>2, <2>1, <2>2
  <1>9. QED
    BY <1>7, <1>8, TypesParts DEF Core, Types, OpTypes, Rest

\* A cached listing expires.
LEMMA ExpireCore == ASSUME Core, NEW d \in Dir, Expire(d) PROVE Core'
  <1>1. Types /\ LinkInv /\ OpTypes /\ Rest /\ Roles /\ Joined
    BY TypesParts, FlightGives DEF Core
  <1>2. /\ cache' = [cache EXCEPT ![d] = None] /\ (excused' = excused \ {d} \/ excused' = excused)
        /\ UNCHANGED <<tree, op, ops, touched>> /\ UNCHANGED flight
    BY DEF Expire
  <1>3. SFP!FlightInv' /\ role' = role /\ val' = val
    BY <1>1, <1>2, FlightSame
  <1>4. Rest' /\ OpTypes'
    BY <1>1, <1>2, <1>3 DEF Rest, OpTypes, Fit
  <1>5. Roles' /\ Joined'
    BY <1>1, <1>2, <1>3 DEF Roles, Joined, Is, Making
  <1>6. QED
    BY <1>3, <1>4, <1>5, TypesParts DEF Core, LinkInv, Types, OpTypes, Rest

\* Nobody does anything at first.
LEMMA InitCore == ASSUME Init PROVE Core
  <1>1. PICK size \in {0, 1} :
          /\ tree = [d \in Dir |-> IF d = "root" THEN [Empty EXCEPT !["d"] = Folder]
                                   ELSE [Empty EXCEPT !["f"] = size]]
          /\ touched = (size = 0)
    BY DEF Init
  <1>2. /\ cache = [d \in Dir |-> None] /\ op = [c \in Client |-> Idle] /\ ops = 0 /\ excused = {}
        /\ SF!SFInit
    BY DEF Init
  <1>3. SFP!FlightInv
    <2>1. SFP!SFInit
      BY <1>2 DEF SF!SFInit, SFP!SFInit
    <2>2. Dir # {}
      BY DEF Dir
    <2>3. QED
      BY <2>1, <2>2, SFP!FlightInitial, Sets
  <1>4. \A c \in Client : role[c] = "out" /\ op[c].step = "idle"
    BY <1>2, IdleFit DEF SF!SFInit
  <1>5. Roles /\ Joined
    BY <1>4 DEF Roles, Joined, Is
  <1>6. OpTypes
    BY <1>2, IdleFit DEF OpTypes, Fit
  <1>7. tree \in [Dir -> Listing]
    <2>1. [Empty EXCEPT !["d"] = Folder] \in Listing /\ [Empty EXCEPT !["f"] = size] \in Listing
      BY Sets DEF Listing
    <2>2. QED
      BY <1>1, <2>1
  <1>8. val \in [Client -> Listing \cup {None}]
    BY <1>2 DEF SF!SFInit
  <1>9. touched \in BOOLEAN
    BY <1>1
  <1>10. cache \in [Dir -> Listing \cup {None}] /\ ops \in 0 .. MaxOps /\ excused \subseteq Dir
    BY <1>2, Sets
  <1>11. Rest
    BY <1>7, <1>8, <1>9, <1>10 DEF Rest
  <1>12. QED
    BY <1>3, <1>5, <1>6, <1>11, TypesParts DEF Core, LinkInv

\* The steps one by one.
Steps1(c) ==
  \/ Begin(c) \/ Enter(c) \/ (\E l : Looks(c, l)) \/ FindParent(c) \/ Do(c) \/ ReadDir(c)
  \/ Fill(c) \/ Unmap(c) \/ (\E result \in BOOLEAN : Call(c, result)) \/ CallFails(c)
  \/ Grab(c) \/ Apply(c)

\* Every step is one of these.
LEMMA NextSteps ==
  ASSUME Next PROVE (\E c \in Client : Steps1(c)) \/ \E d \in Dir : Expire(d)
  <1>1. CASE \E d \in Dir : Expire(d)
    BY <1>1
  <1>2. ASSUME NEW c \in Client,
               \/ Begin(c) \/ Enter(c) \/ Hit(c) \/ FindParent(c) \/ Do(c) \/ ReadDir(c) \/ Fill(c)
               \/ Unmap(c) \/ Take(c)
               \/ \E result \in Results : Call(c, result)
               \/ CallFails(c) \/ Grab(c) \/ Apply(c)
        PROVE  Steps1(c)
    <2>1. CASE Hit(c)
      <3>1. Looks(c, cache[Cur(op[c])])
        BY <2>1 DEF Looks
      <3>2. QED
        BY <3>1 DEF Steps1
    <2>2. CASE Take(c)
      <3>1. Looks(c, val[c])
        BY <2>2 DEF Looks
      <3>2. QED
        BY <3>1 DEF Steps1
    <2>3. CASE \E result \in Results : Call(c, result)
      <3>1. \E result \in BOOLEAN : Call(c, result)
        BY <2>3, KindAssumption
      <3>2. QED
        BY <3>1 DEF Steps1
    <2>4. CASE \/ Begin(c) \/ Enter(c) \/ FindParent(c) \/ Do(c) \/ ReadDir(c) \/ Fill(c)
               \/ Unmap(c) \/ CallFails(c) \/ Grab(c) \/ Apply(c)
      BY <2>4 DEF Steps1
    <2>5. QED
      BY <1>2, <2>1, <2>2, <2>3, <2>4
  <1>3. QED
    BY <1>1, <1>2 DEF Next

\* Nothing happens.
LEMMA StutterCore == ASSUME Core, UNCHANGED vars PROVE Core'
  <1>1. Types /\ LinkInv /\ OpTypes /\ Rest /\ Roles /\ Joined
    BY TypesParts, FlightGives DEF Core
  <1>2. UNCHANGED <<tree, cache, op, ops, excused, touched>> /\ UNCHANGED flight
    BY DEF vars
  <1>3. SFP!FlightInv' /\ role' = role /\ val' = val
    BY <1>1, <1>2, FlightSame
  <1>4. Rest' /\ OpTypes'
    BY <1>1, <1>2, <1>3 DEF Rest, OpTypes, Fit
  <1>5. Roles' /\ Joined'
    BY <1>1, <1>2, <1>3 DEF Roles, Joined, Is, Making
  <1>6. QED
    BY <1>3, <1>4, <1>5, TypesParts DEF Core, LinkInv, Types, OpTypes, Rest

\* Every step keeps types and roles.
LEMMA CoreKept == Core /\ [Next]_vars => Core'
  <1> SUFFICES ASSUME Core, [Next]_vars PROVE Core'
    OBVIOUS
  <1>1. ASSUME NEW c \in Client, Steps1(c) PROVE Core'
    BY <1>1, BeginCore, EnterCore, LooksCore, FindParentCore, DoCore, ReadDirCore, FillCore,
       UnmapCore, CallCore, CallFailsCore, GrabCore, ApplyCore DEF Steps1
  <1>2. QED
    BY <1>1, NextSteps, ExpireCore, StutterCore

\* Types and roles hold in every state, whatever clients ask for and the driver does:
\* in particular every operation in progress is one of those fs.go can be in.
THEOREM CoreHolds == Spec => []Core
  <1>1. QED
    BY InitCore, CoreKept, PTL DEF Spec

\* listG (fs.go:24, 132): one listing of a directory at a time, however many clients ask
\* for it.
THEOREM OneFlightAlways == Spec => []OneFlight
  <1>1. Core => OneFlight
    <2> SUFFICES ASSUME Core PROVE OneFlight
      OBVIOUS
    <2>1. SFP!FlightInv
      BY DEF Core, LinkInv
    <2>2. SFP!OneFlight
      BY <2>1, SFP!MapGivesOneFlight
    <2>3. QED
      BY <2>2 DEF OneFlight, SF!OneFlight, SFP!OneFlight, SF!InFlight, SFP!InFlight
  <1>2. QED
    BY <1>1, CoreHolds, PTL

\* listG and mkdirG (fs.go:132, 313): nobody waits for a listing, or for a MakeDir, that is
\* over: a wake-up is never missed.
THEOREM WaitsForRunningAlways == Spec => []WaitsForRunning
  <1>1. Core => WaitsForRunning
    BY DEF Core, LinkInv, SFP!FlightInv, WaitsForRunning, SF!WaitsForRunning, SFP!WaitsForRunning, Joined
  <1>2. QED
    BY <1>1, CoreHolds, PTL

-----------------------------------------------------------------------------
(* The file an upload replaces is kept.                                     *)

\* What an operation that follows another has seen.
LEMMA SeesFollows ==
  ASSUME NEW o, NEW ok, NEW a, Follows(o, ok, a), o.obj # 0 PROVE Sees(a)
  <1>1. a.edits = << >> /\ a.base = None /\ a.obj \in {None, Folder} /\ (a.put = "empty" => o.obj = 0)
    BY DEF Follows
  <1>2. a.obj # 0
    BY <1>1, Sets
  <1>3. QED
    BY <1>1, <1>2 DEF Sees, NoZero

\* What an operation has seen after a look-up.
LEMMA SeesSame ==
  ASSUME NEW o, NEW l, NEW p, Same(o, p), Seen(o, l, p), NoZero(l), Sees(o) PROVE Sees(p)
  <1>1. p.edits = o.edits /\ p.base = o.base /\ p.put = o.put
    BY DEF Same
  <1>2. p.obj # 0
    BY Sets DEF Seen, NoZero, Sees
  <1>3. QED
    BY <1>1, <1>2 DEF Sees

\* Of what follows, only what follows the setting aside of the file owns it anew.
LEMMA OwnsFollows ==
  ASSUME NEW o, Fit(o), NEW p, p.put = o.put, p.had = o.had, NEW ok, NEW a, Follows(p, ok, a), Owns(a)
  PROVE  /\ o.put # None /\ (o.put = "aside" => ok)
         /\ o.step \in {"edit", "apply"} \/ o.put # "aside" => Owns(o)
         /\ a.put = "clean" => o.put = "send" /\ ok
         /\ a.put # "send" \/ a.step \notin {"edit", "apply"}
  <1>1. a.put # None /\ a.had /\ a.step \in {"idle", "find", "enter", "call"} /\ Fit(a)
    BY DEF Owns, Follows
  <1>2. a.put # "aside"
    BY <1>1 DEF Owns
  <1>3. a.put # "empty"
    BY <1>1, Sets DEF Fit, Asked, Staged, Stages
  <1>4. o.had /\ o.put # "check" /\ o.put # None
    BY <1>1, <1>2, <1>3 DEF Follows
  <1>5. o.put \notin {"clean", "recover"}
    BY <1>1 DEF Follows
  <1>6. a.put = "clean" => o.put = "send" /\ ok
    BY DEF Follows
  <1>7. o.put = "aside" => ok
    BY <1>1 DEF Follows
  <1>8. o.step \in {"edit", "apply"} \/ o.put # "aside" => Owns(o)
    BY <1>4, <1>5 DEF Owns
  <1>9. QED
    BY <1>1, <1>4, <1>6, <1>7, <1>8

\* What a step leaves to a client while the tree stays as it is.
KeptFor(x) ==
  /\ Owns(op'[x]) => Owns(op[x])
  /\ Safe(op'[x])
  /\ op'[x].put = None => op'[x].kind \in {"list", "mkdir", "copy"}

\* A step that leaves the tree as it is.
LEMMA QuietKeeps ==
  ASSUME Peaceful, Owned, tree' = tree, \A x \in Client : KeptFor(x)
  PROVE  Peaceful' /\ Owned'
  <1>1. \A x : Content(x)' <=> Content(x)
    BY DEF Content
  <1>2. Peaceful'
    BY DEF Peaceful, KeptFor
  <1>3. \A x \in Client : Safe(op[x])'
    BY <1>1 DEF KeptFor, Safe
  <1>4. \A x \in Client : Owns(op[x])' => Owns(op[x])
    BY DEF KeptFor
  <1>5. Owned'
    BY <1>1, <1>3, <1>4 DEF Owned
  <1>6. QED
    BY <1>2, <1>5

\* Nothing happens to a client.
LEMMA KeptSame ==
  ASSUME Peaceful, Owned, NEW x \in Client, op'[x] = op[x] PROVE KeptFor(x)
  BY DEF Peaceful, Owned, KeptFor

\* A client goes on with its call.
LEMMA KeptOn ==
  ASSUME Peaceful, Owned, NEW x \in Client,
         op'[x].put = op[x].put, op'[x].had = op[x].had, op'[x].kind = op[x].kind,
         op'[x].step \in {"edit", "apply"} <=> op[x].step \in {"edit", "apply"}
  PROVE  KeptFor(x)
  <1>1. Owns(op'[x]) <=> Owns(op[x])
    BY DEF Owns
  <1>2. Safe(op'[x])
    BY <1>1 DEF Owned, Safe
  <1>3. QED
    BY <1>1, <1>2 DEF KeptFor, Peaceful

\* The call is over, and it did not set the file aside.
LEMMA KeptEnds ==
  ASSUME Peaceful, Owned, OpTypes, NEW x \in Client, NEW p, p.put = op[x].put, p.had = op[x].had,
         NEW ok, Follows(p, ok, op'[x]),
         op[x].step \in {"edit", "apply"} \/ (op[x].put \in {"aside", "send"} => ~ok)
  PROVE  KeptFor(x)
  <1>1. Fit(op[x])
    BY DEF OpTypes
  <1>2. op'[x].put = None => op'[x].kind = "list"
    BY DEF Follows
  <1>3. CASE ~Owns(op'[x])
    BY <1>2, <1>3 DEF KeptFor, Safe
  <1>4. CASE Owns(op'[x])
    <2>1. /\ op[x].put # None /\ (op[x].put = "aside" => ok)
          /\ op[x].step \in {"edit", "apply"} \/ op[x].put # "aside" => Owns(op[x])
          /\ op'[x].put = "clean" => op[x].put = "send" /\ ok
          /\ op'[x].put # "send" \/ op'[x].step \notin {"edit", "apply"}
      BY <1>1, <1>4, OwnsFollows
    <2>2. Owns(op[x])
      BY <2>1
    <2>3. Safe(op'[x])
      <3>1. CASE op'[x].put = "clean"
        <4>1. op[x].step \in {"edit", "apply"} /\ op[x].put = "send"
          BY <2>1, <3>1
        <4>2. Content("f")
          BY <2>2, <4>1 DEF Owned, Safe
        <4>3. QED
          BY <4>2 DEF Safe
      <3>2. CASE op'[x].put # "clean"
        BY <2>1, <3>2 DEF Safe
      <3>3. QED
        BY <3>1, <3>2
    <2>4. QED
      BY <1>2, <2>2, <2>3 DEF KeptFor
  <1>5. QED
    BY <1>3, <1>4

\* A call that ends takes only waiting MakeDirs with it.
LEMMA EndKeeps ==
  ASSUME NoneEmpty, Peaceful, Owned, OpTypes, tree' = tree,
         NEW c \in Client, NEW p \in OpRec, Asked(p), p.put = op[c].put, p.had = op[c].had, p.obj # 0,
         NEW ok \in BOOLEAN, End(c, p, ok),
         op[c].step \in {"edit", "apply"} \/ (op[c].put \in {"aside", "send"} => ~ok)
  PROVE  Peaceful' /\ Owned' /\ \A x \in Client : Sees(op'[x])
  <1>1. /\ Follows(p, ok, op'[c])
        /\ \A x \in Client : x # c =>
             \/ op'[x] = op[x]
             \/ p.kind = "mkdir" /\ op[x].step = "join" /\ Follows(op[x], ok, op'[x])
    BY EndEffect
  <1>2. ASSUME NEW x \in Client PROVE KeptFor(x) /\ Sees(op'[x])
    <2>1. CASE x = c
      <3>1. KeptFor(c)
        BY <1>1, KeptEnds
      <3>2. Sees(op'[c])
        BY <1>1, SeesFollows
      <3>3. QED
        BY <2>1, <3>1, <3>2
    <2>2. CASE x # c /\ op'[x] = op[x]
      BY <2>2, KeptSame DEF NoneEmpty
    <2>3. CASE x # c /\ op[x].step = "join" /\ Follows(op[x], ok, op'[x])
      <3>1. op[x].kind = "mkdir" /\ Asked(op[x])
        BY <2>3 DEF OpTypes, Fit, Phase
      <3>2. op[x].put \notin {"aside", "send"}
        BY <3>1, Sets DEF Asked, Staged, Stages
      <3>3. KeptFor(x)
        BY <2>3, <3>2, KeptEnds
      <3>4. op[x].obj # 0
        BY DEF NoneEmpty, Sees
      <3>5. Sees(op'[x])
        BY <2>3, <3>4, SeesFollows
      <3>6. QED
        BY <3>3, <3>5
    <2>4. QED
      BY <1>1, <2>1, <2>2, <2>3
  <1>3. QED
    BY <1>2, QuietKeeps

\* One client goes on with its call.
LEMMA OnKeeps ==
  ASSUME NoneEmpty, Peaceful, Owned, tree' = tree, NEW c \in Client, Others(c),
         op'[c].put = op[c].put, op'[c].had = op[c].had, op'[c].kind = op[c].kind,
         op'[c].step \in {"edit", "apply"} <=> op[c].step \in {"edit", "apply"}, Sees(op'[c])
  PROVE  Peaceful' /\ Owned' /\ \A x \in Client : Sees(op'[x])
  <1>1. ASSUME NEW x \in Client PROVE KeptFor(x) /\ Sees(op'[x])
    <2>1. CASE x = c
      BY <2>1, KeptOn
    <2>2. CASE x # c
      BY <2>2, KeptSame DEF NoneEmpty, Others
    <2>3. QED
      BY <2>1, <2>2
  <1>2. QED
    BY <1>1, QuietKeeps

\* Nobody does anything to the tree or the operations.
LEMMA IdleKeeps ==
  ASSUME NoneEmpty, Peaceful, Owned, tree' = tree, op' = op
  PROVE  Peaceful' /\ Owned' /\ \A x \in Client : Sees(op'[x])
  <1>1. \A x \in Client : KeptFor(x) /\ Sees(op'[x])
    BY KeptSame DEF NoneEmpty
  <1>2. QED
    BY <1>1, QuietKeeps

\* NoneEmpty, part by part.
LEMMA NoneEmptyParts ==
  ASSUME \A d \in Dir : NoZero(tree'[d]), \A d \in Dir : NoZero(cache'[d]),
         \A x \in Client : NoZero(val'[x]), \A x \in Client : Sees(op'[x])
  PROVE  NoneEmpty'
  BY DEF NoneEmpty, NoZero, Sees

\* Where the upload's file is, before and after a call.
LEMMA PeacefulCall ==
  ASSUME Types, NoneEmpty, Peaceful, Owned, NEW c \in Client, op[c].step = "call",
         Shape(op[c]), CanDo(op[c])
  PROVE  \/ op[c].put = "aside" /\ op[c].kind = "rename" /\ op[c].dir = "d" /\ op[c].name = "f"
            /\ op[c].as = "temp" /\ op[c].had
         \/ op[c].put = "recover" /\ op[c].kind = "rename" /\ op[c].dir = "d" /\ op[c].name = "temp"
            /\ op[c].as = "f" /\ op[c].had
         \/ op[c].put = "clean" /\ op[c].kind = "remove" /\ op[c].dir = "d" /\ op[c].name = "temp"
            /\ op[c].had
         \/ op[c].put = "send" /\ op[c].kind = "put"
  <1> DEFINE o == op[c]
  <1>1. Asked(o) /\ Phase(o) /\ tree \in [Dir -> Listing]
    BY TypesGive DEF Types
  <1>2. tree["root"]["d"] = Folder /\ tree["root"]["f"] = None /\ Folder # None
    BY Sets DEF Peaceful
  <1>3. o.kind \in Changing
    BY <1>1 DEF Phase
  <1>4. o.kind # "mkdir"
    BY <1>1, <1>2, DoneMkdir
  <1>5. o.kind # "copy"
    BY <1>1, <1>2, DoneCopy
  <1>6. o.put # None
    <2>1. ASSUME o.put = None PROVE FALSE
      <3>1. o.kind \in {"list", "mkdir", "copy"}
        BY <2>1 DEF Peaceful
      <3>2. QED
        BY <1>3, <1>4, <1>5, <3>1 DEF Changing
    <2>2. QED
      BY <2>1
  <1>7. o.put # "empty"
    BY DEF NoneEmpty, Sees
  <1> HIDE DEF o
  <1>8. Staged(o)
    BY <1>1, <1>6 DEF Asked
  <1>9. o.kind # "get"
    BY <1>3 DEF Changing
  <1>10. \/ o.put = "aside" /\ o.kind = "rename" /\ o.dir = "d" /\ o.name = "f" /\ o.as = "temp" /\ o.had
         \/ o.put = "recover" /\ o.kind = "rename" /\ o.dir = "d" /\ o.name = "temp" /\ o.as = "f" /\ o.had
         \/ o.put = "clean" /\ o.kind = "remove" /\ o.dir = "d" /\ o.name = "temp" /\ o.had
         \/ o.put = "send" /\ o.kind = "put"
    BY <1>4, <1>7, <1>8, <1>9 DEF Staged
  <1>11. QED
    BY <1>10 DEF o

\* Nothing is in the driver's listings after a call that was not there, or sent, before.
LEMMA DoneValues ==
  ASSUME tree \in [Dir -> Listing], NEW o, Shape(o), CanDo(o), NEW d \in Dir, NEW x \in Name
  PROVE  \/ Done(o)[d][x] \in {None, Folder}
         \/ o.kind = "put" /\ Done(o)[d][x] = o.new /\ d = "d" /\ x = "f"
         \/ \E y \in Name, e \in Dir : Done(o)[d][x] = tree[e][y]
  <1>0. /\ d = "root" \/ d = "d"
        /\ "f" \in Name /\ "d" \in Name /\ "root" \in Dir /\ "d" \in Dir
    BY DEF Dir, Name
  <1>1. CASE o.kind = "mkdir"
    <2>1. Done(o)["root"] = [tree["root"] EXCEPT !["d"] = Folder] /\ Done(o)["d"] = tree["d"]
      BY <1>1, DoneMkdir
    <2>2. QED
      BY <1>0, <2>1 DEF Listing
  <1>2. CASE o.kind = "remove"
    <2>1. /\ o.dir = "root" \/ o.dir = "d"
          /\ Done(o)[o.dir] = [tree[o.dir] EXCEPT ![o.name] = None]
          /\ o.dir = "root" => o.name = "d" /\ Done(o)["d"] = Empty
          /\ o.dir = "d" => Done(o)["root"] = tree["root"]
      BY <1>2, DoneRemove DEF Shape
    <2>2. CASE o.dir = "root"
      BY <1>0, <2>1, <2>2 DEF Listing, Empty
    <2>3. CASE o.dir = "d"
      BY <1>0, <2>1, <2>3 DEF Listing
    <2>4. QED
      BY <2>1, <2>2, <2>3
  <1>3. CASE o.kind = "rename"
    <2>1. /\ o.dir = "root" \/ o.dir = "d"
          /\ Done(o)[o.dir] = [tree[o.dir] EXCEPT ![o.name] = None, ![o.as] = tree[o.dir][o.name]]
          /\ o.dir = "root" => o.name = "d" /\ Done(o)["d"] = Empty
          /\ o.dir = "d" => Done(o)["root"] = tree["root"]
          /\ o.name \in Name /\ o.as \in Name
      BY <1>3, DoneRename DEF Shape, Name
    <2>2. CASE o.dir = "root"
      BY <1>0, <2>1, <2>2 DEF Listing, Empty
    <2>3. CASE o.dir = "d"
      BY <1>0, <2>1, <2>3 DEF Listing
    <2>4. QED
      BY <2>1, <2>2, <2>3
  <1>4. CASE o.kind = "move"
    <2>1. /\ Done(o)["d"] = [tree["d"] EXCEPT !["f"] = None]
          /\ Done(o)["root"] = [tree["root"] EXCEPT !["f"] = tree["d"]["f"]]
      BY <1>4, DoneMove
    <2>2. QED
      BY <1>0, <2>1 DEF Listing
  <1>5. CASE o.kind = "copy"
    <2>1. /\ Done(o)["d"] = [tree["d"] EXCEPT !["f"] = tree["root"]["f"]]
          /\ Done(o)["root"] = tree["root"]
      BY <1>5, DoneCopy
    <2>2. QED
      BY <1>0, <2>1 DEF Listing
  <1>6. CASE o.kind = "put"
    <2>1. /\ Done(o)["d"] = [tree["d"] EXCEPT !["f"] = o.new] /\ Done(o)["root"] = tree["root"]
      BY <1>6, DonePut
    <2>2. QED
      BY <1>0, <1>6, <2>1 DEF Listing
  <1>7. QED
    BY <1>1, <1>2, <1>3, <1>4, <1>5, <1>6 DEF Shape

\* The upload's file after a call: a rename of it, a removal of what was set aside, or
\* its new content.
LEMMA CallOwned ==
  ASSUME Types, OpTypes', NoneEmpty, Peaceful, Owned, NEW c \in Client, NEW result \in BOOLEAN,
         Call(c, result)
  PROVE  Peaceful' /\ Owned'
  <1> DEFINE o == op[c]
             a == op'[c]
  <1>1. /\ o.step = "call" /\ Shape(o) /\ CanDo(o) /\ tree' = Done(o)
        /\ \/ Others(c) /\ a.step = "edit" /\ SameCall(o, a)
           \/ End(c, o, TRUE)
    BY CallEffect
  <1>2. /\ tree \in [Dir -> Listing] /\ Fit(o) /\ OpTypes /\ "d" \in Dir /\ "root" \in Dir
        /\ "f" \in Name /\ "temp" \in Name /\ o \in OpRec
    BY TypesGive DEF Types, Dir, Name
  <1>3. \/ o.put = "aside" /\ o.kind = "rename" /\ o.dir = "d" /\ o.name = "f" /\ o.as = "temp" /\ o.had
        \/ o.put = "recover" /\ o.kind = "rename" /\ o.dir = "d" /\ o.name = "temp" /\ o.as = "f" /\ o.had
        \/ o.put = "clean" /\ o.kind = "remove" /\ o.dir = "d" /\ o.name = "temp" /\ o.had
        \/ o.put = "send" /\ o.kind = "put"
    BY <1>1, PeacefulCall
  <1>4. Others(c) /\ ((SameCall(o, a) /\ a.step = "edit") \/ Follows(o, TRUE, a))
    <2>1. CASE End(c, o, TRUE)
      <3>1. Asked(o)
        BY <1>2 DEF Fit
      <3>2. /\ Follows(o, TRUE, a)
            /\ \A x \in Client : x # c =>
                 \/ op'[x] = op[x]
                 \/ o.kind = "mkdir" /\ op[x].step = "join" /\ Follows(op[x], TRUE, op'[x])
        BY <1>2, <2>1, <3>1, EndEffect
      <3>3. QED
        BY <1>3, <3>2 DEF Others
    <2>2. QED
      BY <1>1, <2>1
  <1>5. a.put = None => a.kind \in {"list", "mkdir", "copy"}
    <2>1. CASE SameCall(o, a)
      BY <1>3, <2>1, <1>2, Sets DEF SameCall, Peaceful
    <2>2. CASE Follows(o, TRUE, a)
      BY <2>2 DEF Follows
    <2>3. QED
      BY <1>4, <2>1, <2>2
  <1>6. ASSUME Owns(a)
        PROVE  /\ o.put \notin {"clean", "recover"} /\ (o.put = "send" => Owns(o))
               /\ a.put = "clean" => o.put = "send"
               /\ a.put = "send" /\ a.step \in {"edit", "apply"} => o.put = "send"
    <2>1. CASE SameCall(o, a) /\ a.step = "edit"
      BY <1>1, <1>6, <2>1 DEF SameCall, Owns
    <2>2. CASE Follows(o, TRUE, a)
      <3>1. /\ o.put # "aside" => Owns(o)
            /\ a.put = "clean" => o.put = "send"
            /\ a.put # "send" \/ a.step \notin {"edit", "apply"}
        BY <1>2, <1>6, <2>2, OwnsFollows
      <3>2. o.put \in {"clean", "recover"} => a.put = None
        BY <2>2, Sets DEF Follows
      <3>3. QED
        BY <1>6, <3>1, <3>2 DEF Owns
    <2>3. QED
      BY <1>4, <2>1, <2>2
  <1>7. tree["d"]["f"] \in Obj /\ tree["d"]["temp"] \in Obj
    BY <1>2 DEF Listing
  <1>8. \A x \in {"f", "temp"} : tree["d"][x] # None => Content(x)
    BY <1>2, <1>7, Sets DEF NoneEmpty, NoZero, Peaceful, Content, Obj
  <1>9. /\ \A x \in Client : x # c => op'[x] = op[x]
        /\ tree["root"]["d"] = Folder /\ tree["root"]["f"] = None
        /\ tree["d"]["f"] # Folder /\ tree["d"]["temp"] # Folder
        /\ \A x \in Client : op[x].put = None => op[x].kind \in {"list", "mkdir", "copy"}
    BY <1>4 DEF Others, Peaceful
  <1>10. None # Folder /\ None \notin Upload /\ Folder \notin Upload
    BY Sets
  <1>11. CASE o.put = "aside"
    <2>1. /\ tree["d"]["f"] # None /\ tree["d"]["temp"] = None
          /\ tree'["d"] = [tree["d"] EXCEPT !["f"] = None, !["temp"] = tree["d"]["f"]]
          /\ tree'["root"] = tree["root"]
      BY <1>1, <1>2, <1>3, <1>11, DoneRename
    <2>2. tree'["d"]["f"] = None /\ tree'["d"]["temp"] = tree["d"]["f"]
      BY <1>2, <2>1 DEF Listing
    <2>3. Peaceful'
      BY <1>5, <1>9, <1>10, <2>1, <2>2 DEF Peaceful
    <2>4. Content("temp")' /\ ~Content("temp")
      BY <1>8, <1>10, <2>1, <2>2 DEF Content
    <2>5. \A x \in Client : ~Owns(op[x])
      BY <2>4 DEF Owned
    <2>6. ~(a.put = "clean" \/ (a.put = "send" /\ a.step \in {"edit", "apply"})) \/ ~Owns(a)
      BY <1>6, <1>11
    <2>7. Owned'
      BY <1>9, <2>4, <2>5, <2>6 DEF Owned, Safe
    <2>8. QED
      BY <2>3, <2>7
  <1>12. CASE o.put = "recover"
    <2>1. /\ tree["d"]["temp"] # None /\ tree["d"]["f"] = None
          /\ tree'["d"] = [tree["d"] EXCEPT !["temp"] = None, !["f"] = tree["d"]["temp"]]
          /\ tree'["root"] = tree["root"]
      BY <1>1, <1>2, <1>3, <1>12, DoneRename
    <2>2. tree'["d"]["temp"] = None /\ tree'["d"]["f"] = tree["d"]["temp"]
      BY <1>2, <2>1 DEF Listing
    <2>3. Peaceful'
      BY <1>5, <1>9, <1>10, <2>1, <2>2 DEF Peaceful
    <2>4. Content("f")'
      BY <1>8, <2>1, <2>2 DEF Content
    <2>5. Owns(o)
      BY <1>1, <1>2, <1>3, <1>12, Sets DEF Owns, Stages
    <2>6. \A x \in Client : ~Owns(op'[x])
      BY <1>6, <1>9, <1>12, <2>5 DEF Owned
    <2>7. Owned'
      BY <2>4, <2>6 DEF Owned, Safe
    <2>8. QED
      BY <2>3, <2>7
  <1>13. CASE o.put = "clean"
    <2>1. /\ tree'["d"] = [tree["d"] EXCEPT !["temp"] = None]
          /\ tree'["root"] = tree["root"]
      BY <1>1, <1>2, <1>3, <1>13, DoneRemove
    <2>2. tree'["d"]["temp"] = None /\ tree'["d"]["f"] = tree["d"]["f"]
      BY <1>2, <2>1 DEF Listing
    <2>3. Peaceful'
      BY <1>5, <1>9, <1>10, <2>1, <2>2 DEF Peaceful
    <2>4. Owns(o)
      BY <1>1, <1>2, <1>3, <1>13, Sets DEF Owns, Stages
    <2>5. Content("f")'
      BY <1>13, <2>2, <2>4 DEF Owned, Safe, Content
    <2>6. \A x \in Client : ~Owns(op'[x])
      BY <1>6, <1>9, <1>13, <2>4 DEF Owned
    <2>7. Owned'
      BY <2>5, <2>6 DEF Owned, Safe
    <2>8. QED
      BY <2>3, <2>7
  <1>14. CASE o.put = "send"
    <2>1. /\ tree'["d"] = [tree["d"] EXCEPT !["f"] = o.new]
          /\ tree'["root"] = tree["root"] /\ o.new \in Upload \ {0, 1}
      BY <1>1, <1>2, <1>3, <1>14, DonePut
    <2>2. tree'["d"]["temp"] = tree["d"]["temp"] /\ tree'["d"]["f"] = o.new
      BY <1>2, <2>1 DEF Listing
    <2>3. Peaceful'
      BY <1>5, <1>9, <1>10, <2>1, <2>2 DEF Peaceful
    <2>4. Content("f")' /\ (Content("temp")' <=> Content("temp"))
      BY <2>1, <2>2 DEF Content
    <2>5. \A x \in Client : Owns(op'[x]) => Owns(op[x])
      BY <1>6, <1>9, <1>14
    <2>6. Owned'
      BY <2>4, <2>5 DEF Owned, Safe
    <2>7. QED
      BY <2>3, <2>6
  <1>15. QED
    BY <1>3, <1>11, <1>12, <1>13, <1>14

\* A client that begins has no file aside; its operation is peaceful or it has touched.
LEMMA BeginKeeps ==
  ASSUME Core, Core', KeepInv, NEW c \in Client, Begin(c) PROVE KeepInv'
  <1> SUFFICES ASSUME ~touched' PROVE NoneEmpty' /\ Peaceful' /\ Owned'
    BY DEF KeepInv
  <1>1. Types /\ LinkInv
    BY DEF Core
  <1>2. /\ op[c].step = "idle" /\ Others(c)
        /\ op'[c].step \in {"find", "enter"} /\ op'[c].edits = << >> /\ op'[c].base = None
        /\ op'[c].obj = None /\ ~op'[c].had
        /\ op'[c].put # None => op'[c].put = "check"
        /\ op'[c].put = None /\ op'[c].kind \in {"remove", "rename", "move"} => touched'
        /\ touched => touched'
    BY <1>1, BeginEffect
  <1>3. NoneEmpty /\ Peaceful /\ Owned
    BY <1>2 DEF KeepInv
  <1>4. UNCHANGED <<tree, cache, excused>> /\ UNCHANGED flight
    BY DEF Begin
  <1>5. val' = val
    BY <1>4 DEF flight
  <1>6. Sees(op'[c])
    BY <1>2, Sets DEF Sees, NoZero, Stages
  <1>7. op'[c].put = None => op'[c].kind \in {"list", "mkdir", "copy"}
    <2>1. op'[c] \in OpRec /\ Asked(op'[c])
      BY DEF Core, Types, Fit
    <2> DEFINE a == op'[c]
    <2> HIDE DEF a
    <2>2. a.put = None /\ Asked(a) => a.kind \in {"list", "mkdir", "copy", "remove", "rename", "move"}
      BY DEF Asked, Own
    <2>3. QED
      BY <1>2, <2>1, <2>2 DEF a
  <1>8. KeptFor(c)
    BY <1>2, <1>7 DEF KeptFor, Owns, Safe
  <1>9. \A x \in Client : KeptFor(x) /\ Sees(op'[x])
    BY <1>2, <1>3, <1>6, <1>8, KeptSame DEF Others, NoneEmpty
  <1>10. Peaceful' /\ Owned'
    BY <1>3, <1>4, <1>9, QuietKeeps
  <1>11. NoneEmpty'
    BY <1>3, <1>4, <1>5, <1>9, NoneEmptyParts DEF NoneEmpty
  <1>12. QED
    BY <1>10, <1>11

\* A step that leaves the listings and the flight alone.
LEMMA StillEmpty ==
  ASSUME NoneEmpty, UNCHANGED <<tree, cache>>, val' = val, \A x \in Client : Sees(op'[x])
  PROVE  NoneEmpty'
  BY NoneEmptyParts DEF NoneEmpty

\* mkdirG has nothing to do with the file.
LEMMA EnterKeeps ==
  ASSUME Core, KeepInv, NEW c \in Client, Enter(c) \/ FindParent(c) PROVE KeepInv'
  <1>1. /\ UNCHANGED <<tree, cache, ops, excused, touched>> /\ UNCHANGED flight
        /\ op[c].step \in {"enter", "find"} /\ op'[c].step \in {"find", "join"} /\ Others(c)
        /\ Same(op[c], op'[c]) /\ op'[c].obj = op[c].obj
    <2>1. CASE Enter(c)
      BY <2>1, EnterEffect DEF Enter, Core
    <2>2. CASE FindParent(c)
      BY <2>2, FindParentEffect DEF FindParent, Core
    <2>3. QED
      BY <2>1, <2>2
  <1> SUFFICES ASSUME NoneEmpty, Peaceful, Owned PROVE NoneEmpty' /\ Peaceful' /\ Owned'
    BY <1>1 DEF KeepInv
  <1>2. Sees(op'[c])
    BY <1>1 DEF NoneEmpty, Sees, Same
  <1>3. op'[c].put = op[c].put /\ op'[c].had = op[c].had /\ op'[c].kind = op[c].kind
    BY <1>1 DEF Same
  <1>4. Peaceful' /\ Owned' /\ \A x \in Client : Sees(op'[x])
    BY <1>1, <1>2, <1>3, OnKeeps
  <1>5. val' = val
    BY <1>1 DEF flight
  <1>6. QED
    BY <1>1, <1>4, <1>5, StillEmpty

\* A look-up that ends the operation leads the upload on with what was found.
LEMMA LooksKeeps ==
  ASSUME Core, KeepInv, NEW c \in Client, NEW l, Looks(c, l) PROVE KeepInv'
  <1>1. Types /\ LinkInv /\ OpTypes
    BY TypesParts DEF Core
  <1>2. /\ op[c].step = "find"
        /\ (\E d \in Dir : l = cache[d]) \/ l = val[c]
        /\ UNCHANGED <<tree, cache, ops, excused, touched>>
        /\ \/ /\ Others(c) /\ Same(op[c], op'[c]) /\ Seen(op[c], l, op'[c])
              /\ op'[c].step \in {"find", "call"}
           \/ \E p \in OpRec, ok \in BOOLEAN :
                /\ End(c, p, ok) /\ Asked(p) /\ Same(op[c], p) /\ Seen(op[c], l, p)
                /\ p.kind \in {"rename", "put"} => ~ok
    BY <1>1, LooksEffect
  <1> SUFFICES ASSUME NoneEmpty, Peaceful, Owned PROVE NoneEmpty' /\ Peaceful' /\ Owned'
    BY <1>2 DEF KeepInv
  <1>3. NoZero(l)
    BY <1>2 DEF NoneEmpty
  <1>4. Peaceful' /\ Owned' /\ \A x \in Client : Sees(op'[x])
    <2>1. CASE /\ Others(c) /\ Same(op[c], op'[c]) /\ Seen(op[c], l, op'[c])
               /\ op'[c].step \in {"find", "call"}
      <3>1. Sees(op'[c])
        BY <1>3, <2>1, SeesSame DEF NoneEmpty
      <3>2. op'[c].put = op[c].put /\ op'[c].had = op[c].had /\ op'[c].kind = op[c].kind
        BY <2>1 DEF Same
      <3>3. QED
        BY <1>2, <2>1, <3>1, <3>2, OnKeeps
    <2>2. CASE \E p \in OpRec, ok \in BOOLEAN :
                 /\ End(c, p, ok) /\ Asked(p) /\ Same(op[c], p) /\ Seen(op[c], l, p)
                 /\ p.kind \in {"rename", "put"} => ~ok
      <3>1. PICK p \in OpRec, ok \in BOOLEAN :
                 /\ End(c, p, ok) /\ Asked(p) /\ Same(op[c], p) /\ Seen(op[c], l, p)
                 /\ p.kind \in {"rename", "put"} => ~ok
        BY <2>2
      <3>2. Sees(p)
        BY <1>3, <3>1, SeesSame DEF NoneEmpty
      <3>3. p.obj # 0 /\ p.put = op[c].put /\ p.had = op[c].had
        BY <3>1, <3>2 DEF Sees, Same
      <3>4. p.put \in {"aside", "send"} => p.kind \in {"rename", "put"}
        BY <3>1, Sets DEF Asked, Staged, Stages
      <3>5. QED
        BY <1>1, <1>2, <3>1, <3>3, <3>4, EndKeeps
    <2>3. QED
      BY <1>2, <2>1, <2>2
  <1>5. \A x \in Client : NoZero(val'[x])
    <2>1. val' = val \/ val' = [val EXCEPT ![c] = None]
      BY DEF Looks, Hit, Take, flight, SF!Leave
    <2>2. val \in [Client -> Listing \cup {None}]
      BY <1>1 DEF Types
    <2>3. QED
      BY <2>1, <2>2 DEF NoneEmpty, NoZero
  <1>6. NoneEmpty'
    BY <1>2, <1>4, <1>5, NoneEmptyParts DEF NoneEmpty
  <1>7. QED
    BY <1>4, <1>6

\* listG has nothing to do with the file, nor has the first look-up of a directory.
LEMMA DoKeeps ==
  ASSUME Core, KeepInv, NEW c \in Client, Do(c) PROVE KeepInv'
  <1>1. Types /\ LinkInv /\ val \in [Client -> Listing \cup {None}]
    BY DEF Core, Types
  <1> DEFINE d == Cur(op[c])
  <1>2. /\ op[c].step = "find" /\ op[c].need # << >>
        /\ SF!Lead(c, d) \/ SF!Join(c, d)
        /\ UNCHANGED <<tree, cache, op, ops, excused, touched>>
    BY DEF Do, Finding, Is
  <1>3. d \in Dir
    BY <1>1, <1>2, TypesGive, CurIsDir
  <1> HIDE DEF d
  <1> SUFFICES ASSUME NoneEmpty, Peaceful, Owned PROVE NoneEmpty' /\ Peaceful' /\ Owned'
    BY <1>2 DEF KeepInv
  <1>4. Peaceful' /\ Owned' /\ \A x \in Client : Sees(op'[x])
    BY <1>2, IdleKeeps
  <1>5. \A x \in Client : NoZero(val'[x])
    <2>1. CASE SF!Lead(c, d)
      BY <2>1 DEF NoneEmpty, SF!Lead
    <2>2. CASE SF!Join(c, d)
      <3>1. m[d] \in Client
        BY <1>1, <1>3, <2>2, FlightGives DEF SF!Join, SF!Free
      <3>2. val' = val \/ val' = [val EXCEPT ![c] = val[m[d]]]
        BY <2>2 DEF SF!Join
      <3>3. QED
        BY <1>1, <3>1, <3>2 DEF NoneEmpty
    <2>3. QED
      BY <1>2, <2>1, <2>2
  <1>6. NoneEmpty'
    BY <1>2, <1>4, <1>5, NoneEmptyParts DEF NoneEmpty
  <1>7. QED
    BY <1>4, <1>6

\* A listing that is read has no empty file.
LEMMA ReadDirKeeps ==
  ASSUME Core, KeepInv, NEW c \in Client, ReadDir(c) PROVE KeepInv'
  <1>1. Types /\ LinkInv /\ key \in [Client -> Dir]
    BY FlightGives DEF Core
  <1>2. /\ op[c].step = "find" /\ op'[c].step = "fill" /\ Others(c)
        /\ SameCall(op[c], op'[c]) /\ op'[c].edits = << >>
        /\ op'[c].base \in {None, tree[key[c]]} /\ key[c] \in Dir
    BY <1>1, ReadDirEffect
  <1>3. UNCHANGED <<tree, cache, ops, touched>> /\ UNCHANGED flight
    BY DEF ReadDir
  <1> SUFFICES ASSUME NoneEmpty, Peaceful, Owned PROVE NoneEmpty' /\ Peaceful' /\ Owned'
    BY <1>3 DEF KeepInv
  <1>4. NoZero(op'[c].base)
    BY <1>2 DEF NoneEmpty, NoZero
  <1>5. Sees(op'[c])
    BY <1>2, <1>4 DEF NoneEmpty, Sees, SameCall
  <1>6. op'[c].put = op[c].put /\ op'[c].had = op[c].had /\ op'[c].kind = op[c].kind
    BY <1>2 DEF SameCall
  <1>7. Peaceful' /\ Owned' /\ \A x \in Client : Sees(op'[x])
    BY <1>2, <1>3, <1>5, <1>6, OnKeeps
  <1>8. val' = val
    BY <1>3 DEF flight
  <1>9. QED
    BY <1>3, <1>7, <1>8, StillEmpty

\* The cache has none either.
LEMMA FillKeeps ==
  ASSUME Core, KeepInv, NEW c \in Client, Fill(c) PROVE KeepInv'
  <1> DEFINE l == op[c].base
  <1>1. Types /\ LinkInv /\ key \in [Client -> Dir] /\ cache \in [Dir -> Listing \cup {None}]
    BY FlightGives DEF Core, Types
  <1>2. /\ op[c].step = "fill" /\ op'[c].step = "find" /\ Others(c)
        /\ SameCall(op[c], op'[c]) /\ op'[c].edits = << >> /\ op'[c].base = None
    BY <1>1, FillEffect
  <1>3. /\ UNCHANGED <<tree, ops, excused, touched>>
        /\ cache' = IF l = None THEN cache ELSE [cache EXCEPT ![key[c]] = Kept(l)]
        /\ val' = [w \in Client |-> IF w = c \/ w \in SF!Waiters(c) THEN l ELSE val[w]]
    BY DEF Fill, SF!Finish
  <1> SUFFICES ASSUME NoneEmpty, Peaceful, Owned PROVE NoneEmpty' /\ Peaceful' /\ Owned'
    BY <1>3 DEF KeepInv
  <1>4. NoZero(l)
    BY DEF NoneEmpty, Sees
  <1> HIDE DEF l
  <1>5. Sees(op'[c])
    BY <1>2 DEF NoneEmpty, Sees, SameCall, NoZero
  <1>6. op'[c].put = op[c].put /\ op'[c].had = op[c].had /\ op'[c].kind = op[c].kind
    BY <1>2 DEF SameCall
  <1>7. Peaceful' /\ Owned' /\ \A x \in Client : Sees(op'[x])
    BY <1>2, <1>3, <1>5, <1>6, OnKeeps
  <1>8. \A x \in Client : NoZero(val'[x])
    BY <1>3, <1>4 DEF NoneEmpty
  <1>9. NoZero(Kept(l))
    BY <1>4 DEF Kept, NoZero
  <1>10. \A d \in Dir : NoZero(cache'[d])
    BY <1>1, <1>3, <1>9 DEF NoneEmpty
  <1>11. NoneEmpty'
    BY <1>3, <1>7, <1>8, <1>10, NoneEmptyParts DEF NoneEmpty
  <1>12. QED
    BY <1>7, <1>11

\* Nor has the end of the flight to do with the file.
LEMMA UnmapKeeps ==
  ASSUME Core, KeepInv, NEW c \in Client, Unmap(c) PROVE KeepInv'
  <1>1. UNCHANGED <<tree, cache, op, ops, excused, touched>> /\ val' = val
    BY DEF Unmap, SF!Unmap
  <1> SUFFICES ASSUME NoneEmpty, Peaceful, Owned PROVE NoneEmpty' /\ Peaceful' /\ Owned'
    BY <1>1 DEF KeepInv
  <1>2. QED
    BY <1>1, IdleKeeps, StillEmpty

\* What the driver does to the file keeps it, or its last content, there.
LEMMA CallKeeps ==
  ASSUME Core, Core', KeepInv, NEW c \in Client, NEW result \in BOOLEAN, Call(c, result)
  PROVE  KeepInv'
  <1> DEFINE o == op[c]
             es == Edits(o, result)
  <1>1. Types /\ LinkInv /\ OpTypes /\ OpTypes' /\ tree \in [Dir -> Listing] /\ o \in OpRec /\ Asked(o)
    <2>1. OpTypes'
      BY DEF Core, Types, OpTypes
    <2>2. QED
      BY <2>1, TypesParts, TypesGive DEF Core, Rest
  <1>2. /\ o.step = "call" /\ Shape(o) /\ CanDo(o) /\ tree' = Done(o) /\ o.edits = << >>
        /\ AllOK(es, o)
        /\ \/ /\ Others(c) /\ op'[c].step = "edit" /\ SameCall(o, op'[c])
              /\ op'[c].edits = es /\ op'[c].base = None
           \/ End(c, o, TRUE)
    BY <1>1, CallEffect, ZenonT(60)
  <1>3. UNCHANGED <<cache, ops, touched>> /\ UNCHANGED flight
    BY DEF Call
  <1> SUFFICES ASSUME NoneEmpty, Peaceful, Owned PROVE NoneEmpty' /\ Peaceful' /\ Owned'
    BY <1>3 DEF KeepInv
  <1>4. Peaceful' /\ Owned'
    BY <1>1, CallOwned
  <1>5. val' = val
    BY <1>3 DEF flight
  <1>6. o.new # 0
    BY <1>1, Sets DEF Asked
  <1>7. \A d \in Dir : NoZero(tree'[d])
    <2>1. \A d \in Dir, x \in Name : tree[d][x] # 0
      BY <1>1, Sets DEF NoneEmpty, NoZero
    <2>2. \A d \in Dir, x \in Name : tree'[d][x] # 0
      BY <1>1, <1>2, <1>6, <2>1, DoneValues, Sets
    <2>3. QED
      BY <2>2 DEF NoZero
  <1>8. \A x \in Client : Sees(op'[x])
    <2>1. CASE /\ Others(c) /\ op'[c].step = "edit" /\ SameCall(o, op'[c])
               /\ op'[c].edits = es /\ op'[c].base = None
      <3>1. \A i \in 1 .. Len(es) : es[i].new # 0
        <4>1. \A d \in Dir, x \in Name : tree[d][x] # 0
          BY <1>1, Sets DEF NoneEmpty, NoZero
        <4>2. QED
          BY <1>2, <1>6, <4>1, Sets DEF AllOK, EditOK
      <3> HIDE DEF es
      <3>2. Sees(op'[c])
        BY <2>1, <3>1 DEF NoneEmpty, Sees, SameCall, NoZero
      <3>3. QED
        BY <2>1, <3>2 DEF Others, NoneEmpty
    <2>2. CASE End(c, o, TRUE)
      <3>1. /\ Follows(o, TRUE, op'[c])
            /\ \A x \in Client : x # c =>
                 \/ op'[x] = op[x]
                 \/ o.kind = "mkdir" /\ op[x].step = "join" /\ Follows(op[x], TRUE, op'[x])
        BY <1>1, <2>2, EndEffect
      <3>2. \A x \in Client : op[x].obj # 0 /\ Sees(op[x])
        BY DEF NoneEmpty, Sees
      <3>3. QED
        BY <3>1, <3>2, SeesFollows
    <2>3. QED
      BY <1>2, <2>1, <2>2
  <1>9. NoneEmpty'
    BY <1>3, <1>5, <1>7, <1>8, NoneEmptyParts DEF NoneEmpty
  <1>10. QED
    BY <1>4, <1>9

\* What the driver failed to do leads the upload on, or back.
LEMMA CallFailsKeeps ==
  ASSUME Core, KeepInv, NEW c \in Client, CallFails(c) PROVE KeepInv'
  <1>1. Types /\ LinkInv /\ OpTypes /\ op[c] \in OpRec /\ Asked(op[c])
    BY TypesParts, TypesGive DEF Core
  <1>2. /\ op[c].step = "call" /\ End(c, op[c], FALSE)
        /\ UNCHANGED <<tree, cache, ops, excused, touched>> /\ UNCHANGED flight
    BY DEF CallFails, Is
  <1> SUFFICES ASSUME NoneEmpty, Peaceful, Owned PROVE NoneEmpty' /\ Peaceful' /\ Owned'
    BY <1>2 DEF KeepInv
  <1>3. op[c].obj # 0
    BY DEF NoneEmpty, Sees
  <1>4. Peaceful' /\ Owned' /\ \A x \in Client : Sees(op'[x])
    BY <1>1, <1>2, <1>3, EndKeeps
  <1>5. val' = val
    BY <1>2 DEF flight
  <1>6. QED
    BY <1>2, <1>4, <1>5, StillEmpty

\* An edit that reads the cached listing owns what it owned.
LEMMA GrabKeeps ==
  ASSUME Core, KeepInv, NEW c \in Client, Grab(c) PROVE KeepInv'
  <1>1. Types /\ LinkInv /\ op[c] \in OpRec /\ op[c].edits \in Seq(EditRec)
    BY TypesGive DEF Core, OpRec
  <1>2. /\ op[c].step = "edit" /\ op'[c].step = "apply" /\ Others(c)
        /\ SameCall(op[c], op'[c]) /\ op'[c].edits = op[c].edits /\ op[c].edits # << >>
        /\ op'[c].base = cache[op[c].edits[1].dir]
    BY <1>1, GrabEffect
  <1>3. UNCHANGED <<tree, cache, ops, excused, touched>> /\ UNCHANGED flight
    BY DEF Grab
  <1> SUFFICES ASSUME NoneEmpty, Peaceful, Owned PROVE NoneEmpty' /\ Peaceful' /\ Owned'
    BY <1>3 DEF KeepInv
  <1>4. op[c].edits[1].dir \in Dir
    <2>1. op[c].edits[1] \in EditRec
      BY <1>1, <1>2
    <2>2. QED
      BY <2>1 DEF EditRec
  <1>5. NoZero(op'[c].base)
    BY <1>2, <1>4 DEF NoneEmpty
  <1>6. Sees(op'[c])
    BY <1>2, <1>5 DEF NoneEmpty, Sees, SameCall
  <1>7. op'[c].put = op[c].put /\ op'[c].had = op[c].had /\ op'[c].kind = op[c].kind
    BY <1>2 DEF SameCall
  <1>8. Peaceful' /\ Owned' /\ \A x \in Client : Sees(op'[x])
    BY <1>2, <1>3, <1>6, <1>7, OnKeeps
  <1>9. val' = val
    BY <1>3 DEF flight
  <1>10. QED
    BY <1>3, <1>8, <1>9, StillEmpty

\* An edit brings no empty file in.
LEMMA EditedNoZero ==
  ASSUME cache \in [Dir -> Listing \cup {None}], NEW e \in EditRec, NEW l \in Listing \cup {None},
         NoZero(l), e.new # 0, \A d \in Dir : NoZero(cache[d]), NEW d \in Dir
  PROVE  NoZero(Edited(e, l)[d])
  <1>1. e.dir \in Dir /\ None # 0
    BY Sets DEF EditRec
  <1>2. CASE e.act = "clear"
    <2>1. Edited(e, l)[d] \in {None, cache[d]}
      BY <1>2, EditedIs
    <2>2. QED
      BY <2>1 DEF NoZero
  <1>3. CASE e.act # "clear" /\ l = None
    BY <1>3, EditedIs
  <1>4. CASE e.act # "clear" /\ l # None
    <2>1. Edited(e, l) = [cache EXCEPT ![e.dir] = Ed(e, l)]
      BY <1>4, EditedIs
    <2>2. NoZero(Ed(e, l))
      BY <1>1, <1>4, EdValues DEF NoZero
    <2>3. QED
      BY <1>1, <2>1, <2>2
  <1>5. QED
    BY <1>2, <1>3, <1>4

\* The last edit hands the file aside to the next call of the upload.
LEMMA ApplyKeeps ==
  ASSUME Core, KeepInv, NEW c \in Client, Apply(c) PROVE KeepInv'
  <1> DEFINE o == op[c]
  <1>1. /\ Types /\ LinkInv /\ OpTypes /\ o \in OpRec /\ Asked(o)
        /\ cache \in [Dir -> Listing \cup {None}] /\ o.base \in Listing \cup {None}
    BY TypesParts, TypesGive DEF Core, Rest, OpRec
  <1>2. /\ o.step = "apply" /\ o.edits \in Seq(EditRec) /\ o.edits # << >> /\ o.edits[1] \in EditRec
        /\ cache' = Edited(o.edits[1], o.base)
        /\ \/ /\ Others(c) /\ op'[c].step = "edit" /\ SameCall(o, op'[c])
              /\ op'[c].edits = Tail(o.edits) /\ op'[c].base = None
           \/ End(c, o, TRUE)
    BY <1>1, ApplyEffect
  <1>3. UNCHANGED <<tree, ops, excused, touched>> /\ UNCHANGED flight
    BY DEF Apply
  <1> SUFFICES ASSUME NoneEmpty, Peaceful, Owned PROVE NoneEmpty' /\ Peaceful' /\ Owned'
    BY <1>3 DEF KeepInv
  <1>4. Sees(o)
    BY DEF NoneEmpty
  <1>5. o.obj # 0
    BY <1>4 DEF Sees
  <1>6. Peaceful' /\ Owned' /\ \A x \in Client : Sees(op'[x])
    <2>1. CASE End(c, o, TRUE)
      BY <1>1, <1>2, <1>3, <1>5, <2>1, EndKeeps
    <2>2. CASE /\ Others(c) /\ op'[c].step = "edit" /\ SameCall(o, op'[c])
               /\ op'[c].edits = Tail(o.edits) /\ op'[c].base = None
      <3> DEFINE t == Tail(o.edits)
      <3>1. \A i \in 1 .. Len(t) : t[i] = o.edits[i + 1] /\ i + 1 \in 1 .. Len(o.edits)
        BY <1>2
      <3> HIDE DEF t
      <3>2. Sees(op'[c])
        <4>1. \A i \in 1 .. Len(t) : t[i].new # 0
          BY <1>4, <3>1 DEF Sees
        <4>2. QED
          BY <1>4, <2>2, <4>1 DEF Sees, SameCall, NoZero, t
      <3>3. op'[c].put = o.put /\ op'[c].had = o.had /\ op'[c].kind = o.kind
        BY <2>2 DEF SameCall
      <3>4. QED
        BY <1>2, <1>3, <2>2, <3>2, <3>3, OnKeeps
    <2>3. QED
      BY <1>2, <2>1, <2>2
  <1>7. o.edits[1].new # 0
    BY <1>2, <1>4 DEF Sees
  <1>8. \A d \in Dir : NoZero(cache'[d])
    BY <1>1, <1>2, <1>4, <1>7, EditedNoZero DEF NoneEmpty, Sees
  <1>9. val' = val
    BY <1>3 DEF flight
  <1>10. NoneEmpty'
    BY <1>3, <1>6, <1>8, <1>9, NoneEmptyParts DEF NoneEmpty
  <1>11. QED
    BY <1>6, <1>10

\* A listing that expires has nothing to do with the file.
LEMMA ExpireKeeps ==
  ASSUME Core, KeepInv, NEW d \in Dir, Expire(d) PROVE KeepInv'
  <1>1. /\ cache' = [cache EXCEPT ![d] = None] /\ cache \in [Dir -> Listing \cup {None}]
        /\ UNCHANGED <<tree, op, ops, touched>> /\ val' = val
    BY DEF Expire, flight, Core, Types
  <1> SUFFICES ASSUME NoneEmpty, Peaceful, Owned PROVE NoneEmpty' /\ Peaceful' /\ Owned'
    BY <1>1 DEF KeepInv
  <1>2. Peaceful' /\ Owned' /\ \A x \in Client : Sees(op'[x])
    BY <1>1, IdleKeeps
  <1>3. \A e \in Dir : NoZero(cache'[e])
    BY <1>1 DEF NoneEmpty, NoZero
  <1>4. NoneEmpty'
    BY <1>1, <1>2, <1>3, NoneEmptyParts DEF NoneEmpty
  <1>5. QED
    BY <1>2, <1>4

\* At first the file is there.
LEMMA InitKeeps == ASSUME Init PROVE KeepInv
  <1>1. PICK size \in {0, 1} :
          /\ tree = [d \in Dir |-> IF d = "root" THEN [Empty EXCEPT !["d"] = Folder]
                                   ELSE [Empty EXCEPT !["f"] = size]]
          /\ touched = (size = 0)
    BY DEF Init
  <1>2. /\ cache = [d \in Dir |-> None] /\ op = [c \in Client |-> Idle]
        /\ val = [c \in Client |-> None]
    BY DEF Init, SF!SFInit
  <1> SUFFICES ASSUME ~touched PROVE NoneEmpty /\ Peaceful /\ Owned
    BY DEF KeepInv
  <1>3. size = 1
    BY <1>1
  <1>4. tree["root"] = [Empty EXCEPT !["d"] = Folder] /\ tree["d"] = [Empty EXCEPT !["f"] = 1]
    BY <1>1, <1>3 DEF Dir
  <1>5. /\ tree["root"]["d"] = Folder /\ tree["root"]["f"] = None
        /\ tree["d"]["f"] = 1 /\ tree["d"]["temp"] = None
        /\ \A d \in Dir, x \in Name : tree[d][x] \in {None, Folder, 1}
    BY <1>4 DEF Empty, Name, Dir
  <1>6. \A c \in Client : Sees(op[c]) /\ ~Owns(op[c]) /\ op[c].kind = "list"
    BY <1>2, IdleFit, Sets DEF Sees, NoZero, Owns, Stages
  <1>7. NoneEmpty
    BY <1>2, <1>5, <1>6, Sets DEF NoneEmpty, NoZero
  <1>8. Peaceful /\ Owned
    BY <1>5, <1>6, Sets DEF Peaceful, Owned, Safe, Content
  <1>9. QED
    BY <1>7, <1>8

\* No step loses the file, as long as nobody asks to take it away.
LEMMA KeepKept == Core /\ Core' /\ KeepInv /\ [Next]_vars => KeepInv'
  <1> SUFFICES ASSUME Core, Core', KeepInv, [Next]_vars PROVE KeepInv'
    OBVIOUS
  <1>1. ASSUME NEW c \in Client, Steps1(c) PROVE KeepInv'
    BY <1>1, BeginKeeps, EnterKeeps, LooksKeeps, DoKeeps, ReadDirKeeps, FillKeeps,
       UnmapKeeps, CallKeeps, CallFailsKeeps, GrabKeeps, ApplyKeeps DEF Steps1
  <1>2. CASE UNCHANGED vars
    <2>1. UNCHANGED <<tree, cache, op, touched, val>>
      BY <1>2 DEF vars, flight
    <2> SUFFICES ASSUME NoneEmpty, Peaceful, Owned PROVE NoneEmpty' /\ Peaceful' /\ Owned'
      BY <2>1 DEF KeepInv
    <2>2. QED
      BY <2>1, IdleKeeps, StillEmpty
  <1>3. QED
    BY <1>1, <1>2, NextSteps, ExpireKeeps

\* Put (fs.go:532-602): as long as nobody takes it away, a file that any number of clients
\* upload again and again, each setting the old one aside, is there at every moment, or its
\* last content under the temporary name.
THEOREM FileNeverVanishesAlways == Spec => []FileNeverVanishes
  <1>1. Init => KeepInv
    BY InitKeeps
  <1>2. KeepInv => FileNeverVanishes
    BY DEF KeepInv, Owned, Content, FileNeverVanishes
  <1>3. QED
    BY <1>1, <1>2, KeepKept, CoreHolds, PTL DEF Spec

-----------------------------------------------------------------------------
(* The cached listings are kept up to date.                                 *)

\* An operation whose edits are made, and that has no listing on its way.
Closed(o) == o.step # "fill" /\ o.edits = << >>

\* Nobody is at a directory that is not open.
LEMMA OpenIs ==
  ASSUME Types, NEW d \in Dir
  PROVE  Open(d) = {} <=> \A x \in Client : ~Fills(x, d) /\ ~Owes(x, d)
  <1>1. ASSUME NEW x \in Client
        PROVE  x \in Open(d) <=> Fills(x, d) \/ Owes(x, d)
    <2>1. op[x].edits \in Seq(EditRec) /\ (op[x].step \in {"edit", "apply"} <=> op[x].edits # << >>)
      BY TypesGive DEF OpRec, Phase
    <2> DEFINE es == op[x].edits
    <2>2. DOMAIN es = 1 .. Len(es) /\ (es = << >> => Len(es) = 0)
      BY <2>1
    <2>3. x \in Open(d) <=> \/ op[x].step = "fill" /\ key[x] = d
                            \/ op[x].step \in {"edit", "apply"} /\ \E i \in DOMAIN es : es[i].dir = d
      BY DEF Open, Is
    <2>4. Owes(x, d) <=> \E i \in 1 .. Len(es) : es[i].dir = d
      BY DEF Owes
    <2>5. Fills(x, d) <=> op[x].step = "fill" /\ key[x] = d
      BY DEF Fills
    <2>6. op[x].step \in {"edit", "apply"} <=> es # << >>
      BY <2>1
    <2> HIDE DEF es
    <2>7. QED
      BY <2>2, <2>3, <2>4, <2>5, <2>6
  <1>2. Open(d) \subseteq Client
    BY DEF Open
  <1>3. QED
    BY <1>1, <1>2

\* Whoever makes an edit owes it.
LEMMA MakesOwes ==
  ASSUME NEW x, NEW d, Makes(x, d) PROVE Owes(x, d)
  BY DEF Makes, Owes

\* In a step, a client says nothing new about a directory ...
SaysLess(x, d) ==
  /\ Fills(x, d)' <=> Fills(x, d)
  /\ Fills(x, d) => op'[x].base = op[x].base
  /\ Makes(x, d)' => Makes(x, d)
  /\ \A i \in 1 .. Len(op'[x].edits) : op'[x].edits[i].dir = d /\ op'[x].edits[i].act # "clear" =>
       \E j \in 1 .. Len(op[x].edits) :
         /\ op[x].edits[j] = op'[x].edits[i]
         /\ op'[x].step = "apply" /\ i = 1 <=> op[x].step = "apply" /\ j = 1
         /\ op'[x].step = "apply" /\ i = 1 => op'[x].base = op[x].base

\* ... or all of it, edits that drop the listing included.
SameFor(x, d) == SaysLess(x, d) /\ (Owes(x, d) => Owes(x, d)')

\* A step after which nobody has anything new to say, and the cached listing is the
\* same, or dropped.
LEMMA LessSaid ==
  ASSUME NEW d \in Dir, UpToDate(d), tree'[d] = tree[d], cache'[d] \in {None, cache[d]},
         \A x \in Client : SaysLess(x, d)
  PROVE  OnItsWay(d)' /\ EditsRight(d)' /\ Solo(d)'
  <1>1. OnItsWay(d)'
    <2>1. \A x \in Client : Fills(x, d)' => Fills(x, d) /\ op'[x].base = op[x].base
      BY DEF SaysLess
    <2>2. QED
      BY <2>1 DEF UpToDate, OnItsWay
  <1>2. EditsRight(d)'
    <2> SUFFICES ASSUME NEW x \in Client, NEW i \in 1 .. Len(op'[x].edits),
                        op'[x].edits[i].dir = d, op'[x].edits[i].act # "clear"
                 PROVE  EditRight(op[x], i, d)'
      BY DEF EditsRight
    <2>1. PICK j \in 1 .. Len(op[x].edits) :
            /\ op[x].edits[j] = op'[x].edits[i]
            /\ op'[x].step = "apply" /\ i = 1 <=> op[x].step = "apply" /\ j = 1
            /\ op'[x].step = "apply" /\ i = 1 => op'[x].base = op[x].base
      BY DEF SaysLess
    <2>2. EditRight(op[x], j, d)
      BY <2>1 DEF UpToDate, EditsRight
    <2>3. QED
      BY <2>1, <2>2 DEF EditRight
  <1>3. Solo(d)'
    BY DEF SaysLess, UpToDate, Solo
  <1>4. QED
    BY <1>1, <1>2, <1>3

\* A step after which every client has the same to say, and the cached listing is the
\* same, or dropped.
LEMMA FreshSame ==
  ASSUME NEW d \in Dir, UpToDate(d), tree'[d] = tree[d], cache'[d] \in {None, cache[d]},
         \A x \in Client : SameFor(x, d)
  PROVE  UpToDate(d)'
  <1>1. Quiet(d)'
    <2> SUFFICES ASSUME \A x \in Client : ~Owes(x, d)' /\ ~(Fills(x, d)' /\ op'[x].base # None)
                 PROVE  cache'[d] \in {None, tree'[d]}
      BY DEF Quiet
    <2>1. \A x \in Client : ~Owes(x, d) /\ ~(Fills(x, d) /\ op[x].base # None)
      BY DEF SameFor, SaysLess
    <2>2. QED
      BY <2>1 DEF UpToDate, Quiet
  <1>2. QED
    BY <1>1, LessSaid DEF UpToDate, SameFor

\* A client to whom nothing happens.
LEMMA SameForSame ==
  ASSUME NEW x, NEW d, op'[x] = op[x], key'[x] = key[x] PROVE SameFor(x, d)
  BY DEF SameFor, SaysLess, Fills, Owes, Makes

\* A client that has nothing to say, before or after.
LEMMA SameForClosed ==
  ASSUME NEW x, NEW d, Closed(op[x]), Closed(op'[x]) PROVE SameFor(x, d)
  <1>1. op[x].edits = << >> /\ op'[x].edits = << >> /\ op[x].step # "fill" /\ op'[x].step # "fill"
    BY DEF Closed
  <1>2. ~Owes(x, d) /\ ~Makes(x, d) /\ ~Owes(x, d)' /\ ~Makes(x, d)' /\ ~Fills(x, d) /\ ~Fills(x, d)'
    BY <1>1 DEF Owes, Makes, Fills
  <1>3. QED
    BY <1>1, <1>2 DEF SameFor, SaysLess

\* The content of an upload stays its own.
LEMMA UniqueSame ==
  ASSUME OpTypes', Unique, tree' = tree, ops' = ops,
         \A x \in Client : \/ op'[x].new = None
                           \/ op'[x].new = op[x].new /\ (Unsent(op'[x]) => Unsent(op[x]))
  PROVE  Unique'
  <1>1. None \notin Upload
    BY Sets
  <1>2. ASSUME NEW x \in Client, op'[x].new = None PROVE ~Unsent(op'[x])
    <2>1. Asked(op'[x])
      BY DEF OpTypes, Fit
    <2>2. op'[x].put = None
      BY <1>1, <1>2, <2>1 DEF Asked
    <2>3. QED
      BY <2>2 DEF Unsent
  <1>3. \A k \in Upload : k > ops' + 1 =>
          /\ \A d \in Dir, x \in Name : tree'[d][x] # k
          /\ \A c \in Client : op'[c].new # k
    BY <1>1 DEF Unique
  <1>4. \A b, c \in Client : b # c /\ op'[b].new # None => op'[b].new # op'[c].new
    BY DEF Unique
  <1>5. \A c \in Client : Unsent(op'[c]) => \A d \in Dir, x \in Name : tree'[d][x] # op'[c].new
    BY <1>2 DEF Unique
  <1>6. QED
    BY <1>3, <1>4, <1>5 DEF Unique, Unsent

\* What follows an operation has the same content, and has not sent it if the operation
\* had not.
LEMMA UnsentFollows ==
  ASSUME NEW o, NEW p, p.put = o.put, p.new = o.new, NEW ok, NEW a, Follows(p, ok, a)
  PROVE  a.new = None \/ (a.new = o.new /\ (Unsent(a) => Unsent(o)))
  <1>1. CASE a.put = None
    <2>1. Asked(a)
      BY DEF Follows, Fit
    <2>2. QED
      BY <1>1, <2>1 DEF Asked
  <1>2. CASE a.put # None
    <2>1. a.new = o.new /\ o.put # None
      BY <1>2 DEF Follows
    <2>2. o.put \in {"send", "clean", "recover"} => a.put \in {"clean", "recover"}
      BY <1>2 DEF Follows
    <2>3. QED
      BY <2>1, <2>2 DEF Unsent
  <1>3. QED
    BY <1>1, <1>2

\* Edits of one operation are about different directories.
LEMMA ApartSame ==
  ASSUME Apart, \A x \in Client : op'[x].edits = op[x].edits \/ op'[x].edits = << >>
  PROVE  Apart'
  <1>1. ASSUME NEW x \in Client, NEW i \in 1 .. Len(op'[x].edits), NEW j \in 1 .. Len(op'[x].edits),
               op'[x].edits[i].dir = op'[x].edits[j].dir
        PROVE  i = j
    <2>1. CASE op'[x].edits = op[x].edits
      BY <1>1, <2>1 DEF Apart
    <2>2. CASE op'[x].edits = << >>
      BY <1>1, <2>2
    <2>3. QED
      BY <2>1, <2>2
  <1>2. QED
    BY <1>1 DEF Apart

\* A step that leaves the listings alone, and of the clients what they have to say.
LEMMA ClosedKeeps ==
  ASSUME OpTypes', FreshInv, tree' = tree, cache' = cache, excused' = excused, ops' = ops,
         \A x \in Client :
           /\ \/ op'[x] = op[x] /\ key'[x] = key[x]
              \/ Closed(op[x]) /\ Closed(op'[x])
           /\ \/ op'[x].new = None
              \/ op'[x].new = op[x].new /\ (Unsent(op'[x]) => Unsent(op[x]))
  PROVE  FreshInv'
  <1>1. Unique'
    BY UniqueSame DEF FreshInv
  <1>2. Apart'
    BY ApartSame DEF FreshInv, Closed
  <1>3. ASSUME NEW d \in Dir \ excused' PROVE UpToDate(d)'
    <2>1. \A x \in Client : SameFor(x, d)
      BY SameForSame, SameForClosed
    <2>2. UpToDate(d)
      BY DEF FreshInv
    <2>3. QED
      BY <2>1, <2>2, FreshSame
  <1>4. QED
    BY <1>1, <1>2, <1>3 DEF FreshInv

\* A client that waits, looks things up or calls the driver has nothing to say yet.
LEMMA ClosedSteps ==
  ASSUME NEW o, Phase(o), o.step \notin {"fill", "edit", "apply"} PROVE Closed(o)
  BY DEF Phase, Closed

\* The call is over, while the tree and the cache stay as they are.
LEMMA EndClosed ==
  ASSUME Types, FreshInv, NEW c \in Client, op[c].step \notin {"fill", "edit", "apply"},
         NEW p \in OpRec, Asked(p), p.put = op[c].put, p.new = op[c].new,
         NEW ok \in BOOLEAN, End(c, p, ok),
         tree' = tree, cache' = cache, excused' = excused, ops' = ops, key' = key
  PROVE  FreshInv'
  <1>1. OpTypes /\ \A x \in Client : Phase(op[x])
    BY TypesGive DEF Types, Fit
  <1>2. /\ OpTypes'
        /\ Follows(p, ok, op'[c])
        /\ \A x \in Client : x # c =>
             \/ op'[x] = op[x]
             \/ p.kind = "mkdir" /\ op[x].step = "join" /\ Follows(op[x], ok, op'[x])
    BY <1>1, EndEffect
  <1>3. ASSUME NEW x \in Client
        PROVE  /\ \/ op'[x] = op[x] /\ key'[x] = key[x]
                  \/ Closed(op[x]) /\ Closed(op'[x])
               /\ \/ op'[x].new = None
                  \/ op'[x].new = op[x].new /\ (Unsent(op'[x]) => Unsent(op[x]))
    <2>1. CASE x = c
      <3>1. Closed(op[c]) /\ Closed(op'[c])
        BY <1>1, <1>2, ClosedSteps DEF Follows, Closed
      <3>2. op'[c].new = None \/ (op'[c].new = op[c].new /\ (Unsent(op'[c]) => Unsent(op[c])))
        BY <1>2, UnsentFollows
      <3>3. QED
        BY <2>1, <3>1, <3>2
    <2>2. CASE op'[x] = op[x]
      BY <2>2
    <2>3. CASE op[x].step = "join" /\ Follows(op[x], ok, op'[x])
      <3>1. Closed(op[x]) /\ Closed(op'[x])
        BY <1>1, <2>3, ClosedSteps DEF Follows, Closed
      <3>2. op'[x].new = None \/ (op'[x].new = op[x].new /\ (Unsent(op'[x]) => Unsent(op[x])))
        BY <2>3, UnsentFollows
      <3>3. QED
        BY <3>1, <3>2
    <2>4. QED
      BY <1>2, <2>1, <2>2, <2>3
  <1>4. QED
    BY <1>2, <1>3, ClosedKeeps

\* A client that begins has nothing to say yet; an upload has a new content.
LEMMA BeginFresh ==
  ASSUME Core, Core', FreshInv, NEW c \in Client, Begin(c) PROVE FreshInv'
  <1>1. Types /\ LinkInv /\ OpTypes' /\ Phase(op[c]) /\ ops \in 0 .. MaxOps /\ Asked(op'[c])
    <2>1. Types /\ LinkInv
      BY DEF Core
    <2>2. OpTypes' /\ Asked(op'[c])
      BY DEF Core, Types, OpTypes, Fit
    <2>3. QED
      BY <2>1, <2>2, TypesGive DEF Types
  <1>2. /\ op[c].step = "idle" /\ Others(c)
        /\ op'[c].step \in {"find", "enter"} /\ op'[c].edits = << >>
        /\ op'[c].put = None => op'[c].new = None
        /\ op'[c].put # None => op'[c].put = "check" /\ op'[c].new = ops + 2 /\ ops' = ops + 1
        /\ ops' \in 0 .. MaxOps /\ ops' \in {ops, ops + 1}
    BY <1>1, BeginEffect
  <1>3. UNCHANGED <<tree, cache, excused>> /\ key' = key
    BY DEF Begin, flight
  <1>4. Closed(op[c]) /\ Closed(op'[c])
    BY <1>1, <1>2, ClosedSteps DEF Closed
  <1>5. ASSUME NEW d \in Dir \ excused' PROVE UpToDate(d)'
    <2>1. \A x \in Client : SameFor(x, d)
      BY <1>2, <1>3, <1>4, SameForSame, SameForClosed DEF Others
    <2>2. UpToDate(d)
      BY <1>3 DEF FreshInv
    <2>3. QED
      BY <1>3, <2>1, <2>2, FreshSame
  <1>6. Apart'
    BY <1>2, ApartSame DEF FreshInv, Others
  <1>7. op'[c].new = None \/ (op'[c].new = ops + 2 /\ ops' = ops + 1 /\ ops + 2 \in Upload)
    BY <1>1, <1>2, Sets DEF Upload
  <1>8. None \notin Upload /\ Upload \subseteq Nat /\ ops \in Nat /\ ops' \in Nat
    BY <1>1, <1>2, Sets
  <1>9. Unique
    BY DEF FreshInv
  <1>10. \A k \in Upload : k > ops' + 1 =>
          /\ \A d \in Dir, x \in Name : tree'[d][x] # k
          /\ \A x \in Client : op'[x].new # k
    <2> SUFFICES ASSUME NEW k \in Upload, k > ops' + 1
                 PROVE  /\ \A d \in Dir, x \in Name : tree[d][x] # k
                        /\ \A x \in Client : op'[x].new # k
      BY <1>3
    <2>1. k > ops + 1 /\ (k # ops + 2 \/ ops' = ops)
      <3>1. k \in Nat
        BY <1>8
      <3>2. CASE ops' = ops
        BY <3>2
      <3>3. CASE ops' = ops + 1
        BY <1>8, <3>1, <3>3
      <3>4. QED
        BY <1>2, <3>2, <3>3
    <2>2. /\ \A d \in Dir, x \in Name : tree[d][x] # k
          /\ \A x \in Client : op[x].new # k
      BY <1>9, <2>1 DEF Unique
    <2>3. op'[c].new # k
      BY <1>7, <1>8, <2>1
    <2>4. QED
      BY <1>2, <2>2, <2>3 DEF Others
  <1>11. \A x \in Client : x # c => op'[c].new = None \/ op'[x].new # op'[c].new
    <2>1. ops + 2 \in Upload => \A x \in Client : op[x].new # ops + 2
      BY <1>8, <1>9 DEF Unique
    <2>2. QED
      BY <1>2, <1>7, <2>1 DEF Others
  <1>12. \A a, b \in Client : a # b /\ op'[a].new # None => op'[a].new # op'[b].new
    BY <1>2, <1>9, <1>11 DEF Unique, Others
  <1>13. \A x \in Client : Unsent(op'[x]) => \A d \in Dir, y \in Name : tree'[d][y] # op'[x].new
    <2>1. CASE op'[c].put = None
      BY <1>2, <1>3, <1>9, <2>1 DEF Unique, Others, Unsent
    <2>2. CASE op'[c].put # None
      <3>1. op'[c].new = ops + 2 /\ ops + 2 \in Upload
        BY <1>1, <1>2, <2>2, Sets DEF Upload
      <3>2. \A d \in Dir, y \in Name : tree[d][y] # ops + 2
        BY <1>8, <1>9, <3>1 DEF Unique
      <3>3. QED
        BY <1>2, <1>3, <1>9, <3>1, <3>2 DEF Unique, Others
    <2>3. QED
      BY <2>1, <2>2
  <1>14. Unique'
    BY <1>10, <1>12, <1>13 DEF Unique, Unsent
  <1>15. QED
    BY <1>5, <1>6, <1>14 DEF FreshInv

\* Nor has one that goes through mkdirG, or looks for the directory.
LEMMA EnterFresh ==
  ASSUME Core, Core', FreshInv, NEW c \in Client, Enter(c) \/ FindParent(c) PROVE FreshInv'
  <1>1. Types /\ OpTypes' /\ Phase(op[c]) /\ Phase(op'[c])
    <2>1. OpTypes' /\ Phase(op'[c])
      BY DEF Core, Types, OpTypes, Fit
    <2>2. QED
      BY <2>1, TypesGive DEF Core
  <1>2. /\ UNCHANGED <<tree, cache, ops, excused, touched>> /\ UNCHANGED flight
        /\ op[c].step \in {"enter", "find"} /\ op'[c].step \in {"find", "join"} /\ Others(c)
        /\ Same(op[c], op'[c])
    <2>1. CASE Enter(c)
      BY <2>1, EnterEffect DEF Enter, Core
    <2>2. CASE FindParent(c)
      BY <2>2, FindParentEffect DEF FindParent, Core
    <2>3. QED
      BY <2>1, <2>2
  <1>3. key' = key
    BY <1>2 DEF flight
  <1>4. Closed(op[c]) /\ Closed(op'[c])
    BY <1>1, <1>2, ClosedSteps
  <1>5. op'[c].new = op[c].new /\ (Unsent(op'[c]) => Unsent(op[c]))
    BY <1>2 DEF Same, Unsent
  <1>6. QED
    BY <1>1, <1>2, <1>3, <1>4, <1>5, ClosedKeeps DEF Others

\* A look-up is no word on the listing, whatever it leads to.
LEMMA LooksFresh ==
  ASSUME Core, Core', FreshInv, NEW c \in Client, NEW l, Looks(c, l) PROVE FreshInv'
  <1>1. Types /\ LinkInv /\ OpTypes' /\ Phase(op[c]) /\ Phase(op'[c])
    <2>1. OpTypes' /\ Phase(op'[c]) /\ LinkInv
      BY DEF Core, Types, OpTypes, Fit
    <2>2. QED
      BY <2>1, TypesGive DEF Core
  <1>2. /\ op[c].step = "find"
        /\ UNCHANGED <<tree, cache, ops, excused, touched>>
        /\ \/ /\ Others(c) /\ Same(op[c], op'[c]) /\ op'[c].step \in {"find", "call"}
           \/ \E p \in OpRec, ok \in BOOLEAN : End(c, p, ok) /\ Asked(p) /\ Same(op[c], p)
    BY <1>1, LooksEffect
  <1>3. key' = key
    BY DEF Looks, Hit, Take, flight, SF!Leave
  <1>4. CASE Others(c) /\ Same(op[c], op'[c]) /\ op'[c].step \in {"find", "call"}
    <2>1. Closed(op[c]) /\ Closed(op'[c])
      BY <1>1, <1>2, <1>4, ClosedSteps
    <2>2. op'[c].new = op[c].new /\ (Unsent(op'[c]) => Unsent(op[c]))
      BY <1>2, <1>4 DEF Same, Unsent
    <2>3. QED
      BY <1>1, <1>2, <1>3, <1>4, <2>1, <2>2, ClosedKeeps DEF Others
  <1>5. CASE \E p \in OpRec, ok \in BOOLEAN : End(c, p, ok) /\ Asked(p) /\ Same(op[c], p)
    <2>1. PICK p \in OpRec, ok \in BOOLEAN : End(c, p, ok) /\ Asked(p) /\ Same(op[c], p)
      BY <1>5
    <2>2. p.put = op[c].put /\ p.new = op[c].new
      BY <2>1 DEF Same
    <2>3. QED
      BY <1>1, <1>2, <1>3, <2>1, <2>2, EndClosed
  <1>6. QED
    BY <1>2, <1>4, <1>5

\* Nor is taking part in a flight.
LEMMA DoFresh ==
  ASSUME Core, Core', FreshInv, NEW c \in Client, Do(c) PROVE FreshInv'
  <1>1. Types /\ OpTypes' /\ Phase(op[c]) /\ key \in [Client -> Dir]
    <2>1. OpTypes'
      BY DEF Core, Types, OpTypes, Fit
    <2>2. QED
      BY <2>1, TypesGive, FlightGives DEF Core
  <1> DEFINE d == Cur(op[c])
  <1>2. /\ op[c].step = "find"
        /\ SF!Lead(c, d) \/ SF!Join(c, d)
        /\ UNCHANGED <<tree, cache, op, ops, excused, touched>>
    BY DEF Do, Finding, Is
  <1>3. key' = [key EXCEPT ![c] = d]
    BY <1>2 DEF SF!Lead, SF!Join
  <1>4. Closed(op[c])
    BY <1>1, <1>2, ClosedSteps
  <1>5. \A x \in Client : x # c => key'[x] = key[x]
    BY <1>1, <1>3
  <1>6. QED
    BY <1>1, <1>2, <1>4, <1>5, ClosedKeeps

\* Nor is the end of a flight.
LEMMA UnmapFresh ==
  ASSUME Core, Core', FreshInv, NEW c \in Client, Unmap(c) PROVE FreshInv'
  <1>1. UNCHANGED <<tree, cache, op, ops, excused, touched>> /\ key' = key /\ OpTypes'
    BY DEF Unmap, SF!Unmap, Core, Types, OpTypes
  <1>2. QED
    BY <1>1, ClosedKeeps

\* Nor is a call that fails.
LEMMA CallFailsFresh ==
  ASSUME Core, Core', FreshInv, NEW c \in Client, CallFails(c) PROVE FreshInv'
  <1>1. Types /\ op[c] \in OpRec /\ Asked(op[c])
    BY TypesGive DEF Core
  <1>2. /\ op[c].step = "call" /\ End(c, op[c], FALSE)
        /\ UNCHANGED <<tree, cache, ops, excused, touched>> /\ UNCHANGED flight
    BY DEF CallFails, Is
  <1>3. key' = key
    BY <1>2 DEF flight
  <1>4. QED
    BY <1>1, <1>2, <1>3, EndClosed

\* Unique after a step of one client that goes on.
LEMMA UniqueOn ==
  ASSUME OpTypes', Unique, tree' = tree, ops' = ops, NEW c \in Client, Others(c),
         SameCall(op[c], op'[c]),
         op[c].step \in {"edit", "apply"} => op'[c].step \in {"edit", "apply"}
  PROVE  Unique'
  <1>1. op'[c].new = op[c].new /\ (Unsent(op'[c]) => Unsent(op[c]))
    BY DEF SameCall, Unsent
  <1>2. QED
    BY <1>1, UniqueSame DEF Others

\* A listing that is read is the driver's; the directory is excused if anyone else is at it.
LEMMA ReadDirFresh ==
  ASSUME Core, Core', FreshInv, NEW c \in Client, ReadDir(c), NEW k, k = key[c] PROVE FreshInv'
  <1>1. Types /\ LinkInv /\ OpTypes' /\ Phase(op[c]) /\ key \in [Client -> Dir]
    <2>1. OpTypes'
      BY DEF Core, Types, OpTypes
    <2>2. QED
      BY <2>1, TypesGive, FlightGives DEF Core
  <1>2. /\ op[c].step = "find" /\ op'[c].step = "fill" /\ Others(c)
        /\ SameCall(op[c], op'[c]) /\ op'[c].edits = << >> /\ op[c].edits = << >>
        /\ op'[c].base \in {None, tree[k]}
        /\ excused' = IF Open(k) # {} THEN excused \cup {k}
                      ELSE IF op'[c].base = None THEN excused ELSE excused \ {k}
        /\ k \in Dir
    BY <1>1, ReadDirEffect
  <1>3. UNCHANGED <<tree, cache, ops>> /\ key' = key
    BY DEF ReadDir, flight
  <1>4. Unique'
    BY <1>1, <1>2, <1>3, UniqueOn DEF FreshInv
  <1>5. Apart'
    BY <1>2, ApartSame DEF FreshInv, Others
  <1>6. /\ \A d : ~Owes(c, d) /\ ~Makes(c, d) /\ ~Owes(c, d)' /\ ~Makes(c, d)' /\ ~Fills(c, d)
        /\ \A d : Fills(c, d)' <=> d = k
        /\ Len(op'[c].edits) = 0
    BY <1>2, <1>3 DEF Owes, Makes, Fills
  <1>7. \A x \in Client : x # c => op'[x] = op[x] /\ key'[x] = key[x]
    BY <1>2, <1>3 DEF Others
  <1>8. ASSUME NEW d \in Dir \ excused', d # k PROVE UpToDate(d)'
    <2>1. UpToDate(d)
      BY <1>2, <1>8 DEF FreshInv
    <2>2. SameFor(c, d)
      BY <1>6, <1>8 DEF SameFor, SaysLess
    <2>3. \A x \in Client : SameFor(x, d)
      BY <1>7, <2>2, SameForSame
    <2>4. QED
      BY <1>3, <2>1, <2>3, FreshSame
  <1>9. ASSUME k \notin excused' PROVE UpToDate(k)'
    <2>1. Open(k) = {}
      BY <1>2, <1>9
    <2>2. \A x \in Client : ~Fills(x, k) /\ ~Owes(x, k)
      BY <1>1, <1>2, <2>1, OpenIs
    <2>3. \A x \in Client : x # c => ~Fills(x, k)' /\ ~Owes(x, k)'
      BY <1>7, <2>2 DEF Fills, Owes
    <2>4. \A x \in Client : ~Owes(x, k)' /\ ~Makes(x, k)'
      BY <1>6, <2>3 DEF Owes, Makes
    <2>5. Quiet(k)'
      <3>1. CASE op'[c].base = None
        <4>1. Quiet(k)
          BY <1>2, <1>9, <2>1, <3>1 DEF FreshInv, UpToDate
        <4>2. cache[k] \in {None, tree[k]}
          BY <2>2, <4>1 DEF Quiet
        <4>3. QED
          BY <1>3, <4>2 DEF Quiet
      <3>2. CASE op'[c].base # None
        BY <1>6, <3>2 DEF Quiet
      <3>3. QED
        BY <3>1, <3>2
    <2>6. OnItsWay(k)'
      BY <1>2, <1>3, <2>3 DEF OnItsWay
    <2>7. EditsRight(k)'
      BY <2>4 DEF EditsRight, Owes
    <2>8. Solo(k)'
      BY <2>3, <2>4 DEF Solo
    <2>9. QED
      BY <2>5, <2>6, <2>7, <2>8 DEF UpToDate
  <1>10. QED
    BY <1>4, <1>5, <1>8, <1>9 DEF FreshInv

\* It is so still when it goes into the cache: a change meanwhile would have excused it.
LEMMA FillFresh ==
  ASSUME Core, Core', FreshInv, NEW c \in Client, Fill(c),
         NEW k, k = key[c], NEW l, l = op[c].base
  PROVE  FreshInv'
  <1>1. /\ Types /\ LinkInv /\ OpTypes' /\ Phase(op[c]) /\ key \in [Client -> Dir]
        /\ cache \in [Dir -> Listing \cup {None}]
    <2>1. OpTypes'
      BY DEF Core, Types, OpTypes
    <2>2. QED
      BY <2>1, TypesGive, FlightGives DEF Core, Types
  <1>2. /\ op[c].step = "fill" /\ op'[c].step = "find" /\ Others(c)
        /\ SameCall(op[c], op'[c]) /\ op'[c].edits = << >> /\ op[c].edits = << >>
    BY <1>1, FillEffect
  <1>3. /\ UNCHANGED <<tree, ops, excused, touched>> /\ key' = key /\ k \in Dir
        /\ cache' = IF l = None THEN cache ELSE [cache EXCEPT ![k] = Kept(l)]
    BY <1>1 DEF Fill, SF!Finish
  <1>4. Unique'
    BY <1>1, <1>2, <1>3, UniqueOn DEF FreshInv
  <1>5. Apart'
    BY <1>2, ApartSame DEF FreshInv, Others
  <1>6. /\ \A d : ~Owes(c, d) /\ ~Makes(c, d) /\ ~Owes(c, d)' /\ ~Makes(c, d)' /\ ~Fills(c, d)'
        /\ \A d : Fills(c, d) <=> d = k
        /\ Len(op'[c].edits) = 0
    BY <1>2, <1>3 DEF Owes, Makes, Fills
  <1>7. \A x \in Client : x # c => op'[x] = op[x] /\ key'[x] = key[x]
    BY <1>2, <1>3 DEF Others
  <1>8. ASSUME NEW d \in Dir \ excused', d # k PROVE UpToDate(d)'
    <2>1. UpToDate(d)
      BY <1>3, <1>8 DEF FreshInv
    <2>2. SameFor(c, d)
      BY <1>6, <1>8 DEF SameFor, SaysLess
    <2>3. \A x \in Client : SameFor(x, d)
      BY <1>7, <2>2, SameForSame
    <2>4. cache'[d] = cache[d]
      BY <1>1, <1>3, <1>8
    <2>5. QED
      BY <1>3, <2>1, <2>3, <2>4, FreshSame
  <1>9. ASSUME k \notin excused' PROVE UpToDate(k)'
    <2>1. UpToDate(k)
      BY <1>3, <1>9 DEF FreshInv
    <2>2. l \in {None, tree[k]}
      BY <1>6, <2>1 DEF UpToDate, OnItsWay
    <2>3. \A x \in Client : ~Fills(x, k)' /\ ~Makes(x, k)'
      <3>1. \A x \in Client : x # c => ~Fills(x, k) /\ ~Makes(x, k)
        BY <1>6, <2>1 DEF UpToDate, Solo
      <3>2. QED
        BY <1>6, <1>7, <3>1 DEF Fills, Makes
    <2>4. Quiet(k)'
      <3>1. CASE l = None
        <4>1. ASSUME NEW x \in Client, ~Owes(x, k)' PROVE ~Owes(x, k)
          <5>1. CASE x = c
            BY <1>6, <5>1
          <5>2. CASE x # c
            BY <1>7, <4>1, <5>2 DEF Owes
          <5>3. QED
            BY <5>1, <5>2
        <4>2. \A x \in Client : ~(Fills(x, k) /\ op[x].base # None)
          BY <1>6, <2>1, <3>1 DEF UpToDate, Solo
        <4>3. QED
          BY <1>3, <2>1, <3>1, <4>1, <4>2 DEF UpToDate, Quiet
      <3>2. CASE l # None
        <4>1. cache'[k] = Kept(tree[k])
          BY <1>1, <1>3, <2>2, <3>2
        <4>2. QED
          BY <1>3, <4>1 DEF Quiet, Kept
      <3>3. QED
        BY <3>1, <3>2
    <2>5. OnItsWay(k)' /\ Solo(k)'
      BY <2>3 DEF OnItsWay, Solo
    <2>6. EditsRight(k)'
      BY <2>3 DEF EditsRight, Makes
    <2>7. QED
      BY <2>4, <2>5, <2>6 DEF UpToDate
  <1>10. QED
    BY <1>3, <1>4, <1>5, <1>8, <1>9 DEF FreshInv

\* An edit reads a listing that it will make the driver's.
LEMMA GrabFresh ==
  ASSUME Core, Core', FreshInv, NEW c \in Client, Grab(c) PROVE FreshInv'
  <1>1. Types /\ LinkInv /\ OpTypes'
    BY DEF Core, Types, OpTypes
  <1>2. /\ op[c].step = "edit" /\ op'[c].step = "apply" /\ Others(c)
        /\ SameCall(op[c], op'[c]) /\ op'[c].edits = op[c].edits /\ op[c].edits # << >>
        /\ op[c].edits \in Seq(EditRec)
        /\ op'[c].base = cache[op[c].edits[1].dir]
    BY <1>1, GrabEffect
  <1>3. UNCHANGED <<tree, cache, ops, excused>> /\ key' = key
    BY DEF Grab, flight
  <1>4. Unique'
    BY <1>1, <1>2, <1>3, UniqueOn DEF FreshInv
  <1>5. Apart'
    BY <1>2, ApartSame DEF FreshInv, Others
  <1>6. /\ \A d : ~Fills(c, d) /\ ~Fills(c, d)'
        /\ \A d : (Owes(c, d)' <=> Owes(c, d)) /\ (Makes(c, d)' <=> Makes(c, d))
    BY <1>2 DEF Owes, Makes, Fills
  <1>7. \A x \in Client : x # c => op'[x] = op[x] /\ key'[x] = key[x]
    BY <1>2, <1>3 DEF Others
  <1>8. ASSUME NEW d \in Dir \ excused' PROVE UpToDate(d)'
    <2>1. UpToDate(d)
      BY <1>3, <1>8 DEF FreshInv
    <2>2. ASSUME NEW x \in Client
          PROVE  /\ (Fills(x, d)' <=> Fills(x, d)) /\ (Owes(x, d)' <=> Owes(x, d))
                 /\ (Makes(x, d)' <=> Makes(x, d))
                 /\ Fills(x, d) => op'[x].base = op[x].base
      <3>1. CASE x = c
        BY <1>6, <3>1
      <3>2. CASE x # c
        BY <1>7, <3>2 DEF Fills, Owes, Makes
      <3>3. QED
        BY <3>1, <3>2
    <2>3. Quiet(d)'
      BY <1>3, <2>1, <2>2 DEF UpToDate, Quiet
    <2>4. OnItsWay(d)'
      BY <1>3, <2>1, <2>2 DEF UpToDate, OnItsWay
    <2>5. Solo(d)'
      BY <2>1, <2>2 DEF UpToDate, Solo
    <2>6. EditsRight(d)'
      <3> SUFFICES ASSUME NEW x \in Client, NEW i \in 1 .. Len(op'[x].edits),
                          op'[x].edits[i].dir = d, op'[x].edits[i].act # "clear"
                   PROVE  EditRight(op[x], i, d)'
        BY DEF EditsRight
      <3>1. i \in 1 .. Len(op[x].edits) /\ op[x].edits[i] = op'[x].edits[i]
        BY <1>2, <1>7
      <3>2. EditRight(op[x], i, d)
        BY <2>1, <3>1 DEF UpToDate, EditsRight
      <3>3. CASE x # c
        BY <1>3, <1>7, <3>2, <3>3 DEF EditRight
      <3>4. CASE x = c
        <4>1. cache[d] = None \/ Ed(op[c].edits[i], cache[d]) = tree[d]
          BY <1>2, <3>2, <3>4 DEF EditRight
        <4>2. i = 1 => op'[c].base = cache[d]
          BY <1>2, <3>1, <3>4
        <4>3. QED
          BY <1>3, <3>1, <3>4, <4>1, <4>2 DEF EditRight
      <3>5. QED
        BY <3>3, <3>4
    <2>7. QED
      BY <2>3, <2>4, <2>5, <2>6 DEF UpToDate
  <1>9. QED
    BY <1>4, <1>5, <1>8 DEF FreshInv

\* A listing that expires owes nothing.
LEMMA ExpireFresh ==
  ASSUME Core, Core', FreshInv, NEW k \in Dir, Expire(k) PROVE FreshInv'
  <1>1. /\ Types /\ OpTypes' /\ cache \in [Dir -> Listing \cup {None}]
    BY DEF Core, Types, OpTypes
  <1>2. /\ cache' = [cache EXCEPT ![k] = None]
        /\ excused' = IF Open(k) = {} THEN excused \ {k} ELSE excused
        /\ UNCHANGED <<tree, op, ops, touched>> /\ key' = key
    BY DEF Expire, flight
  <1>3. Unique'
    <2>1. \A x \in Client : op'[x].new = op[x].new /\ (Unsent(op'[x]) => Unsent(op[x]))
      BY <1>2
    <2>2. QED
      BY <1>1, <1>2, <2>1, UniqueSame DEF FreshInv
  <1>4. Apart'
    BY <1>2, ApartSame DEF FreshInv
  <1>5. ASSUME NEW d \in Dir, d \notin excused PROVE UpToDate(d)'
    <2>1. UpToDate(d)
      BY <1>5 DEF FreshInv
    <2>2. cache'[d] \in {None, cache[d]}
      BY <1>1, <1>2
    <2>3. \A x \in Client : SameFor(x, d)
      BY <1>2, SameForSame
    <2>4. QED
      BY <1>2, <2>1, <2>2, <2>3, FreshSame
  <1>6. ASSUME k \in excused, Open(k) = {} PROVE UpToDate(k)'
    <2>1. \A x \in Client : ~Fills(x, k) /\ ~Owes(x, k)
      BY <1>1, <1>6, OpenIs
    <2>2. \A x \in Client : ~Fills(x, k)' /\ ~Owes(x, k)' /\ ~Makes(x, k)'
      BY <1>2, <2>1 DEF Fills, Owes, Makes
    <2>3. cache'[k] = None
      BY <1>1, <1>2
    <2>4. Quiet(k)' /\ OnItsWay(k)' /\ Solo(k)'
      BY <2>2, <2>3 DEF Quiet, OnItsWay, Solo
    <2>5. EditsRight(k)'
      BY <2>2 DEF EditsRight, Owes
    <2>6. QED
      BY <2>4, <2>5 DEF UpToDate
  <1>7. QED
    BY <1>2, <1>3, <1>4, <1>5, <1>6 DEF FreshInv

\* The call, or the last edit, is over: nothing is left to say, and the content stays the
\* upload's own.
LEMMA EndSays ==
  ASSUME Types, NEW c \in Client, op[c].step \in {"call", "apply"}, NEW ok \in BOOLEAN,
         End(c, op[c], ok)
  PROVE  /\ OpTypes' /\ op'[c].edits = << >> /\ op'[c].step \notin {"fill", "edit", "apply"}
         /\ \A x \in Client : x # c => op'[x] = op[x] \/ (Closed(op[x]) /\ Closed(op'[x]))
         /\ \A x \in Client : \/ op'[x].new = None
                              \/ op'[x].new = op[x].new /\ (Unsent(op'[x]) => Unsent(op[x]))
         /\ op[c].put = "send" => ~Unsent(op'[c])
  <1>1. OpTypes /\ op[c] \in OpRec /\ Asked(op[c]) /\ \A x \in Client : Phase(op[x])
    BY TypesGive DEF Types, Fit
  <1>2. /\ OpTypes' /\ Follows(op[c], ok, op'[c])
        /\ \A x \in Client : x # c =>
             \/ op'[x] = op[x]
             \/ op[x].step = "join" /\ Follows(op[x], ok, op'[x])
    BY <1>1, EndEffect
  <1>3. op'[c].edits = << >> /\ op'[c].step \notin {"fill", "edit", "apply"}
    BY <1>2 DEF Follows
  <1>4. ASSUME NEW x \in Client, x # c
        PROVE  op'[x] = op[x] \/ (Closed(op[x]) /\ Closed(op'[x]))
    BY <1>1, <1>2, <1>4, ClosedSteps DEF Follows, Closed
  <1>5. ASSUME NEW x \in Client
        PROVE  \/ op'[x].new = None
               \/ op'[x].new = op[x].new /\ (Unsent(op'[x]) => Unsent(op[x]))
    <2>1. CASE op'[x] = op[x]
      BY <2>1
    <2>2. CASE Follows(op[x], ok, op'[x])
      BY <2>2, UnsentFollows
    <2>3. QED
      BY <1>2, <2>1, <2>2
  <1>6. op[c].put = "send" => ~Unsent(op'[c])
    BY <1>2 DEF Follows, Unsent
  <1>7. QED
    BY <1>2, <1>3, <1>4, <1>5, <1>6

\* The contents stay apart when the driver has done what it was asked.
LEMMA CallUnique ==
  ASSUME Types, OpTypes', Unique, NEW c \in Client, Shape(op[c]), CanDo(op[c]),
         tree' = Done(op[c]), ops' = ops,
         \A x \in Client : \/ op'[x].new = None
                           \/ op'[x].new = op[x].new /\ (Unsent(op'[x]) => Unsent(op[x])),
         op[c].kind = "put" => ~Unsent(op'[c])
  PROVE  Unique'
  <1>1. /\ None \notin Upload /\ Folder \notin Upload /\ tree \in [Dir -> Listing]
        /\ \A x \in Client : op'[x].new \in Upload \cup {None}
    BY Sets DEF Types, OpTypes, OpRec
  <1>2. \A d \in Dir, y \in Name :
          \/ tree'[d][y] \in {None, Folder}
          \/ op[c].kind = "put" /\ tree'[d][y] = op[c].new
          \/ \E z \in Name, e \in Dir : tree'[d][y] = tree[e][z]
    BY <1>1, DoneValues
  <1>3. ASSUME NEW x \in Client, op'[x].new = None PROVE ~Unsent(op'[x])
    <2>1. Asked(op'[x])
      BY DEF OpTypes, Fit
    <2>2. op'[x].put = None
      BY <1>1, <1>3, <2>1 DEF Asked
    <2>3. QED
      BY <2>2 DEF Unsent
  <1>4. \A k \in Upload : k > ops' + 1 =>
          /\ \A d \in Dir, y \in Name : tree'[d][y] # k
          /\ \A x \in Client : op'[x].new # k
    <2> SUFFICES ASSUME NEW k \in Upload, k > ops + 1
                 PROVE  /\ \A d \in Dir, y \in Name : tree'[d][y] # k
                        /\ \A x \in Client : op'[x].new # k
      OBVIOUS
    <2>1. /\ \A d \in Dir, y \in Name : tree[d][y] # k
          /\ \A x \in Client : op[x].new # k
      BY DEF Unique
    <2>2. \A d \in Dir, y \in Name : tree'[d][y] # k
      BY <1>1, <1>2, <2>1
    <2>3. \A x \in Client : op'[x].new # k
      BY <1>1, <2>1
    <2>4. QED
      BY <2>2, <2>3
  <1>5. \A a, b \in Client : a # b /\ op'[a].new # None => op'[a].new # op'[b].new
    BY DEF Unique
  <1>6. ASSUME NEW x \in Client, Unsent(op'[x]), NEW d \in Dir, NEW y \in Name
        PROVE  tree'[d][y] # op'[x].new
    <2>1. op'[x].new # None /\ op'[x].new = op[x].new /\ Unsent(op[x]) /\ op[x].new \in Upload
      BY <1>1, <1>3, <1>6
    <2>2. \A e \in Dir, z \in Name : tree[e][z] # op[x].new
      BY <2>1 DEF Unique
    <2>3. op[c].kind = "put" => op[c].new # op[x].new
      BY <1>1, <1>6, <2>1 DEF Unique
    <2>4. QED
      BY <1>1, <1>2, <2>1, <2>2, <2>3
  <1>7. QED
    BY <1>4, <1>5, <1>6 DEF Unique, Unsent

\* A directory the call leaves alone stays up to date, and one it changes is now up to
\* the edits.
LEMMA CallFresh ==
  ASSUME Core, Core', FreshInv, NEW c \in Client, NEW result \in BOOLEAN, Call(c, result)
  PROVE  FreshInv'
  <1> DEFINE o == op[c]
             es == Edits(o, result)
  <1>1. Types /\ LinkInv /\ OpTypes' /\ Unique /\ Apart /\ Asked(o)
    <2>1. OpTypes'
      BY DEF Core, Types, OpTypes
    <2>2. QED
      BY <2>1, TypesGive DEF Core, FreshInv
  <1>2. /\ op[c].step = "call" /\ Shape(o) /\ CanDo(o) /\ tree' = Done(o)
        /\ op[c].edits = << >> /\ AllOK(es, o)
        /\ \A d \in About(o) : tree'[d] # tree[d] => \E i \in 1 .. Len(es) : es[i].dir = d
        /\ excused' = excused \cup
             {d \in Dir : /\ tree'[d] # tree[d]
                          /\ \/ Open(d) # {}
                             \/ /\ \A i \in 1 .. Len(es) : es[i].dir # d
                                /\ d \notin About(o) /\ cache[d] # None}
        /\ \/ /\ Others(c) /\ op'[c].step = "edit" /\ SameCall(o, op'[c])
              /\ op'[c].edits = es
           \/ End(c, op[c], TRUE) /\ es = << >>
    BY <1>1, CallEffect, ZenonT(60)
  <1>3. cache' = cache /\ ops' = ops /\ key' = key
    BY DEF Call, flight
  <1>4. o.kind = "put" => o.put = "send" /\ Unsent(o)
    BY <1>2, Sets DEF Shape, Unsent, Stages
  <1> HIDE DEF es
  <1>5. /\ op'[c].edits = es /\ op'[c].step \notin {"fill", "apply"}
        /\ \A x \in Client : x # c => op'[x] = op[x] \/ (Closed(op[x]) /\ Closed(op'[x]))
        /\ \A x \in Client : \/ op'[x].new = None
                             \/ op'[x].new = op[x].new /\ (Unsent(op'[x]) => Unsent(op[x]))
        /\ o.put = "send" => ~Unsent(op'[c])
    <2>1. CASE End(c, op[c], TRUE) /\ es = << >>
      BY <1>1, <1>2, <2>1, EndSays
    <2>2. CASE /\ Others(c) /\ op'[c].step = "edit" /\ SameCall(o, op'[c])
               /\ op'[c].edits = es
      BY <1>2, <2>2 DEF Others, SameCall, Unsent
    <2>3. QED
      BY <1>2, <2>1, <2>2
  <1>6. Unique'
    BY <1>1, <1>2, <1>3, <1>4, <1>5, CallUnique
  <1>7. Apart'
    <2>1. ASSUME NEW x \in Client, NEW i \in 1 .. Len(op'[x].edits), NEW j \in 1 .. Len(op'[x].edits),
                 op'[x].edits[i].dir = op'[x].edits[j].dir
          PROVE  i = j
      <3>1. CASE x = c
        BY <1>2, <1>5, <2>1, <3>1 DEF AllOK
      <3>2. CASE op'[x] = op[x]
        BY <1>1, <2>1, <3>2 DEF Apart
      <3>3. CASE Closed(op'[x])
        BY <2>1, <3>3 DEF Closed
      <3>4. QED
        BY <1>5, <3>1, <3>2, <3>3
    <2>2. QED
      BY <2>1 DEF Apart
  <1>8. ASSUME NEW d \in Dir
        PROVE  /\ ~Fills(c, d) /\ ~Fills(c, d)' /\ ~Owes(c, d) /\ ~Makes(c, d)
               /\ \A x \in Client : x # c => SameFor(x, d)
    <2>1. ~Fills(c, d) /\ ~Fills(c, d)' /\ ~Owes(c, d) /\ ~Makes(c, d)
      BY <1>2, <1>5 DEF Fills, Owes, Makes
    <2>2. \A x \in Client : x # c => SameFor(x, d)
      BY <1>3, <1>5, SameForSame, SameForClosed
    <2>3. QED
      BY <2>1, <2>2
  <1>9. ASSUME NEW d \in Dir, d \notin excused, tree'[d] = tree[d] PROVE UpToDate(d)'
    <2>1. UpToDate(d)
      BY <1>9 DEF FreshInv
    <2>2. \A i \in 1 .. Len(es) : es[i].dir = d => es[i].act = "clear"
      <3> SUFFICES ASSUME NEW i \in 1 .. Len(es), es[i].dir = d, es[i].act # "clear" PROVE FALSE
        OBVIOUS
      <3>1. EditOK(es[i], o)
        BY <1>2 DEF AllOK
      <3>2. o.kind = "put" /\ tree["d"]["f"] = o.new
        BY <1>2, <1>9, <3>1 DEF EditOK
      <3>3. Unsent(o) => tree["d"]["f"] # o.new
        BY <1>1 DEF Unique, Dir, Name
      <3>4. QED
        BY <1>4, <3>2, <3>3
    <2>3. ~Makes(c, d)'
      BY <1>5, <2>2 DEF Makes
    <2>4. SameFor(c, d)
      BY <1>5, <1>8, <2>2, <2>3 DEF SameFor, SaysLess
    <2>5. QED
      BY <1>3, <1>8, <1>9, <2>1, <2>4, FreshSame
  <1>10. ASSUME NEW d \in Dir \ excused', tree'[d] # tree[d] PROVE UpToDate(d)'
    <2>1. d \notin excused /\ Open(d) = {}
      BY <1>2, <1>10
    <2>2. (\E i \in 1 .. Len(es) : es[i].dir = d) \/ cache[d] = None
      BY <1>2, <1>10
    <2>3. UpToDate(d)
      BY <2>1 DEF FreshInv
    <2>4. \A x \in Client : ~Fills(x, d) /\ ~Owes(x, d)
      BY <1>1, <2>1, OpenIs
    <2>5. cache[d] \in {None, tree[d]}
      BY <2>3, <2>4 DEF UpToDate, Quiet
    <2>6. ASSUME NEW x \in Client, x # c PROVE ~Fills(x, d)' /\ ~Owes(x, d)' /\ ~Makes(x, d)'
      <3>1. CASE op'[x] = op[x]
        BY <1>3, <2>4, <3>1 DEF Fills, Owes, Makes
      <3>2. CASE Closed(op'[x])
        BY <3>2 DEF Closed, Fills, Owes, Makes
      <3>3. QED
        BY <1>5, <2>6, <3>1, <3>2
    <2>7. Quiet(d)'
      <3>1. Owes(c, d)' \/ cache[d] = None
        BY <1>5, <2>2 DEF Owes
      <3>2. QED
        BY <1>3, <3>1 DEF Quiet
    <2>8. OnItsWay(d)' /\ Solo(d)'
      BY <1>8, <2>6 DEF OnItsWay, Solo
    <2>9. EditsRight(d)'
      <3> SUFFICES ASSUME NEW x \in Client, NEW i \in 1 .. Len(op'[x].edits),
                          op'[x].edits[i].dir = d, op'[x].edits[i].act # "clear"
                   PROVE  EditRight(op[x], i, d)'
        BY DEF EditsRight
      <3>1. x = c
        BY <2>6 DEF Owes
      <3>2. EditOK(es[i], o) /\ op'[c].edits[i] = es[i]
        BY <1>2, <1>5, <3>1 DEF AllOK
      <3>3. Ed(es[i], tree[d]) = tree'[d]
        BY <1>2, <3>1, <3>2 DEF EditOK
      <3>4. QED
        BY <1>3, <1>5, <2>5, <3>1, <3>2, <3>3 DEF EditRight
    <2>10. QED
      BY <2>7, <2>8, <2>9 DEF UpToDate
  <1>11. ASSUME NEW d \in Dir \ excused' PROVE UpToDate(d)'
    <2>1. d \notin excused
      BY <1>2
    <2>2. QED
      BY <1>9, <1>10, <2>1
  <1>12. QED
    BY <1>6, <1>7, <1>11 DEF FreshInv

\* An edit that is made leaves its directory up to date; the others it leaves alone, or
\* drops their listing.
LEMMA ApplyFresh ==
  ASSUME Core, Core', FreshInv, NEW c \in Client, Apply(c) PROVE FreshInv'
  <1> DEFINE o == op[c]
             es == o.edits
             e == es[1]
             l == o.base
             t == Tail(es)
  <1>1. /\ Types /\ LinkInv /\ OpTypes' /\ Unique /\ Apart
        /\ cache \in [Dir -> Listing \cup {None}]
    BY DEF Core, Types, OpTypes, FreshInv
  <1>2. /\ op[c].step = "apply" /\ es \in Seq(EditRec) /\ es # << >> /\ e \in EditRec
        /\ cache' = Edited(e, l)
        /\ \/ /\ OpTypes' /\ Others(c) /\ op'[c].step = "edit" /\ SameCall(o, op'[c])
              /\ op'[c].edits = t
           \/ End(c, op[c], TRUE) /\ t = << >>
    BY <1>1, ApplyEffect
  <1>3. UNCHANGED <<tree, ops, excused>> /\ key' = key
    BY DEF Apply, flight
  <1> HIDE DEF t
  <1>4. /\ op'[c].edits = t /\ op'[c].step \notin {"fill", "apply"}
        /\ \A x \in Client : x # c => op'[x] = op[x] \/ (Closed(op[x]) /\ Closed(op'[x]))
        /\ \A x \in Client : \/ op'[x].new = None
                             \/ op'[x].new = op[x].new /\ (Unsent(op'[x]) => Unsent(op[x]))
    <2>1. CASE End(c, op[c], TRUE) /\ t = << >>
      BY <1>1, <1>2, <2>1, EndSays
    <2>2. CASE /\ Others(c) /\ op'[c].step = "edit" /\ SameCall(o, op'[c])
               /\ op'[c].edits = t
      BY <1>2, <2>2 DEF Others, SameCall, Unsent
    <2>3. QED
      BY <1>2, <2>1, <2>2
  <1>5. Unique'
    BY <1>1, <1>3, <1>4, UniqueSame
  <1>6. /\ \A i \in 1 .. Len(t) : i + 1 \in 1 .. Len(es) /\ i + 1 # 1 /\ t[i] = es[i + 1]
        /\ \A j \in 1 .. Len(es) : j # 1 => j - 1 \in 1 .. Len(t) /\ t[j - 1] = es[j]
        /\ 1 \in 1 .. Len(es) /\ \A i \in 1 .. Len(t) : i \in Nat
    BY <1>2 DEF t
  <1>7. \A i, j \in 1 .. Len(es) : es[i].dir = es[j].dir => i = j
    BY <1>1 DEF Apart
  <1> HIDE DEF es
  <1>8. Apart'
    <2>1. ASSUME NEW x \in Client, NEW i \in 1 .. Len(op'[x].edits), NEW j \in 1 .. Len(op'[x].edits),
                 op'[x].edits[i].dir = op'[x].edits[j].dir
          PROVE  i = j
      <3>1. CASE x = c
        <4>1. i \in 1 .. Len(t) /\ j \in 1 .. Len(t) /\ t[i].dir = t[j].dir
          BY <1>4, <2>1, <3>1
        <4>2. /\ i + 1 \in 1 .. Len(es) /\ j + 1 \in 1 .. Len(es) /\ i \in Nat /\ j \in Nat
              /\ es[i + 1].dir = es[j + 1].dir
          BY <1>6, <4>1
        <4>3. i + 1 = j + 1
          BY <1>7, <4>2
        <4>4. QED
          BY <4>2, <4>3
      <3>2. CASE op'[x] = op[x]
        BY <1>1, <2>1, <3>2 DEF Apart
      <3>3. CASE Closed(op'[x])
        BY <2>1, <3>3 DEF Closed
      <3>4. QED
        BY <1>4, <3>1, <3>2, <3>3
    <2>2. QED
      BY <2>1 DEF Apart
  <1>9. ASSUME NEW d \in Dir, NEW x \in Client, x # c PROVE SameFor(x, d)
    BY <1>3, <1>4, <1>9, SameForSame, SameForClosed
  <1>10. ASSUME NEW d \in Dir PROVE SaysLess(c, d)
    <2>1. ~Fills(c, d) /\ ~Fills(c, d)'
      BY <1>2, <1>4 DEF Fills
    <2>2. ASSUME NEW i \in 1 .. Len(t), t[i].dir = d, t[i].act # "clear"
          PROVE  \E j \in 1 .. Len(es) : es[j] = t[i] /\ j # 1
      BY <1>6
    <2>3. Makes(c, d)' => Makes(c, d)
      BY <1>4, <2>2 DEF Makes, es
    <2>4. QED
      BY <1>2, <1>4, <2>1, <2>2, <2>3 DEF SaysLess, es
  <1>11. ASSUME NEW d \in Dir \ excused, d # e.dir PROVE UpToDate(d)'
    <2>1. UpToDate(d)
      BY DEF FreshInv
    <2>2. cache'[d] \in {None, cache[d]}
      <3>1. CASE e.act # "clear" /\ l # None
        BY <1>1, <1>2, <1>11, <3>1, EditedIs
      <3>2. CASE e.act # "clear" /\ l = None
        BY <1>2, <3>2, EditedIs
      <3>3. CASE e.act = "clear"
        BY <1>2, <3>3, EditedIs
      <3>4. QED
        BY <3>1, <3>2, <3>3
    <2>3. Owes(c, d) => Owes(c, d)'
      <3> SUFFICES ASSUME NEW j \in 1 .. Len(es), es[j].dir = d PROVE Owes(c, d)'
        BY DEF Owes, es
      <3>1. j # 1
        BY <1>11
      <3>2. j - 1 \in 1 .. Len(t) /\ t[j - 1].dir = d
        BY <1>6, <3>1
      <3>3. QED
        BY <1>4, <3>2 DEF Owes
    <2>4. SameFor(c, d)
      BY <1>10, <2>3 DEF SameFor
    <2>5. QED
      BY <1>3, <1>9, <2>1, <2>2, <2>4, FreshSame
  <1>12. ASSUME NEW d \in Dir \ excused, d = e.dir PROVE UpToDate(d)'
    <2>1. UpToDate(d)
      BY DEF FreshInv
    <2>2. \A i \in 1 .. Len(t) : t[i].dir # d
      BY <1>6, <1>7, <1>12
    <2>3. ~Owes(c, d)' /\ ~Makes(c, d)' /\ ~Fills(c, d)'
      BY <1>4, <2>2 DEF Owes, Makes, Fills
    <2>4. CASE cache'[d] = None
      <3>1. \A x \in Client : SaysLess(x, d)
        BY <1>9, <1>10 DEF SameFor
      <3>2. OnItsWay(d)' /\ EditsRight(d)' /\ Solo(d)'
        BY <1>3, <2>1, <2>4, <3>1, LessSaid
      <3>3. Quiet(d)'
        BY <2>4 DEF Quiet
      <3>4. QED
        BY <3>2, <3>3 DEF UpToDate
    <2>5. CASE e.act = "clear"
      <3>1. cache'[d] = None
        BY <1>2, <1>12, <2>5, EditedIs
      <3>2. QED
        BY <2>4, <3>1
    <2>6. ASSUME e.act # "clear"
          PROVE  IF l = None THEN cache[d] = None ELSE Ed(e, l) = tree[d]
      <3>1. EditRight(o, 1, d)
        BY <1>6, <1>12, <2>1, <2>6 DEF UpToDate, EditsRight, es
      <3>2. QED
        BY <1>2, <3>1 DEF EditRight, es
    <2>7. CASE e.act # "clear" /\ l = None
      <3>1. cache'[d] = None
        BY <1>2, <2>6, <2>7, EditedIs
      <3>2. QED
        BY <2>4, <3>1
    <2>8. CASE e.act # "clear" /\ l # None
      <3>1. cache'[d] = tree[d]
        BY <1>1, <1>2, <1>12, <2>6, <2>8, EditedIs
      <3>2. Makes(c, d)
        BY <1>6, <1>12, <2>8 DEF Makes, es
      <3>3. ASSUME NEW x \in Client, x # c PROVE ~Fills(x, d)' /\ ~Makes(x, d)'
        <4>1. ~Fills(x, d) /\ ~Makes(x, d)
          BY <2>1, <3>2, <3>3 DEF UpToDate, Solo
        <4>2. QED
          BY <1>9, <3>3, <4>1 DEF SameFor, SaysLess
      <3>4. \A x \in Client : ~Fills(x, d)' /\ ~Makes(x, d)'
        BY <2>3, <3>3
      <3>5. Quiet(d)'
        BY <1>3, <3>1 DEF Quiet
      <3>6. OnItsWay(d)' /\ Solo(d)'
        BY <3>4 DEF OnItsWay, Solo
      <3>7. EditsRight(d)'
        BY <3>4 DEF EditsRight, Makes
      <3>8. QED
        BY <3>5, <3>6, <3>7 DEF UpToDate
    <2>9. QED
      BY <2>5, <2>7, <2>8
  <1>13. \A d \in Dir \ excused' : UpToDate(d)'
    BY <1>3, <1>11, <1>12
  <1>14. QED
    BY <1>5, <1>8, <1>13 DEF FreshInv

\* At first nothing is cached, and the one content there is may be 1.
LEMMA InitFresh == ASSUME Init PROVE FreshInv
  <1>1. PICK size \in {0, 1} :
          tree = [d \in Dir |-> IF d = "root" THEN [Empty EXCEPT !["d"] = Folder]
                                ELSE [Empty EXCEPT !["f"] = size]]
    BY DEF Init
  <1>2. cache = [d \in Dir |-> None] /\ op = [c \in Client |-> Idle] /\ ops = 0
    BY DEF Init
  <1>3. ASSUME NEW c \in Client
        PROVE  /\ Closed(op[c]) /\ op[c].new = None /\ ~Unsent(op[c])
               /\ \A d \in Dir : ~Fills(c, d) /\ ~Owes(c, d) /\ ~Makes(c, d)
    <2>1. op[c] = Idle
      BY <1>2
    <2>2. op[c].edits = << >> /\ op[c].step # "fill" /\ op[c].new = None /\ op[c].put = None
      BY <2>1, IdleFit
    <2>3. QED
      BY <2>2 DEF Closed, Unsent, Fills, Owes, Makes
  <1>4. \A d \in Dir, x \in Name : tree[d][x] \in {None, Folder, 0, 1}
    BY <1>1 DEF Empty
  <1>5. Unique
    <2>1. ASSUME NEW k \in Upload, k > ops + 1
          PROVE  k # 0 /\ k # 1 /\ k # None /\ k # Folder
      <3>1. k \in Nat /\ k > 1
        BY <1>2, <2>1, Sets
      <3>2. k # 0 /\ k # 1
        BY <3>1
      <3>3. QED
        BY <3>2, Sets
    <2>2. QED
      BY <1>3, <1>4, <2>1 DEF Unique
  <1>6. Apart
    BY <1>3 DEF Apart, Closed
  <1>7. ASSUME NEW d \in Dir PROVE UpToDate(d)
    <2>1. Quiet(d) /\ OnItsWay(d) /\ Solo(d)
      BY <1>2, <1>3 DEF Quiet, OnItsWay, Solo
    <2>2. EditsRight(d)
      BY <1>3 DEF EditsRight, Makes
    <2>3. QED
      BY <2>1, <2>2 DEF UpToDate
  <1>8. QED
    BY <1>5, <1>6, <1>7 DEF FreshInv

\* No step leaves a cached listing behind the driver's, unless it is excused.
LEMMA FreshKept == Core /\ Core' /\ FreshInv /\ [Next]_vars => FreshInv'
  <1> SUFFICES ASSUME Core, Core', FreshInv, [Next]_vars PROVE FreshInv'
    OBVIOUS
  <1>1. ASSUME NEW c \in Client, Steps1(c) PROVE FreshInv'
    BY <1>1, BeginFresh, EnterFresh, LooksFresh, DoFresh, ReadDirFresh, FillFresh,
       UnmapFresh, CallFresh, CallFailsFresh, GrabFresh, ApplyFresh DEF Steps1
  <1>2. CASE UNCHANGED vars
    <2>1. UNCHANGED <<tree, cache, op, ops, excused>> /\ key' = key
      BY <1>2 DEF vars, flight
    <2>2. OpTypes'
      BY DEF Core, Types, OpTypes
    <2>3. QED
      BY <2>1, <2>2, ClosedKeeps
  <1>3. QED
    BY <1>1, <1>2, NextSteps, ExpireFresh

\* delCacheObj, updateCacheObj and addCacheObj (fs.go:26-90): the edits made by hand are
\* the right ones. Whatever clients do and the driver answers, a cached listing nobody has
\* still a word on is the driver's listing, unless two operations overlapped on that
\* directory, or a lazy caller or a change of its parent left it unedited.
THEOREM StaleOnlyExcusedAlways == Spec => []StaleOnlyExcused
  <1>1. Core /\ FreshInv => StaleOnlyExcused
    <2> SUFFICES ASSUME Core, FreshInv, NEW d \in Dir \ excused, Open(d) = {}, cache[d] # None
                 PROVE  cache[d] = tree[d]
      BY DEF StaleOnlyExcused
    <2>1. \A x \in Client : ~Fills(x, d) /\ ~Owes(x, d)
      BY OpenIs DEF Core
    <2>2. Quiet(d)
      BY DEF FreshInv, UpToDate
    <2>3. QED
      BY <2>1, <2>2 DEF Quiet
  <1>2. QED
    BY <1>1, InitFresh, FreshKept, CoreHolds, PTL DEF Spec
=============================================================================

----------------------------- MODULE ObjectOps -----------------------------
(***************************************************************************)
(* File operations on one storage: List, Get, MakeDir, Move, Copy, Rename, *)
(* Remove and Put of internal/op/fs.go over the cache of directory         *)
(* listings, with the single flight of pkg/singleflight around a listing.  *)
(*                                                                         *)
(* The storage has a root directory and may have a directory "d" in it.    *)
(* Every operation finds its objects through listings, calls the driver,   *)
(* and then brings the cached listings up to date by hand.  Nothing is     *)
(* locked between these steps, and a listing may be under way at any.      *)
(***************************************************************************)
EXTENDS Naturals, Sequences, FiniteSets

CONSTANTS
  Client, None, Folder,
  Kinds,       \* the operations clients ask for
  MaxOps,      \* bound: how many operations that change the storage may begin
  Results,     \* of BOOLEAN: whether the driver hands out the new object
  Lazies,      \* of BOOLEAN: lazyCache
  NoOverwrite, \* Config.NoOverwriteUpload: an upload does not replace a file
  Unreadable   \* the directories whose listing may fail

Dir == {"root", "d"}
Name == {"d", "e", "f", "temp"}
Upload == 0 .. MaxOps + 1                  \* contents; 0 is an empty file
Obj == Upload \cup {Folder, None}
Listing == [Name -> Obj]
Empty == [x \in Name |-> None]

\* The calls an upload makes, by their place in Put.
Stages == {"check", "empty", "aside", "mkdir", "parent", "send", "clean", "recover"}

Changing == {"mkdir", "remove", "rename", "move", "copy", "put"}

ASSUME BoundAssumption == MaxOps \in Nat
ASSUME KindAssumption ==
  /\ Kinds \subseteq Changing \cup {"list"} /\ NoOverwrite \in BOOLEAN
  /\ Results \subseteq BOOLEAN /\ Lazies \subseteq BOOLEAN
ASSUME NoneAssumption ==
  /\ None \notin Client /\ None \notin Upload /\ None \notin Listing /\ None \notin Stages
  /\ Folder # None /\ Folder \notin Upload

VARIABLES
  tree,        \* the driver's directories
  cache,       \* listCache: a listing or None
  op,          \* what each client is doing
  ops,         \* how many changing operations have begun
  excused,     \* history: directories whose cached listing was not kept up to date
  touched,     \* history: a client asked to remove, rename, move or empty a file
  m, role, key, val, leader, forgotten     \* listG

SF == INSTANCE SingleFlight WITH Caller <- Client, Key <- Dir, Value <- Listing \cup {None}
flight == <<m, role, key, val, leader, forgotten>>
vars == <<tree, cache, op, ops, excused, touched, flight>>

\* An operation: its step; what it was asked; the objects it has still to find, as
\* <<directory, name>> pairs; whether it is finding "d" itself on the way (`parent');
\* what it found; the edits of the cache it owes and the listing in its hands.  An
\* operation that Put calls has the stage of the upload in `put', the content in
\* `new', and in `had' whether the old file was set aside.
Idle == [step |-> "idle", kind |-> "list", dir |-> "root", name |-> "d", to |-> "root",
         as |-> "f", lazy |-> FALSE, refresh |-> FALSE, need |-> << >>, parent |-> "no",
         obj |-> None, ok |-> TRUE, edits |-> << >>, base |-> None,
         put |-> None, new |-> None, had |-> FALSE]

Init ==
  /\ \E size \in {0, 1} :
       /\ tree = [d \in Dir |-> IF d = "root" THEN [Empty EXCEPT !["d"] = Folder]
                                ELSE [Empty EXCEPT !["f"] = size]]
       /\ touched = (size = 0)
  /\ cache = [d \in Dir |-> None]
  /\ op = [c \in Client |-> Idle]
  /\ ops = 0 /\ excused = {}
  /\ SF!SFInit

Set(c, o) == op' = [op EXCEPT ![c] = o]
Is(c, step) == op[c].step = step
Finding(c) == Is(c, "find") /\ op[c].need # << >> /\ role[c] = "out"
Exists(d) == d = "root" \/ tree["root"]["d"] = Folder

-----------------------------------------------------------------------------
(* From one call to the next.                                              *)

\* An operation begins with its first look-up; MakeDir first goes through mkdirG.
Start(kind, d, x) ==
  [Idle EXCEPT !.kind = kind, !.dir = d, !.name = x, !.need = <<<<d, x>>>>,
               !.step = IF kind = "mkdir" THEN "enter" ELSE "find"]

\* Put of the file "f" of "d", from one call to the next; `had' is whether a file
\* was set aside.
Stage(o, stage, kind, x) ==
  [Start(kind, "d", x) EXCEPT !.put = stage, !.new = o.new, !.had = o.had, !.lazy = o.lazy]
FindRoot(o, stage, kind) ==
  [Stage(o, stage, kind, "d") EXCEPT !.dir = "root", !.need = <<<<"root", "d">>>>]
MakeParent(o) == FindRoot(o, "mkdir", "mkdir")

\* Put: an empty file is removed first.
RemovesFirst(o) == o.obj = 0

\* Fault: the old file is removed although the upload failed.
Cleans_mutant(ok) == TRUE

\* After the driver's Put, the old file having been set aside: was it replaced?
Cleans(ok) == ok

\* What Put does when the call it made is over.
AfterPut(o, ok) ==
  CASE o.put = "check" ->
         IF ~ok THEN MakeParent(o)
         ELSE IF RemovesFirst(o) THEN Stage(o, "empty", "remove", "f")
         ELSE IF NoOverwrite
              THEN [Stage(o, "aside", "rename", "f") EXCEPT !.as = "temp", !.had = TRUE]
         ELSE MakeParent(o)
    [] o.put \in {"empty", "aside"} /\ ok -> MakeParent(o)
    [] o.put = "mkdir" /\ ok -> FindRoot(o, "parent", "get")
    [] o.put = "parent" /\ ok ->
         [Stage(o, "send", "put", "f") EXCEPT !.step = "call", !.need = << >>, !.obj = Folder]
    [] o.put = "send" /\ o.had ->
         IF Cleans(ok) THEN Stage(o, "clean", "remove", "temp")
         ELSE [Stage(o, "recover", "rename", "temp") EXCEPT !.as = "f"]
    [] OTHER -> Idle
After(o, ok) == IF o.put = None THEN Idle ELSE AfterPut(o, ok)

\* A client waiting in mkdirG for the operation that ends.
Shares(o, x) == o.kind = "mkdir" /\ Is(x, "join")

\* The call is over; those that waited for a MakeDir in mkdirG share its result.
End(c, o, ok) ==
  op' = [x \in Client |->
           IF x = c THEN After(o, ok)
           ELSE IF Shares(o, x) THEN After(op[x], ok) ELSE op[x]]

-----------------------------------------------------------------------------
(* Finding objects: op.List and op.Get.                                    *)

\* What the look-ups lead to.  A missing object is no error for Remove, and what
\* MakeDir wants.
Outcome(o) ==
  CASE o.kind \in {"list", "get"} -> "end"
    [] o.kind = "mkdir"  -> IF o.ok /\ o.obj = None THEN "call" ELSE "end"
    [] OTHER -> IF o.obj # None THEN "call" ELSE "end"
Good(o) ==
  CASE o.kind = "mkdir"  -> o.ok /\ o.obj = Folder
    [] o.kind = "remove" -> o.ok
    [] OTHER -> o.ok /\ o.obj # None

\* The directory being listed for the client.
Cur(o) == IF o.parent = "look" THEN "root" ELSE o.need[1][1]
\* List with Refresh goes past the cache; the look-ups on its way do not.
Fresh(o) == o.refresh /\ o.parent # "look"

\* The object looked for is in the listing, or it is not: go on with it.
Found(o, l) ==
  LET x == IF l = None THEN None ELSE l[o.need[1][2]]
      first == [o EXCEPT !.need = Tail(@), !.parent = "no"] IN
    IF o.kind = "list" THEN [first EXCEPT !.ok = l # None]
    ELSE IF x = None THEN [first EXCEPT !.need = << >>, !.obj = None, !.ok = l # None]
    ELSE IF o.obj = None THEN [first EXCEPT !.obj = x]
    ELSE first

\* The last object is found, or one is missing.
Decide(c, o) ==
  IF Outcome(o) = "call" THEN Set(c, [o EXCEPT !.step = "call"]) ELSE End(c, o, Good(o))

Got(c, l) ==
  LET o == op[c]
      next == IF o.parent # "look" THEN Found(o, l)
              ELSE IF l # None /\ l["d"] = Folder THEN [o EXCEPT !.parent = "ok"]
              ELSE [o EXCEPT !.need = << >>, !.obj = None, !.ok = l # None]
  IN IF next.need = << >> THEN Decide(c, next) ELSE Set(c, next)

\* The listing is in the cache.
Hit(c) ==
  /\ Finding(c)
  /\ op[c].parent # "ok" /\ cache[Cur(op[c])] # None /\ ~Fresh(op[c])
  /\ Got(c, cache[Cur(op[c])])
  /\ UNCHANGED <<tree, cache, ops, excused, touched, flight>>

\* It is not, and the directory object has to be found first.
FindParent(c) ==
  /\ Finding(c)
  /\ Cur(op[c]) = "d" /\ op[c].parent = "no"
  /\ cache["d"] = None \/ Fresh(op[c])
  /\ Set(c, [op[c] EXCEPT !.parent = "look"])
  /\ UNCHANGED <<tree, cache, ops, excused, touched, flight>>

\* It is not: listG.Do.
Do(c) ==
  /\ Finding(c)
  /\ LET d == Cur(op[c]) IN
       /\ IF d = "d" THEN op[c].parent = "ok" ELSE cache[d] = None \/ Fresh(op[c])
       /\ SF!Lead(c, d) \/ SF!Join(c, d)
  /\ UNCHANGED <<tree, cache, op, ops, excused, touched>>

\* The clients between their first look at a directory, or their change of it, and
\* their last word on its cached listing.
Open(d) ==
  {c \in Client :
     \/ Is(c, "fill") /\ key[c] = d
     \/ op[c].step \in {"edit", "apply"} /\ \E i \in DOMAIN op[c].edits : op[c].edits[i].dir = d}

\* storage.List, in the flight's function.
ReadDir(c) ==
  /\ Is(c, "find") /\ role[c] = "run"
  /\ \E l \in {tree[key[c]], None} :
       /\ l = None => key[c] \in Unreadable \/ ~Exists(key[c])
       /\ l # None => Exists(key[c])
       /\ Set(c, [op[c] EXCEPT !.step = "fill", !.base = l])
       /\ excused' = IF Open(key[c]) # {} THEN excused \cup {key[c]}
                     ELSE IF l = None THEN excused ELSE excused \ {key[c]}
  /\ UNCHANGED <<tree, cache, ops, touched, flight>>

\* An empty listing is not kept.
Kept(l) == IF l = Empty THEN None ELSE l

\* The listing goes into the cache, and to all who wait for it.
Fill(c) ==
  /\ Is(c, "fill")
  /\ LET l == op[c].base IN
       /\ cache' = IF l = None THEN cache ELSE [cache EXCEPT ![key[c]] = Kept(l)]
       /\ SF!Finish(c, l)
  /\ Set(c, [op[c] EXCEPT !.step = "find", !.base = None])
  /\ UNCHANGED <<tree, ops, excused, touched>>

Unmap(c) == SF!Unmap(c) /\ UNCHANGED <<tree, cache, op, ops, excused, touched>>

Take(c) ==
  /\ role[c] = "got"
  /\ Got(c, val[c]) /\ SF!Leave(c)
  /\ UNCHANGED <<tree, cache, ops, excused, touched>>

\* The entry's time is up (cache.WithEx).
Expire(d) ==
  /\ cache[d] # None
  /\ cache' = [cache EXCEPT ![d] = None]
  /\ excused' = IF Open(d) = {} THEN excused \ {d} ELSE excused
  /\ UNCHANGED <<tree, op, ops, touched, flight>>

-----------------------------------------------------------------------------
(* One operation: look-ups, the driver's call, the edits of the cache.     *)

\* What the driver can do now, and the tree after it.  A name that is taken is
\* refused, except by an upload that may overwrite.
Taken(d, x) == tree[d][x] # None
CanDo(o) ==
  CASE o.kind = "mkdir"  -> ~Taken("root", "d")
    [] o.kind = "remove" -> Exists(o.dir) /\ Taken(o.dir, o.name)
    [] o.kind = "rename" -> Exists(o.dir) /\ Taken(o.dir, o.name) /\ ~Taken(o.dir, o.as)
    [] o.kind \in {"move", "copy"} ->
         /\ Exists(o.dir) /\ Taken(o.dir, o.name)
         /\ Exists(o.to) /\ ~Taken(o.to, o.name)
    [] o.kind = "put" -> Exists(o.dir) /\ ~(NoOverwrite /\ Taken(o.dir, o.name))

\* Each directory with the listing it has after the call.
Without(d, x) == [tree EXCEPT ![d][x] = None]
Done(o) ==
  LET x == tree[o.dir][o.name]
      t == CASE o.kind = "mkdir"  -> [tree EXCEPT !["root"]["d"] = Folder]
             [] o.kind = "remove" -> Without(o.dir, o.name)
             [] o.kind = "rename" -> [Without(o.dir, o.name) EXCEPT ![o.dir][o.as] = x]
             [] o.kind = "move"   -> [Without(o.dir, o.name) EXCEPT ![o.to][o.name] = x]
             [] o.kind = "copy"   -> [tree EXCEPT ![o.to][o.name] = x]
             [] o.kind = "put"    -> [tree EXCEPT ![o.dir][o.name] = o.new]
  IN IF t["root"]["d"] = Folder THEN t ELSE [t EXCEPT !["d"] = Empty]

Edit(act, d, x, as, new) == [act |-> act, dir |-> d, name |-> x, as |-> as, new |-> new]
Clear(d) == Edit("clear", d, "d", "d", None)
Del(o) == Edit("del", o.dir, o.name, o.name, None)

\* Fault: Move forgets the source's listing.
MoveEdits_mutant(o, add) == add

\* Move.
MoveEdits(o, add) == <<Del(o)>> \o add

\* Remove; the listing of a directory goes with it.
RemoveEdits(o) == <<Del(o)>> \o (IF o.name = "d" THEN <<Clear("d")>> ELSE << >>)

\* lazyCache is for the operation itself, not for those Put makes on the way.
Lazy(o) == o.lazy /\ o.put \in {None, "send"}

\* What the operation then does to the cached listings: the new object if the driver
\* hands it out, else the whole listing is dropped, unless the caller is lazy.
Edits(o, result) ==
  LET new == IF o.kind = "put" THEN o.new ELSE IF o.kind = "mkdir" THEN Folder
             ELSE tree[o.dir][o.name]
      in == CASE o.kind \in {"move", "copy"} -> o.to [] OTHER -> o.dir
      add == IF result THEN <<Edit("add", in, o.name, o.name, new)>>
             ELSE IF Lazy(o) THEN << >> ELSE <<Clear(in)>>
  IN CASE o.kind = "remove" -> RemoveEdits(o)
       [] o.kind = "move"   -> MoveEdits(o, add)
       [] o.kind = "rename" /\ result -> <<Edit("upd", o.dir, o.name, o.as, new)>>
       [] OTHER -> add

\* The clients running a MakeDir.
Making == {x \in Client : op[x].kind = "mkdir" /\ op[x].step \notin {"enter", "join"}}

\* mkdirG.Do: the first goes on, the others wait for it.
Enter(c) ==
  /\ Is(c, "enter")
  /\ Set(c, [op[c] EXCEPT !.step = IF Making = {} THEN "find" ELSE "join"])
  /\ UNCHANGED <<tree, cache, ops, excused, touched, flight>>

\* The directories an operation is about, whose listings it has to edit: not those
\* that go, or appear elsewhere, with a parent; and a lazy caller need not.
About(o) == IF o.lazy THEN {} ELSE IF o.kind \in {"move", "copy"} THEN {o.dir, o.to} ELSE {o.dir}

\* The driver's call.  Directories it changes while their listing is on its way to
\* the cache, or that it need not and does not edit, are excused from now on.
Call(c, result) ==
  /\ Is(c, "call") /\ CanDo(op[c])
  /\ tree' = Done(op[c])
  /\ LET edits == Edits(op[c], result)
         changed == {d \in Dir : tree'[d] # tree[d]}
         followed == {edits[i].dir : i \in DOMAIN edits} IN
       /\ excused' = excused \cup
            {d \in changed : Open(d) # {} \/ (d \notin followed \cup About(op[c]) /\ cache[d] # None)}
       /\ IF edits = << >> THEN End(c, op[c], TRUE)
          ELSE Set(c, [op[c] EXCEPT !.step = "edit", !.edits = edits])
  /\ UNCHANGED <<cache, ops, touched, flight>>

CallFails(c) ==
  /\ Is(c, "call") /\ End(c, op[c], FALSE)
  /\ UNCHANGED <<tree, cache, ops, excused, touched, flight>>

\* delCacheObj, updateCacheObj, addCacheObj and ClearCache read the listing ...
Grab(c) ==
  /\ Is(c, "edit")
  /\ Set(c, [op[c] EXCEPT !.step = "apply", !.base = cache[Head(op[c].edits).dir]])
  /\ UNCHANGED <<tree, cache, ops, excused, touched, flight>>

\* The cache once an edit of the listing `l' is made.
Edited(e, l) ==
  CASE e.act = "clear" ->
         [d \in Dir |-> IF d = e.dir \/ (l # None /\ d # "root" /\ l[d] = Folder)
                        THEN None ELSE cache[d]]
    [] e.act # "clear" /\ l = None -> cache
    [] OTHER ->
         [cache EXCEPT ![e.dir] =
            CASE e.act = "del" -> [l EXCEPT ![e.name] = None]
              [] e.act = "upd" -> [l EXCEPT ![e.as] = IF l[e.name] = None THEN None ELSE e.new,
                                            ![e.name] = None]
              [] e.act = "add" -> [l EXCEPT ![e.name] = e.new]]

\* ... and then set it.
Apply(c) ==
  /\ Is(c, "apply")
  /\ LET e == Head(op[c].edits)
         rest == Tail(op[c].edits) IN
       /\ cache' = Edited(e, op[c].base)
       /\ IF rest = << >> THEN End(c, op[c], TRUE)
          ELSE Set(c, [op[c] EXCEPT !.step = "edit", !.edits = rest, !.base = None])
  /\ UNCHANGED <<tree, ops, excused, touched, flight>>

-----------------------------------------------------------------------------
(* What clients ask for.                                                   *)

Request(kind, lazy) ==
  CASE kind = "list"   -> {[Start("list", d, "d") EXCEPT !.refresh = TRUE] : d \in Dir}
                            \cup {Start("list", "d", "d")}
    [] kind = "mkdir"  -> {[Start("mkdir", "root", "d") EXCEPT !.lazy = lazy]}
    [] kind = "remove" -> {Start("remove", "root", "d"), Start("remove", "d", "f")}
    [] kind = "rename" -> {[Start("rename", "root", "d") EXCEPT !.as = "e", !.lazy = lazy]}
    [] kind = "move"   -> {[Start("move", "d", "f") EXCEPT !.to = "root", !.lazy = lazy]}
    [] kind = "copy"   -> {[Start("copy", "root", "f") EXCEPT !.to = "d", !.lazy = lazy,
                              !.need = <<<<"root", "f">>, <<"root", "d">>>>]}
    [] kind = "put" ->
         {[Stage(Idle, "check", "get", "f") EXCEPT !.new = ops + 2, !.lazy = lazy]}

Begin(c) ==
  /\ Is(c, "idle")
  /\ \E kind \in Kinds, lazy \in Lazies : \E o \in Request(kind, lazy) :
       /\ kind \in Changing => ops < MaxOps
       /\ ops' = IF kind \in Changing THEN ops + 1 ELSE ops
       /\ touched' = (touched \/ kind \in {"remove", "rename", "move"})
       /\ Set(c, o)
  /\ UNCHANGED <<tree, cache, excused, flight>>

Next ==
  \/ \E c \in Client :
       \/ Begin(c) \/ Enter(c) \/ Hit(c) \/ FindParent(c) \/ Do(c) \/ ReadDir(c) \/ Fill(c)
       \/ Unmap(c) \/ Take(c)
       \/ \E result \in Results : Call(c, result)
       \/ CallFails(c) \/ Grab(c) \/ Apply(c)
  \/ \E d \in Dir : Expire(d)

Spec == Init /\ [][Next]_vars

-----------------------------------------------------------------------------
(* Properties.                                                             *)

\* The edits made by hand are the right ones: a cached listing that no operation has
\* still a word on is the driver's listing, unless two operations overlapped on that
\* directory, or a lazy caller or a change of its parent left it unedited.
StaleOnlyExcused ==
  \A d \in Dir \ excused :
    Open(d) = {} /\ cache[d] # None => cache[d] = tree[d]

\* Put: as long as nobody takes it away, a file that is uploaded again and again is
\* there, or its last content under the temporary name.
FileNeverVanishes ==
  ~touched => {tree["d"]["f"], tree["d"]["temp"]} \cap (Upload \ {0}) # {}

\* listG: one listing of a directory at a time.
OneFlight == SF!OneFlight

\* listG and mkdirG: nobody waits for a listing, or a MakeDir, that is over.
WaitsForRunning ==
  SF!WaitsForRunning /\ ((\E c \in Client : Is(c, "join")) => Making # {})
=============================================================================

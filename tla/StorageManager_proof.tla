----------------------- MODULE StorageManager_proof -----------------------
(***************************************************************************)
(* Proofs about StorageManager with one administrator, for any number of   *)
(* storages, mount paths and driver objects: whatever step fails, and      *)
(* wherever the server dies, a storage none of whose requests failed is in *)
(* service exactly where and when its row says so.                         *)
(***************************************************************************)
EXTENDS StorageManager, TLAPS

\* Requests come one after the other.
OneAdmin == \A p, q \in Admin : p = q

-----------------------------------------------------------------------------
(* The invariant.                                                          *)

\* The steps of initStorage, and those before it that lead there.
Initialized == {"store", "save", "panicSave", "panicStore"}
Loads == Initialized \cup {"drop", "init"}

\* Types; a process that does nothing has forgotten everything.
DataTypes ==
  /\ rows \in [Id -> Row \cup {None}]
  /\ storagesMap \in [Mount -> Inst \cup {None}]
  /\ drv \in [Inst -> Driver \cup {Blank}]
  /\ queue \subseteq (Id \X Row)
  /\ loading \in {"no", "boot", "reload"}
  /\ hurt \subseteq Id
FrameTypes ==
  /\ frame \in [Proc -> Frame \cup {Idle}]
  /\ \A p \in Proc :
       /\ frame[p].step = "idle" => frame[p] = Idle
       /\ frame[p].step # "idle" => frame[p] \in Frame
       /\ frame[p].step \in Loads => frame[p].inst # None

\* The loader and the administrators take turns (StoragesLoaded).
Busy(p) == frame[p].step # "idle"
Turn ==
  /\ loading = "no" => queue = {} /\ ~Busy(Loader)
  /\ loading # "no" => \A p \in Admin : ~Busy(p)

\* No two rows have a path in common.
Distinct ==
  \A x, y \in Id : x # y /\ rows[x] # None /\ rows[y] # None => rows[x].mount # rows[y].mount

\* A driver in service has a record, which has its path.
Serving ==
  \A m \in Mount : storagesMap[m] # None =>
    LET d == drv[storagesMap[m]] IN d \in Driver /\ d.mount = m /\ ~d.disabled

\* A driver of the storage x is in service at m, and its status is true.
Serves(m, x) == storagesMap[m] # None /\ drv[storagesMap[m]].id = x
True(d) == d.status = "work" <=> d.live
TrueAt(x) == \A m \in Mount : Serves(m, x) => True(drv[storagesMap[m]])


\* What an operation knows, whatever went wrong before: the paths it works on are
\* nobody's who was not told, and its driver object is in service nowhere else.
Others(p) ==
  \A y \in Id \ hurt : y # frame[p].id /\ rows[y] # None =>
    rows[y].mount # frame[p].row.mount /\ rows[y].mount # frame[p].was
Object(p) ==
  LET f == frame[p]  d == drv[f.inst] IN
  /\ f.step \in Loads => \A m \in Mount : storagesMap[m] = f.inst => m = f.row.mount
  /\ f.step \in Loads \cup {"take"} => ~f.row.disabled
  /\ f.step \in Initialized => d \in Driver /\ d.id = f.id /\ d.mount = f.row.mount /\ ~d.disabled
  /\ f.step \in {"panicSave", "panicStore"} => ~d.live
  /\ f.step = "panicStore" => d.status # "work"
  /\ f.step = "save" => storagesMap[f.row.mount] = f.inst

\* And what it knows of a storage nobody was told about: where its driver is.
Place(p) ==
  LET f == frame[p] IN
  /\ f.step = "take" => \A m \in Mount : Serves(m, f.id) <=> m = f.was
  /\ f.step \in Loads \cup {"disableRow", "unmount"} =>
       \A m \in Mount : Serves(m, f.id) => m = f.row.mount
  /\ f.step \in {"disableRow", "unmount"} =>
       \A m \in Mount : Serves(m, f.id) => ~drv[storagesMap[m]].live
  /\ f.step = "deleteRow" => \A m \in Mount : ~Serves(m, f.id)
  /\ f.step = "panicStore" => Enabled(f.id) /\ rows[f.id].mount = f.row.mount
  /\ f.step = "unmount" => ~Enabled(f.id)
Work(p) == Others(p) /\ Object(p) /\ (frame[p].id \notin hurt => Place(p))
Working == \A p \in Proc : Busy(p) => Work(p)

\* A storage that is not being worked on and nobody was told about is as its row says;
\* at the start it may have to wait for the loader.
Waits(x) == loading = "boot" /\ \E e \in queue : e[1] = x
Worked(x) == \E p \in Proc : Busy(p) /\ frame[p].id = x
AsItSays(x) ==
  /\ \A m \in Mount : Serves(m, x) => Enabled(x) /\ m = rows[x].mount
  /\ Enabled(x) => Waits(x) \/ Serves(rows[x].mount, x)
  /\ TrueAt(x)
Settled == \A x \in Id \ hurt : ~Worked(x) => AsItSays(x)

\* The rows the loader has still to load are as it read them.
Queued ==
  \A e \in queue :
    /\ ~e[2].disabled
    /\ \A g \in queue : g # e => g[1] # e[1] /\ g[2].mount # e[2].mount
    /\ \A p \in Proc : Busy(p) =>
         frame[p].id # e[1] /\ e[2].mount # frame[p].row.mount /\ e[2].mount # frame[p].was
    /\ e[1] \notin hurt => Enabled(e[1]) /\ rows[e[1]].mount = e[2].mount
    /\ \A y \in Id \ hurt : y # e[1] /\ rows[y] # None => rows[y].mount # e[2].mount

Inv ==
  /\ DataTypes /\ FrameTypes /\ Turn /\ Distinct /\ Serving /\ Working /\ Settled /\ Queued

-----------------------------------------------------------------------------
(* One process is busy at a time.                                          *)

\* While a process is busy all others are idle.
LEMMA Alone ==
  ASSUME OneAdmin, Inv, NEW p \in Proc, Busy(p)
  PROVE  \A q \in Proc \ {p} : ~Busy(q)
BY DEF Inv, Turn, OneAdmin, Proc

\* Rows and drivers are what they look like.
LEMMA Looks ==
  ASSUME DataTypes
  PROVE  /\ \A x \in Id : rows[x] # None => rows[x] \in Row
         /\ \A m \in Mount : storagesMap[m] # None => storagesMap[m] \in Inst
BY DEF DataTypes

\* The driver of a storage nobody is told about is where its row says.
LEMMA ServedThere ==
  ASSUME NEW y \in Id, AsItSays(y), NEW m \in Mount, Serves(m, y)
  PROVE  rows[y] # None /\ rows[y].mount = m /\ True(drv[storagesMap[m]])
BY DEF AsItSays, Enabled, TrueAt

\* A step leaves a storage as it says if it changes neither its row nor what is at the
\* path of its row: the paths M may change, and the driver object i.
LEMMA LeftAlone ==
  ASSUME DataTypes, NEW y \in Id, AsItSays(y), NEW M, NEW i,
         rows'[y] = rows[y],
         \A m \in Mount : Serves(m, y) => m \notin M /\ storagesMap[m] # i,
         \A m \in Mount : m \notin M => storagesMap'[m] = storagesMap[m],
         \A m \in Mount : m \in M => storagesMap'[m] = None \/ drv'[storagesMap'[m]].id # y,
         \A j \in Inst : j # i => drv'[j] = drv[j],
         i \in Inst => drv'[i].id # y \/ drv'[i].id = drv[i].id,
         Waits(y) => Waits(y)'
  PROVE  AsItSays(y)'
<1>1. ASSUME NEW m \in Mount, Serves(m, y)
      PROVE  Serves(m, y)' /\ drv'[storagesMap'[m]] = drv[storagesMap[m]]
  BY <1>1, Looks DEF Serves
<1>2. ASSUME NEW m \in Mount, Serves(m, y)' PROVE Serves(m, y)
  BY <1>2, Looks DEF Serves
<1>3. Enabled(y)' <=> Enabled(y)
  BY DEF Enabled
<1>4. ASSUME NEW m \in Mount, Serves(m, y)' PROVE Enabled(y)' /\ m = rows'[y].mount
  BY <1>2, <1>3, <1>4 DEF AsItSays
<1>5. Enabled(y)' => Waits(y)' \/ \E m \in Mount : m = rows'[y].mount /\ Serves(m, y)'
  <2> SUFFICES ASSUME Enabled(y)', ~Waits(y)'
               PROVE  \E m \in Mount : m = rows'[y].mount /\ Serves(m, y)'
    OBVIOUS
  <2>1. Serves(rows[y].mount, y) /\ rows[y].mount \in Mount
    BY <1>3, Looks DEF AsItSays, Enabled, Row
  <2>2. PICK m \in Mount : m = rows[y].mount
    BY <2>1
  <2>3. Serves(m, y)'
    BY <1>1, <2>1, <2>2
  <2> QED BY <2>2, <2>3
<1>6. TrueAt(y)'
  BY <1>1, <1>2 DEF AsItSays, TrueAt, True
<1> QED BY <1>4, <1>5, <1>6 DEF AsItSays, Serves

\* A frame a process may have.
MayHold(f) ==
  \/ f = Idle
  \/ f \in Frame /\ f.step # "idle" /\ (f.step \in Loads => f.inst # None)

\* A step of one process on one storage.
LEMMA OneStep ==
  ASSUME Inv, NEW p \in Proc, \A q \in Proc \ {p} : ~Busy(q),
         NEW x \in Id, Busy(p) => frame[p].id = x,
         NEW f, MayHold(f), f # Idle => f.id = x, frame' = [frame EXCEPT ![p] = f],
         DataTypes', Turn', Distinct', Serving', Queued',
         hurt \subseteq hurt',
         \A y \in Id \ hurt' : y # x /\ AsItSays(y) => AsItSays(y)',
         f # Idle => Others(p)' /\ Object(p)' /\ (x \notin hurt' => Place(p)'),
         f = Idle => x \in hurt' \/ AsItSays(x)'
  PROVE  Inv'
<1>1. /\ frame \in [Proc -> Frame \cup {Idle}] /\ frame'[p] = f
      /\ \A q \in Proc \ {p} : frame'[q] = frame[q] /\ frame[q] = Idle
  BY DEF Inv, FrameTypes, Busy
<1>2. Idle.step = "idle"
  BY DEF Idle
<1>3. FrameTypes'
  <2>1. frame' \in [Proc -> Frame \cup {Idle}]
    BY <1>1 DEF MayHold
  <2>2. "idle" \notin Loads
    BY DEF Loads, Initialized
  <2> QED BY <1>1, <1>2, <2>1, <2>2 DEF FrameTypes, MayHold
<1>4. \A q \in Proc : Busy(q)' => q = p /\ f # Idle
  BY <1>1, <1>2 DEF Busy
<1>5. Working'
  BY <1>1, <1>4 DEF Working, Work
<1>6. ASSUME NEW y \in Id \ hurt', ~Worked(y)' PROVE AsItSays(y)'
  <2>1. CASE y = x
    <3>1. f = Idle
      BY <1>1, <1>6, <2>1 DEF Worked, Busy, MayHold
    <3> QED BY <2>1, <3>1
  <2>2. CASE y # x
    <3>1. ~Worked(y) /\ y \notin hurt
      BY <2>2 DEF Worked
    <3>2. AsItSays(y)
      BY <3>1 DEF Inv, Settled
    <3> QED BY <2>2, <3>2
  <2> QED BY <2>1, <2>2
<1>7. Settled'
  BY <1>6 DEF Settled
<1> QED BY <1>3, <1>5, <1>7 DEF Inv

-----------------------------------------------------------------------------
(* A step of an operation that has begun.                                  *)

\* What is at the path of another storage is not what the operation works on.
LEMMA Elsewhere ==
  ASSUME Inv, NEW p \in Proc, Busy(p), NEW y \in Id \ hurt, y # frame[p].id, AsItSays(y),
         NEW m \in Mount, Serves(m, y)
  PROVE  /\ m # frame[p].row.mount /\ m # frame[p].was
         /\ frame[p].step \in Loads => storagesMap[m] # frame[p].inst
<1>1. Others(p) /\ Object(p)
  BY DEF Inv, Working, Work
<1>2. rows[y] # None /\ rows[y].mount = m
  BY ServedThere
<1> QED BY <1>1, <1>2 DEF Others, Object

\* The operation goes on with the same storage and the same paths, or ends.
SameWork(p, f) ==
  f # Idle => /\ f.id = frame[p].id /\ f.row.mount = frame[p].row.mount
              /\ f.was = frame[p].was

\* What a step of the operation of p may do to the table, the map and the drivers.
RowStep(p) ==
  LET x == frame[p].id IN
    /\ \A y \in Id \ {x} : rows'[y] = rows[y]
    /\ \/ rows'[x] = rows[x] \/ rows'[x] = None
       \/ rows'[x].mount = frame[p].row.mount /\ Unique(x, frame[p].row.mount)
MapStep(p) ==
  \A m \in Mount : m # frame[p].row.mount /\ m # frame[p].was => storagesMap'[m] = storagesMap[m]
NoneOf(p) ==
  \A m \in Mount : m = frame[p].row.mount \/ m = frame[p].was =>
    storagesMap'[m] = None \/ storagesMap'[m] = storagesMap[m]
      \/ drv'[storagesMap'[m]].id = frame[p].id
DrvStep(p) ==
  /\ \A j \in Inst : (frame[p].step \in Loads => j # frame[p].inst) => drv'[j] = drv[j]
  /\ frame[p].step \in Loads =>
       drv'[frame[p].inst].id = frame[p].id \/ drv'[frame[p].inst].id = drv[frame[p].inst].id

\* Other storages are left alone.
LEMMA OthersLeft ==
  ASSUME Inv, NEW p \in Proc, Busy(p), RowStep(p), MapStep(p), NoneOf(p), DrvStep(p),
         UNCHANGED <<queue, loading>>,
         NEW y \in Id \ hurt, y # frame[p].id, AsItSays(y)
  PROVE  AsItSays(y)'
<1>1. DataTypes
  BY DEF Inv
<1>2. rows'[y] = rows[y] /\ (Waits(y) => Waits(y)')
  BY DEF RowStep, Waits
<1>3. ASSUME NEW m \in Mount, Serves(m, y)
      PROVE  /\ m # frame[p].row.mount /\ m # frame[p].was
             /\ frame[p].step \in Loads => storagesMap[m] # frame[p].inst
  BY <1>3, Elsewhere
<1> DEFINE M == {m \in Mount : (m = frame[p].row.mount \/ m = frame[p].was)
                               /\ storagesMap'[m] # storagesMap[m]}
           i == IF frame[p].step \in Loads THEN frame[p].inst ELSE None
<1>4. \A m \in Mount : m \notin M => storagesMap'[m] = storagesMap[m]
  BY DEF MapStep
<1>5. \A m \in Mount : m \in M => storagesMap'[m] = None \/ drv'[storagesMap'[m]].id # y
  BY DEF NoneOf
<1>6. \A m \in Mount : Serves(m, y) => m \notin M /\ storagesMap[m] # i
  BY <1>3 DEF Serves
<1>7. \A j \in Inst : j # i => drv'[j] = drv[j]
  BY DEF DrvStep
<1>8. i \in Inst => drv'[i].id # y \/ drv'[i].id = drv[i].id
  BY ProcAssumption DEF DrvStep
<1> HIDE DEF M, i
<1> QED BY <1>1, <1>2, <1>4, <1>5, <1>6, <1>7, <1>8, LeftAlone

\* No two rows get the same path.
LEMMA RowsDistinct ==
  ASSUME Distinct, NEW p \in Proc, RowStep(p) PROVE Distinct'
BY DEF Distinct, RowStep, Unique

\* The loader's rows are not those an operation works on.
LEMMA QueueKept ==
  ASSUME Inv, NEW p \in Proc, \A q \in Proc \ {p} : ~Busy(q), Busy(p), RowStep(p),
         NEW f, SameWork(p, f), frame' = [frame EXCEPT ![p] = f],
         UNCHANGED queue, hurt \subseteq hurt'
  PROVE  Queued'
<1> DEFINE x == frame[p].id
<1>1. /\ frame'[p] = f /\ \A q \in Proc \ {p} : frame'[q] = frame[q]
      /\ Idle.step = "idle"
  BY DEF Inv, FrameTypes, Idle
<1>2. \A q \in Proc : Busy(q)' => frame'[q].id = x
         /\ frame'[q].row.mount = frame[p].row.mount /\ frame'[q].was = frame[p].was
  BY <1>1 DEF Busy, SameWork
<1>3. \A e \in queue : e[1] \in Id
  BY DEF Inv, DataTypes
<1> SUFFICES ASSUME NEW e \in queue
             PROVE  /\ ~e[2].disabled
                    /\ \A g \in queue : g # e => g[1] # e[1] /\ g[2].mount # e[2].mount
                    /\ \A q \in Proc : Busy(q)' =>
                         /\ frame'[q].id # e[1] /\ e[2].mount # frame'[q].row.mount
                         /\ e[2].mount # frame'[q].was
                    /\ e[1] \notin hurt' => Enabled(e[1])' /\ rows'[e[1]].mount = e[2].mount
                    /\ \A y \in Id \ hurt' : y # e[1] /\ rows'[y] # None
                                             => rows'[y].mount # e[2].mount
  BY DEF Queued
<1>4. /\ ~e[2].disabled
      /\ \A g \in queue : g # e => g[1] # e[1] /\ g[2].mount # e[2].mount
      /\ x # e[1] /\ e[2].mount # frame[p].row.mount /\ e[2].mount # frame[p].was
      /\ e[1] \notin hurt => Enabled(e[1]) /\ rows[e[1]].mount = e[2].mount
      /\ \A y \in Id \ hurt : y # e[1] /\ rows[y] # None => rows[y].mount # e[2].mount
  BY DEF Inv, Queued
<1>5. rows'[e[1]] = rows[e[1]]
  BY <1>3, <1>4 DEF RowStep
<1>6. Enabled(e[1]) => Enabled(e[1])'
  BY <1>5 DEF Enabled
<1>7. \A y \in Id \ hurt' : y # e[1] /\ rows'[y] # None => rows'[y].mount # e[2].mount
  BY <1>4 DEF RowStep
<1> QED BY <1>2, <1>4, <1>5, <1>6, <1>7

\* Only what an operation leaves behind for its own storage has to be looked at.
LEMMA Continues ==
  ASSUME Inv, OneAdmin, NEW p \in Proc, Busy(p), NEW x \in Id, frame[p].id = x,
         NEW f, MayHold(f), SameWork(p, f), frame' = [frame EXCEPT ![p] = f],
         UNCHANGED <<queue, loading>>,
         hurt' = hurt \/ hurt' = hurt \cup {x},
         DataTypes', Serving',
         RowStep(p), MapStep(p), NoneOf(p), DrvStep(p),
         f # Idle => Object(p)' /\ (x \notin hurt' => Place(p)'),
         f = Idle => x \in hurt' \/ AsItSays(x)'
  PROVE  Inv'
<1>1. \A q \in Proc \ {p} : ~Busy(q)
  BY Alone
<1>2. /\ frame'[p] = f /\ \A q \in Proc \ {p} : frame'[q] = frame[q]
      /\ Idle.step = "idle"
  BY DEF Inv, FrameTypes, Idle
<1>3. Turn'
  BY <1>1, <1>2 DEF Inv, Turn, Busy, Proc
<1>4. Distinct'
  BY RowsDistinct DEF Inv
<1>5. Queued'
  BY <1>1, QueueKept
<1>6. \A y \in Id \ hurt' : y # x /\ AsItSays(y) => AsItSays(y)'
  BY OthersLeft
<1>7. Others(p)
  BY DEF Inv, Working, Work
<1>8. f # Idle => Others(p)'
  <2> SUFFICES ASSUME f # Idle, NEW y \in Id \ hurt', y # f.id, rows'[y] # None
               PROVE  rows'[y].mount # f.row.mount /\ rows'[y].mount # f.was
    BY <1>2 DEF Others
  <2>1. rows'[y] = rows[y] /\ y # x
    BY DEF SameWork, RowStep
  <2> QED BY <1>7, <2>1 DEF Others, SameWork
<1>9. f # Idle => f.id = x /\ Others(p)' /\ Object(p)' /\ (x \notin hurt' => Place(p)')
  BY <1>8 DEF SameWork
<1>10. hurt \subseteq hurt'
  OBVIOUS
<1> QED BY <1>1, <1>3, <1>4, <1>5, <1>6, <1>9, <1>10, OneStep

-----------------------------------------------------------------------------
(* Frames and drivers.                                                     *)

\* What a process that is busy knows.
LEMMA Holding ==
  ASSUME Inv, NEW p \in Proc, Busy(p)
  PROVE  /\ frame[p] \in Frame /\ frame[p].id \in Id /\ frame[p].row \in Row
         /\ frame[p].row.mount \in Mount /\ frame[p].was \in Mount
         /\ frame[p].step \in Loads => frame[p].inst \in Inst
         /\ frame \in [Proc -> Frame \cup {Idle}]
         /\ Object(p) /\ Others(p) /\ (frame[p].id \notin hurt => Place(p))
BY DEF Inv, FrameTypes, Busy, Frame, Row, Working, Work

\* It goes on to another step.
LEMMA Advances ==
  ASSUME Inv, NEW p \in Proc, Busy(p), NEW s \in Steps, s # "idle",
         s \in Loads => frame[p].inst # None, Next2(p, s)
  PROVE  \E f : /\ frame' = [frame EXCEPT ![p] = f] /\ frame'[p] = f
                /\ MayHold(f) /\ SameWork(p, f) /\ f # Idle
                /\ f.step = s /\ f.inst = frame[p].inst /\ f.row = frame[p].row
                /\ f.id = frame[p].id /\ f.was = frame[p].was
<1> DEFINE f == [frame[p] EXCEPT !.step = s]
<1>1. frame[p] \in Frame /\ frame \in [Proc -> Frame \cup {Idle}]
  BY Holding
<1>2. frame' = [frame EXCEPT ![p] = f]
  BY <1>1 DEF Next2
<1>3. /\ f \in Frame /\ f.step = s /\ f.inst = frame[p].inst /\ f.row = frame[p].row
      /\ f.id = frame[p].id /\ f.was = frame[p].was
  BY <1>1 DEF Frame
<1> HIDE DEF f
<1>4. f # Idle
  BY <1>3 DEF Idle
<1>5. frame'[p] = f
  BY <1>1, <1>2
<1> QED BY <1>2, <1>3, <1>4, <1>5 DEF MayHold, SameWork

\* It ends.
LEMMA Ends ==
  ASSUME Inv, NEW p \in Proc, Done(p)
  PROVE  /\ frame' = [frame EXCEPT ![p] = Idle] /\ MayHold(Idle) /\ SameWork(p, Idle)
BY DEF Done, GoTo, MayHold, SameWork

\* A driver is dropped: its record stays.
LEMMA DropFacts ==
  ASSUME DataTypes, NEW i \in Inst, Drop(i)
  PROVE  /\ drv' \in [Inst -> Driver \cup {Blank}]
         /\ \A j \in Inst : j # i => drv'[j] = drv[j]
         /\ drv'[i].id = drv[i].id /\ drv'[i].mount = drv[i].mount
         /\ drv'[i].disabled = drv[i].disabled /\ drv'[i].status = drv[i].status
         /\ ~drv'[i].live
         /\ drv[i] \in Driver => drv'[i] \in Driver
<1> DEFINE d == [drv[i] EXCEPT !.live = FALSE]
<1>1. drv \in [Inst -> Driver \cup {Blank}] /\ drv' = [drv EXCEPT ![i] = d]
  BY DEF DataTypes, Drop
<1>2. CASE drv[i] \in Driver
  <2>1. /\ d \in Driver /\ d.id = drv[i].id /\ d.mount = drv[i].mount
        /\ d.disabled = drv[i].disabled /\ d.status = drv[i].status /\ ~d.live
    BY <1>2 DEF Driver
  <2> HIDE DEF d
  <2> QED BY <1>1, <1>2, <2>1
<1>3. CASE drv[i] = Blank
  <2>1. /\ Blank \in [id : {None}, mount : {None}, disabled : {FALSE}, status : {""},
                      live : {FALSE}]
        /\ ~Blank.live
    BY DEF Blank
  <2>2. d = [Blank EXCEPT !.live = FALSE]
    BY <1>3
  <2>3. d = Blank /\ ~Blank.live
    BY <2>1, <2>2
  <2>4. drv' = drv
    BY <1>1, <1>3, <2>3
  <2> QED BY <1>1, <1>3, <2>3, <2>4
<1> QED BY <1>1, <1>2, <1>3

\* Records stay, and who is in service was there before: every driver in service has a
\* record with its path.
LEMMA ServingLeft ==
  ASSUME DataTypes, Serving,
         \A m \in Mount : storagesMap'[m] = storagesMap[m] \/ storagesMap'[m] = None,
         \A j \in Inst : drv'[j].mount = drv[j].mount /\ drv'[j].disabled = drv[j].disabled
                         /\ (drv[j] \in Driver => drv'[j] \in Driver)
  PROVE  Serving'
BY DEF DataTypes, Serving

\* An operation that gives up has told the administrator.
LEMMA GivesUp ==
  ASSUME Inv, OneAdmin, NEW p \in Proc, Busy(p), GiveUp(p),
         UNCHANGED <<queue, loading>>, DataTypes', Serving',
         RowStep(p), MapStep(p), NoneOf(p), DrvStep(p)
  PROVE  Inv'
<1>1. PICK x \in Id : x = frame[p].id
  BY Holding
<1>2. hurt' = hurt \cup {x} /\ Done(p)
  BY <1>1 DEF GiveUp, Hurt
<1>3. frame' = [frame EXCEPT ![p] = Idle] /\ MayHold(Idle) /\ SameWork(p, Idle)
  BY <1>2, Ends
<1> QED BY <1>1, <1>2, <1>3, Continues

-----------------------------------------------------------------------------
(* The steps of an operation, one lemma for each.                          *)

\* The row of the operation's storage is written, or not.
LEMMA RowSaved ==
  ASSUME Inv, NEW p \in Proc, Busy(p), NEW x \in Id, frame[p].id = x, NEW r \in Row \cup {None},
         SaveRow(x, r), r # None => r.mount = frame[p].row.mount /\ Unique(x, r.mount)
  PROVE  RowStep(p) /\ rows' \in [Id -> Row \cup {None}] /\ rows'[x] = r
BY DEF RowStep, SaveRow, Inv, DataTypes

\* And nothing else.
LEMMA MapsLeft ==
  ASSUME NEW p \in Proc, UNCHANGED storagesMap PROVE MapStep(p) /\ NoneOf(p)
BY DEF MapStep, NoneOf
\* The drivers are left as they are.
LEMMA DriversLeft ==
  ASSUME NEW p \in Proc, UNCHANGED drv PROVE DrvStep(p)
BY DEF DrvStep
\* The rows are left as they are.
LEMMA RowsLeft ==
  ASSUME NEW p \in Proc, UNCHANGED rows PROVE RowStep(p)
BY DEF RowStep

\* Disable: the row says so from now on, and the dropped driver is still in the map.
LEMMA DisableRowKeeps ==
  ASSUME Inv, OneAdmin, NEW p \in Proc, DisableRow(p) PROVE Inv'
<1> DEFINE r == [frame[p].row EXCEPT !.disabled = TRUE, !.status = "disabled"]
<1>1. Busy(p) /\ frame[p].step = "disableRow" /\ UNCHANGED <<storagesMap, drv, queue, loading>>
  BY DEF DisableRow, At, Busy
<1>2. PICK x \in Id : x = frame[p].id
  BY <1>1, Holding
<1>3. frame[p].row \in Row
  BY <1>1, Holding
<1>4. r \in Row /\ r.mount = frame[p].row.mount /\ r.disabled
  BY <1>3 DEF Row, Statuses
<1> HIDE DEF r
<1>5. MapStep(p) /\ NoneOf(p) /\ DrvStep(p)
  BY <1>1, MapsLeft, DriversLeft
<1>6. Serving'
  BY <1>1 DEF Inv, Serving
<1>7. CASE Unique(x, r.mount) /\ SaveRow(x, r) /\ Next2(p, "unmount") /\ UNCHANGED hurt
  <2>1. RowStep(p) /\ rows' \in [Id -> Row \cup {None}] /\ rows'[x] = r
    BY <1>1, <1>2, <1>4, <1>7, RowSaved
  <2>2. DataTypes'
    BY <1>1, <1>7, <2>1 DEF Inv, DataTypes
  <2>3. PICK f : /\ frame' = [frame EXCEPT ![p] = f] /\ frame'[p] = f
                 /\ MayHold(f) /\ SameWork(p, f) /\ f # Idle /\ f.step = "unmount"
                 /\ f.row = frame[p].row /\ f.id = x
    BY <1>1, <1>2, <1>7, Advances DEF Steps, Loads, Initialized
  <2>4. Object(p)'
    BY <2>3 DEF Object, Loads, Initialized
  <2>5. x \notin hurt' => Place(p)'
    <3>1. x \notin hurt' => Place(p)
      BY <1>1, <1>2, <1>7, Holding
    <3> QED BY <1>1, <1>2, <1>4, <2>1, <2>3, <3>1
            DEF Place, Serves, Enabled, Loads, Initialized
  <2> QED BY <1>1, <1>2, <1>5, <1>6, <1>7, <2>1, <2>2, <2>3, <2>4, <2>5, Continues
<1>8. CASE GiveUp(p) /\ UNCHANGED rows
  <2>1. DataTypes' /\ RowStep(p)
    BY <1>1, <1>2, <1>8, RowsLeft DEF Inv, DataTypes, GiveUp, Hurt
  <2> QED BY <1>1, <1>5, <1>6, <1>8, <2>1, GivesUp
<1> QED BY <1>2, <1>7, <1>8 DEF DisableRow, r

\* Disable ends: the driver leaves the map.
LEMMA UnmountKeeps ==
  ASSUME Inv, OneAdmin, NEW p \in Proc, Unmount(p) PROVE Inv'
<1>1. /\ Busy(p) /\ frame[p].step = "unmount" /\ UNCHANGED <<rows, drv, queue, loading, hurt>>
      /\ Done(p)
  BY DEF Unmount, At, Busy
<1>2. PICK x \in Id : x = frame[p].id
  BY <1>1, Holding
<1>3. PICK m \in Mount : m = frame[p].row.mount
  BY <1>1, Holding
<1>4. storagesMap' = [storagesMap EXCEPT ![m] = None] /\ storagesMap \in [Mount -> Inst \cup {None}]
  BY <1>3 DEF Unmount, Inv, DataTypes
<1>5. storagesMap'[m] = None /\ \A n \in Mount : n # m => storagesMap'[n] = storagesMap[n]
  BY <1>4
<1>6. MapStep(p) /\ NoneOf(p) /\ DrvStep(p) /\ RowStep(p)
  BY <1>1, <1>3, <1>5, DriversLeft, RowsLeft DEF MapStep, NoneOf
<1>7. DataTypes'
  BY <1>1, <1>4 DEF Inv, DataTypes
<1>8. Serving'
  BY <1>1, <1>5, ServingLeft DEF Inv
<1>9. x \notin hurt => AsItSays(x)'
  <2>1. x \notin hurt => Place(p)
    BY <1>1, <1>2, Holding
  <2>2. x \notin hurt => \A n \in Mount : ~Serves(n, x)'
    BY <1>1, <1>2, <1>3, <1>5, <2>1 DEF Place, Serves
  <2>3. x \notin hurt => ~Enabled(x)'
    BY <1>1, <1>2, <2>1 DEF Place, Enabled
  <2> QED BY <2>2, <2>3 DEF AsItSays, TrueAt
<1>10. frame' = [frame EXCEPT ![p] = Idle] /\ MayHold(Idle) /\ SameWork(p, Idle)
  BY <1>1, Ends
<1> QED BY <1>1, <1>2, <1>6, <1>7, <1>8, <1>9, <1>10, Continues

\* Delete ends: the row goes, no driver of it being left.
LEMMA DeleteRowKeeps ==
  ASSUME Inv, OneAdmin, NEW p \in Proc, DeleteRow(p) PROVE Inv'
<1>1. /\ Busy(p) /\ frame[p].step = "deleteRow" /\ UNCHANGED <<storagesMap, drv, queue, loading>>
  BY DEF DeleteRow, At, Busy
<1>2. PICK x \in Id : x = frame[p].id
  BY <1>1, Holding
<1>3. MapStep(p) /\ NoneOf(p) /\ DrvStep(p)
  BY <1>1, MapsLeft, DriversLeft
<1>4. Serving'
  BY <1>1 DEF Inv, Serving
<1>5. CASE SaveRow(x, None) /\ Done(p) /\ UNCHANGED hurt
  <2>1. RowStep(p) /\ rows' \in [Id -> Row \cup {None}] /\ rows'[x] = None
    BY <1>1, <1>2, <1>5, RowSaved
  <2>2. DataTypes'
    BY <1>1, <1>5, <2>1 DEF Inv, DataTypes
  <2>3. x \notin hurt => AsItSays(x)'
    <3>1. x \notin hurt => Place(p)
      BY <1>1, <1>2, Holding
    <3> QED BY <1>1, <1>2, <2>1, <3>1 DEF Place, Serves, Enabled, AsItSays, TrueAt
  <2>4. frame' = [frame EXCEPT ![p] = Idle] /\ MayHold(Idle) /\ SameWork(p, Idle)
    BY <1>5, Ends
  <2> QED BY <1>1, <1>2, <1>3, <1>4, <1>5, <2>1, <2>2, <2>3, <2>4, Continues
<1>6. CASE GiveUp(p) /\ UNCHANGED rows
  <2>1. DataTypes' /\ RowStep(p)
    BY <1>1, <1>2, <1>6, RowsLeft DEF Inv, DataTypes, GiveUp, Hurt
  <2> QED BY <1>1, <1>3, <1>4, <1>6, <2>1, GivesUp
<1> QED BY <1>2, <1>5, <1>6 DEF DeleteRow

\* Update: the driver taken from the old path is in service under the new one only, or
\* nowhere.
LEMMA UpdateTakeKeeps ==
  ASSUME Inv, OneAdmin, NEW p \in Proc, UpdateTake(p) PROVE Inv'
<1> DEFINE i == storagesMap[frame[p].was]
<1>1. Busy(p) /\ frame[p].step = "take" /\ UNCHANGED <<rows, drv, queue, loading>>
  BY DEF UpdateTake, At, Busy
<1>2. PICK x \in Id : x = frame[p].id
  BY <1>1, Holding
<1>3. PICK m \in Mount : m = frame[p].was
  BY <1>1, Holding
<1>4. /\ storagesMap \in [Mount -> Inst \cup {None}]
      /\ storagesMap' = IF m # frame[p].row.mount THEN [storagesMap EXCEPT ![m] = None]
                        ELSE storagesMap
  BY <1>3 DEF UpdateTake, Renamed, Inv, DataTypes
<1>5. /\ \A n \in Mount : n # m => storagesMap'[n] = storagesMap[n]
      /\ storagesMap'[m] = IF m # frame[p].row.mount THEN None ELSE storagesMap[m]
      /\ storagesMap' \in [Mount -> Inst \cup {None}]
  BY <1>4
<1>6. MapStep(p) /\ NoneOf(p) /\ DrvStep(p) /\ RowStep(p)
  BY <1>1, <1>3, <1>5, DriversLeft, RowsLeft DEF MapStep, NoneOf
<1>7. Serving'
  BY <1>1, <1>5, ServingLeft DEF Inv
<1>8. CASE i = None /\ GiveUp(p)
  <2>1. DataTypes'
    BY <1>1, <1>2, <1>5, <1>8 DEF Inv, DataTypes, GiveUp, Hurt
  <2> QED BY <1>1, <1>6, <1>7, <1>8, <2>1, GivesUp
<1>9. CASE i # None /\ GoTo(p, [frame[p] EXCEPT !.step = "drop", !.inst = i]) /\ UNCHANGED hurt
  <2> DEFINE f == [frame[p] EXCEPT !.step = "drop", !.inst = i]
  <2>1. i \in Inst
    BY <1>3, <1>4, <1>9
  <2>2. frame[p] \in Frame /\ frame \in [Proc -> Frame \cup {Idle}]
    BY <1>1, Holding
  <2>3. frame' = [frame EXCEPT ![p] = f]
    BY <1>9 DEF GoTo
  <2> HIDE DEF i
  <2>4. /\ f \in Frame /\ f.step = "drop" /\ f.inst = i /\ f.row = frame[p].row
        /\ f.id = frame[p].id /\ f.was = frame[p].was
    BY <2>1, <2>2 DEF Frame, Steps
  <2> HIDE DEF f
  <2>5. f # Idle /\ MayHold(f) /\ SameWork(p, f)
    BY <2>4, <2>1, ProcAssumption DEF Idle, MayHold, SameWork
  <2>6. frame'[p] = f
    BY <2>2, <2>3
  <2>7. DataTypes'
    BY <1>1, <1>5, <1>9 DEF Inv, DataTypes
  <2>8. Object(p) /\ (x \notin hurt => Place(p))
    BY <1>1, <1>2, Holding
  <2>9. ASSUME NEW n \in Mount, storagesMap'[n] = i PROVE n = frame[p].row.mount
    <3>1. storagesMap[n] = i
      BY <1>5, <2>1, <2>9, ProcAssumption
    <3>2. drv[i].mount = m /\ drv[i].mount = n
      BY <1>3, <2>1, <3>1, ProcAssumption DEF i, Inv, Serving
    <3> QED BY <1>5, <2>1, <2>9, <3>2, ProcAssumption
  <2>10. Object(p)'
    BY <1>1, <2>4, <2>6, <2>8, <2>9 DEF Object, Loads, Initialized
  <2>11. x \notin hurt' => Place(p)'
    <3> SUFFICES ASSUME x \notin hurt PROVE Place(p)'
      BY <1>9
    <3>1. \A n \in Mount : Serves(n, x) <=> n = m
      BY <1>1, <1>2, <1>3, <2>8 DEF Place
    <3>2. \A n \in Mount : Serves(n, x)' => n = frame[p].row.mount
      BY <1>1, <1>5, <3>1 DEF Serves
    <3> QED BY <1>2, <2>4, <2>6, <3>2 DEF Place, Loads, Initialized, Serves
  <2> QED BY <1>1, <1>2, <1>6, <1>7, <1>9, <2>3, <2>5, <2>7, <2>10, <2>11, Continues
<1> QED BY <1>8, <1>9 DEF UpdateTake

\* Update: the driver is dropped before it is initialized again.
LEMMA UpdateDropKeeps ==
  ASSUME Inv, OneAdmin, NEW p \in Proc, UpdateDrop(p) PROVE Inv'
<1>1. Busy(p) /\ frame[p].step = "drop" /\ UNCHANGED <<rows, storagesMap, queue, loading>>
  BY DEF UpdateDrop, At, Busy
<1>2. PICK x \in Id : x = frame[p].id
  BY <1>1, Holding
<1>3. PICK i \in Inst : i = frame[p].inst
  BY <1>1, Holding DEF Loads
<1>4. MapStep(p) /\ NoneOf(p) /\ RowStep(p)
  BY <1>1, MapsLeft, RowsLeft
<1>5. ASSUME Drop(i) PROVE Serving' /\ DrvStep(p) /\ drv' \in [Inst -> Driver \cup {Blank}]
  <2>1. /\ drv' \in [Inst -> Driver \cup {Blank}]
        /\ \A j \in Inst : j # i => drv'[j] = drv[j]
        /\ drv'[i].id = drv[i].id /\ drv'[i].mount = drv[i].mount
        /\ drv'[i].disabled = drv[i].disabled
        /\ drv[i] \in Driver => drv'[i] \in Driver
    BY <1>5, DropFacts DEF Inv
  <2>2. Serving'
    BY <1>1, <2>1, ServingLeft DEF Inv
  <2>3. DrvStep(p)
    BY <1>1, <1>3, <2>1 DEF DrvStep, Loads
  <2> QED BY <2>1, <2>2, <2>3
<1>6. CASE Drop(i) /\ Next2(p, "init") /\ UNCHANGED hurt
  <2>1. PICK f : /\ frame' = [frame EXCEPT ![p] = f] /\ frame'[p] = f
                 /\ MayHold(f) /\ SameWork(p, f) /\ f # Idle /\ f.step = "init"
                 /\ f.inst = frame[p].inst /\ f.row = frame[p].row /\ f.id = x
    BY <1>1, <1>2, <1>3, <1>6, Advances, ProcAssumption DEF Steps
  <2>2. DataTypes'
    BY <1>1, <1>5, <1>6 DEF Inv, DataTypes
  <2>3. Object(p) /\ (x \notin hurt => Place(p))
    BY <1>1, <1>2, Holding
  <2>4. Object(p)'
    BY <1>1, <2>1, <2>3 DEF Object, Loads, Initialized
  <2>5. \A j \in Inst : drv'[j].id = drv[j].id
    BY <1>6, DropFacts DEF Inv
  <2>6. x \notin hurt' => Place(p)'
    BY <1>1, <1>2, <1>6, <2>1, <2>3, <2>5, Looks DEF Inv, Place, Loads, Initialized, Serves
  <2> QED BY <1>1, <1>2, <1>4, <1>5, <1>6, <2>1, <2>2, <2>4, <2>6, Continues
<1>7. CASE GiveUp(p) /\ (Drop(i) \/ UNCHANGED drv)
  <2>1. Serving' /\ DrvStep(p) /\ drv' \in [Inst -> Driver \cup {Blank}]
    BY <1>1, <1>5, <1>7, DriversLeft DEF Inv, Serving, DataTypes
  <2>2. DataTypes'
    BY <1>1, <1>2, <1>7, <2>1 DEF Inv, DataTypes, GiveUp, Hurt
  <2> QED BY <1>1, <1>4, <1>7, <2>1, <2>2, GivesUp
<1> QED BY <1>3, <1>6, <1>7 DEF UpdateDrop

\* initStorage: the driver takes the record of its row over.
LEMMA InitDriverKeeps ==
  ASSUME Inv, OneAdmin, NEW p \in Proc, InitDriver(p) PROVE Inv'
<1>1. /\ Busy(p) /\ frame[p].step = "init"
      /\ UNCHANGED <<rows, storagesMap, queue, loading, hurt>>
  BY DEF InitDriver, At, Busy
<1>2. PICK x \in Id : x = frame[p].id
  BY <1>1, Holding
<1>3. PICK i \in Inst : i = frame[p].inst
  BY <1>1, Holding DEF Loads
<1>4. PICK ok \in BOOLEAN, next \in {"store", "panicSave"} :
        /\ next = "panicSave" => ~ok
        /\ drv' = [drv EXCEPT ![i] =
                  [id |-> x, mount |-> frame[p].row.mount, disabled |-> frame[p].row.disabled,
                   status |-> frame[p].row.status, live |-> ok]]
        /\ Next2(p, next)
  BY <1>2, <1>3 DEF InitDriver
<1> DEFINE d == [id |-> x, mount |-> frame[p].row.mount, disabled |-> frame[p].row.disabled,
                 status |-> frame[p].row.status, live |-> ok]
<1>5. Object(p) /\ (x \notin hurt => Place(p)) /\ frame[p].row \in Row
  BY <1>1, <1>2, Holding
<1>6. ~frame[p].row.disabled
  BY <1>1, <1>5 DEF Object, Loads
<1>7. d \in Driver /\ d.id = x /\ d.mount = frame[p].row.mount /\ ~d.disabled /\ d.live = ok
  BY <1>5, <1>6 DEF Driver, Row
<1>8. drv' = [drv EXCEPT ![i] = d] /\ drv \in [Inst -> Driver \cup {Blank}]
  BY <1>4 DEF Inv, DataTypes
<1> HIDE DEF d
<1>9. drv'[i] = d /\ \A j \in Inst : j # i => drv'[j] = drv[j]
  BY <1>8
<1>10. DataTypes'
  BY <1>1, <1>7, <1>8 DEF Inv, DataTypes
<1>11. \A m \in Mount : storagesMap[m] = i => m = frame[p].row.mount
  BY <1>1, <1>3, <1>5 DEF Object, Loads
<1>12. Serving'
  BY <1>1, <1>7, <1>9, <1>11, Looks DEF Inv, Serving
<1>13. MapStep(p) /\ NoneOf(p) /\ RowStep(p)
  BY <1>1, MapsLeft, RowsLeft
<1>14. DrvStep(p)
  BY <1>1, <1>2, <1>3, <1>7, <1>9 DEF DrvStep, Loads
<1>15. PICK f : /\ frame' = [frame EXCEPT ![p] = f] /\ frame'[p] = f
                /\ MayHold(f) /\ SameWork(p, f) /\ f # Idle /\ f.step = next
                /\ f.inst = i /\ f.row = frame[p].row /\ f.id = x
  BY <1>1, <1>2, <1>3, <1>4, Advances, ProcAssumption DEF Steps
<1>16. Object(p)'
  <2>1. next \in Initialized /\ next \in Loads /\ next \notin {"panicStore", "save", "take"}
        /\ (next = "panicSave" => ~d.live)
    BY <1>4, <1>7 DEF Loads, Initialized
  <2>2. frame'[p].step = next /\ frame'[p].inst = i /\ frame'[p].row = frame[p].row
        /\ frame'[p].id = x /\ storagesMap' = storagesMap
    BY <1>1, <1>15
  <2>3. drv'[frame'[p].inst] = d
    BY <1>9, <2>2
  <2>4. next \in {"panicSave", "panicStore"} => ~d.live
    BY <2>1
  <2>5. \A m \in Mount : storagesMap'[m] = frame'[p].inst => m = frame'[p].row.mount
    BY <1>11, <2>2
  <2>6. ~frame'[p].row.disabled /\ d \in Driver /\ d.id = frame'[p].id
        /\ d.mount = frame'[p].row.mount /\ ~d.disabled
    BY <1>6, <1>7, <2>2
  <2>7. ~drv'[frame'[p].inst].live \/ next \notin {"panicSave", "panicStore"}
    BY <2>3, <2>4
  <2>8. /\ drv'[frame'[p].inst] \in Driver /\ drv'[frame'[p].inst].id = frame'[p].id
        /\ drv'[frame'[p].inst].mount = frame'[p].row.mount /\ ~drv'[frame'[p].inst].disabled
    BY <2>3, <2>6
  <2>9. ~frame'[p].row.disabled
    BY <2>6
  <2>10. frame'[p].step # "panicStore" /\ frame'[p].step # "save"
         /\ frame'[p].step = next
    BY <2>1, <2>2
  <2> HIDE <2>1, <2>2, <2>3, <2>4, <2>6
  <2> QED BY <2>5, <2>7, <2>8, <2>9, <2>10 DEF Object
<1>17. x \notin hurt' => Place(p)'
  <2> SUFFICES ASSUME x \notin hurt PROVE Place(p)'
    BY <1>1
  <2>1. \A m \in Mount : Serves(m, x) => m = frame[p].row.mount
    BY <1>1, <1>2, <1>5 DEF Place, Loads
  <2>2. \A m \in Mount : Serves(m, x)' => m = frame[p].row.mount
    BY <1>1, <1>9, <1>11, <2>1, Looks DEF Inv, Serves
  <2> QED BY <1>15, <2>2 DEF Place, Loads, Initialized, Serves
<1> QED BY <1>1, <1>2, <1>10, <1>12, <1>13, <1>14, <1>15, <1>16, <1>17, Continues

\* It is put in service under the path of its record, which is its row's.
LEMMA StoreFacts ==
  ASSUME Inv, NEW p \in Proc, Busy(p), frame[p].step \in Initialized, NEW x \in Id,
         x = frame[p].id, NEW i \in Inst, i = frame[p].inst, Store(p), UNCHANGED <<rows, drv>>
  PROVE  /\ \E m \in Mount :
              /\ m = frame[p].row.mount /\ storagesMap'[m] = i
              /\ \A n \in Mount : n # m => storagesMap'[n] = storagesMap[n]
         /\ storagesMap' \in [Mount -> Inst \cup {None}]
         /\ Serving' /\ MapStep(p) /\ NoneOf(p) /\ DrvStep(p) /\ RowStep(p)
         /\ \A n \in Mount : storagesMap'[n] = i => n = frame[p].row.mount
<1>1. /\ drv[i] \in Driver /\ drv[i].id = x /\ drv[i].mount = frame[p].row.mount
      /\ ~drv[i].disabled /\ \A n \in Mount : storagesMap[n] = i => n = frame[p].row.mount
  BY Holding DEF Object, Loads
<1>2. PICK m \in Mount : m = frame[p].row.mount
  BY Holding
<1>3. storagesMap' = [storagesMap EXCEPT ![m] = i] /\ storagesMap \in [Mount -> Inst \cup {None}]
  BY <1>1, <1>2 DEF Store, Inv, DataTypes
<1>4. /\ storagesMap'[m] = i /\ \A n \in Mount : n # m => storagesMap'[n] = storagesMap[n]
      /\ storagesMap' \in [Mount -> Inst \cup {None}]
  BY <1>3
<1>5. Serving'
  BY <1>1, <1>2, <1>4 DEF Inv, Serving
<1>6. MapStep(p) /\ NoneOf(p) /\ DrvStep(p) /\ RowStep(p)
  BY <1>1, <1>2, <1>4, DriversLeft, RowsLeft DEF MapStep, NoneOf
<1> QED BY <1>1, <1>2, <1>4, <1>5, <1>6

\* initStorage: in service before its status is known.
LEMMA StoreDriverKeeps ==
  ASSUME Inv, OneAdmin, NEW p \in Proc, StoreDriver(p) PROVE Inv'
<1>1. /\ Busy(p) /\ frame[p].step = "store" /\ frame[p].step \in Initialized /\ Store(p)
      /\ UNCHANGED <<rows, drv, queue, loading, hurt>>
  BY DEF StoreDriver, At, Busy, Initialized
<1>2. PICK x \in Id : x = frame[p].id
  BY <1>1, Holding
<1>3. PICK i \in Inst : i = frame[p].inst
  BY <1>1, Holding DEF Loads
<1>4. PICK m \in Mount : /\ m = frame[p].row.mount /\ storagesMap'[m] = i
                         /\ \A n \in Mount : n # m => storagesMap'[n] = storagesMap[n]
  BY <1>1, <1>2, <1>3, StoreFacts
<1>5. /\ storagesMap' \in [Mount -> Inst \cup {None}]
      /\ Serving' /\ MapStep(p) /\ NoneOf(p) /\ DrvStep(p) /\ RowStep(p)
      /\ \A n \in Mount : storagesMap'[n] = i => n = frame[p].row.mount
  BY <1>1, <1>2, <1>3, StoreFacts
<1>6. DataTypes'
  BY <1>1, <1>5 DEF Inv, DataTypes
<1>7. PICK f : /\ frame' = [frame EXCEPT ![p] = f] /\ frame'[p] = f
               /\ MayHold(f) /\ SameWork(p, f) /\ f # Idle /\ f.step = "save"
               /\ f.inst = i /\ f.row = frame[p].row /\ f.id = x
  BY <1>1, <1>2, <1>3, Advances, ProcAssumption DEF Steps, StoreDriver
<1>8. Object(p) /\ (x \notin hurt => Place(p))
  BY <1>1, <1>2, Holding
<1>9. Object(p)'
  <2>1. frame'[p].step = "save" /\ frame'[p].inst = i /\ frame'[p].id = x
        /\ frame'[p].row = frame[p].row /\ drv' = drv
    BY <1>1, <1>7
  <2>2. ~frame[p].row.disabled /\ frame[p].step # "take"
    BY <1>1, <1>8 DEF Object, Loads
  <2>3. /\ drv[i] \in Driver /\ drv[i].id = x /\ drv[i].mount = frame[p].row.mount
        /\ ~drv[i].disabled
    BY <1>1, <1>2, <1>3, <1>8 DEF Object
  <2>4. \A n \in Mount : storagesMap'[n] = frame'[p].inst => n = frame'[p].row.mount
    BY <1>5, <2>1
  <2>5. storagesMap'[frame'[p].row.mount] = frame'[p].inst
    BY <1>4, <2>1
  <2>6. /\ drv'[frame'[p].inst] \in Driver /\ drv'[frame'[p].inst].id = frame'[p].id
        /\ drv'[frame'[p].inst].mount = frame'[p].row.mount /\ ~drv'[frame'[p].inst].disabled
    BY <2>1, <2>3
  <2>7. ~frame'[p].row.disabled /\ frame'[p].step \notin {"panicSave", "panicStore"}
        /\ frame'[p].step # "panicStore"
    BY <2>1, <2>2
  <2> HIDE <2>1, <2>2, <2>3
  <2> QED BY <2>4, <2>5, <2>6, <2>7 DEF Object
<1>10. x \notin hurt' => Place(p)'
  <2> SUFFICES ASSUME x \notin hurt PROVE Place(p)'
    BY <1>1
  <2>1. \A n \in Mount : Serves(n, x) => n = frame[p].row.mount
    BY <1>1, <1>2, <1>8 DEF Place, Loads
  <2>2. \A n \in Mount : Serves(n, x)' => n = frame[p].row.mount
    BY <1>1, <1>4, <2>1 DEF Serves
  <2> QED BY <1>7, <2>2 DEF Place, Loads, Initialized, Serves
<1> QED BY <1>1, <1>2, <1>5, <1>6, <1>7, <1>9, <1>10, Continues

\* The same after a panic; the row has been saved before, and does not say "work".
LEMMA PanicStoreKeeps ==
  ASSUME Inv, OneAdmin, NEW p \in Proc, PanicStore(p) PROVE Inv'
<1>1. /\ Busy(p) /\ frame[p].step = "panicStore" /\ frame[p].step \in Initialized /\ Store(p)
      /\ UNCHANGED <<rows, drv, queue, loading, hurt>> /\ Done(p)
  BY DEF PanicStore, At, Busy, Initialized
<1>2. PICK x \in Id : x = frame[p].id
  BY <1>1, Holding
<1>3. PICK i \in Inst : i = frame[p].inst
  BY <1>1, Holding DEF Loads
<1>4. PICK m \in Mount : /\ m = frame[p].row.mount /\ storagesMap'[m] = i
                         /\ \A n \in Mount : n # m => storagesMap'[n] = storagesMap[n]
  BY <1>1, <1>2, <1>3, StoreFacts
<1>5. /\ storagesMap' \in [Mount -> Inst \cup {None}]
      /\ Serving' /\ MapStep(p) /\ NoneOf(p) /\ DrvStep(p) /\ RowStep(p)
  BY <1>1, <1>2, <1>3, StoreFacts
<1>6. DataTypes'
  BY <1>1, <1>5 DEF Inv, DataTypes
<1>7. frame' = [frame EXCEPT ![p] = Idle] /\ MayHold(Idle) /\ SameWork(p, Idle)
  BY <1>1, Ends
<1>8. Object(p) /\ (x \notin hurt => Place(p))
  BY <1>1, <1>2, Holding
<1>9. drv[i].id = x /\ ~drv[i].live /\ drv[i].status # "work"
  BY <1>1, <1>2, <1>3, <1>8 DEF Object, Initialized
<1>10. x \notin hurt' => AsItSays(x)'
  <2> SUFFICES ASSUME x \notin hurt PROVE AsItSays(x)'
    BY <1>1
  <2>1. /\ Enabled(x) /\ rows[x].mount = m /\ \A n \in Mount : Serves(n, x) => n = m
    BY <1>1, <1>2, <1>4, <1>8 DEF Place, Loads
  <2>2. Enabled(x)' /\ rows'[x].mount = m
    BY <1>1, <2>1 DEF Enabled
  <2>3. \A n \in Mount : Serves(n, x)' => n = m
    BY <1>1, <1>4, <2>1 DEF Serves
  <2>4. Serves(m, x)' /\ drv'[storagesMap'[m]] = drv[i]
    BY <1>1, <1>4, <1>9, ProcAssumption DEF Serves
  <2>5. TrueAt(x)'
    BY <1>9, <2>3, <2>4 DEF TrueAt, True
  <2> QED BY <2>2, <2>3, <2>4, <2>5 DEF AsItSays, Serves
<1> QED BY <1>1, <1>2, <1>5, <1>6, <1>7, <1>10, Continues

\* MustSaveDriverStorage: the status is set on the driver; the row is written or the
\* administrator is told.
LEMMA SaveFacts ==
  ASSUME Inv, NEW p \in Proc, Busy(p), frame[p].step \in Initialized, NEW x \in Id,
         x = frame[p].id, NEW i \in Inst, i = frame[p].inst, Save(p)
  PROVE  /\ hurt' = hurt \/ hurt' = hurt \cup {x}
         /\ RowStep(p) /\ DrvStep(p)
         /\ rows' \in [Id -> Row \cup {None}] /\ drv' \in [Inst -> Driver \cup {Blank}]
         /\ x \notin hurt' => Enabled(x)' /\ rows'[x].mount = frame[p].row.mount
         /\ \A j \in Inst : j # i => drv'[j] = drv[j]
         /\ drv'[i] \in Driver /\ drv'[i].id = x /\ drv'[i].mount = frame[p].row.mount
         /\ ~drv'[i].disabled /\ drv'[i].live = drv[i].live
         /\ drv'[i].status = IF drv[i].live THEN "work" ELSE "failed"
         /\ \A j \in Inst : drv'[j].id = drv[j].id
<1>1. /\ drv[i] \in Driver /\ drv[i].id = x /\ drv[i].mount = frame[p].row.mount
      /\ ~drv[i].disabled
  BY Holding DEF Object
<1>2. frame[p].row.mount \in Mount /\ frame[p].row \in Row
  BY Holding
<1> DEFINE st == IF drv[i].live THEN "work" ELSE "failed"
           d == [drv[i] EXCEPT !.status = st]
           r == [mount |-> drv[i].mount, disabled |-> drv[i].disabled, status |-> st]
<1>3. /\ drv' = [drv EXCEPT ![i] = d] /\ drv \in [Inst -> Driver \cup {Blank}]
      /\ Persist(i, st)
  BY DEF Save, InitStatus, Inv, DataTypes
<1>4. /\ d \in Driver /\ d.id = x /\ d.mount = frame[p].row.mount /\ ~d.disabled
      /\ d.live = drv[i].live /\ d.status = st
  BY <1>1 DEF Driver, Statuses
<1>5. r \in Row /\ r.mount = frame[p].row.mount /\ ~r.disabled
  BY <1>1, <1>2 DEF Row, Driver, Statuses
<1>6. \/ Unique(x, frame[p].row.mount) /\ SaveRow(x, r) /\ UNCHANGED hurt
      \/ Hurt(x) /\ UNCHANGED rows
  BY <1>1, <1>3 DEF Persist
<1> HIDE DEF d, r
<1>7. /\ drv'[i] = d /\ \A j \in Inst : j # i => drv'[j] = drv[j]
      /\ drv' \in [Inst -> Driver \cup {Blank}]
  BY <1>3, <1>4
<1>8. \A j \in Inst : drv'[j].id = drv[j].id
  BY <1>1, <1>4, <1>7
<1>9. DrvStep(p)
  BY <1>7, <1>8 DEF DrvStep, Loads
<1>10. CASE Unique(x, frame[p].row.mount) /\ SaveRow(x, r) /\ UNCHANGED hurt
  <2>1. RowStep(p) /\ rows' \in [Id -> Row \cup {None}] /\ rows'[x] = r
    BY <1>5, <1>10, RowSaved
  <2>2. Enabled(x)' /\ rows'[x].mount = frame[p].row.mount
    BY <1>5, <2>1, RowAssumption DEF Enabled
  <2> QED BY <1>4, <1>7, <1>8, <1>9, <1>10, <2>1, <2>2
<1>11. CASE Hurt(x) /\ UNCHANGED rows
  <2>1. RowStep(p) /\ rows' \in [Id -> Row \cup {None}]
    BY <1>11, RowsLeft DEF Inv, DataTypes
  <2> QED BY <1>4, <1>7, <1>8, <1>9, <1>11, <2>1 DEF Hurt
<1> QED BY <1>6, <1>10, <1>11

\* A record that stays under the same path stays in service there.
LEMMA ServingSaved ==
  ASSUME Inv, NEW p \in Proc, Busy(p), frame[p].step \in Initialized,
         NEW i \in Inst, i = frame[p].inst, UNCHANGED storagesMap,
         \A j \in Inst : j # i => drv'[j] = drv[j],
         drv'[i] \in Driver, drv'[i].mount = frame[p].row.mount, ~drv'[i].disabled
  PROVE  Serving'
<1>1. \A m \in Mount : storagesMap[m] = i => m = frame[p].row.mount
  BY Holding DEF Object, Loads
<1> QED BY <1>1, Looks DEF Inv, Serving

\* initStorage ends: the row and the driver's status tell how the driver is.
LEMMA SaveStatusKeeps ==
  ASSUME Inv, OneAdmin, NEW p \in Proc, SaveStatus(p) PROVE Inv'
<1>1. /\ Busy(p) /\ frame[p].step = "save" /\ frame[p].step \in Initialized
      /\ Save(p) /\ Done(p) /\ UNCHANGED <<storagesMap, queue, loading>>
  BY DEF SaveStatus, At, Busy, Initialized
<1>2. PICK x \in Id : x = frame[p].id
  BY <1>1, Holding
<1>3. PICK i \in Inst : i = frame[p].inst
  BY <1>1, Holding DEF Loads
<1>4. /\ hurt' = hurt \/ hurt' = hurt \cup {x}
      /\ RowStep(p) /\ DrvStep(p)
      /\ rows' \in [Id -> Row \cup {None}] /\ drv' \in [Inst -> Driver \cup {Blank}]
      /\ x \notin hurt' => Enabled(x)' /\ rows'[x].mount = frame[p].row.mount
      /\ \A j \in Inst : j # i => drv'[j] = drv[j]
      /\ drv'[i] \in Driver /\ drv'[i].id = x /\ drv'[i].mount = frame[p].row.mount
      /\ ~drv'[i].disabled /\ drv'[i].live = drv[i].live
      /\ drv'[i].status = IF drv[i].live THEN "work" ELSE "failed"
      /\ \A j \in Inst : drv'[j].id = drv[j].id
  BY <1>1, <1>2, <1>3, SaveFacts
<1>5. MapStep(p) /\ NoneOf(p)
  BY <1>1, MapsLeft
<1>6. DataTypes'
  BY <1>1, <1>4 DEF Inv, DataTypes
<1>7. Serving'
  BY <1>1, <1>3, <1>4, ServingSaved
<1>8. frame' = [frame EXCEPT ![p] = Idle] /\ MayHold(Idle) /\ SameWork(p, Idle)
  BY <1>1, Ends
<1>9. x \notin hurt' => AsItSays(x)'
  <2> SUFFICES ASSUME x \notin hurt' PROVE AsItSays(x)'
    OBVIOUS
  <2>1. x \notin hurt
    BY <1>4
  <2>2. Object(p) /\ Place(p)
    BY <1>1, <1>2, <2>1, Holding
  <2>3. PICK m \in Mount : m = frame[p].row.mount
    BY <1>1, Holding
  <2>4. storagesMap[m] = i /\ \A n \in Mount : Serves(n, x) => n = m
    BY <1>1, <1>2, <1>3, <2>2, <2>3 DEF Object, Place, Loads
  <2>5. \A n \in Mount : Serves(n, x)' => n = m
    BY <1>1, <1>4, <2>4, Looks DEF Inv, Serves
  <2>6. Serves(m, x)' /\ storagesMap'[m] = i
    BY <1>1, <1>4, <2>4, ProcAssumption DEF Serves
  <2>7. Enabled(x)' /\ rows'[x].mount = m
    BY <1>4, <2>3
  <2>8. TrueAt(x)'
    BY <1>4, <2>5, <2>6 DEF TrueAt, True
  <2> QED BY <2>5, <2>6, <2>7, <2>8 DEF AsItSays, Serves
<1> QED BY <1>1, <1>2, <1>4, <1>5, <1>6, <1>7, <1>8, <1>9, Continues

\* After a panic the status is saved first, and the driver put in service then.
LEMMA PanicSaveKeeps ==
  ASSUME Inv, OneAdmin, NEW p \in Proc, PanicSave(p) PROVE Inv'
<1>1. /\ Busy(p) /\ frame[p].step = "panicSave" /\ frame[p].step \in Initialized
      /\ Save(p) /\ Next2(p, "panicStore") /\ UNCHANGED <<storagesMap, queue, loading>>
  BY DEF PanicSave, At, Busy, Initialized
<1>2. PICK x \in Id : x = frame[p].id
  BY <1>1, Holding
<1>3. PICK i \in Inst : i = frame[p].inst
  BY <1>1, Holding DEF Loads
<1>4. /\ hurt' = hurt \/ hurt' = hurt \cup {x}
      /\ RowStep(p) /\ DrvStep(p)
      /\ rows' \in [Id -> Row \cup {None}] /\ drv' \in [Inst -> Driver \cup {Blank}]
      /\ x \notin hurt' => Enabled(x)' /\ rows'[x].mount = frame[p].row.mount
      /\ \A j \in Inst : j # i => drv'[j] = drv[j]
      /\ drv'[i] \in Driver /\ drv'[i].id = x /\ drv'[i].mount = frame[p].row.mount
      /\ ~drv'[i].disabled /\ drv'[i].live = drv[i].live
      /\ drv'[i].status = IF drv[i].live THEN "work" ELSE "failed"
      /\ \A j \in Inst : drv'[j].id = drv[j].id
  BY <1>1, <1>2, <1>3, SaveFacts
<1>5. MapStep(p) /\ NoneOf(p)
  BY <1>1, MapsLeft
<1>6. DataTypes'
  BY <1>1, <1>4 DEF Inv, DataTypes
<1>7. Serving'
  BY <1>1, <1>3, <1>4, ServingSaved
<1>8. PICK f : /\ frame' = [frame EXCEPT ![p] = f] /\ frame'[p] = f
               /\ MayHold(f) /\ SameWork(p, f) /\ f # Idle /\ f.step = "panicStore"
               /\ f.inst = i /\ f.row = frame[p].row /\ f.id = x
  BY <1>1, <1>2, <1>3, Advances, ProcAssumption DEF Steps
<1>9. Object(p) /\ (x \notin hurt => Place(p)) /\ frame[p].row.mount \in Mount
  BY <1>1, <1>2, Holding
<1>10. Object(p)'
  <2>1. /\ frame'[p].step = "panicStore" /\ frame'[p].inst = i /\ frame'[p].id = x
        /\ frame'[p].row = frame[p].row /\ storagesMap' = storagesMap
    BY <1>1, <1>8
  <2>2. /\ ~frame[p].row.disabled /\ ~drv[i].live
        /\ \A n \in Mount : storagesMap[n] = i => n = frame[p].row.mount
    BY <1>1, <1>3, <1>9 DEF Object, Loads
  <2>3. \A n \in Mount : storagesMap'[n] = frame'[p].inst => n = frame'[p].row.mount
    BY <2>1, <2>2
  <2>4. /\ drv'[frame'[p].inst] \in Driver /\ drv'[frame'[p].inst].id = frame'[p].id
        /\ drv'[frame'[p].inst].mount = frame'[p].row.mount /\ ~drv'[frame'[p].inst].disabled
    BY <1>4, <2>1
  <2>5. ~drv'[frame'[p].inst].live /\ drv'[frame'[p].inst].status # "work"
    BY <1>4, <2>1, <2>2
  <2>6. ~frame'[p].row.disabled /\ frame'[p].step # "save"
    BY <2>1, <2>2
  <2> HIDE <2>1, <2>2
  <2> QED BY <2>3, <2>4, <2>5, <2>6 DEF Object
<1>11. x \notin hurt' => Place(p)'
  <2> SUFFICES ASSUME x \notin hurt' PROVE Place(p)'
    OBVIOUS
  <2>1. Place(p)
    BY <1>4, <1>9
  <2>2. \A n \in Mount : Serves(n, x) => n = frame[p].row.mount
    BY <1>1, <1>2, <2>1 DEF Place, Loads
  <2>3. \A n \in Mount : Serves(n, x)' => n = frame[p].row.mount
    BY <1>1, <1>4, <2>2, Looks DEF Inv, Serves
  <2>4. Enabled(x)' /\ rows'[x].mount = frame[p].row.mount
    BY <1>4
  <2> QED BY <1>8, <2>3, <2>4 DEF Place, Loads, Initialized, Serves, Enabled
<1> QED BY <1>1, <1>2, <1>4, <1>5, <1>6, <1>7, <1>8, <1>10, <1>11, Continues

-----------------------------------------------------------------------------
(* A request begins while nothing else goes on.                            *)

\* What holds when an administrator may start.
LEMMA Quietly ==
  ASSUME Inv, OneAdmin, NEW p \in Proc, MayStart(p)
  PROVE  /\ loading = "no" /\ queue = {} /\ \A q \in Proc : ~Busy(q)
         /\ frame[p] = Idle /\ frame = [frame EXCEPT ![p] = Idle]
         /\ \A y \in Id : ~Waits(y) /\ (y \notin hurt => AsItSays(y))
<1>1. loading = "no" /\ queue = {} /\ \A q \in Proc : ~Busy(q)
  BY DEF Inv, OneAdmin, MayStart, Turn, Busy, Proc
<1>2. frame[p] = Idle /\ frame = [frame EXCEPT ![p] = Idle]
  BY DEF Inv, FrameTypes, MayStart
<1>3. \A y \in Id : ~Worked(y)
  BY <1>1 DEF Worked
<1>4. \A y \in Id : y \notin hurt => AsItSays(y)
  BY <1>3 DEF Inv, Settled
<1> QED BY <1>1, <1>2, <1>4 DEF Waits

\* It leaves the rows' paths distinct, the other storages as they are, and its own where
\* it will find it.
LEMMA Starts ==
  ASSUME Inv, OneAdmin, NEW p \in Proc, MayStart(p), NEW x \in Id,
         NEW f, MayHold(f), f # Idle => f.id = x, frame' = [frame EXCEPT ![p] = f],
         UNCHANGED <<queue, loading>>, DataTypes', Serving', hurt \subseteq hurt',
         \A y \in Id \ {x} : rows'[y] = rows[y],
         rows'[x] # None => Unique(x, rows'[x].mount),
         \A y \in Id \ hurt' : y # x /\ AsItSays(y) => AsItSays(y)',
         f # Idle => Others(p)' /\ Object(p)' /\ (x \notin hurt' => Place(p)'),
         f = Idle => x \in hurt' \/ AsItSays(x)'
  PROVE  Inv'
<1>1. /\ loading = "no" /\ queue = {} /\ \A q \in Proc : ~Busy(q)
  BY Quietly
<1>2. \A q \in Proc \ {p} : frame'[q] = frame[q]
  BY DEF Inv, FrameTypes
<1>3. Turn'
  BY <1>1, <1>2, ProcAssumption DEF Turn, Busy, Proc, MayStart
<1>4. Distinct'
  BY DEF Inv, Distinct, Unique
<1>5. Queued'
  BY <1>1 DEF Queued
<1>6. (Busy(p) => frame[p].id = x) /\ \A q \in Proc \ {p} : ~Busy(q)
  BY <1>1
<1> QED BY <1>3, <1>4, <1>5, <1>6, OneStep

\* The frame of a request that has begun.
LEMMA Begun ==
  ASSUME Inv, NEW p \in Proc, NEW s \in Steps, s # "idle", NEW x \in Id, NEW r \in Row,
         NEW i \in Inst \cup {None}, s \in Loads => i # None, NEW m \in Mount,
         Start(p, s, x, r, i, m)
  PROVE  \E f : /\ frame' = [frame EXCEPT ![p] = f] /\ frame'[p] = f
                /\ MayHold(f) /\ f # Idle /\ f.step = s /\ f.inst = i /\ f.row = r
                /\ f.id = x /\ f.was = m
<1> DEFINE f == [step |-> s, id |-> x, row |-> r, inst |-> i, was |-> m]
<1>1. frame' = [frame EXCEPT ![p] = f] /\ frame \in [Proc -> Frame \cup {Idle}]
  BY DEF Start, GoTo, Inv, FrameTypes
<1>2. /\ f \in Frame /\ f.step = s /\ f.inst = i /\ f.row = r /\ f.id = x /\ f.was = m
  BY DEF Frame
<1> HIDE DEF f
<1>3. f # Idle
  BY <1>2 DEF Idle
<1>4. frame'[p] = f
  BY <1>1
<1> QED BY <1>1, <1>2, <1>3, <1>4 DEF MayHold

\* A storage whose row, driver and path a step does not touch.
LEMMA Untouched ==
  ASSUME DataTypes, NEW y \in Id, AsItSays(y), rows'[y] = rows[y],
         UNCHANGED <<storagesMap, drv>>, Waits(y) => Waits(y)'
  PROVE  AsItSays(y)'
<1> DEFINE M == {}
<1>1. \A m \in Mount : Serves(m, y) => m \notin M /\ storagesMap[m] # None
  BY DEF Serves
<1>2. /\ \A m \in Mount : m \notin M => storagesMap'[m] = storagesMap[m]
      /\ \A m \in Mount : m \in M => storagesMap'[m] = None \/ drv'[storagesMap'[m]].id # y
      /\ \A j \in Inst : j # None => drv'[j] = drv[j]
      /\ None \in Inst => drv'[None].id # y \/ drv'[None].id = drv[None].id
  OBVIOUS
<1> HIDE DEF M
<1> QED BY <1>1, <1>2, LeftAlone

\* Create and Enable: an enabled row is written where there was none, and its driver is
\* new.
LEMMA LoadBegins ==
  ASSUME Inv, OneAdmin, NEW p \in Proc, MayStart(p), NEW x \in Id, ~Enabled(x),
         NEW r \in Row, ~r.disabled, Unique(x, r.mount), NEW i \in Inst, Fresh(i),
         SaveRow(x, r), Start(p, "init", x, r, i, r.mount),
         UNCHANGED <<storagesMap, drv, queue, loading, hurt>>
  PROVE  Inv'
<1>1. r.mount \in Mount /\ i # None
  BY ProcAssumption DEF Row
<1>2. PICK f : /\ frame' = [frame EXCEPT ![p] = f] /\ frame'[p] = f
               /\ MayHold(f) /\ f # Idle /\ f.step = "init" /\ f.inst = i /\ f.row = r
               /\ f.id = x /\ f.was = r.mount
  BY <1>1, Begun DEF Steps
<1>3. /\ rows' \in [Id -> Row \cup {None}] /\ rows'[x] = r
      /\ \A y \in Id \ {x} : rows'[y] = rows[y]
  BY DEF SaveRow, Inv, DataTypes
<1>4. DataTypes' /\ Serving'
  BY <1>3 DEF Inv, DataTypes, Serving
<1>5. \A y \in Id : y # x /\ AsItSays(y) => AsItSays(y)'
  BY <1>3, Untouched DEF Inv, Waits
<1>6. Others(p)'
  BY <1>2, <1>3 DEF Others, Unique
<1>7. Object(p)'
  <2>1. "init" \notin Initialized /\ "init" \in Loads
    BY DEF Loads, Initialized
  <2>2. \A m \in Mount : storagesMap'[m] # frame'[p].inst
    BY <1>2 DEF Fresh
  <2> QED BY <1>2, <2>1, <2>2 DEF Object
<1>8. x \notin hurt' => Place(p)'
  <2>1. x \notin hurt => AsItSays(x)
    BY Quietly
  <2>2. x \notin hurt => \A m \in Mount : ~Serves(m, x)'
    BY <2>1 DEF AsItSays, Serves
  <2> QED BY <1>2, <2>2 DEF Place, Loads, Initialized, Serves
<1>9. hurt \subseteq hurt' /\ (rows'[x] # None => Unique(x, rows'[x].mount))
  BY <1>3
<1> QED BY <1>2, <1>3, <1>4, <1>5, <1>6, <1>7, <1>8, <1>9, Starts

\* CreateStorage.
LEMMA CreateKeeps ==
  ASSUME Inv, OneAdmin, NEW p \in Proc, Create(p) PROVE Inv'
<1>1. PICK x \in Id, m \in Mount, i \in Inst :
        /\ rows[x] = None /\ Unique(x, m) /\ Fresh(i)
        /\ SaveRow(x, [mount |-> m, disabled |-> FALSE, status |-> ""])
        /\ Start(p, "init", x, [mount |-> m, disabled |-> FALSE, status |-> ""], i, m)
  BY DEF Create
<1> DEFINE r == [mount |-> m, disabled |-> FALSE, status |-> ""]
<1>2. r \in Row /\ r.mount = m /\ ~r.disabled
  BY DEF Row, Statuses
<1>3. SaveRow(x, r) /\ Start(p, "init", x, r, i, r.mount)
  BY <1>1
<1> HIDE DEF r
<1>4. ~Enabled(x) /\ Unique(x, r.mount)
  BY <1>1, <1>2 DEF Enabled
<1>5. MayStart(p) /\ UNCHANGED <<storagesMap, drv, queue, loading, hurt>>
  BY DEF Create
<1> QED BY <1>1, <1>2, <1>3, <1>4, <1>5, LoadBegins

\* EnableStorage.
LEMMA EnableKeeps ==
  ASSUME Inv, OneAdmin, NEW p \in Proc, Enable(p) PROVE Inv'
<1>1. PICK x \in Id, i \in Inst :
        /\ rows[x] # None /\ rows[x].disabled /\ Fresh(i)
        /\ SaveRow(x, [rows[x] EXCEPT !.disabled = FALSE])
        /\ Start(p, "init", x, [rows[x] EXCEPT !.disabled = FALSE], i,
                 [rows[x] EXCEPT !.disabled = FALSE].mount)
  BY DEF Enable
<1> DEFINE r == [rows[x] EXCEPT !.disabled = FALSE]
<1>2. rows[x] \in Row
  BY <1>1, Looks DEF Inv
<1>3. r \in Row /\ r.mount = rows[x].mount /\ ~r.disabled
  BY <1>2 DEF Row
<1>4. SaveRow(x, r) /\ Start(p, "init", x, r, i, r.mount)
  BY <1>1
<1> HIDE DEF r
<1>5. ~Enabled(x) /\ Unique(x, r.mount)
  BY <1>1, <1>3 DEF Enabled, Unique, Inv, Distinct
<1>6. MayStart(p) /\ UNCHANGED <<storagesMap, drv, queue, loading, hurt>>
  BY DEF Enable
<1> QED BY <1>1, <1>3, <1>4, <1>5, <1>6, LoadBegins

\* A driver that is dropped where its row says, and may leave the map: the others do
\* not notice.
LEMMA DropsThere ==
  ASSUME DataTypes, Serving, NEW x \in Id, NEW k \in Mount, NEW i \in Inst, storagesMap[k] = i,
         Drop(i) \/ UNCHANGED drv, UNCHANGED <<queue, loading>> \/ \A y \in Id : ~Waits(y),
         \/ UNCHANGED storagesMap
         \/ storagesMap' = [storagesMap EXCEPT ![k] = None],
         \A y \in Id \ hurt : y # x /\ rows[y] # None => rows[y].mount # k,
         UNCHANGED rows
  PROVE  /\ Serving' /\ drv' \in [Inst -> Driver \cup {Blank}]
         /\ storagesMap' \in [Mount -> Inst \cup {None}]
         /\ \A j \in Inst : drv'[j].id = drv[j].id
         /\ \A y \in Id \ hurt : y # x /\ AsItSays(y) => AsItSays(y)'
<1>1. /\ drv' \in [Inst -> Driver \cup {Blank}]
      /\ \A j \in Inst : j # i => drv'[j] = drv[j]
      /\ drv'[i].id = drv[i].id /\ drv'[i].mount = drv[i].mount
      /\ drv'[i].disabled = drv[i].disabled
      /\ drv[i] \in Driver => drv'[i] \in Driver
  BY DropFacts DEF DataTypes
<1>2. /\ storagesMap' \in [Mount -> Inst \cup {None}]
      /\ \A m \in Mount : m # k => storagesMap'[m] = storagesMap[m]
      /\ storagesMap'[k] = storagesMap[k] \/ storagesMap'[k] = None
  BY DEF DataTypes
<1>3. Serving'
  BY <1>1, <1>2, ServingLeft
<1>4. \A j \in Inst : drv'[j].id = drv[j].id
  BY <1>1
<1>5. ASSUME NEW y \in Id \ hurt, y # x, AsItSays(y) PROVE AsItSays(y)'
  <2> DEFINE M == {m \in Mount : storagesMap'[m] # storagesMap[m]}
  <2>1. ASSUME NEW m \in Mount, Serves(m, y) PROVE m # k /\ storagesMap[m] # i
    <3>1. rows[y] # None /\ rows[y].mount = m
      BY <1>5, <2>1, ServedThere
    <3>2. m # k
      BY <3>1, <1>5
    <3>3. drv[storagesMap[m]].mount = m /\ drv[i].mount = k
      BY <2>1, Looks, ProcAssumption DEF Serving, Serves
    <3> QED BY <3>2, <3>3
  <2>2. \A m \in Mount : Serves(m, y) => m \notin M /\ storagesMap[m] # i
    BY <1>2, <2>1
  <2>3. /\ \A m \in Mount : m \notin M => storagesMap'[m] = storagesMap[m]
        /\ \A m \in Mount : m \in M => storagesMap'[m] = None \/ drv'[storagesMap'[m]].id # y
    BY <1>2
  <2>4. Waits(y) => Waits(y)'
    BY DEF Waits
  <2>5. y \in Id /\ rows'[y] = rows[y] /\ DataTypes
    OBVIOUS
  <2>6. \A j \in Inst : j # i => drv'[j] = drv[j]
    BY <1>1
  <2>7. i \in Inst => drv'[i].id # y \/ drv'[i].id = drv[i].id
    BY <1>1
  <2> HIDE DEF M
  <2> QED BY ONLY <1>5, <2>2, <2>3, <2>4, <2>5, <2>6, <2>7, LeftAlone
<1> QED BY <1>1, <1>2, <1>3, <1>4, <1>5

\* The request has answered an error: the storage is the administrator's concern.
LEMMA Refused ==
  ASSUME Inv, OneAdmin, NEW p \in Proc, MayStart(p), NEW x \in Id, Hurt(x),
         UNCHANGED <<rows, frame, queue, loading>>, DataTypes', Serving',
         \A y \in Id \ hurt : y # x /\ AsItSays(y) => AsItSays(y)'
  PROVE  Inv'
<1>1. frame' = [frame EXCEPT ![p] = Idle] /\ MayHold(Idle)
  BY Quietly DEF MayHold
<1>2. x \in hurt' /\ hurt \subseteq hurt'
  BY DEF Hurt
<1>3. rows'[x] # None => Unique(x, rows'[x].mount)
  BY DEF Unique, Inv, Distinct
<1> QED BY <1>1, <1>2, <1>3, Starts

\* DisableStorage begins: the driver is dropped, or the administrator is told.
LEMMA DisableKeeps ==
  ASSUME Inv, OneAdmin, NEW p \in Proc, Disable(p) PROVE Inv'
<1>1. MayStart(p) /\ UNCHANGED <<rows, storagesMap, queue, loading>>
  BY DEF Disable
<1>2. PICK x \in Id : /\ rows[x] # None /\ ~rows[x].disabled /\ storagesMap[rows[x].mount] # None
        /\ \/ /\ Drop(storagesMap[rows[x].mount])
              /\ Start(p, "disableRow", x, rows[x], storagesMap[rows[x].mount], rows[x].mount)
              /\ UNCHANGED hurt
           \/ /\ Hurt(x) /\ (Drop(storagesMap[rows[x].mount]) \/ UNCHANGED drv)
              /\ UNCHANGED frame
  BY DEF Disable
<1>3. rows[x] \in Row /\ rows[x].mount \in Mount
  BY <1>2, Looks DEF Inv, Row
<1>4. PICK k \in Mount, i \in Inst : k = rows[x].mount /\ i = storagesMap[k]
  BY <1>2, <1>3, Looks DEF Inv
<1>5. \A y \in Id \ hurt : y # x /\ rows[y] # None => rows[y].mount # k
  BY <1>2, <1>4 DEF Inv, Distinct
<1>6. Drop(i) \/ UNCHANGED drv
  BY <1>2, <1>4
<1>7. /\ Serving' /\ drv' \in [Inst -> Driver \cup {Blank}]
      /\ storagesMap' \in [Mount -> Inst \cup {None}]
      /\ \A j \in Inst : drv'[j].id = drv[j].id
      /\ \A y \in Id \ hurt : y # x /\ AsItSays(y) => AsItSays(y)'
  BY <1>1, <1>4, <1>5, <1>6, DropsThere DEF Inv
<1>8. CASE /\ Drop(i) /\ Start(p, "disableRow", x, rows[x], i, k) /\ UNCHANGED hurt
  <2>1. PICK f : /\ frame' = [frame EXCEPT ![p] = f] /\ frame'[p] = f
                 /\ MayHold(f) /\ f # Idle /\ f.step = "disableRow" /\ f.row = rows[x]
                 /\ f.id = x /\ f.was = k
    BY <1>3, <1>8, Begun DEF Steps, Loads, Initialized
  <2>2. DataTypes'
    BY <1>1, <1>7, <1>8 DEF Inv, DataTypes
  <2>3. Others(p)'
    BY <1>1, <1>4, <1>5, <1>8, <2>1 DEF Others
  <2>4. Object(p)'
    BY <2>1 DEF Object, Loads, Initialized
  <2>5. x \notin hurt' => Place(p)'
    <3> SUFFICES ASSUME x \notin hurt PROVE Place(p)'
      BY <1>8
    <3>1. \A m \in Mount : Serves(m, x) => m = k
      BY <1>1, <1>4, Quietly DEF AsItSays
    <3>2. \A m \in Mount : Serves(m, x)' => m = k /\ ~drv'[storagesMap'[m]].live
      BY <1>1, <1>4, <1>7, <1>8, <3>1, DropFacts, Looks DEF Inv, Serves
    <3> QED BY <1>4, <2>1, <3>2 DEF Place, Loads, Initialized, Serves
  <2>6. rows'[x] # None => Unique(x, rows'[x].mount)
    BY <1>1 DEF Unique, Inv, Distinct
  <2> QED BY <1>1, <1>7, <1>8, <2>1, <2>2, <2>3, <2>4, <2>5, <2>6, Starts
<1>9. CASE Hurt(x) /\ UNCHANGED frame
  <2>1. DataTypes'
    BY <1>1, <1>7, <1>9 DEF Inv, DataTypes, Hurt
  <2> QED BY <1>1, <1>7, <1>9, <2>1, Refused
<1> QED BY <1>2, <1>4, <1>8, <1>9

\* DeleteStorageById begins: the driver is dropped and leaves the map.
LEMMA DeleteKeeps ==
  ASSUME Inv, OneAdmin, NEW p \in Proc, Delete(p) PROVE Inv'
<1>1. MayStart(p) /\ UNCHANGED <<rows, queue, loading>>
  BY DEF Delete
<1>2. PICK x \in Id : /\ rows[x] # None
        /\ LET r == rows[x]  i == storagesMap[r.mount] IN
            IF r.disabled
            THEN Start(p, "deleteRow", x, r, None, r.mount) /\ UNCHANGED <<storagesMap, drv, hurt>>
            ELSE /\ i # None
                 /\ \/ /\ Drop(i)
                       /\ storagesMap' = [storagesMap EXCEPT ![r.mount] = None]
                       /\ Start(p, "deleteRow", x, r, None, r.mount) /\ UNCHANGED hurt
                    \/ Hurt(x) /\ (Drop(i) \/ UNCHANGED drv) /\ UNCHANGED <<frame, storagesMap>>
  BY DEF Delete
<1>3. rows[x] \in Row /\ rows[x].mount \in Mount
  BY <1>2, Looks DEF Inv, Row
<1>4. PICK k \in Mount : k = rows[x].mount
  BY <1>3
<1>5. \A y \in Id \ hurt : y # x /\ rows[y] # None => rows[y].mount # k
  BY <1>2, <1>4 DEF Inv, Distinct
<1>6. ASSUME Start(p, "deleteRow", x, rows[x], None, k), UNCHANGED hurt, DataTypes', Serving',
             \A y \in Id \ hurt : y # x /\ AsItSays(y) => AsItSays(y)',
             x \notin hurt => \A m \in Mount : ~Serves(m, x)'
      PROVE  Inv'
  <2>1. PICK f : /\ frame' = [frame EXCEPT ![p] = f] /\ frame'[p] = f
                 /\ MayHold(f) /\ f # Idle /\ f.step = "deleteRow" /\ f.row = rows[x]
                 /\ f.id = x /\ f.was = k
    BY <1>3, <1>6, Begun DEF Steps, Loads, Initialized
  <2>2. Others(p)'
    BY <1>1, <1>4, <1>5, <1>6, <2>1 DEF Others
  <2>3. Object(p)'
    BY <2>1 DEF Object, Loads, Initialized
  <2>4. x \notin hurt' => Place(p)'
    BY <1>6, <2>1 DEF Place, Loads, Initialized, Serves
  <2>5. rows'[x] # None => Unique(x, rows'[x].mount)
    BY <1>1 DEF Unique, Inv, Distinct
  <2> QED BY <1>1, <1>6, <2>1, <2>2, <2>3, <2>4, <2>5, Starts
<1>7. CASE rows[x].disabled
  <2>1. Start(p, "deleteRow", x, rows[x], None, k) /\ UNCHANGED <<storagesMap, drv, hurt>>
    BY <1>2, <1>4, <1>7
  <2>2. DataTypes' /\ Serving'
    BY <1>1, <2>1 DEF Inv, DataTypes, Serving
  <2>3. \A y \in Id \ hurt : y # x /\ AsItSays(y) => AsItSays(y)'
    BY <1>1, <2>1, Untouched DEF Inv, Waits
  <2>4. x \notin hurt => \A m \in Mount : ~Serves(m, x)'
    BY <1>1, <1>7, <2>1, Quietly DEF AsItSays, Enabled, Serves
  <2> QED BY <1>6, <2>1, <2>2, <2>3, <2>4
<1>8. CASE ~rows[x].disabled
  <2>1. PICK i \in Inst : i = storagesMap[k]
    BY <1>2, <1>4, <1>8, Looks DEF Inv
  <2>2. CASE /\ Drop(i) /\ storagesMap' = [storagesMap EXCEPT ![k] = None]
             /\ Start(p, "deleteRow", x, rows[x], None, k) /\ UNCHANGED hurt
    <3>1. /\ Serving' /\ drv' \in [Inst -> Driver \cup {Blank}]
          /\ storagesMap' \in [Mount -> Inst \cup {None}]
          /\ \A j \in Inst : drv'[j].id = drv[j].id
          /\ \A y \in Id \ hurt : y # x /\ AsItSays(y) => AsItSays(y)'
      BY <1>1, <1>5, <2>1, <2>2, DropsThere DEF Inv
    <3>2. DataTypes'
      BY <1>1, <2>2, <3>1 DEF Inv, DataTypes
    <3>3. storagesMap'[k] = None /\ \A m \in Mount : m # k => storagesMap'[m] = storagesMap[m]
      BY <2>2 DEF Inv, DataTypes
    <3>4. x \notin hurt => \A m \in Mount : Serves(m, x) => m = k
      BY <1>1, <1>4, Quietly DEF AsItSays
    <3>5. x \notin hurt => \A m \in Mount : ~Serves(m, x)'
      BY <3>1, <3>3, <3>4, Looks DEF Inv, Serves
    <3> QED BY <1>6, <2>2, <3>1, <3>2, <3>5
  <2>3. CASE Hurt(x) /\ (Drop(i) \/ UNCHANGED drv) /\ UNCHANGED <<frame, storagesMap>>
    <3>1. /\ Serving' /\ drv' \in [Inst -> Driver \cup {Blank}]
          /\ \A y \in Id \ hurt : y # x /\ AsItSays(y) => AsItSays(y)'
      BY <1>1, <1>5, <2>1, <2>3, DropsThere DEF Inv
    <3>2. DataTypes'
      BY <1>1, <2>3, <3>1 DEF Inv, DataTypes, Hurt
    <3> QED BY <1>1, <2>3, <3>1, <3>2, Refused
  <2> QED BY <1>2, <1>4, <1>8, <2>1, <2>2, <2>3
<1> QED BY <1>7, <1>8

\* UpdateStorage begins: the row is written.
LEMMA UpdateKeeps ==
  ASSUME Inv, OneAdmin, NEW p \in Proc, Update(p) PROVE Inv'
<1>1. MayStart(p) /\ UNCHANGED <<storagesMap, drv, queue, loading, hurt>>
  BY DEF Update
<1>2. PICK x \in Id, m \in Mount : /\ rows[x] # None /\ Unique(x, m)
        /\ LET r == [rows[x] EXCEPT !.mount = m] IN
            /\ SaveRow(x, r)
            /\ IF r.disabled THEN UNCHANGED frame
               ELSE Start(p, "take", x, r, None, rows[x].mount)
  BY DEF Update
<1> DEFINE r == [rows[x] EXCEPT !.mount = m]
<1>3. rows[x] \in Row /\ rows[x].mount \in Mount
  BY <1>2, Looks DEF Inv, Row
<1>4. r \in Row /\ r.mount = m /\ r.disabled = rows[x].disabled
  BY <1>3 DEF Row
<1>5. SaveRow(x, r) /\ (IF r.disabled THEN UNCHANGED frame
                        ELSE Start(p, "take", x, r, None, rows[x].mount))
  BY <1>2
<1> HIDE DEF r
<1>6. /\ rows' \in [Id -> Row \cup {None}] /\ rows'[x] = r
      /\ \A y \in Id \ {x} : rows'[y] = rows[y]
  BY <1>4, <1>5 DEF SaveRow, Inv, DataTypes
<1>7. DataTypes' /\ Serving'
  BY <1>1, <1>6 DEF Inv, DataTypes, Serving
<1>8. \A y \in Id : y # x /\ AsItSays(y) => AsItSays(y)'
  BY <1>1, <1>6, Untouched DEF Inv, Waits
<1>9. hurt \subseteq hurt' /\ (rows'[x] # None => Unique(x, rows'[x].mount))
  BY <1>1, <1>2, <1>4, <1>6
<1>10. x \notin hurt => AsItSays(x) /\ ~Waits(x)
  BY <1>1, Quietly
<1>11. CASE r.disabled
  <2>1. frame' = [frame EXCEPT ![p] = Idle] /\ MayHold(Idle)
    BY <1>1, <1>5, <1>11, Quietly DEF MayHold
  <2>2. x \notin hurt => AsItSays(x)'
    <3> SUFFICES ASSUME x \notin hurt PROVE AsItSays(x)'
      OBVIOUS
    <3>1. ~Enabled(x) /\ ~Enabled(x)'
      BY <1>4, <1>6, <1>11 DEF Enabled
    <3>2. \A n \in Mount : ~Serves(n, x)'
      BY <1>1, <1>10, <3>1 DEF AsItSays, Serves
    <3> QED BY <3>1, <3>2 DEF AsItSays, TrueAt
  <2> QED BY <1>1, <1>6, <1>7, <1>8, <1>9, <2>1, <2>2, Starts
<1>12. CASE ~r.disabled
  <2>1. Start(p, "take", x, r, None, rows[x].mount)
    BY <1>5, <1>12
  <2>2. PICK f : /\ frame' = [frame EXCEPT ![p] = f] /\ frame'[p] = f
                 /\ MayHold(f) /\ f # Idle /\ f.step = "take" /\ f.row = r
                 /\ f.id = x /\ f.was = rows[x].mount
    BY <1>3, <1>4, <2>1, Begun DEF Steps, Loads, Initialized
  <2>3. Others(p)'
    BY <1>2, <1>4, <1>6, <2>2 DEF Others, Unique, Inv, Distinct
  <2>4. Object(p)'
    BY <1>12, <2>2 DEF Object, Loads, Initialized
  <2>5. x \notin hurt' => Place(p)'
    <3> SUFFICES ASSUME x \notin hurt PROVE Place(p)'
      BY <1>1
    <3>1. PICK k \in Mount : k = rows[x].mount
      BY <1>3
    <3>2. \A n \in Mount : Serves(n, x) <=> n = k
      BY <1>2, <1>4, <1>10, <1>12, <3>1 DEF AsItSays, Enabled
    <3>3. \A n \in Mount : Serves(n, x)' <=> n = k
      BY <1>1, <3>2 DEF Serves
    <3> QED BY <2>2, <3>1, <3>3 DEF Place, Loads, Initialized, Serves
  <2> QED BY <1>1, <1>6, <1>7, <1>8, <1>9, <2>2, <2>3, <2>4, <2>5, Starts
<1> QED BY <1>11, <1>12

-----------------------------------------------------------------------------
(* The loader.                                                             *)

\* The enabled rows are what the loader is to load.
LEMMA QueueFilled ==
  ASSUME DataTypes, Distinct, queue' = EnabledRows, UNCHANGED rows, \A p \in Proc : ~Busy(p)'
  PROVE  Queued' /\ queue' \subseteq (Id \X Row)
<1>1. \A e \in queue' : /\ e = <<e[1], rows[e[1]]>> /\ e[1] \in Id /\ e[2] = rows[e[1]]
                        /\ Enabled(e[1]) /\ e[2] \in Row
  BY Looks DEF EnabledRows, Enabled
<1>2. queue' \subseteq (Id \X Row)
  BY <1>1
<1>3. \A e \in queue' :
        /\ ~e[2].disabled
        /\ \A g \in queue' : g # e => g[1] # e[1] /\ g[2].mount # e[2].mount
        /\ Enabled(e[1])' /\ rows'[e[1]].mount = e[2].mount
        /\ \A y \in Id : y # e[1] /\ rows'[y] # None => rows'[y].mount # e[2].mount
  <2> SUFFICES ASSUME NEW e \in queue'
               PROVE  /\ ~e[2].disabled
                      /\ \A g \in queue' : g # e => g[1] # e[1] /\ g[2].mount # e[2].mount
                      /\ Enabled(e[1])' /\ rows'[e[1]].mount = e[2].mount
                      /\ \A y \in Id : y # e[1] /\ rows'[y] # None
                                       => rows'[y].mount # e[2].mount
    OBVIOUS
  <2>1. ~e[2].disabled /\ Enabled(e[1])' /\ rows'[e[1]].mount = e[2].mount
    BY <1>1 DEF Enabled
  <2>2. \A g \in queue' : g # e => g[1] # e[1]
    BY <1>1
  <2>3. \A y \in Id : y # e[1] /\ rows[y] # None => rows[y].mount # e[2].mount
    BY <1>1 DEF Distinct, Enabled
  <2>4. \A g \in queue' : g # e => g[2].mount # e[2].mount
    BY <1>1, <2>2, <2>3 DEF Enabled
  <2> QED BY <2>1, <2>2, <2>3, <2>4
<1> QED BY <1>2, <1>3 DEF Queued

\* LoadAllStorages: nothing changes before the loader's first turn.
LEMMA LoadAllKeeps ==
  ASSUME Inv, OneAdmin, NEW p \in Proc, LoadAll(p) PROVE Inv'
<1>1. /\ MayStart(p) /\ queue' = EnabledRows /\ loading' = "reload"
      /\ UNCHANGED <<rows, storagesMap, drv, frame, hurt>>
  BY DEF LoadAll
<1>2. /\ \A q \in Proc : ~Busy(q)
      /\ \A y \in Id : ~Waits(y) /\ (y \notin hurt => AsItSays(y))
  BY <1>1, Quietly
<1>3. \A q \in Proc : ~Busy(q)'
  BY <1>1, <1>2 DEF Busy
<1>4. Queued' /\ queue' \subseteq (Id \X Row)
  BY <1>1, <1>3, QueueFilled DEF Inv
<1>5. DataTypes' /\ FrameTypes' /\ Distinct' /\ Serving'
  BY <1>1, <1>4 DEF Inv, DataTypes, FrameTypes, Distinct, Serving
<1>6. Turn' /\ Working'
  BY <1>1, <1>3 DEF Turn, Working, Proc
<1>7. Settled'
  BY <1>1, <1>2, Untouched DEF Inv, Settled
<1> QED BY <1>4, <1>5, <1>6, <1>7 DEF Inv

\* The process starts again: what is enabled waits for the loader.
LEMMA RestartKeeps ==
  ASSUME Inv, Restart PROVE Inv'
<1>1. /\ storagesMap' = [m \in Mount |-> None] /\ drv' = [i \in Inst |-> Blank]
      /\ frame' = [p \in Proc |-> Idle] /\ queue' = EnabledRows /\ loading' = "boot"
      /\ hurt' = {} /\ UNCHANGED rows
  BY DEF Restart
<1>2. \A q \in Proc : ~Busy(q)' /\ frame'[q] = Idle
  BY <1>1 DEF Busy, Idle
<1>3. Queued' /\ queue' \subseteq (Id \X Row)
  BY <1>1, <1>2, QueueFilled DEF Inv
<1>4. DataTypes' /\ Distinct' /\ Serving'
  BY <1>1, <1>3 DEF Inv, DataTypes, Distinct, Serving
<1>5. FrameTypes'
  <2>1. "idle" \notin Loads /\ Idle.step = "idle"
    BY DEF Loads, Initialized, Idle
  <2> QED BY <1>1, <1>2, <2>1 DEF FrameTypes
<1>6. Turn' /\ Working'
  BY <1>1, <1>2 DEF Turn, Working, Proc
<1>7. ASSUME NEW y \in Id PROVE AsItSays(y)'
  <2>1. \A m \in Mount : ~Serves(m, y)'
    BY <1>1 DEF Serves
  <2>2. Enabled(y)' => Waits(y)'
    <3> SUFFICES ASSUME Enabled(y)' PROVE Waits(y)'
      OBVIOUS
    <3>1. Enabled(y)
      BY <1>1 DEF Enabled
    <3>2. <<y, rows[y]>> \in queue'
      BY <1>1, <3>1 DEF EnabledRows
    <3>3. \E e \in queue' : e[1] = y
      BY <3>2
    <3> QED BY <1>1, <3>3 DEF Waits
  <2> QED BY <2>1, <2>2 DEF AsItSays, TrueAt
<1>8. Settled'
  BY <1>7 DEF Settled
<1> QED BY <1>3, <1>4, <1>5, <1>6, <1>8 DEF Inv

\* The loader has finished: nothing waits for it.
LEMMA LoadDoneKeeps ==
  ASSUME Inv, LoadDone PROVE Inv'
<1>1. /\ loading # "no" /\ queue = {} /\ ~Busy(Loader) /\ loading' = "no"
      /\ UNCHANGED <<rows, storagesMap, drv, frame, queue, hurt>>
  BY DEF LoadDone, At, Busy
<1>2. \A q \in Proc : ~Busy(q) /\ ~Busy(q)'
  BY <1>1 DEF Inv, Turn, Busy, Proc
<1>3. DataTypes' /\ FrameTypes' /\ Distinct' /\ Serving'
  BY <1>1 DEF Inv, DataTypes, FrameTypes, Distinct, Serving
<1>4. Turn' /\ Working' /\ Queued'
  BY <1>1, <1>2 DEF Turn, Working, Queued, Proc
<1>5. \A y \in Id \ hurt : AsItSays(y)
  BY <1>2 DEF Inv, Settled, Worked
<1>6. \A y \in Id : ~Waits(y)
  BY <1>1 DEF Waits
<1>7. Settled'
  BY <1>1, <1>5, <1>6, Untouched DEF Inv, Settled
<1> QED BY <1>3, <1>4, <1>7 DEF Inv

\* A turn of the loader's loop takes a row whose paths and driver are nobody else's.
LEMMA TakesRow ==
  ASSUME Inv, ~Busy(Loader), loading # "no", NEW e \in queue
  PROVE  /\ e[1] \in Id /\ e[2] \in Row /\ e[2].mount \in Mount /\ ~e[2].disabled
         /\ \A q \in Proc : ~Busy(q)
         /\ \A y \in Id : y \notin hurt => AsItSays(y)
         /\ e[1] \notin hurt => Enabled(e[1]) /\ rows[e[1]].mount = e[2].mount
         /\ \A y \in Id \ hurt : y # e[1] /\ rows[y] # None => rows[y].mount # e[2].mount
         /\ frame[Loader] = Idle /\ frame = [frame EXCEPT ![Loader] = Idle]
<1>1. e[1] \in Id /\ e[2] \in Row /\ e[2].mount \in Mount
  BY DEF Inv, DataTypes, Row
<1>2. \A q \in Proc : ~Busy(q)
  BY DEF Inv, Turn, Proc
<1>3. \A y \in Id : y \notin hurt => AsItSays(y)
  BY <1>2 DEF Inv, Settled, Worked
<1>4. frame[Loader] = Idle /\ frame = [frame EXCEPT ![Loader] = Idle]
  BY DEF Inv, FrameTypes, Busy, Proc
<1> QED BY <1>1, <1>2, <1>3, <1>4 DEF Inv, Queued

\* The rest of the queue is as it was.
LEMMA LoaderStep ==
  ASSUME Inv, ~Busy(Loader), loading # "no", NEW e \in queue, queue' = queue \ {e},
         NEW f, MayHold(f),
         f # Idle => f.id = e[1] /\ f.row.mount = e[2].mount /\ f.was = e[2].mount,
         frame' = [frame EXCEPT ![Loader] = f],
         UNCHANGED <<rows, loading>>, DataTypes', Serving',
         hurt' = hurt \/ hurt' = hurt \cup {e[1]},
         \A y \in Id \ hurt : y # e[1] /\ AsItSays(y) => AsItSays(y)',
         f # Idle => Object(Loader)' /\ (e[1] \notin hurt' => Place(Loader)'),
         f = Idle => e[1] \in hurt' \/ AsItSays(e[1])'
  PROVE  Inv'
<1>1. /\ e[1] \in Id /\ \A q \in Proc : ~Busy(q)
      /\ \A y \in Id \ hurt : y # e[1] /\ rows[y] # None => rows[y].mount # e[2].mount
  BY TakesRow
<1>2. /\ Loader \in Proc /\ Loader \notin Admin /\ frame'[Loader] = f
      /\ \A q \in Proc \ {Loader} : frame'[q] = frame[q]
  BY ProcAssumption DEF Inv, FrameTypes, Proc
<1>3. Turn'
  BY <1>1, <1>2 DEF Turn, Busy, Proc
<1>4. Distinct'
  BY DEF Inv, Distinct
<1>5. \A q \in Proc : Busy(q)' => q = Loader /\ f # Idle
  BY <1>1, <1>2 DEF Busy, Idle
<1>6. Queued'
  <2> SUFFICES ASSUME NEW g \in queue, g # e
               PROVE  /\ ~g[2].disabled
                      /\ \A h \in queue : h # g => h[1] # g[1] /\ h[2].mount # g[2].mount
                      /\ \A q \in Proc : Busy(q)' =>
                           /\ frame'[q].id # g[1] /\ g[2].mount # frame'[q].row.mount
                           /\ g[2].mount # frame'[q].was
                      /\ g[1] \notin hurt' => Enabled(g[1])' /\ rows'[g[1]].mount = g[2].mount
                      /\ \A y \in Id \ hurt' : y # g[1] /\ rows'[y] # None
                                               => rows'[y].mount # g[2].mount
    BY DEF Queued
  <2>1. /\ ~g[2].disabled
        /\ \A h \in queue : h # g => h[1] # g[1] /\ h[2].mount # g[2].mount
        /\ g[1] \notin hurt => Enabled(g[1]) /\ rows[g[1]].mount = g[2].mount
        /\ \A y \in Id \ hurt : y # g[1] /\ rows[y] # None => rows[y].mount # g[2].mount
    BY DEF Inv, Queued
  <2>2. e[1] # g[1] /\ e[2].mount # g[2].mount
    BY <2>1
  <2> QED BY <1>2, <1>5, <2>1, <2>2 DEF Enabled
<1>7. f # Idle => Others(Loader)'
  BY <1>1, <1>2 DEF Others
<1>8. hurt \subseteq hurt' /\ (Busy(Loader) => frame[Loader].id = e[1])
      /\ \A q \in Proc \ {Loader} : ~Busy(q)
  BY <1>1
<1>9. /\ \A y \in Id \ hurt' : y # e[1] /\ AsItSays(y) => AsItSays(y)'
      /\ f # Idle => Others(Loader)' /\ Object(Loader)' /\ (e[1] \notin hurt' => Place(Loader)')
  BY <1>7
<1> QED BY <1>1, <1>2, <1>3, <1>4, <1>6, <1>8, <1>9, OneStep

\* The frame of a row that is being loaded, with a new driver.
LEMMA Loading ==
  ASSUME Inv, ~Busy(Loader), loading # "no", NEW e \in queue, NEW i \in Inst, Load(e, i),
         UNCHANGED <<rows, storagesMap>>, \A j \in Inst : drv'[j].id = drv[j].id
  PROVE  \E f : /\ frame' = [frame EXCEPT ![Loader] = f] /\ MayHold(f) /\ f # Idle
                /\ f.id = e[1] /\ f.row.mount = e[2].mount /\ f.was = e[2].mount
                /\ Object(Loader)' /\ (e[1] \notin hurt => Place(Loader)')
<1>1. /\ e[1] \in Id /\ e[2] \in Row /\ e[2].mount \in Mount /\ ~e[2].disabled
      /\ \A y \in Id : y \notin hurt => AsItSays(y)
      /\ e[1] \notin hurt => Enabled(e[1]) /\ rows[e[1]].mount = e[2].mount
  BY TakesRow
<1>2. /\ Start(Loader, "init", e[1], e[2], i, e[2].mount)
      /\ i # None /\ Loader \in Proc /\ \A m \in Mount : storagesMap[m] # i
  BY ProcAssumption DEF Load, Proc, Fresh
<1>3. PICK f : /\ frame' = [frame EXCEPT ![Loader] = f] /\ frame'[Loader] = f
               /\ MayHold(f) /\ f # Idle /\ f.step = "init" /\ f.inst = i /\ f.row = e[2]
               /\ f.id = e[1] /\ f.was = e[2].mount
  BY <1>1, <1>2, Begun DEF Steps
<1>4. Object(Loader)'
  <2>1. "init" \notin Initialized /\ "init" \in Loads
    BY DEF Loads, Initialized
  <2>2. \A m \in Mount : storagesMap'[m] # frame'[Loader].inst
    BY <1>2, <1>3
  <2> QED BY <1>1, <1>3, <2>1, <2>2 DEF Object
<1>5. e[1] \notin hurt => Place(Loader)'
  <2> SUFFICES ASSUME e[1] \notin hurt PROVE Place(Loader)'
    OBVIOUS
  <2>1. \A m \in Mount : Serves(m, e[1]) => m = e[2].mount
    BY <1>1 DEF AsItSays
  <2>2. \A m \in Mount : Serves(m, e[1])' => m = e[2].mount
    BY <2>1, Looks DEF Inv, Serves
  <2> QED BY <1>3, <2>2 DEF Place, Loads, Initialized, Serves
<1> QED BY <1>3, <1>4, <1>5

\* LoadStorages.
LEMMA LoadNextKeeps ==
  ASSUME Inv, LoadNext PROVE Inv'
<1>1. ~Busy(Loader) /\ loading # "no" /\ UNCHANGED <<rows, storagesMap, drv, loading, hurt>>
  BY DEF LoadNext, At, Busy
<1>2. PICK e \in queue, i \in Inst : Load(e, i) /\ queue' = queue \ {e}
  BY DEF LoadNext
<1>3. PICK f : /\ frame' = [frame EXCEPT ![Loader] = f] /\ MayHold(f) /\ f # Idle
               /\ f.id = e[1] /\ f.row.mount = e[2].mount /\ f.was = e[2].mount
               /\ Object(Loader)' /\ (e[1] \notin hurt => Place(Loader)')
  BY <1>1, <1>2, Loading
<1>4. DataTypes' /\ Serving'
  BY <1>1, <1>2 DEF Inv, DataTypes, Serving
<1>5. \A y \in Id : y # e[1] /\ Waits(y) => Waits(y)'
  BY <1>1, <1>2 DEF Waits
<1>6. \A y \in Id \ hurt : y # e[1] /\ AsItSays(y) => AsItSays(y)'
  BY <1>1, <1>5, Untouched DEF Inv
<1> QED BY <1>1, <1>2, <1>3, <1>4, <1>6, LoaderStep

\* LoadAllStorages: the old driver is dropped before its row is loaded.
LEMMA ReloadNextKeeps ==
  ASSUME Inv, ReloadNext PROVE Inv'
<1>1. ~Busy(Loader) /\ loading = "reload" /\ UNCHANGED <<rows, storagesMap, loading>>
  BY DEF ReloadNext, At, Busy
<1>2. PICK e \in queue, i \in Inst :
       /\ queue' = queue \ {e}
       /\ LET old == storagesMap[e[2].mount] IN
            \/ old = None /\ UNCHANGED <<drv, frame, hurt>>
            \/ old # None /\ Drop(old) /\ Load(e, i) /\ UNCHANGED hurt
            \/ old # None /\ (Drop(old) \/ UNCHANGED drv) /\ Hurt(e[1]) /\ UNCHANGED frame
  BY DEF ReloadNext
<1>3. /\ e[1] \in Id /\ e[2].mount \in Mount
      /\ \A y \in Id : y \notin hurt => AsItSays(y)
      /\ \A y \in Id \ hurt : y # e[1] /\ rows[y] # None => rows[y].mount # e[2].mount
      /\ frame = [frame EXCEPT ![Loader] = Idle] /\ MayHold(Idle)
  BY <1>1, TakesRow DEF MayHold
<1>4. PICK k \in Mount, x \in Id : k = e[2].mount /\ x = e[1]
  BY <1>3
<1>5. \A y \in Id : ~Waits(y)
  BY <1>1 DEF Waits
<1>6. CASE storagesMap[k] = None /\ UNCHANGED <<drv, frame, hurt>>
  <2>1. DataTypes' /\ Serving'
    BY <1>1, <1>2, <1>6 DEF Inv, DataTypes, Serving
  <2>2. \A y \in Id \ hurt : AsItSays(y) => AsItSays(y)'
    BY <1>1, <1>5, <1>6, Untouched DEF Inv
  <2>3. x \in hurt' \/ AsItSays(x)'
    BY <1>3, <1>6, <2>2
  <2>4. e[1] \in hurt' \/ AsItSays(e[1])'
    BY <1>4, <2>3 DEF AsItSays, Serves, Enabled, TrueAt, Waits
  <2>5. frame' = [frame EXCEPT ![Loader] = Idle]
    BY <1>3, <1>6
  <2> QED BY <1>1, <1>2, <1>3, <1>6, <2>1, <2>2, <2>4, <2>5, LoaderStep
<1>7. CASE storagesMap[k] # None
  <2>1. PICK old \in Inst : old = storagesMap[k]
    BY <1>7, Looks DEF Inv
  <2>2. Drop(old) \/ UNCHANGED drv
    BY <1>2, <1>4, <1>7, <2>1
  <2>3. \A y \in Id \ hurt : y # x /\ rows[y] # None => rows[y].mount # k
    BY <1>3, <1>4
  <2>4. /\ Serving' /\ drv' \in [Inst -> Driver \cup {Blank}]
        /\ \A j \in Inst : drv'[j].id = drv[j].id
        /\ \A y \in Id \ hurt : y # x /\ AsItSays(y) => AsItSays(y)'
    BY <1>1, <1>5, <2>1, <2>2, <2>3, DropsThere DEF Inv
  <2>5. CASE Load(e, i) /\ UNCHANGED hurt
    <3>1. PICK f : /\ frame' = [frame EXCEPT ![Loader] = f] /\ MayHold(f) /\ f # Idle
                   /\ f.id = e[1] /\ f.row.mount = e[2].mount /\ f.was = e[2].mount
                   /\ Object(Loader)' /\ (e[1] \notin hurt => Place(Loader)')
      BY <1>1, <2>4, <2>5, Loading
    <3>2. DataTypes'
      BY <1>1, <1>2, <2>4, <2>5 DEF Inv, DataTypes
    <3>3. e[1] \notin hurt' => Place(Loader)'
      BY <2>5, <3>1
    <3> QED BY <1>1, <1>2, <1>4, <2>4, <2>5, <3>1, <3>2, <3>3, LoaderStep
  <2>6. CASE Hurt(e[1]) /\ UNCHANGED frame
    <3>1. DataTypes'
      BY <1>1, <1>2, <1>3, <2>4, <2>6 DEF Inv, DataTypes, Hurt
    <3>2. hurt' = hurt \cup {e[1]} /\ e[1] \in hurt'
      BY <2>6 DEF Hurt
    <3>3. frame' = [frame EXCEPT ![Loader] = Idle]
      BY <1>3, <2>6
    <3> QED BY <1>1, <1>2, <1>3, <1>4, <2>4, <3>1, <3>2, <3>3, LoaderStep
  <2> QED BY <1>2, <1>4, <1>7, <2>5, <2>6
<1> QED BY <1>2, <1>4, <1>6, <1>7

-----------------------------------------------------------------------------
(* A driver saves its copy on its own.                                     *)

\* Where a driver of an unhurt storage is in service while its storage is worked on.
LEMMA WorkedAt ==
  ASSUME Inv, NEW p \in Proc, Busy(p), NEW x \in Id \ hurt, frame[p].id = x,
         NEW m \in Mount, Serves(m, x)
  PROVE  /\ m = frame[p].row.mount \/ m = frame[p].was
         /\ frame[p].step = "panicStore" => m = frame[p].row.mount
         /\ frame[p].step = "unmount" => ~drv[storagesMap[m]].live
<1>1. Place(p) /\ frame[p] \in Frame
  BY Holding
<1>2. /\ frame[p].step \in {"take", "deleteRow", "disableRow", "unmount"} \cup Loads
      /\ frame[p].step = "panicStore" => frame[p].step \in Loads
  BY <1>1 DEF Frame, Steps, Loads, Initialized, Busy
<1> QED BY <1>1, <1>2 DEF Place

\* MustSaveDriverStorage of a driver in service writes what is the row already, or the
\* administrator has been told.
LEMMA DriverSaveKeeps ==
  ASSUME Inv, OneAdmin, DriverSave PROVE Inv'
<1>1. UNCHANGED <<storagesMap, drv, frame, queue, loading>>
  BY DEF DriverSave
<1>2. PICK m \in Mount : /\ storagesMap[m] # None /\ drv[storagesMap[m]].live
                         /\ Persist(storagesMap[m], drv[storagesMap[m]].status)
  BY DEF DriverSave
<1>3. PICK i \in Inst : i = storagesMap[m]
  BY <1>2, Looks DEF Inv
<1>4. drv[i] \in Driver /\ drv[i].mount = m /\ ~drv[i].disabled
  BY <1>2, <1>3 DEF Inv, Serving
<1>5. PICK x \in Id : x = drv[i].id
  BY <1>4 DEF Driver
<1> DEFINE r == [mount |-> m, disabled |-> drv[i].disabled, status |-> drv[i].status]
<1>6. \/ Unique(x, m) /\ SaveRow(x, r) /\ UNCHANGED hurt
      \/ Hurt(x) /\ UNCHANGED rows
  BY <1>2, <1>3, <1>4, <1>5 DEF Persist
<1>7. r \in Row /\ r.mount = m /\ ~r.disabled /\ r # None
  BY <1>4, RowAssumption DEF Row, Driver
<1> HIDE DEF r
<1>8. /\ hurt \subseteq hurt' /\ hurt' \subseteq Id
      /\ \A y \in Id \ {x} : rows'[y] = rows[y]
      /\ rows'[x] = rows[x] \/ (rows'[x] = r /\ Unique(x, m))
      /\ x \notin hurt' => rows'[x] = r
      /\ rows' \in [Id -> Row \cup {None}]
  BY <1>6, <1>7 DEF SaveRow, Hurt, Inv, DataTypes
<1>9. Serves(m, x)
  BY <1>2, <1>3, <1>5 DEF Serves
<1>10. \A p \in Proc : Busy(p)' <=> Busy(p)
  BY <1>1 DEF Busy
<1>11. \A y \in Id, n \in Mount : Serves(n, y)' <=> Serves(n, y)
  BY <1>1 DEF Serves
<1>12. ASSUME x \notin hurt, ~Worked(x)
       PROVE  AsItSays(x) /\ rows[x] # None /\ rows[x].mount = m
  <2>1. AsItSays(x)
    BY <1>12 DEF Inv, Settled
  <2> QED BY <1>9, <2>1, ServedThere
<1>13. /\ DataTypes' /\ FrameTypes' /\ Turn' /\ Distinct' /\ Serving'
  <2>1. DataTypes' /\ Serving'
    BY <1>1, <1>8 DEF Inv, DataTypes, Serving
  <2>2. FrameTypes'
    BY <1>1 DEF Inv, FrameTypes
  <2>3. Turn'
    BY <1>1 DEF Inv, Turn, Busy
  <2>4. Distinct'
    BY <1>7, <1>8 DEF Inv, Distinct, Unique
  <2> QED BY <2>1, <2>2, <2>3, <2>4
<1>14. Working'
  <2> SUFFICES ASSUME NEW p \in Proc, Busy(p)
               PROVE  Others(p)' /\ Object(p)' /\ (frame'[p].id \notin hurt' => Place(p)')
    BY <1>10 DEF Working, Work
  <2>1. Others(p) /\ Object(p) /\ (frame[p].id \notin hurt => Place(p))
    BY Holding
  <2>2. \A q \in Proc \ {p} : ~Busy(q)
    BY Alone
  <2>3. Others(p)'
    <3> SUFFICES ASSUME NEW y \in Id \ hurt', y # frame[p].id, rows'[y] # None
                 PROVE  rows'[y].mount # frame[p].row.mount /\ rows'[y].mount # frame[p].was
      BY <1>1 DEF Others
    <3>1. CASE y # x
      BY <1>8, <2>1, <3>1 DEF Others
    <3>2. CASE y = x
      <4>1. ~Worked(x) /\ x \notin hurt
        BY <1>8, <2>2, <3>2 DEF Worked
      <4>2. rows[x] # None /\ rows[x].mount = m /\ rows'[x].mount = m
        BY <1>7, <1>8, <1>12, <4>1
      <4> QED BY <1>8, <2>1, <3>2, <4>2 DEF Others
    <3> QED BY <3>1, <3>2
  <2>4. Object(p)'
    BY <1>1, <2>1 DEF Object
  <2>5. frame'[p].id \notin hurt' => Place(p)'
    <3> SUFFICES ASSUME frame[p].id \notin hurt' PROVE Place(p)'
      BY <1>1
    <3>1. PICK w \in Id : w = frame[p].id
      BY Holding
    <3>2. Place(p) /\ w \notin hurt
      BY <1>8, <2>1, <3>1
    <3>3. /\ frame[p].step = "panicStore" => Enabled(w)' /\ rows'[w].mount = frame[p].row.mount
          /\ frame[p].step = "unmount" => ~Enabled(w)'
      <4>1. CASE w # x
        BY <1>8, <3>1, <3>2, <4>1 DEF Place, Enabled
      <4>2. CASE w = x
        <5>1. /\ frame[p].step = "panicStore" => m = frame[p].row.mount
              /\ frame[p].step # "unmount"
          BY <1>2, <1>9, <3>1, <3>2, <4>2, WorkedAt
        <5> QED BY <1>7, <1>8, <3>1, <4>2, <5>1 DEF Enabled
      <4> QED BY <4>1, <4>2
    <3>4. /\ frame[p].step = "take" => \A n \in Mount : Serves(n, w)' <=> n = frame[p].was
          /\ frame[p].step \in Loads \cup {"disableRow", "unmount"} =>
               \A n \in Mount : Serves(n, w)' => n = frame[p].row.mount
          /\ frame[p].step \in {"disableRow", "unmount"} =>
               \A n \in Mount : Serves(n, w)' => ~drv'[storagesMap'[n]].live
          /\ frame[p].step = "deleteRow" => \A n \in Mount : ~Serves(n, w)'
      BY <1>1, <1>11, <3>1, <3>2 DEF Place
    <3>5. frame' = frame
      BY <1>1
    <3> QED BY <3>1, <3>3, <3>4, <3>5 DEF Place, Serves, Enabled
  <2> QED BY <2>3, <2>4, <2>5
<1>15. Settled'
  <2> SUFFICES ASSUME NEW y \in Id \ hurt', ~Worked(y) PROVE AsItSays(y)'
    BY <1>1, <1>10 DEF Settled, Worked
  <2>1. AsItSays(y)
    BY <1>8 DEF Inv, Settled
  <2>2. CASE y # x
    BY <1>1, <1>8, <2>1, <2>2, Untouched DEF Inv, Waits
  <2>3. CASE y = x
    <3>1. /\ rows[x].mount = m /\ \A n \in Mount : Serves(n, x) => n = m
      BY <1>8, <1>12, <2>1, <2>3 DEF AsItSays
    <3>2. Enabled(x)' /\ rows'[x].mount = m
      BY <1>7, <1>8, <2>3 DEF Enabled
    <3>3. TrueAt(x)'
      BY <1>1, <1>11, <2>1, <2>3 DEF AsItSays, TrueAt
    <3>4. AsItSays(x)'
      BY <1>9, <1>11, <3>1, <3>2, <3>3 DEF AsItSays, Serves
    <3> QED BY <2>3, <3>4 DEF AsItSays, Serves, Enabled, TrueAt, Waits
  <2> QED BY <2>2, <2>3
<1>16. Queued'
  <2> SUFFICES ASSUME NEW e \in queue
               PROVE  /\ ~e[2].disabled
                      /\ \A g \in queue : g # e => g[1] # e[1] /\ g[2].mount # e[2].mount
                      /\ \A q \in Proc : Busy(q) =>
                           /\ frame[q].id # e[1] /\ e[2].mount # frame[q].row.mount
                           /\ e[2].mount # frame[q].was
                      /\ e[1] \notin hurt' => Enabled(e[1])' /\ rows'[e[1]].mount = e[2].mount
                      /\ \A y \in Id \ hurt' : y # e[1] /\ rows'[y] # None
                                               => rows'[y].mount # e[2].mount
    BY <1>1, <1>10 DEF Queued
  <2>1. /\ ~e[2].disabled /\ e[1] \in Id
        /\ \A g \in queue : g # e => g[1] # e[1] /\ g[2].mount # e[2].mount
        /\ \A q \in Proc : Busy(q) =>
             /\ frame[q].id # e[1] /\ e[2].mount # frame[q].row.mount
             /\ e[2].mount # frame[q].was
        /\ e[1] \notin hurt => Enabled(e[1]) /\ rows[e[1]].mount = e[2].mount
        /\ \A y \in Id \ hurt : y # e[1] /\ rows[y] # None => rows[y].mount # e[2].mount
    BY DEF Inv, Queued, DataTypes
  <2>2. e[1] \notin hurt' => Enabled(e[1])' /\ rows'[e[1]].mount = e[2].mount
    <3>1. CASE e[1] # x
      BY <1>8, <2>1, <3>1 DEF Enabled
    <3>2. CASE e[1] = x
      <4> SUFFICES ASSUME x \notin hurt' PROVE Enabled(e[1])' /\ rows'[e[1]].mount = e[2].mount
        BY <3>2
      <4>1. ~Worked(x) /\ x \notin hurt
        BY <1>8, <2>1, <3>2 DEF Worked
      <4>2. e[2].mount = m
        BY <1>12, <2>1, <3>2, <4>1
      <4> QED BY <1>7, <1>8, <3>2, <4>2 DEF Enabled
    <3> QED BY <3>1, <3>2
  <2>3. ASSUME NEW y \in Id \ hurt', y # e[1], rows'[y] # None
        PROVE  rows'[y].mount # e[2].mount
    <3>1. CASE y # x
      BY <1>8, <2>1, <2>3, <3>1
    <3>2. CASE y = x
      <4>1. rows'[x].mount = m /\ x \notin hurt
        BY <1>7, <1>8, <3>2
      <4>2. CASE Worked(x)
        <5>1. PICK p \in Proc : Busy(p) /\ frame[p].id = x
          BY <4>2 DEF Worked
        <5>2. m = frame[p].row.mount \/ m = frame[p].was
          BY <1>9, <4>1, <5>1, WorkedAt
        <5> QED BY <2>1, <3>2, <4>1, <5>1, <5>2
      <4>3. CASE ~Worked(x)
        BY <1>12, <2>1, <2>3, <3>2, <4>1, <4>3
      <4> QED BY <4>2, <4>3
    <3> QED BY <3>1, <3>2
  <2> QED BY <2>1, <2>2, <2>3
<1> QED BY <1>13, <1>14, <1>15, <1>16 DEF Inv

-----------------------------------------------------------------------------
(* The invariant holds.                                                    *)

\* An empty table and nobody at work.
LEMMA InvInit == ASSUME Init PROVE Inv
<1>1. \A p \in Proc : frame[p] = Idle /\ ~Busy(p)
  BY DEF Init, Busy, Idle
<1>2. DataTypes
  BY DEF Init, DataTypes, Blank
<1>3. FrameTypes
  <2>1. "idle" \notin Loads /\ Idle.step = "idle"
    BY DEF Loads, Initialized, Idle
  <2> QED BY <1>1, <2>1 DEF Init, FrameTypes
<1>4. Turn /\ Working /\ Distinct /\ Serving /\ Queued
  BY <1>1 DEF Init, Turn, Working, Distinct, Serving, Queued, Proc
<1>5. Settled
  BY DEF Init, Settled, AsItSays, Serves, Enabled, TrueAt
<1> QED BY <1>2, <1>3, <1>4, <1>5 DEF Inv

\* Every step keeps it.
LEMMA InvNext ==
  ASSUME Inv, OneAdmin, [Next]_vars PROVE Inv'
<1>1. ASSUME NEW p \in Proc, Request(p) PROVE Inv'
  BY <1>1, CreateKeeps, EnableKeeps, DisableKeeps, UpdateKeeps, DeleteKeeps, LoadAllKeeps
     DEF Request
<1>2. ASSUME NEW p \in Proc, Continue(p) PROVE Inv'
  BY <1>2, DisableRowKeeps, UnmountKeeps, UpdateTakeKeeps, UpdateDropKeeps, DeleteRowKeeps,
     InitDriverKeeps, StoreDriverKeeps, SaveStatusKeeps, PanicSaveKeeps, PanicStoreKeeps
     DEF Continue
<1>3. CASE UNCHANGED vars
  <2>1. /\ DataTypes' /\ FrameTypes' /\ Turn' /\ Distinct' /\ Serving' /\ Queued'
    BY <1>3 DEF vars, Inv, DataTypes, FrameTypes, Turn, Distinct, Serving, Queued, Busy, Enabled
  <2>2. Working'
    BY <1>3 DEF vars, Inv, Working, Work, Others, Object, Place, Busy, Serves, Enabled
  <2>3. Settled'
    BY <1>3 DEF vars, Inv, Settled, AsItSays, Serves, Enabled, TrueAt, Waits, Worked, Busy
  <2> QED BY <2>1, <2>2, <2>3 DEF Inv
<1> QED BY <1>1, <1>2, <1>3, DriverSaveKeeps, LoadNextKeeps, ReloadNextKeeps, LoadDoneKeeps,
           RestartKeeps DEF Next

\* With one administrator it always holds.
LEMMA Inductive == ASSUME OneAdmin PROVE Spec => []Inv
<1>1. Init => Inv
  BY InvInit
<1>2. Inv /\ [Next]_vars => Inv'
  BY InvNext
<1> QED BY <1>1, <1>2, PTL DEF Spec

-----------------------------------------------------------------------------
(* Theorems.                                                               *)

\* The types, and what a frame holds at each step of an operation.
THEOREM Types == ASSUME OneAdmin PROVE Spec => []TypeOK
<1>1. Inv => TypeOK
  BY DEF Inv, DataTypes, FrameTypes, TypeOK, Loads, Initialized
<1> QED BY <1>1, Inductive, PTL

\* What the administrator was not told about did not happen: for any number of storages,
\* whatever fails or panics and wherever the process dies, once no request runs, a storage
\* no error was answered for is in service at its row's path and nowhere else exactly when
\* the row is enabled.
THEOREM NoDivergence == ASSUME OneAdmin PROVE Spec => []NoSilentDivergence
<1>1. ASSUME Inv, Quiet, NEW x \in Id \ hurt
      PROVE  MountedAt(x) = IF Enabled(x) THEN {rows[x].mount} ELSE {}
  <2>1. ~Worked(x) /\ ~Waits(x)
    BY <1>1 DEF Quiet, Worked, Busy, Waits
  <2>2. AsItSays(x)
    BY <1>1, <2>1 DEF Inv, Settled
  <2>3. CASE Enabled(x)
    <3>1. PICK m \in Mount : m = rows[x].mount
      BY <1>1, <2>3, Looks DEF Inv, Enabled, Row
    <3>2. \A n \in Mount : Serves(n, x) <=> n = m
      BY <2>1, <2>2, <2>3, <3>1 DEF AsItSays
    <3> QED BY <2>3, <3>1, <3>2 DEF MountedAt, Serves
  <2>4. CASE ~Enabled(x)
    BY <2>2, <2>4 DEF AsItSays, MountedAt, Serves
  <2> QED BY <2>3, <2>4
<1>2. Inv => NoSilentDivergence
  BY <1>1 DEF NoSilentDivergence
<1> QED BY <1>2, Inductive, PTL

\* And its driver's status is true: "work" is an initialized driver, and no other is.
THEOREM TrueStatus == ASSUME OneAdmin PROVE Spec => []StatusIsTrue
<1>1. ASSUME Inv, Quiet, NEW x \in Id \ hurt, NEW m \in MountedAt(x)
      PROVE  (drv[storagesMap[m]].status = "work") <=> drv[storagesMap[m]].live
  <2>1. ~Worked(x)
    BY <1>1 DEF Quiet, Worked, Busy
  <2>2. TrueAt(x)
    BY <1>1, <2>1 DEF Inv, Settled, AsItSays
  <2> QED BY <1>1, <2>2 DEF TrueAt, True, MountedAt, Serves
<1>2. Inv => StatusIsTrue
  BY <1>1 DEF StatusIsTrue
<1> QED BY <1>2, Inductive, PTL

\* The path a driver is in service at is the path of its record, at every moment.
THEOREM KeyTheorem == ASSUME OneAdmin PROVE Spec => []KeyIsRecord
<1>1. Inv => KeyIsRecord
  BY DEF Inv, Serving, KeyIsRecord
<1> QED BY <1>1, Inductive, PTL
=============================================================================

--------------------------- MODULE StorageManager ---------------------------
(***************************************************************************)
(* The storage manager: internal/op/storage.go with the rows of            *)
(* internal/db/storage.go, the requests of server/handles/storage.go and   *)
(* the loaders of internal/bootstrap/storage.go and LoadAllStorages.       *)
(*                                                                         *)
(* A storage is a row in the database and, while it is in service, a       *)
(* driver in `storagesMap' that carries its own copy of the row.  Every    *)
(* operation changes the two in several steps and any of them may fail;    *)
(* nothing is locked between the steps.  A process is an administrator's   *)
(* request or the loader goroutine; its frame says how far it is.          *)
(***************************************************************************)
EXTENDS Naturals, Sequences, FiniteSets

CONSTANTS
  Admin,        \* the administrators, each with one request at a time
  Loader,       \* the goroutine of LoadStorages and LoadAllStorages
  Id,           \* primary keys of the storage table
  Mount,        \* mount paths
  Inst,         \* driver objects
  None,
  Reload        \* whether an administrator uses LoadAllStorages

ASSUME ProcAssumption == Loader \notin Admin /\ None \notin Id \cup Mount \cup Inst

VARIABLES
  rows,         \* the table: the row of each id, or None
  storagesMap,  \* the driver in service at each mount path, or None
  drv,          \* each driver object's copy of its row, and whether it is initialized
  frame,        \* what each process is doing
  queue,        \* rows the loader has still to load
  loading,      \* "no" while conf.StoragesLoaded, else which loader is at work
  hurt          \* history: ids an error was answered or logged for, after a change

vars == <<rows, storagesMap, drv, frame, queue, loading, hurt>>

Proc == Admin \cup {Loader}
Statuses == {"", "work", "disabled", "failed"}

Row == [mount : Mount, disabled : BOOLEAN, status : Statuses]
ASSUME RowAssumption == None \notin Row
Blank == [id |-> None, mount |-> None, disabled |-> FALSE, status |-> "", live |-> FALSE]
Driver == [id : Id, mount : Mount, disabled : BOOLEAN, status : Statuses, live : BOOLEAN]
Steps == {"idle", "take", "drop", "init", "store", "save", "panicSave", "panicStore",
          "disableRow", "unmount", "deleteRow"}
Idle == [step |-> "idle", id |-> None, row |-> None, inst |-> None, was |-> None]
Frame == [step : Steps, id : Id, row : Row, inst : Inst \cup {None}, was : Mount]

Init ==
  /\ rows = [id \in Id |-> None]
  /\ storagesMap = [m \in Mount |-> None]
  /\ drv = [i \in Inst |-> Blank]
  /\ frame = [p \in Proc |-> Idle]
  /\ queue = {} /\ loading = "no" /\ hurt = {}

-----------------------------------------------------------------------------
\* The column mount_path is unique: a write that repeats another row's path fails.
Unique(id, m) == \A x \in Id \ {id} : rows[x] # None => rows[x].mount # m

\* db.UpdateStorage is a Save: the row is replaced, and put back if it is gone.
SaveRow(id, r) == rows' = [rows EXCEPT ![id] = r]

\* The rows an administrator's request may find, behind the check that the
\* storages are loaded (middlewares.StoragesLoaded).
MayStart(p) == p \in Admin /\ frame[p].step = "idle" /\ loading = "no"

GoTo(p, f) == frame' = [frame EXCEPT ![p] = f]
At(p, step) == frame[p].step = step
Next2(p, step) == frame' = [frame EXCEPT ![p].step = step]
Done(p) == GoTo(p, Idle)
Hurt(id) == hurt' = hurt \cup {id}
\* The request ends with an error after it has changed something.
GiveUp(p) == Done(p) /\ Hurt(frame[p].id)

\* A driver object nobody refers to: driverNew().
Fresh(i) ==
  /\ \A m \in Mount : storagesMap[m] # i
  /\ \A p \in Proc : frame[p].inst # i
Drop(i) == drv' = [drv EXCEPT ![i].live = FALSE]

Start(p, step, id, r, i, was) ==
  GoTo(p, [step |-> step, id |-> id, row |-> r, inst |-> i, was |-> was])

-----------------------------------------------------------------------------
\* CreateStorage: the row first, then a new driver; without a row nothing happens.
Create(p) ==
  /\ MayStart(p)
  /\ \E id \in Id, m \in Mount, i \in Inst :
       /\ rows[id] = None /\ Unique(id, m) /\ Fresh(i)
       /\ LET r == [mount |-> m, disabled |-> FALSE, status |-> ""] IN
            SaveRow(id, r) /\ Start(p, "init", id, r, i, m)
  /\ UNCHANGED <<storagesMap, drv, queue, loading, hurt>>

\* EnableStorage: the row first, then LoadStorage.
Enable(p) ==
  /\ MayStart(p)
  /\ \E id \in Id, i \in Inst :
       /\ rows[id] # None /\ rows[id].disabled /\ Fresh(i)
       /\ LET r == [rows[id] EXCEPT !.disabled = FALSE] IN
            SaveRow(id, r) /\ Start(p, "init", id, r, i, r.mount)
  /\ UNCHANGED <<storagesMap, drv, queue, loading, hurt>>

\* DisableStorage: the driver is dropped first; then the row, then the mount.
Disable(p) ==
  /\ MayStart(p)
  /\ \E id \in Id :
       /\ rows[id] # None /\ ~rows[id].disabled
       /\ LET r == rows[id]  i == storagesMap[r.mount] IN
            /\ i # None
            /\ \/ Drop(i) /\ Start(p, "disableRow", id, r, i, r.mount) /\ UNCHANGED hurt
               \/ Hurt(id) /\ (Drop(i) \/ UNCHANGED drv) /\ UNCHANGED frame
  /\ UNCHANGED <<rows, storagesMap, queue, loading>>

DisableRow(p) ==
  /\ At(p, "disableRow")
  /\ LET r == [frame[p].row EXCEPT !.disabled = TRUE, !.status = "disabled"] IN
       \/ /\ Unique(frame[p].id, r.mount)
          /\ SaveRow(frame[p].id, r) /\ Next2(p, "unmount") /\ UNCHANGED hurt
       \/ GiveUp(p) /\ UNCHANGED rows
  /\ UNCHANGED <<storagesMap, drv, queue, loading>>

\* Fault: the disabled storage stays in the map.
Unmount_mutant(p) ==
  /\ At(p, "unmount") /\ Done(p)
  /\ UNCHANGED <<rows, storagesMap, drv, queue, loading, hurt>>

Unmount(p) ==
  /\ At(p, "unmount")
  /\ storagesMap' = [storagesMap EXCEPT ![frame[p].row.mount] = None]
  /\ Done(p)
  /\ UNCHANGED <<rows, drv, queue, loading, hurt>>

\* UpdateStorage with a form that was filled in from the row: the row first.
Update(p) ==
  /\ MayStart(p)
  /\ \E id \in Id, m \in Mount :
       /\ rows[id] # None /\ Unique(id, m)
       /\ LET r == [rows[id] EXCEPT !.mount = m] IN
            /\ SaveRow(id, r)
            /\ IF r.disabled THEN UNCHANGED frame
               ELSE Start(p, "take", id, r, None, rows[id].mount)
  /\ UNCHANGED <<storagesMap, drv, queue, loading, hurt>>

\* Fault: a rename leaves the old path in the map.
Renamed_mutant(f) == FALSE

\* The path is another one than before.
Renamed(f) == f.was # f.row.mount

\* Fault: the error of the lookup is not looked at.
UpdateTake_mutant(p) ==
  /\ At(p, "take")
  /\ LET f == frame[p] IN
       /\ storagesMap' = IF Renamed(f) THEN [storagesMap EXCEPT ![f.was] = None] ELSE storagesMap
       /\ GoTo(p, [f EXCEPT !.step = "drop", !.inst = storagesMap[f.was]])
  /\ UNCHANGED <<rows, drv, queue, loading, hurt>>

\* The driver is looked up under the old path, which a rename takes away.
UpdateTake(p) ==
  /\ At(p, "take")
  /\ LET f == frame[p]  i == storagesMap[f.was] IN
       /\ storagesMap' = IF Renamed(f) THEN [storagesMap EXCEPT ![f.was] = None] ELSE storagesMap
       /\ IF i = None THEN GiveUp(p)
          ELSE GoTo(p, [f EXCEPT !.step = "drop", !.inst = i]) /\ UNCHANGED hurt
  /\ UNCHANGED <<rows, drv, queue, loading>>

UpdateDrop(p) ==
  /\ At(p, "drop") /\ p \in Admin
  /\ \/ Drop(frame[p].inst) /\ Next2(p, "init") /\ UNCHANGED hurt
     \/ GiveUp(p) /\ (Drop(frame[p].inst) \/ UNCHANGED drv)
  /\ UNCHANGED <<rows, storagesMap, queue, loading>>

\* DeleteStorageById: driver, mount, row.
Delete(p) ==
  /\ MayStart(p)
  /\ \E id \in Id :
       /\ rows[id] # None
       /\ LET r == rows[id]  i == storagesMap[r.mount] IN
            IF r.disabled
            THEN Start(p, "deleteRow", id, r, None, r.mount) /\ UNCHANGED <<storagesMap, drv, hurt>>
            ELSE /\ i # None
                 /\ \/ /\ Drop(i)
                       /\ storagesMap' = [storagesMap EXCEPT ![r.mount] = None]
                       /\ Start(p, "deleteRow", id, r, None, r.mount) /\ UNCHANGED hurt
                    \/ Hurt(id) /\ (Drop(i) \/ UNCHANGED drv) /\ UNCHANGED <<frame, storagesMap>>
  /\ UNCHANGED <<rows, queue, loading>>

DeleteRow(p) ==
  /\ At(p, "deleteRow")
  /\ \/ SaveRow(frame[p].id, None) /\ Done(p) /\ UNCHANGED hurt
     \/ GiveUp(p) /\ UNCHANGED rows
  /\ UNCHANGED <<storagesMap, drv, queue, loading>>

-----------------------------------------------------------------------------
\* initStorage: the driver takes the record over and starts, or fails, or panics.
InitDriver(p) ==
  /\ At(p, "init")
  /\ LET f == frame[p] IN
       \E ok \in BOOLEAN, next \in {"store", "panicSave"} :
         /\ next = "panicSave" => ~ok
         /\ drv' = [drv EXCEPT ![f.inst] =
                   [id |-> f.id, mount |-> f.row.mount, disabled |-> f.row.disabled,
                    status |-> f.row.status, live |-> ok]]
         /\ Next2(p, next)
  /\ UNCHANGED <<rows, storagesMap, queue, loading, hurt>>

\* It is put in service in every case: before its status is saved, or after a panic.
Store(p) ==
  storagesMap' = [storagesMap EXCEPT ![drv[frame[p].inst].mount] = frame[p].inst]
StoreDriver(p) ==
  /\ At(p, "store")
  /\ Store(p) /\ Next2(p, "save")
  /\ UNCHANGED <<rows, drv, queue, loading, hurt>>
PanicStore(p) ==
  /\ At(p, "panicStore")
  /\ Store(p) /\ Done(p)
  /\ UNCHANGED <<rows, drv, queue, loading, hurt>>

\* MustSaveDriverStorage: the driver's copy becomes the row; an error is logged.
Persist(i, st) ==
  LET d == drv[i] IN
    \/ /\ Unique(d.id, d.mount)
       /\ SaveRow(d.id, [mount |-> d.mount, disabled |-> d.disabled, status |-> st])
       /\ UNCHANGED hurt
    \/ Hurt(d.id) /\ UNCHANGED rows

\* Fault: the status is set whatever Init returned.
InitStatus_mutant(i) == "work"

InitStatus(i) == IF drv[i].live THEN "work" ELSE "failed"
Save(p) ==
  LET i == frame[p].inst  st == InitStatus(i) IN
    /\ drv' = [drv EXCEPT ![i].status = st]
    /\ Persist(i, st)
SaveStatus(p) ==
  /\ At(p, "save")
  /\ Save(p) /\ Done(p)
  /\ UNCHANGED <<storagesMap, queue, loading>>
PanicSave(p) ==
  /\ At(p, "panicSave")
  /\ Save(p) /\ Next2(p, "panicStore")
  /\ UNCHANGED <<storagesMap, queue, loading>>

\* A driver in service saves a renewed token, and the rest of its copy with it.
DriverSave ==
  /\ \E m \in Mount :
       /\ storagesMap[m] # None /\ drv[storagesMap[m]].live
       /\ Persist(storagesMap[m], drv[storagesMap[m]].status)
  /\ UNCHANGED <<storagesMap, drv, frame, queue, loading>>

-----------------------------------------------------------------------------
Enabled(id) == rows[id] # None /\ ~rows[id].disabled
EnabledRows == {<<id, rows[id]>> : id \in {x \in Id : Enabled(x)}}

\* The process dies and starts again: LoadStorages reads the enabled rows.
Restart ==
  /\ storagesMap' = [m \in Mount |-> None]
  /\ drv' = [i \in Inst |-> Blank]
  /\ frame' = [p \in Proc |-> Idle]
  /\ queue' = EnabledRows /\ loading' = "boot" /\ hurt' = {}
  /\ UNCHANGED rows

\* LoadAllStorages answers at once and reloads in the background.
LoadAll(p) ==
  /\ Reload /\ MayStart(p)
  /\ queue' = EnabledRows /\ loading' = "reload"
  /\ UNCHANGED <<rows, storagesMap, drv, frame, hurt>>

\* One turn of the loader's loop: LoadStorage, with a new driver, of a row read
\* when the loop began.
Load(e, i) == Fresh(i) /\ Start(Loader, "init", e[1], e[2], i, e[2].mount)
LoadNext ==
  /\ At(Loader, "idle") /\ loading = "boot"
  /\ \E e \in queue, i \in Inst : Load(e, i) /\ queue' = queue \ {e}
  /\ UNCHANGED <<rows, storagesMap, drv, loading, hurt>>

\* A reload passes over a storage that is not in service, or does not drop.
ReloadNext ==
  /\ At(Loader, "idle") /\ loading = "reload"
  /\ \E e \in queue, i \in Inst :
       /\ queue' = queue \ {e}
       /\ LET old == storagesMap[e[2].mount] IN
            \/ old = None /\ UNCHANGED <<drv, frame, hurt>>
            \/ old # None /\ Drop(old) /\ Load(e, i) /\ UNCHANGED hurt
            \/ old # None /\ (Drop(old) \/ UNCHANGED drv) /\ Hurt(e[1]) /\ UNCHANGED frame
  /\ UNCHANGED <<rows, storagesMap, loading>>

LoadDone ==
  /\ loading # "no" /\ queue = {} /\ At(Loader, "idle")
  /\ loading' = "no"
  /\ UNCHANGED <<rows, storagesMap, drv, frame, queue, hurt>>

-----------------------------------------------------------------------------
Request(p) ==
  \/ Create(p) \/ Enable(p) \/ Disable(p) \/ Update(p) \/ Delete(p) \/ LoadAll(p)
Continue(p) ==
  \/ DisableRow(p) \/ Unmount(p) \/ UpdateTake(p) \/ UpdateDrop(p) \/ DeleteRow(p)
  \/ InitDriver(p) \/ StoreDriver(p) \/ SaveStatus(p) \/ PanicSave(p) \/ PanicStore(p)

Next ==
  \/ \E p \in Proc : Request(p) \/ Continue(p)
  \/ DriverSave \/ LoadNext \/ ReloadNext \/ LoadDone \/ Restart

Spec == Init /\ [][Next]_vars

-----------------------------------------------------------------------------
(* Properties.                                                             *)

\* Types, and what a frame holds at each step of an operation of storage.go.
TypeOK ==
  /\ rows \in [Id -> Row \cup {None}]
  /\ storagesMap \in [Mount -> Inst \cup {None}]
  /\ drv \in [Inst -> Driver \cup {Blank}]
  /\ frame \in [Proc -> Frame \cup {Idle}]
  /\ queue \subseteq (Id \X Row)
  /\ loading \in {"no", "boot", "reload"}
  /\ hurt \subseteq Id
  /\ \A p \in Proc : frame[p].step # "idle" => frame[p] \in Frame
  /\ \A p \in Proc : frame[p].step \in {"drop", "init", "store", "save", "panicSave", "panicStore"}
                     => frame[p].inst # None

\* Where the driver of a storage is in service.
MountedAt(id) == {m \in Mount : storagesMap[m] # None /\ drv[storagesMap[m]].id = id}
Quiet == loading = "no" /\ \A p \in Proc : frame[p].step = "idle"

\* What the administrator was not told about did not happen: once no request is
\* running, a storage whose requests all succeeded is in service at the path of
\* its row, and nowhere else, exactly when the row is enabled.
NoSilentDivergence ==
  Quiet => \A id \in Id \ hurt :
    MountedAt(id) = IF Enabled(id) THEN {rows[id].mount} ELSE {}

\* And the row tells how its driver is: "work" is a driver that is initialized
\* (List, Link and the rest refuse a storage whose status is another).
StatusIsTrue ==
  Quiet => \A id \in Id \ hurt : \A m \in MountedAt(id) :
    (drv[storagesMap[m]].status = "work") <=> drv[storagesMap[m]].live

\* The path a driver is in service at is the path of its record: what is joined
\* with it to name an object (Key, GetStorageAndActualPath) leads back to it.
KeyIsRecord ==
  \A m \in Mount : storagesMap[m] # None => drv[storagesMap[m]].mount = m
=============================================================================

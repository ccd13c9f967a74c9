----------------------- MODULE OfflineDownload_proof -----------------------
(***************************************************************************)
(* Theorems about offline downloads, for any number of tasks, failures,    *)
(* retries and crashes: a download in its loop polls an aria2 download of  *)
(* its own and is reached by its notifications, only complete content is   *)
(* transferred, and the file of a download that succeeded is kept.         *)
(*                                                                         *)
(* An answer of aria2 may be anywhere between aria2 and the task, and what  *)
(* it says is of the moment aria2 gave it: the invariant says of each       *)
(* answer, on the wire or with its task, what still holds when it is used.  *)
(***************************************************************************)
EXTENDS OfflineDownload, TLAPS

Pcs == {"none", "pending", "add", "loop", "status", "remove", "transfer", "added",
        "succeeded", "failed", "cancelled"}
Sts == {"active", "complete", "seeding", "error", "removed"}
Said == Sts \cup {"sent", "served", "failed", "ok", "notice"}

JobRec == [of : Task, st : Sts, meta : BOOLEAN, next : Nat]
TaskRec == [pc : Pcs, ans : Said \cup {None}, got : Nat, gid : Nat, retried : Nat, tries : Nat]
MsgRec == [to : Task \cup {None}, ans : Said, got : Nat]
MoveRec == [of : Task, n : Nat, st : {"pending", "uploaded", "succeeded", "failed"},
            storage : BOOLEAN]

\* The values of the variables.
Types ==
  /\ job \in Seq(JobRec)
  /\ wire \in Seq(MsgRec)
  /\ d \in [Task -> TaskRec]
  /\ transfers \subseteq MoveRec
  /\ fails \in Nat /\ crashes \in Nat

\* GID g is there and was added for task t.
Own(t, g) == g \in 1 .. Len(job) /\ job[g].of = t
\* What GID g fetched is there and is the content.
Content(g) == Complete(g) /\ ~job[g].meta

\* A download is followed by one of the same task, and complete metadata is followed.
JobsRight ==
  \A g \in 1 .. Len(job) :
    /\ job[g].next # 0 => Own(job[g].of, job[g].next)
    /\ job[g].meta /\ Complete(g) => job[g].next # 0

\* What an answer to the call that task t in state o waits for says.
Due(t, o, ans, got) ==
  /\ o.pc = "add" => ans = "ok" /\ Own(t, got)
  /\ o.pc = "status" =>
       /\ ans \in Sts
       /\ got # 0 => Own(t, got)
       /\ got = 0 /\ ans \in {"complete", "seeding"} => Content(o.gid)

\* The GID of a task is its own, and it holds no answer but the one it is due.
TaskRight(t, o) ==
  /\ o.pc \in {"loop", "status", "remove", "transfer"} => Own(t, o.gid)
  /\ o.pc \in Calls => o.ans \in {"sent", "served", "failed"} \/ Due(t, o, o.ans, o.got)
  /\ o.pc = "transfer" => Content(o.gid)
TasksRight == \A t \in Task : TaskRight(t, d[t])

\* An answer on the wire is for a task that waits for it, and there is one for each.
Single ==
  \A i, j \in 1 .. Len(wire) : wire[i].to \in Task /\ wire[i].to = wire[j].to => i = j
MsgRight(m) ==
  m.to \in Task =>
    /\ d[m.to].pc \in Calls /\ d[m.to].ans = "served"
    /\ Due(m.to, d[m.to], m.ans, m.got)
WireRight == Single /\ \A i \in 1 .. Len(wire) : MsgRight(wire[i])

\* A download that succeeded has a transfer task, so the directories are not emptied; and
\* the file is not deleted before it is in the storage.
Good(t) == Policy[t] \in {"delete_on_upload_succeed", "delete_never"}
Kept ==
  /\ \A t \in Task : d[t].pc \in {"added", "succeeded"} =>
       /\ \E x \in transfers : x.of = t
       /\ Good(t) => t \in temp \cup dst
  /\ \A x \in transfers : x.st = "uploaded" => x.of \in dst

IInv == Types /\ JobsRight /\ TasksRight /\ WireRight /\ Reached /\ Kept

-----------------------------------------------------------------------------
(* aria2's downloads only become more.                                     *)

\* The downloads that were there are there, for the same tasks, and content is content.
Grows ==
  /\ Len(job) <= Len(job')
  /\ \A g \in 1 .. Len(job) : job'[g].of = job[g].of /\ job'[g].meta = job[g].meta
\* What is complete stays so for a task that goes by it.
Lasts(o) ==
  o.pc \in {"status", "transfer"} /\ o.gid \in 1 .. Len(job) /\ Complete(o.gid)
    => job'[o.gid].st \in {"complete", "seeding"}

\* What a task holds stays right when the downloads change.
LEMMA RightLasts ==
  ASSUME NEW t, NEW o, Grows, Lasts(o), job \in Seq(JobRec), job' \in Seq(JobRec), TaskRight(t, o)
  PROVE  /\ TaskRight(t, o)'
         /\ \A ans, got : Due(t, o, ans, got) => Due(t, o, ans, got)'
PROOF
  <1>1. \A g : Own(t, g) => Own(t, g)'
    BY DEF Own, Grows
  <1>2. o.pc \in {"status", "transfer"} /\ Content(o.gid) => Content(o.gid)'
    BY DEF TaskRight, Own, Content, Complete, Grows, Lasts
  <1>3. \A ans, got : Due(t, o, ans, got) => Due(t, o, ans, got)'
    BY <1>1, <1>2 DEF Due
  <1>4. QED
    BY <1>1, <1>2, <1>3 DEF TaskRight

\* Downloads that change no task: none of the tasks or messages is affected.
LEMMA DownloadsChange ==
  ASSUME Types, job' \in Seq(JobRec), TasksRight, WireRight, Grows, d' = d,
         \A t \in Task : Lasts(d[t]),
         NEW ns \in Seq(MsgRec), \A i \in 1 .. Len(ns) : ns[i].to = None,
         wire' = wire \o ns
  PROVE  TasksRight' /\ WireRight' /\ wire' \in Seq(MsgRec)
PROOF
  <1>1. ASSUME NEW t \in Task
        PROVE  /\ TaskRight(t, d[t])'
               /\ \A ans, got : Due(t, d[t], ans, got) => Due(t, d[t], ans, got)'
    <2>1. \A o : o = d[t] => TaskRight(t, o)' /\ \A ans, got : Due(t, o, ans, got) => Due(t, o, ans, got)'
      BY RightLasts DEF Types, TasksRight
    <2>2. QED
      BY <2>1
  <1>2. wire' \in Seq(MsgRec) /\ Len(wire') = Len(wire) + Len(ns)
    BY DEF Types
  <1>3. \A i \in 1 .. Len(wire') :
          \/ i \in 1 .. Len(wire) /\ wire'[i] = wire[i]
          \/ wire'[i].to = None
    BY DEF Types
  <1>4. WireRight'
    <2>1. ASSUME NEW i \in 1 .. Len(wire')
          PROVE  MsgRight(wire[i])'
      <3>1. CASE wire'[i].to = None
        BY <3>1, Parameters DEF MsgRight
      <3>2. CASE i \in 1 .. Len(wire) /\ wire'[i] = wire[i]
        <4> DEFINE m == wire[i]
        <4>1. m' = m /\ MsgRight(m)
          BY <3>2 DEF WireRight
        <4>2. SUFFICES ASSUME m.to \in Task PROVE MsgRight(m)'
          BY <4>1 DEF MsgRight
        <4>3. /\ d[m.to].pc \in Calls /\ d[m.to].ans = "served"
              /\ Due(m.to, d[m.to], m.ans, m.got)
          BY <4>1, <4>2 DEF MsgRight
        <4>4. \A t \in Task : t = m.to => Due(t, d[t], m.ans, m.got)'
          BY <1>1, <4>1, <4>3
        <4>5. QED
          BY <4>1, <4>2, <4>3, <4>4 DEF MsgRight
      <3>3. QED
        BY <1>3, <3>1, <3>2
    <2>2. \A i, j \in 1 .. Len(wire') : wire'[i].to \in Task /\ wire'[i].to = wire'[j].to => i = j
      <3>1. \A i \in 1 .. Len(wire') : wire'[i].to \in Task => i \in 1 .. Len(wire) /\ wire'[i] = wire[i]
        BY <1>3, Parameters
      <3>2. \A i, j \in 1 .. Len(wire) : wire[i].to \in Task /\ wire[i].to = wire[j].to => i = j
        BY DEF WireRight, Single
      <3>3. QED
        BY <3>1, <3>2
    <2>3. QED
      BY <2>1, <2>2 DEF WireRight, Single
  <1>5. QED
    BY <1>1, <1>2, <1>4 DEF TasksRight

\* A list to which one follows another.
LEMMA AppendIs ==
  ASSUME NEW S, NEW s \in Seq(S), NEW x \in S
  PROVE  /\ Append(s, x) \in Seq(S) /\ Append(s, x) = s \o <<x>>
         /\ Len(Append(s, x)) = Len(s) + 1 /\ Append(s, x)[Len(s) + 1] = x
         /\ \A i \in 1 .. Len(s) : Append(s, x)[i] = s[i]
PROOF
  OBVIOUS

\* A download that changes its state only is the one it was.
LEMMA StateChanges ==
  ASSUME Types, JobsRight, NEW g \in DOMAIN job, NEW st \in Sts,
         job' = [job EXCEPT ![g].st = st],
         st \in {"complete", "seeding"} => ~job[g].meta \/ Complete(g)
  PROVE  /\ job' \in Seq(JobRec) /\ Grows /\ JobsRight'
         /\ \A h : h # g /\ Complete(h) => Complete(h)'
         /\ st \in {"complete", "seeding"} => \A o : Lasts(o)
PROOF
  <1>1. g \in 1 .. Len(job) /\ job \in Seq(JobRec) /\ job[g] \in JobRec
    BY DEF Types
  <1>2. job' \in Seq(JobRec) /\ Len(job') = Len(job)
    BY <1>1 DEF JobRec
  <1>3. /\ job'[g] = [job[g] EXCEPT !.st = st]
        /\ \A h \in 1 .. Len(job) : h # g => job'[h] = job[h]
    BY <1>1
  <1>4. \A h \in 1 .. Len(job) : /\ job'[h].of = job[h].of /\ job'[h].meta = job[h].meta
                                 /\ job'[h].next = job[h].next
    BY <1>1, <1>3 DEF JobRec
  <1>5. job'[g].st = st
    BY <1>1, <1>3 DEF JobRec
  <1>6. Grows
    BY <1>1, <1>2, <1>4 DEF Grows
  <1>7. \A h : h # g /\ Complete(h) => Complete(h)'
    BY DEF Complete
  <1>8. JobsRight'
    BY <1>1, <1>2, <1>4, <1>5, <1>7 DEF JobsRight, Own, Complete
  <1>9. st \in {"complete", "seeding"} => \A o : Lasts(o)
    BY <1>5, <1>7 DEF Lasts, Complete
  <1>10. QED
    BY <1>2, <1>6, <1>7, <1>8, <1>9

\* A new download is one of its own task and nobody's before.
LEMMA NewDownload ==
  ASSUME Types, JobsRight, NEW t \in Task, NEW meta \in BOOLEAN, NEW was \in Seq(JobRec),
         Len(was) = Len(job), job' = Append(was, NewJob(t, meta)),
         \A h \in 1 .. Len(job) : was[h].of = job[h].of /\ was[h].meta = job[h].meta,
         \A h \in 1 .. Len(job) : job[h].st \in {"complete", "seeding"} => was[h].st \in {"complete", "seeding"},
         \A h \in 1 .. Len(job) :
           \/ was[h].next = job[h].next /\ was[h].st = job[h].st
           \/ was[h].next = Len(job) + 1 /\ was[h].of = t
  PROVE  /\ job' \in Seq(JobRec) /\ Grows /\ JobsRight' /\ Len(job') = Len(job) + 1
         /\ \A k : k = Len(job) + 1 => Own(t, k)'
         /\ \A o : Lasts(o)
PROOF
  <1> DEFINE n == NewJob(t, meta)
  <1>1. n \in JobRec /\ n.of = t /\ n.meta = meta /\ n.next = 0 /\ n.st = "active"
    BY DEF NewJob, JobRec, Sts
  <1> HIDE DEF n
  <1>2. job \in Seq(JobRec)
    BY DEF Types
  <1>3. /\ job' \in Seq(JobRec) /\ Len(job') = Len(job) + 1 /\ job'[Len(job) + 1] = n
        /\ \A h \in 1 .. Len(job) : job'[h] = was[h]
    BY <1>1, <1>2 DEF n
  <1>4. Grows
    BY <1>2, <1>3 DEF Grows
  <1>5. \A k : k = Len(job) + 1 => Own(t, k)'
    BY <1>1, <1>2, <1>3 DEF Own
  <1>6. \A o : Lasts(o)
    BY <1>3 DEF Lasts, Complete
  <1>7. JobsRight'
    <2> SUFFICES ASSUME NEW h \in 1 .. Len(job')
                 PROVE  /\ job'[h].next # 0 => Own(job[h].of, job[h].next)'
                        /\ job'[h].meta /\ Complete(h)' => job'[h].next # 0
      BY DEF JobsRight
    <2>1. CASE h = Len(job) + 1
      BY <1>1, <1>3, <2>1 DEF Complete
    <2>2. CASE h \in 1 .. Len(job) /\ was[h].next = job[h].next /\ was[h].st = job[h].st
      <3>1. /\ job'[h].next = job[h].next /\ job'[h].st = job[h].st /\ job'[h].of = job[h].of
            /\ job'[h].meta = job[h].meta
        BY <1>3, <2>2
      <3>2. job[h].next # 0 => Own(job[h].of, job[h].next)
        BY <2>2 DEF JobsRight
      <3>3. job[h].next # 0 => Own(job[h].of, job[h].next)'
        BY <1>2, <1>3, <1>4, <3>1, <3>2 DEF Own, Grows
      <3>4. job[h].meta /\ Complete(h) => job[h].next # 0
        BY <2>2 DEF JobsRight
      <3>5. QED
        BY <3>1, <3>3, <3>4 DEF Complete
    <2>3. CASE h \in 1 .. Len(job) /\ was[h].next = Len(job) + 1 /\ was[h].of = t
      BY <1>2, <1>3, <1>5, <2>3 DEF Own
    <2>4. QED
      BY <1>2, <1>3, <2>1, <2>2, <2>3
  <1>8. QED
    BY <1>3, <1>4, <1>5, <1>6, <1>7

-----------------------------------------------------------------------------
(* aria2 and the reader of the connection.                                 *)

Core == JobsRight /\ TasksRight /\ WireRight

\* What a message may be.
LEMMA Messages ==
  ASSUME NEW g \in Nat
  PROVE  /\ Notice(g) \in MsgRec /\ Notice(g).to = None
         /\ \A t \in Task, a \in Said :
              /\ Answer(t, a, g) \in MsgRec /\ Answer(t, a, g).to = t
              /\ Answer(t, a, g).ans = a /\ Answer(t, a, g).got = g
PROOF
  BY DEF Notice, Answer, MsgRec, Said

\* What aria2 does by itself keeps what tasks and messages rely on.
LEMMA Aria2Keeps ==
  ASSUME Types, Core, NEW g \in DOMAIN job, Aria2(g)
  PROVE  Types' /\ Core' /\ d' = d
PROOF
  <1>0. /\ g \in 1 .. Len(job) /\ g \in Nat /\ Len(job) + 1 \in Nat /\ job[g] \in JobRec
        /\ job \in Seq(JobRec) /\ wire \in Seq(MsgRec)
    BY DEF Types
  <1>1. /\ d' = d /\ transfers' = transfers /\ fails' = fails /\ crashes' = crashes
    BY DEF Aria2, JobFollowed, JobComplete, JobSeeded, JobError, bounds
  <1>2. ASSUME NEW ns \in Seq(MsgRec), \A i \in 1 .. Len(ns) : ns[i].to = None, wire' = wire \o ns,
               job' \in Seq(JobRec), Grows, JobsRight', \A t \in Task : Lasts(d[t])
        PROVE  Types' /\ Core'
    <2>1. TasksRight' /\ WireRight' /\ wire' \in Seq(MsgRec)
      BY <1>1, <1>2, DownloadsChange DEF Core
    <2>2. QED
      BY <1>1, <1>2, <2>1 DEF Types, Core
  <1>3. /\ <<Notice(g)>> \in Seq(MsgRec) /\ Append(wire, Notice(g)) = wire \o <<Notice(g)>>
        /\ \A i \in 1 .. Len(<<Notice(g)>>) : <<Notice(g)>>[i].to = None
    BY <1>0, Messages, AppendIs
  <1>4. CASE JobFollowed(g)
    <2> DEFINE was == [job EXCEPT ![g].st = "complete", ![g].next = Len(job) + 1]
               ns == <<Notice(g), Notice(Len(job) + 1)>>
    <2>1. was \in Seq(JobRec) /\ Len(was) = Len(job)
      <3>1. [job[g] EXCEPT !.st = "complete", !.next = Len(job) + 1] \in JobRec
        BY <1>0 DEF JobRec, Sts
      <3>2. was = [job EXCEPT ![g] = [job[g] EXCEPT !.st = "complete", !.next = Len(job) + 1]]
        OBVIOUS
      <3> HIDE DEF was
      <3>3. QED
        BY <1>0, <3>1, <3>2
    <2>2. /\ was[g].of = job[g].of /\ was[g].meta = job[g].meta /\ was[g].st = "complete"
          /\ was[g].next = Len(job) + 1
      BY <1>0 DEF JobRec
    <2>3. \A h \in 1 .. Len(job) : h # g => was[h] = job[h]
      BY <1>0
    <2>4. job' = Append(was, NewJob(job[g].of, FALSE)) /\ wire' = wire \o ns
      BY <1>4 DEF JobFollowed
    <2>5. ns \in Seq(MsgRec) /\ \A i \in 1 .. Len(ns) : ns[i].to = None
      <3>1. \A m1, m2 \in MsgRec : /\ <<m1, m2>> \in Seq(MsgRec) /\ Len(<<m1, m2>>) = 2
                                   /\ <<m1, m2>>[1] = m1 /\ <<m1, m2>>[2] = m2
        OBVIOUS
      <3>2. QED
        BY <1>0, Messages, <3>1
    <2> HIDE DEF was, ns
    <2>6. job[g].of \in Task
      BY <1>0 DEF JobRec
    <2>7. job' \in Seq(JobRec) /\ Grows /\ JobsRight' /\ \A o : Lasts(o)
      BY <2>1, <2>2, <2>3, <2>4, <2>6, NewDownload DEF Core
    <2>8. QED
      BY <1>1, <1>2, <2>4, <2>5, <2>7
  <1>5. CASE JobComplete(g) \/ JobSeeded(g)
    <2> DEFINE st == IF JobComplete(g) /\ job[g].of \in Magnet THEN "seeding" ELSE "complete"
    <2>1. PICK s \in {"complete", "seeding"} : job' = [job EXCEPT ![g].st = s]
      BY <1>5 DEF JobComplete, JobSeeded
    <2>2. ~job[g].meta \/ Complete(g)
      BY <1>5 DEF JobComplete, JobSeeded, Complete
    <2>3. job' \in Seq(JobRec) /\ Grows /\ JobsRight' /\ \A o : Lasts(o)
      BY <2>1, <2>2, StateChanges DEF Core, Sts
    <2>4. wire' = Append(wire, Notice(g))
      BY <1>5 DEF JobComplete, JobSeeded
    <2>5. QED
      BY <1>1, <1>2, <1>3, <2>3, <2>4
  <1>6. CASE JobError(g)
    <2>1. job' = [job EXCEPT ![g].st = "error"] /\ wire' = Append(wire, Notice(g)) /\ ~Complete(g)
      BY <1>6 DEF JobError, Complete
    <2>2. /\ job' \in Seq(JobRec) /\ Grows /\ JobsRight'
          /\ \A h : h # g /\ Complete(h) => Complete(h)'
      BY <2>1, StateChanges DEF Core, Sts
    <2>3. \A t \in Task : Lasts(d[t])
      BY <2>1, <2>2 DEF Lasts, Complete
    <2>4. QED
      BY <1>1, <1>2, <1>3, <2>1, <2>2, <2>3
  <1>7. QED
    BY <1>1, <1>4, <1>5, <1>6 DEF Aria2

\* What a task is due depends on the call and the GID alone.
LEMMA DueSame ==
  ASSUME NEW t, NEW o, NEW u, o.pc = u.pc, o.gid = u.gid, NEW ans, NEW got, Due(t, o, ans, got)'
  PROVE  Due(t, u, ans, got)'
PROOF
  BY DEF Due

\* One task moves: the others, and the answers that are theirs, stay right.
LEMMA OneMoves ==
  ASSUME Types, TasksRight, WireRight, job' \in Seq(JobRec), Grows,
         NEW t \in Task, NEW o \in TaskRec, d' = [d EXCEPT ![t] = o], TaskRight(t, o)',
         \A u \in Task \ {t} : Lasts(d[u]),
         wire' \in Seq(MsgRec), Single',
         \A i \in 1 .. Len(wire') :
           \/ wire'[i].to = None
           \/ \E k \in 1 .. Len(wire) : wire'[i] = wire[k] /\ wire[k].to # t
           \/ wire'[i].to = t /\ o.pc \in Calls /\ o.ans = "served"
              /\ \A m : m = wire'[i] => Due(t, o, m.ans, m.got)'
  PROVE  TasksRight' /\ WireRight' /\ d' \in [Task -> TaskRec]
PROOF
  <1>1. d' \in [Task -> TaskRec] /\ d'[t] = o /\ \A u \in Task \ {t} : d'[u] = d[u]
    BY DEF Types
  <1>2. ASSUME NEW u \in Task \ {t}
        PROVE  /\ TaskRight(u, d[u])'
               /\ \A ans, got : \A v : v = d[u] /\ Due(u, v, ans, got) => Due(u, v, ans, got)'
    <2>1. \A v : v = d[u] => TaskRight(u, v)' /\ \A ans, got : Due(u, v, ans, got) => Due(u, v, ans, got)'
      BY RightLasts DEF Types, TasksRight
    <2>2. QED
      BY <1>1, <2>1
  <1>3. TasksRight'
    <2> SUFFICES ASSUME NEW u \in Task PROVE TaskRight(u, d[u])'
      BY DEF TasksRight
    <2>1. CASE u = t
      <3>1. \A v : v = o /\ TaskRight(t, v)' => TaskRight(t, v)'
        OBVIOUS
      <3>2. QED
        BY <1>1, <2>1
    <2>2. QED
      BY <1>2, <2>1
  <1>4. ASSUME NEW i \in 1 .. Len(wire')
        PROVE  MsgRight(wire[i])'
    <2> DEFINE n == wire'[i]
    <2>0. ASSUME NEW m, m = wire'[i] PROVE MsgRight(m)'
      <3>1. CASE m.to = None
        BY <3>1, Parameters DEF MsgRight
      <3>2. CASE \E k \in 1 .. Len(wire) : m = wire[k] /\ wire[k].to # t
        <4>1. MsgRight(m) /\ m.to # t
          BY <3>2 DEF WireRight
        <4>2. SUFFICES ASSUME m.to \in Task PROVE MsgRight(m)'
          BY DEF MsgRight
        <4>3. /\ d[m.to].pc \in Calls /\ d[m.to].ans = "served"
              /\ Due(m.to, d[m.to], m.ans, m.got)
          BY <4>1, <4>2 DEF MsgRight
        <4>4. d'[m.to] = d[m.to]
          BY <1>1, <4>1, <4>2
        <4>5. \A v : v = d[m.to] => Due(m.to, v, m.ans, m.got)'
          BY <1>2, <4>1, <4>2, <4>3
        <4>6. Due(m.to, d[m.to], m.ans, m.got)'
          BY <4>4, <4>5
        <4>7. QED
          BY <4>3, <4>4, <4>6 DEF MsgRight
      <3>3. CASE m.to = t /\ o.pc \in Calls /\ o.ans = "served" /\ Due(t, o, m.ans, m.got)'
        <4>1. Due(m.to, d[m.to], m.ans, m.got)'
          BY <1>1, <3>3
        <4>2. QED
          BY <1>1, <3>3, <4>1 DEF MsgRight
      <3>4. QED
        BY <2>0, <3>1, <3>2, <3>3
    <2>1. QED
      BY <2>0
  <1>5. QED
    BY <1>1, <1>3, <1>4 DEF WireRight

\* The answer to a call reaches its task, at once or over the wire.
LEMMA AnswerRight ==
  ASSUME Types, TasksRight, WireRight, job' \in Seq(JobRec), Grows,
         NEW t \in Task, NEW what \in Said, NEW g \in Nat, NEW ns \in Seq(MsgRec),
         \A i \in 1 .. Len(ns) : ns[i].to = None,
         d[t].pc \in Calls, d[t].ans = "sent", \A u \in Task : Lasts(d[u]),
         \A o : o = d[t] => Due(t, o, what, g)',
         Answers(t, what, g, ns)
  PROVE  TasksRight' /\ WireRight' /\ d' \in [Task -> TaskRec] /\ wire' \in Seq(MsgRec)
PROOF
  <1>0. wire \in Seq(MsgRec) /\ d[t] \in TaskRec
    BY DEF Types
  <1>1. ASSUME NEW was, was = d[t]
        PROVE  TaskRight(t, was)' /\ was.pc # "transfer" /\ Due(t, was, what, g)'
    <2>1. \A o : o = d[t] => TaskRight(t, o)'
      BY RightLasts DEF Types, TasksRight
    <2>2. QED
      BY <1>1, <2>1 DEF Calls
  <1>2. \A i \in 1 .. Len(wire) : wire[i].to # t
    BY DEF WireRight, MsgRight
  <1>3. CASE WebSocket
    <2> DEFINE a == Answer(t, what, g)
               o == [d[t] EXCEPT !.ans = "served"]
    <2>1. a \in MsgRec /\ a.to = t /\ a.ans = what /\ a.got = g
      BY DEF Answer, MsgRec
    <2>2. wire' = wire \o ns \o <<a>> /\ d' = [d EXCEPT ![t] = o]
      BY <1>3 DEF Answers, To
    <2>3. /\ o \in TaskRec /\ o.pc = d[t].pc /\ o.gid = d[t].gid /\ o.ans = "served"
      BY <1>0 DEF TaskRec, Said
    <2> HIDE DEF a, o
    <2>4. wire' \in Seq(MsgRec) /\ Len(wire') = Len(wire) + Len(ns) + 1
      BY <1>0, <2>1, <2>2
    <2>5. \A i \in 1 .. Len(wire') :
            \/ i \in 1 .. Len(wire) /\ wire'[i] = wire[i]
            \/ wire'[i].to = None
            \/ i = Len(wire) + Len(ns) + 1 /\ wire'[i] = a
      <3>1. wire \o ns \in Seq(MsgRec) /\ Len(wire \o ns) = Len(wire) + Len(ns)
        BY <1>0
      <3>2. \A i \in 1 .. Len(wire \o ns) :
              (i \in 1 .. Len(wire) /\ (wire \o ns)[i] = wire[i]) \/ (wire \o ns)[i].to = None
        BY <1>0
      <3>3. QED
        BY <2>1, <2>2, <2>4, <3>1, <3>2
    <2>6. Single'
      <3>1. \A i \in 1 .. Len(wire') : wire'[i].to \in Task =>
              \/ i \in 1 .. Len(wire) /\ wire'[i] = wire[i] /\ wire[i].to # t
              \/ i = Len(wire) + Len(ns) + 1 /\ wire'[i].to = t
        BY <1>2, <2>1, <2>5, Parameters
      <3>2. \A i, j \in 1 .. Len(wire) : wire[i].to \in Task /\ wire[i].to = wire[j].to => i = j
        BY DEF WireRight, Single
      <3>3. QED
        BY <3>1, <3>2 DEF Single
    <2>7. ASSUME NEW u, u = o PROVE TaskRight(t, u)' /\ Due(t, u, what, g)'
      <3>1. PICK was : was = d[t]
        OBVIOUS
      <3>2. TaskRight(t, was)' /\ was.pc # "transfer" /\ Due(t, was, what, g)'
        BY <1>1, <3>1
      <3>3. u.pc = was.pc /\ u.gid = was.gid /\ u.ans = "served"
        BY <2>3, <2>7, <3>1
      <3>4. TaskRight(t, u)'
        BY <3>2, <3>3 DEF TaskRight
      <3>5. Due(t, u, what, g)'
        BY <3>2, <3>3, DueSame
      <3>6. QED
        BY <3>4, <3>5
    <2>8. \A i \in 1 .. Len(wire') :
           \/ wire'[i].to = None
           \/ \E k \in 1 .. Len(wire) : wire'[i] = wire[k] /\ wire[k].to # t
           \/ wire'[i].to = t /\ wire'[i].ans = what /\ wire'[i].got = g
      BY <1>2, <2>1, <2>5
    <2>9. PICK u : u = o
      OBVIOUS
    <2>10. TaskRight(t, u)' /\ Due(t, u, what, g)' /\ u \in TaskRec /\ d' = [d EXCEPT ![t] = u]
           /\ u.pc \in Calls /\ u.ans = "served"
      BY <2>2, <2>3, <2>7, <2>9
    <2>11. \A i \in 1 .. Len(wire') :
           \/ wire'[i].to = None
           \/ \E k \in 1 .. Len(wire) : wire'[i] = wire[k] /\ wire[k].to # t
           \/ wire'[i].to = t /\ u.pc \in Calls /\ u.ans = "served"
              /\ \A m : m = wire'[i] => Due(t, u, m.ans, m.got)'
      BY <2>8, <2>10
    <2>12. QED
      BY <2>4, <2>6, <2>10, <2>11, OneMoves
  <1>4. CASE ~WebSocket
    <2> DEFINE o == [d[t] EXCEPT !.ans = what, !.got = g]
    <2>1. wire' = wire \o ns /\ d' = [d EXCEPT ![t] = o]
      BY <1>4 DEF Answers, To
    <2>2. /\ o \in TaskRec /\ o.pc = d[t].pc /\ o.gid = d[t].gid /\ o.ans = what /\ o.got = g
      BY <1>0 DEF TaskRec, Said
    <2> HIDE DEF o
    <2>3. wire' \in Seq(MsgRec) /\ Len(wire') = Len(wire) + Len(ns)
      BY <1>0, <2>1
    <2>4. \A i \in 1 .. Len(wire') :
            \/ i \in 1 .. Len(wire) /\ wire'[i] = wire[i]
            \/ wire'[i].to = None
      BY <1>0, <2>1
    <2>5. Single'
      <3>1. \A i \in 1 .. Len(wire') : wire'[i].to \in Task => i \in 1 .. Len(wire) /\ wire'[i] = wire[i]
        BY <2>4, Parameters
      <3>2. \A i, j \in 1 .. Len(wire) : wire[i].to \in Task /\ wire[i].to = wire[j].to => i = j
        BY DEF WireRight, Single
      <3>3. QED
        BY <3>1, <3>2 DEF Single
    <2>6. PICK u : u = o
      OBVIOUS
    <2>7. PICK was : was = d[t]
      OBVIOUS
    <2>8. TaskRight(t, was)' /\ was.pc # "transfer" /\ Due(t, was, what, g)'
      BY <1>1, <2>7
    <2>9. u.pc = was.pc /\ u.gid = was.gid /\ u.ans = what /\ u.got = g /\ u \in TaskRec
          /\ d' = [d EXCEPT ![t] = u]
      BY <2>1, <2>2, <2>6, <2>7
    <2>10. Due(t, u, what, g)'
      BY <2>8, <2>9, DueSame
    <2>11. TaskRight(t, u)'
      BY <2>8, <2>9, <2>10 DEF TaskRight
    <2>12. \A i \in 1 .. Len(wire') :
            \/ wire'[i].to = None
            \/ \E k \in 1 .. Len(wire) : wire'[i] = wire[k] /\ wire[k].to # t
      BY <1>2, <2>4
    <2>13. QED
      BY <2>3, <2>5, <2>9, <2>11, <2>12, OneMoves
  <1>5. QED
    BY <1>3, <1>4

\* Taking a call keeps what tasks and messages rely on.
LEMMA ServeKeeps ==
  ASSUME Types, Core, NEW t \in Task, Serve(t)
  PROVE  Types' /\ Core' /\ \A u \in Task : d'[u].pc = d[u].pc /\ d'[u].gid = d[u].gid
                                             /\ d'[u].tries = d[u].tries
PROOF
  <1> DEFINE g == d[t].gid
  <1>0. /\ d[t] \in TaskRec /\ d[t].pc \in Calls /\ d[t].ans = "sent"
        /\ job \in Seq(JobRec) /\ Len(job) + 1 \in Nat /\ g \in Nat
        /\ UNCHANGED <<transfers, fails, crashes>>
    BY DEF Types, TaskRec, Serve, bounds
  <1>1. d[t].pc \in {"status", "remove"} =>
          /\ g \in 1 .. Len(job) /\ job[g].of = t /\ job[g] \in JobRec
    BY <1>0 DEF Core, TasksRight, TaskRight, Own
  <1>2. ASSUME NEW what \in Said, NEW k \in Nat, NEW ns \in Seq(MsgRec), Answers(t, what, k, ns)
        PROVE  \A u \in Task : d'[u].pc = d[u].pc /\ d'[u].gid = d[u].gid /\ d'[u].tries = d[u].tries
    <2>1. PICK o : /\ d' = [d EXCEPT ![t] = o]
                   /\ o = [d[t] EXCEPT !.ans = "served"] \/ o = [d[t] EXCEPT !.ans = what, !.got = k]
      BY <1>2 DEF Answers, To
    <2>2. o.pc = d[t].pc /\ o.gid = d[t].gid /\ o.tries = d[t].tries
      BY <1>0, <2>1 DEF TaskRec
    <2>3. QED
      BY <2>1, <2>2 DEF Types
  <1>3. << >> \in Seq(MsgRec) /\ \A i \in 1 .. Len(<< >>) : << >>[i].to = None
    OBVIOUS
  <1>4. ASSUME NEW k \in Nat
        PROVE  /\ <<Notice(k)>> \in Seq(MsgRec)
               /\ \A i \in 1 .. Len(<<Notice(k)>>) : <<Notice(k)>>[i].to = None
    <2>1. \A m \in MsgRec : <<m>> \in Seq(MsgRec) /\ Len(<<m>>) = 1 /\ <<m>>[1] = m
      OBVIOUS
    <2>2. QED
      BY <2>1, Messages
  <1>5. \A a \in {"ok", "failed"} : a \in Said
    BY DEF Said
  <1>6. ASSUME UNCHANGED job
        PROVE  job' \in Seq(JobRec) /\ Grows /\ JobsRight' /\ \A u \in Task : Lasts(d[u])
    BY <1>0, <1>6 DEF Core, Grows, JobsRight, Own, Complete, Lasts
  <1>7. CASE d[t].pc = "add"
    <2>1. /\ job' = Append(job, NewJob(t, t \in Magnet))
          /\ Answers(t, "ok", Len(job) + 1, <<Notice(Len(job) + 1)>>)
      BY <1>7 DEF Serve, At
    <2>2. /\ job' \in Seq(JobRec) /\ Grows /\ JobsRight'
          /\ \A k : k = Len(job) + 1 => Own(t, k)'
          /\ \A o : Lasts(o)
      <3>1. PICK meta \in BOOLEAN : job' = Append(job, NewJob(t, meta))
        <4>1. NewJob(t, t \in Magnet) \in {NewJob(t, TRUE), NewJob(t, FALSE)}
          <5>1. CASE t \in Magnet
            <6>1. (t \in Magnet) = TRUE
              BY <5>1
            <6>2. QED
              BY <6>1, Zenon
          <5>2. CASE t \notin Magnet
            <6>1. (t \in Magnet) = FALSE
              BY <5>2
            <6>2. QED
              BY <6>1, Zenon
          <5>3. QED
            BY <5>1, <5>2
        <4>2. QED
          BY <2>1, <4>1
      <3>2. QED
        BY <1>0, <3>1, NewDownload DEF Core
    <2>3. \A o : o = d[t] => \A k : k = Len(job) + 1 => Due(t, o, "ok", k)'
      BY <1>7, <2>2 DEF Due
    <2>4. /\ TasksRight' /\ WireRight' /\ d' \in [Task -> TaskRec] /\ wire' \in Seq(MsgRec)
      <3>1. PICK k \in Nat : k = Len(job) + 1
        BY <1>0
      <3>2. QED
        BY <1>0, <1>4, <1>5, <2>1, <2>2, <2>3, <3>1, AnswerRight DEF Core
    <2>5. QED
      BY <1>0, <1>2, <1>4, <1>5, <2>1, <2>2, <2>4 DEF Types, Core
  <1>8. CASE d[t].pc = "status"
    <2>1. Answers(t, job[g].st, job[g].next, << >>) /\ UNCHANGED job
      BY <1>8 DEF Serve, At
    <2>2. job[g].st \in Said /\ job[g].st \in Sts /\ job[g].next \in Nat
      BY <1>1, <1>8 DEF JobRec, Said
    <2>3. ASSUME NEW o, o = d[t], NEW a, a = job[g].st, NEW k, k = job[g].next
          PROVE  Due(t, o, a, k)'
      <3>1. k # 0 => Own(t, k)'
        BY <1>1, <1>8, <2>1, <2>3 DEF Core, JobsRight, Own
      <3>2. k = 0 /\ a \in {"complete", "seeding"} => Content(o.gid)'
        BY <1>1, <1>8, <2>1, <2>3 DEF Core, JobsRight, Complete, Content
      <3>3. QED
        BY <1>8, <2>2, <2>3, <3>1, <3>2 DEF Due
    <2>4. /\ TasksRight' /\ WireRight' /\ d' \in [Task -> TaskRec] /\ wire' \in Seq(MsgRec)
      <3>1. PICK a \in Said, k \in Nat : a = job[g].st /\ k = job[g].next
        BY <2>2
      <3>2. Answers(t, a, k, << >>) /\ \A o : o = d[t] => Due(t, o, a, k)'
        BY <2>1, <2>3, <3>1
      <3>3. QED
        BY <1>0, <1>3, <1>6, <2>1, <3>2, AnswerRight DEF Core
    <2>5. QED
      BY <1>0, <1>2, <1>3, <1>6, <2>1, <2>2, <2>4 DEF Types, Core
  <1>9. CASE d[t].pc = "remove"
    <2>1. /\ \/ /\ job[g].st \in {"active", "seeding"}
                /\ job' = [job EXCEPT ![g].st = "removed"] /\ Answers(t, "ok", g, <<Notice(g)>>)
             \/ Answers(t, "failed", g, << >>) /\ UNCHANGED job
      BY <1>9 DEF Serve, At
    <2>2. ASSUME NEW o, o = d[t], NEW a, NEW k PROVE Due(t, o, a, k)'
      BY <1>9, <2>2 DEF Due
    <2>3. job' \in Seq(JobRec) /\ Grows /\ JobsRight' /\ \A u \in Task : Lasts(d[u])
      <3>1. CASE job' = [job EXCEPT ![g].st = "removed"]
        <4>1. /\ job' \in Seq(JobRec) /\ Grows /\ JobsRight'
              /\ \A h : h # g /\ Complete(h) => Complete(h)'
          <5>1. PICK h \in DOMAIN job : h = g
            BY <1>0, <1>1, <1>9
          <5>2. job' = [job EXCEPT ![h].st = "removed"]
            BY <3>1, <5>1
          <5>3. QED
            BY <5>1, <5>2, StateChanges DEF Core, Sts
        <4>2. ASSUME NEW u \in Task PROVE Lasts(d[u])
          <5>1. d[u].pc \in {"status", "transfer"} => Own(u, d[u].gid) /\ u # t
            BY <1>9 DEF Core, TasksRight, TaskRight
          <5>2. d[u].pc \in {"status", "transfer"} => d[u].gid # g
            BY <1>1, <1>9, <5>1 DEF Own
          <5>3. QED
            BY <4>1, <5>2 DEF Lasts, Complete
        <4>3. QED
          BY <4>1, <4>2
      <3>2. QED
        BY <1>6, <2>1, <3>1
    <2>4. /\ TasksRight' /\ WireRight' /\ d' \in [Task -> TaskRec] /\ wire' \in Seq(MsgRec)
      <3>1. PICK k \in Nat : k = g
        BY <1>0
      <3>2. \A o : o = d[t] => Due(t, o, "ok", k)' /\ Due(t, o, "failed", k)'
        BY <2>2
      <3>3. CASE Answers(t, "ok", g, <<Notice(g)>>)
        BY <1>0, <1>4, <1>5, <2>3, <3>1, <3>2, <3>3, AnswerRight DEF Core
      <3>4. CASE Answers(t, "failed", g, << >>)
        BY <1>0, <1>3, <1>5, <2>3, <3>1, <3>2, <3>4, AnswerRight DEF Core
      <3>5. QED
        BY <2>1, <3>3, <3>4
    <2>5. QED
      BY <1>0, <1>2, <1>3, <1>4, <1>5, <2>1, <2>3, <2>4 DEF Types, Core
  <1>10. QED
    BY <1>0, <1>7, <1>8, <1>9 DEF Calls

-----------------------------------------------------------------------------
(* The tasks.                                                              *)

\* What a step of task t to state o does to the rest.
Goes(t, o) ==
  /\ o \in TaskRec /\ d' = [d EXCEPT ![t] = o] /\ TaskRight(t, o)
  /\ \/ wire' = wire /\ ~(d[t].pc \in Calls /\ d[t].ans = "served")
     \/ wire' = Forgotten(t)
  /\ o.pc \in {"loop", "status", "remove"} => <<o.gid, <<t, o.tries>>>> \in signals'
  /\ \A e \in signals : e \in signals' \/ (d[t].pc = "status" /\ e[1] = d[t].gid)
  /\ o.pc \in {"added", "succeeded"} =>
       /\ \E x \in transfers' : x.of = t
       /\ Good(t) => t \in temp \cup dst
  /\ transfers \subseteq transfers'
  /\ \A x \in transfers' : x \in transfers \/ (x \in MoveRec /\ x.st = "pending")
  /\ UNCHANGED <<job, temp, dst, crashes>> /\ fails' \in Nat

\* Forgetting the answers to a task leaves those to the others.
LEMMA ForgottenIs ==
  ASSUME wire \in Seq(MsgRec), NEW t \in Task
  PROVE  /\ Forgotten(t) \in Seq(MsgRec) /\ Len(Forgotten(t)) = Len(wire)
         /\ \A i \in 1 .. Len(wire) :
              \/ Forgotten(t)[i].to = None
              \/ Forgotten(t)[i] = wire[i] /\ wire[i].to # t
PROOF
  <1>1. DOMAIN wire = 1 .. Len(wire) /\ \A i \in 1 .. Len(wire) : wire[i] \in MsgRec
    OBVIOUS
  <1>2. Notice(0) \in MsgRec /\ Notice(0).to = None
    BY Messages
  <1>3. /\ Forgotten(t) = [i \in 1 .. Len(wire) |-> IF wire[i].to = t THEN Notice(0) ELSE wire[i]]
    BY <1>1 DEF Forgotten
  <1>4. Forgotten(t) \in Seq(MsgRec) /\ Len(Forgotten(t)) = Len(wire)
    BY <1>1, <1>2, <1>3
  <1>5. QED
    BY <1>2, <1>3, <1>4

\* A step of one task keeps the invariant.
LEMMA GoesKeeps ==
  ASSUME IInv, NEW t \in Task, NEW o, Goes(t, o)
  PROVE  IInv'
PROOF
  <1>0. /\ Types /\ JobsRight /\ TasksRight /\ WireRight /\ Reached /\ Kept
        /\ wire \in Seq(MsgRec) /\ job \in Seq(JobRec) /\ d \in [Task -> TaskRec]
        /\ o \in TaskRec /\ job' = job
    BY DEF IInv, Types, Goes
  <1>1. d' \in [Task -> TaskRec] /\ d'[t] = o /\ \A u \in Task \ {t} : d'[u] = d[u]
    BY <1>0 DEF Goes
  <1>2. Grows /\ JobsRight' /\ \A u \in Task : Lasts(d[u])
    BY <1>0 DEF Grows, JobsRight, Own, Complete, Lasts
  <1>3. TaskRight(t, o)'
    BY <1>0 DEF Goes, TaskRight, Own, Due, Content, Complete
  <1>4. /\ wire' \in Seq(MsgRec) /\ Len(wire') = Len(wire)
        /\ \A i \in 1 .. Len(wire') : wire'[i].to = None \/ (wire'[i] = wire[i] /\ wire[i].to # t)
    <2>1. CASE wire' = wire /\ ~(d[t].pc \in Calls /\ d[t].ans = "served")
      <3>1. \A i \in 1 .. Len(wire) : wire[i].to # t
        BY <1>0, <2>1 DEF WireRight, MsgRight
      <3>2. QED
        BY <1>0, <2>1, <3>1
    <2>2. CASE wire' = Forgotten(t)
      BY <1>0, <2>2, ForgottenIs
    <2>3. QED
      BY <2>1, <2>2 DEF Goes
  <1>5. Single'
    <2>1. \A i \in 1 .. Len(wire') : wire'[i].to \in Task => wire'[i] = wire[i]
      BY <1>4, Parameters
    <2>2. QED
      BY <1>0, <1>4, <2>1 DEF WireRight, Single
  <1>6. TasksRight' /\ WireRight'
    <2>1. d' = [d EXCEPT ![t] = o]
      BY DEF Goes
    <2>2. \A i \in 1 .. Len(wire') :
            wire'[i].to = None \/ \E k \in 1 .. Len(wire) : wire'[i] = wire[k] /\ wire[k].to # t
      BY <1>4
    <2>3. QED
      BY <1>0, <1>2, <1>3, <1>4, <1>5, <2>1, <2>2, OneMoves
  <1>7. Types'
    <2>1. transfers' \subseteq MoveRec
      BY <1>0 DEF Types, Goes
    <2>2. QED
      BY <1>0, <1>1, <1>4, <2>1 DEF Types, Goes
  <1>8. Reached'
    <2> SUFFICES ASSUME NEW u \in Task, d'[u].pc \in {"loop", "status", "remove"}
                 PROVE  <<d'[u].gid, <<u, d'[u].tries>>>> \in signals'
      BY DEF Reached, Channel
    <2>1. CASE u = t
      BY <1>1, <2>1 DEF Goes
    <2>2. CASE u # t
      <3>1. <<d[u].gid, <<u, d[u].tries>>>> \in signals /\ d'[u] = d[u]
        BY <1>0, <1>1, <2>2 DEF Reached, Channel
      <3>2. d[t].pc = "status" => d[t].gid # d[u].gid
        BY <1>0, <1>1, <2>2 DEF TasksRight, TaskRight, Own
      <3>3. QED
        BY <3>1, <3>2 DEF Goes
    <2>3. QED
      BY <2>1, <2>2
  <1>9. Kept'
    <2>1. ASSUME NEW u \in Task, d'[u].pc \in {"added", "succeeded"}
          PROVE  (\E x \in transfers' : x.of = u) /\ (Good(u) => u \in temp' \cup dst')
      <3>1. CASE u = t
        BY <1>1, <2>1, <3>1 DEF Goes
      <3>2. CASE u # t
        BY <1>0, <1>1, <2>1, <3>2 DEF Goes, Kept
      <3>3. QED
        BY <3>1, <3>2
    <2>2. \A x \in transfers' : x.st = "uploaded" => x.of \in dst'
      BY <1>0 DEF Goes, Kept
    <2>3. QED
      BY <2>1, <2>2 DEF Kept, Good
  <1>10. QED
    BY <1>2, <1>6, <1>7, <1>8, <1>9 DEF IInv

\* A task that is not at its download is right whatever it holds.
LEMMA AwayIsRight ==
  ASSUME NEW t, NEW o, o.pc \in {"none", "pending", "added"} \cup Ended
  PROVE  TaskRight(t, o)
PROOF
  BY DEF TaskRight, Calls, Ended

\* Run has returned: the task waits for its next run or is over.
LEMMA EndsIs ==
  ASSUME NEW t \in Task, NEW o \in TaskRec, NEW how \in {"succeeded", "failed", "cancelled"},
         Ends(t, o, how)
  PROVE  \E v \in TaskRec :
           /\ d' = [d EXCEPT ![t] = v] /\ TaskRight(t, v)
           /\ v.pc = how \/ (v.pc = "pending" /\ how = "failed")
PROOF
  <1>1. NoTask \in TaskRec
    BY DEF NoTask, TaskRec, Pcs, Said
  <1>2. o.tries \in Nat /\ o.retried \in Nat
    BY DEF TaskRec
  <1> DEFINE v == [NoTask EXCEPT !.pc = "pending", !.tries = o.tries + 1, !.retried = o.retried]
             w == [NoTask EXCEPT !.pc = how, !.tries = o.tries]
  <1>3. v \in TaskRec /\ v.pc = "pending"
    <2>1. ASSUME NEW k \in Nat, NEW r \in Nat
          PROVE  /\ [NoTask EXCEPT !.pc = "pending", !.tries = k, !.retried = r] \in TaskRec
                 /\ [NoTask EXCEPT !.pc = "pending", !.tries = k, !.retried = r].pc = "pending"
      BY <1>1 DEF TaskRec, Pcs
    <2>2. o.tries + 1 \in Nat
      BY <1>2
    <2>3. QED
      BY <1>2, <2>1, <2>2
  <1>4. w \in TaskRec /\ w.pc = how
    BY <1>1, <1>2 DEF TaskRec, Pcs
  <1>5. \/ d' = [d EXCEPT ![t] = w]
        \/ how = "failed" /\ d' = [d EXCEPT ![t] = v]
    BY DEF Ends, To
  <1> HIDE DEF v, w
  <1>6. TaskRight(t, v) /\ TaskRight(t, w)
    BY <1>3, <1>4, AwayIsRight DEF Ended
  <1>7. QED
    BY <1>3, <1>4, <1>5, <1>6

\* A call is made from a state in which no answer is on its way.
LEMMA CallIs ==
  ASSUME Types, NEW t \in Task, NEW what \in Calls, Call(t, d[t], what),
         what # "add" => Own(t, d[t].gid)
  PROVE  \E o \in TaskRec :
           /\ d' = [d EXCEPT ![t] = o] /\ TaskRight(t, o)
           /\ o.pc = what /\ o.gid = d[t].gid /\ o.tries = d[t].tries
PROOF
  <1> DEFINE o == [d[t] EXCEPT !.pc = what, !.ans = "sent"]
  <1>1. d[t] \in TaskRec
    BY DEF Types
  <1>2. /\ o \in TaskRec /\ o.pc = what /\ o.ans = "sent"
        /\ o.gid = d[t].gid /\ o.tries = d[t].tries
    BY <1>1 DEF TaskRec, Calls, Pcs, Said
  <1>3. d' = [d EXCEPT ![t] = o]
    BY DEF Call, To
  <1> HIDE DEF o
  <1>4. TaskRight(t, o)
    BY <1>2 DEF TaskRight, Calls
  <1>5. QED
    BY <1>2, <1>3, <1>4

\* What is left alone by a step that touches neither aria2, the wire nor the transfers.
LEMMA Alike ==
  ASSUME IInv, NEW t \in Task, NEW o \in TaskRec, d' = [d EXCEPT ![t] = o], TaskRight(t, o),
         UNCHANGED <<aria2, wire, transfers, dst, crashes>>, fails' \in Nat,
         ~(d[t].pc \in Calls /\ d[t].ans = "served"),
         o.pc \in {"loop", "status", "remove"} => <<o.gid, <<t, o.tries>>>> \in signals',
         \A e \in signals : e \in signals' \/ (d[t].pc = "status" /\ e[1] = d[t].gid),
         o.pc \in {"added", "succeeded"} => d[t].pc = "added"
  PROVE  Goes(t, o)
PROOF
  <1>1. o.pc \in {"added", "succeeded"} =>
          (\E x \in transfers : x.of = t) /\ (Good(t) => t \in temp \cup dst)
    BY DEF IInv, Kept
  <1>2. QED
    BY <1>1 DEF Goes, aria2

\* Each step of a task is one that goes somewhere.
LEMMA AddRunGoes ==
  ASSUME IInv, NEW t \in Task, AddURL(t) \/ Run(t)
  PROVE  \E o : Goes(t, o)
PROOF
  <1>0. Types /\ d[t] \in TaskRec /\ fails \in Nat
    BY DEF IInv, Types
  <1>1. CASE AddURL(t)
    <2> DEFINE o == [NoTask EXCEPT !.pc = "pending"]
    <2>1. o \in TaskRec /\ o.pc = "pending"
      BY DEF NoTask, TaskRec, Pcs, Said
    <2>2. d[t].pc = "none" /\ d' = [d EXCEPT ![t] = o]
      BY <1>1 DEF AddURL, At, To
    <2> HIDE DEF o
    <2>3. TaskRight(t, o)
      BY <2>1, AwayIsRight
    <2>4. Goes(t, o)
      BY <1>0, <1>1, <2>1, <2>2, <2>3, Alike DEF AddURL, Calls, bounds, link
    <2>5. QED
      BY <2>4
  <1>2. CASE Run(t)
    <2>1. d[t].pc = "pending" /\ Call(t, d[t], "add")
      BY <1>2 DEF Run, At
    <2>2. PICK o \in TaskRec : d' = [d EXCEPT ![t] = o] /\ TaskRight(t, o) /\ o.pc = "add"
      BY <1>0, <2>1, CallIs DEF Calls
    <2>3. Goes(t, o)
      BY <1>0, <1>2, <2>1, <2>2, Alike DEF Run, Calls, bounds, link
    <2>4. QED
      BY <2>3
  <1>3. QED
    BY <1>1, <1>2

\* The loop makes its next call.
LEMMA LoopGoes ==
  ASSUME IInv, NEW t \in Task, Cancelled(t) \/ Signal(t) \/ Poll(t)
  PROVE  \E o : Goes(t, o)
PROOF
  <1>0. Types /\ d[t] \in TaskRec /\ fails \in Nat
    BY DEF IInv, Types
  <1>1. /\ d[t].pc = "loop" /\ (Call(t, d[t], "remove") \/ Call(t, d[t], "status"))
        /\ UNCHANGED <<aria2, wire, signals, transfers, dst, bounds>>
    BY DEF Cancelled, Signal, Poll, Timer, At, link
  <1>2. Own(t, d[t].gid) /\ <<d[t].gid, <<t, d[t].tries>>>> \in signals
    BY <1>1 DEF IInv, TasksRight, TaskRight, Reached, Channel
  <1>3. PICK o \in TaskRec : /\ d' = [d EXCEPT ![t] = o] /\ TaskRight(t, o)
                             /\ o.pc \in {"status", "remove"}
                             /\ o.gid = d[t].gid /\ o.tries = d[t].tries
    BY <1>0, <1>1, <1>2, CallIs DEF Calls
  <1>4. Goes(t, o)
    BY <1>0, <1>1, <1>2, <1>3, Alike DEF Calls, bounds
  <1>5. QED
    BY <1>4

\* A task that has its GID registers its channel for it.
LEMMA RegisterGoes ==
  ASSUME IInv, NEW t \in Task, Register(t)
  PROVE  \E o : Goes(t, o)
PROOF
  <1>0. /\ Types /\ d[t] \in TaskRec /\ fails \in Nat /\ d[t].pc = "add" /\ d[t].ans \in {"ok", "failed"}
        /\ UNCHANGED <<aria2, wire, transfers, dst, bounds>>
    BY DEF IInv, Types, Register, At, link
  <1>1. CASE d[t].ans = "ok"
    <2> DEFINE o == [d[t] EXCEPT !.pc = "loop", !.ans = None, !.gid = d[t].got, !.got = 0]
    <2>1. d[t].got \in Nat
      BY <1>0 DEF TaskRec
    <2>2. o \in TaskRec /\ o.pc = "loop" /\ o.gid = d[t].got /\ o.tries = d[t].tries
      BY <1>0, <2>1 DEF TaskRec, Pcs
    <2>3. d' = [d EXCEPT ![t] = o] /\ signals' = signals \cup {<<d[t].got, <<t, d[t].tries>>>>}
      BY <1>1 DEF Register, To, Channel
    <2> HIDE DEF o
    <2>4. Own(t, d[t].got)
      BY <1>0, <1>1 DEF IInv, TasksRight, TaskRight, Due, Calls
    <2>5. TaskRight(t, o)
      BY <2>2, <2>4 DEF TaskRight, Calls
    <2>6. Goes(t, o)
      BY <1>0, <1>1, <2>2, <2>3, <2>5, Alike DEF bounds
    <2>7. QED
      BY <2>6
  <1>2. CASE d[t].ans = "failed"
    <2>1. Ends(t, d[t], "failed") /\ signals' = signals
      BY <1>2 DEF Register
    <2>2. PICK o \in TaskRec : /\ d' = [d EXCEPT ![t] = o] /\ TaskRight(t, o)
                               /\ o.pc \in {"failed", "pending"}
      BY <1>0, <2>1, EndsIs
    <2>3. Goes(t, o)
      BY <1>0, <1>2, <2>1, <2>2, Alike DEF bounds
    <2>4. QED
      BY <2>3
  <1>3. QED
    BY <1>0, <1>1, <1>2

\* A call that fails, and the loop after a failed status call.
LEMMA FailureGoes ==
  ASSUME IInv, NEW t \in Task, CallFails(t) \/ StatusFailed(t)
  PROVE  \E o : Goes(t, o)
PROOF
  <1>0. /\ Types /\ d[t] \in TaskRec /\ fails \in Nat /\ d[t].pc \in Calls
        /\ UNCHANGED <<aria2, transfers, signals, dst, crashes>>
    BY DEF IInv, Types, CallFails, StatusFailed, At, Calls, bounds
  <1>1. d[t].pc \in {"status", "remove"} =>
          Own(t, d[t].gid) /\ <<d[t].gid, <<t, d[t].tries>>>> \in signals
    BY DEF IInv, TasksRight, TaskRight, Reached, Channel
  <1>2. CASE CallFails(t)
    <2> DEFINE o == [d[t] EXCEPT !.ans = "failed"]
    <2>1. /\ o \in TaskRec /\ o.pc = d[t].pc /\ o.gid = d[t].gid /\ o.tries = d[t].tries
          /\ o.ans = "failed"
      BY <1>0 DEF TaskRec, Said
    <2>2. d' = [d EXCEPT ![t] = o] /\ wire' = Forgotten(t) /\ fails' \in Nat
      BY <1>0, <1>2 DEF CallFails, To
    <2> HIDE DEF o
    <2>3. TaskRight(t, o)
      BY <1>0, <1>1, <2>1 DEF TaskRight, Calls
    <2>4. Goes(t, o)
      BY <1>0, <1>1, <2>1, <2>2, <2>3 DEF Goes, aria2, Calls
    <2>5. QED
      BY <2>4
  <1>3. CASE StatusFailed(t)
    <2> DEFINE r == Least(d[t].retried + 1, Tolerated + 1)
               o == [d[t] EXCEPT !.pc = "loop", !.ans = None, !.retried = r]
    <2>1. r \in Nat
      BY <1>0, Parameters DEF TaskRec, Least
    <2>2. d' = [d EXCEPT ![t] = o] /\ d[t].pc = "status" /\ d[t].ans = "failed"
      BY <1>3 DEF StatusFailed, To, At
    <2> HIDE DEF r
    <2>3. o \in TaskRec /\ o.pc = "loop" /\ o.gid = d[t].gid /\ o.tries = d[t].tries
      BY <1>0, <2>1 DEF TaskRec, Pcs
    <2> HIDE DEF o
    <2>4. TaskRight(t, o)
      BY <1>1, <2>2, <2>3 DEF TaskRight, Calls
    <2>5. Goes(t, o)
      BY <1>0, <1>1, <1>3, <2>2, <2>3, <2>4, Alike DEF StatusFailed, link, bounds
    <2>6. QED
      BY <2>5
  <1>4. QED
    BY <1>2, <1>3

\* What Update goes by: a follower, content that is there, or neither.
LEMMA UpdateGoes ==
  ASSUME IInv, NEW t \in Task, Update(t)
  PROVE  \E o : Goes(t, o)
PROOF
  <1> DEFINE p == [d[t] EXCEPT !.ans = None, !.got = 0]
             r == Judged(d[t].ans, d[t].got)
             q == [p EXCEPT !.retried = 0]
  <1>0. /\ Types /\ d[t] \in TaskRec /\ fails \in Nat /\ d[t].pc = "status"
        /\ d[t].ans \notin {"sent", "served", "failed"}
        /\ UNCHANGED <<aria2, wire, transfers, dst, bounds>>
        /\ signals' = IF d[t].got = 0 THEN signals ELSE Moved(d[t].gid, d[t].got, <<t, d[t].tries>>)
    BY DEF IInv, Types, Update, At, link, Channel
  <1>1. /\ Own(t, d[t].gid) /\ <<d[t].gid, <<t, d[t].tries>>>> \in signals
        /\ Due(t, d[t], d[t].ans, d[t].got)
    BY <1>0 DEF IInv, TasksRight, TaskRight, Reached, Channel, Calls
  <1>2. d[t].got # 0 => Own(t, d[t].got)
    BY <1>0, <1>1 DEF Due
  <1>3. \A e \in signals : e \in signals' \/ e[1] = d[t].gid
    BY <1>0 DEF Moved
  <1>4. d[t].got # 0 => <<d[t].got, <<t, d[t].tries>>>> \in signals'
    BY <1>0 DEF Moved
  <1>5. /\ p \in TaskRec /\ p.pc = "status" /\ p.gid = d[t].gid /\ p.tries = d[t].tries
        /\ q \in TaskRec /\ q.pc = "status" /\ q.gid = d[t].gid /\ q.tries = d[t].tries
    <2>1. p \in TaskRec /\ p.pc = "status" /\ p.gid = d[t].gid /\ p.tries = d[t].tries
      BY <1>0 DEF TaskRec
    <2> HIDE DEF p
    <2>2. QED
      BY <2>1 DEF TaskRec
  <1>6. ASSUME NEW o \in TaskRec, d' = [d EXCEPT ![t] = o], TaskRight(t, o),
               o.pc \in {"loop", "transfer", "failed", "pending"},
               o.pc = "loop" => <<o.gid, <<t, o.tries>>>> \in signals'
        PROVE  Goes(t, o)
    BY <1>0, <1>3, <1>6, Alike DEF bounds
  <1>7. ASSUME NEW x \in TaskRec, Ends(t, x, "failed")
        PROVE  \E o : Goes(t, o)
    <2>1. PICK o \in TaskRec : /\ d' = [d EXCEPT ![t] = o] /\ TaskRight(t, o)
                               /\ o.pc \in {"failed", "pending"}
      BY <1>7, EndsIs
    <2>2. QED
      BY <1>6, <2>1
  <1>8. \/ Ends(t, p, "failed")
        \/ Ends(t, q, "failed")
        \/ r = "followed" /\ To(t, [p EXCEPT !.pc = "loop", !.retried = 0, !.gid = d[t].got])
        \/ r = "transfer" /\ To(t, [p EXCEPT !.pc = "transfer", !.retried = 0])
        \/ r = "active" /\ To(t, [p EXCEPT !.pc = "loop", !.retried = 0])
    BY DEF Update
  <1> HIDE DEF q
  <1>9. CASE r = "followed" /\ To(t, [p EXCEPT !.pc = "loop", !.retried = 0, !.gid = d[t].got])
    <2> DEFINE o == [p EXCEPT !.pc = "loop", !.retried = 0, !.gid = d[t].got]
    <2>1. d[t].got # 0 /\ d[t].got \in Nat
      <3>1. d[t].ans \in Sts /\ d[t].got \in Nat
        BY <1>0, <1>1 DEF Due, TaskRec
      <3>2. QED
        BY <1>9, <3>1 DEF Judged, Sts
    <2> HIDE DEF p, r
    <2>2. o \in TaskRec /\ o.pc = "loop" /\ o.gid = d[t].got /\ o.tries = d[t].tries
      BY <1>5, <2>1 DEF TaskRec, Pcs
    <2>3. d' = [d EXCEPT ![t] = o]
      BY <1>9 DEF To
    <2> HIDE DEF o
    <2>4. TaskRight(t, o)
      BY <1>2, <2>1, <2>2 DEF TaskRight, Calls
    <2>5. QED
      BY <1>4, <1>6, <2>1, <2>2, <2>3, <2>4
  <1>10. CASE r = "transfer" /\ To(t, [p EXCEPT !.pc = "transfer", !.retried = 0])
    <2> DEFINE o == [p EXCEPT !.pc = "transfer", !.retried = 0]
    <2>1. d[t].got = 0 /\ d[t].ans \in {"complete", "seeding"}
      <3>1. d[t].ans \in Sts
        BY <1>0, <1>1 DEF Due
      <3>2. QED
        BY <1>10, <3>1 DEF Judged, Sts
    <2> HIDE DEF p, r
    <2>2. o \in TaskRec /\ o.pc = "transfer" /\ o.gid = d[t].gid
      BY <1>5 DEF TaskRec, Pcs
    <2>3. d' = [d EXCEPT ![t] = o]
      BY <1>10 DEF To
    <2> HIDE DEF o
    <2>4. Content(d[t].gid)
      BY <1>0, <1>1, <2>1 DEF Due
    <2>5. TaskRight(t, o)
      BY <1>1, <2>2, <2>4 DEF TaskRight, Calls
    <2>6. QED
      BY <1>6, <2>2, <2>3, <2>5
  <1>11. CASE r = "active" /\ To(t, [p EXCEPT !.pc = "loop", !.retried = 0])
    <2> DEFINE o == [p EXCEPT !.pc = "loop", !.retried = 0]
    <2>1. d[t].got = 0
      BY <1>11 DEF Judged
    <2> HIDE DEF p, r
    <2>2. o \in TaskRec /\ o.pc = "loop" /\ o.gid = d[t].gid /\ o.tries = d[t].tries
      BY <1>5 DEF TaskRec, Pcs
    <2>3. d' = [d EXCEPT ![t] = o]
      BY <1>11 DEF To
    <2> HIDE DEF o
    <2>4. TaskRight(t, o)
      BY <1>1, <2>2 DEF TaskRight, Calls
    <2>5. <<o.gid, <<t, o.tries>>>> \in signals'
      BY <1>0, <1>1, <2>1, <2>2
    <2>6. QED
      BY <1>6, <2>2, <2>3, <2>4, <2>5
  <1>12. QED
    BY <1>5, <1>7, <1>8, <1>9, <1>10, <1>11

\* The end of a download: its removal, its transfer task, its success.
LEMMA EndGoes ==
  ASSUME IInv, NEW t \in Task, Removed(t) \/ AddTransfer(t) \/ Succeed(t)
  PROVE  \E o : Goes(t, o)
PROOF
  <1>0. /\ Types /\ d[t] \in TaskRec /\ fails \in Nat /\ crashes \in Nat
        /\ UNCHANGED <<aria2, wire, signals, dst, bounds>>
    BY DEF IInv, Types, Removed, AddTransfer, Succeed, link
  <1>1. CASE Removed(t)
    <2>1. Ends(t, d[t], "cancelled") /\ d[t].ans # "served" /\ UNCHANGED transfers
      BY <1>1 DEF Removed
    <2>2. PICK o \in TaskRec : d' = [d EXCEPT ![t] = o] /\ TaskRight(t, o) /\ o.pc = "cancelled"
      BY <1>0, <2>1, EndsIs
    <2>3. Goes(t, o)
      BY <1>0, <2>1, <2>2, Alike DEF bounds
    <2>4. QED
      BY <2>3
  <1>2. CASE Succeed(t)
    <2>1. Ends(t, d[t], "succeeded") /\ d[t].pc = "added" /\ UNCHANGED transfers
      BY <1>2 DEF Succeed, At
    <2>2. PICK o \in TaskRec : d' = [d EXCEPT ![t] = o] /\ TaskRight(t, o) /\ o.pc = "succeeded"
      BY <1>0, <2>1, EndsIs
    <2>3. Goes(t, o)
      BY <1>0, <2>1, <2>2, Alike DEF bounds, Calls
    <2>4. QED
      BY <2>3
  <1>3. CASE AddTransfer(t) /\ Ends(t, d[t], "failed") /\ UNCHANGED transfers
    <2>1. d[t].pc = "transfer"
      BY <1>3 DEF AddTransfer, At
    <2>2. PICK o \in TaskRec : /\ d' = [d EXCEPT ![t] = o] /\ TaskRight(t, o)
                               /\ o.pc \in {"failed", "pending"}
      BY <1>0, <1>3, EndsIs
    <2>3. Goes(t, o)
      BY <1>0, <1>3, <2>1, <2>2, Alike DEF bounds, Calls
    <2>4. QED
      BY <2>3
  <1>4. CASE /\ AddTransfer(t) /\ t \in temp
             /\ transfers' = transfers \cup
                  {[of |-> t, n |-> crashes, st |-> "pending", storage |-> TRUE]}
             /\ To(t, [d[t] EXCEPT !.pc = "added"])
    <2> DEFINE o == [d[t] EXCEPT !.pc = "added"]
               x == [of |-> t, n |-> crashes, st |-> "pending", storage |-> TRUE]
    <2>1. x \in MoveRec /\ x.of = t /\ x.st = "pending"
      BY <1>0 DEF MoveRec
    <2>2. o \in TaskRec /\ o.pc = "added"
      BY <1>0 DEF TaskRec, Pcs
    <2>3. d' = [d EXCEPT ![t] = o] /\ transfers' = transfers \cup {x} /\ d[t].pc = "transfer"
      BY <1>4 DEF To, AddTransfer, At
    <2> HIDE DEF o, x
    <2>4. TaskRight(t, o)
      BY <2>2, AwayIsRight
    <2>5. \E y \in transfers' : y.of = t
      BY <2>1, <2>3
    <2>6. Goes(t, o)
      BY <1>0, <1>4, <2>1, <2>2, <2>3, <2>4, <2>5 DEF Goes, bounds, aria2, Calls
    <2>7. QED
      BY <2>6
  <1>5. QED
    BY <1>1, <1>2, <1>3, <1>4 DEF AddTransfer

-----------------------------------------------------------------------------
(* The reader, the transfers, and the program's end and start.             *)

\* The reader gives a task the answer it waits for, or a channel a notification.
LEMMA ReceiveKeeps ==
  ASSUME IInv, Receive
  PROVE  IInv'
PROOF
  <1> DEFINE m == Head(wire)
             t == m.to
  <1>0. /\ Types /\ JobsRight /\ TasksRight /\ WireRight /\ Reached /\ Kept
        /\ wire \in Seq(MsgRec) /\ job \in Seq(JobRec) /\ d \in [Task -> TaskRec]
        /\ wire # << >> /\ wire' = Tail(wire)
        /\ UNCHANGED <<aria2, signals, transfers, dst, bounds>>
    BY DEF IInv, Types, Receive
  <1>1. /\ Len(wire) >= 1 /\ m = wire[1] /\ m \in MsgRec
        /\ wire' \in Seq(MsgRec) /\ Len(wire') = Len(wire) - 1
        /\ \A i \in 1 .. Len(wire') : i + 1 \in 1 .. Len(wire) /\ wire'[i] = wire[i + 1]
    BY <1>0
  <1>2. t \in Task \cup {None} /\ m.ans \in Said /\ m.got \in Nat
    BY <1>1 DEF MsgRec
  <1> HIDE DEF m
  <1>3. Single'
    <2> SUFFICES ASSUME NEW i \in 1 .. Len(wire'), NEW j \in 1 .. Len(wire'),
                        wire'[i].to \in Task, wire'[i].to = wire'[j].to
                 PROVE  i = j
      BY DEF Single
    <2>1. i + 1 = j + 1
      BY <1>0, <1>1 DEF WireRight, Single
    <2>2. QED
      BY <2>1
  <1>4. Grows /\ JobsRight' /\ \A u \in Task : Lasts(d[u])
    BY <1>0 DEF aria2, Grows, JobsRight, Own, Complete, Lasts
  <1>5. job' = job /\ temp' = temp /\ UNCHANGED <<signals, transfers, dst, fails, crashes>>
    BY <1>0 DEF aria2, bounds
  <1>6. ASSUME d' \in [Task -> TaskRec], TasksRight', WireRight',
               \A u \in Task : d'[u].pc = d[u].pc /\ d'[u].gid = d[u].gid /\ d'[u].tries = d[u].tries
        PROVE  IInv'
    <2>1. Types'
      BY <1>0, <1>1, <1>5, <1>6 DEF Types
    <2>2. Reached'
      BY <1>0, <1>5, <1>6 DEF Reached, Channel
    <2>3. Kept'
      BY <1>0, <1>5, <1>6 DEF Kept, Good
    <2>4. QED
      BY <1>4, <1>6, <2>1, <2>2, <2>3 DEF IInv
  <1>7. CASE t = None
    <2>1. d' = d
      BY <1>7 DEF Receive, m
    <2>2. TasksRight'
      BY <1>0, <1>5, <2>1 DEF TasksRight, TaskRight, Own, Due, Content, Complete
    <2>3. WireRight'
      <3>1. \A i \in 1 .. Len(wire') : MsgRight(wire[i])'
        BY <1>0, <1>1, <1>5, <2>1 DEF WireRight, MsgRight, Own, Due, Content, Complete
      <3>2. QED
        BY <1>3, <3>1 DEF WireRight
    <2>4. QED
      BY <1>0, <1>6, <2>1, <2>2, <2>3
  <1>8. CASE t \in Task
    <2> DEFINE o == [d[t] EXCEPT !.ans = m.ans, !.got = m.got]
    <2>1. d' = [d EXCEPT ![t] = o]
      BY <1>8, Parameters DEF Receive, m, To
    <2>2. d[t] \in TaskRec /\ d[t].pc \in Calls /\ d[t].ans = "served" /\ Due(t, d[t], m.ans, m.got)
          /\ TaskRight(t, d[t])
      BY <1>0, <1>1, <1>8 DEF WireRight, MsgRight, TasksRight
    <2>3. /\ o \in TaskRec /\ o.pc = d[t].pc /\ o.gid = d[t].gid /\ o.tries = d[t].tries
          /\ o.ans = m.ans /\ o.got = m.got
      BY <1>2, <2>2 DEF TaskRec
    <2> HIDE DEF o
    <2>4. TaskRight(t, o)
      <3>1. Due(t, o, o.ans, o.got)
        BY <2>2, <2>3 DEF Due
      <3>2. QED
        BY <2>2, <2>3, <3>1 DEF TaskRight, Calls
    <2>5. \A i \in 1 .. Len(wire') :
            wire'[i].to = None \/ \E k \in 1 .. Len(wire) : wire'[i] = wire[k] /\ wire[k].to # t
      <3> SUFFICES ASSUME NEW i \in 1 .. Len(wire')
                   PROVE  wire'[i].to = None \/ wire[i + 1].to # t
        BY <1>1
      <3>1. i + 1 \in 1 .. Len(wire) /\ i + 1 # 1
        BY <1>1
      <3>2. 1 \in 1 .. Len(wire) /\ wire[1].to = t
        BY <1>1
      <3>3. QED
        BY <1>0, <1>8, <3>1, <3>2 DEF WireRight, Single
    <2>6. PICK u \in Task, v \in TaskRec : u = t /\ v = o
      BY <1>8, <2>3
    <2>7. TaskRight(u, v)'
      <3>1. TaskRight(u, v)
        BY <2>4, <2>6
      <3>2. QED
        BY <1>5, <3>1 DEF TaskRight, Own, Due, Content, Complete
    <2>8. TasksRight' /\ WireRight' /\ d' \in [Task -> TaskRec]
      <3>1. d' = [d EXCEPT ![u] = v]
        BY <2>1, <2>6
      <3>2. \A i \in 1 .. Len(wire') :
              wire'[i].to = None \/ \E k \in 1 .. Len(wire) : wire'[i] = wire[k] /\ wire[k].to # u
        BY <2>5, <2>6
      <3>3. QED
        BY <1>0, <1>1, <1>3, <1>4, <1>5, <2>7, <3>1, <3>2, OneMoves
    <2>9. \A w \in Task : d'[w].pc = d[w].pc /\ d'[w].gid = d[w].gid /\ d'[w].tries = d[w].tries
      BY <1>0, <2>1, <2>3
    <2>10. QED
      BY <1>6, <2>8, <2>9
  <1>9. QED
    BY <1>2, <1>7, <1>8

\* A transfer keeps the file of a download that succeeded.
LEMMA TransferKeeps ==
  ASSUME IInv, NEW x \in transfers, Upload(x) \/ UploadEnds(x) \/ UploadFails(x)
  PROVE  IInv'
PROOF
  <1>0. /\ Types /\ JobsRight /\ TasksRight /\ WireRight /\ Reached /\ Kept /\ x \in MoveRec
        /\ UNCHANGED <<job, wire, recv, signals, d, fails, crashes>>
    BY DEF IInv, Types, Upload, UploadEnds, UploadFails, End, aria2, link, bounds
  <1>1. JobsRight' /\ TasksRight' /\ WireRight' /\ Reached'
    BY <1>0 DEF JobsRight, TasksRight, TaskRight, WireRight, Single, MsgRight, Reached, Channel,
                Own, Due, Content, Complete
  <1>2. PICK st \in {"uploaded", "succeeded", "failed"} :
          /\ Becomes(x, st)
          /\ st = "uploaded" => x.of \in dst' /\ temp' = temp /\ dst \subseteq dst'
          /\ st # "uploaded" => dst' = dst
          /\ st = "succeeded" => x.st = "uploaded"
          /\ st \in {"succeeded", "failed"} =>
               temp' = IF Deletes(Policy[x.of], st) THEN temp \ {x.of} ELSE temp
    BY DEF Upload, UploadEnds, UploadFails, End, aria2
  <1> DEFINE y == [x EXCEPT !.st = st]
  <1>3. y \in MoveRec /\ y.of = x.of /\ y.st = st
    BY <1>0 DEF MoveRec
  <1>4. transfers' = (transfers \ {x}) \cup {y}
    BY <1>2 DEF Becomes
  <1> HIDE DEF y
  <1>5. Types'
    BY <1>0, <1>3, <1>4 DEF Types
  <1>6. Kept'
    <2>1. ASSUME NEW t \in Task, d'[t].pc \in {"added", "succeeded"}
          PROVE  (\E z \in transfers' : z.of = t) /\ (Good(t) => t \in temp' \cup dst')
      <3>1. PICK z \in transfers : z.of = t
        BY <1>0, <2>1 DEF Kept
      <3>2. Good(t) => t \in temp \cup dst
        BY <1>0, <2>1 DEF Kept
      <3>3. \E w \in transfers' : w.of = t
        BY <1>3, <1>4, <3>1
      <3>4. ASSUME Good(t) PROVE t \in temp' \cup dst'
        <4>1. dst \subseteq dst'
          BY <1>2
        <4>2. CASE x.of # t
          BY <1>2, <3>2, <3>4, <4>1, <4>2
        <4>3. CASE x.of = t /\ st = "succeeded"
          BY <1>0, <1>2, <4>1, <4>3 DEF Kept
        <4>4. CASE x.of = t /\ st = "failed"
          BY <1>2, <3>2, <3>4, <4>1, <4>4 DEF Deletes, Good
        <4>5. CASE st = "uploaded"
          BY <1>2, <3>2, <3>4, <4>1, <4>5
        <4>6. QED
          BY <4>2, <4>3, <4>4, <4>5
      <3>5. QED
        BY <3>3, <3>4
    <2>2. ASSUME NEW z \in transfers', z.st = "uploaded" PROVE z.of \in dst'
      BY <1>0, <1>2, <1>3, <1>4, <2>2 DEF Kept
    <2>3. QED
      BY <2>1, <2>2 DEF Kept, Good
  <1>7. QED
    BY <1>1, <1>5, <1>6 DEF IInv

\* The program starts with the tasks it saved, and with their files.
LEMMA CrashKeeps ==
  ASSUME IInv, Crash
  PROVE  IInv'
PROOF
  <1>0. /\ Types /\ JobsRight /\ Kept /\ d \in [Task -> TaskRec] /\ transfers \subseteq MoveRec
        /\ crashes' \in Nat /\ job' = job /\ dst' = dst /\ fails' = fails /\ wire' = << >>
    BY DEF IInv, Types, Crash
  <1>1. [NoTask EXCEPT !.pc = "pending"] \in TaskRec /\ [NoTask EXCEPT !.pc = "pending"].pc = "pending"
    BY DEF NoTask, TaskRec, Pcs, Said
  <1>2. /\ d' \in [Task -> TaskRec]
        /\ \A t \in Task : \/ d[t].pc \in Ended /\ d'[t] = d[t]
                           \/ d'[t].pc = "pending"
    BY <1>0, <1>1 DEF Crash
  <1>3. \A x \in transfers : Loaded(x) \in MoveRec /\ Loaded(x).of = x.of /\ Loaded(x).st # "uploaded"
    <2> SUFFICES ASSUME NEW x \in MoveRec
                 PROVE  Loaded(x) \in MoveRec /\ Loaded(x).of = x.of /\ Loaded(x).st # "uploaded"
      BY <1>0
    <2> DEFINE st == IF x.st = "uploaded" THEN "pending" ELSE x.st
    <2>1. st \in {"pending", "succeeded", "failed"}
      BY DEF MoveRec
    <2>2. Loaded(x) = [x EXCEPT !.storage = FALSE, !.st = st]
      BY DEF Loaded
    <2> HIDE DEF st
    <2>3. QED
      BY <2>1, <2>2 DEF MoveRec
  <1>4. transfers' = {Loaded(x) : x \in transfers} /\ temp' = IF Cleans(transfers') THEN {} ELSE temp
    BY DEF Crash
  <1>5. Types'
    BY <1>0, <1>2, <1>3, <1>4 DEF Types
  <1>6. TasksRight'
    <2>1. \A t \in Task : d'[t].pc \in {"none", "pending", "added"} \cup Ended
      BY <1>2
    <2>2. QED
      BY <2>1 DEF TasksRight, TaskRight, Calls, Ended
  <1>7. WireRight' /\ Reached' /\ JobsRight'
    <2>1. WireRight'
      BY <1>0 DEF WireRight, Single
    <2>2. Reached'
      BY <1>2 DEF Reached, Ended
    <2>3. JobsRight'
      BY <1>0 DEF JobsRight, Own, Complete
    <2>4. QED
      BY <2>1, <2>2, <2>3
  <1>8. Kept'
    <2>1. ASSUME NEW t \in Task, d'[t].pc \in {"added", "succeeded"}
          PROVE  (\E z \in transfers' : z.of = t) /\ (Good(t) => t \in temp' \cup dst')
      <3>1. d[t].pc = "succeeded"
        BY <1>2, <2>1 DEF Ended
      <3>2. PICK z \in transfers : z.of = t
        BY <1>0, <3>1 DEF Kept
      <3>3. Loaded(z) \in transfers' /\ Loaded(z).of = t
        BY <1>3, <1>4, <3>2
      <3>4. temp' = temp
        BY <1>4, <3>3 DEF Cleans
      <3>5. Good(t) => t \in temp \cup dst
        BY <1>0, <3>1 DEF Kept
      <3>6. QED
        BY <1>0, <3>3, <3>4, <3>5
    <2>2. \A x \in transfers' : x.st = "uploaded" => x.of \in dst'
      BY <1>3, <1>4
    <2>3. QED
      BY <2>1, <2>2 DEF Kept, Good
  <1>9. QED
    BY <1>0, <1>5, <1>6, <1>7, <1>8 DEF IInv

-----------------------------------------------------------------------------
(* The theorems.                                                           *)

\* aria2 and its answers keep the invariant.
LEMMA Aria2Invariant ==
  ASSUME IInv,
         (\E g \in DOMAIN job : Aria2(g)) \/ \E t \in Task : Serve(t)
  PROVE  IInv'
PROOF
  <1>0. Types /\ Core /\ Reached /\ Kept /\ d \in [Task -> TaskRec]
    BY DEF IInv, Core, Types
  <1>1. /\ Types' /\ Core' /\ UNCHANGED <<signals, transfers, dst>> /\ temp \subseteq temp'
        /\ \A u \in Task : d'[u].pc = d[u].pc /\ d'[u].gid = d[u].gid /\ d'[u].tries = d[u].tries
    <2>1. CASE \E g \in DOMAIN job : Aria2(g)
      <3>1. PICK g \in DOMAIN job : Aria2(g)
        BY <2>1
      <3>2. UNCHANGED <<signals, transfers, dst>> /\ temp \subseteq temp'
        BY <3>1 DEF Aria2, JobFollowed, JobComplete, JobSeeded, JobError
      <3>3. QED
        BY <1>0, <3>1, <3>2, Aria2Keeps
    <2>2. CASE \E t \in Task : Serve(t)
      <3>1. PICK t \in Task : Serve(t)
        BY <2>2
      <3>2. UNCHANGED <<signals, transfers, dst, temp>>
        BY <3>1 DEF Serve
      <3>3. QED
        BY <1>0, <3>1, <3>2, ServeKeeps
    <2>3. QED
      BY <2>1, <2>2
  <1>2. Reached'
    BY <1>0, <1>1 DEF Reached, Channel
  <1>3. Kept'
    BY <1>0, <1>1 DEF Kept, Good
  <1>4. QED
    BY <1>1, <1>2, <1>3 DEF IInv, Core

\* The invariant holds when the program starts for the first time.
LEMMA InitInvariant == Init => IInv
PROOF
  <1> SUFFICES ASSUME Init PROVE IInv
    OBVIOUS
  <1>1. NoTask \in TaskRec /\ NoTask.pc = "none"
    BY DEF NoTask, TaskRec, Pcs, Said
  <1>2. d = [t \in Task |-> NoTask]
    BY DEF Init
  <1>3. Types
    BY <1>1, <1>2 DEF Init, Types
  <1>4. TasksRight /\ Reached /\ Kept
    BY <1>1, <1>2 DEF Init, TasksRight, TaskRight, Calls, Reached, Kept
  <1>5. JobsRight /\ WireRight
    BY DEF Init, JobsRight, WireRight, Single
  <1>6. QED
    BY <1>3, <1>4, <1>5 DEF IInv

\* Every step keeps the invariant.
LEMMA NextInvariant == IInv /\ [Next]_vars => IInv'
PROOF
  <1> SUFFICES ASSUME IInv, [Next]_vars PROVE IInv'
    OBVIOUS
  <1>1. CASE UNCHANGED vars
    BY <1>1 DEF vars, IInv, Types, JobsRight, TasksRight, TaskRight, WireRight, Single, MsgRight,
                Reached, Channel, Kept, Good, Own, Due, Content, Complete
  <1>2. CASE \E g \in DOMAIN job : Aria2(g)
    BY <1>2, Aria2Invariant
  <1>3. CASE Receive
    BY <1>3, ReceiveKeeps
  <1>4. ASSUME NEW t \in Task, AddURL(t) \/ Cancelled(t) \/ Serve(t) \/ CallFails(t) \/ Step(t)
        PROVE  IInv'
    <2>1. CASE Serve(t)
      BY <2>1, Aria2Invariant
    <2>2. CASE \E o : Goes(t, o)
      BY <2>2, GoesKeeps
    <2>3. AddURL(t) \/ Run(t) => \E o : Goes(t, o)
      BY AddRunGoes
    <2>4. Cancelled(t) \/ Signal(t) \/ Poll(t) => \E o : Goes(t, o)
      BY LoopGoes
    <2>5. Register(t) => \E o : Goes(t, o)
      BY RegisterGoes
    <2>6. CallFails(t) \/ StatusFailed(t) => \E o : Goes(t, o)
      BY FailureGoes
    <2>7. Update(t) => \E o : Goes(t, o)
      BY UpdateGoes
    <2>8. Removed(t) \/ AddTransfer(t) \/ Succeed(t) => \E o : Goes(t, o)
      BY EndGoes
    <2>9. QED
      BY <1>4, <2>1, <2>2, <2>3, <2>4, <2>5, <2>6, <2>7, <2>8 DEF Step, Loop
  <1>5. CASE \E x \in transfers : Upload(x) \/ UploadEnds(x) \/ UploadFails(x)
    BY <1>5, TransferKeeps
  <1>6. CASE Crash
    BY <1>6, CrashKeeps
  <1>7. QED
    BY <1>1, <1>2, <1>3, <1>4, <1>5, <1>6 DEF Next

\* What the answers of aria2, the tasks and the transfers keep to.
LEMMA Invariant == Spec => []IInv
PROOF
  BY InitInvariant, NextInvariant, PTL DEF Spec

\* However often tasks run again, calls fail and the program dies, a download that is in its
\* loop or in a call about its GID polls an aria2 download that was added for it, and its
\* channel is registered for that GID: Status has moved it along whenever it followed.
THEOREM ReachedAlways == Spec => []Reached
PROOF
  <1>1. IInv => Reached
    BY DEF IInv
  <1>2. QED
    BY Invariant, <1>1, PTL

\* A transfer begins only when the content itself is complete: not the metadata, and not on an
\* answer that was true of another download or has ceased to be true on its way.
THEOREM TransfersContentAlways == Spec => []TransfersContent
PROOF
  <1>1. IInv => TransfersContent
    BY DEF IInv, TasksRight, TaskRight, TransfersContent, At, Content
  <1>2. QED
    BY Invariant, <1>1, PTL

\* The file of a download that succeeded is in its directory or in the storage, whatever
\* uploads fail and wherever the program dies, unless its policy deletes what failed.
THEOREM FileKeptAlways == Spec => []FileKept
PROOF
  <1>1. IInv => FileKept
    BY DEF IInv, Kept, Good, FileKept, At
  <1>2. QED
    BY Invariant, <1>1, PTL
=============================================================================

-------------------------- MODULE OfflineDownload --------------------------
(***************************************************************************)
(* Offline downloads with aria2: internal/offline_download/tool and aria2, *)
(* the client's receive loop in pkg/aria2/rpc, and the start of the task   *)
(* managers in internal/bootstrap/task.go.                                 *)
(*                                                                         *)
(* A download task asks aria2 to fetch a file into a directory of its own, *)
(* then polls its status; a notification of aria2 wakes it earlier, over   *)
(* an unbuffered channel that Notify keeps for each GID.  With an http     *)
(* address the calls have connections of their own; with a ws address one  *)
(* connection, read by one goroutine, carries answers and notifications.   *)
(* A download that is complete adds a transfer task, which puts the file   *)
(* into the storage and removes it from the directory as its policy says.  *)
(* A directory of a task holds one file.                                   *)
(*                                                                         *)
(* aria2 and the task manager (github.com/xhofe/tache) are external.       *)
(***************************************************************************)
EXTENDS Naturals, Sequences, FiniteSets

CONSTANTS
  Task, None,
  Magnet,      \* the tasks whose first GID fetches metadata and is followed by another
  Policy,      \* of each task: its DeletePolicy
  WebSocket,   \* aria2's address is a ws one
  Tolerated,   \* failed status calls that are forgiven: 5 in the code
  MaxRetry,    \* how often the manager runs a failed download again
  MaxFails,    \* bound: calls that fail although the connection works
  MaxCrashes,  \* bound: how often the program dies
  Apart        \* bound: one task alone runs again, after a failure or a crash but not both

ASSUME Parameters ==
  /\ None \notin Task /\ Magnet \subseteq Task
  /\ Tolerated \in Nat /\ MaxRetry \in Nat /\ MaxFails \in Nat /\ MaxCrashes \in Nat

VARIABLES
  job,       \* aria2's downloads, by GID
  wire,      \* what aria2 has sent on the connection that is being read
  recv,      \* the channel the reader is sending a notification to, or None
  signals,   \* Notify.Signals: pairs of a GID and a channel
  d,         \* the download tasks
  transfers, \* the transfer tasks
  temp, dst, \* the tasks whose file is in its directory, and in the storage
  fails, crashes

vars == <<job, wire, recv, signals, d, transfers, temp, dst, fails, crashes>>
aria2 == <<job, temp>>
link == <<wire, recv>>
bounds == <<fails, crashes>>

NoTask == [pc |-> "none", ans |-> None, got |-> 0, gid |-> 0, retried |-> 0, tries |-> 0]

Init ==
  /\ job = << >> /\ temp = {} /\ dst = {}
  /\ wire = << >> /\ recv = None /\ signals = {}
  /\ d = [t \in Task |-> NoTask]
  /\ transfers = {}
  /\ fails = 0 /\ crashes = 0

At(t, pc) == d[t].pc = pc
Calls == {"add", "status", "remove"}
Ended == {"none", "succeeded", "failed", "cancelled"}
\* The channel of the present run of a task.
Channel(t) == <<t, d[t].tries>>
To(t, o) == d' = [d EXCEPT ![t] = o]
\* A call of aria2.
Call(t, o, what) == To(t, [o EXCEPT !.pc = what, !.ans = "sent"])

-----------------------------------------------------------------------------
(* aria2.                                                                  *)

Notice(g) == [to |-> None, ans |-> "notice", got |-> g]
Answer(t, what, g) == [to |-> t, ans |-> what, got |-> g]
NewJob(t, meta) == [of |-> t, st |-> "active", meta |-> meta, next |-> 0]
Complete(g) == job[g].st \in {"complete", "seeding"}

\* The metadata is there: the download it describes starts under a GID of its own.
JobFollowed(g) ==
  /\ job[g].st = "active" /\ job[g].meta
  /\ job' = Append([job EXCEPT ![g].st = "complete", ![g].next = Len(job) + 1],
                   NewJob(job[g].of, FALSE))
  /\ wire' = wire \o <<Notice(g), Notice(Len(job) + 1)>>
  /\ UNCHANGED <<recv, signals, d, transfers, temp, dst, bounds>>

\* A torrent is seeded when its content is there.
JobComplete(g) ==
  /\ job[g].st = "active" /\ ~job[g].meta
  /\ job' = [job EXCEPT ![g].st = IF job[g].of \in Magnet THEN "seeding" ELSE "complete"]
  /\ temp' = temp \cup {job[g].of}
  /\ wire' = Append(wire, Notice(g))
  /\ UNCHANGED <<recv, signals, d, transfers, dst, bounds>>
JobSeeded(g) ==
  /\ job[g].st = "seeding"
  /\ job' = [job EXCEPT ![g].st = "complete"]
  /\ wire' = Append(wire, Notice(g))
  /\ UNCHANGED <<recv, signals, d, transfers, temp, dst, bounds>>
JobError(g) ==
  /\ job[g].st = "active"
  /\ job' = [job EXCEPT ![g].st = "error"]
  /\ wire' = Append(wire, Notice(g))
  /\ UNCHANGED <<recv, signals, d, transfers, temp, dst, bounds>>

\* aria2 takes a call: its answer is on the wire, or with http with the caller.
Answers(t, what, g, notices) ==
  IF WebSocket
  THEN wire' = wire \o notices \o <<Answer(t, what, g)>> /\ To(t, [d[t] EXCEPT !.ans = "served"])
  ELSE wire' = wire \o notices /\ To(t, [d[t] EXCEPT !.ans = what, !.got = g])

Serve(t) ==
  /\ d[t].pc \in Calls /\ d[t].ans = "sent"
  /\ LET g == d[t].gid IN
     CASE At(t, "add") ->
            /\ job' = Append(job, NewJob(t, t \in Magnet))
            /\ Answers(t, "ok", Len(job) + 1, <<Notice(Len(job) + 1)>>)
       [] At(t, "status") ->
            /\ Answers(t, job[g].st, job[g].next, << >>)
            /\ UNCHANGED job
       [] OTHER ->
            IF job[g].st \in {"active", "seeding"}
            THEN /\ job' = [job EXCEPT ![g].st = "removed"]
                 /\ Answers(t, "ok", g, <<Notice(g)>>)
            ELSE Answers(t, "failed", g, << >>) /\ UNCHANGED job
  /\ UNCHANGED <<recv, signals, transfers, temp, dst, bounds>>

-----------------------------------------------------------------------------
(* The goroutine that reads the connection.                                *)

Receive ==
  /\ recv = None /\ wire # << >>
  /\ wire' = Tail(wire)
  /\ LET m == Head(wire) IN
     IF m.to = None
     THEN /\ recv' = IF \E e \in signals : e[1] = m.got
                      THEN (CHOOSE e \in signals : e[1] = m.got)[2] ELSE None
          /\ UNCHANGED d
     ELSE To(m.to, [d[m.to] EXCEPT !.ans = m.ans, !.got = m.got]) /\ UNCHANGED recv
  /\ UNCHANGED <<aria2, signals, transfers, dst, bounds>>

\* The reader sends to a channel and no loop takes it.
Stuck == recv # None

\* An answer that comes when its call has ended is read and changes nothing.
Forgotten(t) == [i \in DOMAIN wire |-> IF wire[i].to = t THEN Notice(0) ELSE wire[i]]

\* A call ends with an error: its timeout, or any other failure.
CallFails(t) ==
  /\ d[t].pc \in Calls /\ d[t].ans \in {"sent", "served"}
  /\ IF WebSocket /\ Stuck THEN UNCHANGED fails
                           ELSE fails < MaxFails /\ fails' = fails + 1
  /\ To(t, [d[t] EXCEPT !.ans = "failed"])
  /\ wire' = Forgotten(t)
  /\ UNCHANGED <<aria2, recv, signals, transfers, dst, crashes>>

-----------------------------------------------------------------------------
(* DownloadTask.Run.                                                       *)

\* What the bound Apart asks for.
Added == {t \in Task : ~At(t, "none")}
Fresh == Apart => crashes = 0 /\ \A t \in Task : d[t].tries = 0
Alone == Apart => Cardinality(Added) = 1

\* Run has returned; the manager runs a failed task again.
Ends(t, o, how) ==
  To(t, IF how = "failed" /\ o.tries < MaxRetry /\ (Apart => crashes = 0) /\ Alone
        THEN [NoTask EXCEPT !.pc = "pending", !.tries = o.tries + 1, !.retried = o.retried]
        ELSE [NoTask EXCEPT !.pc = how, !.tries = o.tries])

\* AddURL of add.go, when its checks are passed.
AddURL(t) ==
  /\ At(t, "none")
  /\ Added = {} \/ Fresh
  /\ To(t, [NoTask EXCEPT !.pc = "pending"])
  /\ UNCHANGED <<aria2, link, signals, transfers, dst, bounds>>

Run(t) ==
  /\ At(t, "pending")
  /\ Call(t, d[t], "add")
  /\ UNCHANGED <<aria2, link, signals, transfers, dst, bounds>>

\* AddURL registers the channel of the GID it got.
Register(t) ==
  /\ At(t, "add") /\ d[t].ans \in {"ok", "failed"}
  /\ IF d[t].ans = "ok"
     THEN /\ signals' = signals \cup {<<d[t].got, Channel(t)>>}
          /\ To(t, [d[t] EXCEPT !.pc = "loop", !.ans = None, !.gid = d[t].got, !.got = 0])
     ELSE Ends(t, d[t], "failed") /\ UNCHANGED signals
  /\ UNCHANGED <<aria2, link, transfers, dst, bounds>>

\* The loop: the context, which the user may cancel at any time, ...
Cancelled(t) ==
  /\ At(t, "loop")
  /\ Call(t, d[t], "remove")
  /\ UNCHANGED <<aria2, link, signals, transfers, dst, bounds>>

\* ... a notification, ...
Signal(t) ==
  /\ At(t, "loop") /\ recv = Channel(t)
  /\ recv' = None
  /\ Call(t, d[t], "status")
  /\ UNCHANGED <<aria2, wire, signals, transfers, dst, bounds>>

\* Fault: the loop waits for notifications only.
Timer_mutant(t) == FALSE

\* ... or three seconds, in which no notification was there.
Timer(t) == At(t, "loop") /\ recv # Channel(t)
Poll(t) ==
  /\ Timer(t)
  /\ Call(t, d[t], "status")
  /\ UNCHANGED <<aria2, link, signals, transfers, dst, bounds>>

\* Fault: the GID that follows keeps the channel of the metadata.
Moved_mutant(old, new, ch) == signals

\* Status: the channel moves to the GID that follows.
Moved(old, new, ch) == {e \in signals : e[1] # old} \cup {<<new, ch>>}

\* Fault: a complete download is transferred before its followers are looked at.
Judged_mutant(ans, next) ==
  IF ans \in {"complete", "seeding"} THEN "transfer" ELSE IF next # 0 THEN "followed" ELSE ans

\* Update, once Status has answered: what it goes by.
Judged(ans, next) ==
  IF next # 0 THEN "followed" ELSE IF ans \in {"complete", "seeding"} THEN "transfer" ELSE ans

Least(a, b) == IF a < b THEN a ELSE b
StatusFailed(t) ==
  /\ At(t, "status") /\ d[t].ans = "failed"
  /\ To(t, [d[t] EXCEPT !.pc = "loop", !.ans = None,
                        !.retried = Least(@ + 1, Tolerated + 1)])
  /\ UNCHANGED <<aria2, link, signals, transfers, dst, bounds>>

\* The count is looked at when a call succeeds.
Update(t) ==
  /\ At(t, "status") /\ d[t].ans \notin {"sent", "served", "failed"}
  /\ LET o == [d[t] EXCEPT !.ans = None, !.got = 0]
         r == Judged(d[t].ans, d[t].got) IN
     /\ signals' = IF d[t].got = 0 THEN signals ELSE Moved(d[t].gid, d[t].got, Channel(t))
     /\ IF d[t].retried > Tolerated THEN Ends(t, o, "failed")
        ELSE CASE r = "followed" -> To(t, [o EXCEPT !.pc = "loop", !.retried = 0, !.gid = d[t].got])
               [] r = "transfer" -> To(t, [o EXCEPT !.pc = "transfer", !.retried = 0])
               [] r = "active" -> To(t, [o EXCEPT !.pc = "loop", !.retried = 0])
               [] OTHER -> Ends(t, [o EXCEPT !.retried = 0], "failed")
  /\ UNCHANGED <<aria2, link, transfers, dst, bounds>>

Removed(t) ==
  /\ At(t, "remove") /\ d[t].ans \notin {"sent", "served"}
  /\ Ends(t, d[t], "cancelled")
  /\ UNCHANGED <<aria2, link, signals, transfers, dst, bounds>>

\* transferStd: a transfer task for the file, or an error before any.
AddTransfer(t) ==
  /\ At(t, "transfer")
  /\ \/ /\ t \in temp
        /\ transfers' = transfers \cup {[of |-> t, n |-> crashes, st |-> "pending", storage |-> TRUE]}
        /\ To(t, [d[t] EXCEPT !.pc = "added"])
     \/ Ends(t, d[t], "failed") /\ UNCHANGED transfers
  /\ UNCHANGED <<aria2, link, signals, dst, bounds>>
Succeed(t) ==
  /\ At(t, "added")
  /\ Ends(t, d[t], "succeeded")
  /\ UNCHANGED <<aria2, link, signals, transfers, dst, bounds>>

-----------------------------------------------------------------------------
(* TransferTask.  An attempt that fails and is repeated changes nothing.    *)

Becomes(x, st) == transfers' = (transfers \ {x}) \cup {[x EXCEPT !.st = st]}

\* op.Put into the storage.  A task that was loaded after a start has no storage.
Upload(x) ==
  /\ x.st = "pending" /\ x.storage /\ x.of \in temp
  /\ dst' = dst \cup {x.of}
  /\ Becomes(x, "uploaded")
  /\ UNCHANGED <<aria2, link, signals, d, bounds>>

\* OnSucceeded and OnFailed: is the file to be deleted?
Deletes(policy, st) ==
  \/ policy = "delete_always"
  \/ st = "succeeded" /\ policy = "delete_on_upload_succeed"
  \/ st = "failed" /\ policy = "delete_on_upload_failed"

\* The hooks run after Run.
End(x, st) ==
  /\ temp' = IF Deletes(Policy[x.of], st) THEN temp \ {x.of} ELSE temp
  /\ Becomes(x, st)
  /\ UNCHANGED <<job, link, signals, d, dst, bounds>>
UploadEnds(x) == x.st = "uploaded" /\ End(x, "succeeded")
UploadFails(x) == x.st = "pending" /\ End(x, "failed")

-----------------------------------------------------------------------------
(* The program dies and starts: the task managers load their tasks, and     *)
(* InitTaskManager empties the directories if there is no transfer task.    *)

\* Fault: without a look at the transfer tasks.
Cleans_mutant(loaded) == TRUE

\* len(TransferTaskManager.GetAll()) == 0
Cleans(loaded) == loaded = {}

\* What a transfer task is after it was saved and loaded: it runs again if it had not
\* ended, without the drivers, which are not saved.
Loaded(x) ==
  [x EXCEPT !.storage = FALSE,
            !.st = IF x.st = "uploaded" THEN "pending" ELSE x.st]

Crash ==
  /\ crashes < MaxCrashes /\ Fresh /\ Alone
  /\ crashes' = crashes + 1
  /\ wire' = << >> /\ recv' = None /\ signals' = {}
  /\ d' = [t \in Task |->
             IF d[t].pc \in Ended THEN d[t] ELSE [NoTask EXCEPT !.pc = "pending"]]
  /\ transfers' = {Loaded(x) : x \in transfers}
  /\ temp' = IF Cleans(transfers') THEN {} ELSE temp
  /\ UNCHANGED <<job, dst, fails>>

-----------------------------------------------------------------------------
Aria2(g) == JobFollowed(g) \/ JobComplete(g) \/ JobSeeded(g) \/ JobError(g)
Loop(t) == Signal(t) \/ Poll(t)
Step(t) ==
  \/ Run(t) \/ Register(t) \/ Loop(t) \/ StatusFailed(t) \/ Update(t) \/ Removed(t)
  \/ AddTransfer(t) \/ Succeed(t)

Next ==
  \/ \E g \in DOMAIN job : Aria2(g)
  \/ Receive
  \/ \E t \in Task : AddURL(t) \/ Cancelled(t) \/ Serve(t) \/ CallFails(t) \/ Step(t)
  \/ \E x \in transfers : Upload(x) \/ UploadEnds(x) \/ UploadFails(x)
  \/ Crash

Spec == Init /\ [][Next]_vars

\* The GIDs there may be with the bound Apart: each task is added twice at most, with a follower each time.
Gids == 1..(4 * Cardinality(Task))

\* aria2 answers what it is asked and ends what it has begun; goroutines run; and a
\* call that gets no answer times out.  Nobody has to cancel.
Fairness ==
  /\ \A g \in Gids : WF_vars(g \in DOMAIN job /\ Aria2(g))
  /\ WF_vars(Receive)
  /\ \A t \in Task :
       /\ WF_vars(Serve(t)) /\ WF_vars(Step(t))
       /\ WF_vars(WebSocket /\ Stuck /\ CallFails(t))
FairSpec == Spec /\ Fairness

-----------------------------------------------------------------------------
(* Properties.                                                             *)

\* A download in its loop is reached by the notifications of the aria2 download it
\* polls, and that is one of its own.
Reached ==
  \A t \in Task : d[t].pc \in {"loop", "status", "remove"} =>
    <<d[t].gid, Channel(t)>> \in signals

\* What is transferred is the content that was asked for, complete, and not the metadata
\* that leads to it.
TransfersContent ==
  \A t \in Task : At(t, "transfer") => Complete(d[t].gid) /\ ~job[d[t].gid].meta

\* Whatever fails and wherever the program dies, the file of a download that succeeded
\* is where it was fetched to or in the storage, unless its policy deletes what could
\* not be uploaded ("prevent offline downloaded files from being deleted").
FileKept ==
  \A t \in Task :
    At(t, "succeeded") /\ Policy[t] \in {"delete_on_upload_succeed", "delete_never"}
      => t \in temp \cup dst

\* Every download ends, although notifications are lost, come for downloads that are
\* over, or find nobody at their channel ("return true if download completed").
DownloadsEnd == <>[](\A t \in Task : d[t].pc \in Ended)
=============================================================================

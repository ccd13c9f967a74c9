---------------------------- MODULE SearchIndex ----------------------------
(***************************************************************************)
(* Building the search index: internal/search/build.go with the handlers   *)
(* of server/handles/index.go, the queue of pkg/mq, the hook that updates  *)
(* the index when a directory is listed, and the start of the server.      *)
(*                                                                         *)
(* A build is two goroutines.  The walker publishes what it meets to a     *)
(* queue of its own; the consumer empties the queue into the index from    *)
(* time to time, and once more when it is told to quit.  The global Quit   *)
(* pointer names the build under way; StopIndex sends into it.  The two    *)
(* goroutines share the variable `err'.                                    *)
(*                                                                         *)
(* The root has a file "a" and an empty directory "d".                     *)
(***************************************************************************)
EXTENDS Naturals, Sequences, FiniteSets, SequencesExt

CONSTANTS
  Request,    \* requests, each served by a goroutine of its own
  None,
  Kinds,      \* what requests may be: "build", "update", "hook", "stop", "clear"
  MaxCrashes  \* bound: how often the program dies

ASSUME NoneAssumption == None \notin Request \cup {"build"}

Obj == {"a", "d"}
\* What a walk of a path publishes, in this order.
Below(p) == CASE p = "/" -> <<"a", "d">> [] OTHER -> <<p>>
Paths(kind) == CASE kind = "build" -> <<"/">> [] kind = "update" -> <<"a", "d">> [] OTHER -> << >>

VARIABLES
  index,     \* the searcher's nodes
  progress,  \* conf.IndexProgress: is it done
  quit,      \* Quit: the request whose build it points to, or None
  w,         \* the request's goroutine: its handler and then the build's walker
  c,         \* the consumer of its build
  seen,      \* history: what a build published, what of that was lost or erased
  stops,     \* history: the builds a StopIndex was sent to
  crashes

vars == <<index, progress, quit, w, c, seen, stops, crashes>>

NoWalk == [pc |-> "idle", kind |-> None, paths |-> << >>, rest |-> << >>, found |-> TRUE,
           todo |-> << >>, target |-> None]
NoConsumer == [pc |-> "none", mq |-> << >>, batch |-> << >>, final |-> FALSE, err |-> None,
               token |-> FALSE, waited |-> FALSE, running |-> FALSE]
Nothing == [sent |-> {}, gone |-> {}]

Init ==
  /\ index = {} /\ progress = TRUE
  /\ quit = None
  /\ w = [r \in Request |-> NoWalk] /\ c = [r \in Request |-> NoConsumer]
  /\ seen = [r \in Request |-> Nothing]
  /\ stops = {} /\ crashes = 0

At(r, pc) == w[r].pc = pc
\* Of a request that has ended only a build of the whole tree is remembered.
Ended(kind) == [NoWalk EXCEPT !.pc = "end", !.kind = IF kind = "build" THEN kind ELSE None]
Goto(r, pc) ==
  w' = [w EXCEPT ![r] = IF pc = "end" THEN Ended(w[r].kind) ELSE [@ EXCEPT !.pc = pc]]
Walk(r, o) == w' = [w EXCEPT ![r] = o]
Consume(r, o) == c' = [c EXCEPT ![r] = o]
Running == quit # None
\* The progress is written by builds of the whole tree only.
Counts(r) == w[r].kind = "build"
\* The nodes leave the index: every build that put them there loses them.
Lose(objs) == seen' = [r \in Request |->
                [seen[r] EXCEPT !.gone = @ \cup (objs \cap seen[r].sent)]]

-----------------------------------------------------------------------------
(* The handlers, up to the build.                                          *)

Ask(r, kind) ==
  /\ At(r, "idle")
  /\ LET next == CASE kind = "stop" -> IF Running THEN "stop" ELSE "end"
                   [] kind = "hook" -> IF Running THEN "end" ELSE "progress"
                   [] OTHER -> IF Running THEN "end" ELSE "erase"
     IN Walk(r, IF next = "end" THEN Ended(kind)
                ELSE [NoWalk EXCEPT !.pc = next, !.kind = kind, !.paths = Paths(kind),
                                    !.target = IF next = "stop" THEN quit ELSE None])
  /\ UNCHANGED <<index, progress, quit, c, seen, stops, crashes>>

\* search.Clear, or search.Del of each path.
Erase(r) ==
  /\ At(r, "erase")
  /\ LET gone == IF w[r].kind = "update"
                 THEN UNION {ToSet(Below(w[r].paths[i])) : i \in DOMAIN w[r].paths} ELSE Obj IN
       /\ index' = index \ gone
       /\ Lose(gone)
  /\ Goto(r, IF w[r].kind = "clear" THEN "cleared" ELSE "cas")
  /\ UNCHANGED <<progress, quit, c, stops, crashes>>

\* It failed: a build is given up, ClearIndex goes on.
EraseFails(r) ==
  /\ At(r, "erase")
  /\ Goto(r, IF w[r].kind = "clear" THEN "cleared" ELSE "end")
  /\ UNCHANGED <<index, progress, quit, c, seen, stops, crashes>>

Cleared(r) ==
  /\ At(r, "cleared")
  /\ progress' = TRUE
  /\ Goto(r, "end")
  /\ UNCHANGED <<index, quit, c, seen, stops, crashes>>

\* StopIndex sends to the channel it has loaded; whoever owned it may have moved on, and
\* then nobody reads it.
Stop(r) ==
  /\ At(r, "stop")
  /\ c' = [c EXCEPT ![w[r].target].token = c[w[r].target].pc # "dead"]
  /\ stops' = stops \cup {w[r].target}
  /\ Goto(r, "end")
  /\ UNCHANGED <<index, progress, quit, seen, crashes>>

\* Update, the hook on a listing of the root: "only update when index have built".
ReadProgress(r) ==
  /\ At(r, "progress")
  /\ Goto(r, IF progress THEN "nodes" ELSE "end")
  /\ UNCHANGED <<index, progress, quit, c, seen, stops, crashes>>

ReadNodes(r) ==
  /\ At(r, "nodes")
  /\ Walk(r, [w[r] EXCEPT !.pc = "hook",
                 !.todo = SelectSeq(<<"a", "d">>, LAMBDA o : o \notin index)])
  /\ UNCHANGED <<index, progress, quit, c, seen, stops, crashes>>

\* A file is added to the index, a directory gets a build.
HookIndex(r) ==
  /\ At(r, "hook") /\ w[r].todo # << >> /\ Head(w[r].todo) = "a"
  /\ \/ index' = index \cup {"a"} /\ Walk(r, [w[r] EXCEPT !.todo = Tail(@)])
     \/ Goto(r, "end") /\ UNCHANGED index
  /\ UNCHANGED <<progress, quit, c, seen, stops, crashes>>
HookBuild(r) ==
  /\ At(r, "hook") /\ w[r].todo # << >> /\ Head(w[r].todo) = "d"
  /\ Walk(r, [w[r] EXCEPT !.pc = "cas", !.paths = <<"d">>, !.todo = Tail(@)])
  /\ UNCHANGED <<index, progress, quit, c, seen, stops, crashes>>
HookEnd(r) ==
  /\ At(r, "hook") /\ w[r].todo = << >>
  /\ Goto(r, "end")
  /\ UNCHANGED <<index, progress, quit, c, seen, stops, crashes>>

-----------------------------------------------------------------------------
(* BuildIndex: the walker.                                                 *)

\* Fault: the pointer is stored without comparing it.
Free_mutant == TRUE

\* No build is under way.
Free == quit = None

Begin(r) ==
  /\ At(r, "cas")
  /\ IF Free
     THEN /\ quit' = r
          /\ Consume(r, [NoConsumer EXCEPT !.pc = "loop", !.running = TRUE])
          /\ Goto(r, "admin")
     ELSE Goto(r, "end") /\ UNCHANGED <<quit, c>>
  /\ UNCHANGED <<index, progress, seen, stops, crashes>>

Admin(r, ok) ==
  /\ At(r, "admin")
  /\ Consume(r, [c[r] EXCEPT !.err = IF ok THEN None ELSE "walk"])
  /\ Goto(r, IF ok THEN "start" ELSE "return")
  /\ UNCHANGED <<index, progress, quit, seen, stops, crashes>>

Start(r) ==
  /\ At(r, "start")
  /\ progress' = IF Counts(r) THEN FALSE ELSE progress
  /\ Goto(r, "path")
  /\ UNCHANGED <<index, quit, c, seen, stops, crashes>>

\* fs.Get of the next path sets err, which is read in a later step.
GetPath(r, ok) ==
  /\ At(r, "path") /\ w[r].paths # << >>
  /\ Consume(r, [c[r] EXCEPT !.err = IF ok THEN None ELSE "walk"])
  /\ Walk(r, [w[r] EXCEPT !.pc = "got", !.found = ok])
  /\ UNCHANGED <<index, progress, quit, seen, stops, crashes>>

\* No error, or none any more.
GotPath(r) ==
  /\ At(r, "got") /\ (c[r].err # None \/ w[r].found)
  /\ IF c[r].err # None THEN Walk(r, [w[r] EXCEPT !.pc = "return", !.found = TRUE])
     ELSE Walk(r, [w[r] EXCEPT !.pc = "walk", !.rest = Below(Head(w[r].paths)),
                               !.paths = Tail(@)])
  /\ UNCHANGED <<index, progress, quit, c, seen, stops, crashes>>

\* The queue's mutex is the consumer's while it is at a batch.
Locked(r) == c[r].pc \in {"batch", "report"}

Publish(r) ==
  /\ At(r, "walk") /\ w[r].rest # << >> /\ c[r].running /\ ~Locked(r)
  /\ Consume(r, [c[r] EXCEPT !.mq = Append(@, Head(w[r].rest))])
  /\ Walk(r, [w[r] EXCEPT !.rest = Tail(@)])
  /\ seen' = [seen EXCEPT ![r].sent = @ \cup {Head(w[r].rest)}]
  /\ UNCHANGED <<index, progress, quit, stops, crashes>>

\* The walk is cut short: the build was stopped, or a directory cannot be listed.
Skip(r) ==
  /\ At(r, "walk") /\ w[r].rest # << >> /\ (~c[r].running \/ Head(w[r].rest) # "a")
  /\ Walk(r, [w[r] EXCEPT !.rest = << >>])
  /\ UNCHANGED <<index, progress, quit, c, seen, stops, crashes>>

\* fs.WalkFS has returned, and err is set again.
Walked(r) ==
  /\ At(r, "walk") /\ w[r].rest = << >>
  /\ Consume(r, [c[r] EXCEPT !.err = None])
  /\ Goto(r, "walked")
  /\ UNCHANGED <<index, progress, quit, seen, stops, crashes>>
NextPath(r) ==
  /\ At(r, "walked")
  /\ Goto(r, IF c[r].err # None \/ w[r].paths = << >> THEN "return" ELSE "path")
  /\ UNCHANGED <<index, progress, quit, c, seen, stops, crashes>>

\* The deferred function: if the build is still its own, tell the consumer, ...
Return(r) ==
  /\ At(r, "return")
  /\ Goto(r, IF ~c[r].running \/ quit # r THEN "stopped" ELSE "tell")
  /\ UNCHANGED <<index, progress, quit, c, seen, stops, crashes>>

\* Fault: the walker leaves it to StopIndex.
Told_mutant(r) == c[r].token

\* The token after a send that does not block.
Told(r) == TRUE

Tell(r) ==
  /\ At(r, "tell")
  /\ Consume(r, [c[r] EXCEPT !.token = Told(r)])
  /\ Goto(r, "wait")
  /\ UNCHANGED <<index, progress, quit, seen, stops, crashes>>

\* Fault: BuildIndex returns without waiting for the consumer.
Finished_mutant(r) == TRUE

\* wg.Wait.
Finished(r) == c[r].waited

\* ... and wait for it.
Wait(r) ==
  /\ At(r, "wait") /\ Finished(r)
  /\ Goto(r, "built")
  /\ UNCHANGED <<index, progress, quit, c, seen, stops, crashes>>

\* BuildIndex has returned; the hook goes on with what it has still to do.
Built(r) ==
  /\ w[r].pc \in {"built", "stopped"}
  /\ Goto(r, IF w[r].kind = "hook" THEN "hook" ELSE "end")
  /\ seen' = [seen EXCEPT ![r] = Nothing]
  /\ Consume(r, [c[r] EXCEPT !.err = None])
  /\ UNCHANGED <<index, progress, quit, stops, crashes>>

-----------------------------------------------------------------------------
(* BuildIndex: the consumer.                                               *)

Take(r) == [c[r] EXCEPT !.pc = "batch", !.batch = c[r].mq, !.mq = << >>]

Tick(r) ==
  /\ c[r].pc = "loop"
  /\ Consume(r, Take(r))
  /\ UNCHANGED <<index, progress, quit, w, seen, stops, crashes>>

ReceiveQuit(r) ==
  /\ c[r].pc = "loop" /\ c[r].token
  /\ Consume(r, [Take(r) EXCEPT !.token = FALSE, !.final = TRUE])
  /\ UNCHANGED <<index, progress, quit, w, seen, stops, crashes>>

\* BatchIndex; its error goes where the walker's go.
Batch(r, ok) ==
  /\ c[r].pc = "batch"
  /\ ~ok => c[r].batch # << >>
  /\ index' = IF ok THEN index \cup ToSet(c[r].batch) ELSE index
  /\ seen' = IF ok THEN seen ELSE [seen EXCEPT ![r].gone = @ \cup ToSet(c[r].batch)]
  /\ Consume(r, [c[r] EXCEPT !.pc = "report", !.batch = << >>,
                             !.err = IF ok THEN None ELSE "batch"])
  /\ UNCHANGED <<progress, quit, w, stops, crashes>>

\* Fault: the last report is like the others.
Reported_mutant(r) == FALSE

\* What the consumer reports after a batch: is this the last one?
Reported(r) == c[r].final

Report(r) ==
  /\ c[r].pc = "report"
  /\ progress' = IF Counts(r) THEN Reported(r) ELSE progress
  /\ Consume(r, [c[r] EXCEPT !.pc = IF c[r].final THEN "leave" ELSE "loop"])
  /\ UNCHANGED <<index, quit, w, seen, stops, crashes>>

\* The consumer ends: Quit, the wait group and the flag, one after the other.
Leave(r) ==
  /\ c[r].pc = "leave"
  /\ quit' = None
  /\ Consume(r, [c[r] EXCEPT !.pc = "done"])
  /\ UNCHANGED <<index, progress, w, seen, stops, crashes>>
WgDone(r) ==
  /\ c[r].pc = "done"
  /\ Consume(r, [c[r] EXCEPT !.pc = "flag", !.waited = TRUE])
  /\ UNCHANGED <<index, progress, quit, w, seen, stops, crashes>>
Flag(r) ==
  /\ c[r].pc = "flag"
  /\ Consume(r, [NoConsumer EXCEPT !.pc = "dead", !.waited = TRUE, !.err = c[r].err])
  /\ UNCHANGED <<index, progress, quit, w, seen, stops, crashes>>

-----------------------------------------------------------------------------
(* The program dies and starts again: InitIndex calls the progress done.   *)

Restarted ==
  /\ crashes' = crashes + 1
  /\ quit' = None
  /\ w' = [r \in Request |-> IF At(r, "idle") THEN NoWalk ELSE [NoWalk EXCEPT !.pc = "end"]]
  /\ c' = [r \in Request |-> NoConsumer]
  /\ seen' = [r \in Request |-> Nothing]
  /\ progress' = TRUE
  /\ stops' = {}
  /\ UNCHANGED index

\* Only a death in the middle of a build leaves more than a restart would.
Crash == crashes < MaxCrashes /\ Running /\ Restarted

\* A walk of an object that was not found, its error overwritten: a nil dereference.
Panic(r) ==
  /\ At(r, "got") /\ c[r].err = None /\ ~w[r].found
  /\ Restarted

Walker(r) ==
  \/ Erase(r) \/ EraseFails(r) \/ Cleared(r) \/ Stop(r)
  \/ ReadProgress(r) \/ ReadNodes(r) \/ HookIndex(r) \/ HookBuild(r) \/ HookEnd(r)
  \/ Begin(r) \/ Start(r) \/ (\E ok \in BOOLEAN : Admin(r, ok) \/ GetPath(r, ok))
  \/ GotPath(r) \/ Publish(r) \/ Skip(r) \/ Walked(r) \/ NextPath(r)
  \/ Return(r) \/ Tell(r) \/ Wait(r) \/ Built(r) \/ Panic(r)
Consumer(r) ==
  (\E ok \in BOOLEAN : Batch(r, ok)) \/ Report(r) \/ Leave(r) \/ WgDone(r) \/ Flag(r)

Next ==
  \/ \E r \in Request :
       (\E kind \in Kinds : Ask(r, kind)) \/ Walker(r) \/ Consumer(r) \/ Tick(r) \/ ReceiveQuit(r)
  \/ Crash

Spec == Init /\ [][Next]_vars

\* Goroutines run; a walker waiting for the queue's mutex gets it in the end (sync.Mutex
\* hands it over to a waiter that starves); and when the ticker and quit are both ready,
\* select picks one of them at random, so a token that stays is received in the end.
Fairness ==
  \A r \in Request :
    /\ WF_vars(Walker(r)) /\ WF_vars(Consumer(r))
    /\ SF_vars(Publish(r)) /\ SF_vars(ReceiveQuit(r))
FairSpec == Spec /\ Fairness

-----------------------------------------------------------------------------
(* Properties.                                                             *)

Working == {"loop", "batch", "report", "leave"}

\* BuildIndex: while a build's consumer is at work Quit is its own, so there is one
\* build at a time and StopIndex reaches it ("other goroutine is running").
QuitOwned == \A r \in Request : c[r].pc \in Working <=> quit = r

\* A build that was not stopped returns when its queue is empty: everything it met is
\* in the index, but for what a failing batch lost or another request erased.
ReturnsIndexed ==
  \A r \in Request \ stops : At(r, "built") =>
    /\ c[r].mq = << >> /\ c[r].batch = << >>
    /\ seen[r].sent \subseteq index \cup seen[r].gone

\* Once the builds of the whole tree have returned, and none was stopped, the progress
\* is done: no report of a build comes after its last one.
ProgressSettled ==
  (\A r \in Request : Counts(r) => r \notin stops /\ w[r].pc \in {"end", "built", "stopped"})
    => progress

\* "avoid goroutine leak": no build is under way for ever, whatever fails on the way
\* and whoever stops it when.
BuildsEnd == <>[](quit = None /\ \A r \in Request : c[r].pc \in {"none", "dead"})
=============================================================================

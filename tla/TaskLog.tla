------------------------------ MODULE TaskLog ------------------------------
(***************************************************************************)
(* The per-app log task of app-management: operations (install, apply)     *)
(* write lines to it, the task/{id}/logs handlers stream them to browsers. *)
(*                                                                         *)
(* There is one Task per app name: GetOrCreate returns the same object to  *)
(* every operation and to every handler, and nothing ever removes it.  All *)
(* methods hold the task's mutex for their whole body, so each is a step;  *)
(* a handler drains its channel without the mutex.  The names of the       *)
(* specification carry Task, so that it stands beside AppLifecycle.        *)
(***************************************************************************)
EXTENDS Naturals, Sequences, FiniteSets

CONSTANTS
  Ops,       \* operations on the app (goroutines of Install and Apply)
  Subs,      \* SSE handlers, each owning one channel
  ChanCap,   \* capacity of a handler's channel (100 in the code)
  MaxLines   \* bound: length of the log

ASSUME CapAssumption == ChanCap \in Nat \ {0} /\ MaxLines \in Nat

VARIABLES
  log,          \* number of lines in LogBuffer; a line is its position
  subscribers,  \* handlers whose channel is attached to the task
  isFinished,   \* set by the first operation that finishes, never reset
  ch,           \* handler -> contents of its channel
  closed,       \* handlers whose channel is closed
  op,           \* operation -> "idle", "running" or "done"
  sse,          \* handler -> its goroutine's program counter
  got,          \* handler -> lines it wrote to its response
  lossy,        \* handlers for which a full channel dropped a line
  panic         \* a channel was closed twice, or sent to after its close

taskVars == <<log, subscribers, isFinished, ch, closed, op, sse, got, lossy, panic>>

UpTo(n) == [i \in 1..n |-> i]

(***************************************************************************)
(* Operations.                                                             *)
(***************************************************************************)
Start(o) ==
  /\ op[o] = "idle"
  /\ op' = [op EXCEPT ![o] = "running"]
  /\ UNCHANGED <<log, subscribers, isFinished, ch, closed, sse, got, lossy, panic>>

\* Mutated Broadcast: the send is not bounded by the channel's capacity.
BroadcastUnbounded(line) ==
  ch' = [s \in Subs |-> IF s \in subscribers THEN Append(ch[s], line) ELSE ch[s]]

\* Mutated Broadcast: a full channel discards its oldest line.
BroadcastEvicting(line) ==
  ch' = [s \in Subs |-> IF s \notin subscribers THEN ch[s]
                        ELSE IF Len(ch[s]) < ChanCap THEN Append(ch[s], line)
                        ELSE <<line>> \o Tail(ch[s])]

\* broadcastLocked: a full channel drops the line.
Broadcast(line) ==
  ch' = [s \in Subs |-> IF s \in subscribers /\ Len(ch[s]) < ChanCap
                          THEN Append(ch[s], line) ELSE ch[s]]

Write(o) ==
  /\ op[o] = "running" /\ log < MaxLines
  /\ log' = log + 1
  /\ Broadcast(log + 1)
  /\ lossy' = lossy \cup {s \in subscribers : Len(ch[s]) >= ChanCap}
  /\ panic' = (panic \/ subscribers \cap closed # {})
  /\ UNCHANGED <<subscribers, isFinished, closed, op, sse, got>>

\* The deferred task.Finish() of whichever operation ends.
Finish(o) ==
  /\ op[o] = "running"
  /\ op' = [op EXCEPT ![o] = "done"]
  /\ isFinished' = TRUE
  /\ panic' = (panic \/ subscribers \cap closed # {})
  /\ closed' = closed \cup subscribers
  /\ subscribers' = {}
  /\ UNCHANGED <<log, ch, sse, got, lossy>>

(***************************************************************************)
(* Handlers.                                                               *)
(***************************************************************************)
\* Mutated Subscribe: attaches without replaying what was already written.
SubscribeLiveOnly(s) ==
  /\ sse[s] = "off"
  /\ sse' = [sse EXCEPT ![s] = "streaming"]
  /\ IF isFinished
       THEN closed' = closed \cup {s} /\ UNCHANGED subscribers
       ELSE subscribers' = subscribers \cup {s} /\ UNCHANGED closed
  /\ UNCHANGED <<log, isFinished, ch, op, got, lossy, panic>>

\* Mutated Subscribe: attaches to a finished task as to a running one.
SubscribeAlwaysAttaches(s) ==
  /\ sse[s] = "off"
  /\ sse' = [sse EXCEPT ![s] = "streaming"]
  /\ ch' = [ch EXCEPT ![s] = UpTo(IF log < ChanCap THEN log ELSE ChanCap)]
  /\ lossy' = IF log > ChanCap THEN lossy \cup {s} ELSE lossy
  /\ subscribers' = subscribers \cup {s}
  /\ UNCHANGED <<log, isFinished, closed, op, got, panic>>

\* Replays the log up to the channel's capacity, then attaches, or closes the
\* channel when some operation has already finished.
Subscribe(s) ==
  /\ sse[s] = "off"
  /\ sse' = [sse EXCEPT ![s] = "streaming"]
  /\ ch' = [ch EXCEPT ![s] = UpTo(IF log < ChanCap THEN log ELSE ChanCap)]
  /\ lossy' = IF log > ChanCap THEN lossy \cup {s} ELSE lossy
  /\ IF isFinished
       THEN closed' = closed \cup {s} /\ UNCHANGED subscribers
       ELSE subscribers' = subscribers \cup {s} /\ UNCHANGED closed
  /\ UNCHANGED <<log, isFinished, op, got, panic>>

ReceiveLine(s) ==
  /\ sse[s] = "streaming" /\ ch[s] # <<>>
  /\ got' = [got EXCEPT ![s] = Append(@, Head(ch[s]))]
  /\ ch' = [ch EXCEPT ![s] = Tail(@)]
  /\ UNCHANGED <<log, subscribers, isFinished, closed, op, sse, lossy, panic>>

\* The channel is drained and closed: "event: end", and the handler returns.
ReceiveEnd(s) ==
  /\ sse[s] = "streaming" /\ ch[s] = <<>> /\ s \in closed
  /\ sse' = [sse EXCEPT ![s] = "ended"]
  /\ UNCHANGED <<log, subscribers, isFinished, ch, closed, op, got, lossy, panic>>

\* The client went away; the deferred cleanup still has to take the mutex.
Disconnect(s) ==
  /\ sse[s] = "streaming"
  /\ sse' = [sse EXCEPT ![s] = "leaving"]
  /\ UNCHANGED <<log, subscribers, isFinished, ch, closed, op, got, lossy, panic>>

\* Mutated Cleanup: closes the channel whether or not it is still attached.
CleanupAlwaysCloses(s) ==
  /\ sse[s] \in {"ended", "leaving"}
  /\ sse' = [sse EXCEPT ![s] = IF sse[s] = "ended" THEN "told" ELSE "gone"]
  /\ panic' = (panic \/ s \in closed)
  /\ closed' = closed \cup {s}
  /\ subscribers' = subscribers \ {s}
  /\ UNCHANGED <<log, isFinished, ch, op, got, lossy>>

\* Only a channel that is still attached is detached and closed.
Cleanup(s) ==
  /\ sse[s] \in {"ended", "leaving"}
  /\ sse' = [sse EXCEPT ![s] = IF sse[s] = "ended" THEN "told" ELSE "gone"]
  /\ IF s \in subscribers
       THEN /\ panic' = (panic \/ s \in closed)
            /\ closed' = closed \cup {s}
       ELSE UNCHANGED <<closed, panic>>
  /\ subscribers' = subscribers \ {s}
  /\ UNCHANGED <<log, isFinished, ch, op, got, lossy>>

(***************************************************************************)
(* The specification.                                                      *)
(***************************************************************************)
TaskInit ==
  /\ log = 0
  /\ subscribers = {}
  /\ isFinished = FALSE
  /\ ch = [s \in Subs |-> <<>>]
  /\ closed = {}
  /\ op = [o \in Ops |-> "idle"]
  /\ sse = [s \in Subs |-> "off"]
  /\ got = [s \in Subs |-> <<>>]
  /\ lossy = {}
  /\ panic = FALSE

Operation(o) == Start(o) \/ Write(o) \/ Finish(o)
Handler(s) ==
  Subscribe(s) \/ ReceiveLine(s) \/ ReceiveEnd(s) \/ Disconnect(s) \/ Cleanup(s)

TaskNext == (\E o \in Ops : Operation(o)) \/ (\E s \in Subs : Handler(s))

TaskSpec == TaskInit /\ [][TaskNext]_taskVars

\* Fairness.  Started operations finish (docker calls return), and a handler's
\* goroutine runs.  Nothing forces a request, an operation or a disconnection.
FairTaskSpec ==
  /\ TaskSpec
  /\ \A o \in Ops : WF_taskVars(Finish(o))
  /\ \A s \in Subs : WF_taskVars(ReceiveLine(s) \/ ReceiveEnd(s))

(***************************************************************************)
(* Properties.                                                             *)
(***************************************************************************)
SsePC == {"off", "streaming", "ended", "leaving", "told", "gone"}

\* Every variable has its type; no channel holds more than its capacity.
TaskTypeOK ==
  /\ log \in 0..MaxLines
  /\ subscribers \subseteq Subs
  /\ isFinished \in BOOLEAN
  /\ ch \in [Subs -> Seq(Nat)]
  /\ \A s \in Subs : Len(ch[s]) <= ChanCap
  /\ closed \subseteq Subs
  /\ op \in [Ops -> {"idle", "running", "done"}]
  /\ sse \in [Subs -> SsePC]
  /\ got \in [Subs -> Seq(Nat)]
  /\ lossy \subseteq Subs
  /\ panic \in BOOLEAN

\* No interleaving of several Finish calls, late writes and deferred cleanups
\* closes a channel twice or sends on a closed one, which would panic the
\* service (Task.Finish, Task.broadcastLocked, the cleanup of Task.Subscribe).
NoPanic == ~panic

\* A handler that no full channel made lose a line has the whole log, replayed
\* and live lines alike, in order and once each, up to the moment its channel
\* was closed; while attached it misses nothing (Subscribe "catches up on the
\* install's history").
Gapless ==
  \A s \in Subs : s \notin lossy =>
    LET seen == got[s] \o ch[s] IN
    /\ seen = UpTo(Len(seen)) /\ Len(seen) <= log
    /\ s \in subscribers => Len(seen) = log

\* Even a handler that loses lines gets them in log order, none of them twice.
InOrder ==
  \A s \in Subs : LET seen == got[s] \o ch[s] IN
    \A i, j \in 1..Len(seen) : i < j => seen[i] < seen[j]

\* Once some operation has run, every stream comes to its end: the operation's
\* Finish closes it, or it finds the task finished when it subscribes ("would
\* leave the handler blocked on <-ch forever").
StreamEnds ==
  \A s \in Subs :
    sse[s] = "streaming" /\ (\E o \in Ops : op[o] # "idle") ~> sse[s] # "streaming"

\* What a handler shows is the task's log, in order and without a gap that a
\* full channel does not explain (Task.Subscribe, Task.broadcastLocked).
StreamIsTheLog == TaskTypeOK /\ Gapless /\ InOrder
=============================================================================

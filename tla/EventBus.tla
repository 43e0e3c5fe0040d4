------------------------------ MODULE EventBus ------------------------------
(***************************************************************************)
(* The in-process publish/subscribe bus of the message-bus service:        *)
(* EventServiceWS and its sibling ActionServiceWS, the websocket handlers  *)
(* that subscribe, read and unsubscribe, and the dispatcher goroutine.     *)
(*                                                                         *)
(* The subscriber list of an event name is a Go slice: a header <<arr,     *)
(* len>> into a backing array.  The list is changed under a mutex but read *)
(* without it, by the dispatcher and by Unsubscribe itself, so the backing *)
(* arrays are part of the state: an old header keeps seeing the in-place   *)
(* shift of a removal, or keeps an array that append has since replaced.   *)
(* One source ID is modelled; the names of another are disjoint from it.   *)
(***************************************************************************)
EXTENDS Naturals, Sequences, FiniteSets

CONSTANTS
  Subs,            \* subscribing goroutines, each owning one channel
  Boot,            \* those that subscribe while main is still starting (YSK)
  Names,           \* registered event (or action) names
  Nil,             \* no subscriber, no name, no holder
  LockedSubscribe, \* TRUE: EventServiceWS.Subscribe; FALSE: ActionServiceWS.Subscribe
  MaxEvents        \* bound: number of events published

ASSUME SubsAssumption == Nil \notin Subs /\ Boot \subseteq Subs
ASSUME NamesAssumption == Nil \notin Names
ASSUME LockAssumption == LockedSubscribe \in BOOLEAN
ASSUME BoundAssumption == MaxEvents \in Nat

VARIABLES
  heap,      \* name -> backing arrays allocated so far, an array is a sequence
  list,      \* name -> slice header of subscriberChannels[source][name]
  mutex,     \* holder of the mutex, or Nil
  conn,      \* subscriber -> its goroutine's program counter and locals
  buf,       \* subscriber -> contents of its channel (capacity 1)
  closed,    \* channels closed by their handler
  disp,      \* the dispatcher goroutine
  published, \* number of events published so far
  fault      \* what killed the process, if anything

vars == <<heap, list, mutex, conn, buf, closed, disp, published, fault>>

ChanCap == 1
Heartbeat == [id |-> 0, name |-> Nil]
Event(i, n) == [id |-> i, name |-> n]

NilSlice == [arr |-> 0, len |-> 0]

(***************************************************************************)
(* Slices.                                                                 *)
(***************************************************************************)
Array(n, a) == IF a = 0 THEN <<>> ELSE heap[n][a]
Elem(n, h, i) == heap[n][h.arr][i]
Listed(s, n) == \E i \in 1..list[n].len : Elem(n, list[n], i) = s

Grown(c) == IF c = 0 THEN 1 ELSE 2 * c

\* The array append allocates: the old elements, then s, then zero values.
Copied(old, l, s) ==
  [i \in 1..Grown(Len(old)) |-> IF i <= l THEN old[i]
                                ELSE IF i = l + 1 THEN s ELSE Nil]

\* list[n] = append(h, s): in place when h has spare capacity.
AppendTo(n, h, s) ==
  LET old == Array(n, h.arr) IN
  \/ /\ h.len < Len(old)
     /\ heap' = [heap EXCEPT ![n][h.arr][h.len + 1] = s]
     /\ list' = [list EXCEPT ![n] = [arr |-> h.arr, len |-> h.len + 1]]
  \/ /\ h.len = Len(old)
     /\ heap' = [heap EXCEPT ![n] = Append(@, Copied(old, h.len, s))]
     /\ list' = [list EXCEPT ![n] = [arr |-> Len(heap[n]) + 1, len |-> h.len + 1]]

\* Mutated RemoveAt: the shifted slice is not stored back.
RemoveAtUnstored(n, i) ==
  LET h == list[n] IN
  /\ heap' = [heap EXCEPT ![n][h.arr] =
                [j \in DOMAIN @ |-> IF i <= j /\ j < h.len THEN @[j + 1] ELSE @[j]]]
  /\ UNCHANGED list

\* Mutated RemoveAt: the list is truncated instead of shifted.
RemoveAtTruncated(n, i) ==
  /\ list' = [list EXCEPT ![n] = [arr |-> list[n].arr, len |-> list[n].len - 1]]
  /\ UNCHANGED heap

\* list[n] = append(list[n][:i-1], list[n][i:]...): shift within the array.
RemoveAt(n, i) ==
  LET h == list[n] IN
  /\ heap' = [heap EXCEPT ![n][h.arr] =
                [j \in DOMAIN @ |-> IF i <= j /\ j < h.len THEN @[j + 1] ELSE @[j]]]
  /\ list' = [list EXCEPT ![n] = [arr |-> list[n].arr, len |-> list[n].len - 1]]

(***************************************************************************)
(* Subscribe: called by the websocket handler, and by YSKService.Start.    *)
(***************************************************************************)
\* The locals at, hdr, i and cur are reset when the loop that sets them ends.
NewConn == [pc |-> "off", names |-> {}, todo |-> {}, at |-> Nil,
            hdr |-> NilSlice, i |-> 0, cur |-> Nil, got |-> Heartbeat, seen |-> 0]

Running == fault = "none"

SubscribeBegin(s, ns) ==
  /\ Running
  /\ conn[s].pc = "off"
  /\ s \in Boot \/ disp.pc # "off"
  /\ IF LockedSubscribe THEN mutex = Nil /\ mutex' = s ELSE UNCHANGED mutex
  /\ conn' = [conn EXCEPT ![s].pc = "subscribing", ![s].names = ns, ![s].todo = ns]
  /\ UNCHANGED <<heap, list, buf, closed, disp, published, fault>>

SubscribeLoad(s, n) ==
  /\ Running
  /\ conn[s].pc = "subscribing" /\ n \in conn[s].todo
  /\ conn' = [conn EXCEPT ![s].pc = "appending", ![s].at = n, ![s].hdr = list[n]]
  /\ UNCHANGED <<heap, list, mutex, buf, closed, disp, published, fault>>

SubscribeAppend(s) ==
  LET n == conn[s].at
      left == conn[s].todo \ {n}
      last == left = {} IN
  /\ Running
  /\ conn[s].pc = "appending"
  /\ AppendTo(n, conn[s].hdr, s)
  /\ conn' = [conn EXCEPT ![s].pc = IF last THEN "live" ELSE "subscribing",
                          ![s].todo = left, ![s].at = Nil, ![s].hdr = NilSlice]
  /\ mutex' = IF LockedSubscribe /\ last THEN Nil ELSE mutex
  /\ UNCHANGED <<buf, closed, disp, published, fault>>

(***************************************************************************)
(* The handler goroutine: receive, write to the socket, leave on an error. *)
(***************************************************************************)
Receive(s) ==
  /\ Running
  /\ conn[s].pc = "live" /\ buf[s] # <<>>
  /\ conn' = [conn EXCEPT ![s].pc = "writing", ![s].got = Head(buf[s])]
  /\ buf' = [buf EXCEPT ![s] = Tail(@)]
  /\ UNCHANGED <<heap, list, mutex, closed, disp, published, fault>>

WriteOK(s) ==
  /\ Running
  /\ conn[s].pc = "writing"
  /\ conn' = [conn EXCEPT ![s].pc = "live", ![s].got = Heartbeat,
                          ![s].seen = IF conn[s].got = Heartbeat THEN @ ELSE conn[s].got.id]
  /\ UNCHANGED <<heap, list, mutex, buf, closed, disp, published, fault>>

\* A YSK subscriber writes to its database and never leaves its loop.
WriteFails(s) ==
  /\ Running
  /\ conn[s].pc = "writing" /\ s \notin Boot
  /\ conn' = [conn EXCEPT ![s].pc = "leaving", ![s].got = Heartbeat,
                          ![s].todo = conn[s].names]
  /\ UNCHANGED <<heap, list, mutex, buf, closed, disp, published, fault>>

(***************************************************************************)
(* Unsubscribe(source, n, c), one call per subscribed name.  The range     *)
(* header and each element are read before the lock; the deferred unlock   *)
(* releases the mutex when the call returns, not at the end of the         *)
(* iteration, so a second iteration locks a mutex its own caller holds.    *)
(***************************************************************************)
UnsubscribeRange(s, n) ==
  /\ Running
  /\ conn[s].pc = "leaving" /\ n \in conn[s].todo
  /\ conn' = IF list[n].len = 0
               THEN [conn EXCEPT ![s].todo = @ \ {n}]
               ELSE [conn EXCEPT ![s].pc = "reading", ![s].at = n,
                                 ![s].hdr = list[n], ![s].i = 1]
  /\ UNCHANGED <<heap, list, mutex, buf, closed, disp, published, fault>>

UnsubscribeRead(s) ==
  /\ Running
  /\ conn[s].pc = "reading"
  /\ conn' = [conn EXCEPT ![s].pc = "locking",
                          ![s].cur = Elem(conn[s].at, conn[s].hdr, conn[s].i)]
  /\ UNCHANGED <<heap, list, mutex, buf, closed, disp, published, fault>>

UnsubscribeLock(s) ==
  /\ Running
  /\ conn[s].pc = "locking" /\ mutex = Nil
  /\ mutex' = s
  /\ conn' = [conn EXCEPT ![s].pc = "holding"]
  /\ UNCHANGED <<heap, list, buf, closed, disp, published, fault>>

\* The call returns: deferred unlock, and on to the next name.
UnsubscribeReturn(s) ==
  /\ mutex' = Nil
  /\ conn' = [conn EXCEPT ![s].pc = "leaving", ![s].todo = @ \ {conn[s].at},
                          ![s].at = Nil, ![s].hdr = NilSlice, ![s].i = 0, ![s].cur = Nil]

UnsubscribeRemove(s) ==
  /\ Running
  /\ conn[s].pc = "holding" /\ conn[s].cur = s
  /\ IF conn[s].i <= list[conn[s].at].len
       THEN RemoveAt(conn[s].at, conn[s].i)
       ELSE UNCHANGED <<heap, list>>               \* ErrAlreadySubscribed
  /\ UnsubscribeReturn(s)
  /\ UNCHANGED <<buf, closed, disp, published, fault>>

UnsubscribeOther(s) ==
  /\ Running
  /\ conn[s].pc = "holding" /\ conn[s].cur # s
  /\ IF conn[s].i < conn[s].hdr.len
       THEN /\ conn' = [conn EXCEPT ![s].pc = "reading", ![s].i = @ + 1]
            /\ UNCHANGED mutex
       ELSE UnsubscribeReturn(s)
  /\ UNCHANGED <<heap, list, buf, closed, disp, published, fault>>

\* Mutated CloseChannel: close is not deferred behind the unsubscriptions.
CloseChannelEarly(s) ==
  /\ Running
  /\ conn[s].pc = "leaving"
  /\ closed' = closed \cup {s}
  /\ conn' = [conn EXCEPT ![s].pc = "gone"]
  /\ UNCHANGED <<heap, list, mutex, buf, disp, published, fault>>

\* Deferred close(channel) and conn.Close once every name was unsubscribed.
CloseChannel(s) ==
  /\ Running
  /\ conn[s].pc = "leaving" /\ conn[s].todo = {}
  /\ closed' = closed \cup {s}
  /\ conn' = [conn EXCEPT ![s].pc = "gone"]
  /\ UNCHANGED <<heap, list, mutex, buf, disp, published, fault>>

(***************************************************************************)
(* The dispatcher.                                                         *)
(***************************************************************************)
DispAt(pc, rest) == [pc |-> pc, ev |-> Heartbeat, name |-> Nil, hdr |-> NilSlice,
                     i |-> 0, c |-> Nil, rest |-> rest]

\* Start: under the mutex, allocates an empty subscriber map.
Start ==
  /\ Running
  /\ disp.pc = "off" /\ (LockedSubscribe => mutex = Nil)
  /\ list' = [n \in Names |-> NilSlice]
  /\ disp' = DispAt("idle", {})
  /\ UNCHANGED <<heap, mutex, conn, buf, closed, published, fault>>

\* Publish hands an event to an idle dispatcher, which ranges over the list.
PublishTaken(n) ==
  /\ Running
  /\ disp.pc = "idle" /\ published < MaxEvents
  /\ published' = published + 1
  /\ disp' = [disp EXCEPT !.pc = "fan", !.ev = Event(published + 1, n),
                          !.name = n, !.hdr = list[n], !.i = 1]
  /\ UNCHANGED <<heap, list, mutex, conn, buf, closed, fault>>

\* "drop event if no one is listening": the dispatcher is not at its select.
PublishDropped ==
  /\ Running
  /\ disp.pc \notin {"off", "idle"} /\ published < MaxEvents
  /\ published' = published + 1
  /\ UNCHANGED <<heap, list, mutex, conn, buf, closed, disp, fault>>

Tick ==
  /\ Running
  /\ disp.pc = "idle"
  /\ disp' = DispAt("beat", Names)
  /\ UNCHANGED <<heap, list, mutex, conn, buf, closed, published, fault>>

\* The heartbeat ranges over the map in any order.
BeatName(n) ==
  /\ Running
  /\ disp.pc = "beat" /\ n \in disp.rest
  /\ disp' = [disp EXCEPT !.pc = "fan", !.name = n, !.hdr = list[n], !.i = 1,
                          !.rest = @ \ {n}]
  /\ UNCHANGED <<heap, list, mutex, conn, buf, closed, published, fault>>

BeatEnd ==
  /\ Running
  /\ disp.pc = "beat" /\ disp.rest = {}
  /\ disp' = DispAt("idle", {})
  /\ UNCHANGED <<heap, list, mutex, conn, buf, closed, published, fault>>

\* One iteration of the range: the element is read, then offered.
FanRead ==
  /\ Running
  /\ disp.pc = "fan" /\ disp.i <= disp.hdr.len
  /\ disp' = [disp EXCEPT !.pc = "send", !.c = Elem(disp.name, disp.hdr, disp.i)]
  /\ UNCHANGED <<heap, list, mutex, conn, buf, closed, published, fault>>

FanEnd ==
  /\ Running
  /\ disp.pc = "fan" /\ disp.i > disp.hdr.len
  /\ disp' = IF disp.ev = Heartbeat THEN DispAt("beat", disp.rest) ELSE DispAt("idle", {})
  /\ UNCHANGED <<heap, list, mutex, conn, buf, closed, published, fault>>

\* Mutated Offer: a full buffer grows.
OfferUnbounded(c, e) == buf' = [buf EXCEPT ![c] = Append(@, e)]

\* Mutated Offer: the newest event overtakes the one that waits.
OfferNewestFirst(c, e) ==
  buf' = IF Len(buf[c]) <= ChanCap THEN [buf EXCEPT ![c] = <<e>> \o @] ELSE buf

\* The non-blocking send: delivered, or dropped when the buffer is full.
Offer(c, e) ==
  buf' = IF Len(buf[c]) < ChanCap THEN [buf EXCEPT ![c] = Append(@, e)] ELSE buf

\* Mutated Send: no default case, the dispatcher waits for room.
SendWaits ==
  /\ Running
  /\ disp.pc = "send" /\ disp.c \notin closed /\ Len(buf[disp.c]) < ChanCap
  /\ buf' = [buf EXCEPT ![disp.c] = Append(@, disp.ev)]
  /\ disp' = [disp EXCEPT !.pc = "fan", !.i = @ + 1, !.c = Nil]
  /\ UNCHANGED <<heap, list, mutex, conn, closed, published, fault>>

Send ==
  /\ Running
  /\ disp.pc = "send" /\ disp.c \notin closed
  /\ Offer(disp.c, disp.ev)
  /\ disp' = [disp EXCEPT !.pc = "fan", !.i = @ + 1, !.c = Nil]
  /\ UNCHANGED <<heap, list, mutex, conn, closed, published, fault>>

SendPanics ==
  /\ Running
  /\ disp.pc = "send" /\ disp.c \in closed
  /\ fault' = "send on closed channel"
  /\ UNCHANGED <<heap, list, mutex, conn, buf, closed, disp, published>>

\* The dispatcher reads the map while a subscriber is assigning to it: the
\* runtime may detect it and abort ("concurrent map read and map write").
MapRace ==
  /\ Running
  /\ disp.pc \in {"idle", "beat"}
  /\ \E s \in Subs : \/ conn[s].pc = "appending"
                     \/ conn[s].pc = "holding" /\ conn[s].cur = s
  /\ fault' = "concurrent map access"
  /\ UNCHANGED <<heap, list, mutex, conn, buf, closed, disp, published>>

(***************************************************************************)
(* The specification.                                                      *)
(***************************************************************************)
Init ==
  /\ heap = [n \in Names |-> <<>>]
  /\ list = [n \in Names |-> NilSlice]
  /\ mutex = Nil
  /\ conn = [s \in Subs |-> NewConn]
  /\ buf = [s \in Subs |-> <<>>]
  /\ closed = {}
  /\ disp = DispAt("off", {})
  /\ published = 0
  /\ fault = "none"

Subscribing(s) ==
  \/ \E ns \in (SUBSET Names) \ {{}} : SubscribeBegin(s, ns)
  \/ \E n \in Names : SubscribeLoad(s, n)
  \/ SubscribeAppend(s)

Unsubscribing(s) ==
  \/ \E n \in Names : UnsubscribeRange(s, n)
  \/ UnsubscribeRead(s)
  \/ UnsubscribeLock(s)
  \/ UnsubscribeRemove(s)
  \/ UnsubscribeOther(s)
  \/ CloseChannel(s)

Dispatching ==
  \/ BeatEnd
  \/ \E n \in Names : BeatName(n)
  \/ FanRead
  \/ FanEnd
  \/ Send
  \/ SendPanics

Next ==
  \/ \E s \in Subs : \/ Subscribing(s)
                     \/ Receive(s)
                     \/ WriteOK(s)
                     \/ WriteFails(s)
                     \/ Unsubscribing(s)
  \/ Start
  \/ \E n \in Names : PublishTaken(n)
  \/ PublishDropped
  \/ Tick
  \/ MapRace
  \/ Dispatching

Spec == Init /\ [][Next]_vars

\* Fairness.  Goroutines are scheduled: the dispatcher finishes what it began, and a
\* handler's own steps run.  Nothing forces an event, a tick or a socket error.  Strong
\* fairness for Unsubscribing: sync.Mutex hands over to a starving waiter.
FairSpec ==
  /\ Spec
  /\ WF_vars(Start)
  /\ WF_vars(Dispatching)
  /\ \A s \in Subs : WF_vars(Subscribing(s) /\ conn[s].pc # "off") /\ SF_vars(Unsubscribing(s))

(***************************************************************************)
(* Properties.                                                             *)
(***************************************************************************)
Slice == [arr : Nat, len : Nat]
Item == [id : Nat, name : Names \cup {Nil}]

ConnPC == {"off", "subscribing", "appending", "live", "writing", "leaving",
           "reading", "locking", "holding", "gone"}
DispPC == {"off", "idle", "beat", "fan", "send"}
Faults == {"none", "send on closed channel", "concurrent map access"}

\* Every variable has its type; in particular a channel never holds more
\* than its capacity and the mutex has at most one holder.
TypeOK ==
  /\ heap \in [Names -> Seq(Seq(Subs \cup {Nil}))]
  /\ list \in [Names -> Slice]
  /\ mutex \in Subs \cup {Nil}
  /\ conn \in [Subs -> [pc : ConnPC, names : SUBSET Names, todo : SUBSET Names,
                        at : Names \cup {Nil}, hdr : Slice, i : Nat,
                        cur : Subs \cup {Nil}, got : Item, seen : Nat]]
  /\ buf \in [Subs -> Seq(Item)]
  /\ \A s \in Subs : Len(buf[s]) <= ChanCap
  /\ closed \subseteq Subs
  /\ disp \in [pc : DispPC, ev : Item, name : Names \cup {Nil}, hdr : Slice,
               i : Nat, c : Subs \cup {Nil}, rest : SUBSET Names]
  /\ published \in 0..MaxEvents
  /\ fault \in Faults

\* A subscriber whose Subscribe returned is in the list of every name it
\* asked for, as long as it has not begun to leave: Subscribe's "will receive
\* every event whose (SourceID, Name) matches".
LiveListed ==
  \A s \in Subs : conn[s].pc \in {"live", "writing"} =>
    \A n \in conn[s].names : Listed(s, n)

\* A channel its handler has closed is in no subscriber list, so that no
\* fan-out that starts later can send on it (event_service_websocket.go,
\* Unsubscribe before close in the handler's deferred calls).
ClosedNotListed ==
  \A s \in closed : \A n \in Names : ~Listed(s, n)

\* The list of a name holds each subscriber once.
ListedOnce ==
  \A n \in Names : \A i, j \in 1..list[n].len :
    Elem(n, list[n], i) = Elem(n, list[n], j) => i = j

\* In the loop of Unsubscribe.
Looping == {"reading", "locking", "holding"}

\* A header stays within the array it points to.
Fits(n, h) == h.arr \in 0..Len(heap[n]) /\ h.len <= Len(Array(n, h.arr))

\* No header a goroutine still holds reaches beyond its array.
SlicesFit ==
  /\ \A n \in Names : Fits(n, list[n]) /\ \A a \in 1..Len(heap[n]) : Len(heap[n][a]) >= 1
  /\ \A s \in Subs : conn[s].pc \in Looping \cup {"appending"} =>
       conn[s].at \in Names /\ Fits(conn[s].at, conn[s].hdr)
  /\ \A s \in Subs : conn[s].pc \in Looping => conn[s].i \in 1..conn[s].hdr.len
  /\ disp.pc \in {"fan", "send"} =>
       disp.name \in Names /\ Fits(disp.name, disp.hdr) /\ disp.i >= 1

\* Events reach a socket in the order in which they were published, drops
\* and duplicated offers notwithstanding.
InOrder ==
  [][\A s \in Subs : conn'[s].seen >= conn[s].seen]_vars

\* The dispatcher comes back to its select whatever the subscribers do, slow
\* or stuck: back-pressure never reaches the bus.
DispatcherReturns == disp.pc # "idle" ~> (disp.pc = "idle" \/ ~Running)

\* The subscriber lists hold exactly the live handlers, once each, and no closed
\* channel: the index a leaving handler reads before it takes the lock still
\* designates its own channel when it is used
\* (event_service_websocket.go:128-141).
ListsMatch == LiveListed /\ ClosedNotListed /\ ListedOnce
=============================================================================

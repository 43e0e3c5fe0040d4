--------------------------- MODULE AuditRecorder ---------------------------
(***************************************************************************)
(* The audit trail's asynchronous write path: request goroutines hand one  *)
(* record each to Recorder.Submit, a writer goroutine gathers them into    *)
(* batches and appends those to the JSONL file and to the in-memory ring.  *)
(*                                                                         *)
(* Submit is up to three channel operations with other goroutines free to  *)
(* run in between; a flush is a write of the file, then an update of the   *)
(* ring, then a reset of the timer.  The service is closed once, by its    *)
(* host's stop hook, while requests may still be in flight.                *)
(***************************************************************************)
EXTENDS Naturals, Sequences, FiniteSets, SequencesExt

CONSTANTS
  Records,    \* audit records, one request goroutine each
  Capacity,   \* slots of the channel (1024)
  BatchSize,  \* records per flush (50)
  RingCap     \* records in the ring (1000)

ASSUME SizesPositive ==
  Capacity \in Nat \ {0} /\ BatchSize \in Nat \ {0} /\ RingCap \in Nat \ {0}

VARIABLES
  pc,       \* record -> where its Submit is: before, between two selects, done
  ch,       \* the channel
  dropped,  \* the counter of records dropped by backpressure
  batch,    \* the writer's batch
  wpc,      \* the writer: selecting, draining after stop, in a flush, exited
  ret,      \* where the writer goes after the flush
  timer,    \* "armed", "fired" (its channel holds a tick) or "spent"
  closer,   \* Service.Close: not called, waiting for the writer, done
  before,   \* history: records whose Submit was over when Close was called
  file,     \* the JSONL file
  ring,     \* the in-memory ring, newest last
  failed    \* history: records of failed writes that are not in the file

vars == <<pc, ch, dropped, batch, wpc, ret, timer, closer, before, file, ring, failed>>
submitVars == <<pc, ch, dropped>>
writerVars == <<batch, wpc, ret, timer>>
storeVars == <<file, ring, failed>>
closeVars == <<closer, before>>

Finished == {r \in Records : pc[r] = "done"}
Suffix(s, n) == IF Len(s) <= n THEN s ELSE SubSeq(s, Len(s) - n + 1, Len(s))

(***************************************************************************)
(* Submit.                                                                 *)
(***************************************************************************)
\* The first select: send, or find the channel full.
TrySend(r) ==
  /\ pc[r] = "start"
  /\ IF Len(ch) < Capacity
       THEN ch' = Append(ch, r) /\ pc' = [pc EXCEPT ![r] = "done"]
       ELSE pc' = [pc EXCEPT ![r] = "full"] /\ UNCHANGED ch
  /\ UNCHANGED <<dropped, writerVars, storeVars, closeVars>>

\* Mutated DropOldest: the counter is not raised.
DropOldestUncounted(r) ==
  /\ pc[r] = "full"
  /\ pc' = [pc EXCEPT ![r] = "retry"]
  /\ ch' = IF ch = <<>> THEN ch ELSE Tail(ch)
  /\ UNCHANGED <<dropped, writerVars, storeVars, closeVars>>

\* The second select: take one record out, if the writer has left any.
DropOldest(r) ==
  /\ pc[r] = "full"
  /\ pc' = [pc EXCEPT ![r] = "retry"]
  /\ IF ch = <<>> THEN UNCHANGED <<ch, dropped>>
                  ELSE ch' = Tail(ch) /\ dropped' = dropped + 1
  /\ UNCHANGED <<writerVars, storeVars, closeVars>>

\* Mutated Resend: sends without looking whether the slot is still free.
ResendUnbounded(r) ==
  /\ pc[r] = "retry"
  /\ pc' = [pc EXCEPT ![r] = "done"]
  /\ ch' = Append(ch, r)
  /\ UNCHANGED <<dropped, writerVars, storeVars, closeVars>>

\* The third select: another request may have taken the slot.
Resend(r) ==
  /\ pc[r] = "retry"
  /\ pc' = [pc EXCEPT ![r] = "done"]
  /\ IF Len(ch) < Capacity THEN ch' = Append(ch, r) /\ UNCHANGED dropped
                           ELSE dropped' = dropped + 1 /\ UNCHANGED ch
  /\ UNCHANGED <<writerVars, storeVars, closeVars>>

(***************************************************************************)
(* The writer.                                                             *)
(***************************************************************************)
\* Receives one record in loop l; a full batch is flushed.
Receive(l) ==
  /\ wpc = l /\ ch # <<>>
  /\ batch' = Append(batch, Head(ch))
  /\ ch' = Tail(ch)
  /\ ret' = l
  /\ wpc' = IF Len(batch) + 1 >= BatchSize THEN "write" ELSE l
  /\ UNCHANGED <<pc, dropped, timer, storeVars, closeVars>>

Tick ==
  /\ wpc = "select" /\ timer = "fired"
  /\ timer' = "spent"
  /\ wpc' = "write" /\ ret' = "select"
  /\ UNCHANGED <<batch, submitVars, storeVars, closeVars>>

SeeStop ==
  /\ wpc = "select" /\ closer # "open"
  /\ wpc' = "drain" /\ ret' = "drain"
  /\ UNCHANGED <<batch, timer, submitVars, storeVars, closeVars>>

\* The channel is empty: the last flush.
LastFlush ==
  /\ wpc = "drain" /\ ch = <<>>
  /\ wpc' = "write" /\ ret' = "exited"
  /\ UNCHANGED <<batch, timer, submitVars, storeVars, closeVars>>

\* Mutated FlushEmpty: the timer is reset only after a write.
FlushEmptyNoReset ==
  /\ wpc = "write" /\ batch = <<>>
  /\ wpc' = ret
  /\ UNCHANGED <<batch, ret, timer, submitVars, storeVars, closeVars>>

FlushEmpty ==
  /\ wpc = "write" /\ batch = <<>>
  /\ wpc' = ret /\ timer' = "armed"
  /\ UNCHANGED <<batch, ret, submitVars, storeVars, closeVars>>

\* AppendBatch: the whole batch is in the file, the ring not yet updated.
WriteFile ==
  /\ wpc = "write" /\ batch # <<>> /\ closer # "closed"
  /\ file' = file \o batch
  /\ wpc' = "ring"
  /\ UNCHANGED <<batch, ret, timer, ring, failed, submitVars, closeVars>>

\* Mutated WriteFails: the ring is updated as if the write had succeeded.
WriteFailsUnnoticed(n) ==
  /\ wpc = "write" /\ batch # <<>>
  /\ file' = file \o SubSeq(batch, 1, n)
  /\ failed' = failed \cup {batch[i] : i \in n+1..Len(batch)}
  /\ wpc' = "ring"
  /\ UNCHANGED <<batch, ret, timer, ring, submitVars, closeVars>>

\* AppendBatch fails: nothing is written (one Write, or the file is closed), or
\* the records before the failing one (a Write each).  The error is discarded,
\* and the batch with it.
WriteFails(n) ==
  /\ wpc = "write" /\ batch # <<>>
  /\ closer = "closed" => n = 0
  /\ file' = file \o SubSeq(batch, 1, n)
  /\ failed' = failed \cup {batch[i] : i \in n+1..Len(batch)}
  /\ batch' = <<>> /\ timer' = "armed" /\ wpc' = ret
  /\ UNCHANGED <<ret, ring, submitVars, closeVars>>

\* Mutated UpdateRing: the batch is written again with the next one.
UpdateRingKeepBatch ==
  /\ wpc = "ring"
  /\ ring' = Suffix(ring \o batch, RingCap)
  /\ timer' = "armed" /\ wpc' = ret
  /\ UNCHANGED <<batch, ret, file, failed, submitVars, closeVars>>

\* The rest of AppendBatch and of flush.
UpdateRing ==
  /\ wpc = "ring"
  /\ ring' = Suffix(ring \o batch, RingCap)
  /\ batch' = <<>> /\ timer' = "armed" /\ wpc' = ret
  /\ UNCHANGED <<ret, file, failed, submitVars, closeVars>>

TimerFires ==
  /\ timer = "armed" /\ wpc # "exited"
  /\ timer' = "fired"
  /\ UNCHANGED <<batch, wpc, ret, submitVars, storeVars, closeVars>>

(***************************************************************************)
(* Service.Close.                                                          *)
(***************************************************************************)
CloseStop ==
  /\ closer = "open"
  /\ closer' = "waiting"
  /\ before' = Finished
  /\ UNCHANGED <<submitVars, writerVars, storeVars>>

\* Mutated CloseFile: does not wait for the writer.
CloseFileAtOnce ==
  /\ closer = "waiting"
  /\ closer' = "closed"
  /\ UNCHANGED <<before, submitVars, writerVars, storeVars>>

\* The writer's done channel is closed; Close goes on to close the file.
CloseFile ==
  /\ closer = "waiting" /\ wpc = "exited"
  /\ closer' = "closed"
  /\ UNCHANGED <<before, submitVars, writerVars, storeVars>>

(***************************************************************************)
(* The specification.                                                      *)
(***************************************************************************)
Init ==
  /\ pc = [r \in Records |-> "start"]
  /\ ch = <<>>
  /\ dropped = 0
  /\ batch = <<>>
  /\ wpc = "select" /\ ret = "select"
  /\ timer = "armed"
  /\ closer = "open"
  /\ before = {}
  /\ file = <<>> /\ ring = <<>>
  /\ failed = {}

Submit(r) == TrySend(r) \/ DropOldest(r) \/ Resend(r)
Flush ==
  \/ FlushEmpty \/ WriteFile \/ UpdateRing
  \/ \E n \in 0..BatchSize-1 : n < Len(batch) /\ WriteFails(n)
Writer == Receive("select") \/ Receive("drain") \/ Tick \/ SeeStop \/ LastFlush \/ Flush
Close == CloseStop \/ CloseFile

Next == (\E r \in Records : Submit(r)) \/ Writer \/ TimerFires \/ Close

Spec == Init /\ [][Next]_vars

\* Fairness.  The writer's goroutine and the runtime's timer run, and a select
\* draws among its ready cases at random, so that ticks cannot keep it from the
\* channel for ever.  Nothing makes a request arrive or the service close.
FairSpec ==
  Spec /\ WF_vars(Writer) /\ WF_vars(TimerFires) /\ SF_vars(Receive("select"))

(***************************************************************************)
(* Properties.                                                             *)
(***************************************************************************)
\* Every variable has its type; the channel, the batch and the ring stay within
\* their sizes.
TypeOK ==
  /\ pc \in [Records -> {"start", "full", "retry", "done"}]
  /\ ch \in Seq(Records) /\ Len(ch) <= Capacity
  /\ dropped \in Nat
  /\ batch \in Seq(Records) /\ Len(batch) <= BatchSize
  /\ wpc \in {"select", "drain", "write", "ring", "exited"}
  /\ ret \in {"select", "drain", "exited"}
  /\ timer \in {"armed", "fired", "spent"}
  /\ closer \in {"open", "waiting", "closed"}
  /\ before \subseteq Records
  /\ file \in Seq(Records)
  /\ ring \in Seq(Records) /\ Len(ring) <= RingCap
  /\ failed \subseteq Records

\* Between two flushes nothing goes missing unaccounted: however the selects of
\* concurrent Submits interleave, each record they made room by discarding is
\* counted, and each one offered is queued, on disk, counted in dropped, or was
\* in a write that failed (the counter "of records dropped due to backpressure").
Accounted ==
  LET unwritten == IF wpc = "ring" THEN 0 ELSE Len(batch) IN
  Cardinality(Finished)
    = dropped + Len(ch) + unwritten + Len(file) + Cardinality(failed)

\* A record whose request was answered before the service began to close is no
\* longer in a buffer when the close is done ("pending records flush before the
\* goroutine exits"), although requests still submit while the writer drains.
FlushedBeforeClose ==
  closer = "closed" => before \cap (ToSet(ch) \cup ToSet(batch)) = {}

\* The ring never shows a record that is not on disk, nor two in another order
\* than the file's; as long as no write failed it is the file's tail, short of a
\* batch whose write is just over.
RingMirrorsFile ==
  LET InFile(i) == {k \in 1..Len(file) : file[k] = ring[i]}
      shown == IF wpc = "ring" THEN Len(file) - Len(batch) ELSE Len(file)
  IN /\ \A i, j \in 1..Len(ring) :
          i < j => \E k \in InFile(i), l \in InFile(j) : k < l
     /\ \A i \in 1..Len(ring) : InFile(i) # {}
     /\ failed = {} => ring = Suffix(SubSeq(file, 1, shown), RingCap)

\* A record in a buffer leaves it, even if no other ever arrives to fill the
\* batch: the timer is live as long as the writer is ("submits sit in the channel
\* until BatchSize accumulates, sometimes forever" was a bug).
EveryRecordSettles ==
  \A r \in Records :
    r \in ToSet(ch) \cup ToSet(batch) /\ closer = "open"
      ~> r \notin ToSet(ch) \cup ToSet(batch) \/ closer # "open"

\* The recorder behaves as the abstract audit log: every record at most once, in
\* the order the channel accepted them, the file only growing.  A record is
\* pending while it is in the channel, or in a batch not yet in the file.
Unwritten == IF wpc = "ring" THEN ch ELSE batch \o ch
Promise == INSTANCE AuditLog WITH
  pending <- Unwritten, log <- file,
  lost <- Finished \ (ToSet(Unwritten) \cup ToSet(file))
Implements == Promise!Spec

\* Every record is accounted for and what is shown is what is on disk
\* (Recorder.Submit, Store.AppendBatch).
RecordsAccounted == TypeOK /\ Accounted /\ RingMirrorsFile
=============================================================================

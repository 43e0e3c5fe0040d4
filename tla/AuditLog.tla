------------------------------ MODULE AuditLog ------------------------------
(***************************************************************************)
(* What the audit trail promises, whatever buffers stand in between: a     *)
(* first-in-first-out queue in front of an append-only log.  A record is   *)
(* offered once; it is then written once, in its turn, or lost for good.   *)
(***************************************************************************)
EXTENDS Naturals, Sequences, SequencesExt

CONSTANT Records

VARIABLES
  pending,  \* records accepted and not yet written
  log,      \* records on disk
  lost      \* records given up

vars == <<pending, log, lost>>

New(r) == r \notin Range(pending) \cup Range(log) \cup lost

Init == pending = <<>> /\ log = <<>> /\ lost = {}

Accept(r) ==
  /\ New(r)
  /\ pending' = Append(pending, r)
  /\ UNCHANGED <<log, lost>>

\* No room was made for the record after all.
Reject(r) ==
  /\ New(r)
  /\ lost' = lost \cup {r}
  /\ UNCHANGED <<pending, log>>

\* A record that waited gives way to a newer one.
Displace(i) ==
  /\ lost' = lost \cup {pending[i]}
  /\ pending' = RemoveAt(pending, i)
  /\ UNCHANGED log

\* The k oldest records leave the queue; the first n of them reach the disk.
Write(k, n) ==
  /\ log' = log \o SubSeq(pending, 1, n)
  /\ lost' = lost \cup {pending[i] : i \in n+1..k}
  /\ pending' = SubSeq(pending, k + 1, Len(pending))

Next ==
  \/ \E r \in Records : Accept(r) \/ Reject(r)
  \/ \E i \in 1..Len(pending) : Displace(i)
  \/ \E k \in 1..Len(pending) : \E n \in 0..k : Write(k, n)

Spec == Init /\ [][Next]_vars
=============================================================================

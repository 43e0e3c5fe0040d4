------------------------ MODULE AuditRecorderProofs ------------------------
(***************************************************************************)
(* Proofs about AuditRecorder, for every set of records and all sizes of   *)
(* the channel, of a batch and of the ring.                                *)
(***************************************************************************)
EXTENDS AuditRecorder, SequenceTheorems, FiniteSetTheorems, TLAPS

(***************************************************************************)
(* The members of a sequence that is extended or shortened.                *)
(***************************************************************************)
LEMMA ToSetAppend ==
  ASSUME NEW S, NEW s \in Seq(S), NEW x \in S
  PROVE  Append(s, x) \in Seq(S) /\ ToSet(Append(s, x)) = ToSet(s) \cup {x}
<1>1. /\ Append(s, x) \in Seq(S) /\ Len(Append(s, x)) = Len(s) + 1
      /\ \A i \in 1..Len(s) : Append(s, x)[i] = s[i]
      /\ Append(s, x)[Len(s) + 1] = x
  OBVIOUS
<1>2. DOMAIN Append(s, x) = 1..(Len(s) + 1) /\ DOMAIN s = 1..Len(s) /\ Len(s) \in Nat
  BY <1>1
<1>. QED
  BY <1>1, <1>2 DEF ToSet

LEMMA ToSetTail ==
  ASSUME NEW S, NEW s \in Seq(S), s # <<>>
  PROVE  Tail(s) \in Seq(S) /\ Head(s) \in S /\ Len(Tail(s)) = Len(s) - 1
         /\ ToSet(Tail(s)) \subseteq ToSet(s)
<1>1. Tail(s) \in Seq(S) /\ Head(s) \in S /\ Len(Tail(s)) = Len(s) - 1
  BY HeadTailProperties
<1>2. \A i \in 1..(Len(s) - 1) : Tail(s)[i] = s[i + 1]
  BY HeadTailProperties
<1>3. DOMAIN Tail(s) = 1..(Len(s) - 1) /\ DOMAIN s = 1..Len(s) /\ Len(s) \in Nat
  BY <1>1
<1>. QED
  BY <1>1, <1>2, <1>3 DEF ToSet

(***************************************************************************)
(* The inductive invariant.  The types of what the argument reads; the     *)
(* writer drains only when the service is closing, and after its last look *)
(* at the channel nothing submitted before the close is in there: a Submit *)
(* that is still going on then was not over when the close began.          *)
(***************************************************************************)
BufferTypes ==
  /\ pc \in [Records -> {"start", "full", "retry", "done"}]
  /\ ch \in Seq(Records) /\ batch \in Seq(Records)
  /\ before \subseteq Finished

DrainInv ==
  /\ closer = "open" => wpc \in {"select", "write", "ring"} /\ ret = "select"
  /\ closer = "closed" => wpc = "exited"
  /\ wpc = "exited" => ret = "exited" /\ batch = <<>>
  /\ ret = "exited" => before \cap ToSet(ch) = {}

LEMMA FlushInit == Init => BufferTypes /\ DrainInv
BY DEF Init, BufferTypes, DrainInv, ToSet, Finished

\* A Submit puts at most its own record in the channel, and it was not over
\* when the close began.
LEMMA SubmitKeeps ==
  ASSUME BufferTypes, DrainInv, NEW r \in Records, Submit(r)
  PROVE  BufferTypes' /\ DrainInv'
<1>1. UNCHANGED <<batch, wpc, ret, closer, before>>
  BY DEF Submit, TrySend, DropOldest, Resend, writerVars, closeVars
<1>2. pc[r] # "done"
  BY DEF Submit, TrySend, DropOldest, Resend
<1>3. r \notin before
  BY <1>2 DEF BufferTypes, Finished
<1>4. ch' = ch \/ (ch # <<>> /\ ch' = Tail(ch)) \/ ch' = Append(ch, r)
  BY DEF Submit, TrySend, DropOldest, Resend
<1>5. ch' \in Seq(Records) /\ ToSet(ch') \subseteq ToSet(ch) \cup {r}
  <2>1. ch \in Seq(Records)
    BY DEF BufferTypes
  <2>2. CASE ch' = ch
    BY <2>1, <2>2
  <2>3. CASE ch # <<>> /\ ch' = Tail(ch)
    BY <2>1, <2>3, ToSetTail
  <2>4. CASE ch' = Append(ch, r)
    BY <2>1, <2>4, ToSetAppend
  <2>. QED
    BY <1>4, <2>2, <2>3, <2>4
<1>6. pc' \in [Records -> {"start", "full", "retry", "done"}]
      /\ \A q \in Records \ {r} : pc'[q] = pc[q]
  BY DEF Submit, TrySend, DropOldest, Resend, BufferTypes
<1>7. before \subseteq Finished'
  BY <1>3, <1>6 DEF BufferTypes, Finished
<1>8. BufferTypes'
  BY <1>1, <1>5, <1>6, <1>7 DEF BufferTypes
<1>9. ret = "exited" => before \cap ToSet(ch') = {}
  BY <1>3, <1>5 DEF DrainInv
<1>. QED
  BY <1>1, <1>8, <1>9 DEF DrainInv

LEMMA WriterKeeps ==
  ASSUME BufferTypes, DrainInv, Writer
  PROVE  BufferTypes' /\ DrainInv'
<1>1. UNCHANGED <<pc, closer, before>>
  BY DEF Writer, Receive, Tick, SeeStop, LastFlush, Flush, FlushEmpty, WriteFile,
         UpdateRing, WriteFails, submitVars, closeVars
<1>2. Finished' = Finished
  BY <1>1 DEF Finished
<1>3. ASSUME NEW l \in {"select", "drain"}, Receive(l) PROVE BufferTypes' /\ DrainInv'
  <2>1. /\ wpc = l /\ ch # <<>> /\ batch' = Append(batch, Head(ch)) /\ ch' = Tail(ch)
        /\ ret' = l /\ wpc' \in {"write", l}
    BY <1>3 DEF Receive
  <2>2. ch' \in Seq(Records) /\ batch' \in Seq(Records)
    BY <2>1, ToSetTail, ToSetAppend DEF BufferTypes
  <2>. QED
    BY <1>1, <1>2, <2>1, <2>2 DEF BufferTypes, DrainInv
<1>4. CASE Tick \/ SeeStop
  BY <1>1, <1>2, <1>4 DEF Tick, SeeStop, BufferTypes, DrainInv, submitVars, closeVars
<1>5. CASE LastFlush
  <2>1. ch = <<>> /\ UNCHANGED <<ch, batch>> /\ wpc = "drain" /\ wpc' = "write" /\ ret' = "exited"
    BY <1>5 DEF LastFlush, submitVars
  <2>2. ToSet(ch') = {}
    BY <2>1 DEF ToSet
  <2>. QED
    BY <1>1, <1>2, <2>1, <2>2 DEF BufferTypes, DrainInv
<1>6. CASE Flush
  <2>1. UNCHANGED <<ch, ret>> /\ wpc \in {"write", "ring"}
    BY <1>6 DEF Flush, FlushEmpty, WriteFile, UpdateRing, WriteFails, submitVars
  <2>2. \/ batch' = <<>> /\ wpc' = ret
        \/ batch' = batch /\ wpc' = "ring" /\ closer # "closed"
    BY <1>6 DEF Flush, FlushEmpty, WriteFile, UpdateRing, WriteFails
  <2>3. batch' \in Seq(Records) /\ ch' = ch /\ ret' = ret
    <3>1. <<>> \in Seq(Records) /\ batch \in Seq(Records)
      BY EmptySeq DEF BufferTypes
    <3>2. batch' = <<>> \/ batch' = batch
      BY <2>2, Zenon
    <3>. QED
      BY <2>1, <3>1, <3>2, Zenon
  <2>4. BufferTypes'
    BY <1>1, <1>2, <2>1, <2>3 DEF BufferTypes
  <2>5. closer # "closed" /\ wpc' \in {ret, "ring"} /\ (wpc' = "exited" => batch' = <<>>)
    BY <2>1, <2>2 DEF DrainInv
  <2>6. ret' = "exited" => before' \cap ToSet(ch') = {}
    BY <1>1, <2>3, Zenon DEF DrainInv
  <2>7. wpc' = "exited" => ret' = "exited" /\ batch' = <<>>
    BY <2>1, <2>5
  <2>8. closer' = "open" => wpc' \in {"select", "write", "ring"} /\ ret' = "select"
    BY <1>1, <2>1, <2>5 DEF DrainInv
  <2>. QED
    BY <1>1, <2>4, <2>5, <2>6, <2>7, <2>8 DEF DrainInv
<1>. QED
  BY <1>3, <1>4, <1>5, <1>6 DEF Writer

LEMMA CloseKeeps ==
  ASSUME BufferTypes, DrainInv, Close \/ TimerFires \/ UNCHANGED vars
  PROVE  BufferTypes' /\ DrainInv'
<1>1. UNCHANGED <<pc, ch, batch, wpc, ret>>
  BY DEF Close, CloseStop, CloseFile, TimerFires, vars, submitVars, writerVars
<1>2. Finished' = Finished /\ ToSet(ch)' = ToSet(ch)
  BY <1>1 DEF Finished, ToSet
<1>3. \/ closer = "open" /\ closer' = "waiting" /\ before' = Finished
      \/ closer' = "closed" /\ wpc = "exited" /\ before' = before
      \/ UNCHANGED <<closer, before>>
  BY DEF Close, CloseStop, CloseFile, TimerFires, vars, closeVars
<1>. QED
  BY <1>1, <1>2, <1>3 DEF BufferTypes, DrainInv

\* However many requests submit while the writer drains, every record whose
\* Submit was over when the close began has left the channel and the batch when
\* the close is done.
THEOREM CloseFlushes == Spec => []FlushedBeforeClose
<1>1. Init => BufferTypes /\ DrainInv
  BY FlushInit
<1>2. (BufferTypes /\ DrainInv) /\ [Next]_vars => (BufferTypes /\ DrainInv)'
  BY SubmitKeeps, WriterKeeps, CloseKeeps DEF Next
<1>3. BufferTypes /\ DrainInv => FlushedBeforeClose
  BY DEF BufferTypes, DrainInv, FlushedBeforeClose, ToSet
<1>. QED
  BY <1>1, <1>2, <1>3, PTL DEF Spec

(***************************************************************************)
(* The refinement: the recorder implements AuditLog.  First what becomes   *)
(* of the members of sequences that are joined and cut.                    *)
(***************************************************************************)
Inj(s) == \A i, j \in 1..Len(s) : s[i] = s[j] => i = j

LEMMA AppendNew ==
  ASSUME NEW S, NEW s \in Seq(S), NEW x \in S, Inj(s), x \notin ToSet(s)
  PROVE  Inj(Append(s, x))
<1>1. /\ Len(Append(s, x)) = Len(s) + 1 /\ Len(s) \in Nat /\ DOMAIN s = 1..Len(s)
      /\ \A i \in 1..Len(s) : Append(s, x)[i] = s[i]
      /\ Append(s, x)[Len(s) + 1] = x
  BY AppendProperties, LenProperties
<1>2. \A i \in 1..Len(s) : s[i] # x
  BY <1>1 DEF ToSet
<1>. QED
  BY <1>1, <1>2 DEF Inj

LEMMA TailOnce ==
  ASSUME NEW S, NEW s \in Seq(S), s # <<>>
  PROVE  /\ ToSet(s) = ToSet(Tail(s)) \cup {Head(s)}
         /\ Inj(s) => Inj(Tail(s)) /\ Head(s) \notin ToSet(Tail(s))
<1>1. /\ Len(Tail(s)) = Len(s) - 1 /\ Len(s) \in Nat \ {0} /\ DOMAIN s = 1..Len(s)
      /\ \A i \in 1..Len(Tail(s)) : Tail(s)[i] = s[i + 1]
      /\ Tail(s) \in Seq(S)
  BY HeadTailProperties, LenProperties, EmptySeq
<1>2. DOMAIN Tail(s) = 1..(Len(s) - 1)
  BY <1>1, LenProperties
<1>3. Head(s) = s[1]
  BY <1>1
<1>4. ToSet(s) = {s[i] : i \in 1..Len(s)} /\ ToSet(Tail(s)) = {s[i + 1] : i \in 1..(Len(s) - 1)}
  BY <1>1, <1>2 DEF ToSet
<1>5. \A i \in 1..Len(s) : i = 1 \/ \E k \in 1..(Len(s) - 1) : i = k + 1
  BY <1>1
<1>6. ToSet(s) = ToSet(Tail(s)) \cup {Head(s)}
  <2>1. 1 \in 1..Len(s) /\ \A k \in 1..(Len(s) - 1) : k + 1 \in 1..Len(s)
    BY <1>1
  <2>2. ASSUME NEW x \in ToSet(s) PROVE x \in ToSet(Tail(s)) \cup {s[1]}
    <3>1. PICK i \in 1..Len(s) : x = s[i]
      BY <1>4
    <3>. QED
      BY <1>4, <1>5, <3>1
  <2>3. ToSet(Tail(s)) \cup {s[1]} \subseteq ToSet(s)
    BY <1>4, <2>1
  <2>. QED
    BY <1>3, <2>2, <2>3
<1>7. ASSUME Inj(s) PROVE Inj(Tail(s)) /\ Head(s) \notin ToSet(Tail(s))
  <2>1. Inj(Tail(s))
    BY <1>1, <1>7 DEF Inj
  <2>2. \A i \in 1..(Len(s) - 1) : s[i + 1] # s[1]
    BY <1>1, <1>7 DEF Inj
  <2>. QED
    BY <1>3, <1>4, <2>1, <2>2
<1>. QED
  BY <1>6, <1>7

LEMMA JoinedMembers ==
  ASSUME NEW S, NEW s \in Seq(S), NEW t \in Seq(S)
  PROVE  /\ s \o t \in Seq(S) /\ ToSet(s \o t) = ToSet(s) \cup ToSet(t)
         /\ Inj(s) /\ Inj(t) /\ ToSet(s) \cap ToSet(t) = {} => Inj(s \o t)
<1>1. /\ s \o t \in Seq(S) /\ Len(s \o t) = Len(s) + Len(t) /\ Len(s) \in Nat /\ Len(t) \in Nat
      /\ \A i \in 1..Len(s) + Len(t) : (s \o t)[i] = IF i <= Len(s) THEN s[i] ELSE t[i - Len(s)]
      /\ DOMAIN s = 1..Len(s) /\ DOMAIN t = 1..Len(t) /\ DOMAIN (s \o t) = 1..(Len(s) + Len(t))
  BY ConcatProperties, LenProperties
<1>2. /\ \A i \in 1..Len(s) : i \in 1..(Len(s) + Len(t)) /\ (s \o t)[i] = s[i]
      /\ \A i \in 1..Len(t) : Len(s) + i \in 1..(Len(s) + Len(t)) /\ (s \o t)[Len(s) + i] = t[i]
      /\ \A i \in 1..(Len(s) + Len(t)) :
           \/ i \in 1..Len(s) /\ (s \o t)[i] = s[i]
           \/ i - Len(s) \in 1..Len(t) /\ (s \o t)[i] = t[i - Len(s)]
  BY <1>1
<1>3. ToSet(s \o t) = ToSet(s) \cup ToSet(t)
  <2>. DEFINE u == s \o t
  <2>1. /\ ToSet(u) = {u[i] : i \in 1..(Len(s) + Len(t))}
        /\ ToSet(s) = {s[i] : i \in 1..Len(s)} /\ ToSet(t) = {t[i] : i \in 1..Len(t)}
    BY <1>1 DEF ToSet
  <2>2. /\ \A i \in 1..Len(s) : i \in 1..(Len(s) + Len(t)) /\ u[i] = s[i]
        /\ \A i \in 1..Len(t) : Len(s) + i \in 1..(Len(s) + Len(t)) /\ u[Len(s) + i] = t[i]
        /\ \A i \in 1..(Len(s) + Len(t)) :
             \/ i \in 1..Len(s) /\ u[i] = s[i]
             \/ i - Len(s) \in 1..Len(t) /\ u[i] = t[i - Len(s)]
    BY <1>2
  <2>. HIDE DEF u
  <2>3. ToSet(s) \subseteq ToSet(u)
    BY <2>1, <2>2
  <2>4. ToSet(t) \subseteq ToSet(u)
    BY <2>1, <2>2
  <2>5. ToSet(u) \subseteq ToSet(s) \cup ToSet(t)
    BY <2>1, <2>2
  <2>. QED
    BY <2>3, <2>4, <2>5 DEF u
<1>4. ASSUME Inj(s), Inj(t), ToSet(s) \cap ToSet(t) = {}
      PROVE  Inj(s \o t)
  <2>1. \A i \in 1..Len(s), j \in 1..Len(t) : s[i] # t[j]
    BY <1>1, <1>4 DEF ToSet
  <2>2. ASSUME NEW i \in 1..(Len(s) + Len(t)), NEW j \in 1..(Len(s) + Len(t)), (s \o t)[i] = (s \o t)[j]
        PROVE  i = j
    <3>1. CASE i \in 1..Len(s) /\ j \in 1..Len(s)
      BY <1>2, <1>4, <2>2, <3>1 DEF Inj
    <3>2. CASE i \notin 1..Len(s) /\ j \notin 1..Len(s)
      <4>1. i - Len(s) \in 1..Len(t) /\ j - Len(s) \in 1..Len(t) /\ t[i - Len(s)] = t[j - Len(s)]
        BY <1>2, <2>2, <3>2
      <4>2. i - Len(s) = j - Len(s)
        BY <1>4, <4>1 DEF Inj
      <4>. QED
        BY <1>1, <4>2
    <3>3. CASE i \in 1..Len(s) /\ j \notin 1..Len(s)
      BY <1>2, <2>1, <2>2, <3>3
    <3>4. CASE i \notin 1..Len(s) /\ j \in 1..Len(s)
      BY <1>2, <2>1, <2>2, <3>4
    <3>. QED
      BY <3>1, <3>2, <3>3, <3>4
  <2>. QED
    BY <1>1, <2>2 DEF Inj
<1>. QED
  BY <1>1, <1>3, <1>4

LEMMA PrefixMembers ==
  ASSUME NEW S, NEW s \in Seq(S), NEW n \in 0..Len(s)
  PROVE  /\ SubSeq(s, 1, n) \in Seq(S)
         /\ ToSet(s) = ToSet(SubSeq(s, 1, n)) \cup {s[i] : i \in n+1..Len(s)}
         /\ Inj(s) => /\ Inj(SubSeq(s, 1, n))
                      /\ ToSet(SubSeq(s, 1, n)) \cap {s[i] : i \in n+1..Len(s)} = {}
<1>1. Len(s) \in Nat /\ DOMAIN s = 1..Len(s) /\ n \in Nat /\ n <= Len(s) /\ \A i \in 1..Len(s) : s[i] \in S
  BY LenProperties, ElementOfSeq
<1>2. /\ SubSeq(s, 1, n) \in Seq(S) /\ Len(SubSeq(s, 1, n)) = n
      /\ \A i \in 1..n : SubSeq(s, 1, n)[i] = s[i]
  BY <1>1, SubSeqProperties
<1>3. ToSet(SubSeq(s, 1, n)) = {s[i] : i \in 1..n} /\ ToSet(s) = {s[i] : i \in 1..Len(s)}
  BY <1>1, <1>2, LenProperties DEF ToSet
<1>4. 1..Len(s) = (1..n) \cup (n+1..Len(s)) /\ (1..n) \cap (n+1..Len(s)) = {}
  BY <1>1
<1>5. ToSet(s) = ToSet(SubSeq(s, 1, n)) \cup {s[i] : i \in n+1..Len(s)}
  BY <1>3, <1>4
<1>6. ASSUME Inj(s)
      PROVE  Inj(SubSeq(s, 1, n)) /\ ToSet(SubSeq(s, 1, n)) \cap {s[i] : i \in n+1..Len(s)} = {}
  <2>1. Inj(SubSeq(s, 1, n))
    BY <1>1, <1>2, <1>6 DEF Inj
  <2>2. \A i \in 1..n, j \in n+1..Len(s) : s[i] # s[j]
    BY <1>1, <1>6 DEF Inj
  <2>. QED
    BY <1>3, <2>1, <2>2
<1>. QED
  BY <1>2, <1>5, <1>6

\* The record that is received leaves the channel's head for the batch's end.
LEMMA ReceiveStutters ==
  ASSUME NEW S, NEW b \in Seq(S), NEW c \in Seq(S), c # <<>>
  PROVE  Append(b, Head(c)) \o Tail(c) = b \o c
<1>1. /\ Head(c) \in S /\ Tail(c) \in Seq(S) /\ Head(c) = c[1]
      /\ Len(Tail(c)) = Len(c) - 1 /\ Len(c) \in Nat \ {0} /\ Len(b) \in Nat
      /\ \A i \in 1..(Len(c) - 1) : Tail(c)[i] = c[i + 1]
  BY HeadTailProperties, LenProperties, EmptySeq
<1>2. /\ Append(b, Head(c)) \in Seq(S) /\ Len(Append(b, Head(c))) = Len(b) + 1
      /\ \A i \in 1..Len(b) : Append(b, Head(c))[i] = b[i]
      /\ Append(b, Head(c))[Len(b) + 1] = c[1]
  BY <1>1, AppendProperties
<1>. DEFINE p == Append(b, Head(c))
            l == p \o Tail(c)
            r == b \o c
<1>3. /\ l \in Seq(S) /\ Len(l) = Len(b) + Len(c)
      /\ \A i \in 1..(Len(b) + Len(c)) : l[i] = IF i <= Len(b) + 1 THEN p[i] ELSE Tail(c)[i - (Len(b) + 1)]
  <2>. DEFINE q == Tail(c)
  <2>1. Len(p) + Len(q) = Len(b) + Len(c) /\ p \in Seq(S) /\ q \in Seq(S) /\ Len(p) = Len(b) + 1
    BY <1>1, <1>2
  <2>. HIDE DEF p, q
  <2>2. /\ p \o q \in Seq(S) /\ Len(p \o q) = Len(p) + Len(q)
        /\ \A i \in 1..Len(p) + Len(q) : (p \o q)[i] = IF i <= Len(p) THEN p[i] ELSE q[i - Len(p)]
    BY <2>1, ConcatProperties
  <2>. QED
    BY <2>1, <2>2 DEF q
<1>4. /\ r \in Seq(S) /\ Len(r) = Len(b) + Len(c)
      /\ \A i \in 1..(Len(b) + Len(c)) : r[i] = IF i <= Len(b) THEN b[i] ELSE c[i - Len(b)]
  BY ConcatProperties
<1>5. ASSUME NEW i \in 1..Len(l) PROVE l[i] = r[i]
  <2>. HIDE DEF l, r, p
  <2>1. CASE i <= Len(b)
    BY <1>1, <1>2, <1>3, <1>4, <2>1 DEF p
  <2>2. CASE i = Len(b) + 1
    BY <1>1, <1>2, <1>3, <1>4, <2>2 DEF p
  <2>3. CASE i > Len(b) + 1
    <3>1. l[i] = Tail(c)[i - (Len(b) + 1)] /\ i - (Len(b) + 1) \in 1..(Len(c) - 1)
      BY <1>1, <1>3, <2>3
    <3>2. r[i] = c[i - Len(b)]
      BY <1>1, <1>3, <1>4, <2>3
    <3>3. (i - (Len(b) + 1)) + 1 = i - Len(b)
      BY <1>1, <1>3
    <3>. QED
      BY <1>1, <3>1, <3>2, <3>3
  <2>. QED
    BY <1>1, <1>3, <2>1, <2>2, <2>3
<1>. HIDE DEF l, r
<1>6. l = r
  BY <1>3, <1>4, <1>5, SeqEqual
<1>. QED
  BY <1>6 DEF l, r

\* What leaves the queue of a batch and a channel when the batch is written.
LEMMA BatchLeaves ==
  ASSUME NEW S, NEW b \in Seq(S), NEW c \in Seq(S), b # <<>>
  PROVE  /\ SubSeq(b \o c, Len(b) + 1, Len(b \o c)) = c
         /\ \A n \in 0..Len(b) : SubSeq(b \o c, 1, n) = SubSeq(b, 1, n)
         /\ \A i \in 1..Len(b) : (b \o c)[i] = b[i]
<1>1. Len(b) \in Nat \ {0} /\ Len(c) \in Nat /\ Len(b \o c) = Len(b) + Len(c) /\ b \o c \in Seq(S)
      /\ \A i \in 1..Len(b) : (b \o c)[i] = b[i]
  BY ConcatProperties, LenProperties, EmptySeq
<1>2. SubSeq(b \o c, Len(b) + 1, Len(b) + Len(c)) = c
  <2>1. CASE Len(c) = 0
    <3>1. c = <<>>
      BY <2>1, EmptySeq
    <3>. QED
      BY <1>1, <2>1, <3>1, SubSeqEmpty
  <2>2. CASE Len(c) # 0
    <3>1. Len(b) + 1 \in Len(b)+1..Len(b)+Len(c) /\ Len(b) + Len(c) \in Len(b)+1..Len(b)+Len(c)
      BY <1>1, <2>2
    <3>2. SubSeq(b \o c, Len(b) + 1, Len(b) + Len(c)) = SubSeq(c, (Len(b) + 1) - Len(b), (Len(b) + Len(c)) - Len(b))
      BY <3>1, SubSeqOfConcat2
    <3>3. (Len(b) + 1) - Len(b) = 1 /\ (Len(b) + Len(c)) - Len(b) = Len(c)
      BY <1>1
    <3>. QED
      BY <3>2, <3>3, SubSeqFull
  <2>. QED
    BY <2>1, <2>2
<1>3. ASSUME NEW n \in 0..Len(b) PROVE SubSeq(b \o c, 1, n) = SubSeq(b, 1, n)
  <2>1. CASE n = 0
    BY <2>1, SubSeqEmpty
  <2>2. CASE n # 0
    <3>1. 1 \in 1..Len(b) /\ n \in 1..Len(b)
      BY <1>1, <2>2
    <3>. QED
      BY <3>1, SubSeqOfConcat1
  <2>. QED
    BY <2>1, <2>2
<1>. QED
  BY <1>1, <1>2, <1>3

\* What a full channel gives up: the queue loses the record behind the batch.
LEMMA HeadLeaves ==
  ASSUME NEW S, NEW b \in Seq(S), NEW c \in Seq(S), c # <<>>
  PROVE  /\ Len(b) + 1 \in 1..Len(b \o c)
         /\ (b \o c)[Len(b) + 1] = Head(c)
         /\ RemoveAt(b \o c, Len(b) + 1) = b \o Tail(c)
<1>1. /\ Len(b) \in Nat /\ Len(c) \in Nat \ {0} /\ Len(b \o c) = Len(b) + Len(c) /\ b \o c \in Seq(S)
      /\ \A i \in 1..Len(b) + Len(c) : (b \o c)[i] = IF i <= Len(b) THEN b[i] ELSE c[i - Len(b)]
  BY ConcatProperties, LenProperties, EmptySeq
<1>2. /\ Head(c) = c[1] /\ Tail(c) \in Seq(S) /\ Len(Tail(c)) = Len(c) - 1
      /\ \A i \in 1..Len(Tail(c)) : Tail(c)[i] = c[i + 1]
  BY <1>1, HeadTailProperties
<1>3. (b \o c)[Len(b) + 1] = Head(c)
  BY <1>1, <1>2
<1>. DEFINE u == b \o c
<1>4. SubSeq(u, 1, Len(b)) = b
  <2>1. /\ SubSeq(u, 1, Len(b)) \in Seq(S) /\ Len(SubSeq(u, 1, Len(b))) = Len(b)
        /\ \A i \in 1..Len(b) : SubSeq(u, 1, Len(b))[i] = u[i]
    <3>1. \A i \in 1..Len(b) : u[i] \in S
      BY <1>1, ElementOfSeq
    <3>. HIDE DEF u
    <3>. QED
      BY <1>1, <3>1, SubSeqProperties
  <2>2. \A i \in 1..Len(b) : u[i] = b[i]
    BY <1>1
  <2>. HIDE DEF u
  <2>. QED
    BY <2>1, <2>2, SeqEqual
<1>5. SubSeq(u, Len(b) + 2, Len(u)) = Tail(c)
  <2>. DEFINE m == Len(b) + 2
             n == Len(b) + Len(c)
             v == SubSeq(u, m, n)
  <2>1. m \in Int /\ n \in Int /\ \A i \in m..n : u[i] \in S
    BY <1>1, ElementOfSeq
  <2>2. /\ v \in Seq(S) /\ Len(v) = IF m <= n THEN n - m + 1 ELSE 0
        /\ \A i \in 1..(n - m + 1) : v[i] = u[m + i - 1]
    <3>. HIDE DEF u, m, n
    <3>. QED
      BY <2>1, SubSeqProperties
  <2>3. Len(v) = Len(Tail(c))
    BY <1>1, <1>2, <2>2
  <2>4. ASSUME NEW i \in 1..Len(v) PROVE v[i] = Tail(c)[i]
    <3>1. i \in 1..(n - m + 1) /\ i \in 1..Len(Tail(c)) /\ i \in Nat
      BY <1>1, <1>2, <2>3
    <3>2. v[i] = u[m + i - 1] /\ Tail(c)[i] = c[i + 1]
      BY <1>2, <2>2, <3>1
    <3>3. m + i - 1 \in 1..Len(b) + Len(c) /\ ~(m + i - 1 <= Len(b)) /\ (m + i - 1) - Len(b) = i + 1
      BY <1>1, <1>2, <3>1
    <3>4. u[m + i - 1] = c[i + 1]
      BY <1>1, <3>3
    <3>. QED
      BY <3>2, <3>4
  <2>. HIDE DEF v
  <2>5. v = Tail(c)
    BY <1>2, <2>2, <2>3, <2>4, SeqEqual
  <2>. QED
    BY <1>1, <2>5 DEF v
<1>6. (Len(b) + 1) - 1 = Len(b) /\ (Len(b) + 1) + 1 = Len(b) + 2
  BY <1>1
<1>7. RemoveAt(u, Len(b) + 1) = b \o Tail(c)
  <2>. HIDE DEF u
  <2>. QED
    BY <1>4, <1>5, <1>6 DEF RemoveAt
<1>. QED
  BY <1>1, <1>3, <1>7

LEMMA AppendJoins ==
  ASSUME NEW S, NEW b \in Seq(S), NEW c \in Seq(S), NEW x \in S
  PROVE  b \o Append(c, x) = Append(b \o c, x)
BY AppendIsConcat, ConcatAssociative

(***************************************************************************)
(* No record is in two places, so that each is written or lost once.       *)
(***************************************************************************)
Once ==
  /\ pc \in [Records -> {"start", "full", "retry", "done"}]
  /\ ch \in Seq(Records) /\ batch \in Seq(Records) /\ file \in Seq(Records)
  /\ Inj(ch) /\ Inj(batch) /\ Inj(file)
  /\ ToSet(ch) \cap ToSet(batch) = {} /\ ToSet(ch) \cap ToSet(file) = {}
  /\ wpc # "ring" => ToSet(batch) \cap ToSet(file) = {}
  /\ ToSet(ch) \cup ToSet(batch) \cup ToSet(file) \subseteq Finished
  /\ ret # "ring"

LEMMA OnceInit == Init => Once
<1>1. ToSet(<<>>) = {} /\ Inj(<<>>)
  BY DEF ToSet, Inj
<1>. QED
  BY <1>1 DEF Init, Once, Finished

\* A Submit takes the oldest record out of the channel, puts its own in, or
\* leaves the channel alone.
LEMMA SubmitCases ==
  ASSUME Once, NEW r \in Records, Submit(r)
  PROVE  /\ UNCHANGED <<batch, file, wpc, ret>>
         /\ pc' \in [Records -> {"start", "full", "retry", "done"}]
         /\ \/ ch' = ch /\ Finished' = Finished
            \/ ch # <<>> /\ ch' = Tail(ch) /\ Finished' = Finished
            \/ /\ r \notin Finished /\ Finished' = Finished \cup {r}
               /\ ch' = Append(ch, r) \/ ch' = ch
<1>1. UNCHANGED <<batch, file, wpc, ret>>
  BY DEF Submit, TrySend, DropOldest, Resend, writerVars, storeVars
<1>2. pc \in [Records -> {"start", "full", "retry", "done"}]
  BY DEF Once
<1>3. pc' \in [Records -> {"start", "full", "retry", "done"}] /\ pc[r] # "done"
      /\ \A q \in Records \ {r} : pc'[q] = pc[q]
  BY <1>2 DEF Submit, TrySend, DropOldest, Resend
<1>4. ASSUME pc'[r] # "done" PROVE Finished' = Finished
  BY <1>3, <1>4 DEF Finished
<1>5. ASSUME pc'[r] = "done" PROVE r \notin Finished /\ Finished' = Finished \cup {r}
  BY <1>3, <1>5 DEF Finished
<1>6. CASE TrySend(r)
  <2>1. \/ ch' = Append(ch, r) /\ pc'[r] = "done"
        \/ ch' = ch /\ pc'[r] = "full"
    BY <1>2, <1>6 DEF TrySend
  <2>. QED
    BY <1>1, <1>3, <1>4, <1>5, <2>1
<1>7. CASE DropOldest(r)
  <2>1. pc'[r] = "retry" /\ (ch' = ch \/ (ch # <<>> /\ ch' = Tail(ch)))
    BY <1>2, <1>7 DEF DropOldest
  <2>. QED
    BY <1>1, <1>3, <1>4, <2>1
<1>8. CASE Resend(r)
  <2>1. pc'[r] = "done" /\ (ch' = ch \/ ch' = Append(ch, r))
    BY <1>2, <1>8 DEF Resend
  <2>. QED
    BY <1>1, <1>3, <1>5, <2>1
<1>. QED
  BY <1>6, <1>7, <1>8 DEF Submit

LEMMA SubmitOnce ==
  ASSUME Once, NEW r \in Records, Submit(r)
  PROVE  Once'
<1>1. /\ UNCHANGED <<batch, file, wpc, ret>>
      /\ pc' \in [Records -> {"start", "full", "retry", "done"}]
      /\ Finished \subseteq Finished'
  BY SubmitCases
<1>2. /\ ch' \in Seq(Records) /\ Inj(ch') /\ ToSet(ch') \cap ToSet(batch) = {}
      /\ ToSet(ch') \cap ToSet(file) = {} /\ ToSet(ch') \subseteq Finished'
  <2>1. CASE ch' = ch
    <3>. QED
      BY <1>1, <2>1, Zenon DEF Once
  <2>2. CASE ch # <<>> /\ ch' = Tail(ch)
    <3>1. Tail(ch) \in Seq(Records) /\ Inj(Tail(ch)) /\ ToSet(Tail(ch)) \subseteq ToSet(ch)
      BY <2>2, ToSetTail, TailOnce DEF Once
    <3>. QED
      BY <1>1, <2>2, <3>1 DEF Once
  <2>3. CASE r \notin Finished /\ Finished' = Finished \cup {r} /\ ch' = Append(ch, r)
    <3>1. r \notin ToSet(ch) \cup ToSet(batch) \cup ToSet(file)
      BY <2>3 DEF Once
    <3>2. Append(ch, r) \in Seq(Records) /\ ToSet(Append(ch, r)) = ToSet(ch) \cup {r} /\ Inj(Append(ch, r))
      BY <3>1, ToSetAppend, AppendNew DEF Once
    <3>. QED
      BY <2>3, <3>1, <3>2 DEF Once
  <2>. QED
    BY <2>1, <2>2, <2>3, SubmitCases
<1>. QED
  BY <1>1, <1>2 DEF Once

\* A flush leaves nothing of the batch where it was; what it writes was in no
\* other place.
LEMMA FlushOnce ==
  ASSUME Once, Flush
  PROVE  Once'
<1>1. UNCHANGED <<ch, pc, ret>> /\ Finished' = Finished
  BY DEF Flush, FlushEmpty, WriteFile, UpdateRing, WriteFails, submitVars, Finished
<1>2. ASSUME NEW n \in 0..Len(batch), wpc = "write", file' = file \o SubSeq(batch, 1, n)
      PROVE  /\ file' \in Seq(Records) /\ Inj(file') /\ ToSet(ch) \cap ToSet(file') = {}
             /\ ToSet(file') \subseteq Finished
  <2>. DEFINE p == SubSeq(batch, 1, n)
  <2>1. p \in Seq(Records) /\ ToSet(p) \subseteq ToSet(batch) /\ Inj(p)
    BY PrefixMembers DEF Once
  <2>2. ToSet(file) \cap ToSet(p) = {}
    BY <1>2, <2>1 DEF Once
  <2>3. p \in Seq(Records) /\ file \in Seq(Records) /\ Inj(file)
    BY <2>1 DEF Once
  <2>. HIDE DEF p
  <2>4. file \o p \in Seq(Records) /\ ToSet(file \o p) = ToSet(file) \cup ToSet(p) /\ Inj(file \o p)
    BY <2>1, <2>2, <2>3, JoinedMembers
  <2>5. file' = file \o p
    BY <1>2 DEF p
  <2>. QED
    BY <2>1, <2>4, <2>5 DEF Once
<1>3. <<>> \in Seq(Records) /\ ToSet(<<>>) = {} /\ Inj(<<>>)
  BY EmptySeq DEF ToSet, Inj
<1>4. CASE FlushEmpty \/ UpdateRing
  <2>1. file' = file /\ wpc' = ret
    BY <1>4 DEF FlushEmpty, UpdateRing, storeVars
  <2>2. batch' = <<>>
    BY <1>4, Zenon DEF FlushEmpty, UpdateRing
  <2>. QED
    BY <1>1, <1>3, <2>1, <2>2 DEF Once
<1>5. CASE WriteFile
  <2>1. /\ wpc = "write" /\ wpc' = "ring" /\ batch' = batch /\ file' = file \o batch
    BY <1>5 DEF WriteFile
  <2>2. Len(batch) \in 0..Len(batch) /\ SubSeq(batch, 1, Len(batch)) = batch
    BY LenProperties, SubSeqFull DEF Once
  <2>3. file' = file \o SubSeq(batch, 1, Len(batch))
    BY <2>1, <2>2
  <2>. QED
    BY <1>1, <1>2, <2>1, <2>2, <2>3 DEF Once
<1>6. ASSUME NEW n \in 0..BatchSize-1, n < Len(batch), WriteFails(n) PROVE Once'
  <2>1. wpc = "write" /\ wpc' = ret /\ batch' = <<>> /\ file' = file \o SubSeq(batch, 1, n)
    BY <1>6 DEF WriteFails
  <2>2. n \in 0..Len(batch)
    <3>. QED
      BY <1>6, LenProperties, SizesPositive DEF Once
  <2>. QED
    BY <1>1, <1>2, <1>3, <2>1, <2>2 DEF Once
<1>. QED
  BY <1>4, <1>5, <1>6 DEF Flush

LEMMA WriterOnce ==
  ASSUME Once, Writer
  PROVE  Once'
<1>1. ASSUME NEW l \in {"select", "drain"}, Receive(l) PROVE Once'
  <2>1. /\ wpc = l /\ ch # <<>> /\ batch' = Append(batch, Head(ch)) /\ ch' = Tail(ch)
        /\ ret' = l /\ wpc' \in {"write", l} /\ UNCHANGED <<pc, file>>
    BY <1>1 DEF Receive, storeVars
  <2>2. Finished' = Finished
    BY <2>1 DEF Finished
  <2>. DEFINE x == Head(ch)
             t == Tail(ch)
  <2>3. /\ x \in Records /\ t \in Seq(Records) /\ ToSet(ch) = ToSet(t) \cup {x}
        /\ Inj(t) /\ x \notin ToSet(t)
    BY <2>1, ToSetTail, TailOnce DEF Once
  <2>. HIDE DEF x, t
  <2>4. x \notin ToSet(batch) /\ x \notin ToSet(file)
    BY <2>3 DEF Once
  <2>5. Append(batch, x) \in Seq(Records) /\ ToSet(Append(batch, x)) = ToSet(batch) \cup {x}
        /\ Inj(Append(batch, x))
    BY <2>3, <2>4, ToSetAppend, AppendNew DEF Once
  <2>6. batch' = Append(batch, x) /\ ch' = t
    BY <2>1 DEF x, t
  <2>. QED
    BY <2>1, <2>2, <2>3, <2>4, <2>5, <2>6 DEF Once
<1>2. CASE Tick \/ SeeStop \/ LastFlush
  <2>1. UNCHANGED <<pc, ch, batch, file>> /\ wpc # "ring" /\ wpc' # "ring" /\ ret' # "ring"
    BY <1>2 DEF Tick, SeeStop, LastFlush, submitVars, storeVars
  <2>2. Finished' = Finished
    BY <2>1 DEF Finished
  <2>. QED
    BY <2>1, <2>2 DEF Once
<1>. QED
  BY <1>1, <1>2, FlushOnce DEF Writer

LEMMA OnceNext == Once /\ [Next]_vars => Once'
<1>1. ASSUME Once, Close \/ TimerFires \/ UNCHANGED vars PROVE Once'
  <2>1. UNCHANGED <<pc, ch, batch, file, wpc, ret>>
    BY <1>1 DEF Close, CloseStop, CloseFile, TimerFires, vars, submitVars, writerVars, storeVars
  <2>2. Finished' = Finished
    BY <2>1 DEF Finished
  <2>. QED
    BY <1>1, <2>1, <2>2 DEF Once
<1>. QED
  BY <1>1, SubmitOnce, WriterOnce DEF Next

(***************************************************************************)
(* The simulation.  The queue of the abstract log is the batch, as long as *)
(* it is not in the file, and the channel.                                 *)
(***************************************************************************)
InHand == IF wpc = "ring" THEN <<>> ELSE batch
Lost == Finished \ (ToSet(Unwritten) \cup ToSet(file))

LEMMA Queue ==
  ASSUME Once
  PROVE  /\ InHand \in Seq(Records) /\ Unwritten = InHand \o ch /\ Unwritten \in Seq(Records)
         /\ ToSet(Unwritten) = ToSet(InHand) \cup ToSet(ch)
         /\ ToSet(InHand) \cap ToSet(ch) = {} /\ ToSet(InHand) \cap ToSet(file) = {}
         /\ ToSet(InHand) \subseteq Finished
<1>1. ch \in Seq(Records) /\ batch \in Seq(Records)
  BY DEF Once
<1>2. InHand \in Seq(Records) /\ Unwritten = InHand \o ch
  <2>1. CASE wpc = "ring"
    BY <1>1, <2>1, EmptySeq, ConcatEmptySeq DEF InHand, Unwritten
  <2>2. CASE wpc # "ring"
    BY <1>1, <2>2 DEF InHand, Unwritten
  <2>. QED
    BY <2>1, <2>2
<1>3. Unwritten \in Seq(Records) /\ ToSet(Unwritten) = ToSet(InHand) \cup ToSet(ch)
  BY <1>1, <1>2, JoinedMembers
<1>4. /\ ToSet(InHand) \cap ToSet(ch) = {} /\ ToSet(InHand) \cap ToSet(file) = {}
      /\ ToSet(InHand) \subseteq Finished
  <2>1. CASE wpc = "ring"
    BY <2>1 DEF InHand, ToSet
  <2>2. CASE wpc # "ring"
    BY <2>2 DEF InHand, Once
  <2>. QED
    BY <2>1, <2>2
<1>. QED
  BY <1>2, <1>3, <1>4

LEMMA SubmitImplements ==
  ASSUME Once, NEW r \in Records, Submit(r)
  PROVE  Promise!Next \/ UNCHANGED Promise!vars
<1>1. /\ UNCHANGED <<batch, file, wpc>> /\ InHand' = InHand
  BY SubmitCases DEF InHand
<1>2. Once'
  BY SubmitOnce
<1>3. Unwritten' = InHand \o ch'
  <2>1. Unwritten' = InHand' \o ch'
    <3>1. /\ ch' \in Seq(Records)
      BY <1>2 DEF Once
    <3>2. CASE wpc = "ring"
      BY <1>1, <3>1, <3>2, ConcatEmptySeq DEF InHand, Unwritten
    <3>3. CASE wpc # "ring"
      BY <1>1, <3>3 DEF InHand, Unwritten
    <3>. QED
      BY <3>2, <3>3
  <2>. QED
    BY <1>1, <2>1
<1>4. CASE ch' = ch /\ Finished' = Finished
  <2>1. Unwritten' = Unwritten /\ file' = file
    BY <1>1, <1>3, <1>4, Queue
  <2>. QED
    BY <1>4, <2>1 DEF Promise!vars
<1>5. CASE ch # <<>> /\ ch' = Tail(ch) /\ Finished' = Finished
  <2>. DEFINE i == Len(InHand) + 1
  <2>1. /\ i \in 1..Len(Unwritten) /\ Unwritten[i] = Head(ch)
        /\ Unwritten' = RemoveAt(Unwritten, i)
    <3>1. InHand \in Seq(Records) /\ ch \in Seq(Records) /\ ch # <<>> /\ Unwritten = InHand \o ch
      BY <1>5, Queue DEF Once
    <3>2. /\ i \in 1..Len(InHand \o ch) /\ (InHand \o ch)[i] = Head(ch)
          /\ RemoveAt(InHand \o ch, i) = InHand \o Tail(ch)
      BY <3>1, HeadLeaves
    <3>. HIDE DEF i
    <3>3. Unwritten' = InHand \o Tail(ch)
      BY <1>3, <1>5, Zenon
    <3>. QED
      BY <3>1, <3>2, <3>3, Zenon
  <2>2. ToSet(ch) = ToSet(Tail(ch)) \cup {Head(ch)} /\ Head(ch) \notin ToSet(Tail(ch))
        /\ Tail(ch) \in Seq(Records)
    BY <1>5, ToSetTail, TailOnce DEF Once
  <2>3. ToSet(Unwritten') = ToSet(InHand) \cup ToSet(Tail(ch))
    <3>. DEFINE t == Tail(ch)
    <3>1. t \in Seq(Records) /\ InHand \in Seq(Records) /\ Unwritten' = InHand \o t
      BY <1>3, <1>5, <2>2, Queue
    <3>. HIDE DEF t
    <3>2. ToSet(InHand \o t) = ToSet(InHand) \cup ToSet(t)
      BY <3>1, JoinedMembers
    <3>3. ToSet(Unwritten') = ToSet(InHand) \cup ToSet(t)
      BY <3>1, <3>2, Zenon
    <3>. QED
      BY <3>3 DEF t
  <2>4. Head(ch) \in Finished /\ Head(ch) \notin ToSet(InHand) /\ Head(ch) \notin ToSet(file)
    BY <2>2, Queue DEF Once
  <2>5. Lost' = Lost \cup {Head(ch)}
    BY <1>1, <1>5, <2>2, <2>3, <2>4, Queue DEF Lost, ToSet
  <2>. QED
    BY <1>1, <2>1, <2>5 DEF Lost, Promise!Next, Promise!Displace, Promise!RemoveAt, RemoveAt
<1>6. CASE r \notin Finished /\ Finished' = Finished \cup {r} /\ (ch' = Append(ch, r) \/ ch' = ch)
  <2>1. r \notin ToSet(Unwritten) \cup ToSet(file) \cup Lost
    BY <1>6, Queue DEF Lost, Once
  <2>2. Promise!New(r)
    BY <2>1, Queue DEF Promise!New, Promise!Range, Lost, ToSet
  <2>3. CASE ch' = Append(ch, r)
    <3>1. Unwritten' = Append(Unwritten, r)
      <4>1. InHand \in Seq(Records) /\ ch \in Seq(Records) /\ Unwritten = InHand \o ch
        BY Queue DEF Once
      <4>2. InHand \o Append(ch, r) = Append(InHand \o ch, r)
        BY <4>1, AppendJoins
      <4>3. Unwritten' = InHand \o Append(ch, r)
        BY <1>3, <2>3, Zenon
      <4>. QED
        BY <4>1, <4>2, <4>3, Zenon
    <3>2. ToSet(Unwritten') = ToSet(Unwritten) \cup {r}
      BY <3>1, Queue, ToSetAppend
    <3>3. Lost' = Lost
      BY <1>1, <1>6, <3>2 DEF Lost, ToSet
    <3>. QED
      BY <1>1, <2>2, <3>1, <3>3 DEF Lost, Promise!Next, Promise!Accept
  <2>4. CASE ch' = ch
    <3>1. Unwritten' = Unwritten
      BY <1>3, <2>4, Queue
    <3>2. Lost' = Lost \cup {r}
      BY <1>1, <1>6, <2>1, <3>1 DEF Lost, ToSet
    <3>. QED
      BY <1>1, <2>2, <3>1, <3>2 DEF Lost, Promise!Next, Promise!Reject
  <2>. QED
    BY <1>6, <2>3, <2>4
<1>. QED
  BY <1>4, <1>5, <1>6, SubmitCases

\* The first n records of the batch reach the file, the rest of it does not.
LEMMA BatchImplements ==
  ASSUME Once, NEW n \in 0..Len(batch), batch # <<>>, wpc = "write",
         file' = file \o SubSeq(batch, 1, n), Unwritten' = ch, Finished' = Finished
  PROVE  Promise!Next
<1>1. batch \in Seq(Records) /\ ch \in Seq(Records) /\ file \in Seq(Records) /\ Inj(batch)
  BY DEF Once
<1>2. Unwritten = batch \o ch /\ InHand = batch
  BY DEF Unwritten, InHand
<1>. DEFINE k == Len(batch)
           p == SubSeq(batch, 1, n)
           rest == {batch[i] : i \in n+1..k}
<1>3. /\ SubSeq(Unwritten, k + 1, Len(Unwritten)) = ch
      /\ SubSeq(Unwritten, 1, n) = p
      /\ \A i \in 1..k : Unwritten[i] = batch[i]
  BY <1>1, <1>2, BatchLeaves
<1>4. k \in Nat \ {0} /\ n \in Nat /\ n <= k /\ k \in 1..Len(Unwritten)
  <2>1. Len(Unwritten) = k + Len(ch) /\ k \in Nat \ {0} /\ Len(ch) \in Nat
    BY <1>1, <1>2, LenProperties, EmptySeq, ConcatProperties
  <2>. QED
    BY <2>1
<1>5. {Unwritten[i] : i \in n+1..k} = rest
  <2>1. \A i \in n+1..k : i \in 1..k /\ Unwritten[i] = batch[i]
    BY <1>3, <1>4
  <2>. QED
    BY <2>1
<1>6. p \in Seq(Records) /\ ToSet(batch) = ToSet(p) \cup rest /\ ToSet(p) \cap rest = {}
  BY <1>1, PrefixMembers
<1>7. ToSet(file') = ToSet(file) \cup ToSet(p)
  <2>. HIDE DEF p
  <2>1. ToSet(file \o p) = ToSet(file) \cup ToSet(p)
    BY <1>1, <1>6, JoinedMembers
  <2>2. file' = file \o p
    BY DEF p
  <2>. QED
    BY <2>1, <2>2, Zenon
<1>8. ToSet(Unwritten) = ToSet(batch) \cup ToSet(ch)
  BY <1>2, Queue
<1>9. Lost' = Lost \cup rest
  <2>. HIDE DEF rest, p
  <2>1. Lost' = Finished \ (ToSet(ch) \cup ToSet(file'))
    BY Zenon DEF Lost, ToSet
  <2>. QED
    BY <1>2, <1>6, <1>7, <1>8, <2>1, Queue DEF Lost, Once
<1>10. Promise!Write(k, n)
  <2>1. file' = file \o SubSeq(Unwritten, 1, n)
    BY <1>3
  <2>2. Lost' = Lost \cup {Unwritten[i] : i \in n+1..k}
    BY <1>5, <1>9
  <2>3. Unwritten' = SubSeq(Unwritten, k + 1, Len(Unwritten))
    BY <1>3
  <2>. QED
    BY <2>1, <2>2, <2>3 DEF Lost, Promise!Write
<1>11. n \in 0..k
  BY <1>4
<1>. QED
  BY <1>4, <1>10, <1>11 DEF Promise!Next

LEMMA WriterImplements ==
  ASSUME Once, Writer
  PROVE  Promise!Next \/ UNCHANGED Promise!vars
<1>1. pc' = pc /\ Finished' = Finished
  BY DEF Writer, Receive, Tick, SeeStop, LastFlush, Flush, FlushEmpty, WriteFile,
         UpdateRing, WriteFails, submitVars, Finished
<1>2. ASSUME UNCHANGED <<Unwritten, file>> PROVE UNCHANGED Promise!vars
  BY <1>1, <1>2 DEF Promise!vars
<1>3. ASSUME NEW l \in {"select", "drain"}, Receive(l) PROVE UNCHANGED <<Unwritten, file>>
  <2>1. /\ wpc = l /\ ch # <<>> /\ batch' = Append(batch, Head(ch)) /\ ch' = Tail(ch)
        /\ wpc' \in {"write", l} /\ file' = file
    BY <1>3 DEF Receive, storeVars
  <2>2. Unwritten = batch \o ch /\ Unwritten' = Append(batch, Head(ch)) \o Tail(ch)
    <3>1. wpc # "ring" /\ wpc' # "ring"
      BY <2>1
    <3>. QED
      BY <2>1, <3>1 DEF Unwritten
  <2>3. Append(batch, Head(ch)) \o Tail(ch) = batch \o ch
    BY <2>1, ReceiveStutters DEF Once
  <2>. QED
    BY <2>1, <2>2, <2>3, Zenon
<1>4. CASE Tick \/ SeeStop \/ LastFlush
  <2>1. UNCHANGED <<ch, batch, file>> /\ wpc # "ring" /\ wpc' # "ring"
    BY <1>4 DEF Tick, SeeStop, LastFlush, submitVars, storeVars
  <2>. QED
    BY <1>2, <2>1 DEF Unwritten
<1>5. CASE FlushEmpty
  <2>1. UNCHANGED <<ch, batch, file>> /\ wpc # "ring" /\ wpc' = ret
    BY <1>5 DEF FlushEmpty, submitVars, storeVars
  <2>. QED
    BY <1>2, <2>1 DEF Unwritten, Once
<1>6. CASE UpdateRing
  <2>1. UNCHANGED <<ch, file>> /\ wpc = "ring" /\ wpc' = ret /\ batch' = <<>>
    BY <1>6 DEF UpdateRing, submitVars
  <2>2. Unwritten = ch /\ Unwritten' = <<>> \o ch
    BY <2>1 DEF Unwritten, Once
  <2>3. <<>> \o ch = ch
    BY ConcatEmptySeq DEF Once
  <2>. QED
    BY <1>2, <2>1, <2>2, <2>3
<1>7. CASE WriteFile
  <2>1. /\ wpc = "write" /\ batch # <<>> /\ file' = file \o batch /\ wpc' = "ring" /\ ch' = ch
    BY <1>7 DEF WriteFile, submitVars
  <2>2. Len(batch) \in 0..Len(batch) /\ SubSeq(batch, 1, Len(batch)) = batch
    BY LenProperties, SubSeqFull DEF Once
  <2>3. Unwritten' = ch
    BY <2>1 DEF Unwritten
  <2>4. file' = file \o SubSeq(batch, 1, Len(batch))
    BY <2>1, <2>2
  <2>. QED
    BY <1>1, <2>1, <2>2, <2>3, <2>4, BatchImplements
<1>8. ASSUME NEW n \in 0..BatchSize-1, n < Len(batch), WriteFails(n) PROVE Promise!Next
  <2>1. /\ wpc = "write" /\ batch # <<>> /\ file' = file \o SubSeq(batch, 1, n)
        /\ wpc' = ret /\ ch' = ch /\ batch' = <<>>
    BY <1>8 DEF WriteFails, submitVars
  <2>2. n \in 0..Len(batch)
    BY <1>8, LenProperties, SizesPositive DEF Once
  <2>3. Unwritten' = <<>> \o ch
    BY <2>1 DEF Unwritten, Once
  <2>4. Unwritten' = ch
    BY <2>3, ConcatEmptySeq DEF Once
  <2>. QED
    BY <1>1, <2>1, <2>2, <2>4, BatchImplements
<1>. QED
  BY <1>2, <1>3, <1>4, <1>5, <1>6, <1>7, <1>8 DEF Writer, Flush

LEMMA CloseImplements ==
  ASSUME Close \/ TimerFires \/ UNCHANGED vars
  PROVE  UNCHANGED Promise!vars
<1>1. UNCHANGED <<pc, ch, batch, wpc, file>>
  BY DEF Close, CloseStop, CloseFile, TimerFires, vars, submitVars, writerVars, storeVars
<1>2. Finished' = Finished /\ Unwritten' = Unwritten
  BY <1>1 DEF Finished, Unwritten
<1>. QED
  BY <1>1, <1>2 DEF Promise!vars

LEMMA InitImplements == Init => Promise!Init
<1>1. ASSUME Init PROVE Unwritten = <<>> /\ file = <<>> /\ Finished = {}
  <2>1. Unwritten = <<>> \o <<>> /\ file = <<>> /\ Finished = {}
    BY <1>1 DEF Init, Unwritten, Finished
  <2>2. <<>> \o <<>> = <<>>
    BY EmptySeq, ConcatEmptySeq
  <2>. QED
    BY <2>1, <2>2
<1>. QED
  BY <1>1 DEF Promise!Init

\* The channel, the drop of the oldest, the batches, the failed writes and the
\* close together are one queue in front of an append-only log: every record is
\* written once, in its turn, or lost for good (Recorder.Submit, Recorder.run,
\* Store.AppendBatch).
THEOREM RecorderImplements == Spec => Implements
<1>1. Once /\ [Next]_vars => [Promise!Next]_Promise!vars
  BY SubmitImplements, WriterImplements, CloseImplements DEF Next
<1>. QED
  BY <1>1, OnceInit, OnceNext, InitImplements, PTL DEF Spec, Implements, Promise!Spec

(***************************************************************************)
(* The accounts and the ring.  First the operators: a sequence's end, the  *)
(* size of a batch's rest, and a sequence whose items another holds in the *)
(* same order.                                                             *)
(***************************************************************************)
LEMMA SuffixAt ==
  ASSUME NEW S, NEW s \in Seq(S), NEW n \in Nat
  PROVE  /\ Suffix(s, n) \in Seq(S)
         /\ Len(Suffix(s, n)) = IF Len(s) <= n THEN Len(s) ELSE n
         /\ Len(s) - Len(Suffix(s, n)) \in Nat
         /\ \A i \in 1..Len(Suffix(s, n)) :
              /\ i + (Len(s) - Len(Suffix(s, n))) \in 1..Len(s)
              /\ Suffix(s, n)[i] = s[i + (Len(s) - Len(Suffix(s, n)))]
<1>1. Len(s) \in Nat /\ \A i \in 1..Len(s) : s[i] \in S
  BY LenProperties, ElementOfSeq
<1>2. CASE Len(s) <= n
  BY <1>1, <1>2 DEF Suffix
<1>3. CASE ~(Len(s) <= n)
  <2>. DEFINE m == Len(s) - n + 1
  <2>1. m \in 1..(Len(s) + 1) /\ Len(s) - m + 1 = n /\ \A i \in m..Len(s) : i \in 1..Len(s)
    BY <1>1, <1>3
  <2>. HIDE DEF m
  <2>2. m \in Int /\ Len(s) \in Int /\ \A i \in m..Len(s) : s[i] \in S
    BY <1>1, <2>1
  <2>3. /\ SubSeq(s, m, Len(s)) \in Seq(S)
        /\ Len(SubSeq(s, m, Len(s))) = IF m <= Len(s) THEN Len(s) - m + 1 ELSE 0
        /\ \A i \in 1..(Len(s) - m + 1) : SubSeq(s, m, Len(s))[i] = s[m + i - 1]
    BY <2>2, SubSeqProperties
  <2>4. Suffix(s, n) = SubSeq(s, m, Len(s))
    BY <1>3 DEF Suffix, m
  <2>5. Len(Suffix(s, n)) = n
    BY <1>1, <2>1, <2>3, <2>4
  <2>6. \A i \in 1..n : i + (Len(s) - n) \in 1..Len(s) /\ m + i - 1 = i + (Len(s) - n)
    BY <1>1, <1>3 DEF m
  <2>7. \A i \in 1..n : Suffix(s, n)[i] = s[i + (Len(s) - n)]
    BY <2>1, <2>3, <2>4, <2>6
  <2>8. Len(s) - n \in Nat
    BY <1>1, <1>3
  <2>. HIDE DEF m
  <2>. QED
    BY <1>3, <2>3, <2>4, <2>5, <2>6, <2>7, <2>8
<1>. QED
  BY <1>2, <1>3

\* Two sequences joined, place by place.
LEMMA JoinAt ==
  ASSUME NEW S, NEW s \in Seq(S), NEW t \in Seq(S)
  PROVE  /\ s \o t \in Seq(S) /\ Len(s) \in Nat /\ Len(t) \in Nat /\ Len(s \o t) = Len(s) + Len(t)
         /\ \A i \in 1..Len(s) : i \in 1..Len(s \o t) /\ (s \o t)[i] = s[i]
         /\ \A j \in 1..Len(t) : Len(s) + j \in 1..Len(s \o t) /\ (s \o t)[Len(s) + j] = t[j]
         /\ \A i \in 1..Len(s \o t) : i \notin 1..Len(s) => \E j \in 1..Len(t) : i = Len(s) + j
<1>1. /\ s \o t \in Seq(S) /\ Len(s) \in Nat /\ Len(t) \in Nat /\ Len(s \o t) = Len(s) + Len(t)
      /\ \A i \in 1..Len(s) + Len(t) : (s \o t)[i] = IF i <= Len(s) THEN s[i] ELSE t[i - Len(s)]
  BY ConcatProperties, LenProperties
<1>2. \A i \in 1..Len(s) : i \in 1..(Len(s) + Len(t)) /\ (s \o t)[i] = s[i]
  BY <1>1
<1>3. ASSUME NEW j \in 1..Len(t)
      PROVE  Len(s) + j \in 1..(Len(s) + Len(t)) /\ (s \o t)[Len(s) + j] = t[j]
  <2>1. Len(s) + j \in 1..(Len(s) + Len(t)) /\ ~(Len(s) + j <= Len(s)) /\ (Len(s) + j) - Len(s) = j
    BY <1>1
  <2>. QED
    BY <1>1, <2>1
<1>4. ASSUME NEW i \in 1..(Len(s) + Len(t)), i \notin 1..Len(s)
      PROVE  \E j \in 1..Len(t) : i = Len(s) + j
  <2>1. i - Len(s) \in 1..Len(t) /\ i = Len(s) + (i - Len(s))
    BY <1>1, <1>4
  <2>. QED
    BY <2>1
<1>. QED
  BY <1>1, <1>2, <1>3, <1>4

\* Cutting before and after an extension is cutting after it.
LEMMA SuffixJoin ==
  ASSUME NEW S, NEW s \in Seq(S), NEW t \in Seq(S), NEW n \in Nat
  PROVE  Suffix(Suffix(s, n) \o t, n) = Suffix(s \o t, n)
<1>. DEFINE u == Suffix(s, n)
           l == Suffix(u \o t, n)
           r == Suffix(s \o t, n)
<1>1. /\ u \in Seq(S) /\ Len(u) = (IF Len(s) <= n THEN Len(s) ELSE n)
      /\ \A i \in 1..Len(u) : /\ i + (Len(s) - Len(u)) \in 1..Len(s)
                              /\ u[i] = s[i + (Len(s) - Len(u))]
  BY SuffixAt
<1>. HIDE DEF u
<1>2. /\ u \o t \in Seq(S) /\ Len(u \o t) = Len(u) + Len(t)
      /\ \A i \in 1..Len(u) + Len(t) : (u \o t)[i] = IF i <= Len(u) THEN u[i] ELSE t[i - Len(u)]
  BY <1>1, ConcatProperties
<1>3. /\ s \o t \in Seq(S) /\ Len(s \o t) = Len(s) + Len(t)
      /\ \A i \in 1..Len(s) + Len(t) : (s \o t)[i] = IF i <= Len(s) THEN s[i] ELSE t[i - Len(s)]
  BY ConcatProperties
<1>4. /\ l \in Seq(S) /\ Len(l) = (IF Len(u \o t) <= n THEN Len(u \o t) ELSE n)
      /\ \A i \in 1..Len(l) : /\ i + (Len(u \o t) - Len(l)) \in 1..Len(u \o t)
                              /\ l[i] = (u \o t)[i + (Len(u \o t) - Len(l))]
  BY <1>2, SuffixAt
<1>5. /\ r \in Seq(S) /\ Len(r) = (IF Len(s \o t) <= n THEN Len(s \o t) ELSE n)
      /\ \A i \in 1..Len(r) : /\ i + (Len(s \o t) - Len(r)) \in 1..Len(s \o t)
                              /\ r[i] = (s \o t)[i + (Len(s \o t) - Len(r))]
  BY <1>3, SuffixAt
<1>. HIDE DEF l, r
<1>6. Len(s) \in Nat /\ Len(t) \in Nat
  BY LenProperties
<1>7. Len(l) = Len(r) /\ Len(l) \in Nat
  BY <1>1, <1>2, <1>3, <1>4, <1>5, <1>6
<1>8. ASSUME NEW i \in 1..Len(l) PROVE l[i] = r[i]
  <2>. DEFINE a == i + ((Len(u) + Len(t)) - Len(l))
             b == i + ((Len(s) + Len(t)) - Len(l))
  <2>1. a \in 1..(Len(u) + Len(t)) /\ b \in 1..(Len(s) + Len(t)) /\ l[i] = (u \o t)[a] /\ r[i] = (s \o t)[b]
    BY <1>2, <1>3, <1>4, <1>5, <1>7
  <2>2. Len(u) \in Nat /\ i \in Nat
    BY <1>1, <1>6, <1>7
  <2>3. b = a + (Len(s) - Len(u))
    BY <1>6, <1>7, <2>2
  <2>. HIDE DEF a, b
  <2>4. CASE a <= Len(u)
    <3>1. a \in 1..Len(u) /\ b \in 1..Len(s)
      BY <1>1, <2>1, <2>2, <2>3, <2>4
    <3>2. (u \o t)[a] = u[a] /\ (s \o t)[b] = s[b]
      BY <1>2, <1>3, <2>1, <3>1
    <3>3. u[a] = s[b]
      BY <1>1, <2>3, <3>1
    <3>. QED
      BY <2>1, <3>2, <3>3
  <2>5. CASE ~(a <= Len(u))
    <3>1. ~(b <= Len(s)) /\ a - Len(u) = b - Len(s)
      BY <1>6, <2>1, <2>2, <2>3, <2>5
    <3>. QED
      BY <1>2, <1>3, <2>1, <2>5, <3>1
  <2>. QED
    BY <2>4, <2>5
<1>9. l = r
  BY <1>4, <1>5, <1>7, <1>8, SeqEqual
<1>. QED
  BY <1>9 DEF l, r, u

\* A sequence without repetitions has as many items past the n-th as places.
LEMMA RestCounted ==
  ASSUME NEW S, NEW s \in Seq(S), NEW n \in 0..Len(s), Inj(s)
  PROVE  LET rest == {s[i] : i \in n+1..Len(s)} IN
         IsFiniteSet(rest) /\ Cardinality(rest) = Len(s) - n
<1>. DEFINE I == n+1..Len(s)
           rest == {s[i] : i \in I}
           f == [i \in I |-> s[i]]
<1>1. Len(s) \in Nat /\ n \in Nat /\ n <= Len(s) /\ I \subseteq 1..Len(s)
  BY LenProperties
<1>2. IsFiniteSet(I) /\ Cardinality(I) = Len(s) - n
  <2>. DEFINE a == n + 1
  <2>1. a \in Int /\ Len(s) \in Int
    BY <1>1
  <2>. HIDE DEF a
  <2>2. IsFiniteSet(a..Len(s)) /\ Cardinality(a..Len(s)) = IF a > Len(s) THEN 0 ELSE Len(s) - a + 1
    BY <2>1, FS_Interval
  <2>3. (IF a > Len(s) THEN 0 ELSE Len(s) - a + 1) = Len(s) - n
    BY <1>1 DEF a
  <2>. QED
    BY <2>2, <2>3 DEF a
<1>3. f \in Bijection(I, rest)
  <2>1. f \in [I -> rest]
    OBVIOUS
  <2>2. \A i, j \in I : f[i] = f[j] => i = j
    BY <1>1 DEF Inj
  <2>3. \A x \in rest : \E i \in I : f[i] = x
    OBVIOUS
  <2>. QED
    BY <2>1, <2>2, <2>3 DEF Bijection, Injection, Surjection, IsInjective
<1>4. ExistsBijection(I, rest)
  BY <1>3 DEF ExistsBijection
<1>. HIDE DEF I, f
<1>5. IsFiniteSet(rest) /\ Cardinality(rest) = Cardinality(I)
  BY <1>2, <1>4, FS_Bijection
<1>. QED
  BY <1>2, <1>5 DEF I

\* The items of s are in f, and in the same order.
Mirrors(s, f) ==
  /\ \A i \in 1..Len(s) : \E k \in 1..Len(f) : f[k] = s[i]
  /\ \A i, j \in 1..Len(s) :
       i < j => \E k, l \in 1..Len(f) : k < l /\ f[k] = s[i] /\ f[l] = s[j]

LEMMA MirrorsLonger ==
  ASSUME NEW S, NEW s \in Seq(S), NEW f \in Seq(S), NEW t \in Seq(S), Mirrors(s, f)
  PROVE  Mirrors(s, f \o t)
<1>1. \A k \in 1..Len(f) : k \in 1..Len(f \o t) /\ (f \o t)[k] = f[k]
  BY JoinAt
<1>2. \A i \in 1..Len(s) : \E k \in 1..Len(f) : f[k] = s[i]
  BY DEF Mirrors
<1>3. ASSUME NEW i \in 1..Len(s), NEW j \in 1..Len(s), i < j
      PROVE  \E k, l \in 1..Len(f \o t) : k < l /\ (f \o t)[k] = s[i] /\ (f \o t)[l] = s[j]
  <2>1. PICK k \in 1..Len(f), l \in 1..Len(f) : k < l /\ f[k] = s[i] /\ f[l] = s[j]
    BY <1>3 DEF Mirrors
  <2>. QED
    BY <1>1, <2>1
<1>. DEFINE g == f \o t
<1>4. \A i \in 1..Len(s) : \E k \in 1..Len(g) : g[k] = s[i]
  BY <1>1, <1>2
<1>5. \A i, j \in 1..Len(s) :
        i < j => \E k, l \in 1..Len(g) : k < l /\ g[k] = s[i] /\ g[l] = s[j]
  BY <1>3
<1>. HIDE DEF g
<1>6. Mirrors(s, g)
  BY <1>4, <1>5 DEF Mirrors
<1>. QED
  BY <1>6 DEF g

\* What is added to both keeps the order.
LEMMA MirrorsJoin ==
  ASSUME NEW S, NEW s \in Seq(S), NEW f \in Seq(S), NEW t \in Seq(S), Mirrors(s, f)
  PROVE  Mirrors(s \o t, f \o t)
<1>. DEFINE u == s \o t
           g == f \o t
<1>1. /\ Len(s) \in Nat /\ Len(t) \in Nat /\ Len(f) \in Nat
      /\ \A i \in 1..Len(s) : u[i] = s[i]
      /\ \A j \in 1..Len(t) : u[Len(s) + j] = t[j] /\ Len(f) + j \in 1..Len(g) /\ g[Len(f) + j] = t[j]
      /\ \A i \in 1..Len(u) : i \notin 1..Len(s) => \E j \in 1..Len(t) : i = Len(s) + j
  BY JoinAt
<1>2. Mirrors(s, g)
  BY MirrorsLonger
<1>. HIDE DEF u, g
<1>3. ASSUME NEW i \in 1..Len(u) PROVE \E k \in 1..Len(g) : g[k] = u[i]
  <2>1. CASE i \in 1..Len(s)
    BY <1>1, <1>2, <2>1 DEF Mirrors
  <2>2. CASE i \notin 1..Len(s)
    <3>1. PICK j \in 1..Len(t) : i = Len(s) + j
      BY <1>1, <2>2
    <3>. QED
      BY <1>1, <3>1
  <2>. QED
    BY <2>1, <2>2
<1>4. ASSUME NEW i \in 1..Len(u), NEW j \in 1..Len(u), i < j
      PROVE  \E k, l \in 1..Len(g) : k < l /\ g[k] = u[i] /\ g[l] = u[j]
  <2>1. CASE i \in 1..Len(s) /\ j \in 1..Len(s)
    <3>1. PICK k \in 1..Len(g), l \in 1..Len(g) : k < l /\ g[k] = s[i] /\ g[l] = s[j]
      BY <1>2, <1>4, <2>1 DEF Mirrors
    <3>2. u[i] = s[i] /\ u[j] = s[j]
      BY <1>1, <2>1
    <3>. QED
      BY <3>1, <3>2
  <2>2. CASE i \in 1..Len(s) /\ j \notin 1..Len(s)
    <3>1. PICK m \in 1..Len(t) : j = Len(s) + m
      BY <1>1, <2>2
    <3>2. PICK k \in 1..Len(f) : f[k] = s[i]
      BY <2>2 DEF Mirrors
    <3>3. k \in 1..Len(g) /\ g[k] = f[k]
      BY JoinAt DEF g
    <3>4. k < Len(f) + m
      BY <1>1
    <3>. QED
      BY <1>1, <2>2, <3>1, <3>2, <3>3, <3>4
  <2>3. CASE i \notin 1..Len(s) /\ j \notin 1..Len(s)
    <3>1. PICK m \in 1..Len(t) : i = Len(s) + m
      BY <1>1, <2>3
    <3>2. PICK n \in 1..Len(t) : j = Len(s) + n
      BY <1>1, <2>3
    <3>3. Len(f) + m < Len(f) + n
      BY <1>1, <1>4, <3>1, <3>2
    <3>. QED
      BY <1>1, <3>1, <3>2, <3>3
  <2>4. ~(i \notin 1..Len(s) /\ j \in 1..Len(s))
    BY <1>1, <1>4
  <2>. QED
    BY <2>1, <2>2, <2>3, <2>4
<1>5. Mirrors(u, g)
  BY <1>3, <1>4 DEF Mirrors
<1>. QED
  BY <1>5 DEF u, g

LEMMA MirrorsSuffix ==
  ASSUME NEW S, NEW s \in Seq(S), NEW f, NEW n \in Nat, Mirrors(s, f)
  PROVE  Mirrors(Suffix(s, n), f)
<1>. DEFINE u == Suffix(s, n)
           d == Len(s) - Len(u)
<1>1. d \in Nat /\ \A i \in 1..Len(u) : i + d \in 1..Len(s) /\ u[i] = s[i + d]
  BY SuffixAt
<1>. HIDE DEF u, d
<1>2. \A i, j \in 1..Len(u) : i < j => i + d < j + d
  BY <1>1
<1>3. Mirrors(u, f)
  <2>1. \A i \in 1..Len(u) : \E k \in 1..Len(f) : f[k] = u[i]
    BY <1>1 DEF Mirrors
  <2>2. ASSUME NEW i \in 1..Len(u), NEW j \in 1..Len(u), i < j
        PROVE  \E k, l \in 1..Len(f) : k < l /\ f[k] = u[i] /\ f[l] = u[j]
    <3>1. i + d \in 1..Len(s) /\ j + d \in 1..Len(s) /\ i + d < j + d /\ u[i] = s[i + d] /\ u[j] = s[j + d]
      BY <1>1, <1>2, <2>2
    <3>2. PICK k \in 1..Len(f), l \in 1..Len(f) : k < l /\ f[k] = s[i + d] /\ f[l] = s[j + d]
      BY <3>1 DEF Mirrors
    <3>. QED
      BY <3>1, <3>2
  <2>. QED
    BY <2>1, <2>2 DEF Mirrors
<1>. QED
  BY <1>3 DEF u

(***************************************************************************)
(* The types.  A batch that is not being flushed has room for one record.  *)
(***************************************************************************)
Sized ==
  /\ TypeOK
  /\ wpc \in {"select", "drain"} => Len(batch) < BatchSize

LEMMA SizedInit == Init => Sized
BY SizesPositive, EmptySeq DEF Init, Sized, TypeOK

LEMMA SubmitSized ==
  ASSUME Sized, NEW r \in Records, Submit(r)
  PROVE  Sized'
<1>1. UNCHANGED <<batch, wpc, ret, timer, closer, before, file, ring, failed>>
  BY DEF Submit, TrySend, DropOldest, Resend, writerVars, storeVars, closeVars
<1>2. pc' \in [Records -> {"start", "full", "retry", "done"}]
  BY DEF Submit, TrySend, DropOldest, Resend, Sized, TypeOK
<1>3. dropped' \in Nat
  BY DEF Submit, TrySend, DropOldest, Resend, Sized, TypeOK
<1>4. ch' \in Seq(Records) /\ Len(ch') <= Capacity
  <2>1. ch \in Seq(Records) /\ Len(ch) \in Nat /\ Len(ch) <= Capacity /\ Capacity \in Nat
    BY LenProperties, SizesPositive DEF Sized, TypeOK
  <2>2. CASE ch' = ch
    BY <2>1, <2>2
  <2>3. CASE ch # <<>> /\ ch' = Tail(ch)
    BY <2>1, <2>3, ToSetTail
  <2>4. CASE Len(ch) < Capacity /\ ch' = Append(ch, r)
    <3>1. Append(ch, r) \in Seq(Records) /\ Len(Append(ch, r)) = Len(ch) + 1
      BY <2>1, AppendProperties
    <3>. QED
      BY <2>1, <2>4, <3>1
  <2>. QED
    BY <2>2, <2>3, <2>4 DEF Submit, TrySend, DropOldest, Resend
<1>. QED
  BY <1>1, <1>2, <1>3, <1>4 DEF Sized, TypeOK

\* What a flush leaves of the batch and where the writer is after it.
LEMMA FlushCases ==
  ASSUME Flush
  PROVE  /\ UNCHANGED <<pc, ch, dropped, ret, closer, before>>
         /\ \/ /\ wpc = "write" /\ wpc' = ret /\ batch = <<>> /\ timer' = "armed"
               /\ UNCHANGED <<batch, file, ring, failed>>
            \/ /\ wpc = "write" /\ wpc' = "ring" /\ file' = file \o batch
               /\ UNCHANGED <<batch, timer, ring, failed>>
            \/ /\ wpc = "ring" /\ wpc' = ret /\ batch' = <<>> /\ timer' = "armed"
               /\ ring' = Suffix(ring \o batch, RingCap) /\ UNCHANGED <<file, failed>>
            \/ \E n \in 0..BatchSize-1 :
                 /\ n < Len(batch) /\ wpc = "write" /\ wpc' = ret /\ batch' = <<>> /\ timer' = "armed"
                 /\ file' = file \o SubSeq(batch, 1, n)
                 /\ failed' = failed \cup {batch[i] : i \in n+1..Len(batch)}
                 /\ ring' = ring
<1>1. UNCHANGED <<pc, ch, dropped, ret, closer, before>>
  BY DEF Flush, FlushEmpty, WriteFile, UpdateRing, WriteFails, submitVars, closeVars
<1>2. CASE FlushEmpty
  BY <1>1, <1>2 DEF FlushEmpty, storeVars
<1>3. CASE WriteFile
  BY <1>1, <1>3 DEF WriteFile
<1>4. CASE UpdateRing
  BY <1>1, <1>4 DEF UpdateRing
<1>5. ASSUME NEW n \in 0..BatchSize-1, n < Len(batch), WriteFails(n)
      PROVE  \E m \in 0..BatchSize-1 :
               /\ m < Len(batch) /\ wpc = "write" /\ wpc' = ret /\ batch' = <<>> /\ timer' = "armed"
               /\ file' = file \o SubSeq(batch, 1, m)
               /\ failed' = failed \cup {batch[i] : i \in m+1..Len(batch)}
               /\ ring' = ring
  BY <1>5 DEF WriteFails
<1>. QED
  BY <1>1, <1>2, <1>3, <1>4, <1>5, Zenon DEF Flush

LEMMA FlushSized ==
  ASSUME Sized, Flush
  PROVE  Sized'
<1>1. UNCHANGED <<pc, ch, dropped, ret, closer, before>>
  BY FlushCases
<1>2. /\ batch \in Seq(Records) /\ file \in Seq(Records) /\ ring \in Seq(Records)
      /\ failed \subseteq Records /\ Len(batch) <= BatchSize /\ Len(ring) <= RingCap
      /\ ret \in {"select", "drain", "exited"} /\ timer \in {"armed", "fired", "spent"}
      /\ BatchSize \in Nat \ {0} /\ RingCap \in Nat
  BY SizesPositive DEF Sized, TypeOK
<1>3. <<>> \in Seq(Records) /\ Len(<<>>) = 0
  BY EmptySeq
<1>4. /\ batch' \in Seq(Records) /\ Len(batch') <= BatchSize
      /\ wpc' \in {"select", "drain", "ring", "exited"}
      /\ wpc' \in {"select", "drain"} => Len(batch') < BatchSize
      /\ timer' \in {"armed", "fired", "spent"}
      /\ file' \in Seq(Records) /\ failed' \subseteq Records
      /\ ring' \in Seq(Records) /\ Len(ring') <= RingCap
  <2>1. CASE /\ wpc = "write" /\ wpc' = ret /\ batch = <<>> /\ timer' = "armed"
             /\ UNCHANGED <<batch, file, ring, failed>>
    BY <1>2, <1>3, <2>1
  <2>2. CASE /\ wpc = "write" /\ wpc' = "ring" /\ file' = file \o batch
             /\ UNCHANGED <<batch, timer, ring, failed>>
    <3>1. file \o batch \in Seq(Records)
      BY <1>2, ConcatProperties
    <3>. QED
      BY <1>2, <2>2, <3>1
  <2>3. CASE /\ wpc = "ring" /\ wpc' = ret /\ batch' = <<>> /\ timer' = "armed"
             /\ ring' = Suffix(ring \o batch, RingCap) /\ UNCHANGED <<file, failed>>
    <3>. DEFINE u == ring \o batch
    <3>1. u \in Seq(Records)
      BY <1>2, ConcatProperties
    <3>. HIDE DEF u
    <3>2. /\ Suffix(u, RingCap) \in Seq(Records)
          /\ Len(Suffix(u, RingCap)) = IF Len(u) <= RingCap THEN Len(u) ELSE RingCap
      BY <1>2, <3>1, SuffixAt
    <3>3. Len(Suffix(u, RingCap)) <= RingCap
      BY <1>2, <3>1, <3>2, LenProperties
    <3>4. ring' = Suffix(u, RingCap)
      BY <2>3 DEF u
    <3>. QED
      BY <1>2, <1>3, <2>3, <3>2, <3>3, <3>4
  <2>4. ASSUME NEW n \in 0..BatchSize-1, n < Len(batch), wpc' = ret, batch' = <<>>, timer' = "armed",
               file' = file \o SubSeq(batch, 1, n),
               failed' = failed \cup {batch[i] : i \in n+1..Len(batch)}, ring' = ring
        PROVE  /\ batch' \in Seq(Records) /\ Len(batch') <= BatchSize
               /\ wpc' \in {"select", "drain", "ring", "exited"}
               /\ wpc' \in {"select", "drain"} => Len(batch') < BatchSize
               /\ timer' \in {"armed", "fired", "spent"}
               /\ file' \in Seq(Records) /\ failed' \subseteq Records
               /\ ring' \in Seq(Records) /\ Len(ring') <= RingCap
    <3>. DEFINE p == SubSeq(batch, 1, n)
    <3>1. n \in 0..Len(batch)
      BY <1>2, <2>4, LenProperties
    <3>2. p \in Seq(Records)
      BY <1>2, <3>1, PrefixMembers
    <3>. HIDE DEF p
    <3>3. file \o p \in Seq(Records)
      BY <1>2, <3>2, ConcatProperties
    <3>4. {batch[i] : i \in n+1..Len(batch)} \subseteq Records
      <4>1. \A i \in n+1..Len(batch) : i \in 1..Len(batch)
        BY <3>1
      <4>. QED
        BY <1>2, <4>1, ElementOfSeq
    <3>5. file' = file \o p
      BY <2>4 DEF p
    <3>. QED
      BY <1>2, <1>3, <2>4, <3>3, <3>4, <3>5
  <2>. QED
    BY <2>1, <2>2, <2>3, <2>4, FlushCases, Zenon
<1>. QED
  BY <1>1, <1>4 DEF Sized, TypeOK

LEMMA WriterSized ==
  ASSUME Sized, Writer
  PROVE  Sized'
<1>1. ASSUME NEW l \in {"select", "drain"}, Receive(l) PROVE Sized'
  <2>1. /\ wpc = l /\ ch # <<>> /\ batch' = Append(batch, Head(ch)) /\ ch' = Tail(ch) /\ ret' = l
        /\ wpc' = (IF Len(batch) + 1 >= BatchSize THEN "write" ELSE l)
        /\ UNCHANGED <<pc, dropped, timer, closer, before, file, ring, failed>>
    BY <1>1 DEF Receive, storeVars, closeVars
  <2>2. Tail(ch) \in Seq(Records) /\ Head(ch) \in Records /\ Len(Tail(ch)) = Len(ch) - 1 /\ Len(ch) \in Nat
    BY <2>1, ToSetTail, LenProperties DEF Sized, TypeOK
  <2>3. Append(batch, Head(ch)) \in Seq(Records) /\ Len(Append(batch, Head(ch))) = Len(batch) + 1
        /\ Len(batch) \in Nat /\ Len(batch) < BatchSize
    BY <2>1, <2>2, AppendProperties, LenProperties DEF Sized, TypeOK
  <2>4. ch' \in Seq(Records) /\ Len(ch') <= Capacity
    BY <2>1, <2>2, SizesPositive DEF Sized, TypeOK
  <2>5. /\ batch' \in Seq(Records) /\ Len(batch') <= BatchSize
        /\ wpc' \in {"select", "drain"} => Len(batch') < BatchSize
    BY <2>1, <2>3, SizesPositive
  <2>6. wpc' \in {"select", "drain", "write"}
    BY <2>1
  <2>. QED
    BY <2>1, <2>4, <2>5, <2>6 DEF Sized, TypeOK
<1>2. CASE Tick \/ SeeStop \/ LastFlush
  BY <1>2 DEF Tick, SeeStop, LastFlush, Sized, TypeOK, submitVars, storeVars, closeVars
<1>. QED
  BY <1>1, <1>2, FlushSized DEF Writer

LEMMA SizedNext == Sized /\ [Next]_vars => Sized'
<1>1. ASSUME Sized, Close \/ TimerFires \/ UNCHANGED vars PROVE Sized'
  <2>1. /\ UNCHANGED <<pc, ch, dropped, batch, wpc, ret, file, ring, failed>>
        /\ timer' \in {timer, "fired"} /\ closer' \in {closer, "waiting", "closed"}
        /\ before' \in {before, Finished}
    BY <1>1 DEF Close, CloseStop, CloseFile, TimerFires, vars, submitVars, writerVars, storeVars, closeVars
  <2>2. Finished \subseteq Records
    BY DEF Finished
  <2>. QED
    BY <1>1, <2>1, <2>2 DEF Sized, TypeOK
<1>. QED
  BY <1>1, SubmitSized, WriterSized DEF Next

(***************************************************************************)
(* The accounts.  A record of a failed write is in no buffer and not in    *)
(* the file, so that no record is counted twice.                           *)
(***************************************************************************)
Counted ==
  /\ IsFiniteSet(Finished) /\ IsFiniteSet(failed)
  /\ failed \subseteq Finished
  /\ failed \cap (ToSet(InHand) \cup ToSet(ch) \cup ToSet(file)) = {}
  /\ Cardinality(Finished)
       = dropped + Len(ch) + Len(InHand) + Len(file) + Cardinality(failed)

LEMMA CountedInit == Init => Counted
<1>. SUFFICES ASSUME Init PROVE Counted
  OBVIOUS
<1>1. Finished = {} /\ failed = {} /\ ch = <<>> /\ InHand = <<>> /\ file = <<>> /\ dropped = 0
  BY DEF Init, Finished, InHand
<1>2. IsFiniteSet({}) /\ Cardinality({}) = 0
  BY FS_EmptySet
<1>3. Cardinality(Finished) = 0 /\ Cardinality(failed) = 0 /\ IsFiniteSet(Finished) /\ IsFiniteSet(failed)
  BY <1>1, <1>2, Zenon
<1>4. Len(ch) = 0 /\ Len(InHand) = 0 /\ Len(file) = 0
  BY <1>1
<1>. HIDE DEF Init
<1>. QED
  BY <1>1, <1>3, <1>4 DEF Counted

\* What a Submit does to the accounts: a record moves from the channel to the
\* dropped ones, or a new one is queued or dropped.
LEMMA SubmitCounts ==
  ASSUME Once, NEW r \in Records, Submit(r)
  PROVE  /\ UNCHANGED <<batch, file, wpc, failed>>
         /\ \/ ch' = ch /\ Finished' = Finished /\ dropped' = dropped
            \/ ch # <<>> /\ ch' = Tail(ch) /\ Finished' = Finished /\ dropped' = dropped + 1
            \/ /\ r \notin Finished /\ Finished' = Finished \cup {r}
               /\ \/ ch' = Append(ch, r) /\ dropped' = dropped
                  \/ ch' = ch /\ dropped' = dropped + 1
<1>1. UNCHANGED <<batch, file, wpc, failed>>
  BY DEF Submit, TrySend, DropOldest, Resend, writerVars, storeVars
<1>2. pc \in [Records -> {"start", "full", "retry", "done"}]
  BY DEF Once
<1>3. pc[r] # "done" /\ \A q \in Records \ {r} : pc'[q] = pc[q]
  BY <1>2 DEF Submit, TrySend, DropOldest, Resend
<1>4. ASSUME pc'[r] # "done" PROVE Finished' = Finished
  BY <1>3, <1>4 DEF Finished
<1>5. ASSUME pc'[r] = "done" PROVE r \notin Finished /\ Finished' = Finished \cup {r}
  BY <1>3, <1>5 DEF Finished
<1>6. CASE TrySend(r)
  <2>1. dropped' = dropped /\ (\/ ch' = Append(ch, r) /\ pc'[r] = "done"
                               \/ ch' = ch /\ pc'[r] = "full")
    BY <1>2, <1>6 DEF TrySend
  <2>. QED
    BY <1>1, <1>4, <1>5, <2>1
<1>7. CASE DropOldest(r)
  <2>1. pc'[r] = "retry" /\ (\/ ch' = ch /\ dropped' = dropped
                             \/ ch # <<>> /\ ch' = Tail(ch) /\ dropped' = dropped + 1)
    BY <1>2, <1>7 DEF DropOldest
  <2>. QED
    BY <1>1, <1>4, <2>1
<1>8. CASE Resend(r)
  <2>1. pc'[r] = "done" /\ (\/ ch' = ch /\ dropped' = dropped + 1
                            \/ ch' = Append(ch, r) /\ dropped' = dropped)
    BY <1>2, <1>8 DEF Resend
  <2>. QED
    BY <1>1, <1>5, <2>1
<1>. QED
  BY <1>6, <1>7, <1>8 DEF Submit

LEMMA SubmitCounted ==
  ASSUME Once, Counted, dropped \in Nat, NEW r \in Records, Submit(r)
  PROVE  Counted'
<1>1. UNCHANGED <<batch, file, wpc, failed>> /\ InHand' = InHand
  BY SubmitCounts DEF InHand
<1>2. /\ ch \in Seq(Records) /\ Len(ch) \in Nat /\ Len(InHand) \in Nat /\ Len(file) \in Nat
      /\ Cardinality(failed) \in Nat /\ Cardinality(Finished) \in Nat
  BY Queue, LenProperties, FS_CardinalityType DEF Once, Counted
<1>3. CASE ch' = ch /\ Finished' = Finished /\ dropped' = dropped
  BY <1>1, <1>3 DEF Counted, ToSet
<1>4. CASE ch # <<>> /\ ch' = Tail(ch) /\ Finished' = Finished /\ dropped' = dropped + 1
  <2>1. Len(Tail(ch)) = Len(ch) - 1 /\ ToSet(Tail(ch)) \subseteq ToSet(ch)
    BY <1>2, <1>4, ToSetTail
  <2>2. ToSet(ch') \subseteq ToSet(ch) /\ Len(ch') = Len(ch) - 1
    BY <1>4, <2>1
  <2>3. Cardinality(Finished') = dropped' + Len(ch') + Len(InHand') + Len(file') + Cardinality(failed')
    BY <1>1, <1>2, <1>4, <2>2 DEF Counted
  <2>4. ToSet(InHand') = ToSet(InHand) /\ ToSet(file') = ToSet(file)
    BY <1>1
  <2>5. failed' \cap (ToSet(InHand') \cup ToSet(ch') \cup ToSet(file')) = {}
    BY <1>1, <2>2, <2>4 DEF Counted
  <2>. QED
    BY <1>1, <1>4, <2>3, <2>5 DEF Counted, ToSet
<1>5. CASE r \notin Finished /\ Finished' = Finished \cup {r}
  <2>1. IsFiniteSet(Finished') /\ Cardinality(Finished') = Cardinality(Finished) + 1
    BY <1>5, FS_AddElement DEF Counted
  <2>2. r \notin failed /\ failed' \subseteq Finished'
    BY <1>1, <1>5 DEF Counted
  <2>3. ToSet(InHand') = ToSet(InHand) /\ ToSet(file') = ToSet(file)
    BY <1>1
  <2>4. CASE ch' = Append(ch, r) /\ dropped' = dropped
    <3>1. ToSet(ch') = ToSet(ch) \cup {r} /\ Len(ch') = Len(ch) + 1
      BY <1>2, <2>4, ToSetAppend, AppendProperties
    <3>2. Cardinality(Finished') = dropped' + Len(ch') + Len(InHand') + Len(file') + Cardinality(failed')
      BY <1>1, <1>2, <2>1, <2>4, <3>1 DEF Counted
    <3>3. failed' \cap (ToSet(InHand') \cup ToSet(ch') \cup ToSet(file')) = {}
      BY <1>1, <2>2, <2>3, <3>1 DEF Counted
    <3>. QED
      BY <1>1, <2>1, <2>2, <3>2, <3>3 DEF Counted, ToSet
  <2>5. CASE ch' = ch /\ dropped' = dropped + 1
    <3>1. Cardinality(Finished') = dropped' + Len(ch') + Len(InHand') + Len(file') + Cardinality(failed')
      BY <1>1, <1>2, <2>1, <2>5 DEF Counted
    <3>2. failed' \cap (ToSet(InHand') \cup ToSet(ch') \cup ToSet(file')) = {}
      BY <1>1, <2>3, <2>5 DEF Counted, ToSet
    <3>. QED
      BY <1>1, <2>1, <2>2, <3>1, <3>2 DEF Counted, ToSet
  <2>. QED
    BY <1>5, <2>4, <2>5, SubmitCounts
<1>. QED
  BY <1>3, <1>4, <1>5, SubmitCounts

\* The first n records of the batch reach the file, the others are the failed
\* ones.
BatchWritten(n) ==
  /\ wpc = "write" /\ InHand' = <<>>
  /\ file' = file \o SubSeq(batch, 1, n)
  /\ failed' = failed \cup {batch[i] : i \in n+1..Len(batch)}
  /\ ch' = ch /\ dropped' = dropped /\ Finished' = Finished

LEMMA WriteCounted ==
  ASSUME Once, Counted, dropped \in Nat, NEW n \in 0..Len(batch), BatchWritten(n)
  PROVE  Counted'
<1>. DEFINE p == SubSeq(batch, 1, n)
           rest == {batch[i] : i \in n+1..Len(batch)}
<1>1. batch \in Seq(Records) /\ file \in Seq(Records) /\ ch \in Seq(Records) /\ Inj(batch) /\ InHand = batch
  BY DEF Once, InHand, BatchWritten
<1>2. /\ Len(batch) \in Nat /\ Len(ch) \in Nat /\ Len(file) \in Nat /\ n \in Nat /\ n <= Len(batch)
      /\ Cardinality(failed) \in Nat
  BY <1>1, LenProperties, FS_CardinalityType DEF Counted
<1>3. p \in Seq(Records) /\ ToSet(batch) = ToSet(p) \cup rest /\ ToSet(p) \cap rest = {}
  BY <1>1, PrefixMembers
<1>4. Len(p) = n
  <2>1. \A i \in 1..n : batch[i] \in Records
    BY <1>1, <1>2, ElementOfSeq
  <2>. QED
    BY <1>2, <2>1, SubSeqProperties
<1>5. IsFiniteSet(rest) /\ Cardinality(rest) = Len(batch) - n
  BY <1>1, RestCounted
<1>. HIDE DEF p, rest
<1>6. ToSet(file \o p) = ToSet(file) \cup ToSet(p) /\ Len(file \o p) = Len(file) + n
  <2>1. Len(file \o p) = Len(file) + Len(p)
    BY <1>1, <1>3, ConcatProperties
  <2>2. ToSet(file \o p) = ToSet(file) \cup ToSet(p)
    BY <1>1, <1>3, JoinedMembers
  <2>. QED
    BY <1>4, <2>1, <2>2
<1>7. file' = file \o p /\ failed' = failed \cup rest
  BY DEF p, rest, BatchWritten
<1>8. failed \cap rest = {} /\ rest \subseteq Finished
  BY <1>1, <1>3 DEF Counted, Once
<1>9. IsFiniteSet(failed') /\ Cardinality(failed') = Cardinality(failed) + (Len(batch) - n)
  <2>1. IsFiniteSet(failed \cup rest)
        /\ Cardinality(failed \cup rest) = Cardinality(failed) + Cardinality(rest) - Cardinality(failed \cap rest)
    BY <1>5, FS_Union DEF Counted
  <2>2. Cardinality(failed \cap rest) = 0
    BY <1>8, FS_EmptySet
  <2>3. IsFiniteSet(failed') /\ Cardinality(failed') = Cardinality(failed) + Cardinality(rest) - 0
    BY <1>7, <2>1, <2>2
  <2>. QED
    BY <1>2, <1>5, <2>3
<1>10. Len(file') = Len(file) + n /\ ToSet(file') = ToSet(file) \cup ToSet(p)
  BY <1>6, <1>7
<1>11. Len(InHand') = 0 /\ ToSet(InHand') = {}
  BY DEF ToSet, BatchWritten
<1>12. Cardinality(Finished') = dropped' + Len(ch') + Len(InHand') + Len(file') + Cardinality(failed')
  <2>1. Cardinality(Finished) = dropped + Len(ch) + Len(batch) + Len(file) + Cardinality(failed)
    BY <1>1 DEF Counted
  <2>2. Cardinality(Finished') = Cardinality(Finished) /\ dropped' = dropped /\ Len(ch') = Len(ch)
    BY DEF BatchWritten
  <2>. QED
    BY <1>2, <1>9, <1>10, <1>11, <2>1, <2>2
<1>13. failed' \cap (ToSet(InHand') \cup ToSet(ch) \cup ToSet(file')) = {}
  <2>1. rest \cap ToSet(ch) = {} /\ rest \cap ToSet(file) = {}
    BY <1>3 DEF Once, BatchWritten
  <2>2. failed \cap ToSet(p) = {}
    BY <1>1, <1>3 DEF Counted
  <2>. QED
    BY <1>3, <1>7, <1>10, <1>11, <2>1, <2>2 DEF Counted
<1>14. failed' \subseteq Finished
  BY <1>7, <1>8 DEF Counted
<1>15. IsFiniteSet(Finished') /\ ToSet(ch') = ToSet(ch) /\ Finished' = Finished
  BY DEF BatchWritten, Counted
<1>16. failed' \subseteq Finished' /\ failed' \cap (ToSet(InHand') \cup ToSet(ch') \cup ToSet(file')) = {}
  BY <1>13, <1>14, <1>15
<1>. QED
  BY <1>9, <1>12, <1>15, <1>16, Zenon DEF Counted, ToSet

LEMMA WriterCounted ==
  ASSUME Once, Counted, Sized, Writer
  PROVE  Counted'
<1>1. Finished' = Finished
  BY DEF Writer, Receive, Tick, SeeStop, LastFlush, Flush, FlushEmpty, WriteFile,
         UpdateRing, WriteFails, submitVars, Finished
<1>2. dropped \in Nat /\ ret # "ring" /\ batch \in Seq(Records) /\ Len(batch) \in Nat
  BY LenProperties DEF Sized, TypeOK, Once
<1>3. ASSUME UNCHANGED <<ch, dropped, file, failed>>, InHand' = InHand PROVE Counted'
  BY <1>1, <1>3 DEF Counted, ToSet
<1>4. ASSUME NEW l \in {"select", "drain"}, Receive(l) PROVE Counted'
  <2>. DEFINE x == Head(ch)
             t == Tail(ch)
  <2>1. /\ wpc = l /\ wpc' # "ring" /\ ch # <<>> /\ batch' = Append(batch, x) /\ ch' = t
        /\ UNCHANGED <<dropped, file, failed>>
    BY <1>4 DEF Receive, storeVars
  <2>2. InHand = batch /\ InHand' = Append(batch, x)
    BY <2>1 DEF InHand
  <2>3. /\ x \in Records /\ t \in Seq(Records) /\ Len(t) = Len(ch) - 1 /\ Len(ch) \in Nat
        /\ ToSet(ch) = ToSet(t) \cup {x}
    BY <2>1, ToSetTail, TailOnce, LenProperties DEF Once
  <2>. HIDE DEF x, t
  <2>4. Len(Append(batch, x)) = Len(batch) + 1 /\ ToSet(Append(batch, x)) = ToSet(batch) \cup {x}
    BY <1>2, <2>3, AppendProperties, ToSetAppend
  <2>5. Len(InHand') = Len(InHand) + 1 /\ Len(ch') = Len(ch) - 1
        /\ ToSet(InHand') \cup ToSet(ch') = ToSet(InHand) \cup ToSet(ch)
    BY <2>1, <2>2, <2>3, <2>4
  <2>6. Len(InHand) \in Nat /\ Len(file) \in Nat /\ Cardinality(failed) \in Nat
    BY <1>2, <2>2, LenProperties, FS_CardinalityType DEF Once, Counted
  <2>7. Cardinality(Finished') = dropped' + Len(ch') + Len(InHand') + Len(file') + Cardinality(failed')
    BY <1>1, <1>2, <2>1, <2>3, <2>5, <2>6 DEF Counted
  <2>8. failed' \cap (ToSet(InHand') \cup ToSet(ch') \cup ToSet(file')) = {}
    <3>1. failed' = failed /\ ToSet(file') = ToSet(file)
      BY <2>1
    <3>. QED
      BY <2>5, <3>1 DEF Counted
  <2>. QED
    BY <1>1, <2>1, <2>7, <2>8 DEF Counted, ToSet
<1>5. CASE Tick \/ SeeStop \/ LastFlush
  <2>1. UNCHANGED <<ch, dropped, batch, file, failed>> /\ wpc # "ring" /\ wpc' # "ring"
    BY <1>5 DEF Tick, SeeStop, LastFlush, submitVars, storeVars
  <2>. QED
    BY <1>3, <2>1 DEF InHand
<1>6. CASE Flush
  <2>1. UNCHANGED <<pc, ch, dropped, ret>>
    BY <1>6, FlushCases
  <2>2. CASE /\ wpc = "write" /\ wpc' = ret /\ UNCHANGED <<batch, file, failed>>
    BY <1>2, <1>3, <2>1, <2>2 DEF InHand
  <2>3. CASE /\ wpc = "write" /\ wpc' = "ring" /\ file' = file \o batch /\ UNCHANGED <<batch, failed>>
    <3>1. Len(batch) \in 0..Len(batch) /\ SubSeq(batch, 1, Len(batch)) = batch
      BY <1>2, SubSeqFull
    <3>2. {batch[i] : i \in Len(batch)+1..Len(batch)} = {}
      BY <1>2
    <3>3. failed' = failed \cup {batch[i] : i \in Len(batch)+1..Len(batch)}
      BY <2>3, <3>2
    <3>4. file' = file \o SubSeq(batch, 1, Len(batch))
      BY <2>3, <3>1
    <3>5. InHand' = <<>>
      BY <2>3 DEF InHand
    <3>. QED
      BY <1>1, <1>2, <2>1, <2>3, <3>1, <3>3, <3>4, <3>5, WriteCounted DEF BatchWritten
  <2>4. CASE /\ wpc = "ring" /\ wpc' = ret /\ batch' = <<>> /\ UNCHANGED <<file, failed>>
    <3>1. InHand = <<>> /\ InHand' = <<>>
      BY <2>4 DEF InHand
    <3>. QED
      BY <1>3, <2>1, <2>4, <3>1
  <2>5. ASSUME NEW n \in 0..BatchSize-1, n < Len(batch), wpc = "write", wpc' = ret, batch' = <<>>,
               file' = file \o SubSeq(batch, 1, n),
               failed' = failed \cup {batch[i] : i \in n+1..Len(batch)}
        PROVE  Counted'
    <3>1. n \in 0..Len(batch)
      BY <1>2, <2>5, SizesPositive
    <3>2. InHand' = <<>>
      BY <2>5 DEF InHand
    <3>. QED
      BY <1>1, <1>2, <2>1, <2>5, <3>1, <3>2, WriteCounted DEF BatchWritten
  <2>. QED
    BY <1>6, <2>2, <2>3, <2>4, <2>5, FlushCases, Zenon
<1>. QED
  BY <1>4, <1>5, <1>6 DEF Writer

LEMMA CountedNext == Once /\ Sized /\ Counted /\ [Next]_vars => Counted'
<1>1. ASSUME Counted, Close \/ TimerFires \/ UNCHANGED vars PROVE Counted'
  <2>1. UNCHANGED <<pc, ch, dropped, batch, wpc, file, failed>>
    BY <1>1 DEF Close, CloseStop, CloseFile, TimerFires, vars, submitVars, writerVars, storeVars
  <2>2. Finished' = Finished /\ InHand' = InHand
    BY <2>1 DEF Finished, InHand
  <2>. QED
    BY <1>1, <2>1, <2>2 DEF Counted, ToSet
<1>2. Sized => dropped \in Nat
  BY DEF Sized, TypeOK
<1>. QED
  BY <1>1, <1>2, SubmitCounted, WriterCounted DEF Next

(***************************************************************************)
(* The ring.  The file is what the ring was made from, then the batch that *)
(* is written and not yet shown; a failed write leaves the ring behind,    *)
(* and never before the file.                                              *)
(***************************************************************************)
Tailing == IF wpc = "ring" THEN batch ELSE <<>>
ShownBy(f) ==
  /\ f \in Seq(Records) /\ file = f \o Tailing
  /\ Mirrors(ring, f)
  /\ failed = {} => ring = Suffix(f, RingCap)
RingInv == \E f : ShownBy(f)

LEMMA RingInit == Init => RingInv
<1>. SUFFICES ASSUME Init PROVE ShownBy(<<>>)
  BY DEF RingInv
<1>1. file = <<>> /\ ring = <<>> /\ Tailing = <<>>
  BY DEF Init, Tailing
<1>2. <<>> \in Seq(Records) /\ <<>> \o <<>> = <<>> /\ Len(<<>>) = 0
  BY EmptySeq, ConcatEmptySeq
<1>3. Mirrors(<<>>, <<>>)
  BY <1>2 DEF Mirrors
<1>4. Suffix(<<>>, RingCap) = <<>>
  BY <1>2, SizesPositive DEF Suffix
<1>. QED
  BY <1>1, <1>2, <1>3, <1>4 DEF ShownBy

\* Outside the writer's two writes nothing of this changes.
LEMMA RingFrame ==
  ASSUME RingInv, UNCHANGED <<file, ring, failed>>, Tailing' = Tailing
  PROVE  RingInv'
<1>1. PICK f : ShownBy(f)
  BY DEF RingInv
<1>2. ShownBy(f)'
  BY <1>1 DEF ShownBy
<1>. QED
  BY <1>2 DEF RingInv

LEMMA FlushRing ==
  ASSUME Once, Sized, RingInv, Flush
  PROVE  RingInv'
<1>1. PICK f : ShownBy(f)
  BY DEF RingInv
<1>2. /\ f \in Seq(Records) /\ file = f \o Tailing /\ Mirrors(ring, f)
      /\ failed = {} => ring = Suffix(f, RingCap)
  BY <1>1 DEF ShownBy
<1>3. /\ batch \in Seq(Records) /\ file \in Seq(Records) /\ ring \in Seq(Records) /\ ret # "ring"
      /\ RingCap \in Nat
  BY SizesPositive DEF Once, Sized, TypeOK
<1>4. \A s \in Seq(Records) : s \o <<>> = s
  BY ConcatEmptySeq
<1>5. CASE /\ wpc = "write" /\ wpc' = ret /\ UNCHANGED <<batch, file, ring, failed>>
  <2>1. Tailing' = Tailing
    BY <1>3, <1>5 DEF Tailing
  <2>. QED
    BY <1>5, <2>1, RingFrame
<1>6. CASE /\ wpc = "write" /\ wpc' = "ring" /\ file' = file \o batch /\ UNCHANGED <<batch, ring, failed>>
  <2>1. Tailing = <<>> /\ Tailing' = batch
    BY <1>6 DEF Tailing
  <2>2. file = f
    BY <1>2, <1>4, <2>1
  <2>3. file' = f \o Tailing'
    BY <1>6, <2>1, <2>2
  <2>4. ShownBy(f)'
    BY <1>2, <1>6, <2>3 DEF ShownBy
  <2>. QED
    BY <2>4 DEF RingInv
<1>7. CASE /\ wpc = "ring" /\ wpc' = ret /\ ring' = Suffix(ring \o batch, RingCap) /\ UNCHANGED <<file, failed>>
  <2>. DEFINE u == ring \o batch
             g == f \o batch
  <2>1. Tailing = batch /\ Tailing' = <<>>
    BY <1>3, <1>7 DEF Tailing
  <2>2. g \in Seq(Records) /\ file = g /\ u \in Seq(Records)
    BY <1>2, <1>3, <2>1, ConcatProperties
  <2>3. Mirrors(u, g)
    BY <1>2, <1>3, MirrorsJoin
  <2>4. ASSUME failed = {} PROVE Suffix(u, RingCap) = Suffix(g, RingCap)
    BY <1>2, <1>3, <2>4, SuffixJoin
  <2>5. ring' = Suffix(u, RingCap)
    BY <1>7
  <2>. HIDE DEF u, g
  <2>6. Mirrors(ring', g)
    <3>1. Mirrors(Suffix(u, RingCap), g)
      BY <1>3, <2>2, <2>3, MirrorsSuffix
    <3>. QED
      BY <2>5, <3>1
  <2>7. file' = g \o Tailing'
    BY <1>4, <1>7, <2>1, <2>2
  <2>8. failed' = {} => ring' = Suffix(g, RingCap)
    BY <1>7, <2>4, <2>5
  <2>9. PICK c : c = g
    OBVIOUS
  <2>10. ShownBy(c)'
    BY <2>2, <2>6, <2>7, <2>8, <2>9 DEF ShownBy
  <2>. QED
    BY <2>10 DEF RingInv
<1>8. ASSUME NEW n \in 0..BatchSize-1, n < Len(batch), wpc = "write", wpc' = ret,
             file' = file \o SubSeq(batch, 1, n),
             failed' = failed \cup {batch[i] : i \in n+1..Len(batch)}, ring' = ring
      PROVE  RingInv'
  <2>. DEFINE p == SubSeq(batch, 1, n)
             g == file \o p
  <2>1. Tailing = <<>> /\ Tailing' = <<>>
    BY <1>3, <1>8 DEF Tailing
  <2>2. file = f
    BY <1>2, <1>4, <2>1
  <2>3. n \in 0..Len(batch) /\ Len(batch) \in n+1..Len(batch)
    BY <1>3, <1>8, LenProperties, SizesPositive
  <2>4. p \in Seq(Records)
    BY <1>3, <2>3, PrefixMembers
  <2>5. failed' # {}
    BY <1>8, <2>3
  <2>6. file' = g
    BY <1>8
  <2>. HIDE DEF p
  <2>7. g \in Seq(Records) /\ Mirrors(ring, g)
    BY <1>2, <1>3, <2>2, <2>4, ConcatProperties, MirrorsLonger
  <2>. HIDE DEF g
  <2>8. file' = g \o Tailing'
    BY <1>4, <2>1, <2>6, <2>7
  <2>9. Mirrors(ring', g)
    BY <1>8, <2>7
  <2>10. PICK c : c = g
    OBVIOUS
  <2>11. ShownBy(c)'
    BY <2>5, <2>7, <2>8, <2>9, <2>10 DEF ShownBy
  <2>. QED
    BY <2>11 DEF RingInv
<1>. QED
  BY <1>5, <1>6, <1>7, <1>8, FlushCases, Zenon

LEMMA RingNext == Once /\ Sized /\ RingInv /\ [Next]_vars => RingInv'
<1>1. ASSUME RingInv, NEW r \in Records, Submit(r) PROVE RingInv'
  <2>1. UNCHANGED <<batch, wpc, file, ring, failed>>
    BY <1>1 DEF Submit, TrySend, DropOldest, Resend, writerVars, storeVars
  <2>2. Tailing' = Tailing
    BY <2>1 DEF Tailing
  <2>. QED
    BY <1>1, <2>1, <2>2, RingFrame
<1>2. ASSUME RingInv, Receive("select") \/ Receive("drain") \/ Tick \/ SeeStop \/ LastFlush PROVE RingInv'
  <2>1. UNCHANGED <<file, ring, failed>> /\ wpc # "ring" /\ wpc' # "ring"
    BY <1>2 DEF Receive, Tick, SeeStop, LastFlush, storeVars
  <2>2. Tailing' = Tailing
    BY <2>1 DEF Tailing
  <2>. QED
    BY <1>2, <2>1, <2>2, RingFrame
<1>3. ASSUME RingInv, Close \/ TimerFires \/ UNCHANGED vars PROVE RingInv'
  <2>1. UNCHANGED <<batch, wpc, file, ring, failed>>
    BY <1>3 DEF Close, CloseStop, CloseFile, TimerFires, vars, writerVars, storeVars
  <2>2. Tailing' = Tailing
    BY <2>1 DEF Tailing
  <2>. QED
    BY <1>3, <2>1, <2>2, RingFrame
<1>. QED
  BY <1>1, <1>2, <1>3, FlushRing DEF Next, Writer

\* The invariant says what the property says: what the ring was made from is the
\* file without the batch.
LEMMA RingIsRight == Once /\ RingInv => RingMirrorsFile
<1>. SUFFICES ASSUME Once, RingInv PROVE RingMirrorsFile
  OBVIOUS
<1>1. PICK f : ShownBy(f)
  BY DEF RingInv
<1>2. /\ f \in Seq(Records) /\ file = f \o Tailing /\ Mirrors(ring, f)
      /\ failed = {} => ring = Suffix(f, RingCap)
  BY <1>1 DEF ShownBy
<1>. DEFINE shown == IF wpc = "ring" THEN Len(file) - Len(batch) ELSE Len(file)
<1>3. Tailing \in Seq(Records) /\ batch \in Seq(Records)
  BY EmptySeq DEF Tailing, Once
<1>4. /\ Len(f) \in Nat /\ Len(file) \in Nat /\ Len(file) = Len(f) + Len(Tailing) /\ Len(Tailing) \in Nat
      /\ \A k \in 1..Len(f) : k \in 1..Len(file) /\ file[k] = f[k]
  BY <1>2, <1>3, JoinAt, LenProperties DEF Once
<1>5. shown = Len(f)
  BY <1>3, <1>4, LenProperties DEF Tailing
<1>6. SubSeq(file, 1, Len(f)) = f
  <2>. DEFINE n == Len(f)
             g == SubSeq(file, 1, n)
  <2>1. \A i \in 1..n : file[i] \in Records
    BY <1>2, <1>4, ElementOfSeq
  <2>2. g \in Seq(Records) /\ Len(g) = n /\ \A i \in 1..n : g[i] = file[i]
    BY <1>4, <2>1, SubSeqProperties
  <2>. HIDE DEF g
  <2>3. g = f
    BY <1>2, <1>4, <2>2, SeqEqual
  <2>. QED
    BY <2>3 DEF g
<1>7. failed = {} => ring = Suffix(SubSeq(file, 1, shown), RingCap)
  BY <1>2, <1>5, <1>6
<1>. HIDE DEF shown
<1>. DEFINE InFile(i) == {k \in 1..Len(file) : file[k] = ring[i]}
<1>8. ASSUME NEW i \in 1..Len(ring) PROVE InFile(i) # {}
  <2>1. PICK k \in 1..Len(f) : f[k] = ring[i]
    BY <1>2, Zenon DEF Mirrors
  <2>2. k \in InFile(i)
    BY <1>4, <2>1
  <2>. QED
    BY <2>2
<1>9. ASSUME NEW i \in 1..Len(ring), NEW j \in 1..Len(ring), i < j
      PROVE  \E k \in InFile(i), l \in InFile(j) : k < l
  <2>1. PICK k \in 1..Len(f), l \in 1..Len(f) : k < l /\ f[k] = ring[i] /\ f[l] = ring[j]
    BY <1>2, <1>9 DEF Mirrors
  <2>. QED
    BY <1>4, <2>1
<1>. HIDE DEF InFile
<1>10. \A i, j \in 1..Len(ring) : i < j => \E k \in InFile(i), l \in InFile(j) : k < l
  BY <1>9
<1>. QED
  BY <1>7, <1>8, <1>10 DEF RingMirrorsFile, InFile, shown

\* Whatever the selects of concurrent Submits, the batches, the failed writes and
\* the close do: every record offered is queued, on disk, counted as dropped or
\* in a write that failed, in one of these places and once; the channel, the
\* batch and the ring keep their sizes; and the ring shows the end of the file
\* (Recorder.Submit, Recorder.run, Store.AppendBatch).
THEOREM EveryRecordAccounted == Spec => []RecordsAccounted
<1>. DEFINE AccountInv == Once /\ Sized /\ Counted /\ RingInv
<1>1. Init => AccountInv
  BY OnceInit, SizedInit, CountedInit, RingInit
<1>2. AccountInv /\ [Next]_vars => AccountInv'
  BY OnceNext, SizedNext, CountedNext, RingNext
<1>3. AccountInv => RecordsAccounted
  <2>1. Once /\ Counted => Accounted
    BY DEF Once, Counted, Accounted, InHand
  <2>. QED
    BY <2>1, RingIsRight DEF Sized, RecordsAccounted
<1>. QED
  BY <1>1, <1>2, <1>3, PTL DEF Spec
=============================================================================

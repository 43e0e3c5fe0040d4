--------------------------- MODULE EventBusProofs ---------------------------
(***************************************************************************)
(* Proofs about EventBus, for every set of subscribers and names.          *)
(***************************************************************************)
EXTENDS EventBus, SequenceTheorems, TLAPS

Cell == Subs \cup {Nil}
HeapType == heap \in [Names -> Seq(Seq(Cell))] /\ list \in [Names -> Slice]

\* The array that append allocates is a sequence twice as long as the old one.
LEMMA CopiedType ==
  ASSUME NEW s \in Subs, NEW old \in Seq(Cell), NEW l \in Nat, l = Len(old)
  PROVE  /\ Copied(old, l, s) \in Seq(Cell)
         /\ Len(Copied(old, l, s)) = Grown(l)
         /\ Grown(l) \in Nat /\ Grown(l) >= l + 1
         /\ \A i \in 1..l : Copied(old, l, s)[i] = old[i]
         /\ Copied(old, l, s)[l + 1] = s
         /\ \A i \in 1..Grown(l) : i > l + 1 => Copied(old, l, s)[i] = Nil
<1>1. Grown(l) \in Nat /\ Grown(l) >= l + 1
  BY DEF Grown
<1>2. \A i \in 1..l : old[i] \in Cell
  BY ElementOfSeq
<1>3. Copied(old, l, s) \in [1..Grown(l) -> Cell]
  BY <1>1, <1>2 DEF Copied, Cell
<1>4. Copied(old, l, s) \in Seq(Cell)
  BY <1>1, <1>3, SeqDef
<1>5. Len(Copied(old, l, s)) = Grown(l)
  BY <1>1, <1>3, <1>4, LenProperties
<1>. QED
  BY <1>1, <1>4, <1>5 DEF Copied

\* Where the content of slot j of array a comes from, after append(h, s).
FromAppend(n, h, a, j) ==
  \/ a \in 1..Len(heap[n]) /\ heap'[n][a][j] = heap[n][a][j]
  \/ a = list'[n].arr /\ j = h.len + 1
  \/ a = list'[n].arr /\ a \notin 1..Len(heap[n]) /\ j \in 1..h.len
  \/ a = list'[n].arr /\ a \notin 1..Len(heap[n]) /\ heap'[n][a][j] = Nil

\* What SubscribeAppend does to the arrays and the list of its name.
LEMMA AppendEffect ==
  ASSUME HeapType, NEW n \in Names, NEW s \in Subs, NEW h \in Slice,
         Fits(n, h), AppendTo(n, h, s)
  PROVE  /\ HeapType'
         /\ \A m \in Names \ {n} : heap'[m] = heap[m] /\ list'[m] = list[m]
         /\ list'[n].len = h.len + 1
         /\ list'[n].arr \in 1..Len(heap'[n])
         /\ list'[n].len <= Len(heap'[n][list'[n].arr])
         /\ heap'[n][list'[n].arr][h.len + 1] = s
         /\ \A j \in 1..h.len : heap'[n][list'[n].arr][j] = heap[n][h.arr][j]
         /\ Len(heap'[n]) >= Len(heap[n])
         /\ \A a \in 1..Len(heap[n]) : Len(heap'[n][a]) = Len(heap[n][a])
         /\ \A a \in 1..Len(heap'[n]) : \A j \in 1..Len(heap'[n][a]) : FromAppend(n, h, a, j)
         /\ \A a \in 1..Len(heap'[n]) : a \in 1..Len(heap[n]) \/ a = list'[n].arr
<1>. USE DEF HeapType
<1>0. heap[n] \in Seq(Seq(Cell)) /\ Len(heap[n]) \in Nat
  BY LenProperties
<1>1. CASE h.len < Len(Array(n, h.arr))
  <2>1. h.arr \in 1..Len(heap[n]) /\ Array(n, h.arr) = heap[n][h.arr]
    BY <1>0, <1>1, EmptySeq DEF Fits, Array, Slice
  <2>2. heap[n][h.arr] \in Seq(Cell)
    BY <1>0, <2>1, ElementOfSeq
  <2>. DEFINE new == [heap[n][h.arr] EXCEPT ![h.len + 1] = s]
  <2>3. h.len + 1 \in 1..Len(heap[n][h.arr])
    BY <1>1, <2>1, <2>2, LenProperties DEF Slice
  <2>4. /\ new \in Seq(Cell) /\ Len(new) = Len(heap[n][h.arr])
        /\ \A j \in 1..Len(heap[n][h.arr]) :
             new[j] = IF j = h.len + 1 THEN s ELSE heap[n][h.arr][j]
    BY <2>2, <2>3, ExceptSeq DEF Cell
  <2>5. /\ heap' = [heap EXCEPT ![n] = [heap[n] EXCEPT ![h.arr] = new]]
        /\ list' = [list EXCEPT ![n] = [arr |-> h.arr, len |-> h.len + 1]]
    BY <1>1 DEF AppendTo
  <2>. HIDE DEF new
  <2>6. /\ [heap[n] EXCEPT ![h.arr] = new] \in Seq(Seq(Cell))
        /\ Len([heap[n] EXCEPT ![h.arr] = new]) = Len(heap[n])
        /\ \A a \in 1..Len(heap[n]) :
             [heap[n] EXCEPT ![h.arr] = new][a] = IF a = h.arr THEN new ELSE heap[n][a]
    BY <1>0, <2>1, <2>4, ExceptSeq
  <2>7. heap'[n] = [heap[n] EXCEPT ![h.arr] = new]
    BY <2>5
  <2>8. HeapType'
    <3>1. heap' \in [Names -> Seq(Seq(Cell))]
      BY <2>5, <2>6
    <3>2. [arr |-> h.arr, len |-> h.len + 1] \in Slice
      BY <1>0, <2>1 DEF Slice
    <3>3. list' \in [Names -> Slice]
      BY <2>5, <3>2
    <3>. QED
      BY <3>1, <3>3
  <2>9. /\ list'[n].arr = h.arr /\ list'[n].len = h.len + 1
        /\ \A m \in Names \ {n} : heap'[m] = heap[m] /\ list'[m] = list[m]
    BY <2>5
  <2>10. /\ Len(heap'[n]) = Len(heap[n])
         /\ \A a \in 1..Len(heap[n]) : heap'[n][a] = IF a = h.arr THEN new ELSE heap[n][a]
    BY <2>6, <2>7
  <2>11. \A a \in 1..Len(heap[n]) : Len(heap'[n][a]) = Len(heap[n][a])
    BY <2>4, <2>10
  <2>12. \A j \in 1..h.len : j \in 1..Len(heap[n][h.arr]) /\ j # h.len + 1
    BY <1>1, <2>1, <2>2, LenProperties DEF Slice
  <2>13. \A j \in 1..h.len : heap'[n][h.arr][j] = heap[n][h.arr][j]
    BY <2>1, <2>4, <2>10, <2>12
  <2>14. heap'[n][h.arr][h.len + 1] = s
    BY <2>1, <2>3, <2>4, <2>10
  <2>15. \A a \in 1..Len(heap'[n]) : \A j \in 1..Len(heap'[n][a]) : FromAppend(n, h, a, j)
    BY <2>4, <2>9, <2>10 DEF FromAppend
  <2>16. /\ list'[n].arr \in 1..Len(heap'[n])
         /\ list'[n].len <= Len(heap'[n][list'[n].arr])
         /\ Len(heap'[n]) >= Len(heap[n])
    BY <1>0, <2>1, <2>2, <2>3, <2>4, <2>9, <2>10, LenProperties DEF Slice
  <2>. QED
    BY <2>8, <2>9, <2>10, <2>11, <2>13, <2>14, <2>15, <2>16
<1>2. CASE h.len = Len(Array(n, h.arr))
  <2>1. Array(n, h.arr) \in Seq(Cell) /\ h.len \in Nat
    BY <1>0, ElementOfSeq, EmptySeq DEF Fits, Array, Slice
  <2>. DEFINE new == Copied(Array(n, h.arr), h.len, s)
  <2>2. /\ new \in Seq(Cell) /\ Len(new) >= h.len + 1 /\ Len(new) \in Nat
        /\ \A i \in 1..h.len : new[i] = Array(n, h.arr)[i]
        /\ new[h.len + 1] = s
        /\ \A i \in 1..Len(new) : i > h.len + 1 => new[i] = Nil
    <3>. DEFINE old == Array(n, h.arr)
    <3>0. old \in Seq(Cell) /\ h.len \in Nat /\ h.len = Len(old)
      BY <1>2, <2>1
    <3>. HIDE DEF old
    <3>1. /\ Copied(old, h.len, s) \in Seq(Cell)
          /\ Len(Copied(old, h.len, s)) = Grown(h.len)
          /\ Grown(h.len) \in Nat /\ Grown(h.len) >= h.len + 1
          /\ \A i \in 1..h.len : Copied(old, h.len, s)[i] = old[i]
          /\ Copied(old, h.len, s)[h.len + 1] = s
          /\ \A i \in 1..Grown(h.len) : i > h.len + 1 => Copied(old, h.len, s)[i] = Nil
      BY <3>0, CopiedType, Zenon
    <3>. QED
      BY <3>1 DEF old
  <2>3. /\ heap' = [heap EXCEPT ![n] = Append(heap[n], new)]
        /\ list' = [list EXCEPT ![n] = [arr |-> Len(heap[n]) + 1, len |-> h.len + 1]]
    BY <1>2 DEF AppendTo
  <2>. HIDE DEF new
  <2>4. /\ Append(heap[n], new) \in Seq(Seq(Cell))
        /\ Len(Append(heap[n], new)) = Len(heap[n]) + 1
        /\ \A i \in 1..Len(heap[n]) : Append(heap[n], new)[i] = heap[n][i]
        /\ Append(heap[n], new)[Len(heap[n]) + 1] = new
    BY <1>0, <2>2, AppendProperties
  <2>5. heap'[n] = Append(heap[n], new)
    BY <2>3
  <2>6. HeapType'
    <3>1. heap' \in [Names -> Seq(Seq(Cell))]
      BY <2>3, <2>4
    <3>2. [arr |-> Len(heap[n]) + 1, len |-> h.len + 1] \in Slice
      BY <1>0 DEF Slice
    <3>3. list' \in [Names -> Slice]
      BY <2>3, <3>2
    <3>. QED
      BY <3>1, <3>3
  <2>7. \A j \in 1..h.len : new[j] = heap[n][h.arr][j]
    BY <1>2, <2>2, EmptySeq DEF Array, Slice
  <2>8. /\ list'[n].arr = Len(heap[n]) + 1 /\ list'[n].len = h.len + 1
        /\ \A m \in Names \ {n} : heap'[m] = heap[m] /\ list'[m] = list[m]
    BY <2>3
  <2>9. /\ Len(heap'[n]) = Len(heap[n]) + 1 /\ heap'[n][Len(heap[n]) + 1] = new
        /\ \A a \in 1..Len(heap[n]) : heap'[n][a] = heap[n][a]
    BY <2>4, <2>5
  <2>10. \A a \in 1..Len(heap'[n]) : a \in 1..Len(heap[n]) \/ a = Len(heap[n]) + 1
    BY <1>0, <2>9
  <2>11. \A j \in 1..Len(new) : j \in 1..h.len \/ j = h.len + 1 \/ j > h.len + 1
    BY <2>1, <2>2
  <2>12. \A a \in 1..Len(heap'[n]) : \A j \in 1..Len(heap'[n][a]) : FromAppend(n, h, a, j)
    <3>1. SUFFICES ASSUME NEW a \in 1..Len(heap'[n]), NEW j \in 1..Len(heap'[n][a]),
                          a = Len(heap[n]) + 1
                   PROVE  j = h.len + 1 \/ j \in 1..h.len \/ heap'[n][a][j] = Nil
      BY <1>0, <2>8, <2>9, <2>10 DEF FromAppend
    <3>. QED
      BY <2>2, <2>9, <2>11, <3>1
  <2>13. /\ list'[n].arr \in 1..Len(heap'[n])
         /\ list'[n].len <= Len(heap'[n][list'[n].arr])
         /\ Len(heap'[n]) >= Len(heap[n])
    BY <1>0, <2>2, <2>8, <2>9
  <2>. QED
    BY <2>2, <2>6, <2>7, <2>8, <2>9, <2>10, <2>12, <2>13
<1>. QED
  BY <1>1, <1>2 DEF AppendTo

\* In particular it keeps what was listed.
LEMMA AppendKeeps ==
  ASSUME HeapType, NEW n \in Names, NEW s \in Subs, NEW h \in Slice,
         Fits(n, h), AppendTo(n, h, s)
  PROVE  \A j \in 1..h.len : heap'[n][list'[n].arr][j] = heap[n][h.arr][j]
BY AppendEffect, SMT

\* What a removal does: the array is shifted in place, the header shrinks.
LEMMA RemoveEffect ==
  ASSUME HeapType, NEW n \in Names, NEW i \in 1..list[n].len,
         Fits(n, list[n]), RemoveAt(n, i)
  PROVE  /\ HeapType'
         /\ \A m \in Names \ {n} : heap'[m] = heap[m] /\ list'[m] = list[m]
         /\ list'[n].len = list[n].len - 1 /\ list'[n].arr = list[n].arr
         /\ list[n].arr \in 1..Len(heap[n])
         /\ Len(heap'[n]) = Len(heap[n])
         /\ \A a \in 1..Len(heap[n]) : Len(heap'[n][a]) = Len(heap[n][a])
         /\ \A a \in 1..Len(heap[n]) : a # list[n].arr => heap'[n][a] = heap[n][a]
         /\ \A j \in 1..Len(heap[n][list[n].arr]) :
              heap'[n][list[n].arr][j] =
                IF i <= j /\ j < list[n].len THEN heap[n][list[n].arr][j + 1]
                                             ELSE heap[n][list[n].arr][j]
<1>. USE DEF HeapType
<1>. DEFINE h == list[n]
            old == heap[n][h.arr]
            new == [j \in DOMAIN old |-> IF i <= j /\ j < h.len THEN old[j + 1] ELSE old[j]]
<1>0. /\ heap[n] \in Seq(Seq(Cell)) /\ Len(heap[n]) \in Nat
      /\ h \in Slice /\ h.len \in Nat /\ h.len >= 1
  BY LenProperties DEF Slice
<1>1. h.arr \in 1..Len(heap[n]) /\ h.len <= Len(old)
  BY <1>0, EmptySeq DEF Fits, Array, Slice
<1>2. old \in Seq(Cell) /\ Len(old) \in Nat /\ DOMAIN old = 1..Len(old)
  BY <1>0, <1>1, ElementOfSeq, LenProperties
<1>3. \A j \in 1..Len(old) : old[j] \in Cell
  BY <1>2, ElementOfSeq
<1>4. new \in [1..Len(old) -> Cell]
  BY <1>0, <1>1, <1>2, <1>3
<1>5. new \in Seq(Cell) /\ Len(new) = Len(old)
  BY <1>2, <1>4, SeqDef, LenProperties
<1>6. /\ heap' = [heap EXCEPT ![n] = [heap[n] EXCEPT ![h.arr] = new]]
      /\ list' = [list EXCEPT ![n] = [arr |-> h.arr, len |-> h.len - 1]]
  BY DEF RemoveAt
<1>7. \A j \in 1..Len(old) :
        new[j] = IF i <= j /\ j < h.len THEN old[j + 1] ELSE old[j]
  BY <1>2
<1>. HIDE DEF new
<1>8. /\ [heap[n] EXCEPT ![h.arr] = new] \in Seq(Seq(Cell))
      /\ Len([heap[n] EXCEPT ![h.arr] = new]) = Len(heap[n])
      /\ \A a \in 1..Len(heap[n]) :
           [heap[n] EXCEPT ![h.arr] = new][a] = IF a = h.arr THEN new ELSE heap[n][a]
  BY <1>0, <1>1, <1>5, ExceptSeq
<1>9. heap'[n] = [heap[n] EXCEPT ![h.arr] = new]
  BY <1>6
<1>10. HeapType'
  <2>1. heap' \in [Names -> Seq(Seq(Cell))]
    BY <1>6, <1>8
  <2>2. [arr |-> h.arr, len |-> h.len - 1] \in Slice
    BY <1>0, <1>1 DEF Slice
  <2>3. list' \in [Names -> Slice]
    BY <1>6, <2>2
  <2>. QED
    BY <2>1, <2>3 DEF Cell, Slice
<1>. QED
  BY <1>0, <1>1, <1>5, <1>6, <1>7, <1>8, <1>9, <1>10 DEF Slice

-----------------------------------------------------------------------------
(***************************************************************************)
(* Type correctness, whether or not Subscribe takes the mutex.             *)
(***************************************************************************)
TypeInv == TypeOK /\ SlicesFit

LEMMA TypeInvInit == Init => TypeInv
<1>. SUFFICES ASSUME Init PROVE TypeInv
  OBVIOUS
<1>1. \A n \in Names : heap[n] = <<>> /\ list[n] = NilSlice
  BY DEF Init
<1>2. SlicesFit
  BY <1>1, EmptySeq DEF Init, SlicesFit, Fits, Array, NilSlice, NewConn, DispAt, Looping
<1>3. TypeOK
  BY EmptySeq, BoundAssumption DEF Init, TypeOK, NilSlice, NewConn, DispAt, Slice, Item,
     Heartbeat, ConnPC, DispPC, Faults, ChanCap
<1>. QED
  BY <1>2, <1>3 DEF TypeInv

\* The program counter and locals of a handler.
ConnRec == [pc : ConnPC, names : SUBSET Names, todo : SUBSET Names, at : Names \cup {Nil},
            hdr : Slice, i : Nat, cur : Subs \cup {Nil}, got : Item, seen : Nat]

\* What SlicesFit says of one handler, for the arrays of a given state.
ConnFits(s) ==
  /\ conn[s].pc \in Looping \cup {"appending"} =>
       conn[s].at \in Names /\ Fits(conn[s].at, conn[s].hdr)
  /\ conn[s].pc \in Looping => conn[s].i \in 1..conn[s].hdr.len

DispFits ==
  disp.pc \in {"fan", "send"} =>
    disp.name \in Names /\ Fits(disp.name, disp.hdr) /\ disp.i >= 1

\* A handler's step that leaves arrays, lists and dispatcher alone keeps the
\* invariant if it keeps its own locals well typed and its own header fitting.
LEMMA TypeInvConn ==
  ASSUME TypeInv, NEW s \in Subs, UNCHANGED <<heap, list, disp, published, fault>>,
         conn' \in [Subs -> ConnRec], \A t \in Subs \ {s} : conn'[t] = conn[t],
         ConnFits(s)', mutex' \in Subs \cup {Nil}, closed' \subseteq Subs,
         buf' \in [Subs -> Seq(Item)], \A t \in Subs : Len(buf'[t]) <= ChanCap
  PROVE  TypeInv'
<1>1. TypeOK'
  BY DEF TypeInv, TypeOK, ConnRec, Slice, Item, ConnPC, DispPC, Faults, ChanCap
<1>2. \A t \in Subs \ {s} : ConnFits(t)'
  BY DEF TypeInv, SlicesFit, ConnFits, Fits, Array
<1>3. \A t \in Subs : ConnFits(t)'
  BY <1>2
<1>4. /\ \A n \in Names : Fits(n, list[n])' /\ \A a \in 1..Len(heap'[n]) : Len(heap'[n][a]) >= 1
      /\ DispFits'
  BY DEF TypeInv, SlicesFit, DispFits, Fits, Array
<1>5. SlicesFit'
  BY <1>3, <1>4 DEF SlicesFit, ConnFits, DispFits
<1>. QED
  BY <1>1, <1>5 DEF TypeInv

\* An item read through a fitting header is a subscriber or an empty cell.
LEMMA ElemType ==
  ASSUME HeapType, NEW n \in Names, NEW h \in Slice, Fits(n, h), NEW i \in 1..h.len
  PROVE  Elem(n, h, i) \in Subs \cup {Nil}
<1>1. heap[n] \in Seq(Seq(Cell)) /\ h.len >= 1 /\ h.len \in Nat
  BY DEF HeapType, Slice
<1>2. h.arr \in 1..Len(heap[n]) /\ i \in 1..Len(heap[n][h.arr])
  <2>1. h.arr # 0
    BY <1>1, EmptySeq DEF Fits, Array
  <2>. QED
    BY <1>1, <2>1, LenProperties, ElementOfSeq DEF Fits, Array, Slice
<1>3. heap[n][h.arr] \in Seq(Cell)
  BY <1>1, <1>2, ElementOfSeq
<1>. QED
  BY <1>2, <1>3, ElementOfSeq DEF Elem, Cell

LEMMA ReturnType ==
  ASSUME conn \in [Subs -> ConnRec], NEW s \in Subs, UnsubscribeReturn(s)
  PROVE  conn' \in [Subs -> ConnRec] /\ conn'[s].pc = "leaving"
<1>1. conn[s].todo \ {conn[s].at} \in SUBSET Names
  BY DEF ConnRec
<1>2. NilSlice \in Slice /\ 0 \in Nat
  BY DEF NilSlice, Slice
<1>3. conn' = [conn EXCEPT ![s].pc = "leaving", ![s].todo = conn[s].todo \ {conn[s].at},
               ![s].at = Nil, ![s].hdr = NilSlice, ![s].i = 0, ![s].cur = Nil]
  BY DEF UnsubscribeReturn
<1>. DEFINE left == conn[s].todo \ {conn[s].at}
<1>. HIDE DEF left
<1>4. conn' = [conn EXCEPT ![s].pc = "leaving", ![s].todo = left,
               ![s].at = Nil, ![s].hdr = NilSlice, ![s].i = 0, ![s].cur = Nil]
  BY <1>3 DEF left
<1>5. left \in SUBSET Names
  BY <1>1 DEF left
<1>6. conn[s] \in ConnRec /\ \A t \in Subs : conn'[t] =
        IF t = s THEN [conn[s] EXCEPT !.pc = "leaving", !.todo = left, !.at = Nil,
                                      !.hdr = NilSlice, !.i = 0, !.cur = Nil]
                 ELSE conn[t]
  BY <1>4
<1>7. [conn[s] EXCEPT !.pc = "leaving", !.todo = left, !.at = Nil,
                      !.hdr = NilSlice, !.i = 0, !.cur = Nil] \in ConnRec
  BY <1>2, <1>5, <1>6 DEF ConnRec, ConnPC
<1>8. conn'[s].pc = "leaving"
  BY <1>6 DEF ConnRec
<1>9. conn' \in [Subs -> ConnRec]
  BY <1>4, <1>6, <1>7
<1>. QED
  BY <1>8, <1>9

LEMMA TypeInvHandler ==
  ASSUME TypeInv, NEW s \in Subs,
         \/ \E ns \in (SUBSET Names) \ {{}} : SubscribeBegin(s, ns)
         \/ \E n \in Names : SubscribeLoad(s, n)
         \/ Receive(s) \/ WriteOK(s) \/ WriteFails(s)
         \/ \E n \in Names : UnsubscribeRange(s, n)
         \/ UnsubscribeRead(s) \/ UnsubscribeLock(s) \/ UnsubscribeOther(s) \/ CloseChannel(s)
  PROVE  TypeInv'
<1>. USE DEF Looping
<1>0. /\ HeapType /\ conn \in [Subs -> ConnRec] /\ conn[s] \in ConnRec
      /\ mutex \in Subs \cup {Nil} /\ closed \subseteq Subs
      /\ buf \in [Subs -> Seq(Item)] /\ \A t \in Subs : Len(buf[t]) <= ChanCap
      /\ ConnFits(s) /\ \A n \in Names : Fits(n, list[n])
      /\ \A n \in Names : list[n] \in Slice
  BY DEF TypeInv, TypeOK, SlicesFit, ConnFits, ConnRec, HeapType, Cell
<1>1. ASSUME NEW ns \in (SUBSET Names) \ {{}}, SubscribeBegin(s, ns) PROVE TypeInv'
  <2>1. conn' \in [Subs -> ConnRec] /\ conn'[s].pc = "subscribing"
    BY <1>0, <1>1 DEF SubscribeBegin, ConnRec, ConnPC
  <2>. QED
    BY <1>0, <1>1, <2>1, TypeInvConn DEF SubscribeBegin, ConnFits
<1>2. ASSUME NEW n \in Names, SubscribeLoad(s, n) PROVE TypeInv'
  <2>1. /\ conn' \in [Subs -> ConnRec]
        /\ conn'[s].pc = "appending" /\ conn'[s].at = n /\ conn'[s].hdr = list[n]
    BY <1>0, <1>2 DEF SubscribeLoad, ConnRec, ConnPC
  <2>2. ConnFits(s)'
    BY <1>0, <1>2, <2>1 DEF SubscribeLoad, ConnFits, Fits, Array
  <2>. QED
    BY <1>0, <1>2, <2>1, <2>2, TypeInvConn DEF SubscribeLoad
<1>3. CASE Receive(s)
  <2>1. Head(buf[s]) \in Item /\ Tail(buf[s]) \in Seq(Item) /\ Len(Tail(buf[s])) <= ChanCap
    BY <1>0, <1>3, HeadTailProperties, LenProperties DEF Receive, ChanCap
  <2>2. conn' \in [Subs -> ConnRec] /\ conn'[s].pc = "writing"
    BY <1>0, <1>3, <2>1 DEF Receive, ConnRec, ConnPC
  <2>3. buf' \in [Subs -> Seq(Item)] /\ \A t \in Subs : Len(buf'[t]) <= ChanCap
    BY <1>0, <1>3, <2>1 DEF Receive
  <2>. QED
    BY <1>0, <1>3, <2>2, <2>3, TypeInvConn DEF Receive, ConnFits
<1>4. CASE WriteOK(s)
  <2>1. conn' \in [Subs -> ConnRec] /\ conn'[s].pc = "live"
    BY <1>0, <1>4 DEF WriteOK, ConnRec, ConnPC, Item, Heartbeat
  <2>. QED
    BY <1>0, <1>4, <2>1, TypeInvConn DEF WriteOK, ConnFits
<1>5. CASE WriteFails(s)
  <2>1. conn' \in [Subs -> ConnRec] /\ conn'[s].pc = "leaving"
    BY <1>0, <1>5 DEF WriteFails, ConnRec, ConnPC, Item, Heartbeat
  <2>. QED
    BY <1>0, <1>5, <2>1, TypeInvConn DEF WriteFails, ConnFits
<1>6. ASSUME NEW n \in Names, UnsubscribeRange(s, n) PROVE TypeInv'
  <2>1. CASE list[n].len = 0
    <3>1. conn' \in [Subs -> ConnRec] /\ conn'[s].pc = "leaving"
      BY <1>0, <1>6, <2>1 DEF UnsubscribeRange, ConnRec, ConnPC
    <3>. QED
      BY <1>0, <1>6, <2>1, <3>1, TypeInvConn DEF UnsubscribeRange, ConnFits
  <2>2. CASE list[n].len # 0
    <3>1. /\ conn' \in [Subs -> ConnRec]
          /\ conn'[s].pc = "reading" /\ conn'[s].at = n /\ conn'[s].hdr = list[n]
          /\ conn'[s].i = 1
      BY <1>0, <1>6, <2>2 DEF UnsubscribeRange, ConnRec, ConnPC
    <3>2. Fits(n, list[n]) /\ 1 \in 1..list[n].len
      BY <1>0, <2>2 DEF Slice
    <3>3. ConnFits(s)'
      BY <1>6, <3>1, <3>2 DEF UnsubscribeRange, ConnFits, Fits, Array
    <3>. QED
      BY <1>0, <1>6, <2>2, <3>1, <3>3, TypeInvConn DEF UnsubscribeRange
  <2>. QED
    BY <2>1, <2>2
<1>7. CASE UnsubscribeRead(s)
  <2>1. Elem(conn[s].at, conn[s].hdr, conn[s].i) \in Subs \cup {Nil}
    BY <1>0, <1>7, ElemType DEF UnsubscribeRead, ConnFits, ConnRec
  <2>2. /\ conn' \in [Subs -> ConnRec]
        /\ conn'[s].pc = "locking" /\ conn'[s].at = conn[s].at
        /\ conn'[s].hdr = conn[s].hdr /\ conn'[s].i = conn[s].i
    BY <1>0, <1>7, <2>1 DEF UnsubscribeRead, ConnRec, ConnPC
  <2>3. ConnFits(s)'
    BY <1>0, <1>7, <2>2 DEF UnsubscribeRead, ConnFits, Fits, Array
  <2>. QED
    BY <1>0, <1>7, <2>2, <2>3, TypeInvConn DEF UnsubscribeRead
<1>8. CASE UnsubscribeLock(s)
  <2>1. /\ conn' \in [Subs -> ConnRec]
        /\ conn'[s].pc = "holding" /\ conn'[s].at = conn[s].at
        /\ conn'[s].hdr = conn[s].hdr /\ conn'[s].i = conn[s].i
    BY <1>0, <1>8 DEF UnsubscribeLock, ConnRec, ConnPC
  <2>2. ConnFits(s)'
    BY <1>0, <1>8, <2>1 DEF UnsubscribeLock, ConnFits, Fits, Array
  <2>. QED
    BY <1>0, <1>8, <2>1, <2>2, TypeInvConn DEF UnsubscribeLock
<1>9. CASE UnsubscribeOther(s)
  <2>1. CASE conn[s].i < conn[s].hdr.len
    <3>1. /\ conn' \in [Subs -> ConnRec]
          /\ conn'[s].pc = "reading" /\ conn'[s].at = conn[s].at
          /\ conn'[s].hdr = conn[s].hdr /\ conn'[s].i = conn[s].i + 1
      <4>1. conn' = [conn EXCEPT ![s].pc = "reading", ![s].i = conn[s].i + 1]
        BY <1>9, <2>1 DEF UnsubscribeOther
      <4>2. conn[s].i + 1 \in Nat
        BY <1>0 DEF ConnRec
      <4>. QED
        BY <1>0, <4>1, <4>2 DEF ConnRec, ConnPC
    <3>2. ConnFits(s)'
      BY <1>0, <1>9, <2>1, <3>1 DEF UnsubscribeOther, ConnFits, Fits, Array, ConnRec, Slice
    <3>. QED
      BY <1>0, <1>9, <2>1, <3>1, <3>2, TypeInvConn DEF UnsubscribeOther
  <2>2. CASE ~(conn[s].i < conn[s].hdr.len)
    <3>1. conn' \in [Subs -> ConnRec] /\ conn'[s].pc = "leaving"
      BY <1>0, <1>9, <2>2, ReturnType DEF UnsubscribeOther
    <3>. QED
      BY <1>0, <1>9, <2>2, <3>1, TypeInvConn DEF UnsubscribeOther, UnsubscribeReturn, ConnFits
  <2>. QED
    BY <2>1, <2>2
<1>10. CASE CloseChannel(s)
  <2>1. conn' \in [Subs -> ConnRec] /\ conn'[s].pc = "gone" /\ closed' \subseteq Subs
    BY <1>0, <1>10 DEF CloseChannel, ConnRec, ConnPC
  <2>. QED
    BY <1>0, <1>10, <2>1, TypeInvConn DEF CloseChannel, ConnFits
<1>. QED
  BY <1>1, <1>2, <1>3, <1>4, <1>5, <1>6, <1>7, <1>8, <1>9, <1>10

\* A step of the dispatcher (or of a publisher) keeps the invariant if it
\* keeps the dispatcher's own locals well typed and its header fitting.
DispRec == [pc : DispPC, ev : Item, name : Names \cup {Nil}, hdr : Slice,
            i : Nat, c : Subs \cup {Nil}, rest : SUBSET Names]

LEMMA TypeInvDisp ==
  ASSUME TypeInv, UNCHANGED <<heap, list, mutex, conn, closed>>,
         disp' \in DispRec, published' \in 0..MaxEvents, fault' \in Faults,
         DispFits',
         buf' \in [Subs -> Seq(Item)], \A t \in Subs : Len(buf'[t]) <= ChanCap
  PROVE  TypeInv'
<1>1. TypeOK'
  BY DEF TypeInv, TypeOK, DispRec, Slice, Item, ConnPC, DispPC, Faults, ChanCap
<1>2. /\ \A n \in Names : Fits(n, list[n])' /\ \A a \in 1..Len(heap'[n]) : Len(heap'[n][a]) >= 1
      /\ \A s \in Subs : ConnFits(s)'
  BY DEF TypeInv, SlicesFit, ConnFits, Fits, Array
<1>3. SlicesFit'
  BY <1>2 DEF SlicesFit, ConnFits, DispFits
<1>. QED
  BY <1>1, <1>3 DEF TypeInv

LEMMA DispAtType ==
  ASSUME NEW pc \in DispPC, NEW rest \in SUBSET Names
  PROVE  DispAt(pc, rest) \in DispRec /\ DispAt(pc, rest).pc = pc
BY DEF DispAt, DispRec, Item, Heartbeat, NilSlice, Slice

LEMMA TypeInvDispatcher ==
  ASSUME TypeInv,
         \/ \E n \in Names : PublishTaken(n) \/ BeatName(n)
         \/ PublishDropped \/ Tick \/ BeatEnd \/ FanRead \/ FanEnd
         \/ Send \/ SendPanics \/ MapRace
  PROVE  TypeInv'
<1>0. /\ HeapType /\ disp \in DispRec /\ \A n \in Names : list[n] \in Slice /\ Fits(n, list[n])
      /\ published \in 0..MaxEvents /\ fault \in Faults
      /\ buf \in [Subs -> Seq(Item)] /\ \A t \in Subs : Len(buf[t]) <= ChanCap
      /\ DispFits
  BY DEF TypeInv, TypeOK, SlicesFit, DispFits, DispRec, HeapType, Cell
<1>1. ASSUME NEW n \in Names, PublishTaken(n) PROVE TypeInv'
  <2>0. published < MaxEvents /\ published' = published + 1
    BY <1>1 DEF PublishTaken
  <2>1. published' \in 0..MaxEvents /\ published + 1 \in Nat
    BY <1>0, <2>0, BoundAssumption
  <2>2. Event(published + 1, n) \in Item
    BY <2>1 DEF Event, Item
  <2>3. disp' = [disp EXCEPT !.pc = "fan", !.ev = Event(published + 1, n),
                             !.name = n, !.hdr = list[n], !.i = 1]
    BY <1>1 DEF PublishTaken
  <2>4. /\ disp' \in DispRec
        /\ disp'.pc = "fan" /\ disp'.name = n /\ disp'.hdr = list[n] /\ disp'.i = 1
    BY <1>0, <2>2, <2>3 DEF DispRec, DispPC
  <2>5. DispFits'
    <3>1. heap' = heap /\ Fits(n, list[n])
      BY <1>0, <1>1 DEF PublishTaken
    <3>2. Fits(disp.name, disp.hdr)'
      BY <2>4, <3>1 DEF Fits, Array
    <3>. QED
      BY <2>4, <3>2 DEF DispFits
  <2>6. UNCHANGED <<heap, list, mutex, conn, closed, buf, fault>>
    BY <1>1 DEF PublishTaken
  <2>. QED
    BY <1>0, <2>1, <2>4, <2>5, <2>6, TypeInvDisp
<1>2. ASSUME NEW n \in Names, BeatName(n) PROVE TypeInv'
  <2>0. disp.rest \ {n} \in SUBSET Names
    BY <1>0 DEF DispRec
  <2>1. disp' = [disp EXCEPT !.pc = "fan", !.name = n, !.hdr = list[n], !.i = 1,
                             !.rest = disp.rest \ {n}]
    BY <1>2 DEF BeatName
  <2>2. /\ disp' \in DispRec
        /\ disp'.pc = "fan" /\ disp'.name = n /\ disp'.hdr = list[n] /\ disp'.i = 1
    BY <1>0, <2>0, <2>1 DEF DispRec, DispPC
  <2>3. DispFits'
    <3>1. heap' = heap /\ Fits(n, list[n])
      BY <1>0, <1>2 DEF BeatName
    <3>2. Fits(disp.name, disp.hdr)'
      BY <2>2, <3>1 DEF Fits, Array
    <3>. QED
      BY <2>2, <3>2 DEF DispFits
  <2>. QED
    BY <1>0, <1>2, <2>2, <2>3, TypeInvDisp DEF BeatName
<1>3. CASE PublishDropped
  <2>1. published' \in 0..MaxEvents
    BY <1>0, <1>3, BoundAssumption DEF PublishDropped
  <2>2. DispFits'
    BY <1>0, <1>3 DEF PublishDropped, DispFits, Fits, Array
  <2>. QED
    BY <1>0, <1>3, <2>1, <2>2, TypeInvDisp DEF PublishDropped
<1>4. CASE Tick
  <2>1. disp' \in DispRec /\ disp'.pc = "beat"
    BY <1>4, DispAtType DEF Tick, DispPC
  <2>. QED
    BY <1>0, <1>4, <2>1, TypeInvDisp DEF Tick, DispFits
<1>5. CASE BeatEnd
  <2>1. disp' \in DispRec /\ disp'.pc = "idle"
    BY <1>5, DispAtType DEF BeatEnd, DispPC
  <2>. QED
    BY <1>0, <1>5, <2>1, TypeInvDisp DEF BeatEnd, DispFits
<1>6. CASE FanRead
  <2>1. disp.i \in 1..disp.hdr.len /\ disp.name \in Names /\ disp.hdr \in Slice
    <3>1. disp.name \in Names /\ disp.i >= 1
      BY <1>0, <1>6 DEF FanRead, DispFits
    <3>. QED
      BY <1>0, <1>6, <3>1 DEF FanRead, DispRec, Slice
  <2>2. Elem(disp.name, disp.hdr, disp.i) \in Subs \cup {Nil}
    BY <1>0, <1>6, <2>1, ElemType DEF FanRead, DispFits
  <2>3. disp' \in DispRec /\ disp'.pc = "send" /\ disp'.name = disp.name
        /\ disp'.hdr = disp.hdr /\ disp'.i = disp.i
    BY <1>0, <1>6, <2>2 DEF FanRead, DispRec, DispPC
  <2>4. DispFits'
    BY <1>0, <1>6, <2>3 DEF FanRead, DispFits, Fits, Array
  <2>. QED
    BY <1>0, <1>6, <2>3, <2>4, TypeInvDisp DEF FanRead
<1>7. CASE FanEnd
  <2>1. disp.rest \in SUBSET Names
    BY <1>0 DEF DispRec
  <2>2. disp' \in DispRec /\ disp'.pc \notin {"fan", "send"}
    BY <1>7, <2>1, DispAtType DEF FanEnd, DispPC
  <2>. QED
    BY <1>0, <1>7, <2>2, TypeInvDisp DEF FanEnd, DispFits
<1>8. CASE Send
  <2>1. disp.i + 1 \in Nat /\ disp.i + 1 >= 1 /\ disp.ev \in Item
    BY <1>0 DEF DispRec
  <2>2. disp' = [disp EXCEPT !.pc = "fan", !.i = disp.i + 1, !.c = Nil]
    BY <1>8 DEF Send
  <2>3. disp' \in DispRec /\ disp'.pc = "fan" /\ disp'.name = disp.name
        /\ disp'.hdr = disp.hdr /\ disp'.i = disp.i + 1
    BY <1>0, <2>1, <2>2 DEF DispRec, DispPC
  <2>4. DispFits'
    BY <1>0, <1>8, <2>1, <2>3 DEF Send, DispFits, Fits, Array
  <2>5. buf' \in [Subs -> Seq(Item)] /\ \A t \in Subs : Len(buf'[t]) <= ChanCap
    <3>1. CASE buf' = buf
      BY <1>0, <3>1
    <3>2. CASE Len(buf[disp.c]) < ChanCap /\ buf' = [buf EXCEPT ![disp.c] = Append(buf[disp.c], disp.ev)]
      <4>1. CASE disp.c \in Subs
        <5>1. buf[disp.c] \in Seq(Item) /\ Len(buf[disp.c]) \in Nat
          BY <1>0, <4>1, LenProperties
        <5>2. /\ Append(buf[disp.c], disp.ev) \in Seq(Item)
              /\ Len(Append(buf[disp.c], disp.ev)) <= ChanCap
          BY <2>1, <3>2, <5>1, AppendProperties DEF ChanCap
        <5>. QED
          BY <1>0, <3>2, <4>1, <5>2
      <4>2. CASE disp.c \notin Subs
        BY <1>0, <3>2, <4>2
      <4>. QED
        BY <4>1, <4>2
    <3>. QED
      BY <1>8, <3>1, <3>2 DEF Send, Offer
  <2>. QED
    BY <1>0, <1>8, <2>3, <2>4, <2>5, TypeInvDisp DEF Send
<1>9. CASE SendPanics
  <2>1. fault' \in Faults
    BY <1>9 DEF SendPanics, Faults
  <2>2. DispFits'
    BY <1>0, <1>9 DEF SendPanics, DispFits, Fits, Array
  <2>. QED
    BY <1>0, <1>9, <2>1, <2>2, TypeInvDisp DEF SendPanics
<1>10. CASE MapRace
  <2>1. fault' \in Faults
    BY <1>10 DEF MapRace, Faults
  <2>2. DispFits'
    BY <1>10 DEF MapRace, DispFits
  <2>. QED
    BY <1>0, <1>10, <2>1, <2>2, TypeInvDisp DEF MapRace
<1>. QED
  BY <1>1, <1>2, <1>3, <1>4, <1>5, <1>6, <1>7, <1>8, <1>9, <1>10

\* Arrays are only ever added, and keep their length.
HeapGrows ==
  \A n \in Names :
    /\ Len(heap'[n]) >= Len(heap[n])
    /\ \A a \in 1..Len(heap[n]) : Len(heap'[n][a]) = Len(heap[n][a])

LEMMA FitsStays ==
  ASSUME HeapType, HeapType', HeapGrows, NEW n \in Names, NEW h \in Slice, Fits(n, h)
  PROVE  /\ h.arr \in 0..Len(heap'[n])
         /\ h.len <= Len(IF h.arr = 0 THEN <<>> ELSE heap'[n][h.arr])
<1>1. Len(heap[n]) \in Nat /\ Len(heap'[n]) \in Nat /\ h.arr \in Nat
  BY LenProperties DEF HeapType, Slice
<1>2. Len(heap'[n]) >= Len(heap[n]) /\ h.arr \in 0..Len(heap[n])
  BY DEF Fits, HeapGrows
<1>3. h.arr \in 0..Len(heap'[n])
  BY <1>1, <1>2
<1>4. CASE h.arr = 0
  BY <1>3, <1>4 DEF Fits, Array
<1>5. CASE h.arr # 0
  <2>1. h.arr \in 1..Len(heap[n])
    BY <1>1, <1>2, <1>5
  <2>2. Len(heap'[n][h.arr]) = Len(heap[n][h.arr])
    BY <2>1 DEF HeapGrows
  <2>3. h.len <= Len(heap[n][h.arr])
    BY <1>5 DEF Fits, Array
  <2>. QED
    BY <1>3, <1>5, <2>2, <2>3
<1>. QED
  BY <1>4, <1>5

\* A step that changes arrays and lists only in ways that keep every header fitting.
LEMMA TypeInvLists ==
  ASSUME TypeInv, HeapType', HeapGrows, UNCHANGED <<buf, closed, published, fault>>,
         NEW s \in Subs, conn' \in [Subs -> ConnRec], \A t \in Subs \ {s} : conn'[t] = conn[t],
         conn'[s].pc \notin Looping \cup {"appending"},
         \A n \in Names : Fits(n, list[n])',
         \A n \in Names : \A a \in 1..Len(heap'[n]) : Len(heap'[n][a]) >= 1,
         mutex' \in Subs \cup {Nil}, disp' = disp
  PROVE  TypeInv'
<1>1. TypeOK'
  BY DEF TypeInv, TypeOK, HeapType, Cell, ConnRec, Slice, Item, ConnPC, DispPC, Faults, ChanCap
<1>2. HeapType /\ conn \in [Subs -> ConnRec] /\ disp \in DispRec
  BY DEF TypeInv, TypeOK, HeapType, Cell, ConnRec, DispRec
<1>3. \A t \in Subs \ {s} : ConnFits(t)'
  <2>. SUFFICES ASSUME NEW t \in Subs \ {s} PROVE ConnFits(t)'
    OBVIOUS
  <2>1. ConnFits(t) /\ conn[t].hdr \in Slice /\ conn'[t] = conn[t]
    BY <1>2 DEF TypeInv, SlicesFit, ConnFits, ConnRec
  <2>2. CASE conn[t].pc \in Looping \cup {"appending"}
    <3>1. conn[t].at \in Names /\ Fits(conn[t].at, conn[t].hdr)
      BY <2>1, <2>2 DEF ConnFits
    <3>2. /\ conn[t].hdr.arr \in 0..Len(heap'[conn[t].at])
          /\ conn[t].hdr.len <= Len(IF conn[t].hdr.arr = 0 THEN <<>>
                                    ELSE heap'[conn[t].at][conn[t].hdr.arr])
      BY <1>2, <2>1, <3>1, FitsStays
    <3>3. Fits(conn[t].at, conn[t].hdr)'
      BY <2>1, <3>2 DEF Fits, Array
    <3>. QED
      BY <2>1, <3>1, <3>3 DEF ConnFits
  <2>. QED
    BY <2>1, <2>2 DEF ConnFits
<1>4. ConnFits(s)'
  BY DEF ConnFits
<1>5. DispFits'
  <2>1. CASE disp.pc \in {"fan", "send"}
    <3>1. disp.name \in Names /\ Fits(disp.name, disp.hdr) /\ disp.i >= 1 /\ disp.hdr \in Slice
      BY <1>2, <2>1 DEF TypeInv, SlicesFit, DispRec
    <3>2. /\ disp.hdr.arr \in 0..Len(heap'[disp.name])
          /\ disp.hdr.len <= Len(IF disp.hdr.arr = 0 THEN <<>>
                                 ELSE heap'[disp.name][disp.hdr.arr])
      BY <1>2, <3>1, FitsStays
    <3>3. Fits(disp.name, disp.hdr)'
      BY <3>2 DEF Fits, Array
    <3>. QED
      BY <3>1, <3>3 DEF DispFits
  <2>. QED
    BY <2>1 DEF DispFits
<1>6. SlicesFit'
  BY <1>3, <1>4, <1>5 DEF SlicesFit, ConnFits, DispFits
<1>. QED
  BY <1>1, <1>6 DEF TypeInv

LEMMA AtLeastOne ==
  ASSUME NEW x \in Nat, NEW y \in Nat, x + 1 <= y
  PROVE  y >= 1
OBVIOUS

LEMMA LessIsStillLess ==
  ASSUME NEW x \in Nat, NEW y \in Nat, x <= y
  PROVE  x - 1 <= y
OBVIOUS

LEMMA TypeInvAppend ==
  ASSUME TypeInv, NEW s \in Subs, SubscribeAppend(s)
  PROVE  TypeInv'
<1>0. /\ HeapType /\ conn \in [Subs -> ConnRec] /\ conn[s] \in ConnRec
      /\ conn[s].hdr \in Slice /\ conn[s].todo \in SUBSET Names /\ mutex \in Subs \cup {Nil}
      /\ conn[s].at \in Names /\ Fits(conn[s].at, conn[s].hdr)
      /\ \A m \in Names : Fits(m, list[m]) /\ list[m] \in Slice
      /\ \A m \in Names : \A a \in 1..Len(heap[m]) : Len(heap[m][a]) >= 1
  BY DEF TypeInv, TypeOK, SlicesFit, ConnRec, HeapType, Cell, SubscribeAppend
<1>. PICK n \in Names, h \in Slice : n = conn[s].at /\ h = conn[s].hdr
  BY <1>0
<1>1. Fits(n, h) /\ AppendTo(n, h, s)
  BY <1>0 DEF SubscribeAppend
<1>2. /\ HeapType'
      /\ \A m \in Names \ {n} : heap'[m] = heap[m] /\ list'[m] = list[m]
      /\ list'[n].len = h.len + 1
      /\ list'[n].arr \in 1..Len(heap'[n])
      /\ list'[n].len <= Len(heap'[n][list'[n].arr])
      /\ Len(heap'[n]) >= Len(heap[n])
      /\ \A a \in 1..Len(heap[n]) : Len(heap'[n][a]) = Len(heap[n][a])
      /\ \A a \in 1..Len(heap'[n]) : a \in 1..Len(heap[n]) \/ a = list'[n].arr
  <2>1. HeapType
    BY <1>0
  <2>2. /\ HeapType'
        /\ \A m \in Names \ {n} : heap'[m] = heap[m] /\ list'[m] = list[m]
    BY <1>1, <2>1, AppendEffect, Zenon
  <2>3. list'[n].len = h.len + 1 /\ list'[n].arr \in 1..Len(heap'[n])
    BY <1>1, <2>1, AppendEffect
  <2>4. list'[n].len <= Len(heap'[n][list'[n].arr]) /\ Len(heap'[n]) >= Len(heap[n])
    BY <1>1, <2>1, AppendEffect
  <2>5. \A a \in 1..Len(heap[n]) : Len(heap'[n][a]) = Len(heap[n][a])
    BY <1>1, <2>1, AppendEffect, Zenon
  <2>6. \A a \in 1..Len(heap'[n]) : a \in 1..Len(heap[n]) \/ a = list'[n].arr
    BY <1>1, <2>1, AppendEffect, Zenon
  <2>. QED
    BY <2>2, <2>3, <2>4, <2>5, <2>6
<1>4. HeapGrows
  <2>1. \A m \in Names : Len(heap[m]) \in Nat
    BY <1>0, LenProperties DEF HeapType
  <2>. QED
    BY <1>2, <2>1 DEF HeapGrows
<1>5. \A m \in Names : Fits(m, list[m])'
  <2>1. Fits(n, list[n])'
    <3>1. list'[n].arr # 0 /\ list'[n].arr \in 0..Len(heap'[n])
      <4>1. list'[n].arr \in 1..Len(heap'[n]) /\ Len(heap'[n]) \in Nat
        BY <1>2, LenProperties DEF HeapType
      <4>. QED
        BY <4>1
    <3>. QED
      BY <1>2, <3>1 DEF Fits, Array
  <2>2. ASSUME NEW m \in Names \ {n} PROVE Fits(m, list[m])'
    <3>1. Fits(m, list[m]) /\ heap'[m] = heap[m] /\ list'[m] = list[m]
      BY <1>0, <1>2
    <3>. QED
      BY <3>1 DEF Fits, Array
  <2>. QED
    BY <2>1, <2>2
<1>6. \A m \in Names : \A a \in 1..Len(heap'[m]) : Len(heap'[m][a]) >= 1
  <2>1. ASSUME NEW a \in 1..Len(heap'[n]) PROVE Len(heap'[n][a]) >= 1
    <3>1. CASE a \in 1..Len(heap[n])
      BY <1>0, <1>2, <3>1
    <3>2. CASE a = list'[n].arr
      <4>1. heap'[n] \in Seq(Seq(Cell)) /\ h.len \in Nat
        BY <1>2 DEF HeapType, Slice
      <4>2. Len(heap'[n][a]) \in Nat
        BY <4>1, ElementOfSeq, LenProperties
      <4>3. h.len + 1 <= Len(heap'[n][a])
        BY <1>2, <3>2
      <4>. QED
        BY <4>1, <4>2, <4>3, AtLeastOne, Zenon
    <3>. QED
      BY <1>2, <3>1, <3>2
  <2>2. ASSUME NEW m \in Names \ {n}, NEW a \in 1..Len(heap'[m]) PROVE Len(heap'[m][a]) >= 1
    BY <1>0, <1>2
  <2>. QED
    BY <2>1, <2>2
<1>7. conn' \in [Subs -> ConnRec] /\ conn'[s].pc \in {"live", "subscribing"}
  <2>. DEFINE left == conn[s].todo \ {conn[s].at}
              pc == IF left = {} THEN "live" ELSE "subscribing"
  <2>1. conn' = [conn EXCEPT ![s].pc = pc, ![s].todo = left, ![s].at = Nil, ![s].hdr = NilSlice]
    BY DEF SubscribeAppend
  <2>2. left \in SUBSET Names /\ pc \in {"live", "subscribing"} /\ NilSlice \in Slice
    BY <1>0 DEF NilSlice, Slice
  <2>. HIDE DEF left, pc
  <2>. QED
    BY <1>0, <2>1, <2>2 DEF ConnRec, ConnPC
<1>8. /\ \A t \in Subs \ {s} : conn'[t] = conn[t]
      /\ mutex' \in Subs \cup {Nil} /\ UNCHANGED <<buf, closed, disp, published, fault>>
  BY <1>0 DEF SubscribeAppend
<1>. QED
  BY <1>2, <1>4, <1>5, <1>6, <1>7, <1>8, TypeInvLists DEF Looping

LEMMA TypeInvRemove ==
  ASSUME TypeInv, NEW s \in Subs, UnsubscribeRemove(s)
  PROVE  TypeInv'
<1>0. /\ HeapType /\ conn \in [Subs -> ConnRec] /\ conn[s] \in ConnRec
      /\ conn[s].at \in Names /\ conn[s].i \in Nat /\ conn[s].i \in 1..conn[s].hdr.len
      /\ conn[s].hdr.len \in Nat
      /\ \A m \in Names : Fits(m, list[m]) /\ list[m] \in Slice
      /\ \A m \in Names : \A a \in 1..Len(heap[m]) : Len(heap[m][a]) >= 1
  BY DEF TypeInv, TypeOK, SlicesFit, ConnRec, HeapType, Cell, UnsubscribeRemove, Looping, Slice
<1>. PICK n \in Names, i \in Nat : n = conn[s].at /\ i = conn[s].i
  BY <1>0
<1>1. /\ conn' \in [Subs -> ConnRec] /\ conn'[s].pc = "leaving"
      /\ \A t \in Subs \ {s} : conn'[t] = conn[t]
      /\ mutex' = Nil /\ UNCHANGED <<buf, closed, disp, published, fault>>
  <2>1. UnsubscribeReturn(s) /\ UNCHANGED <<buf, closed, disp, published, fault>>
    BY DEF UnsubscribeRemove
  <2>2. conn' \in [Subs -> ConnRec] /\ conn'[s].pc = "leaving"
    BY <1>0, <2>1, ReturnType
  <2>. QED
    BY <1>0, <2>1, <2>2 DEF UnsubscribeReturn
<1>2. CASE UNCHANGED <<heap, list>>
  <2>0. \A m \in Names : Len(heap[m]) \in Nat
    BY <1>0, LenProperties DEF HeapType
  <2>1. HeapGrows /\ HeapType'
    BY <1>0, <1>2, <2>0 DEF HeapGrows, HeapType, Cell, Slice
  <2>2. /\ \A m \in Names : Fits(m, list[m])'
        /\ \A m \in Names : \A a \in 1..Len(heap'[m]) : Len(heap'[m][a]) >= 1
    BY <1>0, <1>2 DEF Fits, Array
  <2>. QED
    BY <1>1, <2>1, <2>2, TypeInvLists DEF Looping
<1>3. CASE i \in 1..list[n].len /\ RemoveAt(n, i)
  <2>1. /\ HeapType'
        /\ \A m \in Names \ {n} : heap'[m] = heap[m] /\ list'[m] = list[m]
        /\ list'[n].len = list[n].len - 1 /\ list'[n].arr = list[n].arr
        /\ list[n].arr \in 1..Len(heap[n])
        /\ Len(heap'[n]) = Len(heap[n])
        /\ \A a \in 1..Len(heap[n]) : Len(heap'[n][a]) = Len(heap[n][a])
    BY <1>0, <1>3, RemoveEffect
  <2>2. HeapGrows
    <3>1. \A m \in Names : Len(heap[m]) \in Nat
      BY <1>0, LenProperties DEF HeapType
    <3>. QED
      BY <2>1, <3>1 DEF HeapGrows
  <2>3. \A m \in Names : Fits(m, list[m])'
    <3>1. /\ list[n].len \in Nat /\ list[n].len <= Len(heap[n][list[n].arr])
          /\ list[n].arr # 0 /\ list[n].arr \in 0..Len(heap[n])
      BY <1>0, <2>1 DEF Fits, Array, Slice
    <3>2. Len(heap[n][list[n].arr]) \in Nat
      BY <1>0, <2>1, ElementOfSeq, LenProperties DEF HeapType
    <3>3. list[n].len - 1 <= Len(heap[n][list[n].arr])
      BY <3>1, <3>2, LessIsStillLess, Zenon
    <3>4. Fits(n, list[n])'
      BY <2>1, <3>1, <3>3 DEF Fits, Array
    <3>5. ASSUME NEW m \in Names \ {n} PROVE Fits(m, list[m])'
      <4>1. Fits(m, list[m]) /\ heap'[m] = heap[m] /\ list'[m] = list[m]
        BY <1>0, <2>1
      <4>. QED
        BY <4>1 DEF Fits, Array
    <3>. QED
      BY <3>4, <3>5
  <2>4. \A m \in Names : \A a \in 1..Len(heap'[m]) : Len(heap'[m][a]) >= 1
    <3>1. \A a \in 1..Len(heap'[n]) : Len(heap'[n][a]) >= 1
      BY <1>0, <2>1
    <3>2. \A m \in Names \ {n} : \A a \in 1..Len(heap'[m]) : Len(heap'[m][a]) >= 1
      BY <1>0, <2>1
    <3>. QED
      BY <3>1, <3>2
  <2>. QED
    BY <1>1, <2>1, <2>2, <2>3, <2>4, TypeInvLists DEF Looping
<1>4. i <= list[n].len => i \in 1..list[n].len
  BY <1>0 DEF Slice
<1>. QED
  BY <1>2, <1>3, <1>4 DEF UnsubscribeRemove

LEMMA TypeInvStart ==
  ASSUME TypeInv, Start
  PROVE  TypeInv'
<1>1. \A n \in Names : Fits(n, NilSlice)'
  <2>1. \A n \in Names : Len(heap[n]) \in Nat
    BY LenProperties DEF TypeInv, TypeOK
  <2>. QED
    BY <2>1, EmptySeq DEF Fits, Array, NilSlice, Start
<1>2. list' = [n \in Names |-> NilSlice] /\ UNCHANGED <<heap, mutex, conn, buf, closed, published, fault>>
  BY DEF Start
<1>3. list' \in [Names -> Slice] /\ \A n \in Names : Fits(n, list[n])'
  <2>1. NilSlice \in Slice
    BY DEF NilSlice, Slice
  <2>2. \A n \in Names : list'[n] = NilSlice
    BY <1>2
  <2>. QED
    BY <1>1, <1>2, <2>1, <2>2 DEF Fits
<1>4. disp' \in DispRec /\ disp'.pc = "idle"
  BY DispAtType DEF Start, DispPC
<1>5. TypeOK'
  BY <1>2, <1>3, <1>4 DEF TypeInv, TypeOK, DispRec, Slice, Item, ConnPC, DispPC, Faults, ChanCap
<1>6. \A t \in Subs : ConnFits(t)'
  <2>1. \A t \in Subs : ConnFits(t)
    BY DEF TypeInv, SlicesFit, ConnFits
  <2>. QED
    BY <1>2, <2>1 DEF ConnFits, Fits, Array
<1>7. \A n \in Names : \A a \in 1..Len(heap'[n]) : Len(heap'[n][a]) >= 1
  BY <1>2 DEF TypeInv, SlicesFit
<1>8. SlicesFit'
  BY <1>3, <1>4, <1>6, <1>7 DEF SlicesFit, ConnFits
<1>. QED
  BY <1>5, <1>8 DEF TypeInv

LEMMA TypeInvStutter == TypeInv /\ UNCHANGED vars => TypeInv'
<1>. SUFFICES ASSUME TypeInv, UNCHANGED vars PROVE TypeInv'
  OBVIOUS
<1>1. TypeOK'
  BY DEF TypeInv, TypeOK, vars, Slice, Item, ConnPC, DispPC, Faults, ChanCap
<1>2. SlicesFit'
  BY DEF TypeInv, SlicesFit, Fits, Array, vars
<1>. QED
  BY <1>1, <1>2 DEF TypeInv

LEMMA TypeInvNext == TypeInv /\ [Next]_vars => TypeInv'
<1>. SUFFICES ASSUME TypeInv, [Next]_vars PROVE TypeInv'
  OBVIOUS
<1>1. ASSUME NEW s \in Subs, Subscribing(s) PROVE TypeInv'
  BY <1>1, TypeInvHandler, TypeInvAppend DEF Subscribing
<1>2. ASSUME NEW s \in Subs, Receive(s) \/ WriteOK(s) \/ WriteFails(s) PROVE TypeInv'
  BY <1>2, TypeInvHandler
<1>3. ASSUME NEW s \in Subs, Unsubscribing(s) PROVE TypeInv'
  BY <1>3, TypeInvHandler, TypeInvRemove DEF Unsubscribing
<1>4. CASE Start
  BY <1>4, TypeInvStart
<1>5. CASE (\E n \in Names : PublishTaken(n)) \/ PublishDropped \/ Tick \/ MapRace \/ Dispatching
  BY <1>5, TypeInvDispatcher DEF Dispatching
<1>6. CASE UNCHANGED vars
  BY <1>6, TypeInvStutter
<1>. QED
  BY <1>1, <1>2, <1>3, <1>4, <1>5, <1>6 DEF Next

\* Every variable keeps its type and every slice header, captured or current,
\* stays within the backing array it points to, whether or not Subscribe locks.
THEOREM TypeCorrect == Spec => [](TypeOK /\ SlicesFit)
<1>1. Init => TypeInv
  BY TypeInvInit
<1>2. TypeInv /\ [Next]_vars => TypeInv'
  BY TypeInvNext
<1>3. TypeInv => TypeOK /\ SlicesFit
  BY DEF TypeInv
<1>. QED
  BY <1>1, <1>2, <1>3, PTL DEF Spec
-----------------------------------------------------------------------------
(***************************************************************************)
(* The lists hold exactly the live handlers, when Subscribe takes the      *)
(* mutex and nobody subscribes before Start.                               *)
(*                                                                         *)
(* Unsubscribe reads its header and the element before it takes the mutex. *)
(* It is right all the same: a handler gets past its Lock only in its      *)
(* first iteration, since in a second one it holds the mutex itself; so it *)
(* only ever removes the first element, and only if that was itself; and   *)
(* whoever is listed and stands first in any array, old or current, is     *)
(* first in the list until it removes itself.                              *)
(***************************************************************************)
Locked == LockedSubscribe /\ Boot = {}

Leaving == {"leaving", "reading", "locking", "holding", "gone"}

\* s has appended itself to the list of n at some time.
Entered(s, n) ==
  /\ n \in conn[s].names /\ conn[s].pc # "off"
  /\ conn[s].pc \in {"subscribing", "appending"} => n \notin conn[s].todo

InSlot(s, n) == \E a \in 1..Len(heap[n]) : \E j \in 1..Len(heap[n][a]) : heap[n][a][j] = s
First(s, n, a) == a \in 1..Len(heap[n]) /\ heap[n][a][1] = s
Front(s, n) == list[n].len >= 1 /\ Elem(n, list[n], 1) = s

\* Whoever changes the lists holds the mutex, and so does a second iteration.
Guarded(s) ==
  /\ conn[s].pc \in {"subscribing", "appending", "holding"} => mutex = s
  /\ conn[s].pc \in Looping /\ conn[s].i > 1 => mutex = s
  /\ conn[s].pc = "holding" => conn[s].i = 1

Phases(s) ==
  /\ conn[s].pc = "appending" => conn[s].at \in conn[s].todo /\ conn[s].hdr = list[conn[s].at]
  /\ conn[s].pc \in Looping => conn[s].at \in conn[s].todo
  /\ conn[s].pc # "off" => conn[s].todo \subseteq conn[s].names
  /\ conn[s].pc \in {"gone", "live", "writing"} => conn[s].todo = {}
  /\ disp.pc = "off" => conn[s].pc = "off"
  /\ s \in closed => conn[s].pc = "gone"

InLists(s) ==
  \A n \in Names :
    /\ InSlot(s, n) => Entered(s, n)
    /\ Listed(s, n) /\ conn[s].pc \in Leaving => n \in conn[s].todo
    /\ Entered(s, n) /\ (conn[s].pc \in Leaving => n \in conn[s].todo) => Listed(s, n)
    /\ \A a \in 1..Len(heap[n]) : First(s, n, a) /\ Listed(s, n) => Front(s, n)

\* A one-element header is the handler's own; what it read of it is the front.
InLoop(s) ==
  conn[s].pc \in Looping =>
    /\ conn[s].hdr.len = 1 => First(s, conn[s].at, conn[s].hdr.arr)
    /\ conn[s].pc # "reading" /\ conn[s].i = 1 =>
         /\ conn[s].hdr.len = 1 => conn[s].cur = s
         /\ conn[s].cur = s => Front(s, conn[s].at)

Handler(s) == Guarded(s) /\ Phases(s) /\ InLists(s) /\ InLoop(s)

ListsInv == Locked /\ TypeInv /\ ListedOnce /\ \A s \in Subs : Handler(s)

LEMMA ListsInit == Locked /\ Init => ListsInv
<1>. SUFFICES ASSUME Locked, Init PROVE ListsInv
  OBVIOUS
<1>1. \A n \in Names : heap[n] = <<>> /\ list[n] = NilSlice
  BY DEF Init
<1>2. \A s \in Subs, n \in Names : ~InSlot(s, n) /\ ~Listed(s, n) /\ \A a : ~First(s, n, a)
  BY <1>1 DEF InSlot, Listed, First, NilSlice
<1>3. ListedOnce
  BY <1>1 DEF ListedOnce, NilSlice
<1>4. \A s \in Subs : conn[s].pc = "off" /\ s \notin closed
  BY DEF Init, NewConn
<1>5. \A s \in Subs : Handler(s)
  BY <1>2, <1>4 DEF Handler, Guarded, Phases, InLists, InLoop, Entered, Looping, Leaving
<1>. QED
  BY <1>3, <1>5, TypeInvInit DEF ListsInv

\* The invariant of a handler that does not move, over a step of somebody
\* else that neither adds nor removes it and leaves it in front if it was.
LEMMA Bystander ==
  ASSUME NEW t \in Subs, Handler(t), conn'[t] = conn[t], mutex = t => mutex' = t,
         disp'.pc = "off" => disp.pc = "off", t \in closed' => t \in closed,
         conn[t].pc = "appending" => list'[conn[t].at] = list[conn[t].at],
         \A n \in Names : /\ InSlot(t, n)' => InSlot(t, n)
                          /\ Listed(t, n)' <=> Listed(t, n)
                          /\ Front(t, n) => Front(t, n)'
                          /\ \A a \in 1..Len(heap'[n]) :
                               First(t, n, a)' => First(t, n, a) \/ Front(t, n)',
         conn[t].pc \in Looping => conn[t].at \in Names,
         conn[t].pc \in Looping /\ First(t, conn[t].at, conn[t].hdr.arr)
           => First(t, conn[t].at, conn[t].hdr.arr)'
  PROVE  Handler(t)'
<1>1. Guarded(t)' /\ Phases(t)'
  BY DEF Handler, Guarded, Phases
<1>2. \A n \in Names : Entered(t, n)' <=> Entered(t, n)
  BY DEF Entered
<1>3. InLists(t)'
  <2>. SUFFICES ASSUME NEW n \in Names
                PROVE  /\ InSlot(t, n)' => Entered(t, n)'
                       /\ Listed(t, n)' /\ conn'[t].pc \in Leaving => n \in conn'[t].todo
                       /\ Entered(t, n)' /\ (conn'[t].pc \in Leaving => n \in conn'[t].todo) => Listed(t, n)'
                       /\ \A a \in 1..Len(heap'[n]) : First(t, n, a)' /\ Listed(t, n)' => Front(t, n)'
    BY DEF InLists
  <2>1. /\ InSlot(t, n) => Entered(t, n)
        /\ Listed(t, n) /\ conn[t].pc \in Leaving => n \in conn[t].todo
        /\ Entered(t, n) /\ (conn[t].pc \in Leaving => n \in conn[t].todo) => Listed(t, n)
        /\ \A a \in 1..Len(heap[n]) : First(t, n, a) /\ Listed(t, n) => Front(t, n)
    BY DEF Handler, InLists
  <2>2. \A a : First(t, n, a) => a \in 1..Len(heap[n])
    BY DEF First
  <2>. QED
    BY <1>2, <2>1, <2>2
<1>4. InLoop(t)'
  <2>1. CASE conn[t].pc \in Looping
    <3>. PICK n \in Names : n = conn[t].at
      BY <2>1
    <3>1. /\ conn[t].hdr.len = 1 => First(t, n, conn[t].hdr.arr)
          /\ conn[t].pc # "reading" /\ conn[t].i = 1 =>
               /\ conn[t].hdr.len = 1 => conn[t].cur = t
               /\ conn[t].cur = t => Front(t, n)
      BY <2>1 DEF Handler, InLoop
    <3>2. Front(t, n) => Front(t, conn[t].at)'
      BY DEF Front, Elem
    <3>3. First(t, n, conn[t].hdr.arr) => First(t, conn[t].at, conn[t].hdr.arr)'
      BY <2>1
    <3>. QED
      BY <3>1, <3>2, <3>3 DEF InLoop
  <2>2. CASE conn[t].pc \notin Looping
    BY <2>2 DEF InLoop
  <2>. QED
    BY <2>1, <2>2
<1>. QED
  BY <1>1, <1>3, <1>4 DEF Handler

\* While arrays and lists stay as they are.
LEMMA Frozen ==
  ASSUME UNCHANGED <<heap, list>>
  PROVE  /\ ListedOnce' <=> ListedOnce
         /\ \A t \in Subs, n \in Names :
              /\ InSlot(t, n)' <=> InSlot(t, n)
              /\ Listed(t, n)' <=> Listed(t, n)
              /\ Front(t, n)' <=> Front(t, n)
              /\ \A a : First(t, n, a)' <=> First(t, n, a)
BY DEF ListedOnce, InSlot, Listed, Front, First, Elem

\* The others, over such a step.
LEMMA OthersFrozen ==
  ASSUME ListsInv, NEW s \in Subs, UNCHANGED <<heap, list, disp>>,
         \A t \in Subs \ {s} : conn'[t] = conn[t] /\ (t \in closed' => t \in closed),
         mutex' = mutex \/ mutex \in {Nil, s}
  PROVE  ListedOnce' /\ \A t \in Subs \ {s} : Handler(t)'
<1>1. ListedOnce'
  BY Frozen DEF ListsInv
<1>2. ASSUME NEW t \in Subs \ {s} PROVE Handler(t)'
  <2>1. Handler(t) /\ t # Nil /\ (mutex = t => mutex' = t)
    BY SubsAssumption DEF ListsInv
  <2>2. conn[t].pc \in Looping => conn[t].at \in Names
    BY DEF ListsInv, TypeInv, SlicesFit
  <2>3. First(t, conn[t].at, conn[t].hdr.arr) => First(t, conn[t].at, conn[t].hdr.arr)'
    BY <1>2 DEF First
  <2>4. \A n \in Names : /\ InSlot(t, n)' => InSlot(t, n)
                         /\ Listed(t, n)' <=> Listed(t, n)
                         /\ Front(t, n) => Front(t, n)'
                         /\ \A a \in 1..Len(heap'[n]) :
                              First(t, n, a)' => First(t, n, a) \/ Front(t, n)'
    BY Frozen
  <2>. QED
    BY <2>1, <2>2, <2>3, <2>4, Bystander
<1>. QED
  BY <1>1, <1>2

\* A position of the list is a slot of its array.
LEMMA ListedSlot ==
  ASSUME ListsInv, NEW n \in Names, NEW i \in 1..list[n].len
  PROVE  list[n].arr \in 1..Len(heap[n]) /\ i \in 1..Len(heap[n][list[n].arr])
<1>1. list[n] \in Slice /\ heap[n] \in Seq(Seq(Cell)) /\ Fits(n, list[n])
  BY DEF ListsInv, TypeInv, TypeOK, SlicesFit, Cell
<1>2. list[n].arr # 0
  BY <1>1, EmptySeq DEF Fits, Array, Slice
<1>3. list[n].arr \in 1..Len(heap[n]) /\ list[n].len <= Len(heap[n][list[n].arr])
  BY <1>1, <1>2, LenProperties DEF Fits, Array, Slice
<1>4. Len(heap[n][list[n].arr]) \in Nat
  BY <1>1, <1>3, ElementOfSeq, LenProperties
<1>. QED
  BY <1>1, <1>3, <1>4 DEF Slice

\* What is listed is in a slot, and so entered.
LEMMA ListedEntered ==
  ASSUME ListsInv, NEW s \in Subs, NEW n \in Names, Listed(s, n)
  PROVE  Entered(s, n)
<1>1. PICK i \in 1..list[n].len : heap[n][list[n].arr][i] = s
  BY DEF Listed, Elem
<1>2. InSlot(s, n)
  BY <1>1, ListedSlot DEF InSlot
<1>. QED
  BY <1>2 DEF ListsInv, Handler, InLists


\* The handler that moves, over such a step.
LEMMA MoverFrozen ==
  ASSUME ListsInv, NEW s \in Subs, UNCHANGED <<heap, list>>, Guarded(s)', Phases(s)', InLoop(s)',
         \A n \in Names : /\ InSlot(s, n) /\ Entered(s, n) => Entered(s, n)'
                          /\ Listed(s, n) /\ Entered(s, n) /\ conn'[s].pc \in Leaving => n \in conn'[s].todo
                          /\ Entered(s, n)' /\ (conn'[s].pc \in Leaving => n \in conn'[s].todo)
                               => Listed(s, n)
  PROVE  Handler(s)'
<1>1. \A n \in Names : /\ InSlot(s, n) => Entered(s, n)
                       /\ \A a \in 1..Len(heap[n]) : First(s, n, a) /\ Listed(s, n) => Front(s, n)
  BY DEF ListsInv, Handler, InLists
<1>2. InLists(s)'
  BY <1>1, Frozen, ListedEntered DEF InLists
<1>. QED
  BY <1>2 DEF Handler

\* What the invariant says of one handler, for the steps below.
LEMMA MoverFacts ==
  ASSUME ListsInv, NEW s \in Subs
  PROVE  /\ conn[s] \in ConnRec /\ conn \in [Subs -> ConnRec] /\ s # Nil
         /\ Guarded(s) /\ Phases(s) /\ InLists(s) /\ InLoop(s)
         /\ conn[s].pc \in Looping => conn[s].i \in 1..conn[s].hdr.len /\ conn[s].at \in Names
                                      /\ Fits(conn[s].at, conn[s].hdr)
         /\ \A n \in Names : list[n] \in Slice /\ Fits(n, list[n])
BY SubsAssumption DEF ListsInv, Handler, TypeInv, TypeOK, SlicesFit, ConnRec

\* One lemma for each kind of step, from here on.
LEMMA SubscribingLists ==
  ASSUME ListsInv, NEW s \in Subs,
         \/ \E ns \in (SUBSET Names) \ {{}} : SubscribeBegin(s, ns)
         \/ \E n \in Names : SubscribeLoad(s, n)
  PROVE  ListedOnce' /\ \A t \in Subs : Handler(t)'
<1>0. LockedSubscribe /\ Boot = {}
  BY DEF ListsInv, Locked
<1>1. CASE \E ns \in (SUBSET Names) \ {{}} : SubscribeBegin(s, ns)
  <2>. PICK ns \in (SUBSET Names) \ {{}} : SubscribeBegin(s, ns)
    BY <1>1
  <2>1. /\ conn[s].pc = "off" /\ disp.pc # "off" /\ mutex = Nil /\ mutex' = s
        /\ UNCHANGED <<heap, list, closed, disp>>
        /\ \A t \in Subs \ {s} : conn'[t] = conn[t]
    BY <1>0, MoverFacts DEF SubscribeBegin
  <2>2. conn'[s].pc = "subscribing" /\ conn'[s].names = ns /\ conn'[s].todo = ns
    BY MoverFacts DEF SubscribeBegin, ConnRec
  <2>3. Guarded(s)' /\ Phases(s)' /\ InLoop(s)'
    BY <2>1, <2>2, MoverFacts DEF Guarded, Phases, InLoop, Looping
  <2>4. \A n \in Names : ~Entered(s, n) /\ ~Entered(s, n)'
    BY <2>1, <2>2 DEF Entered
  <2>5. Handler(s)'
    BY <2>1, <2>3, <2>4, MoverFrozen
  <2>. QED
    BY <2>1, <2>5, OthersFrozen
<1>2. CASE \E n \in Names : SubscribeLoad(s, n)
  <2>. PICK n \in Names : SubscribeLoad(s, n)
    BY <1>2
  <2>1. /\ conn[s].pc = "subscribing" /\ n \in conn[s].todo /\ mutex' = mutex
        /\ UNCHANGED <<heap, list, closed, disp>>
        /\ \A t \in Subs \ {s} : conn'[t] = conn[t]
    BY MoverFacts DEF SubscribeLoad
  <2>2. /\ conn'[s].pc = "appending" /\ conn'[s].at = n /\ conn'[s].hdr = list[n]
        /\ conn'[s].names = conn[s].names /\ conn'[s].todo = conn[s].todo
    <3>1. conn[s] \in ConnRec /\ conn \in [Subs -> ConnRec]
      BY MoverFacts
    <3>2. conn' = [conn EXCEPT ![s].pc = "appending", ![s].at = n, ![s].hdr = list[n]]
      BY DEF SubscribeLoad
    <3>. QED
      BY <3>1, <3>2 DEF ConnRec
  <2>3. Guarded(s)' /\ Phases(s)' /\ InLoop(s)'
    BY <2>1, <2>2, MoverFacts DEF Guarded, Phases, InLoop, Looping
  <2>4. \A m \in Names : Entered(s, m)' <=> Entered(s, m)
    BY <2>1, <2>2 DEF Entered
  <2>5. Handler(s)'
    BY <2>1, <2>2, <2>3, <2>4, MoverFacts, MoverFrozen DEF InLists, Leaving
  <2>. QED
    BY <2>1, <2>5, OthersFrozen
<1>. QED
  BY <1>1, <1>2

LEMMA SocketLists ==
  ASSUME ListsInv, NEW s \in Subs, Receive(s) \/ WriteOK(s) \/ WriteFails(s) \/ CloseChannel(s)
  PROVE  ListedOnce' /\ \A t \in Subs : Handler(t)'
<1>1. /\ UNCHANGED <<heap, list, mutex, disp>>
      /\ \A t \in Subs \ {s} : conn'[t] = conn[t] /\ (t \in closed' => t \in closed)
  BY MoverFacts DEF Receive, WriteOK, WriteFails, CloseChannel
<1>2. conn'[s].names = conn[s].names /\ conn[s].pc \in {"live", "writing", "leaving"}
  BY MoverFacts DEF Receive, WriteOK, WriteFails, CloseChannel, ConnRec
<1>3. CASE Receive(s) \/ WriteOK(s)
  <2>1. /\ conn'[s].pc \in {"live", "writing"} /\ conn[s].pc \in {"live", "writing"}
        /\ conn'[s].todo = conn[s].todo /\ closed' = closed
    <3>1. conn[s] \in ConnRec /\ conn \in [Subs -> ConnRec]
      BY MoverFacts
    <3>2. CASE Receive(s)
      BY <3>1, <3>2 DEF Receive, ConnRec
    <3>3. CASE WriteOK(s)
      BY <3>1, <3>3 DEF WriteOK, ConnRec
    <3>. QED
      BY <1>3, <3>2, <3>3
  <2>2. Guarded(s)' /\ Phases(s)' /\ InLoop(s)'
    BY <1>1, <1>2, <2>1, MoverFacts DEF Guarded, Phases, InLoop, Looping
  <2>3. \A m \in Names : Entered(s, m)' <=> Entered(s, m)
    BY <1>2, <2>1 DEF Entered
  <2>. QED
    BY <1>1, <2>1, <2>2, <2>3, MoverFacts, MoverFrozen, OthersFrozen DEF InLists, Leaving
<1>4. CASE WriteFails(s)
  <2>1. /\ conn'[s].pc = "leaving" /\ conn[s].pc = "writing"
        /\ conn'[s].todo = conn[s].names /\ closed' = closed
    BY <1>4, MoverFacts DEF WriteFails, ConnRec
  <2>2. Guarded(s)' /\ Phases(s)' /\ InLoop(s)'
    BY <1>1, <1>2, <2>1, MoverFacts DEF Guarded, Phases, InLoop, Looping
  <2>3. \A m \in Names : Entered(s, m)' <=> Entered(s, m)
    BY <1>2, <2>1 DEF Entered
  <2>4. \A m \in Names : Entered(s, m) => m \in conn'[s].todo /\ Listed(s, m)
    BY <2>1, MoverFacts DEF Entered, InLists, Leaving
  <2>. QED
    BY <1>1, <2>2, <2>3, <2>4, MoverFrozen, OthersFrozen
<1>5. CASE CloseChannel(s)
  <2>1. /\ conn'[s].pc = "gone" /\ conn[s].pc = "leaving"
        /\ conn'[s].todo = conn[s].todo /\ conn[s].todo = {}
    BY <1>5, MoverFacts DEF CloseChannel, ConnRec
  <2>2. Guarded(s)' /\ Phases(s)' /\ InLoop(s)'
    BY <1>1, <1>2, <2>1, MoverFacts DEF Guarded, Phases, InLoop, Looping
  <2>3. \A m \in Names : Entered(s, m)' <=> Entered(s, m)
    BY <1>2, <2>1 DEF Entered
  <2>. QED
    BY <1>1, <2>1, <2>2, <2>3, MoverFacts, MoverFrozen, OthersFrozen DEF InLists, Leaving
<1>. QED
  BY <1>3, <1>4, <1>5

LEMMA LoopLists ==
  ASSUME ListsInv, NEW s \in Subs,
         \/ \E n \in Names : UnsubscribeRange(s, n)
         \/ UnsubscribeRead(s) \/ UnsubscribeLock(s) \/ UnsubscribeOther(s)
  PROVE  ListedOnce' /\ \A t \in Subs : Handler(t)'
<1>0. conn[s] \in ConnRec /\ conn \in [Subs -> ConnRec] /\ s # Nil
  BY MoverFacts
<1>1. CASE \E n \in Names : UnsubscribeRange(s, n)
  <2>. PICK n \in Names : UnsubscribeRange(s, n)
    BY <1>1
  <2>1. /\ conn[s].pc = "leaving" /\ n \in conn[s].todo
        /\ UNCHANGED <<heap, list, mutex, closed, disp>>
        /\ \A t \in Subs \ {s} : conn'[t] = conn[t]
    BY <1>0 DEF UnsubscribeRange
  <2>2. Listed(s, n)
    BY <2>1, MoverFacts DEF Phases, InLists, Entered
  <2>3. /\ list[n].len # 0 /\ Fits(n, list[n]) /\ list[n] \in Slice
        /\ list[n].len = 1 => heap[n][list[n].arr][1] = s
    BY <2>2, MoverFacts DEF Listed, Elem, Slice
  <2>4. list[n].arr \in 1..Len(heap[n])
    <3>1. heap[n] \in Seq(Seq(Cell)) /\ list[n].arr # 0
      <4>1. heap[n] \in Seq(Seq(Cell))
        BY DEF ListsInv, TypeInv, TypeOK, Cell
      <4>2. list[n].arr # 0
        BY <2>3, EmptySeq DEF Fits, Array, Slice
      <4>. QED
        BY <4>1, <4>2
    <3>. QED
      BY <2>3, <3>1, LenProperties DEF Fits, Slice
  <2>5. conn' = [conn EXCEPT ![s].pc = "reading", ![s].at = n, ![s].hdr = list[n], ![s].i = 1]
    BY <2>3 DEF UnsubscribeRange
  <2>6. /\ conn'[s].pc = "reading" /\ conn'[s].at = n /\ conn'[s].hdr = list[n] /\ conn'[s].i = 1
        /\ conn'[s].names = conn[s].names /\ conn'[s].todo = conn[s].todo
    BY <1>0, <2>5 DEF ConnRec
  <2>7. Guarded(s)' /\ Phases(s)'
    BY <2>1, <2>6, MoverFacts DEF Guarded, Phases, Looping
  <2>8. InLoop(s)'
    BY <2>1, <2>3, <2>4, <2>6 DEF InLoop, First
  <2>9. \A m \in Names : Entered(s, m)' <=> Entered(s, m)
    BY <2>1, <2>6 DEF Entered
  <2>. QED
    BY <2>1, <2>6, <2>7, <2>8, <2>9, MoverFacts, MoverFrozen, OthersFrozen DEF InLists, Leaving
<1>2. CASE UnsubscribeRead(s)
  <2>. PICK n \in Names : n = conn[s].at
    BY <1>2, MoverFacts DEF UnsubscribeRead, Looping
  <2>1. /\ conn[s].pc = "reading" /\ UNCHANGED <<heap, list, mutex, closed, disp>>
        /\ \A t \in Subs \ {s} : conn'[t] = conn[t]
    BY <1>0, <1>2 DEF UnsubscribeRead
  <2>2. conn' = [conn EXCEPT ![s].pc = "locking", ![s].cur = heap[n][conn[s].hdr.arr][conn[s].i]]
    BY <1>2 DEF UnsubscribeRead, Elem
  <2>3. /\ conn'[s].pc = "locking" /\ conn'[s].cur = heap[n][conn[s].hdr.arr][conn[s].i]
        /\ conn'[s].at = n /\ conn'[s].hdr = conn[s].hdr /\ conn'[s].i = conn[s].i
        /\ conn'[s].names = conn[s].names /\ conn'[s].todo = conn[s].todo
    BY <1>0, <2>2 DEF ConnRec
  <2>4. Guarded(s)' /\ Phases(s)'
    BY <2>1, <2>3, MoverFacts DEF Guarded, Phases, Looping
  <2>5. Listed(s, n)
    BY <2>1, MoverFacts DEF Phases, InLists, Entered, Looping
  <2>6. conn[s].hdr.arr \in 1..Len(heap[n])
    <3>1. /\ conn[s].hdr \in Slice /\ Fits(n, conn[s].hdr) /\ heap[n] \in Seq(Seq(Cell))
          /\ conn[s].i \in 1..conn[s].hdr.len
      BY <1>0, <2>1, MoverFacts DEF ListsInv, TypeInv, TypeOK, Cell, ConnRec, Looping
    <3>. QED
      BY <3>1, EmptySeq, LenProperties DEF Fits, Array, Slice
  <2>7. conn[s].i = 1 /\ heap[n][conn[s].hdr.arr][1] = s => Front(s, n)
    BY <2>5, <2>6, MoverFacts DEF InLists, First
  <2>8. conn[s].hdr.len = 1 => First(s, n, conn[s].hdr.arr)
    BY <2>1, MoverFacts DEF InLoop, Looping
  <2>9. InLoop(s)'
    <3>1. conn'[s].hdr.len = 1 => First(s, conn[s].at, conn[s].hdr.arr)'
      BY <2>1, <2>3, <2>8 DEF First
    <3>2. conn'[s].i = 1 /\ conn'[s].hdr.len = 1 => conn'[s].cur = s
      BY <2>3, <2>8 DEF First
    <3>3. conn'[s].i = 1 /\ conn'[s].cur = s => Front(s, conn[s].at)'
      BY <2>1, <2>3, <2>7 DEF Front, Elem
    <3>. QED
      BY <3>1, <3>2, <3>3 DEF InLoop
  <2>10. \A m \in Names : Entered(s, m)' <=> Entered(s, m)
    BY <2>1, <2>3 DEF Entered
  <2>. QED
    BY <2>1, <2>3, <2>4, <2>9, <2>10, MoverFacts, MoverFrozen, OthersFrozen DEF InLists, Leaving, Looping
<1>3. CASE UnsubscribeLock(s)
  <2>1. /\ conn[s].pc = "locking" /\ mutex = Nil /\ mutex' = s
        /\ UNCHANGED <<heap, list, closed, disp>>
        /\ \A t \in Subs \ {s} : conn'[t] = conn[t]
        /\ conn' = [conn EXCEPT ![s].pc = "holding"]
    BY <1>0, <1>3 DEF UnsubscribeLock
  <2>2. /\ conn'[s].pc = "holding" /\ conn'[s].cur = conn[s].cur
        /\ conn'[s].at = conn[s].at /\ conn'[s].hdr = conn[s].hdr /\ conn'[s].i = conn[s].i
        /\ conn'[s].names = conn[s].names /\ conn'[s].todo = conn[s].todo
    BY <1>0, <2>1 DEF ConnRec
  <2>3. conn[s].i = 1
    BY <1>0, <2>1, MoverFacts DEF Guarded, Looping, ConnRec, Slice
  <2>4. Guarded(s)' /\ Phases(s)'
    BY <2>1, <2>2, <2>3, MoverFacts DEF Guarded, Phases, Looping
  <2>5. InLoop(s)'
    <3>1. /\ conn[s].hdr.len = 1 => First(s, conn[s].at, conn[s].hdr.arr)
          /\ conn[s].hdr.len = 1 => conn[s].cur = s
          /\ conn[s].cur = s => Front(s, conn[s].at)
      BY <2>1, <2>3, MoverFacts DEF InLoop, Looping
    <3>2. /\ First(s, conn[s].at, conn[s].hdr.arr)' <=> First(s, conn[s].at, conn[s].hdr.arr)
          /\ Front(s, conn[s].at)' <=> Front(s, conn[s].at)
      BY <2>1, <2>2 DEF First, Front, Elem
    <3>. QED
      BY <2>2, <3>1, <3>2 DEF InLoop
  <2>6. \A m \in Names : Entered(s, m)' <=> Entered(s, m)
    BY <2>1, <2>2 DEF Entered
  <2>. QED
    BY <2>1, <2>2, <2>4, <2>5, <2>6, MoverFacts, MoverFrozen, OthersFrozen DEF InLists, Leaving, Looping
<1>4. CASE UnsubscribeOther(s)
  <2>1. /\ conn[s].pc = "holding" /\ conn[s].cur # s /\ mutex = s /\ conn[s].i = 1
        /\ UNCHANGED <<heap, list, closed, disp>>
    BY <1>4, MoverFacts DEF UnsubscribeOther, Guarded
  <2>2. conn[s].hdr.len # 1 /\ conn[s].i \in 1..conn[s].hdr.len /\ conn[s].hdr.len \in Nat
    BY <1>0, <2>1, MoverFacts DEF InLoop, Looping, ConnRec, Slice
  <2>3. /\ conn' = [conn EXCEPT ![s].pc = "reading", ![s].i = 2]
        /\ mutex' = mutex
    <3>1. conn[s].i < conn[s].hdr.len
      BY <2>1, <2>2
    <3>. QED
      BY <1>0, <1>4, <2>1, <3>1 DEF UnsubscribeOther, ConnRec
  <2>4. /\ conn'[s].pc = "reading" /\ conn'[s].at = conn[s].at /\ conn'[s].hdr = conn[s].hdr
        /\ conn'[s].i = 2 /\ conn'[s].names = conn[s].names /\ conn'[s].todo = conn[s].todo
        /\ \A t \in Subs \ {s} : conn'[t] = conn[t]
    BY <1>0, <2>3 DEF ConnRec
  <2>5. Guarded(s)' /\ Phases(s)'
    BY <2>1, <2>3, <2>4, MoverFacts DEF Guarded, Phases, Looping
  <2>6. InLoop(s)'
    BY <2>1, <2>2, <2>4 DEF InLoop
  <2>7. \A m \in Names : Entered(s, m)' <=> Entered(s, m)
    BY <2>1, <2>4 DEF Entered
  <2>. QED
    BY <2>1, <2>3, <2>4, <2>5, <2>6, <2>7, MoverFacts, MoverFrozen, OthersFrozen DEF InLists, Leaving, Looping
<1>. QED
  BY <1>1, <1>2, <1>3, <1>4

\* The first element of an array is in a slot.
LEMMA FirstInSlot ==
  ASSUME ListsInv, NEW s \in Subs, NEW n \in Names, NEW a, First(s, n, a)
  PROVE  InSlot(s, n) /\ Entered(s, n)
<1>1. a \in 1..Len(heap[n]) /\ heap[n][a][1] = s
  BY DEF First
<1>2. 1 \in 1..Len(heap[n][a])
  <2>1. Len(heap[n][a]) >= 1 /\ heap[n] \in Seq(Seq(Cell))
    BY <1>1 DEF ListsInv, TypeInv, TypeOK, SlicesFit, Cell
  <2>. QED
    BY <1>1, <2>1, ElementOfSeq, LenProperties
<1>3. InSlot(s, n)
  BY <1>1, <1>2 DEF InSlot
<1>. QED
  BY <1>3 DEF ListsInv, Handler, InLists

\* The new element is s, at the end; nobody else's slot or place changes.
LEMMA AppendLists ==
  ASSUME ListsInv, NEW s \in Subs, SubscribeAppend(s)
  PROVE  ListedOnce' /\ \A t \in Subs : Handler(t)'
<1>0. /\ conn[s] \in ConnRec /\ conn \in [Subs -> ConnRec] /\ s # Nil /\ LockedSubscribe
      /\ conn[s].pc = "appending" /\ mutex = s
      /\ conn[s].at \in conn[s].todo /\ conn[s].hdr = list[conn[s].at]
      /\ conn[s].todo \subseteq conn[s].names /\ conn[s].at \in Names
  BY MoverFacts DEF SubscribeAppend, Guarded, Phases, ConnRec, ListsInv, Locked
<1>. PICK n \in Names : n = conn[s].at
  BY <1>0
<1>. PICK h \in Slice : h = list[n]
  BY MoverFacts
<1>1. /\ HeapType /\ h \in Slice /\ h.len \in Nat /\ Fits(n, h)
      /\ \A m \in Names : \A a \in 1..Len(heap[m]) : Len(heap[m][a]) >= 1
  BY DEF ListsInv, TypeInv, TypeOK, SlicesFit, HeapType, Cell, Slice
<1>2. /\ \A m \in Names \ {n} : heap'[m] = heap[m] /\ list'[m] = list[m]
      /\ list'[n].len = h.len + 1 /\ list'[n].arr \in 1..Len(heap'[n])
      /\ heap'[n][list'[n].arr][h.len + 1] = s
      /\ \A j \in 1..h.len : heap'[n][list'[n].arr][j] = heap[n][h.arr][j]
      /\ Len(heap'[n]) >= Len(heap[n]) /\ Len(heap[n]) \in Nat /\ Len(heap'[n]) \in Nat
      /\ \A a \in 1..Len(heap[n]) : Len(heap'[n][a]) = Len(heap[n][a])
      /\ \A a \in 1..Len(heap'[n]) : \A j \in 1..Len(heap'[n][a]) : FromAppend(n, h, a, j)
      /\ \A a \in 1..Len(heap'[n]) : a \in 1..Len(heap[n]) \/ a = list'[n].arr
  <2>1. HeapType /\ h \in Slice /\ Fits(n, h) /\ AppendTo(n, h, s)
    BY <1>0, <1>1 DEF SubscribeAppend
  <2>2. \A m \in Names \ {n} : heap'[m] = heap[m] /\ list'[m] = list[m]
    BY <2>1, AppendEffect, Zenon
  <2>3. list'[n].len = h.len + 1 /\ list'[n].arr \in 1..Len(heap'[n])
    BY <2>1, AppendEffect
  <2>4. /\ Len(heap'[n]) >= Len(heap[n]) /\ HeapType'
        /\ \A a \in 1..Len(heap[n]) : Len(heap'[n][a]) = Len(heap[n][a])
        /\ \A a \in 1..Len(heap'[n]) : a \in 1..Len(heap[n]) \/ a = list'[n].arr
    BY <2>1, AppendEffect, Zenon
  <2>5. \A a \in 1..Len(heap'[n]) : \A j \in 1..Len(heap'[n][a]) : FromAppend(n, h, a, j)
    BY <2>1, AppendEffect, Zenon
  <2>6. Len(heap[n]) \in Nat /\ Len(heap'[n]) \in Nat
    BY <1>1, <2>4, LenProperties DEF HeapType
  <2>7. heap'[n][list'[n].arr][h.len + 1] = s
    BY <2>1, AppendEffect
  <2>8. \A j \in 1..h.len : heap'[n][list'[n].arr][j] = heap[n][h.arr][j]
    BY <2>1, AppendKeeps, Zenon
  <2>. QED
    BY <2>2, <2>3, <2>4, <2>5, <2>6, <2>7, <2>8, Zenon
<1>o. \A m \in Names \ {n} : heap'[m] = heap[m] /\ list'[m] = list[m]
  BY <1>2
<1>k. \A j \in 1..h.len : heap'[n][list'[n].arr][j] = heap[n][h.arr][j]
  BY <1>2
<1>3. ~Entered(s, n) /\ ~Listed(s, n) /\ \A a : ~First(s, n, a)
  <2>1. ~Entered(s, n)
    BY <1>0 DEF Entered
  <2>. QED
    BY <2>1, ListedEntered, FirstInSlot
<1>4. \A t \in Subs, m \in Names : Listed(t, m)' <=> Listed(t, m) \/ (t = s /\ m = n)
  <2>1. \A t \in Subs : Listed(t, n)' <=> Listed(t, n) \/ t = s
    <3>. TAKE t \in Subs
    <3>1. Listed(t, n)' <=> \E i \in 1..h.len + 1 : heap'[n][list'[n].arr][i] = t
      BY <1>2 DEF Listed, Elem
    <3>2. Listed(t, n) <=> \E i \in 1..h.len : heap[n][h.arr][i] = t
      BY DEF Listed, Elem
    <3>3. \A i \in 1..h.len + 1 : i \in 1..h.len \/ i = h.len + 1
      BY <1>1
    <3>4. \A i \in 1..h.len : i \in 1..h.len + 1
      BY <1>1
    <3>5. h.len + 1 \in 1..h.len + 1
      BY <1>1
    <3>. QED
      <4>1. ASSUME Listed(t, n)' PROVE Listed(t, n) \/ t = s
        <5>1. PICK i \in 1..h.len + 1 : heap'[n][list'[n].arr][i] = t
          BY <3>1, <4>1
        <5>. QED
          BY <1>2, <3>2, <3>3, <5>1, Zenon
      <4>2. ASSUME Listed(t, n) PROVE Listed(t, n)'
        <5>1. PICK i \in 1..h.len : heap[n][h.arr][i] = t
          BY <3>2, <4>2
        <5>2. heap'[n][list'[n].arr][i] = t
          BY <1>k, <5>1
        <5>. QED
          BY <3>1, <3>4, <5>2
      <4>3. ASSUME t = s PROVE Listed(t, n)'
        BY <1>2, <3>1, <3>5, <4>3
      <4>. QED
        BY <4>1, <4>2, <4>3
  <2>2. \A t \in Subs, m \in Names \ {n} : Listed(t, m)' <=> Listed(t, m)
    BY <1>o DEF Listed, Elem
  <2>. QED
    BY <2>1, <2>2
<1>5. \A t \in Subs, m \in Names : Front(t, m) => Front(t, m)'
  <2>1. ASSUME NEW t \in Subs, Front(t, n) PROVE Front(t, n)'
    <3>1. 1 \in 1..h.len /\ h.len + 1 >= 1 /\ heap[n][h.arr][1] = t
      BY <1>1, <2>1 DEF Front, Elem
    <3>. QED
      BY <1>2, <3>1 DEF Front, Elem
  <2>2. ASSUME NEW t \in Subs, NEW m \in Names \ {n}, Front(t, m) PROVE Front(t, m)'
    BY <1>o, <2>2 DEF Front, Elem
  <2>. QED
    BY <2>1, <2>2
<1>6. \A t \in Subs, m \in Names : InSlot(t, m)' => InSlot(t, m) \/ (t = s /\ m = n)
  <2>1. ASSUME NEW t \in Subs, InSlot(t, n)', t # s PROVE InSlot(t, n)
    <3>. PICK a \in 1..Len(heap'[n]) : \E j \in 1..Len(heap'[n][a]) : heap'[n][a][j] = t
      BY <2>1 DEF InSlot
    <3>. PICK j \in 1..Len(heap'[n][a]) : heap'[n][a][j] = t
      OBVIOUS
    <3>1. CASE a \in 1..Len(heap[n]) /\ heap'[n][a][j] = heap[n][a][j]
      BY <1>2, <3>1 DEF InSlot
    <3>2. CASE a = list'[n].arr /\ j = h.len + 1
      BY <1>2, <2>1, <3>2
    <3>3. CASE a = list'[n].arr /\ j \in 1..h.len
      <4>1. heap[n][h.arr][j] = t
        BY <1>k, <3>3
      <4>. QED
        BY <3>3, <4>1, ListedSlot DEF InSlot
    <3>4. heap'[n][a][j] # Nil
      BY SubsAssumption
    <3>5. FromAppend(n, h, a, j)
      BY <1>2
    <3>. QED
      BY <3>1, <3>2, <3>3, <3>4, <3>5, Zenon DEF FromAppend
  <2>2. ASSUME NEW t \in Subs, NEW m \in Names \ {n}, InSlot(t, m)' PROVE InSlot(t, m)
    BY <1>o, <2>2 DEF InSlot
  <2>. QED
    BY <2>1, <2>2
<1>7. \A t \in Subs, m \in Names : \A a : First(t, m, a)' => First(t, m, a) \/ Front(t, m)'
  <2>1. ASSUME NEW t \in Subs, NEW a, First(t, n, a)', a # list'[n].arr PROVE First(t, n, a)
    <3>1. a \in 1..Len(heap'[n]) /\ heap'[n][a][1] = t
      BY <2>1 DEF First
    <3>2. a \in 1..Len(heap[n])
      BY <1>2, <2>1, <3>1
    <3>3. 1 \in 1..Len(heap'[n][a])
      <4>1. Len(heap[n][a]) \in Nat /\ Len(heap[n][a]) >= 1
        BY <1>1, <3>2, ElementOfSeq, LenProperties DEF HeapType
      <4>2. Len(heap'[n][a]) = Len(heap[n][a])
        BY <1>2, <3>2
      <4>. QED
        BY <4>1, <4>2
    <3>. QED
      BY <1>2, <2>1, <3>1, <3>2, <3>3 DEF First, FromAppend
  <2>2. ASSUME NEW t \in Subs, NEW a, First(t, n, a)', a = list'[n].arr PROVE Front(t, n)'
    <3>1. h.len + 1 >= 1 /\ heap'[n][a][1] = t
      BY <1>1, <2>2 DEF First
    <3>. QED
      BY <1>2, <2>2, <3>1 DEF Front, Elem
  <2>3. ASSUME NEW t \in Subs, NEW m \in Names \ {n}, NEW a, First(t, m, a)' PROVE First(t, m, a)
    BY <1>o, <2>3 DEF First
  <2>. QED
    BY <2>1, <2>2, <2>3
<1>8. ASSUME NEW t \in Subs \ {s}, conn[t].pc \in Looping, First(t, conn[t].at, conn[t].hdr.arr)
      PROVE  First(t, conn[t].at, conn[t].hdr.arr)'
  <2>. PICK m \in Names : m = conn[t].at
    BY <1>8, MoverFacts
  <2>. PICK a : a = conn[t].hdr.arr
    OBVIOUS
  <2>1. First(t, m, a) /\ Listed(t, m) /\ conn'[t] = conn[t]
    BY <1>0, <1>8, MoverFacts DEF Phases, InLists, Entered, Looping, SubscribeAppend
  <2>2. a \in 1..Len(heap[m]) /\ heap[m][a][1] = t
    BY <2>1 DEF First
  <2>3. CASE m # n
    BY <1>o, <2>1, <2>3 DEF First
  <2>4. CASE m = n
    <3>1. h.len # 0
      BY <2>1, <2>4 DEF Listed
    <3>2. 1 \in 1..Len(heap'[n][a]) /\ a \in 1..Len(heap'[n])
      <4>1. Len(heap[n][a]) \in Nat /\ Len(heap[n][a]) >= 1
        BY <1>1, <2>2, <2>4, ElementOfSeq, LenProperties DEF HeapType
      <4>2. Len(heap'[n][a]) = Len(heap[n][a]) /\ a \in 1..Len(heap[n])
        BY <1>2, <2>2, <2>4
      <4>3. a \in 1..Len(heap'[n])
        <5>1. Len(heap'[n]) >= Len(heap[n]) /\ Len(heap[n]) \in Nat /\ Len(heap'[n]) \in Nat
          BY <1>2
        <5>. QED
          BY <4>2, <5>1
      <4>. QED
        BY <4>1, <4>2, <4>3
    <3>3. 1 # h.len + 1 /\ a \in 1..Len(heap[n])
      BY <1>1, <2>2, <2>4, <3>1
    <3>4. heap'[n][a][1] = heap[n][a][1]
      BY <1>2, <3>2, <3>3, Zenon DEF FromAppend
    <3>. QED
      BY <2>1, <2>2, <2>4, <3>2, <3>4 DEF First
  <2>. QED
    BY <2>3, <2>4
<1>9. ListedOnce'
  <2>0. ListedOnce
    BY DEF ListsInv
  <2>1. ASSUME NEW i \in 1..h.len + 1, NEW j \in 1..h.len + 1,
               heap'[n][list'[n].arr][i] = heap'[n][list'[n].arr][j]
        PROVE  i = j
    <3>1. \A k \in 1..h.len : heap'[n][list'[n].arr][k] # s
      <4>1. \A k \in 1..h.len : heap[n][h.arr][k] # s
        BY <1>3 DEF Listed, Elem
      <4>. QED
        BY <1>k, <4>1
    <3>2. \A k \in 1..h.len + 1 : k \in 1..h.len \/ k = h.len + 1
      BY <1>1
    <3>3. \A k, l \in 1..h.len : heap[n][h.arr][k] = heap[n][h.arr][l] => k = l
      <4>1. \A k, l \in 1..list[n].len :
              heap[n][list[n].arr][k] = heap[n][list[n].arr][l] => k = l
        BY <2>0, Zenon DEF ListedOnce, Elem
      <4>. QED
        BY <4>1, Zenon
    <3>4. heap'[n][list'[n].arr][h.len + 1] = s
      BY <1>2
    <3>5. CASE i \in 1..h.len /\ j \in 1..h.len
      <4>1. heap[n][h.arr][i] = heap[n][h.arr][j]
        BY <1>k, <2>1, <3>5
      <4>. QED
        BY <3>3, <3>5, <4>1
    <3>. QED
      BY <2>1, <3>1, <3>2, <3>4, <3>5, Zenon
  <2>2. \A m \in Names \ {n} : \A i, j \in 1..list[m].len :
          heap[m][list[m].arr][i] = heap[m][list[m].arr][j] => i = j
    BY <2>0 DEF ListedOnce, Elem
  <2>3. ASSUME NEW m \in Names, NEW i \in 1..list'[m].len, NEW j \in 1..list'[m].len,
               heap'[m][list'[m].arr][i] = heap'[m][list'[m].arr][j]
        PROVE  i = j
    <3>1. CASE m = n
      <4>1. i \in 1..h.len + 1 /\ j \in 1..h.len + 1
        BY <1>2, <3>1
      <4>. QED
        BY <2>1, <2>3, <3>1, <4>1, Zenon
    <3>2. CASE m # n
      <4>1. heap'[m] = heap[m] /\ list'[m] = list[m] /\ m \in Names \ {n}
        BY <1>2, <3>2
      <4>2. /\ i \in 1..list[m].len /\ j \in 1..list[m].len
            /\ heap[m][list[m].arr][i] = heap[m][list[m].arr][j]
        BY <2>3, <4>1
      <4>. QED
        BY <2>2, <4>1, <4>2, Zenon
    <3>. QED
      BY <3>1, <3>2
  <2>. QED
    BY <2>3 DEF ListedOnce, Elem
<1>10. ASSUME NEW t \in Subs \ {s} PROVE Handler(t)'
  <2>1. /\ Handler(t) /\ conn'[t] = conn[t] /\ mutex # t /\ disp' = disp /\ closed' = closed
        /\ conn[t].pc # "appending"
        /\ conn[t].pc \in Looping => conn[t].at \in Names
    BY <1>0, MoverFacts DEF ListsInv, Handler, Guarded, SubscribeAppend
  <2>2. \A m \in Names : /\ InSlot(t, m)' => InSlot(t, m)
                         /\ Listed(t, m)' <=> Listed(t, m)
                         /\ Front(t, m) => Front(t, m)'
                         /\ \A a \in 1..Len(heap'[m]) :
                              First(t, m, a)' => First(t, m, a) \/ Front(t, m)'
    BY <1>4, <1>5, <1>6, <1>7
  <2>. QED
    BY <1>8, <2>1, <2>2, Bystander
<1>11. Handler(s)'
  <2>. DEFINE left == conn[s].todo \ {n}
              pc == IF left = {} THEN "live" ELSE "subscribing"
  <2>1. /\ conn' = [conn EXCEPT ![s].pc = pc, ![s].todo = left, ![s].at = Nil, ![s].hdr = NilSlice]
        /\ mutex' = IF left = {} THEN Nil ELSE mutex
        /\ disp' = disp /\ closed' = closed
    BY <1>0 DEF SubscribeAppend
  <2>. HIDE DEF pc
  <2>2. conn'[s].pc = pc /\ conn'[s].todo = left /\ conn'[s].names = conn[s].names
    BY <1>0, <2>1 DEF ConnRec
  <2>3. Guarded(s)' /\ Phases(s)' /\ InLoop(s)'
    <3>1. disp.pc # "off" /\ s \notin closed
      BY <1>0, MoverFacts DEF Phases
    <3>2. left \subseteq conn[s].names /\ (pc = "live" => left = {} /\ mutex' = Nil)
          /\ pc \in {"live", "subscribing"} /\ (pc = "subscribing" => mutex' = s)
      BY <1>0, <2>1 DEF pc
    <3>3. Guarded(s)'
      BY <2>2, <3>2 DEF Guarded, Looping
    <3>4. Phases(s)'
      BY <2>1, <2>2, <3>1, <3>2 DEF Phases, Looping
    <3>5. InLoop(s)'
      BY <2>2, <3>2 DEF InLoop, Looping
    <3>. QED
      BY <3>3, <3>4, <3>5
  <2>4. \A m \in Names : Entered(s, m)' <=> Entered(s, m) \/ m = n
    BY <1>0, <2>2 DEF Entered, pc
  <2>5. conn'[s].pc \notin Leaving
    BY <2>2 DEF Leaving, pc
  <2>6. InLists(s)'
    <3>. SUFFICES ASSUME NEW m \in Names
                  PROVE  /\ InSlot(s, m)' => Entered(s, m)'
                         /\ Entered(s, m)' => Listed(s, m)'
                         /\ \A a : First(s, m, a)' /\ Listed(s, m)' => Front(s, m)'
      BY <2>5 DEF InLists
    <3>1. /\ InSlot(s, m) => Entered(s, m)
          /\ Entered(s, m) => Listed(s, m)
          /\ \A a : First(s, m, a) /\ Listed(s, m) => Front(s, m)
      BY <1>0, MoverFacts DEF InLists, Leaving, First
    <3>. QED
      BY <1>3, <1>4, <1>5, <1>6, <1>7, <2>4, <3>1
  <2>. QED
    BY <2>3, <2>6 DEF Handler
<1>. QED
  BY <1>9, <1>10, <1>11

LEMMA NextStillIn ==
  ASSUME NEW k \in Nat, NEW l \in Nat, NEW j \in 1..k, j < l, l <= k
  PROVE  j + 1 \in 1..k
OBVIOUS

\* What is removed is s and the first; whoever came second is now in front.
LEMMA RemoveLists ==
  ASSUME ListsInv, NEW s \in Subs, UnsubscribeRemove(s)
  PROVE  ListedOnce' /\ \A t \in Subs : Handler(t)'
<1>0. /\ conn[s] \in ConnRec /\ conn \in [Subs -> ConnRec] /\ s # Nil
      /\ conn[s].pc = "holding" /\ conn[s].cur = s /\ mutex = s /\ conn[s].i = 1
      /\ conn[s].at \in Names /\ Front(s, conn[s].at)
  BY MoverFacts DEF UnsubscribeRemove, Guarded, InLoop, Looping
<1>. PICK n \in Names : n = conn[s].at
  BY <1>0
<1>1. /\ HeapType /\ list[n] \in Slice /\ list[n].len \in Nat /\ Fits(n, list[n])
      /\ list[n].len >= 1 /\ heap[n][list[n].arr][1] = s
  BY <1>0 DEF ListsInv, TypeInv, TypeOK, SlicesFit, HeapType, Cell, Slice, Front, Elem
<1>. PICK l \in Nat : l = list[n].len
  BY <1>1
<1>2. RemoveAt(n, 1)
  BY <1>0, <1>1 DEF UnsubscribeRemove
<1>3. /\ \A m \in Names \ {n} : heap'[m] = heap[m] /\ list'[m] = list[m]
      /\ list'[n].len = l - 1 /\ list'[n].arr = list[n].arr
      /\ list[n].arr \in 1..Len(heap[n])
      /\ Len(heap'[n]) = Len(heap[n])
      /\ \A a \in 1..Len(heap[n]) : Len(heap'[n][a]) = Len(heap[n][a])
      /\ \A a \in 1..Len(heap[n]) : a # list[n].arr => heap'[n][a] = heap[n][a]
      /\ \A j \in 1..Len(heap[n][list[n].arr]) :
           heap'[n][list[n].arr][j] = IF 1 <= j /\ j < l THEN heap[n][list[n].arr][j + 1]
                                                         ELSE heap[n][list[n].arr][j]
  <2>1. 1 \in 1..list[n].len /\ HeapType /\ Fits(n, list[n]) /\ RemoveAt(n, 1)
    BY <1>1, <1>2
  <2>2. /\ \A m \in Names \ {n} : heap'[m] = heap[m] /\ list'[m] = list[m]
        /\ list'[n].len = list[n].len - 1 /\ list'[n].arr = list[n].arr
        /\ list[n].arr \in 1..Len(heap[n])
        /\ Len(heap'[n]) = Len(heap[n])
    BY <2>1, RemoveEffect, Zenon
  <2>3. /\ \A a \in 1..Len(heap[n]) : Len(heap'[n][a]) = Len(heap[n][a])
        /\ \A a \in 1..Len(heap[n]) : a # list[n].arr => heap'[n][a] = heap[n][a]
    BY <2>1, RemoveEffect, Zenon
  <2>4. \A j \in 1..Len(heap[n][list[n].arr]) :
          heap'[n][list[n].arr][j] =
            IF 1 <= j /\ j < list[n].len THEN heap[n][list[n].arr][j + 1]
                                         ELSE heap[n][list[n].arr][j]
    BY <2>1, RemoveEffect, Zenon
  <2>. QED
    BY <2>2, <2>3, <2>4
<1>o. \A m \in Names \ {n} : heap'[m] = heap[m] /\ list'[m] = list[m]
  BY <1>3
<1>4. Len(heap[n][list[n].arr]) \in Nat /\ l <= Len(heap[n][list[n].arr]) /\ l >= 1
  <2>1. heap[n][list[n].arr] \in Seq(Cell)
    BY <1>1, <1>3, ElementOfSeq DEF HeapType
  <2>2. list[n].arr # 0
    <3>1. list[n].arr \in 1..Len(heap[n]) /\ Len(heap[n]) \in Nat
      BY <1>1, <1>3, LenProperties DEF HeapType
    <3>. QED
      BY <3>1
  <2>3. list[n].len <= Len(heap[n][list[n].arr])
    BY <1>1, <2>2 DEF Fits, Array
  <2>. QED
    BY <1>1, <2>1, <2>3, LenProperties
<1>5. \A j \in 1..l - 1 : /\ j + 1 \in 1..l
                          /\ heap'[n][list[n].arr][j] = heap[n][list[n].arr][j + 1]
  <2>. TAKE j \in 1..l - 1
  <2>1. j + 1 \in 1..l /\ j \in 1..Len(heap[n][list[n].arr]) /\ 1 <= j /\ j < l
    BY <1>4
  <2>2. heap'[n][list[n].arr][j] = IF 1 <= j /\ j < l THEN heap[n][list[n].arr][j + 1]
                                                      ELSE heap[n][list[n].arr][j]
    BY <1>3, <2>1, Zenon
  <2>. QED
    BY <2>1, <2>2
<1>6. \A i, j \in 1..l : heap[n][list[n].arr][i] = heap[n][list[n].arr][j] => i = j
  <2>1. \A i, j \in 1..list[n].len :
          heap[n][list[n].arr][i] = heap[n][list[n].arr][j] => i = j
    BY Zenon DEF ListsInv, ListedOnce, Elem
  <2>. QED
    BY <2>1, Zenon
<1>7. \A t \in Subs : \A m \in Names \ {n} :
        /\ InSlot(t, m)' <=> InSlot(t, m)
        /\ Listed(t, m)' <=> Listed(t, m)
        /\ Front(t, m)' <=> Front(t, m)
        /\ \A a : First(t, m, a)' <=> First(t, m, a)
  <2>1. \A t \in Subs : \A m \in Names \ {n} : InSlot(t, m)' <=> InSlot(t, m)
    BY <1>o DEF InSlot
  <2>2. \A t \in Subs : \A m \in Names \ {n} : Listed(t, m)' <=> Listed(t, m)
    BY <1>o DEF Listed, Elem
  <2>3. \A t \in Subs : \A m \in Names \ {n} : Front(t, m)' <=> Front(t, m)
    BY <1>o DEF Front, Elem
  <2>4. \A t \in Subs : \A m \in Names \ {n} : \A a : First(t, m, a)' <=> First(t, m, a)
    BY <1>o DEF First
  <2>. QED
    BY <2>1, <2>2, <2>3, <2>4
<1>8. \A t \in Subs : Listed(t, n)' <=> Listed(t, n) /\ t # s
  <2>1. ASSUME NEW t \in Subs, Listed(t, n)' PROVE Listed(t, n) /\ t # s
    <3>1. PICK j \in 1..l - 1 : heap'[n][list[n].arr][j] = t
      BY <1>3, <2>1 DEF Listed, Elem
    <3>2. j + 1 \in 1..l /\ heap[n][list[n].arr][j + 1] = t
      BY <1>5, <3>1
    <3>3. t # s
      <4>1. 1 \in 1..l /\ j + 1 # 1
        BY <1>4
      <4>. QED
        BY <1>1, <1>6, <3>2, <4>1
    <3>. QED
      BY <3>2, <3>3 DEF Listed, Elem
  <2>2. ASSUME NEW t \in Subs, Listed(t, n), t # s PROVE Listed(t, n)'
    <3>1. PICK i \in 1..l : heap[n][list[n].arr][i] = t
      BY <2>2 DEF Listed, Elem
    <3>2. i # 1
      BY <1>1, <2>2, <3>1
    <3>3. i - 1 \in 1..l - 1 /\ (i - 1) + 1 = i
      BY <3>2
    <3>4. heap'[n][list[n].arr][i - 1] = t
      BY <1>5, <3>1, <3>3
    <3>. QED
      BY <1>3, <3>3, <3>4 DEF Listed, Elem
  <2>. QED
    BY <2>1, <2>2
<1>9. \A t \in Subs : InSlot(t, n)' => InSlot(t, n)
  <2>. SUFFICES ASSUME NEW t \in Subs, InSlot(t, n)' PROVE InSlot(t, n)
    OBVIOUS
  <2>1. PICK a \in 1..Len(heap'[n]) : \E j \in 1..Len(heap'[n][a]) : heap'[n][a][j] = t
    BY DEF InSlot
  <2>2. PICK j \in 1..Len(heap'[n][a]) : heap'[n][a][j] = t
    BY <2>1
  <2>3. a \in 1..Len(heap[n]) /\ j \in 1..Len(heap[n][a])
    BY <1>3, <2>1, <2>2
  <2>4. CASE a # list[n].arr
    BY <1>3, <2>2, <2>3, <2>4 DEF InSlot
  <2>5. CASE a = list[n].arr /\ j < l
    <3>1. heap[n][a][j + 1] = t
      <4>1. j \in 1..l - 1
        BY <1>4, <2>3, <2>5
      <4>. QED
        BY <1>5, <2>2, <2>5, <4>1
    <3>2. j + 1 \in 1..Len(heap[n][a])
      <4>. PICK k \in Nat : k = Len(heap[n][a])
        BY <1>4, <2>5
      <4>1. j \in 1..k /\ l <= k
        BY <1>4, <2>3, <2>5
      <4>2. j + 1 \in 1..k
        BY <2>5, <4>1, NextStillIn, Zenon
      <4>. QED
        BY <4>2, Zenon
    <3>. QED
      BY <2>3, <3>1, <3>2 DEF InSlot
  <2>6. CASE a = list[n].arr /\ ~(j < l)
    <3>1. heap[n][a][j] = t
      BY <1>3, <2>2, <2>3, <2>6
    <3>. QED
      BY <2>3, <3>1 DEF InSlot
  <2>. QED
    BY <2>4, <2>5, <2>6
<1>10. \A t \in Subs : Front(t, n) => t = s
  BY <1>1 DEF Front, Elem
<1>11. \A t \in Subs \ {s} : \A a : First(t, n, a)' => First(t, n, a) \/ Front(t, n)'
  <2>1. ASSUME NEW t \in Subs \ {s}, NEW a, First(t, n, a)' PROVE First(t, n, a) \/ Front(t, n)'
    <3>1. a \in 1..Len(heap[n]) /\ heap'[n][a][1] = t
      BY <1>3, <2>1 DEF First
    <3>2. CASE a # list[n].arr
      BY <1>3, <3>1, <3>2 DEF First
    <3>3. CASE a = list[n].arr /\ l > 1
      <4>1. l - 1 >= 1
        BY <3>3
      <4>. QED
        BY <1>3, <3>1, <3>3, <4>1 DEF Front, Elem
    <3>4. CASE a = list[n].arr /\ ~(l > 1)
      <4>1. 1 \in 1..Len(heap[n][list[n].arr]) /\ ~(1 < l)
        BY <1>4, <3>4
      <4>2. heap'[n][a][1] = s
        BY <1>1, <1>3, <3>4, <4>1
      <4>. QED
        BY <3>1, <4>2
    <3>. QED
      BY <3>2, <3>3, <3>4
  <2>. QED
    BY <2>1
<1>12. ListedOnce'
  <2>1. ASSUME NEW m \in Names, NEW i \in 1..list'[m].len, NEW j \in 1..list'[m].len,
               heap'[m][list'[m].arr][i] = heap'[m][list'[m].arr][j]
        PROVE  i = j
    <3>1. CASE m = n
      <4>1. i \in 1..l - 1 /\ j \in 1..l - 1
        BY <1>3, <3>1
      <4>2. heap[n][list[n].arr][i + 1] = heap[n][list[n].arr][j + 1]
        <5>1. heap'[n][list[n].arr][i] = heap'[n][list[n].arr][j]
          BY <1>3, <2>1, <3>1
        <5>. QED
          BY <1>5, <4>1, <5>1, Zenon
      <4>3. i + 1 = j + 1
        BY <1>5, <1>6, <4>1, <4>2
      <4>. QED
        BY <4>1, <4>3
    <3>2. CASE m # n
      <4>1. heap'[m] = heap[m] /\ list'[m] = list[m]
        BY <1>o, <3>2
      <4>2. \A k, o \in 1..list[m].len :
              heap[m][list[m].arr][k] = heap[m][list[m].arr][o] => k = o
        <5>1. ListedOnce
          BY DEF ListsInv
        <5>. QED
          BY <5>1 DEF ListedOnce, Elem
      <4>. QED
        BY <2>1, <4>1, <4>2
    <3>. QED
      BY <3>1, <3>2
  <2>. QED
    BY <2>1 DEF ListedOnce, Elem
<1>13. /\ conn' = [conn EXCEPT ![s].pc = "leaving", ![s].todo = @ \ {n},
                               ![s].at = Nil, ![s].hdr = NilSlice, ![s].i = 0, ![s].cur = Nil]
       /\ mutex' = Nil /\ disp' = disp /\ closed' = closed
  BY DEF UnsubscribeRemove, UnsubscribeReturn
<1>14. ASSUME NEW t \in Subs \ {s} PROVE Handler(t)'
  <2>1. /\ Handler(t) /\ conn'[t] = conn[t] /\ mutex # t
        /\ conn[t].pc # "appending"
        /\ conn[t].pc \in Looping => conn[t].at \in Names
    BY <1>0, <1>13, MoverFacts DEF ListsInv, Handler, Guarded
  <2>2. \A m \in Names : /\ InSlot(t, m)' => InSlot(t, m)
                         /\ Listed(t, m)' <=> Listed(t, m)
                         /\ Front(t, m) => Front(t, m)'
                         /\ \A a \in 1..Len(heap'[m]) :
                              First(t, m, a)' => First(t, m, a) \/ Front(t, m)'
    <3>. TAKE m \in Names
    <3>1. CASE m = n
      BY <1>8, <1>9, <1>10, <1>11, <3>1
    <3>2. CASE m # n
      BY <1>7, <3>2
    <3>. QED
      BY <3>1, <3>2
  <2>3. conn[t].pc \in Looping /\ First(t, conn[t].at, conn[t].hdr.arr)
          => First(t, conn[t].at, conn[t].hdr.arr)'
    <3>. SUFFICES ASSUME conn[t].pc \in Looping, First(t, conn[t].at, conn[t].hdr.arr)
                  PROVE  First(t, conn[t].at, conn[t].hdr.arr)'
      OBVIOUS
    <3>. PICK m \in Names : m = conn[t].at
      BY <2>1
    <3>1. Listed(t, m)
      BY MoverFacts DEF Phases, InLists, Entered, Looping
    <3>2. Front(t, m)
      BY <3>1, MoverFacts DEF InLists, First
    <3>3. m # n
      BY <1>10, <3>2
    <3>4. First(t, m, conn[t].hdr.arr)'
      BY <1>o, <2>1, <3>3 DEF First
    <3>. QED
      BY <2>1, <3>4
  <2>. QED
    BY <1>13, <2>1, <2>2, <2>3, Bystander
<1>15. Handler(s)'
  <2>1. /\ conn'[s].pc = "leaving" /\ conn'[s].todo = conn[s].todo \ {n}
        /\ conn'[s].names = conn[s].names
    BY <1>0, <1>13 DEF ConnRec
  <2>2. Guarded(s)' /\ Phases(s)' /\ InLoop(s)'
    BY <1>0, <1>13, <2>1, MoverFacts DEF Guarded, Phases, InLoop, Looping
  <2>3. InLists(s)'
    <3>. SUFFICES ASSUME NEW m \in Names
                  PROVE  /\ InSlot(s, m)' => Entered(s, m)'
                         /\ Listed(s, m)' => m \in conn'[s].todo
                         /\ Entered(s, m)' /\ m \in conn'[s].todo => Listed(s, m)'
                         /\ \A a : First(s, m, a)' /\ Listed(s, m)' => Front(s, m)'
      BY <2>1 DEF InLists, Leaving
    <3>1. /\ InSlot(s, m) => Entered(s, m)
          /\ Listed(s, m) => m \in conn[s].todo
          /\ Entered(s, m) /\ m \in conn[s].todo => Listed(s, m)
          /\ \A a : First(s, m, a) /\ Listed(s, m) => Front(s, m)
      BY <1>0, MoverFacts DEF InLists, Leaving, First
    <3>2. Entered(s, m)' <=> Entered(s, m)
      BY <1>0, <2>1 DEF Entered
    <3>3. CASE m = n
      BY <1>8, <1>9, <2>1, <3>1, <3>2, <3>3
    <3>4. CASE m # n
      BY <1>7, <2>1, <3>1, <3>2, <3>4
    <3>. QED
      BY <3>3, <3>4
  <2>. QED
    BY <2>2, <2>3 DEF Handler
<1>. QED
  BY <1>12, <1>14, <1>15

\* Steps that touch neither the lists nor a handler.
LEMMA DispatcherLists ==
  ASSUME ListsInv, UNCHANGED <<heap, list, mutex, conn, closed>>,
         disp'.pc = "off" => disp.pc = "off"
  PROVE  ListedOnce' /\ \A t \in Subs : Handler(t)'
<1>1. ListedOnce'
  BY Frozen DEF ListsInv
<1>2. ASSUME NEW t \in Subs PROVE Handler(t)'
  <2>1. Handler(t) /\ (conn[t].pc \in Looping => conn[t].at \in Names)
    BY MoverFacts DEF ListsInv
  <2>2. First(t, conn[t].at, conn[t].hdr.arr) => First(t, conn[t].at, conn[t].hdr.arr)'
    BY DEF First
  <2>3. \A n \in Names : /\ InSlot(t, n)' => InSlot(t, n)
                         /\ Listed(t, n)' <=> Listed(t, n)
                         /\ Front(t, n) => Front(t, n)'
                         /\ \A a \in 1..Len(heap'[n]) :
                              First(t, n, a)' => First(t, n, a) \/ Front(t, n)'
    BY Frozen
  <2>. QED
    BY <2>1, <2>2, <2>3, Bystander
<1>. QED
  BY <1>1, <1>2

\* Start finds the lists empty: nobody has subscribed before it.
LEMMA StartLists ==
  ASSUME ListsInv, Start
  PROVE  ListedOnce' /\ \A t \in Subs : Handler(t)'
<1>1. /\ \A t \in Subs : conn[t].pc = "off" /\ conn'[t] = conn[t] /\ t \notin closed
      /\ \A n \in Names : list'[n] = NilSlice
      /\ heap' = heap /\ closed' = closed
  BY MoverFacts DEF Start, Phases
<1>2. \A t \in Subs, n \in Names : ~Listed(t, n)' /\ ~Entered(t, n) /\ ~Entered(t, n)'
  BY <1>1 DEF Listed, Entered, NilSlice
<1>3. \A t \in Subs, n \in Names : ~InSlot(t, n)'
  <2>1. \A t \in Subs, n \in Names : ~InSlot(t, n)
    BY <1>2, MoverFacts DEF InLists
  <2>. QED
    BY <1>1, <2>1 DEF InSlot
<1>4. ListedOnce'
  BY <1>1 DEF ListedOnce, NilSlice
<1>5. ASSUME NEW t \in Subs PROVE Handler(t)'
  BY <1>1, <1>2, <1>3 DEF Handler, Guarded, Phases, InLists, InLoop, Looping
<1>. QED
  BY <1>4, <1>5

LEMMA ListsNext == ListsInv /\ [Next]_vars => ListsInv'
<1>. SUFFICES ASSUME ListsInv, [Next]_vars
              PROVE  ListedOnce' /\ \A t \in Subs : Handler(t)'
  BY TypeInvNext DEF ListsInv, Locked
<1>1. ASSUME NEW s \in Subs, Subscribing(s)
      PROVE  ListedOnce' /\ \A t \in Subs : Handler(t)'
  BY <1>1, SubscribingLists, AppendLists DEF Subscribing
<1>2. ASSUME NEW s \in Subs, Receive(s) \/ WriteOK(s) \/ WriteFails(s) \/ CloseChannel(s)
      PROVE  ListedOnce' /\ \A t \in Subs : Handler(t)'
  BY <1>2, SocketLists
<1>3. ASSUME NEW s \in Subs, Unsubscribing(s)
      PROVE  ListedOnce' /\ \A t \in Subs : Handler(t)'
  BY <1>2, <1>3, LoopLists, RemoveLists DEF Unsubscribing
<1>4. CASE Start
  BY <1>4, StartLists
<1>5. CASE (\E n \in Names : PublishTaken(n)) \/ PublishDropped \/ Tick \/ MapRace \/ Dispatching
  <2>1. disp \in DispRec
    BY DEF ListsInv, TypeInv, TypeOK, DispRec
  <2>2. UNCHANGED <<heap, list, mutex, conn, closed>>
    BY <1>5 DEF PublishTaken, PublishDropped, Tick, MapRace, Dispatching, BeatEnd, BeatName,
                FanRead, FanEnd, Send, SendPanics
  <2>3. disp'.pc = "off" => disp.pc = "off"
    <3>1. CASE \E n \in Names : PublishTaken(n) \/ BeatName(n)
      BY <2>1, <3>1 DEF PublishTaken, BeatName, DispRec
    <3>2. CASE PublishDropped \/ MapRace \/ SendPanics
      BY <3>2 DEF PublishDropped, MapRace, SendPanics
    <3>3. CASE Tick \/ BeatEnd \/ FanEnd
      BY <3>3 DEF Tick, BeatEnd, FanEnd, DispAt
    <3>4. CASE FanRead \/ Send
      BY <2>1, <3>4 DEF FanRead, Send, DispRec
    <3>. QED
      BY <1>5, <3>1, <3>2, <3>3, <3>4 DEF Dispatching
  <2>. QED
    BY <2>2, <2>3, DispatcherLists
<1>6. CASE UNCHANGED vars
  BY <1>6, DispatcherLists DEF vars
<1>. QED
  BY <1>1, <1>2, <1>3, <1>4, <1>5, <1>6 DEF Next

LEMMA ListsInvImplies == ListsInv => ListsMatch
<1>. SUFFICES ASSUME ListsInv PROVE LiveListed /\ ClosedNotListed
  BY DEF ListsInv, ListsMatch
<1>1. LiveListed
  <2>. SUFFICES ASSUME NEW s \in Subs, conn[s].pc \in {"live", "writing"},
                       NEW n \in Names, n \in conn[s].names
                PROVE  Listed(s, n)
    BY MoverFacts DEF LiveListed, ConnRec
  <2>1. Entered(s, n) /\ conn[s].pc \notin Leaving
    BY DEF Entered, Leaving
  <2>. QED
    BY <2>1, MoverFacts DEF InLists
<1>2. ClosedNotListed
  <2>. SUFFICES ASSUME NEW s \in closed, NEW n \in Names, Listed(s, n) PROVE FALSE
    BY DEF ClosedNotListed
  <2>1. s \in Subs
    BY DEF ListsInv, TypeInv, TypeOK
  <2>2. conn[s].pc = "gone" /\ conn[s].todo = {}
    BY <2>1, MoverFacts DEF Phases
  <2>. QED
    BY <2>1, <2>2, MoverFacts DEF InLists, Leaving
<1>. QED
  BY <1>1, <1>2

\* When Subscribe takes the mutex, and nobody subscribes before Start, the lists
\* hold exactly the live handlers, once each, and no closed channel: the index
\* that Unsubscribe reads before it takes the mutex is always the right one.
THEOREM ListsAreExact == LockedSubscribe /\ Boot = {} => (Spec => []ListsMatch)
<1>. SUFFICES ASSUME LockedSubscribe, Boot = {} PROVE Spec => []ListsMatch
  OBVIOUS
<1>1. Init => ListsInv
  BY ListsInit DEF Locked
<1>. QED
  BY <1>1, ListsNext, ListsInvImplies, PTL DEF Spec

-----------------------------------------------------------------------------
(***************************************************************************)
(* The order in which a socket sees the events, whether or not Subscribe   *)
(* takes the mutex: what is on its way is never older than what is ahead   *)
(* of it - from the socket back to the item being written, the channel and *)
(* the event the dispatcher is fanning out.                                *)
(***************************************************************************)
\* A heartbeat has no place in the order.
Before(k, e) == e # Heartbeat => k <= e.id

\* e waits for the handler at c, while the dispatcher has d; k were published.
Waiting(e, c, d, k) ==
  e.id <= k /\ Before(c.seen, e) /\ Before(c.got.id, e) /\ Before(e.id, d)

Ordered(s) ==
  /\ conn[s].seen <= published /\ conn[s].got.id <= published
  /\ Before(conn[s].seen, conn[s].got)
  /\ Before(conn[s].seen, disp.ev) /\ Before(conn[s].got.id, disp.ev)
  /\ \A i \in 1..Len(buf[s]) : Waiting(buf[s][i], conn[s], disp.ev, published)

OrderInv == TypeInv /\ disp.ev.id <= published /\ \A s \in Subs : Ordered(s)

LEMMA OrderInit == Init => OrderInv
<1>. SUFFICES ASSUME Init PROVE OrderInv
  OBVIOUS
<1>1. TypeInv
  BY TypeInvInit
<1>2. published = 0 /\ disp.ev = Heartbeat /\ Heartbeat.id = 0
  BY DEF Init, DispAt, Heartbeat
<1>3. ASSUME NEW s \in Subs PROVE Ordered(s)
  <2>1. conn[s] = NewConn /\ buf[s] = <<>>
    BY DEF Init
  <2>2. conn[s].seen = 0 /\ conn[s].got = Heartbeat /\ Len(buf[s]) = 0
    BY <2>1 DEF NewConn
  <2>. QED
    BY <1>2, <2>2 DEF Ordered, Before
<1>. QED
  BY <1>1, <1>2, <1>3 DEF OrderInv

LEMMA OrderTypes ==
  ASSUME OrderInv
  PROVE  /\ published \in Nat /\ disp.ev \in Item /\ disp.ev.id \in Nat /\ Heartbeat \in Item /\ Heartbeat.id = 0
         /\ \A s \in Subs : /\ conn[s] \in ConnRec /\ conn[s].seen \in Nat /\ conn[s].got \in Item
                            /\ conn[s].got.id \in Nat /\ buf[s] \in Seq(Item)
                            /\ Len(buf[s]) \in {0, 1}
                            /\ \A i \in 1..Len(buf[s]) : buf[s][i] \in Item /\ buf[s][i].id \in Nat
<1>1. TypeOK
  BY DEF OrderInv, TypeInv
<1>2. published \in Nat /\ disp.ev \in Item /\ disp.ev.id \in Nat /\ Heartbeat \in Item /\ Heartbeat.id = 0
  BY <1>1, BoundAssumption DEF TypeOK, Item, Heartbeat
<1>3. ASSUME NEW s \in Subs
      PROVE  /\ conn[s] \in ConnRec /\ conn[s].seen \in Nat /\ conn[s].got \in Item /\ conn[s].got.id \in Nat
             /\ buf[s] \in Seq(Item) /\ Len(buf[s]) \in {0, 1}
             /\ \A i \in 1..Len(buf[s]) : buf[s][i] \in Item /\ buf[s][i].id \in Nat
  <2>1. conn[s] \in ConnRec /\ buf[s] \in Seq(Item) /\ Len(buf[s]) <= 1
    BY <1>1 DEF TypeOK, ConnRec, ChanCap
  <2>2. Len(buf[s]) \in Nat
    BY <2>1, LenProperties
  <2>3. \A i \in 1..Len(buf[s]) : buf[s][i] \in Item
    BY <2>1, ElementOfSeq
  <2>4. Len(buf[s]) \in {0, 1}
    <3>1. \A k \in Nat : k <= 1 => k \in {0, 1}
      OBVIOUS
    <3>. QED
      BY <2>1, <2>2, <3>1, Zenon
  <2>5. conn[s].seen \in Nat /\ conn[s].got \in Item
    BY <2>1 DEF ConnRec
  <2>6. \A e \in Item : e.id \in Nat
    BY DEF Item
  <2>. QED
    BY <2>1, <2>3, <2>4, <2>5, <2>6
<1>. QED
  BY <1>2, <1>3

\* A step that moves no item along; the dispatcher may drop its own.
LEMMA OrderFrame ==
  ASSUME OrderInv, TypeInv', buf' = buf, \A s \in Subs : conn'[s].seen = conn[s].seen /\ conn'[s].got = conn[s].got,
         disp'.ev = disp.ev \/ disp'.ev = Heartbeat, published' = published \/ published' = published + 1
  PROVE  OrderInv' /\ \A s \in Subs : conn'[s].seen >= conn[s].seen
<1>1. disp'.ev.id <= published' /\ published' >= published
  BY OrderTypes DEF OrderInv
<1>2. ASSUME NEW s \in Subs PROVE Ordered(s)' /\ conn'[s].seen >= conn[s].seen
  <2>1. Ordered(s) /\ conn'[s].seen = conn[s].seen /\ conn'[s].got = conn[s].got /\ buf'[s] = buf[s]
    BY DEF OrderInv
  <2>2. published \in Nat /\ conn[s].seen \in Nat /\ conn[s].got.id \in Nat
    BY OrderTypes
  <2>3. ASSUME NEW i \in 1..Len(buf'[s]) PROVE Waiting(buf[s][i], conn'[s], disp'.ev, published')
    <3>1. Waiting(buf[s][i], conn[s], disp.ev, published) /\ buf[s][i].id \in Nat
      BY <2>1, <2>3, OrderTypes DEF Ordered
    <3>. QED
      BY <1>1, <2>1, <2>2, <3>1, OrderTypes DEF Waiting, Before
  <2>. QED
    BY <1>1, <2>1, <2>2, <2>3, OrderTypes DEF Ordered, Before
<1>. QED
  BY <1>1, <1>2 DEF OrderInv

Onward == OrderInv' /\ \A s \in Subs : conn'[s].seen >= conn[s].seen

\* A handler subscribes, unsubscribes or gives up: what it has read stays, and
\* the item it could not write is forgotten.
LEMMA OrderElsewhere ==
  ASSUME OrderInv, TypeInv', NEW s \in Subs, Subscribing(s) \/ Unsubscribing(s)
  PROVE  Onward
<1>1. conn \in [Subs -> ConnRec]
  BY DEF OrderInv, TypeInv, TypeOK, ConnRec
<1>2. UNCHANGED <<buf, disp, published>>
  BY DEF Subscribing, SubscribeBegin, SubscribeLoad, SubscribeAppend, Unsubscribing, UnsubscribeRange,
         UnsubscribeRead, UnsubscribeLock, UnsubscribeRemove, UnsubscribeOther, CloseChannel
<1>3. \A t \in Subs : conn'[t].seen = conn[t].seen /\ conn'[t].got = conn[t].got
  <2>2. ASSUME NEW pc, NEW td, NEW at, NEW h, conn' = [conn EXCEPT ![s].pc = pc, ![s].todo = td, ![s].at = at, ![s].hdr = h]
        PROVE  \A t \in Subs : conn'[t].seen = conn[t].seen /\ conn'[t].got = conn[t].got
    BY <1>1, <2>2 DEF ConnRec
  <2>3. CASE \E ns \in (SUBSET Names) \ {{}} : SubscribeBegin(s, ns)
    BY <1>1, <2>3 DEF SubscribeBegin, ConnRec
  <2>4. CASE \E n \in Names : SubscribeLoad(s, n)
    BY <1>1, <2>4 DEF SubscribeLoad, ConnRec
  <2>5. CASE SubscribeAppend(s)
    BY <2>2, <2>5, Zenon DEF SubscribeAppend
  <2>6. CASE \E n \in Names : UnsubscribeRange(s, n)
    BY <1>1, <2>6 DEF UnsubscribeRange, ConnRec
  <2>7. CASE UnsubscribeRead(s)
    BY <1>1, <2>7 DEF UnsubscribeRead, ConnRec
  <2>8. CASE UnsubscribeLock(s)
    BY <1>1, <2>8 DEF UnsubscribeLock, ConnRec
  <2>9. CASE UnsubscribeReturn(s)
    BY <1>1, <2>9 DEF UnsubscribeReturn, ConnRec
  <2>10. CASE UnsubscribeOther(s)
    <3>1. UnsubscribeReturn(s) \/ conn' = [conn EXCEPT ![s].pc = "reading", ![s].i = @ + 1]
      BY <2>10, Zenon DEF UnsubscribeOther
    <3>. QED
      BY <1>1, <2>9, <3>1 DEF ConnRec
  <2>11. CASE CloseChannel(s)
    BY <1>1, <2>11 DEF CloseChannel, ConnRec
  <2>. QED
    BY <2>3, <2>4, <2>5, <2>6, <2>7, <2>8, <2>9, <2>10, <2>11
       DEF Subscribing, Unsubscribing, UnsubscribeRemove
<1>4. disp'.ev = disp.ev
  BY <1>2
<1>. QED
  BY <1>2, <1>3, <1>4, OrderFrame DEF Onward

\* The dispatcher's steps that neither take an event nor offer one.
LEMMA OrderDispatcher ==
  ASSUME OrderInv, TypeInv',
         \/ Start \/ PublishDropped \/ Tick \/ MapRace \/ BeatEnd \/ (\E n \in Names : BeatName(n))
         \/ FanRead \/ FanEnd \/ SendPanics \/ UNCHANGED vars
  PROVE  Onward
<1>1. buf' = buf /\ conn' = conn /\ (published' = published \/ published' = published + 1)
  BY DEF Start, PublishDropped, Tick, MapRace, BeatEnd, BeatName, FanRead, FanEnd, SendPanics, vars
<1>2. disp'.ev = disp.ev \/ disp'.ev = Heartbeat
  <2>1. disp \in [pc : DispPC, ev : Item, name : Names \cup {Nil}, hdr : Slice,
                  i : Nat, c : Subs \cup {Nil}, rest : SUBSET Names]
    BY DEF OrderInv, TypeInv, TypeOK
  <2>2. \A pc, rest : DispAt(pc, rest).ev = Heartbeat
    BY DEF DispAt
  <2>3. CASE Start \/ Tick \/ BeatEnd \/ FanEnd
    BY <2>2, <2>3, Zenon DEF Start, Tick, BeatEnd, FanEnd
  <2>4. CASE \E n \in Names : BeatName(n)
    BY <2>1, <2>4 DEF BeatName
  <2>5. CASE FanRead
    BY <2>1, <2>5 DEF FanRead
  <2>6. CASE PublishDropped \/ MapRace \/ SendPanics \/ UNCHANGED vars
    BY <2>6 DEF PublishDropped, MapRace, SendPanics, vars
  <2>. QED
    BY <2>3, <2>4, <2>5, <2>6
<1>. QED
  BY <1>1, <1>2, OrderFrame DEF Onward

\* An item moves from the channel to the handler, and from there to the socket.
LEMMA OrderHandler ==
  ASSUME OrderInv, TypeInv', NEW s \in Subs, Receive(s) \/ WriteOK(s) \/ WriteFails(s)
  PROVE  Onward
<1>1. conn \in [Subs -> ConnRec] /\ buf \in [Subs -> Seq(Item)]
  BY DEF OrderInv, TypeInv, TypeOK, ConnRec
<1>2. disp' = disp /\ published' = published
  BY DEF Receive, WriteOK, WriteFails
<1>3. /\ \A t \in Subs \ {s} : conn'[t] = conn[t] /\ buf'[t] = buf[t]
  BY <1>1 DEF Receive, WriteOK, WriteFails
<1>4. \A t \in Subs \ {s} : Ordered(t)'
  BY <1>2, <1>3 DEF OrderInv, Ordered, Waiting
<1>5. Ordered(s) /\ OrderInv
  BY DEF OrderInv
<1>6. ASSUME Ordered(s)', conn'[s].seen >= conn[s].seen PROVE Onward
  <2>1. \A t \in Subs : conn'[t].seen >= conn[t].seen
    BY <1>3, <1>6, OrderTypes
  <2>2. disp'.ev.id <= published'
    BY <1>2 DEF OrderInv
  <2>. QED
    BY <1>4, <1>6, <2>1, <2>2 DEF OrderInv, Onward
<1>7. CASE Receive(s)
  <2>1. buf[s] # <<>> /\ Len(buf[s]) = 1
    <3>1. buf[s] # <<>>
      BY <1>7 DEF Receive
    <3>. QED
      BY <3>1, OrderTypes, EmptySeq
  <2>2. buf'[s] = Tail(buf[s]) /\ Len(buf'[s]) = 0
    BY <1>1, <1>7, <2>1, HeadTailProperties DEF Receive
  <2>3. conn'[s].seen = conn[s].seen /\ conn'[s].got = buf[s][1]
    <3>1. Head(buf[s]) = buf[s][1]
      BY <1>1, <2>1, HeadTailProperties
    <3>. QED
      BY <1>1, <1>7, <3>1 DEF Receive, ConnRec
  <2>4. Waiting(buf[s][1], conn[s], disp.ev, published)
    BY <1>5, <2>1 DEF Ordered
  <2>5. Ordered(s)'
    BY <1>2, <1>5, <2>2, <2>3, <2>4 DEF Ordered, Waiting
  <2>. QED
    BY <1>6, <2>3, <2>5, OrderTypes
<1>8. CASE WriteOK(s)
  <2>1. buf'[s] = buf[s] /\ conn'[s].got = Heartbeat
    BY <1>1, <1>8 DEF WriteOK, ConnRec
  <2>2. conn'[s].seen = IF conn[s].got = Heartbeat THEN conn[s].seen ELSE conn[s].got.id
    BY <1>1, <1>8 DEF WriteOK, ConnRec
  <2>3. conn'[s].seen \in {conn[s].seen, conn[s].got.id} /\ conn'[s].seen >= conn[s].seen
    BY <1>5, <2>2, OrderTypes DEF Ordered, Before
  <2>4. \A i \in 1..Len(buf[s]) : Waiting(buf[s][i], conn'[s], disp'.ev, published')
    <3>. TAKE i \in 1..Len(buf[s])
    <3>1. Waiting(buf[s][i], conn[s], disp.ev, published) /\ buf[s][i].id \in Nat
      BY <1>5, OrderTypes DEF Ordered
    <3>. QED
      BY <1>2, <2>1, <2>3, <3>1, OrderTypes DEF Waiting, Before
  <2>5. Ordered(s)'
    BY <1>2, <1>5, <2>1, <2>3, <2>4, OrderTypes DEF Ordered, Before
  <2>. QED
    BY <1>6, <2>3, <2>5
<1>9. CASE WriteFails(s)
  <2>1. buf'[s] = buf[s] /\ conn'[s].got = Heartbeat /\ conn'[s].seen = conn[s].seen
    BY <1>1, <1>9 DEF WriteFails, ConnRec
  <2>2. \A i \in 1..Len(buf[s]) : Waiting(buf[s][i], conn'[s], disp'.ev, published')
    <3>. TAKE i \in 1..Len(buf[s])
    <3>1. Waiting(buf[s][i], conn[s], disp.ev, published) /\ buf[s][i].id \in Nat
      BY <1>5, OrderTypes DEF Ordered
    <3>. QED
      BY <1>2, <2>1, <3>1, OrderTypes DEF Waiting, Before
  <2>3. Ordered(s)'
    BY <1>2, <1>5, <2>1, <2>2, OrderTypes DEF Ordered, Before
  <2>. QED
    BY <1>6, <2>1, <2>3, OrderTypes
<1>. QED
  BY <1>7, <1>8, <1>9

\* The event an idle dispatcher takes is newer than all there are.
LEMMA OrderPublish ==
  ASSUME OrderInv, TypeInv', NEW n \in Names, PublishTaken(n)
  PROVE  Onward
<1>1. /\ conn' = conn /\ buf' = buf /\ published' = published + 1
      /\ disp'.ev = Event(published + 1, n)
  <2>1. disp \in [pc : DispPC, ev : Item, name : Names \cup {Nil}, hdr : Slice,
                  i : Nat, c : Subs \cup {Nil}, rest : SUBSET Names]
    BY DEF OrderInv, TypeInv, TypeOK
  <2>. QED
    BY <2>1 DEF PublishTaken
<1>2. disp'.ev.id = published + 1
  BY <1>1 DEF Event
<1>3. ASSUME NEW s \in Subs PROVE Ordered(s)' /\ conn'[s].seen >= conn[s].seen
  <2>1. Ordered(s)
    BY DEF OrderInv
  <2>2. ASSUME NEW i \in 1..Len(buf[s]) PROVE Waiting(buf[s][i], conn'[s], disp'.ev, published')
    <3>1. Waiting(buf[s][i], conn[s], disp.ev, published) /\ buf[s][i].id \in Nat
      BY <2>1, OrderTypes DEF Ordered
    <3>. QED
      BY <1>1, <1>2, <3>1, OrderTypes DEF Waiting, Before
  <2>. QED
    BY <1>1, <1>2, <2>1, <2>2, OrderTypes DEF Ordered, Before
<1>4. disp'.ev.id <= published'
  BY <1>1, <1>2, OrderTypes
<1>. QED
  BY <1>3, <1>4 DEF OrderInv, Onward

\* What is offered is the newest there is: it may wait behind the others.
LEMMA OrderSend ==
  ASSUME OrderInv, TypeInv', Send
  PROVE  Onward
<1>1. conn' = conn /\ published' = published /\ disp'.ev = disp.ev
  <2>1. disp \in [pc : DispPC, ev : Item, name : Names \cup {Nil}, hdr : Slice,
                  i : Nat, c : Subs \cup {Nil}, rest : SUBSET Names]
    BY DEF OrderInv, TypeInv, TypeOK
  <2>. QED
    BY <2>1 DEF Send
<1>2. ASSUME NEW s \in Subs PROVE Ordered(s)' /\ conn'[s].seen >= conn[s].seen
  <2>1. Ordered(s) /\ buf \in [Subs -> Seq(Item)] /\ buf[s] \in Seq(Item)
    BY DEF OrderInv, TypeInv, TypeOK
  <2>2. buf'[s] = buf[s] \/ (Len(buf[s]) = 0 /\ buf'[s] = Append(buf[s], disp.ev))
    <3>1. buf' = buf \/ (Len(buf[disp.c]) < 1 /\ buf' = [buf EXCEPT ![disp.c] = Append(buf[disp.c], disp.ev)])
      BY DEF Send, Offer, ChanCap
    <3>2. CASE s = disp.c
      BY <2>1, <3>1, <3>2, OrderTypes
    <3>3. CASE s # disp.c
      BY <2>1, <3>1, <3>3
    <3>. QED
      BY <3>2, <3>3
  <2>3. ASSUME NEW i \in 1..Len(buf'[s]) PROVE Waiting(buf'[s][i], conn'[s], disp'.ev, published')
    <3>1. CASE buf'[s] = buf[s]
      BY <1>1, <2>1, <2>3, <3>1 DEF Ordered, Waiting
    <3>2. CASE Len(buf[s]) = 0 /\ buf'[s] = Append(buf[s], disp.ev)
      <4>1. i = 1 /\ buf'[s][i] = disp.ev
        BY <2>1, <2>3, <3>2, OrderTypes, AppendProperties
      <4>2. disp.ev.id <= published /\ Before(disp.ev.id, disp.ev)
        BY OrderTypes DEF OrderInv, Before
      <4>. QED
        BY <1>1, <2>1, <4>1, <4>2 DEF Ordered, Waiting
    <3>. QED
      BY <2>2, <3>1, <3>2
  <2>. QED
    BY <1>1, <2>1, <2>3, OrderTypes DEF Ordered
<1>3. disp'.ev.id <= published'
  BY <1>1 DEF OrderInv
<1>. QED
  BY <1>2, <1>3 DEF OrderInv, Onward

LEMMA OrderNext == OrderInv /\ [Next]_vars => Onward
<1>. SUFFICES ASSUME OrderInv, [Next]_vars PROVE Onward
  OBVIOUS
<1>1. TypeInv'
  BY TypeInvNext DEF OrderInv
<1>2. ASSUME NEW s \in Subs, Subscribing(s) \/ Receive(s) \/ WriteOK(s) \/ WriteFails(s) \/ Unsubscribing(s)
      PROVE  Onward
  BY <1>1, <1>2, OrderElsewhere, OrderHandler
<1>3. ASSUME NEW n \in Names, PublishTaken(n) PROVE Onward
  BY <1>1, <1>3, OrderPublish
<1>4. CASE Send
  BY <1>1, <1>4, OrderSend
<1>5. CASE \/ Start \/ PublishDropped \/ Tick \/ MapRace \/ BeatEnd \/ (\E n \in Names : BeatName(n))
           \/ FanRead \/ FanEnd \/ SendPanics \/ UNCHANGED vars
  BY <1>1, <1>5, OrderDispatcher
<1>. QED
  BY <1>2, <1>3, <1>4, <1>5 DEF Next, Dispatching

\* Whatever is dropped, offered twice or written late, a socket sees the events
\* in the order in which they were published, whether or not Subscribe takes
\* the mutex (the channel of capacity 1 and the loop of the websocket handler).
THEOREM EventsStayInOrder == Spec => InOrder
<1>1. OrderInv /\ [Next]_vars => OrderInv' /\ [\A s \in Subs : conn'[s].seen >= conn[s].seen]_vars
  BY OrderNext, Zenon DEF Onward
<1>. QED
  BY <1>1, OrderInit, PTL DEF Spec, InOrder
=============================================================================

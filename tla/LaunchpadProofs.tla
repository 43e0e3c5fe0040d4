--------------------------- MODULE LaunchpadProofs ---------------------------
(***************************************************************************)
(* Proofs about Launchpad, for any apps, mounts and requests: what a press *)
(* does, that no order names an app twice, that the list shown is the      *)
(* server's once it is quiet, and that a drop moves no tile.  A sort is a  *)
(* choice among the sequences of a set; that one is sorted is proved from  *)
(* the number of apps up to each, and that two sorts agree from their      *)
(* comparing every two apps alike.                                         *)
(***************************************************************************)
EXTENDS Launchpad, SequenceTheorems, FiniteSetTheorems, WellFoundedInduction, TLAPS

(* A press that is still under way has done nothing yet: whatever ends it   *)
(* or takes it for a long press does its one thing and returns to idle.     *)
Undecided ==
    /\ effects \in {0, 1}
    /\ phase # "idle" => effects = 0

LEMMA UndecidedInit == Init => Undecided
BY DEF Init, Undecided

LEMMA UndecidedPointer == Undecided /\ Pointer => Undecided'
<1>. SUFFICES ASSUME Undecided, Pointer PROVE Undecided'
  OBVIOUS
<1>1. CASE LongPress
  BY <1>1 DEF LongPress, Undecided
<1>2. CASE BeginDrag
  BY <1>2 DEF BeginDrag, Undecided
<1>3. CASE Click
  BY <1>3 DEF Click, Undecided
<1>4. CASE Drop
  BY <1>4 DEF Drop, Undecided
<1>5. ASSUME NEW a \in Apps, OnTilePointerDown(a) PROVE Undecided'
  BY <1>5 DEF OnTilePointerDown, Undecided
<1>6. ASSUME NEW a \in Apps, FlipReorder(a) PROVE Undecided'
  BY <1>6 DEF FlipReorder, Undecided
<1>7. ASSUME NEW a \in Apps, OnTileContextMenu(a) PROVE Undecided'
  BY <1>7 DEF OnTileContextMenu, gesture, Undecided
<1>. QED
  BY <1>1, <1>2, <1>3, <1>4, <1>5, <1>6, <1>7 DEF Pointer

LEMMA UndecidedGone == Undecided /\ Gone => Undecided'
BY DEF Gone, Undecided

LEMMA UndecidedAnswer ==
  ASSUME NEW j, Undecided, Answer(j) PROVE Undecided'
<1>1. UNCHANGED <<gesture, effects>>
  BY Zenon DEF Answer, ServerLists, ListArrives, ListFails, UninstallSucceeds, UninstallFails, ToggleAnswered
<1>. QED
  BY <1>1 DEF gesture, Undecided

LEMMA UndecidedNext == Undecided /\ [Next]_vars => Undecided'
<1>. SUFFICES ASSUME Undecided, [Next]_vars PROVE Undecided'
  OBVIOUS
<1>1. CASE UNCHANGED vars
  BY <1>1 DEF vars, gesture, Undecided
<1>2. CASE Mount
  BY <1>2 DEF Mount, gesture, Undecided
<1>3. CASE Leave \/ Fork
  BY <1>3, UndecidedGone DEF Leave, Fork
<1>4. CASE Pointer
  BY <1>4, UndecidedPointer
<1>5. CASE ToggleAppStatus \/ CloseMenu \/ AskUninstall \/ HandleUninstall \/ CancelDialog
  BY <1>5 DEF ToggleAppStatus, CloseMenu, AskUninstall, HandleUninstall, CancelDialog, gesture, Undecided
<1>6. CASE HandleEdit
  BY <1>6, UndecidedGone DEF HandleEdit, gesture, Undecided
<1>7. ASSUME NEW mode, SetSortMode(mode) PROVE Undecided'
  BY <1>7 DEF SetSortMode, gesture, Undecided
<1>8. ASSUME NEW j \in jobs, Answer(j) PROVE Undecided'
  BY <1>8, UndecidedAnswer
<1>9. ASSUME NEW a \in Apps, InstallCompletes(a) PROVE Undecided'
  BY <1>9 DEF InstallCompletes, gesture, Undecided
<1>. QED
  BY <1>1, <1>2, <1>3, <1>4, <1>5, <1>6, <1>7, <1>8, <1>9 DEF Next

(* One press of a tile opens the app, opens its menu or reorders the tiles, *)
(* and only one of them, for any number of apps and fingers.                *)
THEOREM OnePressOneEffect == Spec => []OneEffectPerPress
<1>1. Undecided => OneEffectPerPress
  BY DEF Undecided, OneEffectPerPress
<1>. QED
  BY <1>1, UndecidedInit, UndecidedNext, PTL DEF Spec

(***************************************************************************)
(* Orders.  First the operators they are made with: the place of an app, a *)
(* filter, an insertion and a sort.                                        *)
(***************************************************************************)
LEMMA LeastNumber ==
  ASSUME NEW T, T \subseteq Nat, T # {}
  PROVE  Min(T) \in T /\ \A m \in T : Min(T) <= m
<1>1. IsWellFoundedOn(OpToRel(<, Nat), Nat)
  BY NatLessThanWellFounded
<1>2. PICK n \in T : \A y \in T : ~(<<y, n>> \in OpToRel(<, Nat))
  BY <1>1, WFMin
<1>3. ASSUME NEW m \in T PROVE n <= m
  <2>1. m \in Nat /\ n \in Nat
    OBVIOUS
  <2>2. ~(m < n)
    <3>1. m < n => <<m, n>> \in OpToRel(<, Nat)
      BY <2>1 DEF OpToRel
    <3>. QED
      BY <1>2, <3>1
  <2>. QED
    BY <2>1, <2>2
<1>. QED
  BY <1>3 DEF Min

LEMMA RankIs ==
  ASSUME NEW S, NEW s \in Seq(S), NEW a
  PROVE  /\ Contains(s, a) => Rank(s, a) \in 1..Len(s) /\ s[Rank(s, a)] = a
         /\ ~Contains(s, a) => Rank(s, a) = Len(s) + 1
         /\ Rank(s, a) \in 1..(Len(s) + 1)
<1>1. Len(s) \in Nat
  BY LenProperties
<1>2. CASE Contains(s, a)
  <2>. DEFINE I == {i \in 1..Len(s) : s[i] = a}
  <2>1. I # {} /\ I \subseteq Nat
    BY <1>1, <1>2 DEF Contains
  <2>2. Min(I) \in I
    BY <2>1, LeastNumber
  <2>3. Rank(s, a) = Min(I)
    BY <1>2, <2>1 DEF Rank, SelectInSeq
  <2>. QED
    BY <1>1, <1>2, <2>2, <2>3
<1>3. CASE ~Contains(s, a)
  BY <1>1, <1>3 DEF Rank
<1>. QED
  BY <1>2, <1>3

\* What is left of an order without an app, and an order with an app put in.
LEMMA WithoutIs ==
  ASSUME NEW S, NEW s \in Seq(S), NEW a, IsInjective(s)
  PROVE  /\ Without(s, a) \in Seq(S) /\ IsInjective(Without(s, a)) /\ ~Contains(Without(s, a), a)
         /\ Len(Without(s, a)) = IF Contains(s, a) THEN Len(s) - 1 ELSE Len(s)
<1>1. Len(s) \in Nat /\ DOMAIN s = 1..Len(s) /\ \A i \in 1..Len(s) : s[i] \in S
  BY LenProperties, ElementOfSeq
<1>2. CASE ~Contains(s, a)
  BY <1>1, <1>2 DEF Without, RemoveFirst, Contains
<1>3. CASE Contains(s, a)
  <2>. DEFINE k == Rank(s, a)
             u == SubSeq(s, 1, k - 1)
             v == SubSeq(s, k + 1, Len(s))
             w == u \o v
  <2>1. k \in 1..Len(s) /\ s[k] = a
    BY <1>3, RankIs
  <2>2. Without(s, a) = w
    BY <1>3 DEF Without, RemoveFirst, RemoveAt, Rank, Contains
  <2>. HIDE DEF k
  <2>3. u \in Seq(S) /\ Len(u) = k - 1 /\ \A i \in 1..(k - 1) : u[i] = s[i]
    <3>. DEFINE m == k - 1
    <3>1. m \in Nat /\ \A i \in 1..m : s[i] \in S
      BY <1>1, <2>1
    <3>2. SubSeq(s, 1, m) \in Seq(S) /\ Len(SubSeq(s, 1, m)) = (IF 1 <= m THEN m - 1 + 1 ELSE 0)
          /\ \A i \in 1..(m - 1 + 1) : SubSeq(s, 1, m)[i] = s[1 + i - 1]
      <4>. HIDE DEF m
      <4>. QED
        BY <3>1, SubSeqProperties
    <3>. QED
      BY <3>1, <3>2
  <2>4. v \in Seq(S) /\ Len(v) = Len(s) - k /\ \A i \in 1..(Len(s) - k) : v[i] = s[k + i]
    <3>. DEFINE m == k + 1
    <3>1. m \in Nat /\ \A i \in m..Len(s) : s[i] \in S
      BY <1>1, <2>1
    <3>2. SubSeq(s, m, Len(s)) \in Seq(S)
          /\ Len(SubSeq(s, m, Len(s))) = (IF m <= Len(s) THEN Len(s) - m + 1 ELSE 0)
          /\ \A i \in 1..(Len(s) - m + 1) : SubSeq(s, m, Len(s))[i] = s[m + i - 1]
      <4>. HIDE DEF m
      <4>. QED
        BY <1>1, <3>1, SubSeqProperties
    <3>3. ASSUME NEW i \in 1..(Len(s) - k) PROVE v[i] = s[k + i]
      <4>1. i \in 1..(Len(s) - m + 1) /\ m + i - 1 = k + i
        BY <1>1, <2>1
      <4>2. SubSeq(s, m, Len(s))[i] = s[m + i - 1]
        BY <3>2, <4>1
      <4>. QED
        BY <4>1, <4>2
    <3>4. (IF m <= Len(s) THEN Len(s) - m + 1 ELSE 0) = Len(s) - k
      <4>1. k \in Nat /\ Len(s) \in Nat /\ (k < Len(s) \/ k = Len(s))
        <5>1. Len(s) \in Nat
          BY <1>1
        <5>2. k \in 1..Len(s)
          BY <2>1
        <5>. QED
          BY <5>1, <5>2
      <4>2. Len(s) - m + 1 = Len(s) - k
        BY <4>1
      <4>3. m <= Len(s) \/ (~(m <= Len(s)) /\ Len(s) - k = 0)
        BY <4>1
      <4>. HIDE DEF m
      <4>. QED
        BY <4>2, <4>3
    <3>5. v \in Seq(S) /\ Len(v) = Len(s) - k
      BY <3>2, <3>4
    <3>. HIDE DEF v
    <3>. QED
      BY <3>3, <3>5
  <2>. HIDE DEF u, v
  <2>5. /\ w \in Seq(S) /\ Len(w) = Len(u) + Len(v)
        /\ \A i \in 1..(Len(u) + Len(v)) : w[i] = IF i <= Len(u) THEN u[i] ELSE v[i - Len(u)]
    BY <2>3, <2>4, ConcatProperties
  <2>. HIDE DEF w
  <2>6. Len(w) = Len(s) - 1 /\ DOMAIN w = 1..(Len(s) - 1)
    BY <1>1, <2>1, <2>3, <2>4, <2>5, LenProperties
  <2>7. ASSUME NEW i \in 1..(Len(s) - 1)
        PROVE  w[i] = s[IF i < k THEN i ELSE i + 1]
    <3>1. CASE i < k
      <4>1. i \in 1..(k - 1) /\ i <= Len(u) /\ i \in 1..(Len(u) + Len(v))
        BY <1>1, <2>1, <2>3, <2>4, <3>1
      <4>. QED
        BY <2>3, <2>5, <3>1, <4>1
    <3>2. CASE ~(i < k)
      <4>1. ~(i <= Len(u)) /\ i \in 1..(Len(u) + Len(v)) /\ i - Len(u) \in 1..(Len(s) - k)
            /\ k + (i - Len(u)) = i + 1
        BY <1>1, <2>1, <2>3, <2>4, <3>2
      <4>2. w[i] = v[i - Len(u)] /\ v[i - Len(u)] = s[k + (i - Len(u))]
        BY <2>4, <2>5, <4>1
      <4>. QED
        BY <3>2, <4>1, <4>2
    <3>. QED
      BY <3>1, <3>2
  <2>8. \A i \in 1..(Len(s) - 1) :
          /\ (IF i < k THEN i ELSE i + 1) \in 1..Len(s)
          /\ (IF i < k THEN i ELSE i + 1) # k
    BY <1>1, <2>1
  <2>9. \A i, j \in 1..(Len(s) - 1) :
          (IF i < k THEN i ELSE i + 1) = (IF j < k THEN j ELSE j + 1) => i = j
    BY <1>1, <2>1
  <2>10. IsInjective(w)
    BY <1>1, <2>6, <2>7, <2>8, <2>9 DEF IsInjective
  <2>11. ~Contains(w, a)
    BY <1>1, <2>1, <2>6, <2>7, <2>8 DEF IsInjective, Contains
  <2>. QED
    BY <1>3, <2>2, <2>5, <2>6, <2>10, <2>11
<1>. QED
  BY <1>2, <1>3

LEMMA InsertedIs ==
  ASSUME NEW S, NEW s \in Seq(S), NEW a \in S, NEW k \in 1..(Len(s) + 1),
         IsInjective(s), ~Contains(s, a)
  PROVE  LET w == SubSeq(s, 1, k - 1) \o <<a>> \o SubSeq(s, k, Len(s)) IN
         w \in Seq(S) /\ IsInjective(w)
<1>. DEFINE u == SubSeq(s, 1, k - 1)
           v == SubSeq(s, k, Len(s))
           x == u \o <<a>>
           w == x \o v
<1>1. Len(s) \in Nat /\ DOMAIN s = 1..Len(s) /\ \A i \in 1..Len(s) : s[i] \in S
  BY LenProperties, ElementOfSeq
<1>2. u \in Seq(S) /\ Len(u) = k - 1 /\ \A i \in 1..(k - 1) : u[i] = s[i]
  <2>. DEFINE m == k - 1
  <2>1. m \in Nat /\ \A i \in 1..m : s[i] \in S
    BY <1>1
  <2>2. SubSeq(s, 1, m) \in Seq(S) /\ Len(SubSeq(s, 1, m)) = (IF 1 <= m THEN m - 1 + 1 ELSE 0)
        /\ \A i \in 1..(m - 1 + 1) : SubSeq(s, 1, m)[i] = s[1 + i - 1]
    <3>. HIDE DEF m
    <3>. QED
      BY <2>1, SubSeqProperties
  <2>. QED
    BY <2>1, <2>2
<1>3. v \in Seq(S) /\ Len(v) = Len(s) - k + 1 /\ \A i \in 1..(Len(s) - k + 1) : v[i] = s[k + i - 1]
  <2>1. k \in Int /\ \A i \in k..Len(s) : s[i] \in S
    BY <1>1
  <2>2. SubSeq(s, k, Len(s)) \in Seq(S)
        /\ Len(SubSeq(s, k, Len(s))) = (IF k <= Len(s) THEN Len(s) - k + 1 ELSE 0)
        /\ \A i \in 1..(Len(s) - k + 1) : SubSeq(s, k, Len(s))[i] = s[k + i - 1]
    BY <1>1, <2>1, SubSeqProperties
  <2>. QED
    BY <1>1, <2>2
<1>. HIDE DEF u, v
<1>4. /\ x \in Seq(S) /\ Len(x) = k /\ x[k] = a /\ \A i \in 1..(k - 1) : x[i] = s[i]
  <2>1. <<a>> \in Seq(S) /\ Len(<<a>>) = 1 /\ <<a>>[1] = a
    OBVIOUS
  <2>2. /\ x \in Seq(S) /\ Len(x) = Len(u) + Len(<<a>>)
        /\ \A i \in 1..(Len(u) + Len(<<a>>)) : x[i] = IF i <= Len(u) THEN u[i] ELSE <<a>>[i - Len(u)]
    BY <1>2, <2>1, ConcatProperties
  <2>3. k \in 1..(Len(u) + 1) /\ ~(k <= Len(u)) /\ k - Len(u) = 1
    BY <1>1, <1>2
  <2>4. \A i \in 1..(k - 1) : i \in 1..(Len(u) + 1) /\ i <= Len(u)
    BY <1>1, <1>2
  <2>. QED
    BY <1>2, <2>1, <2>2, <2>3, <2>4
<1>. HIDE DEF x
<1>5. /\ w \in Seq(S) /\ Len(w) = Len(x) + Len(v)
      /\ \A i \in 1..(Len(x) + Len(v)) : w[i] = IF i <= Len(x) THEN x[i] ELSE v[i - Len(x)]
  BY <1>3, <1>4, ConcatProperties
<1>. HIDE DEF w
<1>6. Len(w) = Len(s) + 1 /\ DOMAIN w = 1..(Len(s) + 1)
  BY <1>1, <1>3, <1>4, <1>5, LenProperties
<1>7. ASSUME NEW i \in 1..(Len(s) + 1)
      PROVE  w[i] = IF i = k THEN a ELSE s[IF i < k THEN i ELSE i - 1]
  <2>1. CASE i <= k
    <3>1. i \in 1..(Len(x) + Len(v)) /\ i <= Len(x) /\ (i = k \/ i \in 1..(k - 1))
      BY <1>1, <1>3, <1>4, <2>1
    <3>2. w[i] = x[i]
      BY <1>5, <3>1
    <3>3. i \in 1..(k - 1) => i < k /\ i # k
      BY <1>1
    <3>. QED
      BY <1>4, <3>1, <3>2, <3>3
  <2>2. CASE ~(i <= k)
    <3>1. i \in 1..(Len(x) + Len(v)) /\ ~(i <= Len(x)) /\ i - Len(x) \in 1..(Len(s) - k + 1)
          /\ k + (i - Len(x)) - 1 = i - 1 /\ ~(i < k) /\ i # k
      BY <1>1, <1>3, <1>4, <2>2
    <3>2. w[i] = v[i - Len(x)] /\ v[i - Len(x)] = s[k + (i - Len(x)) - 1]
      BY <1>3, <1>5, <3>1
    <3>. QED
      BY <3>1, <3>2
  <2>. QED
    BY <2>1, <2>2
<1>8. \A i \in 1..(Len(s) + 1) : i # k => (IF i < k THEN i ELSE i - 1) \in 1..Len(s)
  BY <1>1
<1>9. \A i, j \in 1..(Len(s) + 1) :
        i # k /\ j # k /\ (IF i < k THEN i ELSE i - 1) = (IF j < k THEN j ELSE j - 1) => i = j
  BY <1>1
<1>10. \A i \in 1..Len(s) : s[i] # a
  BY DEF Contains
<1>11. ASSUME NEW i \in 1..(Len(s) + 1), NEW j \in 1..(Len(s) + 1), w[i] = w[j] PROVE i = j
  <2>1. CASE i = k \/ j = k
    BY <1>7, <1>8, <1>10, <1>11, <2>1
  <2>2. CASE i # k /\ j # k
    <3>1. s[IF i < k THEN i ELSE i - 1] = s[IF j < k THEN j ELSE j - 1]
      BY <1>7, <1>11, <2>2
    <3>2. (IF i < k THEN i ELSE i - 1) = (IF j < k THEN j ELSE j - 1)
      <4>1. (IF i < k THEN i ELSE i - 1) \in DOMAIN s /\ (IF j < k THEN j ELSE j - 1) \in DOMAIN s
        BY <1>1, <1>8, <2>2
      <4>. QED
        BY <3>1, <4>1, Zenon DEF IsInjective
    <3>. QED
      BY <1>9, <2>2, <3>2
  <2>. QED
    BY <2>1, <2>2
<1>12. IsInjective(w)
  BY <1>6, <1>11 DEF IsInjective
<1>. QED
  BY <1>5, <1>12 DEF w, x, u, v

\* The order that sorts a finite set strictly: an app's place is the number of
\* apps up to it.
Strict(S, key, base) ==
  /\ \A a, b \in S : Before(key, base, a, b) => ~Before(key, base, b, a)
  /\ \A a, b \in S : a # b => Before(key, base, a, b) \/ Before(key, base, b, a)
  /\ \A a, b, c \in S :
       Before(key, base, a, b) /\ Before(key, base, b, c) => Before(key, base, a, c)
Sorted(s, key, base) ==
  \A i, j \in DOMAIN s : i < j => Before(key, base, s[i], s[j])

LEMMA SortExists ==
  ASSUME NEW S, IsFiniteSet(S), NEW key, NEW base, Strict(S, key, base)
  PROVE  \E s \in SetToSeqs(S) : Sorted(s, key, base)
<1>. DEFINE n == Cardinality(S)
           L(a, b) == Before(key, base, a, b)
           Up(a) == {b \in S : L(b, a) \/ b = a}
           r == [a \in S |-> Cardinality(Up(a))]
<1>1. /\ \A a, b \in S : L(a, b) => ~L(b, a)
      /\ \A a, b \in S : a # b => L(a, b) \/ L(b, a)
      /\ \A a, b, c \in S : L(a, b) /\ L(b, c) => L(a, c)
  BY DEF Strict
<1>2. n \in Nat
  BY FS_CardinalityType
<1>. HIDE DEF L
<1>3. \A a \in S : Up(a) \in SUBSET S /\ a \in Up(a) /\ IsFiniteSet(Up(a))
  BY FS_Subset
<1>4. ASSUME NEW a \in S PROVE r[a] \in 1..n
  <2>1. Cardinality(Up(a)) \in Nat /\ Cardinality(Up(a)) <= n
    BY <1>3, FS_Subset, FS_CardinalityType
  <2>2. Cardinality(Up(a)) # 0
    BY <1>3, FS_EmptySet
  <2>. QED
    BY <1>2, <2>1, <2>2
<1>5. ASSUME NEW a \in S, NEW b \in S, L(a, b) PROVE r[a] < r[b]
  <2>1. Up(a) \in SUBSET Up(b) /\ b \notin Up(a)
    BY <1>1, <1>5
  <2>2. Cardinality(Up(a)) <= Cardinality(Up(b)) /\ Cardinality(Up(a)) # Cardinality(Up(b))
    BY <1>3, <2>1, FS_Subset
  <2>. QED
    BY <1>4, <2>2
<1>. HIDE DEF r
<1>6. r \in Injection(S, 1..n)
  <2>1. r \in [S -> 1..n]
    BY <1>4 DEF r
  <2>2. \A a, b \in S : r[a] = r[b] => a = b
    <3>. SUFFICES ASSUME NEW a \in S, NEW b \in S, r[a] = r[b], a # b PROVE FALSE
      OBVIOUS
    <3>1. r[a] < r[b] \/ r[b] < r[a]
      BY <1>1, <1>5
    <3>2. r[a] \in Nat /\ r[b] \in Nat
      BY <1>4
    <3>. QED
      BY <3>1, <3>2
  <2>. QED
    BY <2>1, <2>2 DEF Injection, IsInjective
<1>7. r \in Surjection(S, 1..n)
  <2>1. IsFiniteSet(1..n) /\ Cardinality(1..n) = n
    BY <1>2, FS_Interval
  <2>. QED
    BY <1>6, <2>1, FS_Injection
<1>8. \A k \in 1..n : \E a \in S : r[a] = k
  BY <1>7 DEF Surjection
<1>. DEFINE s == [k \in 1..n |-> CHOOSE a \in S : r[a] = k]
<1>9. \A k \in 1..n : s[k] \in S /\ r[s[k]] = k
  BY <1>8
<1>10. s \in SetToSeqs(S)
  <2>1. s \in [1..n -> S]
    BY <1>9
  <2>2. \A i, j \in 1..n : i # j => s[i] # s[j]
    <3>. HIDE DEF s
    <3>. QED
      BY <1>9
  <2>. QED
    BY <2>1, <2>2 DEF SetToSeqs
<1>11. DOMAIN s = 1..n
  OBVIOUS
<1>. HIDE DEF s
<1>12. ASSUME NEW i \in 1..n, NEW j \in 1..n, i < j PROVE L(s[i], s[j])
  <2>1. s[i] \in S /\ s[j] \in S /\ r[s[i]] = i /\ r[s[j]] = j
    BY <1>9
  <2>2. s[i] # s[j]
    BY <1>12, <2>1
  <2>3. ~L(s[j], s[i])
    <3>1. L(s[j], s[i]) => j < i
      BY <1>5, <2>1
    <3>. QED
      BY <1>12, <3>1
  <2>. QED
    BY <1>1, <2>1, <2>2, <2>3
<1>13. Sorted(s, key, base)
  BY <1>11, <1>12 DEF Sorted, L
<1>. QED
  BY <1>10, <1>13

LEMMA SortedByIs ==
  ASSUME NEW S, IsFiniteSet(S), NEW key, NEW base, Strict(S, key, base)
  PROVE  SortedBy(S, key, base) \in SetToSeqs(S)
BY SortExists DEF SortedBy, Sorted

\* Two sorts that order the apps alike give the same sequence.
LEMMA SameSort ==
  ASSUME NEW S, NEW k1, NEW b1, NEW k2, NEW b2,
         \A a, b \in S : a # b => (Before(k1, b1, a, b) <=> Before(k2, b2, a, b))
  PROVE  SortedBy(S, k1, b1) = SortedBy(S, k2, b2)
<1>1. ASSUME NEW s \in SetToSeqs(S) PROVE Sorted(s, k1, b1) <=> Sorted(s, k2, b2)
  <2>1. s \in [1..Cardinality(S) -> S] /\ \A i, j \in 1..Cardinality(S) : i # j => s[i] # s[j]
    BY DEF SetToSeqs
  <2>2. ASSUME NEW i \in DOMAIN s, NEW j \in DOMAIN s, i < j
        PROVE  Before(k1, b1, s[i], s[j]) <=> Before(k2, b2, s[i], s[j])
    <3>1. i \in 1..Cardinality(S) /\ j \in 1..Cardinality(S) /\ i # j
      BY <2>1, <2>2
    <3>. QED
      BY <2>1, <3>1
  <2>. QED
    BY <2>2, Zenon DEF Sorted
<1>2. (CHOOSE s \in SetToSeqs(S) : Sorted(s, k1, b1)) = (CHOOSE s \in SetToSeqs(S) : Sorted(s, k2, b2))
  BY <1>1
<1>. QED
  BY <1>2 DEF SortedBy, Sorted

LEMMA KeysAreStrict ==
  ASSUME NEW S, S \subseteq Apps, NEW key \in [Apps -> Nat], NEW base \in Seq(Apps), ToSet(base) = Apps
  PROVE  Strict(S, key, base)
<1>1. \A a \in Apps : Contains(base, a)
  <2>1. DOMAIN base = 1..Len(base)
    BY LenProperties
  <2>. QED
    BY <2>1 DEF ToSet, Contains
<1>2. \A a \in Apps : Rank(base, a) \in Nat /\ base[Rank(base, a)] = a
  <2>. TAKE a \in Apps
  <2>1. Rank(base, a) \in 1..Len(base) /\ base[Rank(base, a)] = a
    BY <1>1, RankIs
  <2>. QED
    BY <2>1
<1>3. \A a, b \in Apps : Rank(base, a) = Rank(base, b) => a = b
  BY <1>2
<1>. DEFINE R(a) == Rank(base, a)
<1>4. /\ \A a \in Apps : R(a) \in Nat /\ key[a] \in Nat
      /\ \A a, b \in Apps : R(a) = R(b) => a = b
      /\ \A a, b : Before(key, base, a, b) <=> key[a] < key[b] \/ (key[a] = key[b] /\ R(a) < R(b))
  BY <1>2, <1>3 DEF Before
<1>. HIDE DEF R
<1>5. \A a, b \in S : Before(key, base, a, b) => ~Before(key, base, b, a)
  BY <1>4
<1>6. \A a, b \in S : a # b => Before(key, base, a, b) \/ Before(key, base, b, a)
  BY <1>4
<1>7. ASSUME NEW a \in S, NEW b \in S, NEW c \in S, Before(key, base, a, b), Before(key, base, b, c)
      PROVE  Before(key, base, a, c)
  BY <1>4, <1>7
<1>. QED
  BY <1>5, <1>6, <1>7, Zenon DEF Strict

(***************************************************************************)
(* The types.  Besides them: a page that is gone has neither a gesture nor *)
(* a menu nor a dialog open, and a page has sent a request when it came.   *)
(***************************************************************************)
Requests ==
  [id : Nat, kind : {"list", "listed", "toggle", "uninstall"}, app : MaybeApp,
   mount : Mounts, snap : [Apps -> Statuses]]

Listed ==
  /\ server \in [Apps -> Statuses] /\ installed \in [Apps -> Statuses]
  /\ jobs \subseteq Requests
  /\ sent \in 0..MaxRequests /\ blind \in BOOLEAN
  /\ born \in 0..MaxMounts /\ mounted \in 0..born
  /\ mounted # 0 => sent > 0

Page ==
  /\ sortMode \in {"custom", "alpha", "status"}
  /\ phase \in {"idle", "pressing", "dragging"}
  /\ pressed \in MaybeApp /\ timer \in MaybeApp /\ dragged \in MaybeApp
  /\ menu \in MaybeApp /\ confirming \in MaybeApp /\ forking \in MaybeApp
  /\ phase = "idle" <=> pressed = NoApp
  /\ phase = "dragging" => dragged # NoApp
  /\ mounted = 0 => phase = "idle" /\ menu = NoApp /\ confirming = NoApp /\ forking = NoApp

LEMMA PageInit == Init => Listed /\ Page
<1>. SUFFICES ASSUME Init PROVE Listed /\ Page
  OBVIOUS
<1>1. server \in [Apps -> Statuses] /\ installed \in [Apps -> Statuses]
  BY DEF Init, Statuses
<1>2. Listed
  <2>1. 0 \in 0..MaxRequests /\ 0 \in 0..MaxMounts /\ 0 \in 0..0
    BY ConstantsOK
  <2>2. jobs = {} /\ sent = 0 /\ blind = FALSE /\ mounted = 0 /\ born = 0
    BY DEF Init
  <2>. QED
    BY <1>1, <2>1, <2>2 DEF Listed
<1>. QED
  BY <1>2 DEF Init, Page, MaybeApp

\* Every answer leaves the page as it is.
LEMMA AnswerCases ==
  ASSUME NEW j, Answer(j)
  PROVE  UNCHANGED <<sent, sortMode, mounted, born, gesture, popups, effects>>
BY Zenon DEF Answer, ServerLists, ListArrives, ListFails, UninstallSucceeds, UninstallFails,
             ToggleAnswered, orders

LEMMA PageNext == Page /\ Listed /\ [Next]_vars => Page'
<1>. SUFFICES ASSUME Page, Listed, [Next]_vars PROVE Page'
  OBVIOUS
<1>. USE DEF Page, gesture, popups
<1>1. ASSUME UNCHANGED <<sortMode, mounted, gesture, popups>> PROVE Page'
  BY <1>1
<1>2. CASE UNCHANGED vars
  BY <1>1, <1>2 DEF vars, orders
<1>3. CASE Mount
  BY <1>3 DEF Mount, Listed
<1>4. CASE Gone
  BY <1>4 DEF Gone, orders, MaybeApp
<1>5. CASE Pointer
  <2>1. CASE LongPress
    BY <2>1 DEF LongPress, orders, MaybeApp
  <2>2. CASE BeginDrag
    BY <2>2 DEF BeginDrag, orders, MaybeApp
  <2>3. CASE Click
    BY <2>3 DEF Click, orders, MaybeApp
  <2>4. CASE Drop
    BY <2>4 DEF Drop, MaybeApp
  <2>5. ASSUME NEW a \in Apps, OnTilePointerDown(a) PROVE Page'
    <3>1. mounted # 0 /\ a # NoApp
      BY <2>5, ConstantsOK DEF OnTilePointerDown, Tiles, Uncovered
    <3>. QED
      BY <2>5, <3>1 DEF OnTilePointerDown, orders, MaybeApp
  <2>6. ASSUME NEW a \in Apps, FlipReorder(a) PROVE Page'
    BY <2>6 DEF FlipReorder, orders, MaybeApp
  <2>7. ASSUME NEW a \in Apps, OnTileContextMenu(a) PROVE Page'
    <3>1. mounted # 0
      BY <2>7 DEF OnTileContextMenu, Tiles, Uncovered
    <3>. QED
      BY <2>7, <3>1 DEF OnTileContextMenu, orders, MaybeApp, Pops
  <2>. QED
    BY <1>5, <2>1, <2>2, <2>3, <2>4, <2>5, <2>6, <2>7 DEF Pointer
<1>6. CASE ToggleAppStatus
  BY <1>6 DEF ToggleAppStatus, orders, MaybeApp
<1>7. CASE CloseMenu \/ AskUninstall \/ HandleUninstall \/ CancelDialog
  <2>1. UNCHANGED <<sortMode, mounted, gesture>>
    BY <1>7 DEF CloseMenu, AskUninstall, HandleUninstall, CancelDialog, orders
  <2>2. menu' \in {menu, NoApp} /\ confirming' \in {confirming, menu, NoApp} /\ forking' \in {forking, NoApp}
    BY <1>7 DEF CloseMenu, AskUninstall, HandleUninstall, CancelDialog, Pops
  <2>. QED
    BY <2>1, <2>2 DEF MaybeApp
<1>8. CASE HandleEdit
  <2>1. CASE Gone
    BY <2>1, <1>4
  <2>2. CASE Pops(NoApp, confirming, menu) /\ UNCHANGED <<lists, orders, mounted, born, gesture, effects>>
    BY <2>2 DEF Pops, orders, MaybeApp
  <2>. QED
    BY <1>8, <2>1, <2>2 DEF HandleEdit
<1>9. ASSUME NEW mode \in {"custom", "alpha", "status"}, SetSortMode(mode) PROVE Page'
  BY <1>9 DEF SetSortMode
<1>10. ASSUME NEW j \in jobs, Answer(j) PROVE Page'
  BY <1>1, <1>10, AnswerCases
<1>11. ASSUME NEW a \in Apps, InstallCompletes(a) PROVE Page'
  BY <1>1, <1>11 DEF InstallCompletes
<1>. QED
  BY <1>2, <1>3, <1>4, <1>5, <1>6, <1>7, <1>8, <1>9, <1>10, <1>11 DEF Next, Leave, Fork

\* What a new request and an answered one leave of the requests.
LEMMA SentListed ==
  ASSUME Listed, NEW kind \in {"list", "listed", "toggle", "uninstall"}, NEW a \in MaybeApp,
         NEW m \in Mounts, NEW snap \in [Apps -> Statuses], Sends(kind, a, m, snap)
  PROVE  /\ jobs' \subseteq Requests /\ sent' \in 0..MaxRequests /\ blind' \in BOOLEAN /\ sent' > 0
<1>. DEFINE x == [id |-> sent + 1, kind |-> kind, app |-> a, mount |-> m, snap |-> snap]
<1>1. sent \in Nat /\ sent' = sent + 1 /\ sent < MaxRequests /\ MaxRequests \in Nat
      /\ jobs' = jobs \cup {x} /\ blind' = (blind \/ jobs # {})
  BY ConstantsOK DEF Listed, Sends
<1>2. x \in Requests
  BY <1>1 DEF Requests
<1>. HIDE DEF x
<1>3. blind' \in BOOLEAN
  BY <1>1 DEF Listed
<1>. QED
  BY <1>1, <1>2, <1>3 DEF Listed

LEMMA Relisted ==
  ASSUME NEW j \in Requests, NEW kind \in {"list", "listed"}, NEW snap \in [Apps -> Statuses]
  PROVE  LET k == [j EXCEPT !.kind = kind, !.snap = snap] IN
         k \in Requests /\ k.kind = kind /\ k.snap = snap
BY DEF Requests

LEMMA NothingIs == Nothing \in [Apps -> Statuses]
BY DEF Nothing, Statuses

LEMMA AnswerListed ==
  ASSUME Listed, NEW j \in jobs, Answer(j)
  PROVE  Listed'
<1>1. UNCHANGED <<sent, mounted, born>>
  BY AnswerCases
<1>2. j \in Requests /\ server \in [Apps -> Statuses] /\ installed \in [Apps -> Statuses]
      /\ jobs \subseteq Requests /\ blind \in BOOLEAN
  BY DEF Listed
<1>3. Reverting(j) \subseteq Requests
  <2>1. [j EXCEPT !.kind = "list", !.snap = Nothing] \in Requests
    BY <1>2, Relisted, NothingIs
  <2>. QED
    BY <1>2, <2>1 DEF Reverting
<1>4. ASSUME NEW f \in [Apps -> Statuses], NEW a, NEW x, x \in Statuses \/ a \notin Apps
      PROVE  [f EXCEPT ![a] = x] \in [Apps -> Statuses]
  BY <1>4
<1>5. "none" \in Statuses
  BY DEF Statuses
<1>6. /\ server' \in [Apps -> Statuses] /\ installed' \in [Apps -> Statuses]
      /\ jobs' \subseteq Requests /\ blind' \in BOOLEAN
  <2>1. CASE ServerLists(j)
    <3>1. [j EXCEPT !.kind = "listed", !.snap = server] \in Requests
      BY <1>2, Relisted
    <3>. QED
      BY <1>2, <2>1, <3>1 DEF ServerLists
  <2>2. CASE ListArrives(j)
    <3>1. j.snap \in [Apps -> Statuses]
      BY <1>2 DEF Requests
    <3>. QED
      BY <1>2, <2>2, <3>1 DEF ListArrives
  <2>3. CASE ListFails(j)
    BY <1>2, <2>3 DEF ListFails
  <2>4. CASE UninstallSucceeds(j)
    BY <1>2, <1>4, <1>5, <2>4 DEF UninstallSucceeds
  <2>5. CASE UninstallFails(j)
    BY <1>2, <1>3, <1>4, <1>5, <2>5 DEF UninstallFails
  <2>6. ASSUME NEW done \in BOOLEAN, NEW ok \in BOOLEAN, ToggleAnswered(j, done, ok)
        PROVE  /\ server' \in [Apps -> Statuses] /\ installed' \in [Apps -> Statuses]
               /\ jobs' \subseteq Requests /\ blind' \in BOOLEAN
    <3>1. j.snap[j.app] \in Statuses \/ j.app \notin Apps
      BY <1>2 DEF Requests
    <3>2. server' \in [Apps -> Statuses]
      BY <1>2, <1>4, <2>6, <3>1 DEF ToggleAnswered
    <3>3. jobs' \subseteq Requests
      BY <1>2, <1>3, <2>6 DEF ToggleAnswered
    <3>. QED
      BY <1>2, <2>6, <3>2, <3>3 DEF ToggleAnswered
  <2>. QED
    BY <2>1, <2>2, <2>3, <2>4, <2>5, <2>6 DEF Answer
<1>. QED
  BY <1>1, <1>6 DEF Listed

LEMMA ListedNext == Page /\ Listed /\ [Next]_vars => Listed'
<1>. SUFFICES ASSUME Page, Listed, [Next]_vars PROVE Listed'
  OBVIOUS
<1>1. ASSUME UNCHANGED <<lists, mounted, born>> PROVE Listed'
  BY <1>1, Zenon DEF Listed, lists
<1>2. CASE UNCHANGED vars
  BY <1>1, <1>2 DEF vars
<1>3. born \in Nat /\ mounted \in Nat /\ mounted <= born /\ born <= MaxMounts /\ MaxMounts \in Nat
  BY ConstantsOK DEF Listed
<1>4. NoApp \in MaybeApp /\ (mounted # 0 => mounted \in Mounts)
  BY <1>3 DEF MaybeApp, Mounts
<1>5. CASE Mount
  <2>1. born + 1 \in Mounts /\ born < MaxMounts /\ mounted' = born + 1 /\ born' = born + 1
        /\ Sends("list", NoApp, born + 1, Nothing) /\ UNCHANGED <<server, installed>>
    BY <1>3, <1>5 DEF Mount, Mounts
  <2>2. jobs' \subseteq Requests /\ sent' \in 0..MaxRequests /\ blind' \in BOOLEAN /\ sent' > 0
    BY <1>4, <2>1, NothingIs, SentListed
  <2>3. born' \in 0..MaxMounts /\ mounted' \in 0..born'
    BY <1>3, <2>1
  <2>. QED
    BY <2>1, <2>2, <2>3 DEF Listed
<1>6. CASE Gone
  BY <1>3, <1>6 DEF Gone, Listed, lists
<1>7. CASE Pointer
  <2>1. UNCHANGED <<lists, mounted, born>>
    BY <1>7, Zenon DEF Pointer, LongPress, BeginDrag, Click, Drop, OnTilePointerDown, FlipReorder,
                       OnTileContextMenu
  <2>. QED
    BY <1>1, <2>1
<1>8. CASE ToggleAppStatus
  <2>1. menu # NoApp /\ mounted \in Mounts /\ menu \in MaybeApp
    BY <1>4, <1>8 DEF ToggleAppStatus, MenuOffers, Page
  <2>2. installed' \in [Apps -> Statuses]
    BY <1>8 DEF ToggleAppStatus, Listed, Flip, Statuses
  <2>3. PICK c : c = installed'
    OBVIOUS
  <2>4. c \in [Apps -> Statuses] /\ Sends("toggle", menu, mounted, c)
    BY <1>8, <2>2, <2>3 DEF ToggleAppStatus
  <2>5. jobs' \subseteq Requests /\ sent' \in 0..MaxRequests /\ blind' \in BOOLEAN /\ sent' > 0
    BY <2>1, <2>4, SentListed
  <2>. QED
    BY <1>8, <2>2, <2>5 DEF ToggleAppStatus, Listed
<1>9. CASE HandleUninstall
  <2>1. confirming \in MaybeApp /\ mounted \in Mounts
    BY <1>4, <1>9 DEF HandleUninstall, Page
  <2>2. jobs' \subseteq Requests /\ sent' \in 0..MaxRequests /\ blind' \in BOOLEAN /\ sent' > 0
    BY <1>9, <2>1, NothingIs, SentListed DEF HandleUninstall
  <2>. QED
    BY <1>9, <2>2 DEF HandleUninstall, Listed
<1>10. CASE CloseMenu \/ AskUninstall \/ CancelDialog
  BY <1>1, <1>10 DEF CloseMenu, AskUninstall, CancelDialog
<1>11. CASE HandleEdit
  BY <1>1, <1>6, <1>11 DEF HandleEdit
<1>12. ASSUME NEW mode, SetSortMode(mode) PROVE Listed'
  BY <1>1, <1>12 DEF SetSortMode
<1>13. ASSUME NEW j \in jobs, Answer(j) PROVE Listed'
  BY <1>13, AnswerListed
<1>14. ASSUME NEW a \in Apps, InstallCompletes(a) PROVE Listed'
  BY <1>14 DEF InstallCompletes, Listed, Statuses
<1>. QED
  BY <1>2, <1>5, <1>6, <1>7, <1>8, <1>9, <1>10, <1>11, <1>12, <1>13, <1>14 DEF Next, Leave, Fork

(***************************************************************************)
(* The orders: sequences of apps that name none twice.                     *)
(***************************************************************************)
Once(s) == s \in Seq(Apps) /\ IsInjective(s)
OrderInv ==
  /\ Once(stored) /\ Once(live)
  /\ order \in [Mounts -> Seq(Apps)] /\ \A m \in Mounts : IsInjective(order[m])

LEMMA EmptyOnce == Once(<<>>)
BY EmptySeq DEF Once, IsInjective

LEMMA AppsFinite == IsFiniteSet(Apps)
<1>. DEFINE n == Len(ByTitle)
<1>1. ByTitle \in [1..n -> Apps] /\ n \in Nat /\ DOMAIN ByTitle = 1..n
  BY ConstantsOK, LenProperties, ElementOfSeq
<1>2. ByTitle \in Surjection(1..n, Apps)
  BY <1>1, ConstantsOK DEF Surjection, ToSet
<1>3. IsFiniteSet(1..n)
  BY <1>1, FS_Interval
<1>. QED
  BY <1>2, <1>3, FS_Surjection

\* An order is no longer than the apps are many.
LEMMA OnceBounded ==
  ASSUME NEW s, Once(s)
  PROVE  s \in Orders
<1>. DEFINE n == Len(s)
<1>1. n \in Nat /\ s \in [1..n -> Apps] /\ IsInjective(s)
  BY LenProperties, ElementOfSeq DEF Once
<1>2. s \in Injection(1..n, Apps)
  BY <1>1 DEF Injection
<1>3. Cardinality(1..n) <= Cardinality(Apps) /\ Cardinality(1..n) = n /\ Cardinality(Apps) \in Nat
  <2>1. Cardinality(1..n) <= Cardinality(Apps)
    BY <1>2, AppsFinite, FS_Injection
  <2>2. Cardinality(1..n) = n
    BY <1>1, FS_Interval
  <2>. QED
    BY <2>1, <2>2, AppsFinite, FS_CardinalityType
<1>4. n \in 0..Cardinality(Apps)
  BY <1>1, <1>3
<1>. QED
  BY <1>1, <1>4 DEF Orders

\* A sorted set of apps names each once.
LEMMA SortedOnce ==
  ASSUME NEW S, S \subseteq Apps, NEW key \in [Apps -> Nat], NEW base \in {ByTitle, ByKey}
  PROVE  Once(SortedBy(S, key, base))
<1>1. base \in Seq(Apps) /\ ToSet(base) = Apps
  BY ConstantsOK
<1>2. IsFiniteSet(S) /\ Cardinality(S) \in Nat
  BY AppsFinite, FS_Subset, FS_CardinalityType
<1>3. Strict(S, key, base)
  BY <1>1, KeysAreStrict
<1>4. SortedBy(S, key, base) \in SetToSeqs(S)
  BY <1>2, <1>3, SortedByIs
<1>. DEFINE s == SortedBy(S, key, base)
            n == Cardinality(S)
<1>5. s \in [1..n -> S] /\ \A i, j \in 1..n : i # j => s[i] # s[j]
  BY <1>4 DEF SetToSeqs
<1>. HIDE DEF s
<1>6. s \in Seq(Apps)
  BY <1>2, <1>5
<1>7. IsInjective(s)
  BY <1>5 DEF IsInjective
<1>. QED
  BY <1>6, <1>7 DEF Once, s

LEMMA KeysAre ==
  /\ Equal \in [Apps -> Nat] /\ RunningFirst \in [Apps -> Nat]
  /\ \A s \in Seq(Apps) : InOrder(s) \in [Apps -> Nat]
<1>1. ASSUME NEW s \in Seq(Apps) PROVE InOrder(s) \in [Apps -> Nat]
  <2>1. \A a \in Apps : Rank(s, a) \in Nat
    <3>. TAKE a \in Apps
    <3>1. Rank(s, a) \in 1..(Len(s) + 1)
      BY RankIs
    <3>. QED
      BY <3>1
  <2>. QED
    BY <2>1 DEF InOrder
<1>. QED
  BY <1>1 DEF Equal, RunningFirst

LEMMA OrderedOnce ==
  ASSUME Page, Listed, OrderInv
  PROVE  Once(OrderedApps)
<1>. DEFINE custom == IF mounted = 0 THEN <<>> ELSE order[mounted]
<1>1. mounted # 0 => mounted \in Mounts
  BY ConstantsOK DEF Listed, Mounts
<1>2. custom \in Seq(Apps)
  BY <1>1, EmptyOnce DEF OrderInv, Once
<1>. HIDE DEF custom
<1>3. Visible \subseteq Apps /\ ByTitle \in {ByTitle, ByKey} /\ ByKey \in {ByTitle, ByKey}
  BY DEF Visible
<1>4. /\ Once(SortedBy(Visible, Equal, ByTitle)) /\ Once(SortedBy(Visible, Equal, ByKey))
      /\ Once(SortedBy(Visible, RunningFirst, ByTitle))
  BY <1>3, KeysAre, SortedOnce
<1>5. Once(SortedBy(Visible, InOrder(custom), ByTitle))
  <2>1. InOrder(custom) \in [Apps -> Nat]
    BY <1>2, KeysAre
  <2>. QED
    BY <1>3, <2>1, SortedOnce
<1>6. OrderedApps \in {SortedBy(Visible, Equal, ByTitle), SortedBy(Visible, Equal, ByKey),
                       SortedBy(Visible, RunningFirst, ByTitle), SortedBy(Visible, InOrder(custom), ByTitle)}
  BY DEF OrderedApps, custom
<1>. QED
  BY <1>4, <1>5, <1>6

\* An order without an app, with it in front, and with it moved.
LEMMA WithoutOnce ==
  ASSUME NEW s, Once(s), NEW a
  PROVE  Once(Without(s, a)) /\ ~Contains(Without(s, a), a)
BY WithoutIs DEF Once

LEMMA MovedOnce ==
  ASSUME NEW s, Once(s), NEW a \in Apps, NEW k \in 1..Len(s), Contains(s, a)
  PROVE  Once(Moved(s, a, k))
<1>. DEFINE w == Without(s, a)
<1>1. w \in Seq(Apps) /\ IsInjective(w) /\ ~Contains(w, a) /\ Len(w) = Len(s) - 1
  BY WithoutIs DEF Once
<1>2. Len(s) \in Nat
  BY LenProperties DEF Once
<1>3. k \in 1..(Len(w) + 1)
  BY <1>1, <1>2
<1>. HIDE DEF w
<1>4. LET x == SubSeq(w, 1, k - 1) \o <<a>> \o SubSeq(w, k, Len(w)) IN x \in Seq(Apps) /\ IsInjective(x)
  BY <1>1, <1>3, InsertedIs
<1>. QED
  BY <1>4 DEF Moved, Once, w

LEMMA FrontOnce ==
  ASSUME NEW s, Once(s), NEW a \in Apps
  PROVE  Once(<<a>> \o Without(s, a))
<1>. DEFINE w == Without(s, a)
            u == SubSeq(w, 1, 1 - 1)
            v == SubSeq(w, 1, Len(w))
<1>1. w \in Seq(Apps) /\ IsInjective(w) /\ ~Contains(w, a) /\ Len(w) \in Nat
  BY WithoutIs, LenProperties DEF Once
<1>. HIDE DEF w
<1>2. v = w
  BY <1>1, SubSeqFull
<1>3. u = <<>>
  <2>1. 1 - 1 = 0 /\ 0 < 1 /\ 0 \in Int /\ 1 \in Int
    OBVIOUS
  <2>. QED
    BY <2>1, SubSeqEmpty
<1>4. 1 \in 1..(Len(w) + 1)
  BY <1>1
<1>. DEFINE x == u \o <<a>> \o v
<1>5. x \in Seq(Apps) /\ IsInjective(x)
  BY <1>1, <1>4, InsertedIs
<1>6. x = <<a>> \o w
  <2>1. <<>> \o <<a>> = <<a>>
    BY ConcatEmptySeq
  <2>. QED
    BY <1>2, <1>3, <2>1
<1>. QED
  BY <1>5, <1>6 DEF Once, w

LEMMA OrderInit == Init => OrderInv
<1>. SUFFICES ASSUME Init PROVE OrderInv
  OBVIOUS
<1>1. stored = <<>> /\ live = <<>> /\ order = [m \in Mounts |-> <<>>]
  BY DEF Init
<1>2. <<>> \in Seq(Apps) /\ IsInjective(<<>>)
  BY EmptyOnce DEF Once
<1>3. order \in [Mounts -> Seq(Apps)] /\ \A m \in Mounts : order[m] = <<>>
  BY <1>1, <1>2
<1>. QED
  BY <1>1, <1>2, <1>3 DEF OrderInv, Once

\* The order of one mount is replaced.
LEMMA OrderReplaced ==
  ASSUME OrderInv, NEW m \in Mounts, NEW s, Once(s), order' = [order EXCEPT ![m] = s],
         Once(stored'), Once(live')
  PROVE  OrderInv'
BY DEF OrderInv, Once

LEMMA OrderFrame ==
  ASSUME OrderInv, order' = order, Once(stored'), Once(live')
  PROVE  OrderInv'
BY DEF OrderInv

LEMMA OrderGesture ==
  ASSUME OrderInv, Page, Listed, Pointer
  PROVE  OrderInv'
<1>1. Once(live) /\ Once(stored)
  BY DEF OrderInv
<1>2. mounted # 0 => mounted \in Mounts
  BY ConstantsOK DEF Listed, Mounts
<1>3. CASE BeginDrag
  <2>1. UNCHANGED <<order, stored>> /\ live' = OrderedApps
    BY <1>3 DEF BeginDrag, orders
  <2>. QED
    BY <1>1, <2>1, OrderedOnce, OrderFrame
<1>4. CASE Drop
  <2>1. mounted # 0 /\ order' = [order EXCEPT ![mounted] = live] /\ stored' = live /\ live' = <<>>
    BY <1>4 DEF Drop, Page
  <2>2. Once(stored') /\ Once(live')
    BY <1>1, <2>1, EmptyOnce
  <2>. QED
    BY <1>1, <1>2, <2>1, <2>2, OrderReplaced
<1>5. ASSUME NEW a \in Apps, FlipReorder(a) PROVE OrderInv'
  <2>1. /\ phase = "dragging" /\ Contains(live, dragged) /\ Contains(live, a)
        /\ live' = Moved(live, dragged, Rank(live, a)) /\ UNCHANGED <<stored, order>>
    BY <1>5 DEF FlipReorder, orders
  <2>2. Rank(live, a) \in 1..Len(live)
    BY <1>1, <2>1, RankIs DEF Once
  <2>3. dragged \in Apps
    BY <2>1 DEF Page, MaybeApp
  <2>4. Once(live')
    BY <1>1, <2>1, <2>2, <2>3, MovedOnce
  <2>. QED
    BY <1>1, <2>1, <2>4, OrderFrame
<1>6. CASE LongPress \/ Click \/ \E a \in Apps : OnTilePointerDown(a) \/ OnTileContextMenu(a)
  <2>1. UNCHANGED <<orders, live>>
    BY <1>6, Zenon DEF LongPress, Click, OnTilePointerDown, OnTileContextMenu, gesture
  <2>. QED
    BY <1>1, <2>1, OrderFrame DEF orders
<1>. QED
  BY <1>3, <1>4, <1>5, <1>6 DEF Pointer

LEMMA OrderAnswer ==
  ASSUME OrderInv, Listed, NEW j \in jobs, Answer(j)
  PROVE  OrderInv'
<1>1. Once(live) /\ Once(stored) /\ j.mount \in Mounts
  BY DEF OrderInv, Listed, Requests
<1>2. live' = live
  BY AnswerCases DEF gesture
<1>3. CASE UninstallSucceeds(j)
  <2>1. PICK kept : kept = Without(order[j.mount], j.app)
    OBVIOUS
  <2>2. order' = [order EXCEPT ![j.mount] = kept] /\ stored' = kept
    BY <1>3, <2>1 DEF UninstallSucceeds
  <2>3. Once(kept)
    BY <1>1, <2>1, WithoutOnce DEF OrderInv, Once
  <2>. QED
    BY <1>1, <1>2, <2>2, <2>3, OrderReplaced
<1>4. CASE ~UninstallSucceeds(j)
  <2>1. UNCHANGED orders
    BY <1>4, Zenon DEF Answer, ServerLists, ListArrives, ListFails, UninstallFails, ToggleAnswered
  <2>. QED
    BY <1>1, <1>2, <2>1, OrderFrame DEF orders
<1>. QED
  BY <1>3, <1>4

LEMMA OrderNext == OrderInv /\ Page /\ Listed /\ [Next]_vars => OrderInv'
<1>. SUFFICES ASSUME OrderInv, Page, Listed, [Next]_vars PROVE OrderInv'
  OBVIOUS
<1>1. Once(live) /\ Once(stored)
  BY DEF OrderInv
<1>2. ASSUME UNCHANGED <<stored, order, live>> PROVE OrderInv'
  BY <1>1, <1>2, OrderFrame
<1>3. CASE UNCHANGED vars
  BY <1>2, <1>3 DEF vars, orders, gesture
<1>4. CASE Mount
  <2>1. born + 1 \in Mounts
    BY <1>4, ConstantsOK DEF Mount, Mounts, Listed
  <2>2. order' = [order EXCEPT ![born + 1] = stored] /\ UNCHANGED <<stored, live>>
    BY <1>4 DEF Mount, gesture
  <2>. QED
    BY <1>1, <2>1, <2>2, OrderReplaced
<1>5. CASE Gone
  BY <1>1, <1>5, EmptyOnce, OrderFrame DEF Gone, orders
<1>6. CASE Pointer
  BY <1>6, OrderGesture
<1>7. CASE ToggleAppStatus \/ CloseMenu \/ AskUninstall \/ HandleUninstall \/ CancelDialog
  BY <1>2, <1>7 DEF ToggleAppStatus, CloseMenu, AskUninstall, HandleUninstall, CancelDialog, orders, gesture
<1>8. CASE HandleEdit
  BY <1>2, <1>5, <1>8 DEF HandleEdit, orders, gesture
<1>9. ASSUME NEW mode, SetSortMode(mode) PROVE OrderInv'
  BY <1>2, <1>9 DEF SetSortMode, gesture
<1>10. ASSUME NEW j \in jobs, Answer(j) PROVE OrderInv'
  BY <1>10, OrderAnswer
<1>11. ASSUME NEW a \in Apps, InstallCompletes(a) PROVE OrderInv'
  <2>1. stored' = <<a>> \o Without(stored, a) /\ UNCHANGED <<order, live>>
    BY <1>11 DEF InstallCompletes, gesture
  <2>2. Once(stored')
    BY <1>1, <2>1, FrontOnce
  <2>. QED
    BY <1>1, <2>1, <2>2, OrderFrame
<1>. QED
  BY <1>3, <1>4, <1>5, <1>6, <1>7, <1>8, <1>9, <1>10, <1>11 DEF Next, Leave, Fork

\* However drops, pins of the store page and uninstalls of pages that are gone
\* follow each other, no order names an app twice, and a gesture is under way just
\* when a tile is pressed (routes/+page.svelte).
THEOREM OrdersStaySound == Spec => []OrdersAreSound
<1>1. OrderInv /\ Page /\ Listed => OrdersAreSound
  <2>. SUFFICES ASSUME OrderInv, Page, Listed PROVE OrdersAreSound
    OBVIOUS
  <2>1. OrdersNameOnce
    BY DEF OrdersNameOnce, OrderInv, Once
  <2>2. stored \in Orders /\ live \in Orders
    BY OnceBounded DEF OrderInv
  <2>3. order \in [Mounts -> Orders]
    <3>1. \A m \in Mounts : order[m] \in Orders
      BY OnceBounded DEF OrderInv, Once
    <3>. QED
      BY <3>1 DEF OrderInv
  <2>4. \A j \in jobs : /\ j.kind \in {"list", "listed", "toggle", "uninstall"}
                      /\ j.app \in MaybeApp /\ j.mount \in Mounts /\ j.snap \in [Apps -> Statuses]
    BY DEF Listed, Requests
  <2>5. /\ server \in [Apps -> Statuses] /\ installed \in [Apps -> Statuses]
        /\ sent \in 0..MaxRequests /\ blind \in BOOLEAN
        /\ born \in 0..MaxMounts /\ mounted \in 0..born
    BY DEF Listed
  <2>6. /\ sortMode \in {"custom", "alpha", "status"}
        /\ phase \in {"idle", "pressing", "dragging"}
        /\ {pressed, timer, dragged, menu, confirming, forking} \subseteq MaybeApp
        /\ phase = "idle" <=> pressed = NoApp
    BY DEF Page
  <2>. QED
    BY <2>1, <2>2, <2>3, <2>4, <2>5, <2>6, Zenon DEF OrdersAreSound, TypeOK
<1>. QED
  BY <1>1, PageInit, OrderInit, PageNext, ListedNext, OrderNext, PTL DEF Spec

(***************************************************************************)
(* What the list owes the server.  While requests have not overlapped and  *)
(* no list was lost, at most one is in flight, and it knows what is wrong  *)
(* with the list: a toggle the one app it was for, an uninstall nothing    *)
(* yet, and an answer with a list carries what the server still holds.     *)
(***************************************************************************)
Settled == jobs = {} /\ (sent > 0 => installed = server)
Owed(j) ==
  /\ j.kind = "listed" => j.snap = server
  /\ j.kind = "toggle" => j.snap = installed /\ \A a \in Apps \ {j.app} : installed[a] = server[a]
  /\ j.kind = "uninstall" => installed = server
Alone == \E j \in jobs : jobs = {j} /\ Owed(j)
QuietInv == ~blind => Settled \/ Alone

LEMMA QuietInit == Init => QuietInv
BY DEF Init, QuietInv, Settled

\* A request sent while the list may be trusted is alone.
LEMMA SentAlone ==
  ASSUME QuietInv, NEW kind, NEW a, NEW m, NEW snap, Sends(kind, a, m, snap), ~blind'
  PROVE  /\ ~blind /\ Settled
         /\ jobs' = {[id |-> sent + 1, kind |-> kind, app |-> a, mount |-> m, snap |-> snap]}
BY DEF QuietInv, Alone, Sends

LEMMA AloneFrame ==
  ASSUME QuietInv, UNCHANGED <<server, installed, jobs, sent, blind>>
  PROVE  QuietInv'
BY DEF QuietInv, Settled, Alone, Owed

\* What an answer leaves: either nothing is in flight and the list is true, or a
\* new request for the list is.
LEMMA QuietAnswer ==
  ASSUME QuietInv, Listed, NEW j \in jobs, Answer(j)
  PROVE  QuietInv'
<1>. SUFFICES ASSUME ~blind' PROVE (Settled \/ Alone)'
  BY DEF QuietInv
<1>1. ~blind
  BY Zenon DEF Answer, ServerLists, ListArrives, ListFails, UninstallSucceeds, UninstallFails, ToggleAnswered
<1>2. jobs = {j} /\ Owed(j)
  BY <1>1 DEF QuietInv, Settled, Alone
<1>3. j \in Requests /\ server \in [Apps -> Statuses] /\ installed \in [Apps -> Statuses]
  BY DEF Listed
<1>4. ASSUME NEW kind \in {"list", "listed"}, NEW snap \in [Apps -> Statuses],
             jobs' = (jobs \ {j}) \cup {[j EXCEPT !.kind = kind, !.snap = snap]},
             kind = "listed" => snap = server'
      PROVE  Alone'
  <2>1. PICK k : k = [j EXCEPT !.kind = kind, !.snap = snap]
    OBVIOUS
  <2>2. k.kind = kind /\ k.snap = snap
    BY <1>3, <2>1 DEF Requests
  <2>3. jobs' = {k}
    BY <1>2, <1>4, <2>1
  <2>4. Owed(k)'
    BY <1>4, <2>2 DEF Owed
  <2>. QED
    BY <2>3, <2>4 DEF Alone
<1>5. jobs' = Reverting(j) => Alone'
  <2>. SUFFICES ASSUME jobs' = Reverting(j) PROVE Alone'
    OBVIOUS
  <2>. QED
    BY <1>4, NothingIs DEF Reverting
<1>6. jobs' = jobs \ {j} => jobs' = {}
  BY <1>2
<1>7. CASE ServerLists(j)
  BY <1>3, <1>4, <1>7 DEF ServerLists
<1>8. CASE ListArrives(j)
  BY <1>2, <1>6, <1>8 DEF ListArrives, Owed, Settled
<1>9. CASE ListFails(j)
  BY <1>9 DEF ListFails
<1>10. CASE UninstallSucceeds(j)
  BY <1>2, <1>6, <1>10 DEF UninstallSucceeds, Owed, Settled
<1>11. CASE UninstallFails(j)
  BY <1>5, <1>11 DEF UninstallFails
<1>12. ASSUME NEW done \in BOOLEAN, NEW ok \in BOOLEAN, ToggleAnswered(j, done, ok)
       PROVE  (Settled \/ Alone)'
  <2>1. CASE ~ok
    BY <1>5, <1>12, <2>1 DEF ToggleAnswered
  <2>2. CASE ok
    <3>1. /\ server' = [server EXCEPT ![j.app] = j.snap[j.app]] /\ installed' = installed
          /\ jobs' = jobs \ {j} /\ j.kind = "toggle"
      BY <1>12, <2>2 DEF ToggleAnswered
    <3>2. j.snap = installed /\ \A a \in Apps \ {j.app} : installed[a] = server[a]
      BY <1>2, <3>1 DEF Owed
    <3>3. server' \in [Apps -> Statuses] /\ \A a \in Apps : server'[a] = installed[a]
      BY <1>3, <3>1, <3>2
    <3>4. server' = installed
      BY <1>3, <3>3
    <3>. QED
      BY <1>6, <3>1, <3>4 DEF Settled
  <2>. QED
    BY <2>1, <2>2
<1>. QED
  BY <1>7, <1>8, <1>9, <1>10, <1>11, <1>12 DEF Answer

LEMMA QuietNext == QuietInv /\ Page /\ Listed /\ [Next]_vars => QuietInv'
<1>. SUFFICES ASSUME QuietInv, Page, Listed, [Next]_vars PROVE QuietInv'
  OBVIOUS
<1>1. ASSUME UNCHANGED lists PROVE QuietInv'
  BY <1>1, AloneFrame DEF lists
<1>2. CASE UNCHANGED vars
  BY <1>1, <1>2 DEF vars
<1>3. CASE Mount
  <2>. SUFFICES ASSUME ~blind' PROVE Alone'
    BY DEF QuietInv
  <2>1. PICK k : k = [id |-> sent + 1, kind |-> "list", app |-> NoApp, mount |-> born + 1, snap |-> Nothing]
    OBVIOUS
  <2>2. jobs' = {k} /\ k.kind = "list"
    BY <1>3, <2>1, SentAlone DEF Mount
  <2>. QED
    BY <2>2 DEF Alone, Owed
<1>4. CASE Gone
  BY <1>1, <1>4 DEF Gone
<1>5. CASE Pointer
  <2>1. UNCHANGED lists
    BY <1>5, Zenon DEF Pointer, LongPress, BeginDrag, Click, Drop, OnTilePointerDown, FlipReorder,
                       OnTileContextMenu
  <2>. QED
    BY <1>1, <2>1
<1>6. CASE ToggleAppStatus
  <2>. SUFFICES ASSUME ~blind' PROVE Alone'
    BY DEF QuietInv
  <2>1. PICK c : c = installed'
    OBVIOUS
  <2>2. PICK k : k = [id |-> sent + 1, kind |-> "toggle", app |-> menu, mount |-> mounted, snap |-> c]
    OBVIOUS
  <2>3. /\ Sends("toggle", menu, mounted, c) /\ server' = server
        /\ installed' = [installed EXCEPT ![menu] = Flip(@)] /\ menu # NoApp
    BY <1>6, <2>1 DEF ToggleAppStatus, MenuOffers
  <2>4. Settled /\ jobs' = {k} /\ k.kind = "toggle" /\ k.app = menu /\ k.snap = c
    BY <2>2, <2>3, SentAlone
  <2>5. installed = server
    BY <2>3, <2>4 DEF Settled, Page, Listed
  <2>6. \A a \in Apps \ {menu} : installed'[a] = server'[a]
    BY <2>3, <2>5 DEF Listed
  <2>. QED
    BY <2>1, <2>4, <2>6 DEF Alone, Owed
<1>7. CASE HandleUninstall
  <2>. SUFFICES ASSUME ~blind' PROVE Alone'
    BY DEF QuietInv
  <2>1. PICK k : k = [id |-> sent + 1, kind |-> "uninstall", app |-> confirming, mount |-> mounted,
                      snap |-> Nothing]
    OBVIOUS
  <2>2. Sends("uninstall", confirming, mounted, Nothing) /\ confirming # NoApp
        /\ UNCHANGED <<server, installed>>
    BY <1>7 DEF HandleUninstall
  <2>3. Settled /\ jobs' = {k} /\ k.kind = "uninstall"
    BY <2>1, <2>2, SentAlone
  <2>4. installed' = server'
    BY <2>2, <2>3 DEF Settled, Page, Listed
  <2>. QED
    BY <2>3, <2>4 DEF Alone, Owed
<1>8. CASE CloseMenu \/ AskUninstall \/ CancelDialog
  BY <1>1, <1>8 DEF CloseMenu, AskUninstall, CancelDialog
<1>9. CASE HandleEdit
  BY <1>1, <1>4, <1>9 DEF HandleEdit
<1>10. ASSUME NEW mode, SetSortMode(mode) PROVE QuietInv'
  BY <1>1, <1>10 DEF SetSortMode
<1>11. ASSUME NEW j \in jobs, Answer(j) PROVE QuietInv'
  BY <1>11, QuietAnswer
<1>12. ASSUME NEW a \in Apps, InstallCompletes(a) PROVE QuietInv'
  BY <1>12 DEF InstallCompletes, QuietInv, Settled, Alone
<1>. QED
  BY <1>2, <1>3, <1>4, <1>5, <1>6, <1>7, <1>8, <1>9, <1>10, <1>11, <1>12 DEF Next, Leave, Fork

\* When no request is in flight, none overlapped another and no list was lost, the
\* list shown is the server's, whatever was shown before the server agreed to it
\* (stores/apps.svelte.ts, the catches of toggleAppStatus and uninstallApp).
THEOREM ListTrueWhenQuiet == Spec => []ListIsTrueWhenQuiet
<1>1. QuietInv => ListIsTrueWhenQuiet
  BY DEF QuietInv, Settled, Alone, ListIsTrueWhenQuiet
<1>. QED
  BY <1>1, PageInit, QuietInit, PageNext, ListedNext, QuietNext, PTL DEF Spec

(***************************************************************************)
(* The drop.  It turns the live order, sorted with the server's order for  *)
(* ties, into the custom order, sorted with the titles' for ties: the two  *)
(* agree where there is no tie, and only apps no order names can tie.      *)
(***************************************************************************)
LEMMA NoTies ==
  ASSUME NEW S, S \subseteq Apps, NEW s \in Seq(Apps), Cardinality({a \in S : ~Contains(s, a)}) <= 1,
         NEW a \in S, NEW b \in S, a # b
  PROVE  Rank(s, a) # Rank(s, b)
<1>. DEFINE U == {x \in S : ~Contains(s, x)}
<1>1. Len(s) \in Nat
  BY LenProperties
<1>2. CASE a \in U /\ b \in U
  <2>1. IsFiniteSet(U) /\ {a, b} \in SUBSET U
    BY <1>2, AppsFinite, FS_Subset
  <2>2. Cardinality({a, b}) <= Cardinality(U) /\ Cardinality(U) \in Nat
    BY <2>1, FS_Subset, FS_CardinalityType
  <2>3. Cardinality({a, b}) = 2
    <3>. DEFINE A == {a}
                B == A \cup {b}
    <3>1. IsFiniteSet(A) /\ Cardinality(A) = 1 /\ b \notin A
      BY FS_Singleton
    <3>2. {a, b} = B
      OBVIOUS
    <3>. HIDE DEF A
    <3>3. Cardinality(B) = Cardinality(A) + 1
      BY <3>1, FS_AddElement
    <3>. HIDE DEF B
    <3>4. Cardinality(B) = 2
      BY <3>1, <3>3
    <3>. QED
      BY <3>2, <3>4, Zenon
  <2>. QED
    BY <2>2, <2>3
<1>3. CASE ~Contains(s, a) /\ Contains(s, b)
  BY <1>1, <1>3, RankIs
<1>4. CASE Contains(s, a) /\ ~Contains(s, b)
  BY <1>1, <1>4, RankIs
<1>5. CASE Contains(s, a) /\ Contains(s, b)
  BY <1>5, RankIs
<1>. QED
  BY <1>2, <1>3, <1>4, <1>5

\* Where nothing ties, the order beneath does not show.
LEMMA AnyBase ==
  ASSUME NEW S, S \subseteq Apps, NEW s \in Seq(Apps), Cardinality({a \in S : ~Contains(s, a)}) <= 1,
         NEW b1, NEW b2
  PROVE  SortedBy(S, InOrder(s), b1) = SortedBy(S, InOrder(s), b2)
<1>1. ASSUME NEW a \in S, NEW b \in S, a # b
      PROVE  Before(InOrder(s), b1, a, b) <=> Before(InOrder(s), b2, a, b)
  <2>1. InOrder(s)[a] # InOrder(s)[b]
    BY <1>1, NoTies DEF InOrder
  <2>. QED
    BY <2>1 DEF Before
<1>. QED
  BY <1>1, SameSort

\* One app alone is in the same place whatever it is sorted by.
LEMMA AnySort ==
  ASSUME NEW S, S \subseteq Apps, Cardinality({a \in S : ~Contains(<<>>, a)}) <= 1,
         NEW k1, NEW b1, NEW k2, NEW b2
  PROVE  SortedBy(S, k1, b1) = SortedBy(S, k2, b2)
<1>1. ASSUME NEW a \in S, NEW b \in S PROVE a = b
  <2>1. <<>> \in Seq(Apps) /\ ~Contains(<<>>, a) /\ ~Contains(<<>>, b)
    BY EmptySeq DEF Contains
  <2>2. Rank(<<>>, a) = Rank(<<>>, b)
    BY <2>1 DEF Rank
  <2>. QED
    BY <2>1, <2>2, NoTies
<1>. QED
  BY <1>1, SameSort

Unplaced == {a \in Visible : ~Contains(live, a)}

LEMMA DropKeeps ==
  ASSUME OrderInv, Page, Listed, Drop, Cardinality(Unplaced) <= 1
  PROVE  DisplayOrder' = DisplayOrder
<1>1. PICK S : S = Visible
  OBVIOUS
<1>2. PICK s : s = live
  OBVIOUS
<1>3. /\ s \in Seq(Apps) /\ S \subseteq Apps /\ Cardinality({a \in S : ~Contains(s, a)}) <= 1
      /\ mounted # 0 /\ mounted \in Mounts /\ dragged # NoApp
  BY <1>1, <1>2, ConstantsOK DEF OrderInv, Once, Visible, Unplaced, Page, Listed, Mounts, Drop
<1>4. /\ sortMode' = "custom" /\ mounted' = mounted /\ dragged' = NoApp
      /\ order' = [order EXCEPT ![mounted] = s] /\ Visible' = S
  BY <1>1, <1>2 DEF Drop, lists, Visible, Shown
<1>5. order'[mounted'] = s
  BY <1>3, <1>4 DEF OrderInv
<1>6. DisplayOrder' = IF s # <<>> THEN SortedBy(S, InOrder(s), ByTitle) ELSE SortedBy(S, Equal, ByKey)
  <2>1. DisplayOrder' = OrderedApps'
    BY <1>4 DEF DisplayOrder
  <2>2. OrderedApps' = IF s # <<>> THEN SortedBy(Visible', InOrder(s), ByTitle)
                       ELSE SortedBy(Visible', Equal, ByKey)
    BY <1>3, <1>4, <1>5 DEF OrderedApps
  <2>. QED
    BY <1>4, <2>1, <2>2
<1>7. CASE s # <<>>
  <2>1. DisplayOrder = SortedBy(S, InOrder(s), ByKey)
    BY <1>1, <1>2, <1>3, <1>7 DEF DisplayOrder
  <2>. QED
    BY <1>3, <1>6, <1>7, <2>1, AnyBase
<1>8. CASE s = <<>>
  <2>1. DisplayOrder = OrderedApps
    BY <1>2, <1>8 DEF DisplayOrder
  <2>2. \E k, b : OrderedApps = SortedBy(S, k, b)
    BY <1>1 DEF OrderedApps
  <2>. QED
    BY <1>3, <1>6, <1>8, <2>1, <2>2, AnySort
<1>. QED
  BY <1>7, <1>8

LEMMA DropNext ==
  ASSUME OrderInv, Page, Listed, [Next]_vars, phase = "dragging", phase' = "idle", mounted' # 0,
         Cardinality(Unplaced) <= 1
  PROVE  DisplayOrder' = DisplayOrder
<1>1. ~Gone /\ ~UNCHANGED gesture
  BY DEF Gone, gesture
<1>2. CASE Pointer
  <2>1. CASE Drop
    BY <2>1, DropKeeps
  <2>2. CASE LongPress \/ BeginDrag \/ Click
    BY <2>2 DEF LongPress, BeginDrag, Click
  <2>3. CASE \E a \in Apps : OnTilePointerDown(a) \/ FlipReorder(a) \/ OnTileContextMenu(a)
    BY <2>3, Zenon DEF OnTilePointerDown, FlipReorder, OnTileContextMenu, gesture
  <2>. QED
    BY <1>2, <2>1, <2>2, <2>3 DEF Pointer
<1>3. CASE \E j \in jobs : Answer(j)
  BY <1>1, <1>3, AnswerCases
<1>4. CASE ~Pointer /\ ~(\E j \in jobs : Answer(j))
  BY <1>1, <1>4, Zenon DEF Next, vars, Mount, Leave, ToggleAppStatus, CloseMenu, AskUninstall, HandleUninstall,
                     HandleEdit, Fork, CancelDialog, SetSortMode, InstallCompletes
<1>. QED
  BY <1>2, <1>3, <1>4

\* What is seen when the pointer is released is what is kept: the drop itself moves
\* no tile, whatever sort the drag began in and whatever was installed or removed
\* during it (routes/+page.svelte, onWindowPointerUp).
THEOREM DropMovesNothing == Spec => DropKeepsWhatIsSeen
<1>1. OrderInv /\ Page /\ Listed /\ [Next]_vars =>
        [phase = "dragging" /\ phase' = "idle" /\ mounted' # 0
           /\ Cardinality({a \in Visible : ~Contains(live, a)}) <= 1
         => DisplayOrder' = DisplayOrder]_vars
  BY DropNext DEF Unplaced
<1>. QED
  BY <1>1, PageInit, OrderInit, PageNext, ListedNext, OrderNext, PTL DEF Spec, DropKeepsWhatIsSeen
=============================================================================

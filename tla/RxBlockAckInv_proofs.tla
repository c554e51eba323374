----------------------- MODULE RxBlockAckInv_proofs -----------------------
(***************************************************************************)
(* The structural invariants of the reorder buffer: the window, the slots, *)
(* the count and the gap timer agree with each other.  IInv is inductive;  *)
(* the invariants RxBlockAck states follow from it.                        *)
(***************************************************************************)
EXTENDS RxBlockAck_proofs

(* The end of the window and the slots follow its start.                   *)
WindowOK(b) ==
  /\ b.winsize \in 1 .. MaxWinSz
  /\ b.winsize = 1 => \E q \in 0 .. SeqMod : SeqMod \div 2 = MaxWinSz * q
  /\ b.winend = WinEnd(b)
  /\ \A i \in Index :
       ~Empty(b, i) =>
         /\ i < b.winsize
         /\ Sn(b.buf[Slot(b, i)]) = (b.winstart + i) % SeqMod

CountOK(b) == b.gapwait = Cardinality(Occupied(b))

TimerOK(b) == b.gapwait > 0 => b.gap_to.armed

(* A buffer in order, as the functions of the reorder buffer pass it on to *)
(* each other; Settled, as a handler leaves it.                            *)
Ordered(b) == b \in BaType /\ WindowOK(b) /\ CountOK(b)
Settled(b) == Ordered(b) /\ Empty(b, 0)

IInv ==
  /\ TypeOK
  /\ ba_buf => Settled(ba)
  /\ ba_buf /\ ba_state # "INIT" /\ ~driver.late => TimerOK(ba)

-----------------------------------------------------------------------------
(* Arithmetic modulo the two sizes, over the ranges the code reaches.      *)

LEMMA SeqModLow == \A x \in 0 .. SeqMod - 1 : x % SeqMod = x
BY Sizes

LEMMA SeqModOnce == \A x \in SeqMod .. 2 * SeqMod - 1 : x % SeqMod = x - SeqMod
BY Sizes

LEMMA SeqModNeg == \A x \in -SeqMod .. -1 : x % SeqMod = x + SeqMod
BY Sizes

LEMMA WinModLow == \A x \in 0 .. MaxWinSz - 1 : x % MaxWinSz = x
BY Sizes

LEMMA WinModOnce ==
  \A x \in MaxWinSz .. 2 * MaxWinSz - 1 : x % MaxWinSz = x - MaxWinSz
BY Sizes

LEMMA WinModTwice ==
  \A x \in 2 * MaxWinSz .. 3 * MaxWinSz - 1 : x % MaxWinSz = x - 2 * MaxWinSz
BY Sizes

LEMMA WinModNeg == \A x \in -MaxWinSz .. -1 : x % MaxWinSz = x + MaxWinSz
BY Sizes

LEMMA WinModMultiple ==
  \A x \in 0 .. MaxWinSz - 1, q \in Int : (x + MaxWinSz * q) % MaxWinSz = x
BY Sizes

(* Slot(b, _) is a bijection of Index, and this is its inverse.            *)
LEMMA SlotPlace ==
  ASSUME NEW b \in BaType, NEW s \in Index
  PROVE  /\ (s - b.head) % MaxWinSz \in Index
         /\ Slot(b, (s - b.head) % MaxWinSz) = s
<1>1. b.head \in 0 .. MaxWinSz - 1 /\ s \in 0 .. MaxWinSz - 1 /\ MaxWinSz \in Nat
  BY Sizes DEF BaType, Index
<1>2. CASE s >= b.head
  <2>1. (s - b.head) % MaxWinSz = s - b.head
    BY <1>1, <1>2, WinModLow, WinModOnce, WinModNeg, Sizes
  <2>2. (b.head + (s - b.head)) % MaxWinSz = s
    BY <1>1, WinModLow, WinModOnce, WinModNeg, Sizes
  <2> QED BY <1>1, <1>2, <2>1, <2>2 DEF Slot, Index
<1>3. CASE s < b.head
  <2>1. (s - b.head) % MaxWinSz = s - b.head + MaxWinSz
    BY <1>1, <1>3, WinModLow, WinModOnce, WinModNeg, Sizes
  <2>2. (b.head + (s - b.head + MaxWinSz)) % MaxWinSz = s
    BY <1>1, WinModLow, WinModOnce, WinModNeg, Sizes
  <2> QED BY <1>1, <1>3, <2>1, <2>2 DEF Slot, Index
<1> QED BY <1>1, <1>2, <1>3

LEMMA PlaceSlot ==
  ASSUME NEW b \in BaType, NEW i \in Index
  PROVE  /\ Slot(b, i) \in Index
         /\ (Slot(b, i) - b.head) % MaxWinSz = i
<1>1. b.head \in 0 .. MaxWinSz - 1 /\ i \in 0 .. MaxWinSz - 1 /\ MaxWinSz \in Nat
  BY Sizes DEF BaType, Index
<1>2. CASE b.head + i < MaxWinSz
  <2>1. Slot(b, i) = b.head + i
    BY <1>1, <1>2, WinModLow, WinModOnce, WinModNeg, Sizes DEF Slot
  <2> QED BY <1>1, <1>2, <2>1, WinModLow, WinModOnce, WinModNeg, Sizes DEF Index
<1>3. CASE b.head + i >= MaxWinSz
  <2>1. Slot(b, i) = b.head + i - MaxWinSz
    BY <1>1, <1>3, WinModLow, WinModOnce, WinModNeg, Sizes DEF Slot
  <2>2. (i - MaxWinSz) % MaxWinSz = i
    BY <1>1, WinModLow, WinModOnce, WinModNeg, Sizes
  <2>3. Slot(b, i) - b.head = i - MaxWinSz
    BY <1>1, <2>1
  <2> QED BY <1>1, <1>3, <2>1, <2>2, <2>3 DEF Index
<1> QED BY <1>1, <1>2, <1>3

(* A slot counted from the head after k slots left the window.             *)
LEMMA SlotShift ==
  ASSUME NEW b \in BaType, NEW k \in 0 .. MaxWinSz, NEW i \in Index,
         NEW c, c.head = Slot(b, k)
  PROVE  /\ k + i < MaxWinSz => Slot(c, i) = Slot(b, k + i)
         /\ k + i >= MaxWinSz => Slot(c, i) = Slot(b, k + i - MaxWinSz)
<1> DEFINE h == b.head
<1>1. /\ h \in 0 .. MaxWinSz - 1 /\ i \in 0 .. MaxWinSz - 1
      /\ MaxWinSz \in Nat /\ k \in 0 .. MaxWinSz
  BY Sizes DEF BaType, Index
<1> HIDE DEF h
<1>2. Slot(c, i) = (((h + k) % MaxWinSz) + i) % MaxWinSz
  BY DEF Slot, h
<1>3. (h + k) % MaxWinSz = IF h + k < MaxWinSz THEN h + k ELSE h + k - MaxWinSz
  <2>2. CASE h + k \in 0 .. MaxWinSz - 1
    BY <1>1, <2>2, WinModLow, Sizes
  <2>3. CASE h + k \in MaxWinSz .. 2 * MaxWinSz - 1
    BY <1>1, <2>3, WinModOnce, Sizes
  <2> QED BY <1>1, <2>2, <2>3
<1> DEFINE x == h + (k + i)
           y == (IF h + k < MaxWinSz THEN h + k ELSE h + k - MaxWinSz) + i
           z == x - MaxWinSz
<1>4. /\ x \in 0 .. 3 * MaxWinSz - 2 /\ y \in 0 .. 2 * MaxWinSz - 2
      /\ y = x \/ y = x - MaxWinSz
      /\ x \in Int /\ y \in Int /\ z \in Int
  BY <1>1
<1>5. k + i >= MaxWinSz => z \in 0 .. 2 * MaxWinSz - 1 /\ z = h + (k + i - MaxWinSz)
  BY <1>1
<1> HIDE DEF x, y
<1>6. y % MaxWinSz = x % MaxWinSz
  <2>1. CASE x \in 0 .. MaxWinSz - 1
    BY <1>1, <1>4, <2>1
  <2>2. CASE x \in MaxWinSz .. 2 * MaxWinSz - 1
    BY <1>1, <1>4, <2>2, WinModLow, WinModOnce
  <2>3. CASE x \in 2 * MaxWinSz .. 3 * MaxWinSz - 1
    BY <1>1, <1>4, <2>3, WinModOnce, WinModTwice
  <2> QED BY <1>1, <1>4, <2>1, <2>2, <2>3
<1>7. k + i >= MaxWinSz => z % MaxWinSz = x % MaxWinSz
  <2>1. CASE x \in MaxWinSz .. 2 * MaxWinSz - 1
    BY <1>1, <1>4, <1>5, <2>1, WinModLow, WinModOnce
  <2>2. CASE x \in 2 * MaxWinSz .. 3 * MaxWinSz - 1
    BY <1>1, <1>4, <1>5, <2>2, WinModOnce, WinModTwice
  <2> QED BY <1>1, <1>4, <1>5, <2>1, <2>2
<1>8. Slot(c, i) = x % MaxWinSz
  BY <1>2, <1>3, <1>6 DEF y
<1> QED BY <1>5, <1>7, <1>8 DEF Slot, h, x

-----------------------------------------------------------------------------
(* What PassSlots leaves in the buffer.                                    *)

(* The buffer of b after k slots have left it.                             *)
Passed(c, b, k) == c.buf = PassSlots(b, k).buf /\ c.head = Slot(b, k)

LEMMA PassSlotsFields ==
  ASSUME NEW b \in BaType, NEW k \in 0 .. MaxWinSz
  PROVE  LET p == PassSlots(b, k) IN
         /\ \A s \in Index : p.buf[s] = IF (s - b.head) % MaxWinSz < k
                                       THEN NoMpdu ELSE b.buf[s]
         /\ p.head = Slot(b, k)
         /\ p.gapwait = b.gapwait
                          - Cardinality({i \in 0 .. k - 1 : ~Empty(b, i)})
         /\ p.winstart = b.winstart /\ p.winend = b.winend
         /\ p.winsize = b.winsize /\ p.gap_to = b.gap_to
BY DEF PassSlots, BaType

LEMMA PassedSlot ==
  ASSUME NEW b \in BaType, NEW k \in 0 .. MaxWinSz, NEW i \in Index,
         NEW c, Passed(c, b, k)
  PROVE  c.buf[Slot(c, i)]
           = IF k + i < MaxWinSz THEN b.buf[Slot(b, k + i)] ELSE NoMpdu
<1>1. c.head = Slot(b, k)
  BY DEF Passed
<1>2. \A s \in Index : c.buf[s] = IF (s - b.head) % MaxWinSz < k
                                  THEN NoMpdu ELSE b.buf[s]
  BY PassSlotsFields DEF Passed
<1>3. i \in 0 .. MaxWinSz - 1 /\ k \in 0 .. MaxWinSz /\ MaxWinSz \in Nat
  BY Sizes DEF Index
<1>4. CASE k + i < MaxWinSz
  <2>1. k + i \in Index
    BY <1>3, <1>4 DEF Index
  <2>2. Slot(c, i) = Slot(b, k + i)
    BY <1>1, <1>4, SlotShift
  <2>3. Slot(b, k + i) \in Index /\ (Slot(b, k + i) - b.head) % MaxWinSz = k + i
    BY <2>1, PlaceSlot
  <2> QED BY <1>2, <1>3, <1>4, <2>2, <2>3
<1>5. CASE k + i >= MaxWinSz
  <2> DEFINE j == k + i - MaxWinSz
  <2>1. j \in Index /\ j < k
    BY <1>3, <1>5 DEF Index
  <2>2. Slot(c, i) = Slot(b, j)
    BY <1>1, <1>5, SlotShift
  <2> HIDE DEF j
  <2>3. Slot(b, j) \in Index /\ (Slot(b, j) - b.head) % MaxWinSz = j
    BY <2>1, PlaceSlot
  <2>4. c.buf[Slot(b, j)] = NoMpdu
    BY <1>2, <2>1, <2>3
  <2>5. ~(k + i < MaxWinSz)
    BY <1>3, <1>5
  <2> QED BY <2>2, <2>4, <2>5
<1> QED BY <1>3, <1>4, <1>5

LEMMA PassedEmpty ==
  ASSUME NEW b \in BaType, NEW k \in 0 .. MaxWinSz, NEW i \in Index,
         NEW c, Passed(c, b, k)
  PROVE  Empty(c, i) <=> (k + i < MaxWinSz => Empty(b, k + i))
BY PassedSlot DEF Empty

LEMMA OccupiedFinite ==
  ASSUME NEW b
  PROVE  IsFiniteSet(Occupied(b)) /\ Cardinality(Occupied(b)) \in Nat
<1>1. IsFiniteSet(Index)
  BY Sizes, FS_Interval DEF Index
<1>2. Occupied(b) \in SUBSET Index
  BY DEF Occupied
<1> QED BY <1>1, <1>2, FS_Subset, FS_CardinalityType

(* The slots passed are counted: as many leave the count as the buffer.    *)
LEMMA PassSlotsCount ==
  ASSUME NEW b \in BaType, NEW k \in 0 .. MaxWinSz, CountOK(b)
  PROVE  CountOK(PassSlots(b, k))
<1> DEFINE P == {i \in 0 .. k - 1 : ~Empty(b, i)}
           Q == {s \in Occupied(b) : (s - b.head) % MaxWinSz < k}
           f == [i \in P |-> Slot(b, i)]
<1>0. P \in SUBSET Index /\ k \in 0 .. MaxWinSz /\ MaxWinSz \in Nat
  BY Sizes DEF Index
<1>1. \A i \in P : /\ Slot(b, i) \in Index
                   /\ (Slot(b, i) - b.head) % MaxWinSz = i
                   /\ i < k
  BY <1>0, PlaceSlot
<1>2. f \in [P -> Q]
  <2>1. \A i \in P : Slot(b, i) \in Q
    BY <1>1 DEF Empty, Occupied
  <2> QED BY <2>1
<1>3. \A i, j \in P : f[i] = f[j] => i = j
  BY <1>1
<1>4. \A s \in Q : \E i \in P : f[i] = s
  <2> SUFFICES ASSUME NEW s \in Q PROVE \E i \in P : f[i] = s
    OBVIOUS
  <2> DEFINE i == (s - b.head) % MaxWinSz
  <2>1. s \in Index /\ i < k
    BY DEF Occupied
  <2>2. i \in Index /\ Slot(b, i) = s
    BY <2>1, SlotPlace
  <2>3. b.buf[s] # NoMpdu
    BY DEF Occupied
  <2> HIDE DEF i
  <2>4. i \in P
    BY <1>0, <2>1, <2>2, <2>3 DEF Empty, Index
  <2> QED BY <2>2, <2>4
<1>5. ExistsBijection(P, Q)
  <2> HIDE DEF P, Q, f
  <2>1. f \in Injection(P, Q)
    BY <1>2, <1>3 DEF Injection, IsInjective
  <2>2. f \in Surjection(P, Q)
    BY <1>2, <1>4 DEF Surjection
  <2> QED BY <2>1, <2>2 DEF ExistsBijection, Bijection
<1>6. IsFiniteSet(P)
  <2>1. IsFiniteSet(0 .. k - 1) /\ P \in SUBSET (0 .. k - 1)
    BY <1>0, FS_Interval
  <2> QED BY <2>1, FS_Subset
<1>7. Cardinality(P) = Cardinality(Q)
  BY <1>5, <1>6, FS_Bijection
<1>8. Occupied(PassSlots(b, k)) = Occupied(b) \ Q
  BY PassSlotsFields DEF Occupied
<1>9. Occupied(b) \cap Q = Q
  OBVIOUS
<1> HIDE DEF Q
<1>10. Cardinality(Occupied(b) \ Q) = Cardinality(Occupied(b)) - Cardinality(Q)
  BY <1>9, OccupiedFinite, FS_Difference
<1> QED BY <1>7, <1>8, <1>10, PassSlotsFields DEF CountOK

-----------------------------------------------------------------------------
(* Each function of the reorder buffer keeps it in order.                  *)

LEMMA WindowBounds ==
  ASSUME NEW b \in BaType
  PROVE  /\ b.winstart \in 0 .. SeqMod - 1 /\ b.winstart \in Int
         /\ b.winsize \in 0 .. MaxWinSz /\ b.winsize \in Int
BY Sizes DEF BaType, SeqNo

LEMMA SetWinEndFields ==
  ASSUME NEW b \in BaType
  PROVE  LET e == SetWinEnd(b) IN
         /\ e.buf = b.buf /\ e.head = b.head /\ e.winstart = b.winstart
         /\ e.winsize = b.winsize /\ e.gapwait = b.gapwait
         /\ e.gap_to = b.gap_to /\ e.winend = WinEnd(e)
BY DEF SetWinEnd, BaType, WinEnd

LEMMA AdvanceFields ==
  ASSUME NEW b \in BaType, NEW k \in 0 .. MaxWinSz
  PROVE  LET a == Advance(b, k) IN
         /\ a \in BaType
         /\ Passed(a, b, k)
         /\ a.winstart = (b.winstart + k) % SeqMod
         /\ a.winsize = b.winsize /\ a.winend = WinEnd(a)
         /\ a.gapwait = PassSlots(b, k).gapwait /\ a.gap_to = b.gap_to
<1> DEFINE p == PassSlots(b, k)
           w == [p EXCEPT !.winstart = (b.winstart + k) % SeqMod]
<1>1. p \in BaType
  BY PassSlotsType
<1>2. (b.winstart + k) % SeqMod \in SeqNo
  BY WindowBounds, SeqNoMod, Sizes
<1>3. w \in BaType
  BY <1>1, <1>2 DEF BaType
<1>4. /\ w.buf = p.buf /\ w.head = p.head /\ w.winsize = p.winsize
      /\ w.winstart = (b.winstart + k) % SeqMod
      /\ w.gapwait = p.gapwait /\ w.gap_to = p.gap_to
  BY <1>1 DEF BaType
<1>5. p.head = Slot(b, k) /\ p.winsize = b.winsize /\ p.gap_to = b.gap_to
  BY PassSlotsFields
<1>6. Advance(b, k) = SetWinEnd(w)
  BY DEF Advance
<1> HIDE DEF w, p
<1>7. LET e == SetWinEnd(w) IN
         /\ e.buf = w.buf /\ e.head = w.head /\ e.winstart = w.winstart
         /\ e.winsize = w.winsize /\ e.gapwait = w.gapwait
         /\ e.gap_to = w.gap_to /\ e.winend = WinEnd(e)
  BY <1>3, SetWinEndFields
<1> QED BY <1>4, <1>5, <1>6, <1>7, AdvanceType DEF Passed, p

(* The sequence number of the slot i places after a moved head.            *)
LEMMA SeqShift ==
  ASSUME NEW n \in SeqNo, NEW k \in 0 .. MaxWinSz, NEW i \in 0 .. MaxWinSz,
         k + i <= MaxWinSz
  PROVE  (((n + k) % SeqMod) + i) % SeqMod = (n + (k + i)) % SeqMod
<1>1. /\ n \in 0 .. SeqMod - 1 /\ k + i \in 0 .. SeqMod - 1
      /\ i \in 0 .. SeqMod - 1 /\ SeqMod \in Nat /\ k \in 0 .. SeqMod - 1
  BY Sizes DEF SeqNo
<1>2. CASE n + k < SeqMod
  <2>1. (n + k) % SeqMod = n + k
    BY <1>1, <1>2, SeqModLow
  <2> QED BY <1>1, <2>1
<1>3. CASE n + k >= SeqMod
  <2>1. (n + k) % SeqMod = n + k - SeqMod
    BY <1>1, <1>3, SeqModOnce
  <2>2. (n + (k + i)) % SeqMod = n + (k + i) - SeqMod
    BY <1>1, <1>3, SeqModOnce
  <2>3. (n + k - SeqMod + i) % SeqMod = n + k - SeqMod + i
    BY <1>1, <1>3, SeqModLow
  <2> QED BY <1>1, <2>1, <2>2, <2>3
<1> QED BY <1>1, <1>2, <1>3

LEMMA AdvanceOrdered ==
  ASSUME NEW b, Ordered(b), NEW k \in 0 .. MaxWinSz
  PROVE  Ordered(Advance(b, k))
<1> DEFINE a == Advance(b, k)
<1>0. b \in BaType /\ WindowOK(b) /\ CountOK(b)
  BY DEF Ordered
<1>1. /\ a \in BaType
      /\ Passed(a, b, k)
      /\ a.winstart = (b.winstart + k) % SeqMod
      /\ a.winsize = b.winsize /\ a.winend = WinEnd(a)
      /\ a.gapwait = PassSlots(b, k).gapwait /\ a.gap_to = b.gap_to
  BY <1>0, AdvanceFields
<1> HIDE DEF a
<1>2. ASSUME NEW i \in Index, ~Empty(a, i)
      PROVE  /\ i < a.winsize
             /\ Sn(a.buf[Slot(a, i)]) = (a.winstart + i) % SeqMod
  <2>1. k + i < MaxWinSz /\ ~Empty(b, k + i)
    BY <1>0, <1>1, <1>2, PassedEmpty
  <2>2. k + i \in Index /\ k \in Nat /\ i \in Nat
    BY <2>1, Sizes DEF Index
  <2>3. /\ k + i < b.winsize
        /\ Sn(b.buf[Slot(b, k + i)]) = (b.winstart + (k + i)) % SeqMod
    BY <1>0, <2>1, <2>2 DEF WindowOK
  <2>4. a.buf[Slot(a, i)] = b.buf[Slot(b, k + i)]
    BY <1>0, <1>1, <2>1, PassedSlot
  <2>5. b.winstart \in SeqNo
    BY <1>0 DEF BaType
  <2>6. (a.winstart + i) % SeqMod = (b.winstart + (k + i)) % SeqMod
    <3>1. i \in 0 .. MaxWinSz /\ k + i <= MaxWinSz
      BY <2>1, Sizes DEF Index
    <3> QED BY <1>1, <2>5, <3>1, SeqShift
  <2>7. i < a.winsize
    BY <1>0, <1>1, <2>2, <2>3, WindowBounds
  <2> QED BY <2>3, <2>4, <2>6, <2>7
<1>3. WindowOK(a)
  BY <1>0, <1>1, <1>2 DEF WindowOK
<1>4. CountOK(a)
  <2>1. CountOK(PassSlots(b, k))
    BY <1>0, PassSlotsCount
  <2>2. Occupied(a) = Occupied(PassSlots(b, k))
    BY <1>1 DEF Occupied, Passed
  <2> QED BY <1>1, <2>1, <2>2 DEF CountOK
<1> QED BY <1>1, <1>3, <1>4 DEF Ordered, a

(* Two records with the same window and the same buffer.                   *)
SameWindow(b, c) ==
  /\ c.buf = b.buf /\ c.head = b.head /\ c.gapwait = b.gapwait
  /\ c.winstart = b.winstart /\ c.winend = b.winend /\ c.winsize = b.winsize

LEMMA SameWindowOrdered ==
  ASSUME NEW b, NEW c \in BaType, SameWindow(b, c)
  PROVE  /\ Ordered(b) => Ordered(c)
         /\ Settled(b) => Settled(c)
         /\ \A i : Empty(c, i) = Empty(b, i)
<1>1. \A i : Slot(c, i) = Slot(b, i)
  BY DEF Slot, SameWindow
<1>2. \A i : Empty(c, i) = Empty(b, i)
  BY <1>1 DEF Empty, SameWindow
<1>3. WindowOK(b) => WindowOK(c)
  BY <1>1, <1>2 DEF WindowOK, WinEnd, SameWindow
<1>4. CountOK(b) => CountOK(c)
  BY DEF CountOK, Occupied, SameWindow
<1> QED BY <1>2, <1>3, <1>4 DEF Ordered, Settled

LEMMA GapToSame ==
  ASSUME NEW b \in BaType, NEW to \in TimeoutType
  PROVE  LET c == [b EXCEPT !.gap_to = to]
         IN c \in BaType /\ SameWindow(b, c) /\ c.gap_to = to
BY DEF BaType, SameWindow

LEMMA ForgetMissesSame ==
  ASSUME NEW b \in BaType
  PROVE  SameWindow(b, ForgetMisses(b)) /\ ForgetMisses(b).gap_to = b.gap_to
BY DEF BaType, SameWindow, ForgetMisses

LEMMA FreshSame ==
  ASSUME NEW b \in BaType
  PROVE  SameWindow(b, Fresh(b)) /\ Fresh(b).gap_to = b.gap_to
BY DEF BaType, SameWindow, Fresh

LEMMA CountMissSame ==
  ASSUME NEW b \in BaType, NEW m
  PROVE  SameWindow(b, CountMiss(b, m)) /\ CountMiss(b, m).gap_to = b.gap_to
BY DEF BaType, SameWindow, CountMiss

(* Nothing is left at the head, and the timer runs if anything is left.    *)
LEMMA FlushFacts ==
  ASSUME NEW b, Ordered(b)
  PROVE  LET f == input_ba_flush(b) IN
         /\ Settled(f) /\ f.winsize = b.winsize
         /\ TimerOK(b) => TimerOK(f)
         /\ \/ Empty(b, 0) /\ f = b
            \/ /\ ~Empty(b, 0) /\ TimerOK(f)
               /\ RunLength(b) \in 1 .. b.winsize
               /\ f.winstart = (b.winstart + RunLength(b)) % SeqMod
<1>1. CASE Empty(b, 0)
  BY <1>1 DEF input_ba_flush, Settled
<1>2. CASE ~Empty(b, 0)
  <2> DEFINE r == RunLength(b)
             a == Advance(b, r)
             to == IF a.gapwait # 0 THEN TimeoutAdd ELSE TimeoutDelIfPending(a.gap_to)
             f == [a EXCEPT !.gap_to = to]
  <2>1. /\ r \in 0 .. MaxWinSz
        /\ r < MaxWinSz => Empty(b, r)
        /\ \A k \in 0 .. r - 1 : ~Empty(b, k)
    BY RunLengthRange
  <2>2. b \in BaType /\ WindowOK(b)
    BY DEF Ordered
  <2>3. r \in 1 .. b.winsize
    <3>1. b.winsize \in 1 .. MaxWinSz
      BY <2>2 DEF WindowOK
    <3>2. r # 0
      BY <1>2, <2>1, Sizes
    <3>3. ASSUME r > b.winsize PROVE FALSE
      <4>1. b.winsize \in 0 .. r - 1 /\ b.winsize \in Index
        BY <2>1, <3>1, <3>3, Sizes DEF Index
      <4>2. ~Empty(b, b.winsize)
        BY <2>1, <4>1
      <4> QED BY <2>2, <3>1, <4>1, <4>2 DEF WindowOK
    <3> QED BY <2>1, <3>1, <3>2, <3>3, Sizes
  <2>4. /\ a \in BaType
        /\ Passed(a, b, r)
        /\ a.winstart = (b.winstart + r) % SeqMod
        /\ a.winsize = b.winsize
    BY <2>1, <2>2, AdvanceFields
  <2>5. Ordered(a)
    BY <2>1, AdvanceOrdered
  <2>6. Empty(a, 0)
    <3>1. 0 \in Index /\ r + 0 = r
      BY <2>1, Sizes DEF Index
    <3> QED BY <2>1, <2>2, <2>4, <3>1, PassedEmpty
  <2>7. f = input_ba_flush(b)
    BY <1>2 DEF input_ba_flush
  <2> HIDE DEF r, a
  <2>8. a.gap_to \in TimeoutType
    BY <2>4 DEF BaType
  <2>9. to \in TimeoutType
    BY <2>8, TimeoutTypes
  <2>10. a.gapwait > 0 => to.armed
    BY DEF TimeoutAdd
  <2> HIDE DEF to
  <2>11. f \in BaType /\ SameWindow(a, f) /\ f.gap_to = to
    BY <2>4, <2>9, GapToSame
  <2> HIDE DEF f
  <2>12. Settled(f)
    BY <2>5, <2>6, <2>11, SameWindowOrdered DEF Settled
  <2>13. TimerOK(f)
    BY <2>10, <2>11 DEF TimerOK, SameWindow
  <2> QED BY <1>2, <2>3, <2>4, <2>7, <2>11, <2>12, <2>13 DEF r, SameWindow
<1> QED BY <1>1, <1>2

(* What leaves the window is taken off the count.                          *)
LEMMA PassSlotsTimer ==
  ASSUME NEW b \in BaType, NEW k \in 0 .. MaxWinSz, TimerOK(b)
  PROVE  TimerOK(PassSlots(b, k))
<1> DEFINE P == {i \in 0 .. k - 1 : ~Empty(b, i)}
<1>1. Cardinality(P) \in Nat
  <2>1. IsFiniteSet(0 .. k - 1) /\ P \in SUBSET (0 .. k - 1)
    BY Sizes, FS_Interval
  <2> QED BY <2>1, FS_Subset, FS_CardinalityType
<1>2. /\ PassSlots(b, k).gapwait = b.gapwait - Cardinality(P)
      /\ PassSlots(b, k).gap_to = b.gap_to
  BY PassSlotsFields
<1>3. b.gapwait \in Int
  BY DEF BaType
<1> HIDE DEF P
<1> QED BY <1>1, <1>2, <1>3 DEF TimerOK

LEMMA AdvanceTimer ==
  ASSUME NEW b \in BaType, NEW k \in 0 .. MaxWinSz, TimerOK(b)
  PROVE  TimerOK(Advance(b, k))
<1>1. TimerOK(PassSlots(b, k))
  BY PassSlotsTimer
<1>2. PassSlots(b, k).gap_to = b.gap_to
  BY PassSlotsFields
<1>3. /\ Advance(b, k).gapwait = PassSlots(b, k).gapwait
      /\ Advance(b, k).gap_to = b.gap_to
  BY AdvanceFields
<1> QED BY <1>1, <1>2, <1>3 DEF TimerOK

(* The distance between two sequence numbers counted from a third.         *)
LEMMA SeqDiff ==
  ASSUME NEW n \in SeqNo, NEW p \in 0 .. SeqMod - 1, NEW q \in 0 .. SeqMod - 1
  PROVE  (((n + p) % SeqMod) - ((n + q) % SeqMod)) % SeqMod
           = IF p >= q THEN p - q ELSE p - q + SeqMod
<1>1. n \in 0 .. SeqMod - 1 /\ SeqMod \in Nat
  BY Sizes DEF SeqNo
<1>2. (n + p) % SeqMod = IF n + p < SeqMod THEN n + p ELSE n + p - SeqMod
  BY <1>1, SeqModLow, SeqModOnce
<1>3. (n + q) % SeqMod = IF n + q < SeqMod THEN n + q ELSE n + q - SeqMod
  BY <1>1, SeqModLow, SeqModOnce
<1> DEFINE x == ((n + p) % SeqMod) - ((n + q) % SeqMod)
<1>4. /\ x \in Int
      /\ p >= q => x = p - q \/ x = p - q - SeqMod
      /\ p < q => x = p - q \/ x = p - q + SeqMod
  BY <1>1, <1>2, <1>3
<1> HIDE DEF x
<1>5. CASE p >= q
  BY <1>1, <1>4, <1>5, SeqModLow, SeqModNeg
<1>6. CASE p < q
  BY <1>1, <1>4, <1>6, SeqModLow, SeqModNeg
<1> QED BY <1>1, <1>5, <1>6 DEF x

LEMMA DistanceBack ==
  ASSUME NEW n \in SeqNo, NEW ssn \in SeqNo
  PROVE  /\ (ssn - n) % SeqMod \in 0 .. SeqMod - 1
         /\ (n + ((ssn - n) % SeqMod)) % SeqMod = ssn
<1>1. n \in 0 .. SeqMod - 1 /\ ssn \in 0 .. SeqMod - 1 /\ SeqMod \in Nat
  BY Sizes DEF SeqNo
<1> DEFINE d == (ssn - n) % SeqMod
<1>2. d = IF ssn >= n THEN ssn - n ELSE ssn - n + SeqMod
  BY <1>1, SeqModLow, SeqModNeg
<1> HIDE DEF d
<1>3. d \in 0 .. SeqMod - 1 /\ (n + d = ssn \/ n + d = ssn + SeqMod)
  BY <1>1, <1>2
<1>4. ssn % SeqMod = ssn /\ (ssn + SeqMod) % SeqMod = ssn
  BY <1>1, SeqModLow, SeqModOnce
<1>5. (n + d) % SeqMod = ssn
  BY <1>3, <1>4
<1> QED BY <1>3, <1>5 DEF d

(* What ba_move_window makes of the record before it flushes.              *)
Moved(b, ssn) ==
  LET distance == (ssn - b.winstart) % SeqMod
      count == IF distance > b.winsize THEN b.winsize ELSE distance
  IN SetWinEnd([PassSlots(b, count) EXCEPT !.winstart = ssn])

(* The window moves to any sequence number: a jump farther than the window *)
(* empties the buffer.                                                     *)
LEMMA MovedFacts ==
  ASSUME NEW b, Ordered(b), NEW ssn \in SeqNo
  PROVE  LET e == Moved(b, ssn) IN
         /\ Ordered(e) /\ e.winsize = b.winsize /\ e.winstart = ssn
         /\ TimerOK(b) => TimerOK(e)
         /\ (ssn - b.winstart) % SeqMod > b.winsize =>
              \A i \in Index : Empty(e, i)
<1> DEFINE distance == (ssn - b.winstart) % SeqMod
           count == IF distance > b.winsize THEN b.winsize ELSE distance
           p == PassSlots(b, count)
           w == [p EXCEPT !.winstart = ssn]
           e == SetWinEnd(w)
<1>1. b \in BaType /\ WindowOK(b) /\ CountOK(b)
  BY DEF Ordered
<1>2. b.winstart \in SeqNo /\ b.winsize \in 1 .. MaxWinSz
  BY <1>1 DEF BaType, WindowOK
<1>3. /\ distance \in 0 .. SeqMod - 1
      /\ (b.winstart + distance) % SeqMod = ssn
  BY <1>2, DistanceBack
<1>4. Moved(b, ssn) = e
  BY DEF Moved
<1> HIDE DEF distance
<1>5. count \in 0 .. MaxWinSz
  BY <1>2, <1>3, Sizes
<1>6. /\ distance > b.winsize => count = b.winsize
      /\ ~(distance > b.winsize) => count = distance
  OBVIOUS
<1> HIDE DEF count
<1>7. p \in BaType
  BY <1>1, <1>5, PassSlotsType
<1>8. /\ p.winsize = b.winsize /\ p.gap_to = b.gap_to
      /\ p.head = Slot(b, count)
  BY <1>1, <1>5, PassSlotsFields
<1>9. CountOK(p) /\ (TimerOK(b) => TimerOK(p))
  BY <1>1, <1>5, PassSlotsCount, PassSlotsTimer
<1>10. Passed(p, b, count)
  BY <1>8 DEF Passed
<1> HIDE DEF p
<1>11. /\ w \in BaType /\ w.buf = p.buf /\ w.head = p.head
       /\ w.winsize = p.winsize /\ w.winstart = ssn
       /\ w.gapwait = p.gapwait /\ w.gap_to = p.gap_to
  BY <1>7 DEF BaType
<1> HIDE DEF w
<1>12. /\ e \in BaType /\ e.buf = p.buf /\ e.head = p.head
       /\ e.winsize = b.winsize /\ e.winstart = ssn
       /\ e.gapwait = p.gapwait /\ e.gap_to = p.gap_to
       /\ e.winend = WinEnd(e)
  BY <1>8, <1>11, SetWinEndType, SetWinEndFields
<1> HIDE DEF e
<1>13. Passed(e, b, count)
  BY <1>10, <1>12 DEF Passed
<1>14. CountOK(e) /\ (TimerOK(b) => TimerOK(e))
  BY <1>9, <1>12 DEF CountOK, Occupied, TimerOK
<1>15. ASSUME NEW i \in Index, ~Empty(e, i)
       PROVE  /\ ~(distance > b.winsize)
              /\ i < e.winsize
              /\ Sn(e.buf[Slot(e, i)]) = (e.winstart + i) % SeqMod
  <2>1. count + i < MaxWinSz /\ ~Empty(b, count + i)
    BY <1>1, <1>5, <1>13, <1>15, PassedEmpty
  <2>2. count + i \in Index /\ count \in Nat /\ i \in Nat
    BY <1>5, <2>1, Sizes DEF Index
  <2>3. /\ count + i < b.winsize
        /\ Sn(b.buf[Slot(b, count + i)]) = (b.winstart + (count + i)) % SeqMod
    BY <1>1, <2>1, <2>2 DEF WindowOK
  <2>4. e.buf[Slot(e, i)] = b.buf[Slot(b, count + i)]
    BY <1>1, <1>5, <1>13, <2>1, PassedSlot
  <2>5. ~(distance > b.winsize) /\ i < e.winsize
    BY <1>2, <1>6, <1>12, <2>2, <2>3
  <2>6. (((b.winstart + count) % SeqMod) + i) % SeqMod
          = (b.winstart + (count + i)) % SeqMod
    <3>1. i \in 0 .. MaxWinSz /\ count + i <= MaxWinSz
      BY <1>5, <2>1, Sizes DEF Index
    <3> QED BY <1>2, <1>5, <3>1, SeqShift
  <2> QED BY <1>3, <1>6, <1>12, <2>3, <2>4, <2>5, <2>6
<1>16. WindowOK(e)
  BY <1>1, <1>12, <1>15 DEF WindowOK
<1>17. Ordered(e)
  BY <1>12, <1>14, <1>16 DEF Ordered
<1>18. distance > b.winsize => \A i \in Index : Empty(e, i)
  BY <1>15
<1> QED BY <1>4, <1>12, <1>14, <1>17, <1>18 DEF distance

LEMMA MoveWindowFacts ==
  ASSUME NEW b, Ordered(b), NEW ssn \in SeqNo
  PROVE  LET c == ba_move_window(b, ssn) IN
         /\ Settled(c) /\ c.winsize = b.winsize
         /\ TimerOK(b) => TimerOK(c)
         /\ (ssn - b.winstart) % SeqMod > b.winsize => c.winstart = ssn
<1> DEFINE e == Moved(b, ssn)
<1>1. ba_move_window(b, ssn) = input_ba_flush(e)
  BY DEF ba_move_window, Moved
<1> HIDE DEF e
<1>2. /\ Ordered(e) /\ e.winsize = b.winsize /\ e.winstart = ssn
      /\ TimerOK(b) => TimerOK(e)
      /\ (ssn - b.winstart) % SeqMod > b.winsize =>
           \A i \in Index : Empty(e, i)
  BY MovedFacts DEF e
<1>3. 0 \in Index
  BY Sizes DEF Index
<1> QED BY <1>1, <1>2, <1>3, FlushFacts

(* input_ba_seq, to a sequence number a places after the head, stops there *)
(* or later, but within the window.                                        *)
LEMMA InputBaSeqFacts ==
  ASSUME NEW b, Settled(b), NEW a \in 1 .. b.winsize
  PROVE  LET c == input_ba_seq(b, (b.winstart + a) % SeqMod) IN
         /\ Ordered(c) /\ c.winsize = b.winsize
         /\ TimerOK(b) => TimerOK(c)
         /\ \E k \in a .. b.winsize :
              /\ c = Advance(b, k) /\ Passed(c, b, k)
              /\ c.winstart = (b.winstart + k) % SeqMod
<1> DEFINE max_seq == (b.winstart + a) % SeqMod
           stop(k) == ~Empty(b, k) /\ ~SeqLt(Sn(b.buf[Slot(b, k)]), max_seq)
           S == {k \in 0 .. b.winsize : k = b.winsize \/ stop(k)}
<1>1. b \in BaType /\ WindowOK(b) /\ Ordered(b) /\ Empty(b, 0)
  BY DEF Settled, Ordered
<1>2. /\ b.winsize \in 1 .. MaxWinSz /\ b.winstart \in SeqNo
      /\ a \in 1 .. MaxWinSz /\ a \in 0 .. SeqMod - 1
  BY <1>1, Sizes DEF WindowOK, BaType
<1>3. ASSUME NEW k \in 0 .. a - 1, k < b.winsize PROVE ~stop(k)
  <2>1. k \in Index /\ k \in 0 .. SeqMod - 1 /\ SeqMod \in Nat
    BY <1>2, <1>3, Sizes DEF Index
  <2>2. SUFFICES ASSUME ~Empty(b, k), k # 0
                 PROVE  SeqLt(Sn(b.buf[Slot(b, k)]), max_seq)
    BY <1>1
  <2>3. Sn(b.buf[Slot(b, k)]) = (b.winstart + k) % SeqMod
    BY <1>1, <2>1, <2>2 DEF WindowOK
  <2>4. (((b.winstart + k) % SeqMod) - ((b.winstart + a) % SeqMod)) % SeqMod
          = k - a + SeqMod
    BY <1>2, <2>1, SeqDiff
  <2>5. k - a + SeqMod > SeqMod \div 2
    BY <1>2, <2>1, <2>2, Sizes
  <2> QED BY <2>3, <2>4, <2>5 DEF SeqLt
<1>4. S \in SUBSET (0 .. b.winsize) /\ b.winsize \in S /\ b.winsize \in Nat
  BY <1>2, Sizes
<1>5. \A k \in S : k >= a
  BY <1>2, <1>3
<1>6. input_ba_seq(b, max_seq) = Advance(b, Min(S))
  BY DEF input_ba_seq
<1> HIDE DEF S
<1>7. Min(S) \in S /\ Min(S) \in 0 .. b.winsize
  BY <1>4, LoopEnd
<1>8. Min(S) \in a .. b.winsize /\ Min(S) \in 0 .. MaxWinSz
  BY <1>2, <1>5, <1>7, Sizes
<1> HIDE DEF max_seq
<1> QED BY <1>1, <1>6, <1>8, AdvanceOrdered, AdvanceTimer, AdvanceFields
        DEF max_seq

(* The place of an MPDU in the window.                                     *)
Place(b, m) == (Sn(m) - b.winstart) % SeqMod

(* It is in the window or, with a window of one, half the sequence space   *)
(* away: then it shares the slot of the head.                              *)
Fits(b, m) ==
  \/ Place(b, m) < b.winsize
  \/ b.winsize = 1 /\ Place(b, m) = SeqMod \div 2

LEMMA PlaceFacts ==
  ASSUME NEW b \in BaType, NEW m \in Mpdu
  PROVE  /\ Place(b, m) \in 0 .. SeqMod - 1
         /\ (b.winstart + Place(b, m)) % SeqMod = Sn(m)
<1>1. b.winstart \in SeqNo /\ Sn(m) \in SeqNo
  BY SnType DEF BaType
<1> QED BY <1>1, DistanceBack DEF Place

(* Where an MPDU that is not before the window is: in it, or beyond it by  *)
(* more than a window, or beyond it by less.                               *)
LEMMA RoomCases ==
  ASSUME NEW b, Ordered(b), NEW m \in Mpdu, ~BelowWindow(b, m)
  PROVE  LET w == b.winsize
             d == Place(b, m)
         IN /\ d \in 0 .. SeqMod - 1 /\ d <= SeqMod \div 2
            /\ ~SeqLt(b.winend, Sn(m)) =>
                 d < w \/ (w = 1 /\ d = SeqMod \div 2)
            /\ SeqLt(b.winend, Sn(m)) /\ AheadBy(b, m) > w => d > w
            /\ SeqLt(b.winend, Sn(m)) /\ ~(AheadBy(b, m) > w) =>
                 AheadBy(b, m) \in 1 .. w /\ d = AheadBy(b, m) + w - 1
<1> DEFINE n == b.winstart
           w == b.winsize
           d == Place(b, m)
<1>1. b \in BaType /\ WindowOK(b) 
  BY DEF Ordered
<1>2. n \in SeqNo /\ w \in 1 .. MaxWinSz /\ b.winend = (n + (w - 1)) % SeqMod
  <2>1. b.winsize \in 1 .. MaxWinSz /\ b.winstart \in SeqNo
    BY <1>1 DEF WindowOK, BaType
  <2>2. b.winstart + b.winsize - 1 = b.winstart + (b.winsize - 1)
    BY <2>1, Sizes DEF SeqNo
  <2> QED BY <1>1, <2>1, <2>2 DEF WindowOK, WinEnd
<1>3. d \in 0 .. SeqMod - 1 /\ Sn(m) = (n + d) % SeqMod
  BY <1>1, PlaceFacts
<1>4. d <= SeqMod \div 2
  BY <1>3, Sizes DEF BelowWindow, SeqLt, Place
<1>5. w - 1 \in 0 .. SeqMod - 1 /\ SeqMod \in Nat /\ 2 * w <= SeqMod
  BY <1>2, Sizes
<1>6. (b.winend - Sn(m)) % SeqMod
        = IF w - 1 >= d THEN w - 1 - d ELSE w - 1 - d + SeqMod
  BY <1>2, <1>3, <1>5, SeqDiff
<1>7. AheadBy(b, m) = IF d >= w - 1 THEN d - (w - 1) ELSE d - (w - 1) + SeqMod
  BY <1>2, <1>3, <1>5, SeqDiff DEF AheadBy
<1> HIDE DEF n, w, d
<1>8. ASSUME ~SeqLt(b.winend, Sn(m)) PROVE d < w \/ (w = 1 /\ d = SeqMod \div 2)
  BY <1>2, <1>3, <1>4, <1>5, <1>6, <1>8 DEF SeqLt
<1>9. ASSUME SeqLt(b.winend, Sn(m)), AheadBy(b, m) > b.winsize PROVE d > w
  <2>1. d > w - 1
    BY <1>2, <1>3, <1>5, <1>6, <1>9 DEF SeqLt
  <2> QED BY <1>2, <1>3, <1>5, <1>7, <1>9, <2>1 DEF w
<1>10. ASSUME SeqLt(b.winend, Sn(m)), ~(AheadBy(b, m) > b.winsize)
       PROVE  AheadBy(b, m) \in 1 .. w /\ d = AheadBy(b, m) + w - 1
  <2>1. d > w - 1
    BY <1>2, <1>3, <1>5, <1>6, <1>10 DEF SeqLt
  <2> QED BY <1>2, <1>3, <1>5, <1>7, <1>10, <2>1 DEF w
<1> QED BY <1>3, <1>4, <1>8, <1>9, <1>10 DEF w, d

(* Once the window has made room for an MPDU that is not before it, the    *)
(* MPDU is in it.                                                          *)
LEMMA MakeRoomFacts ==
  ASSUME NEW b, Settled(b), NEW m \in Mpdu, ~BelowWindow(b, m)
  PROVE  LET r == MakeRoom(b, m) IN
         /\ Settled(r) /\ Fits(r, m)
         /\ TimerOK(b) => TimerOK(r)
<1> DEFINE n == b.winstart
           w == b.winsize
           d == Place(b, m)
<1>1. b \in BaType /\ WindowOK(b) /\ Ordered(b) /\ Empty(b, 0)
  BY DEF Settled, Ordered
<1>2. n \in SeqNo /\ w \in 1 .. MaxWinSz
  BY <1>1 DEF WindowOK, BaType
<1>3. d \in 0 .. SeqMod - 1 /\ Sn(m) = (n + d) % SeqMod
  BY <1>1, PlaceFacts
<1>5. SeqMod \in Nat /\ 2 * w <= SeqMod
  BY <1>2, Sizes
<1>6. /\ ~SeqLt(b.winend, Sn(m)) => d < w \/ (w = 1 /\ d = SeqMod \div 2)
      /\ SeqLt(b.winend, Sn(m)) /\ AheadBy(b, m) > w => d > w
      /\ SeqLt(b.winend, Sn(m)) /\ ~(AheadBy(b, m) > w) =>
           AheadBy(b, m) \in 1 .. w /\ d = AheadBy(b, m) + w - 1
  BY <1>1, RoomCases
<1> HIDE DEF n, w, d
<1>8. CASE ~SeqLt(b.winend, Sn(m))
  <2>1. d < w \/ (w = 1 /\ d = SeqMod \div 2)
    BY <1>6, <1>8
  <2> QED BY <1>8, <2>1 DEF MakeRoom, Fits, w, d
<1>9. CASE SeqLt(b.winend, Sn(m)) /\ AheadBy(b, m) > b.winsize
  <2>2. d > w
    BY <1>6, <1>9 DEF w
  <2> DEFINE f == ForgetMisses(b)
             r == ba_move_window(f, Sn(m))
  <2>3. /\ f \in BaType /\ Ordered(f) /\ f.winsize = w /\ f.winstart = n
        /\ TimerOK(b) => TimerOK(f)
    BY <1>1, ForgetMissesType, ForgetMissesSame, SameWindowOrdered
       DEF SameWindow, TimerOK, w, n
  <2>4. (Sn(m) - f.winstart) % SeqMod > f.winsize
    BY <2>2, <2>3 DEF d, Place, n
  <2>5. Sn(m) \in SeqNo
    BY SnType
  <2> HIDE DEF f
  <2>6. /\ Settled(r) /\ r.winsize = w /\ r.winstart = Sn(m)
        /\ TimerOK(b) => TimerOK(r)
    BY <2>3, <2>4, <2>5, MoveWindowFacts
  <2>7. r = MakeRoom(b, m)
    BY <1>9 DEF MakeRoom, f
  <2> HIDE DEF r
  <2>8. Place(r, m) = 0
    <3>1. Sn(m) - Sn(m) = 0 /\ 0 % SeqMod = 0
      BY <2>5, Sizes DEF SeqNo
    <3> QED BY <2>6, <3>1 DEF Place
  <2> QED BY <1>2, <2>6, <2>7, <2>8 DEF Fits
<1>10. CASE SeqLt(b.winend, Sn(m)) /\ ~(AheadBy(b, m) > b.winsize)
  <2> DEFINE a == AheadBy(b, m)
             c == input_ba_seq(b, (b.winstart + a) % SeqMod)
             r == input_ba_flush(c)
  <2>2. a \in 1 .. w /\ d = a + w - 1
    BY <1>6, <1>10 DEF w
  <2>3. r = MakeRoom(b, m)
    BY <1>10 DEF MakeRoom
  <2> HIDE DEF a
  <2>4. /\ Ordered(c) /\ c.winsize = w
        /\ TimerOK(b) => TimerOK(c)
        /\ \E k \in a .. w : /\ Passed(c, b, k)
                            /\ c.winstart = (n + k) % SeqMod
    BY <2>2, InputBaSeqFacts DEF w, n
  <2>5. PICK k \in a .. w : Passed(c, b, k) /\ c.winstart = (n + k) % SeqMod
    BY <2>4
  <2> HIDE DEF c
  <2>6. k \in 1 .. MaxWinSz /\ k \in 0 .. MaxWinSz /\ k \in 0 .. SeqMod - 1
    BY <1>2, <1>5, <2>2, Sizes
  <2>7. /\ Settled(r) /\ r.winsize = w
        /\ TimerOK(b) => TimerOK(r)
        /\ \/ r = c
           \/ /\ ~Empty(c, 0) /\ RunLength(c) \in 1 .. w
              /\ r.winstart = (c.winstart + RunLength(c)) % SeqMod
    BY <2>4, FlushFacts
  <2> HIDE DEF r
  <2>8. \E j \in a .. w : r.winstart = (n + j) % SeqMod
    <3>1. CASE r = c
      BY <2>5, <3>1
    <3>2. CASE /\ RunLength(c) \in 1 .. w
               /\ r.winstart = (c.winstart + RunLength(c)) % SeqMod
      <4> DEFINE l == RunLength(c)
                 i == l - 1
      <4>1. l \in 1 .. MaxWinSz /\ i \in 0 .. l - 1 /\ i \in Index
        BY <1>2, <3>2, Sizes DEF Index
      <4>2. ~Empty(c, i)
        BY <4>1, RunLengthRange
      <4> HIDE DEF l
      <4>3. k + i < MaxWinSz /\ ~Empty(b, k + i)
        BY <1>1, <2>5, <2>6, <4>1, <4>2, PassedEmpty
      <4>4. k + i < w
        <5>1. k + i \in Index
          BY <2>6, <4>1, <4>3, Sizes DEF Index
        <5> QED BY <1>1, <4>3, <5>1 DEF WindowOK, w
      <4>5. k + l \in a .. w
        BY <1>2, <2>2, <2>5, <4>1, <4>4
      <4>6. (((n + k) % SeqMod) + l) % SeqMod = (n + (k + l)) % SeqMod
        <5>1. l \in 0 .. MaxWinSz /\ k + l <= MaxWinSz
          BY <1>2, <2>6, <4>1, <4>5, Sizes
        <5> QED BY <1>2, <2>6, <5>1, SeqShift
      <4> QED BY <2>5, <3>2, <4>5, <4>6 DEF l
    <3> QED BY <2>7, <3>1, <3>2
  <2>9. PICK j \in a .. w : r.winstart = (n + j) % SeqMod
    BY <2>8
  <2>10. j \in 0 .. SeqMod - 1 /\ d - j < w /\ d >= j
    BY <1>2, <1>5, <2>2
  <2>11. Place(r, m) = d - j
    BY <1>2, <1>3, <2>9, <2>10, SeqDiff DEF Place
  <2> QED BY <2>3, <2>7, <2>10, <2>11 DEF Fits
<1> QED BY <1>8, <1>9, <1>10

(* The slots are the slots i places after the head, i in Index.            *)
LEMMA NothingLeft ==
  ASSUME NEW b \in BaType, \A i \in Index : Empty(b, i)
  PROVE  Occupied(b) = {} /\ Cardinality(Occupied(b)) = 0
<1>1. ASSUME NEW s \in Index PROVE b.buf[s] = NoMpdu
  <2>1. /\ (s - b.head) % MaxWinSz \in Index
        /\ Slot(b, (s - b.head) % MaxWinSz) = s
    BY SlotPlace
  <2> QED BY <2>1 DEF Empty
<1>2. Occupied(b) = {}
  BY <1>1 DEF Occupied
<1> QED BY <1>2, FS_EmptySet

(* A record in which one more MPDU has been put in an empty slot.          *)
Stored(b, c, m) ==
  /\ c \in BaType
  /\ c.head = b.head /\ c.winstart = b.winstart /\ c.winend = b.winend
  /\ c.winsize = b.winsize /\ c.gap_to = b.gap_to
  /\ c.gapwait = b.gapwait + 1
  /\ c.buf = [b.buf EXCEPT ![Slot(b, Place(b, m))] = m]

LEMMA StoredCount ==
  ASSUME NEW b \in BaType, CountOK(b), NEW m \in Mpdu, NEW c,
         Stored(b, c, m), Empty(b, Place(b, m))
  PROVE  CountOK(c)
<1> DEFINE s == Slot(b, Place(b, m))
<1>1. s \in Index
  <2>1. Place(b, m) \in Int /\ b.head \in Index
    BY PlaceFacts, Sizes DEF BaType
  <2> QED BY <2>1, SlotIndex
<1>2. b.buf[s] = NoMpdu /\ m # NoMpdu
  BY MpduAssumption DEF Empty
<1>3. c.buf = [b.buf EXCEPT ![s] = m] /\ b.buf \in [Index -> Mpdu \cup {NoMpdu}]
  BY DEF Stored, BaType
<1> HIDE DEF s
<1>4. Occupied(c) = Occupied(b) \cup {s} /\ s \notin Occupied(b)
  BY <1>1, <1>2, <1>3 DEF Occupied
<1>5. Cardinality(Occupied(c)) = Cardinality(Occupied(b)) + 1
  BY <1>4, OccupiedFinite, FS_AddElement
<1> QED BY <1>5 DEF CountOK, Stored

(* In the window the MPDU is in the slot of its sequence number.           *)
LEMMA StoredOrdered ==
  ASSUME NEW b, Ordered(b), NEW m \in Mpdu, NEW c, Stored(b, c, m),
         Empty(b, Place(b, m)), Place(b, m) < b.winsize
  PROVE  Ordered(c)
<1> DEFINE i == Place(b, m)
<1>1. b \in BaType /\ WindowOK(b) /\ CountOK(b) /\ c \in BaType
  BY DEF Ordered, Stored
<1>2. i \in Index
  BY <1>1, PlaceFacts, Sizes DEF WindowOK, Index
<1>3. (b.winstart + i) % SeqMod = Sn(m)
  BY <1>1, PlaceFacts
<1> HIDE DEF i
<1>4. \A j : Slot(c, j) = Slot(b, j)
  BY DEF Slot, Stored
<1>5. ASSUME NEW j \in Index, ~Empty(c, j)
      PROVE  /\ j < c.winsize
             /\ Sn(c.buf[Slot(c, j)]) = (c.winstart + j) % SeqMod
  <2>1. c.buf = [b.buf EXCEPT ![Slot(b, i)] = m]
    BY DEF Stored, i
  <2>2. b.buf \in [Index -> Mpdu \cup {NoMpdu}] /\ Slot(b, i) \in Index
    BY <1>1, <1>2, PlaceSlot DEF BaType
  <2>3. CASE j = i
    <3>1. c.buf[Slot(c, j)] = m
      BY <1>4, <2>1, <2>2, <2>3
    <3>2. i < c.winsize /\ c.winstart = b.winstart
      BY DEF Stored, i
    <3> QED BY <1>3, <2>3, <3>1, <3>2
  <2>4. CASE j # i
    <3>1. Slot(b, j) # Slot(b, i)
      BY <1>1, <1>2, <2>4, PlaceSlot
    <3>2. c.buf[Slot(c, j)] = b.buf[Slot(b, j)]
      BY <1>1, <1>4, <2>1, <2>2, <3>1, PlaceSlot
    <3>3. ~Empty(b, j)
      BY <1>5, <3>2 DEF Empty
    <3>4. j < b.winsize /\ Sn(b.buf[Slot(b, j)]) = (b.winstart + j) % SeqMod
      BY <1>1, <3>3 DEF WindowOK
    <3> QED BY <3>2, <3>4 DEF Stored
  <2> QED BY <2>3, <2>4
<1>6. WindowOK(c)
  BY <1>1, <1>5 DEF WindowOK, WinEnd, Stored
<1>7. CountOK(c)
  BY <1>1, StoredCount
<1> QED BY <1>1, <1>6, <1>7 DEF Ordered

(* With a window of one, the MPDU half the sequence space away is put in   *)
(* the slot of the head, and leaves it again at once.                      *)
LEMMA HalfAway ==
  ASSUME NEW b, Settled(b), b.winsize = 1, NEW m \in Mpdu, NEW c,
         Stored(b, c, m), Place(b, m) = SeqMod \div 2, Empty(b, Place(b, m))
  PROVE  ~Empty(c, 0) /\ Settled(input_ba_flush(c)) /\ TimerOK(input_ba_flush(c))
<1>1. b \in BaType /\ WindowOK(b) /\ CountOK(b) /\ c \in BaType
  BY DEF Settled, Ordered, Stored
<1>2. 0 \in Index /\ b.head \in 0 .. MaxWinSz - 1 /\ MaxWinSz \in Nat
  BY <1>1, Sizes DEF BaType, Index
<1>3. Slot(b, Place(b, m)) = Slot(b, 0)
  <2>1. PICK q \in 0 .. SeqMod : SeqMod \div 2 = MaxWinSz * q
    BY <1>1 DEF WindowOK
  <2>2. q \in Int
    BY Sizes
  <2>3. (b.head + MaxWinSz * q) % MaxWinSz = b.head
    BY <1>2, <2>2, WinModMultiple
  <2>4. (b.head + 0) % MaxWinSz = b.head
    BY <1>2, WinModLow
  <2> QED BY <2>1, <2>3, <2>4 DEF Slot
<1>4. \A j : Slot(c, j) = Slot(b, j)
  BY DEF Slot, Stored
<1>5. /\ b.buf \in [Index -> Mpdu \cup {NoMpdu}] /\ Slot(b, 0) \in Index
      /\ c.buf = [b.buf EXCEPT ![Slot(b, 0)] = m]
  BY <1>1, <1>2, <1>3, PlaceSlot DEF BaType, Stored
<1>6. ~Empty(c, 0)
  BY <1>4, <1>5, MpduAssumption DEF Empty
<1>7. ASSUME NEW j \in Index, j # 0 PROVE Empty(c, j)
  <2>1. Slot(b, j) # Slot(b, 0) /\ Slot(b, j) \in Index
    BY <1>1, <1>2, <1>7, PlaceSlot
  <2>2. Empty(b, j)
    BY <1>1, <1>7, Sizes DEF WindowOK, Index
  <2> QED BY <1>4, <1>5, <2>1, <2>2 DEF Empty
<1> DEFINE r == RunLength(c)
           a == Advance(c, r)
           to == IF a.gapwait # 0 THEN TimeoutAdd ELSE TimeoutDelIfPending(a.gap_to)
           f == [a EXCEPT !.gap_to = to]
<1>8. r \in 0 .. MaxWinSz /\ r # 0
  <2>1. /\ r \in 0 .. MaxWinSz /\ (r < MaxWinSz => Empty(c, r))
    BY RunLengthRange
  <2> QED BY <1>6, <2>1, Sizes
<1>9. f = input_ba_flush(c)
  BY <1>6 DEF input_ba_flush
<1>10. /\ a \in BaType /\ Passed(a, c, r)
       /\ a.winsize = b.winsize /\ a.winend = WinEnd(a)
       /\ a.gapwait = PassSlots(c, r).gapwait
  BY <1>1, <1>8, AdvanceFields DEF Stored
<1> HIDE DEF r
<1>11. CountOK(c)
  BY <1>1, StoredCount
<1>12. CountOK(a)
  <2>1. CountOK(PassSlots(c, r))
    BY <1>1, <1>8, <1>11, PassSlotsCount
  <2>2. Occupied(a) = Occupied(PassSlots(c, r))
    BY <1>10 DEF Occupied, Passed
  <2> QED BY <1>10, <2>1, <2>2 DEF CountOK
<1> HIDE DEF a
<1>13. ASSUME NEW j \in Index PROVE Empty(a, j)
  <2>1. Empty(a, j) <=> (r + j < MaxWinSz => Empty(c, r + j))
    BY <1>1, <1>8, <1>10, PassedEmpty
  <2>2. r + j < MaxWinSz => r + j \in Index /\ r + j # 0
    BY <1>8, Sizes DEF Index
  <2> QED BY <1>7, <2>1, <2>2
<1>14. WindowOK(a) /\ Empty(a, 0)
  BY <1>1, <1>2, <1>10, <1>13 DEF WindowOK
<1>15. a.gap_to \in TimeoutType
  BY <1>10 DEF BaType
<1>16. to \in TimeoutType
  BY <1>15, TimeoutTypes
<1>17. a.gapwait > 0 => to.armed
  BY DEF TimeoutAdd
<1> HIDE DEF to
<1>18. f \in BaType /\ SameWindow(a, f) /\ f.gap_to = to
  BY <1>10, <1>16, GapToSame
<1> HIDE DEF f
<1>19. Settled(f)
  BY <1>10, <1>12, <1>14, <1>18, SameWindowOrdered DEF Settled, Ordered
<1>20. TimerOK(f)
  BY <1>17, <1>18 DEF TimerOK, SameWindow
<1> QED BY <1>6, <1>9, <1>19, <1>20

LEMMA StoreFacts ==
  ASSUME NEW b, Settled(b), NEW m \in Mpdu, Fits(b, m)
  PROVE  /\ Settled(Store(b, m))
         /\ TimerOK(b) => TimerOK(Store(b, m))
<1> DEFINE i == Place(b, m)
           stored == [b EXCEPT !.buf[Slot(b, i)] = m, !.gapwait = @ + 1]
           waiting == Empty(stored, 0) /\ stored.gapwait = 1
           timed == [stored EXCEPT !.gap_to = TimeoutAdd]
           u == IF waiting THEN timed ELSE stored
<1>1. b \in BaType /\ CountOK(b) /\ Ordered(b)
  BY DEF Settled, Ordered
<1>2. Store(b, m) = IF ~Empty(b, i) THEN b ELSE input_ba_flush(u)
  BY DEF Store, Place
<1>3. CASE ~Empty(b, i)
  BY <1>2, <1>3
<1>4. CASE Empty(b, i)
  <2>1. Stored(b, stored, m)
    <3>1. i \in Int /\ b.head \in Index
      BY <1>1, PlaceFacts, Sizes DEF BaType
    <3>2. Slot(b, i) \in Index
      BY <3>1, SlotIndex
    <3>3. [b.buf EXCEPT ![Slot(b, i)] = m] \in [Index -> Mpdu \cup {NoMpdu}]
      BY <1>1, <3>2 DEF BaType
    <3>4. b.gapwait + 1 \in Int
      BY <1>1 DEF BaType
    <3> QED BY <1>1, <3>3, <3>4 DEF BaType, Stored
  <2> HIDE DEF stored
  <2>2. stored \in BaType /\ stored.gapwait = b.gapwait + 1 /\ b.gapwait \in Int
    BY <1>1, <2>1 DEF Stored, BaType
  <2>3. timed \in BaType /\ SameWindow(stored, timed) /\ timed.gap_to = TimeoutAdd
    BY <2>2, TimeoutTypes, GapToSame
  <2> HIDE DEF timed
  <2>4. CASE i < b.winsize
    <3>1. Ordered(stored)
      BY <1>1, <1>4, <2>1, <2>4, StoredOrdered
    <3>2. Ordered(u)
      BY <2>3, <3>1, SameWindowOrdered
    <3>3. TimerOK(b) /\ Empty(u, 0) => TimerOK(u)
      <4>1. CASE waiting
        BY <2>3, <4>1 DEF TimerOK, TimeoutAdd
      <4>2. CASE ~waiting
        <5>1. stored.gap_to = b.gap_to
          BY <2>1 DEF Stored
        <5> QED BY <2>2, <4>2, <5>1 DEF TimerOK
      <4> QED BY <4>1, <4>2
    <3> HIDE DEF u
    <3>4. /\ Settled(input_ba_flush(u))
          /\ TimerOK(b) => TimerOK(input_ba_flush(u))
      BY <3>2, <3>3, FlushFacts
    <3> QED BY <1>2, <1>4, <3>4
  <2>5. CASE b.winsize = 1 /\ i = SeqMod \div 2
    <3>1. /\ ~Empty(stored, 0) /\ Settled(input_ba_flush(stored))
          /\ TimerOK(input_ba_flush(stored))
      BY <1>4, <2>1, <2>5, HalfAway
    <3> QED BY <1>2, <1>4, <3>1
  <2> QED BY <2>4, <2>5 DEF Fits
<1> QED BY <1>3, <1>4

(* input_ba, once it takes the MPDU.                                       *)
LEMMA AcceptFacts ==
  ASSUME NEW b, Settled(b), NEW m \in Mpdu, ~BelowWindow(b, m)
  PROVE  /\ Settled(Accept(b, m))
         /\ TimerOK(b) => TimerOK(Accept(b, m))
<1> DEFINE r == MakeRoom(b, m)
           f == ForgetMisses(r)
<1>1. Settled(r) /\ Fits(r, m) /\ (TimerOK(b) => TimerOK(r))
  BY MakeRoomFacts
<1> HIDE DEF r
<1>2. r \in BaType
  BY <1>1 DEF Settled, Ordered
<1>3. f \in BaType /\ SameWindow(r, f) /\ f.gap_to = r.gap_to
  BY <1>2, ForgetMissesType, ForgetMissesSame
<1> HIDE DEF f
<1>4. Settled(f) /\ Fits(f, m) /\ (TimerOK(b) => TimerOK(f))
  BY <1>1, <1>3, SameWindowOrdered DEF Fits, Place, TimerOK, SameWindow
<1>5. Accept(b, m) = Store(f, m)
  BY DEF Accept, f, r
<1> QED BY <1>4, <1>5, StoreFacts

(* The gap is skipped up to an MPDU, or to the end of an empty window.     *)
LEMMA GapSkipFacts ==
  ASSUME NEW b, Settled(b)
  PROVE  LET c == input_ba_gap_skip(b) IN
         /\ GapLength(b) # 0
         /\ Ordered(c)
         /\ Empty(c, 0) => c.gapwait = 0
<1> DEFINE S == {k \in 0 .. b.winsize : k = b.winsize \/ ~Empty(b, k)}
           k == Min(S)
           c == Advance(b, k)
<1>1. b \in BaType /\ WindowOK(b) /\ Ordered(b) /\ Empty(b, 0)
  BY DEF Settled, Ordered
<1>2. b.winsize \in 1 .. MaxWinSz /\ b.winsize \in Nat
  BY <1>1, Sizes DEF WindowOK
<1>3. S \in SUBSET (0 .. b.winsize) /\ b.winsize \in S /\ 0 \notin S
  BY <1>1, <1>2
<1>4. \A j \in S : j = b.winsize \/ ~Empty(b, j)
  OBVIOUS
<1>5. k = GapLength(b)
  BY DEF GapLength
<1> HIDE DEF S
<1>6. k \in S /\ k \in 0 .. b.winsize
  BY <1>2, <1>3, LoopEnd
<1>7. k \in 1 .. b.winsize /\ k \in 0 .. MaxWinSz
  BY <1>2, <1>3, <1>6, Sizes
<1>8. k = b.winsize \/ ~Empty(b, k)
  BY <1>4, <1>6
<1>9. c = input_ba_gap_skip(b)
  BY <1>5, <1>7 DEF input_ba_gap_skip
<1> HIDE DEF k
<1>10. Ordered(c) /\ c \in BaType /\ Passed(c, b, k)
  BY <1>1, <1>7, AdvanceOrdered, AdvanceFields
<1> HIDE DEF c
<1>11. Empty(c, 0) => c.gapwait = 0
  <2>1. SUFFICES ASSUME Empty(c, 0) PROVE c.gapwait = 0
    OBVIOUS
  <2>2. k = b.winsize
    <3>1. 0 \in Index /\ k + 0 = k
      BY <1>7, Sizes DEF Index
    <3>2. k < MaxWinSz => Empty(b, k)
      BY <1>1, <1>7, <1>10, <2>1, <3>1, PassedEmpty
    <3>3. k = MaxWinSz => k = b.winsize
      BY <1>2, <1>7, Sizes
    <3> QED BY <1>7, <1>8, <3>2, <3>3, Sizes
  <2>3. ASSUME NEW j \in Index PROVE Empty(c, j)
    <3>1. Empty(c, j) <=> (k + j < MaxWinSz => Empty(b, k + j))
      BY <1>1, <1>7, <1>10, PassedEmpty
    <3>2. k + j < MaxWinSz => k + j \in Index /\ ~(k + j < b.winsize)
      BY <1>2, <1>7, <2>2, Sizes DEF Index
    <3> QED BY <1>1, <3>1, <3>2 DEF WindowOK
  <2>4. Cardinality(Occupied(c)) = 0
    BY <1>10, <2>3, NothingLeft
  <2> QED BY <1>10, <2>4 DEF Ordered, CountOK
<1> QED BY <1>5, <1>7, <1>9, <1>10, <1>11

-----------------------------------------------------------------------------
(* The handlers keep the invariant.                                        *)

LEMMA FreshFacts ==
  ASSUME NEW b \in BaType
  PROVE  /\ Fresh(b) \in BaType
         /\ Settled(b) => Settled(Fresh(b))
         /\ TimerOK(b) => TimerOK(Fresh(b))
         /\ \A m : BelowWindow(Fresh(b), m) = BelowWindow(b, m)
<1>1. /\ Fresh(b) \in BaType /\ SameWindow(b, Fresh(b))
      /\ Fresh(b).gap_to = b.gap_to
  BY FreshType, FreshSame
<1> QED BY <1>1, SameWindowOrdered DEF TimerOK, SameWindow, BelowWindow

(* What IInv adds to TypeOK, for the state after a step.                   *)
Kept ==
  /\ ba_buf => Settled(ba)
  /\ ba_buf /\ ba_state # "INIT" /\ ~driver.late => TimerOK(ba)

LEMMA MoveWindowToKept ==
  ASSUME IInv, NEW ssn \in SeqNo, MoveWindowTo(ssn), ba_buf
  PROVE  Settled(ba') /\ (TimerOK(ba) => TimerOK(ba'))
<1> DEFINE b == Fresh(ba)
<1>1. Settled(b) /\ Ordered(b) /\ (TimerOK(ba) => TimerOK(b))
  BY FreshFacts DEF IInv, TypeOK, Settled
<1>2. ba' = b \/ ba' = ba_move_window(b, ssn)
  BY DEF MoveWindowTo, UseBuffer, LeaveBuffer
<1> HIDE DEF b
<1> QED BY <1>1, <1>2, MoveWindowFacts

LEMMA SetupKept ==
  ASSUME IInv, NEW ssn \in SeqNo, NEW bufsz \in BufSizes,
         NEW inactivity \in BOOLEAN,
         SetupAgreement(ssn, bufsz, inactivity, 0)
  PROVE  Settled(ba') /\ TimerOK(ba')
<1> DEFINE size == WindowSize(bufsz)
           b == [Fresh(ba) EXCEPT
                   !.buf = EmptyBuf, !.head = 0, !.winstart = ssn,
                   !.winsize = size, !.gapwait = 0, !.gap_to = TimeoutSet]
           c == SetWinEnd(b)
<1>1. size \in 1 .. MaxWinSz /\ size \in 0 .. MaxWinSz
  BY Sizes, BufSizesAssumption DEF WindowSize
<1>2. size = 1 => \E q \in 0 .. SeqMod : SeqMod \div 2 = MaxWinSz * q
  <2>1. CASE MaxWinSz = 1
    <3>1. SeqMod \div 2 \in 0 .. SeqMod /\ SeqMod \div 2 = 1 * (SeqMod \div 2)
      BY Sizes
    <3> QED BY <2>1, <3>1
  <2>2. CASE MaxWinSz # 1
    BY <2>2, WrapAssumption DEF WindowSize
  <2> QED BY <2>1, <2>2
<1>3. ba' = c
  BY DEF SetupAgreement
<1>4. Fresh(ba) \in BaType
  BY FreshFacts DEF IInv, TypeOK
<1> HIDE DEF size
<1>5. 0 \in Index /\ 0 \in Int /\ TimeoutSet \in TimeoutType
  BY Sizes, TimeoutTypes DEF Index
<1>6. /\ b \in BaType /\ b.buf = EmptyBuf /\ b.winsize = size
      /\ b.gapwait = 0
  BY <1>1, <1>4, <1>5, EmptyBufType DEF BaType
<1> HIDE DEF b
<1>7. /\ c \in BaType /\ c.buf = EmptyBuf /\ c.winsize = size
      /\ c.gapwait = 0 /\ c.winend = WinEnd(c)
  BY <1>6, SetWinEndType, SetWinEndFields
<1> HIDE DEF c
<1>8. ASSUME NEW i \in Index PROVE Empty(c, i)
  <2>1. Slot(c, i) \in Index
    BY <1>7, PlaceSlot
  <2> QED BY <1>7, <2>1 DEF Empty, EmptyBuf
<1>9. CountOK(c)
  BY <1>7, <1>8, NothingLeft DEF CountOK
<1>10. WindowOK(c) /\ Empty(c, 0)
  BY <1>1, <1>2, <1>5, <1>7, <1>8 DEF WindowOK
<1>11. TimerOK(c)
  BY <1>7 DEF TimerOK
<1> QED BY <1>3, <1>7, <1>9, <1>10, <1>11 DEF Settled, Ordered

LEMMA GapTimeoutKept ==
  ASSUME IInv, NEW to \in TimeoutType, GapTimeoutRuns(to), ba_buf
  PROVE  /\ Settled(ba')
         /\ TimerOK(ba) => TimerOK(ba')
<1> DEFINE f == Fresh(ba)
           timed == [f EXCEPT !.gap_to = to]
           skipped == input_ba_gap_skip(timed)
           flushed == input_ba_flush(skipped)
           ran == [flushed EXCEPT !.gap_to = TimeoutRan(@)]
<1>1. f \in BaType /\ Settled(f) /\ (TimerOK(ba) => TimerOK(f))
  BY FreshFacts DEF IInv, TypeOK
<1>2. timed \in BaType /\ SameWindow(f, timed)
  BY <1>1, GapToSame
<1>3. Settled(timed)
  BY <1>1, <1>2, SameWindowOrdered
<1>4. GapLength(timed) = GapLength(ba)
  <2>1. SameWindow(ba, f)
    BY FreshSame DEF IInv, TypeOK
  <2>2. \A i : Empty(timed, i) = Empty(f, i) /\ Empty(f, i) = Empty(ba, i)
    BY <1>1, <1>2, <2>1, SameWindowOrdered
  <2>3. timed.winsize = ba.winsize
    BY <1>2, <2>1 DEF SameWindow
  <2> QED BY <2>2, <2>3 DEF GapLength
<1>5. /\ GapLength(timed) # 0
      /\ Ordered(skipped)
      /\ Empty(skipped, 0) => skipped.gapwait = 0
  BY <1>3, GapSkipFacts
<1>6. ba' = f \/ ba' = ran
  BY <1>4, <1>5 DEF GapTimeoutRuns, UseBuffer
<1> HIDE DEF f, timed, skipped
<1>7. /\ Settled(flushed) /\ TimerOK(flushed)
  BY <1>5, FlushFacts DEF TimerOK
<1>8. flushed \in BaType
  BY <1>7 DEF Settled, Ordered
<1> HIDE DEF flushed
<1>9. flushed.gap_to \in TimeoutType
  BY <1>8 DEF BaType
<1>10. /\ TimeoutRan(flushed.gap_to) \in TimeoutType
       /\ TimeoutRan(flushed.gap_to).armed = flushed.gap_to.armed
  BY <1>9, TimeoutTypes DEF TimeoutRan, TimeoutType
<1>11. /\ ran \in BaType /\ SameWindow(flushed, ran)
       /\ ran.gap_to = TimeoutRan(flushed.gap_to)
  BY <1>8, <1>10, GapToSame
<1> HIDE DEF ran
<1>12. Settled(ran)
  BY <1>7, <1>11, SameWindowOrdered
<1>13. TimerOK(ran)
  BY <1>7, <1>10, <1>11 DEF TimerOK, SameWindow
<1> QED BY <1>1, <1>6, <1>12, <1>13

(* IInv is inductive: one step per action.                                 *)
LEMMA IInvStep == IInv /\ [Next]_vars => IInv'
<1> SUFFICES ASSUME IInv, [Next]_vars PROVE IInv'
  OBVIOUS
<1>0. TypeOK /\ TypeOK' /\ Kept
  BY TypeOKStep DEF IInv, Kept
<1>f. /\ Fresh(ba) \in BaType
      /\ ba_buf => Settled(Fresh(ba))
      /\ TimerOK(ba) => TimerOK(Fresh(ba))
  BY <1>0, FreshFacts DEF TypeOK, Kept
<1> SUFFICES Kept'
  BY <1>0 DEF IInv, Kept
<1>1. CASE AddbaReqDenied
  BY <1>0, <1>f, <1>1 DEF AddbaReqDenied, Kept
<1>2. ASSUME NEW ssn \in SeqNo, NEW bufsz \in BufSizes,
             NEW inactivity \in BOOLEAN,
             RecvAddbaReq(ssn, bufsz, inactivity)
      PROVE  Kept'
  <2>1. CASE ~ba_buf'
    BY <2>1 DEF Kept
  <2>2. CASE ba_buf'
    <3>1. /\ SetupAgreement(ssn, bufsz, inactivity, 0)
          /\ ba_state' \in {"REQUESTED", "AGREED"}
      BY <1>2, <2>2 DEF RecvAddbaReq, AddbaReqNoMemory, AddbaReqDriverBusy,
                        AddbaReqDriverFails, AddbaReqDriverReady
    <3>2. Settled(ba') /\ TimerOK(ba')
      BY <3>1, SetupKept
    <3> QED BY <3>1, <3>2 DEF Kept
  <2>3. ba_buf' \in BOOLEAN
    BY <1>0 DEF TypeOK
  <2> QED BY <2>1, <2>2, <2>3
<1>3. ASSUME NEW ssn \in SeqNo, RecvAddbaReqAgreed(ssn) PROVE Kept'
  <2>1. ba_buf => Settled(ba') /\ (TimerOK(ba) => TimerOK(ba'))
    BY <1>f, <1>3, MoveWindowToKept DEF RecvAddbaReqAgreed, LeaveBuffer
  <2> QED BY <1>0, <1>3, <2>1 DEF RecvAddbaReqAgreed, Kept
<1>4. ASSUME NEW ssn \in SeqNo, RecvBar(ssn) PROVE Kept'
  <2>1. ba_buf => Settled(ba') /\ (TimerOK(ba) => TimerOK(ba'))
    BY <1>f, <1>4, MoveWindowToKept DEF RecvBar, LeaveBuffer
  <2> QED BY <1>0, <1>4, <2>1 DEF RecvBar, Kept
<1>5. ASSUME NEW m \in Mpdu, InputBa(m) PROVE Kept'
  <2>1. ASSUME ba_buf
        PROVE  Settled(ba') /\ (TimerOK(ba) => TimerOK(ba'))
    <3>1. CASE BelowWindow(ba, m)
      BY <1>f, <1>5, <2>1, <3>1 DEF InputBa, LeaveBuffer
    <3>2. CASE ~BelowWindow(ba, m) /\ MissesWindow(ba, m)
      <4> DEFINE f == Fresh(ba)
                 c == CountMiss(f, m)
      <4>1. ba' = c /\ ba' \in BaType
        BY <1>0, <1>5, <3>2 DEF InputBa, LeaveBuffer, TypeOK
      <4>2. Settled(f) /\ f \in BaType
        BY <1>f, <2>1
      <4> HIDE DEF f
      <4>3. SameWindow(f, c) /\ c.gap_to = f.gap_to
        BY <4>2, CountMissSame
      <4> HIDE DEF c
      <4>4. Settled(c) /\ (TimerOK(f) => TimerOK(c))
        BY <4>1, <4>2, <4>3, SameWindowOrdered DEF TimerOK, SameWindow
      <4> QED BY <1>f, <4>1, <4>4 DEF f
    <3>3. CASE ~BelowWindow(ba, m) /\ ~MissesWindow(ba, m)
      <4>1. ba' = Accept(Fresh(ba), m)
        BY <1>5, <2>1, <3>3 DEF InputBa, UseBuffer
      <4>2. ~BelowWindow(Fresh(ba), m)
        BY <1>0, <3>3, FreshFacts DEF TypeOK
      <4> QED BY <1>f, <2>1, <4>1, <4>2, AcceptFacts
    <3> QED BY <3>1, <3>2, <3>3
  <2> QED BY <1>0, <1>5, <2>1 DEF InputBa, Kept
<1>6. CASE RecvDelba
  BY <1>6 DEF RecvDelba, DropAgreement, Kept
<1>7. CASE AddbaReqAccept
  BY <1>0, <1>f, <1>7 DEF AddbaReqAccept, Kept
<1>8. CASE AddbaReqRefuse
  BY <1>8 DEF AddbaReqRefuse, Kept
<1>10. CASE RxBaTimeout
  <2>1. CASE ba_ni
    BY <1>10, <2>1 DEF RxBaTimeout, DelbaRequest, DropAgreement, Kept
  <2>2. CASE ~ba_ni
    BY <1>0, <1>f, <1>10, <2>2 DEF RxBaTimeout, Kept
  <2> QED BY <2>1, <2>2
<1>11. CASE GapTimeout
  <2>1. TimeoutExpired(ba.gap_to) \in TimeoutType
    BY <1>0, TimeoutTypes DEF TypeOK, BaType
  <2>2. ba_buf => Settled(ba') /\ (TimerOK(ba) => TimerOK(ba'))
    BY <1>11, <2>1, GapTimeoutKept DEF GapTimeout
  <2> QED BY <1>0, <1>11, <2>2 DEF GapTimeout, GapTimeoutRuns, Kept
<1>12. CASE StaleGapTimeout
  <2>1. ba.gap_to \in TimeoutType
    BY <1>0 DEF TypeOK, BaType
  <2>2. ba_buf => Settled(ba') /\ (TimerOK(ba) => TimerOK(ba'))
    BY <1>12, <2>1, GapTimeoutKept DEF StaleGapTimeout
  <2> QED BY <1>0, <1>12, <2>2 DEF StaleGapTimeout, GapTimeoutRuns, Kept
<1>13. CASE EnterRun
  BY <1>0, <1>f, <1>13 DEF EnterRun, Kept
<1>14. CASE JoinBss
  BY <1>14 DEF JoinBss, Kept
<1>15. ASSUME NEW stay \in BOOLEAN, BaDel(stay) PROVE Kept'
  <2>1. ba_state' = "INIT" /\ ba_buf' = ba_buf
    BY <1>15 DEF BaDel
  <2>2. ba_buf => Settled(ba')
    <3> DEFINE f == Fresh(ba)
               to == TimeoutDelIfPending(f.gap_to)
               c == [f EXCEPT !.gap_to = to]
    <3>1. ba' = f \/ ba' = c
      BY <1>15 DEF BaDel
    <3> HIDE DEF f
    <3>2. f \in BaType /\ (ba_buf => Settled(f))
      BY <1>f DEF f
    <3>3. f.gap_to \in TimeoutType
      BY <3>2 DEF BaType
    <3>4. to \in TimeoutType
      BY <3>3, TimeoutTypes
    <3> HIDE DEF to
    <3>5. c \in BaType /\ SameWindow(f, c)
      BY <3>2, <3>4, GapToSame
    <3> QED BY <3>1, <3>2, <3>5, SameWindowOrdered
  <2> QED BY <2>1, <2>2 DEF Kept
<1>16. CASE UNCHANGED vars
  BY <1>0, <1>16 DEF vars, Kept
<1> QED BY <1>1, <1>2, <1>3, <1>4, <1>5, <1>6, <1>7, <1>8, <1>10,
           <1>11, <1>12, <1>13, <1>14, <1>15, <1>16
        DEF Next, Peer, Driver, Timers, Interface

(* The window, the slots, the count and the gap timer always agree.        *)
THEOREM StructureCorrect == Spec => []IInv
<1>1. Init => IInv
  BY TypeOKInit DEF Init, IInv
<1> QED BY <1>1, IInvStep, PTL DEF Spec

(* The end of the window (ba_winend), wherever it is recomputed, follows   *)
(* its start.                                                              *)
THEOREM WinEndCorrect == Spec => []WinEndFollows
<1>1. IInv => WinEndFollows
  BY Sizes DEF IInv, Settled, Ordered, WindowOK, WinEndFollows
<1> QED BY <1>1, StructureCorrect, PTL

(* No handler leaves an MPDU at the head of the buffer (input_ba_flush).   *)
THEOREM HeadCorrect == Spec => []HeadIsGap
<1>1. IInv => HeadIsGap
  BY DEF IInv, Settled, HeadIsGap
<1> QED BY <1>1, StructureCorrect, PTL

(* Head and window start, moved separately, keep every MPDU of the buffer  *)
(* in the slot of its sequence number (the stores and loops of input_ba).  *)
THEOREM SlotsCorrect == Spec => []SlotsMatchWindow
<1>1. IInv => SlotsMatchWindow
  BY DEF IInv, Settled, Ordered, WindowOK, SlotsMatchWindow
<1> QED BY <1>1, StructureCorrect, PTL

(* ba_gapwait is the number of MPDUs in the buffer.                        *)
THEOREM CountCorrect == Spec => []GapwaitCounts
<1>1. IInv => GapwaitCounts
  BY DEF IInv, Settled, Ordered, CountOK, GapwaitCounts
<1> QED BY <1>1, StructureCorrect, PTL

(* MPDUs wait behind a gap only while the gap timer is armed, except where *)
(* addba_req_accept answers a request that a state change had ended.       *)
THEOREM TimerCorrect == Spec => []NoStrandedMpdu
<1>1. IInv => NoStrandedMpdu
  BY DEF IInv, TimerOK, NoStrandedMpdu
<1> QED BY <1>1, StructureCorrect, PTL
=============================================================================

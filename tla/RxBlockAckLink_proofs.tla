---------------------- MODULE RxBlockAckLink_proofs ----------------------
(***************************************************************************)
(* The order in which the recipient hands MPDUs up.  The functions of the  *)
(* reorder buffer are followed with the positions of the MPDUs, whatever   *)
(* they are counted from: from the start of the window before the step,    *)
(* modulo the sequence numbers, for the recipient alone; from the first    *)
(* MPDU of the originator for the recipient on the link.                   *)
(***************************************************************************)
EXTENDS RxBlockAckLink, RxBlockAckInv_proofs

-----------------------------------------------------------------------------
(* Positions.                                                              *)

(* P gives each MPDU its position; position 0 has sequence number n.       *)
Numbers(P, n) ==
  /\ n \in SeqNo /\ P \in [Mpdu -> Nat]
  /\ \A m \in Mpdu : Sn(m) = (n + P[m]) % SeqMod

(* The window starts at position w, the buffer holds MPDUs at and after w, *)
(* each in its slot, and those handed up have positions from low to before *)
(* w, in order; all are before high.                                       *)
InSlots(b, P, w, high) ==
  \A i \in Index : ~Empty(b, i) => P[b.buf[Slot(b, i)]] = w + i /\ w + i < high

UpInOrder(b, P, low, w, high) ==
  \A i \in DOMAIN b.up : b.up[i] # NoMpdu =>
    /\ low <= P[b.up[i]] /\ P[b.up[i]] < w /\ P[b.up[i]] < high
    /\ \A j \in 1 .. i - 1 : b.up[j] # NoMpdu => P[b.up[j]] < P[b.up[i]]

Tracks(b, P, n, low, w, high) ==
  /\ low \in Nat /\ w \in Nat /\ high \in Nat /\ low <= w
  /\ b.winstart = (n + w) % SeqMod
  /\ InSlots(b, P, w, high)
  /\ UpInOrder(b, P, low, w, high)

-----------------------------------------------------------------------------
(* Numbers modulo the sequence space.                                      *)

LEMMA SeqModMultiple ==
  \A x \in 0 .. SeqMod - 1, q \in Int : (x + SeqMod * q) % SeqMod = x
BY Sizes

(* A remainder can be taken early.                                         *)
LEMMA SeqModAdd ==
  ASSUME NEW x \in Int, NEW k \in Int
  PROVE  ((x % SeqMod) + k) % SeqMod = (x + k) % SeqMod
<1> DEFINE q == x \div SeqMod
           r == x % SeqMod
           y == r + k
           p == y \div SeqMod
           s == y % SeqMod
<1>1. SeqMod \in Nat /\ SeqMod > 0 BY Sizes
<1>2. q \in Int /\ r \in 0 .. SeqMod - 1 /\ x = r + SeqMod * q
  BY <1>1
<1>3. y \in Int BY <1>1, <1>2
<1> HIDE DEF q, r, y
<1>4. p \in Int /\ s \in 0 .. SeqMod - 1 /\ y = s + SeqMod * p
  BY <1>1, <1>3
<1> HIDE DEF p, s
<1>5. x + k = y + SeqMod * q BY <1>1, <1>2, <1>3 DEF y
<1>6. y + SeqMod * q = s + SeqMod * (p + q) BY <1>1, <1>2, <1>4
<1>7. (s + SeqMod * (p + q)) % SeqMod = s BY <1>2, <1>4, SeqModMultiple
<1>8. y % SeqMod = s BY DEF s
<1> QED BY <1>5, <1>6, <1>7, <1>8 DEF y, r

(* Positions less than the sequence space apart have the numbers' distance. *)
LEMMA SeqModDiff ==
  ASSUME NEW n \in Nat, NEW w \in Nat, NEW d \in 0 .. SeqMod - 1
  PROVE  /\ (((n + w + d) % SeqMod) - ((n + w) % SeqMod)) % SeqMod = d
         /\ d > 0 => (((n + w) % SeqMod) - ((n + w + d) % SeqMod)) % SeqMod = SeqMod - d
<1>1. SeqMod \in Nat /\ SeqMod > 0 BY Sizes
<1> DEFINE a == (n + w) % SeqMod
<1>2. a \in SeqNo BY SeqNoMod
<1>3. (a + d) % SeqMod = (n + w + d) % SeqMod
  <2>1. n + w \in Int /\ d \in Int BY <1>1
  <2> QED BY <2>1, SeqModAdd
<1> HIDE DEF a
<1>4. a % SeqMod = a /\ (a + 0) % SeqMod = a BY <1>1, <1>2, SeqModLow DEF SeqNo
<1>5. 0 \in 0 .. SeqMod - 1 BY <1>1
<1>6. (((a + d) % SeqMod) - ((a + 0) % SeqMod)) % SeqMod = d
  BY <1>1, <1>2, <1>5, SeqDiff
<1>7. d > 0 => (((a + 0) % SeqMod) - ((a + d) % SeqMod)) % SeqMod = SeqMod - d
  BY <1>1, <1>2, <1>5, SeqDiff
<1> QED BY <1>3, <1>4, <1>6, <1>7 DEF a

-----------------------------------------------------------------------------
(* What the functions of the reorder buffer do to the positions.           *)

(* Two records with the same window, the same buffer and the same list.    *)
SameList(b, c) ==
  c.buf = b.buf /\ c.head = b.head /\ c.winstart = b.winstart /\ c.up = b.up

LEMMA SameListTracks ==
  ASSUME NEW b, NEW c, SameList(b, c),
         NEW P, NEW n, NEW low, NEW w, NEW high, Tracks(b, P, n, low, w, high)
  PROVE  Tracks(c, P, n, low, w, high)
<1>1. \A i : Slot(c, i) = Slot(b, i) /\ Empty(c, i) = Empty(b, i)
  BY DEF Slot, Empty, SameList
<1>2. InSlots(c, P, w, high) BY <1>1 DEF Tracks, InSlots, SameList
<1>3. UpInOrder(c, P, low, w, high) BY DEF Tracks, UpInOrder, SameList
<1> QED BY <1>2, <1>3 DEF Tracks, SameList

(* The list after k slots left the window.                                 *)
LEMMA PassedList ==
  ASSUME NEW b \in BaType, NEW k \in 0 .. MaxWinSz
  PROVE  LET u == PassSlots(b, k).up IN
         /\ Len(b.up) \in Nat /\ DOMAIN b.up = 1 .. Len(b.up)
         /\ DOMAIN u = 1 .. Len(b.up) + k
         /\ \A i \in 1 .. Len(b.up) : u[i] = b.up[i]
         /\ \A i \in 1 .. k : u[Len(b.up) + i] = b.buf[Slot(b, i - 1)]
<1> DEFINE h == [i \in 1 .. k |-> b.buf[Slot(b, i - 1)]]
<1>1. k \in Nat /\ k <= MaxWinSz BY Sizes
<1>2. \A i \in 1 .. k : b.buf[Slot(b, i - 1)] \in Mpdu \cup {NoMpdu}
  <2>1. \A i \in 1 .. k : Slot(b, i - 1) \in Index
    BY <1>1, SlotIndex DEF BaType
  <2> QED BY <2>1 DEF BaType
<1>3. h \in Seq(Mpdu \cup {NoMpdu}) /\ Len(h) = k /\ \A i \in 1 .. k : h[i] = b.buf[Slot(b, i - 1)]
  BY <1>1, <1>2
<1>4. b.up \in Seq(Mpdu \cup {NoMpdu}) BY DEF BaType
<1>5. PassSlots(b, k).up = b.up \o h BY DEF PassSlots, BaType
<1> HIDE DEF h
<1> QED BY <1>1, <1>3, <1>4, <1>5

(* The loops: k slots leave the window.                                    *)
LEMMA PassTracks ==
  ASSUME NEW b \in BaType, NEW k \in 0 .. MaxWinSz, NEW c, Passed(c, b, k),
         c.up = PassSlots(b, k).up,
         NEW P \in [Mpdu -> Nat], NEW n, NEW low, NEW w, NEW high,
         Tracks(b, P, n, low, w, high)
  PROVE  /\ InSlots(c, P, w + k, high)
         /\ UpInOrder(c, P, low, w + k, high)
<1>1. k \in Nat /\ k <= MaxWinSz /\ w \in Nat /\ low \in Nat /\ low <= w /\ high \in Nat
  BY Sizes DEF Tracks
<1>2. InSlots(b, P, w, high) /\ UpInOrder(b, P, low, w, high) BY DEF Tracks
<1>3. InSlots(c, P, w + k, high)
  <2> SUFFICES ASSUME NEW i \in Index, ~Empty(c, i)
               PROVE  P[c.buf[Slot(c, i)]] = w + k + i /\ w + k + i < high
    BY DEF InSlots
  <2>1. k + i < MaxWinSz /\ ~Empty(b, k + i) BY PassedEmpty
  <2>2. c.buf[Slot(c, i)] = b.buf[Slot(b, k + i)] BY <2>1, PassedSlot
  <2>3. k + i \in Index /\ i \in Nat BY <1>1, <2>1, Sizes DEF Index
  <2>4. P[b.buf[Slot(b, k + i)]] = w + (k + i) /\ w + (k + i) < high
    BY <1>2, <2>1, <2>3 DEF InSlots
  <2> QED BY <1>1, <2>2, <2>3, <2>4
<1> DEFINE l == Len(b.up)
<1>4. /\ l \in Nat /\ DOMAIN b.up = 1 .. l /\ DOMAIN c.up = 1 .. l + k
      /\ \A i \in 1 .. l : c.up[i] = b.up[i]
      /\ \A i \in 1 .. k : c.up[l + i] = b.buf[Slot(b, i - 1)]
  BY PassedList
<1> HIDE DEF l
<1>5. \A i \in 1 .. k : c.up[l + i] # NoMpdu =>
        P[c.up[l + i]] = w + i - 1 /\ w + i - 1 < high
  <2> SUFFICES ASSUME NEW i \in 1 .. k, c.up[l + i] # NoMpdu
               PROVE  P[c.up[l + i]] = w + i - 1 /\ w + i - 1 < high
    OBVIOUS
  <2>1. i - 1 \in Index /\ i \in Nat BY <1>1, Sizes DEF Index
  <2>2. ~Empty(b, i - 1) /\ c.up[l + i] = b.buf[Slot(b, i - 1)]
    BY <1>4 DEF Empty
  <2>3. P[b.buf[Slot(b, i - 1)]] = w + (i - 1) /\ w + (i - 1) < high
    BY <1>2, <2>1, <2>2 DEF InSlots
  <2> QED BY <1>1, <2>1, <2>2, <2>3
<1>6. \A i \in 1 .. l : c.up[i] # NoMpdu =>
        /\ low <= P[c.up[i]] /\ P[c.up[i]] < w /\ P[c.up[i]] < high
        /\ P[c.up[i]] \in Int
        /\ \A j \in 1 .. i - 1 : c.up[j] # NoMpdu => P[c.up[j]] < P[c.up[i]]
  <2> SUFFICES ASSUME NEW i \in 1 .. l, c.up[i] # NoMpdu
        PROVE  /\ low <= P[c.up[i]] /\ P[c.up[i]] < w /\ P[c.up[i]] < high
               /\ P[c.up[i]] \in Int
               /\ \A j \in 1 .. i - 1 : c.up[j] # NoMpdu => P[c.up[j]] < P[c.up[i]]
    OBVIOUS
  <2>1. \A j \in 1 .. i - 1 : j \in 1 .. l /\ c.up[j] = b.up[j] BY <1>4
  <2>2. c.up[i] = b.up[i] /\ i \in DOMAIN b.up BY <1>4
  <2>3. b.up[i] \in Mpdu BY <2>2 DEF BaType
  <2>4. /\ low <= P[b.up[i]] /\ P[b.up[i]] < w /\ P[b.up[i]] < high
        /\ \A j \in 1 .. i - 1 : b.up[j] # NoMpdu => P[b.up[j]] < P[b.up[i]]
    BY <1>2, <2>2 DEF UpInOrder
  <2>5. P[b.up[i]] \in Int BY <2>3
  <2> QED BY <2>1, <2>2, <2>4, <2>5
<1>7. UpInOrder(c, P, low, w + k, high)
  <2> SUFFICES ASSUME NEW i \in 1 .. l + k, c.up[i] # NoMpdu
        PROVE  /\ low <= P[c.up[i]] /\ P[c.up[i]] < w + k /\ P[c.up[i]] < high
               /\ \A j \in 1 .. i - 1 : c.up[j] # NoMpdu => P[c.up[j]] < P[c.up[i]]
    BY <1>4 DEF UpInOrder
  <2>1. CASE i <= l
    <3>1. i \in 1 .. l BY <1>1, <1>4, <2>1
    <3> QED BY <1>1, <1>6, <3>1
  <2>2. CASE i > l
    <3> DEFINE e == i - l
    <3>1. e \in 1 .. k /\ i = l + e BY <1>1, <1>4, <2>2
    <3> HIDE DEF e
    <3>2. P[c.up[i]] = w + e - 1 /\ w + e - 1 < high BY <1>5, <3>1
    <3>3. ASSUME NEW j \in 1 .. i - 1, c.up[j] # NoMpdu PROVE P[c.up[j]] < w + e - 1
      <4>1. CASE j <= l
        <5>1. j \in 1 .. l BY <1>4, <3>1, <4>1
        <5>2. P[c.up[j]] < w /\ P[c.up[j]] \in Int BY <1>6, <3>3, <5>1
        <5> QED BY <1>1, <3>1, <5>2
      <4>2. CASE j > l
        <5> DEFINE g == j - l
        <5>1. g \in 1 .. k /\ j = l + g /\ g < e BY <1>1, <1>4, <3>1, <4>2
        <5> HIDE DEF g
        <5>2. P[c.up[j]] = w + g - 1 BY <1>5, <3>3, <5>1
        <5> QED BY <1>1, <3>1, <5>1, <5>2
      <4> QED BY <1>4, <3>1, <4>1, <4>2
    <3> QED BY <1>1, <3>1, <3>2, <3>3
  <2> QED BY <1>4, <2>1, <2>2
<1> QED BY <1>3, <1>7

LEMMA AdvanceTracks ==
  ASSUME NEW b \in BaType, NEW k \in 0 .. MaxWinSz,
         NEW P, NEW n, Numbers(P, n), NEW low, NEW w, NEW high,
         Tracks(b, P, n, low, w, high)
  PROVE  Tracks(Advance(b, k), P, n, low, w + k, high)
<1> DEFINE a == Advance(b, k)
<1>1. a.winstart = (b.winstart + k) % SeqMod /\ Passed(a, b, k) BY AdvanceFields
<1>2. a.up = PassSlots(b, k).up
  <2>1. PassSlots(b, k) \in BaType BY PassSlotsType
  <2> HIDE DEF a
  <2> QED BY <2>1 DEF Advance, SetWinEnd, BaType, a
<1> HIDE DEF a
<1>3. k \in Nat /\ w \in Nat /\ low \in Nat /\ low <= w /\ high \in Nat /\ n \in Nat
  BY Sizes DEF Tracks, Numbers, SeqNo
<1>4. InSlots(a, P, w + k, high) /\ UpInOrder(a, P, low, w + k, high)
  BY <1>1, <1>2, PassTracks DEF Numbers
<1>5. a.winstart = (n + (w + k)) % SeqMod
  <2>1. b.winstart = (n + w) % SeqMod BY DEF Tracks
  <2>2. (((n + w) % SeqMod) + k) % SeqMod = (n + w + k) % SeqMod BY <1>3, SeqModAdd
  <2>3. n + w + k = n + (w + k) BY <1>3
  <2> QED BY <1>1, <2>1, <2>2, <2>3
<1> QED BY <1>3, <1>4, <1>5 DEF Tracks, a

(* How far input_ba_flush moves the window.                                *)
Flushed(b) == IF Empty(b, 0) THEN 0 ELSE RunLength(b)

LEMMA FlushedRange ==
  ASSUME NEW b, Ordered(b), NEW P, NEW w \in Nat, NEW h \in Nat, InSlots(b, P, w, h)
  PROVE  /\ Flushed(b) \in 0 .. b.winsize /\ Flushed(b) \in 0 .. MaxWinSz
         /\ Flushed(b) = 0 \/ w + Flushed(b) <= h
<1>1. b.winsize \in 1 .. MaxWinSz BY DEF Ordered, WindowOK
<1>2. CASE Empty(b, 0) BY <1>1, <1>2, Sizes DEF Flushed
<1>3. CASE ~Empty(b, 0)
  <2> DEFINE r == RunLength(b)
             e == r - 1
  <2>1. r \in 1 .. b.winsize BY <1>3, FlushFacts
  <2>2. r \in 1 .. MaxWinSz /\ e \in 0 .. r - 1 /\ e \in Index
    BY <1>1, <2>1, Sizes DEF Index
  <2>3. ~Empty(b, e) BY <2>2, RunLengthRange
  <2>4. r = Flushed(b) BY <1>3 DEF Flushed
  <2> HIDE DEF r
  <2>5. w + e < h BY <2>2, <2>3 DEF InSlots
  <2> QED BY <1>1, <2>1, <2>2, <2>4, <2>5, Sizes
<1> QED BY <1>2, <1>3

(* input_ba_flush: the run of MPDUs at the head leaves the window.         *)
LEMMA FlushTracks ==
  ASSUME NEW b, Ordered(b), NEW P, NEW n, Numbers(P, n), NEW low, NEW w, NEW high,
         Tracks(b, P, n, low, w, high)
  PROVE  /\ Tracks(input_ba_flush(b), P, n, low, w + Flushed(b), high)
         /\ Flushed(b) \in 0 .. b.winsize
         /\ Flushed(b) = 0 \/ w + Flushed(b) <= high
<1>1. /\ Flushed(b) \in 0 .. b.winsize /\ Flushed(b) \in 0 .. MaxWinSz
      /\ Flushed(b) = 0 \/ w + Flushed(b) <= high
  BY FlushedRange DEF Tracks
<1>2. b \in BaType BY DEF Ordered
<1>3. CASE Empty(b, 0)
  <2>1. input_ba_flush(b) = b /\ Flushed(b) = 0 BY <1>3 DEF input_ba_flush, Flushed
  <2>2. w + 0 = w BY DEF Tracks
  <2> QED BY <1>1, <2>1, <2>2
<1>4. CASE ~Empty(b, 0)
  <2> DEFINE a == Advance(b, RunLength(b))
             to == IF a.gapwait # 0 THEN TimeoutAdd ELSE TimeoutDelIfPending(a.gap_to)
             f == [a EXCEPT !.gap_to = to]
  <2>1. RunLength(b) = Flushed(b) BY <1>4 DEF Flushed
  <2>2. Tracks(a, P, n, low, w + Flushed(b), high) /\ a \in BaType
    BY <1>1, <1>2, <2>1, AdvanceTracks, AdvanceType
  <2>3. f = input_ba_flush(b) BY <1>4 DEF input_ba_flush
  <2> HIDE DEF a, to
  <2>4. SameList(a, f) BY <2>2 DEF SameList, BaType
  <2> QED BY <1>1, <2>2, <2>3, <2>4, SameListTracks
<1> QED BY <1>3, <1>4

(* A window whose slots are all before it ends holds nothing behind it.    *)
LEMMA WindowSlots ==
  ASSUME NEW b, Ordered(b), NEW P, NEW w \in Nat, NEW h, InSlots(b, P, w, h)
  PROVE  InSlots(b, P, w, w + b.winsize)
<1> SUFFICES ASSUME NEW i \in Index, ~Empty(b, i)
             PROVE  P[b.buf[Slot(b, i)]] = w + i /\ w + i < w + b.winsize
  BY DEF InSlots
<1>1. i < b.winsize /\ b.winsize \in 1 .. MaxWinSz BY DEF Ordered, WindowOK
<1>2. P[b.buf[Slot(b, i)]] = w + i BY DEF InSlots
<1> QED BY <1>1, <1>2, Sizes DEF Index

(* ba_move_window: everything before the new start is passed.              *)
LEMMA MoveWindowTracks ==
  ASSUME NEW b, Ordered(b), NEW ssn \in SeqNo, NEW P, NEW n, Numbers(P, n),
         NEW low, NEW w, NEW high, Tracks(b, P, n, low, w, high),
         NEW d \in Nat, d = (ssn - b.winstart) % SeqMod
  PROVE  \E v \in Nat :
           /\ Tracks(ba_move_window(b, ssn), P, n, low, v, high)
           /\ w + d <= v /\ (v = w + d \/ v <= high)
           /\ d > b.winsize => v = w + d
<1> DEFINE k == IF d > b.winsize THEN b.winsize ELSE d
           p == PassSlots(b, k)
           s == [p EXCEPT !.winstart = ssn]
           e == SetWinEnd(s)
<1>1. b \in BaType /\ WindowOK(b) /\ b.winsize \in 1 .. MaxWinSz /\ b.winstart \in SeqNo
  BY DEF Ordered, WindowOK, BaType
<1>2. /\ w \in Nat /\ low \in Nat /\ low <= w /\ high \in Nat /\ n \in Nat
      /\ b.winstart = (n + w) % SeqMod
      /\ InSlots(b, P, w, high) /\ P \in [Mpdu -> Nat]
  BY DEF Tracks, Numbers, SeqNo
<1>3. ba_move_window(b, ssn) = input_ba_flush(e) /\ e = Moved(b, ssn)
  BY DEF ba_move_window, Moved
<1>4. k \in 0 .. MaxWinSz /\ k \in Nat /\ k <= d /\ (d > b.winsize => k = b.winsize)
      /\ (~(d > b.winsize) => k = d)
  BY <1>1, Sizes
<1> HIDE DEF k
<1>5. p \in BaType /\ Passed(p, b, k)
  BY <1>1, <1>4, PassSlotsType, PassSlotsFields DEF Passed
<1>6. InSlots(p, P, w + k, high) /\ UpInOrder(p, P, low, w + k, high)
  BY <1>1, <1>2, <1>4, <1>5, PassTracks
<1>7. s \in BaType /\ s.winstart = ssn /\ s.buf = p.buf /\ s.head = p.head /\ s.up = p.up
  BY <1>5 DEF BaType
<1>8. /\ e \in BaType /\ e.winstart = ssn /\ e.buf = p.buf /\ e.head = p.head
      /\ e.up = p.up
  <2> HIDE DEF s
  <2> QED BY <1>7, SetWinEndType, SetWinEndFields DEF SetWinEnd, BaType
<1> HIDE DEF p, e
<1>9. Ordered(e) /\ (d > b.winsize => \A i \in Index : Empty(e, i))
  BY <1>3, MovedFacts
<1>10. \A i : Slot(e, i) = Slot(p, i) /\ Empty(e, i) = Empty(p, i)
  BY <1>8 DEF Slot, Empty
<1>11. InSlots(e, P, w + d, high)
  <2>1. CASE d > b.winsize BY <1>9, <2>1 DEF InSlots
  <2>2. CASE ~(d > b.winsize) BY <1>4, <1>6, <1>8, <1>10, <2>2 DEF InSlots
  <2> QED BY <2>1, <2>2
<1>12. UpInOrder(e, P, low, w + d, high)
  <2> SUFFICES ASSUME NEW i \in DOMAIN e.up, e.up[i] # NoMpdu
        PROVE  /\ low <= P[e.up[i]] /\ P[e.up[i]] < w + d /\ P[e.up[i]] < high
               /\ \A j \in 1 .. i - 1 : e.up[j] # NoMpdu => P[e.up[j]] < P[e.up[i]]
    BY DEF UpInOrder
  <2>1. e.up[i] \in Mpdu BY <1>8 DEF BaType
  <2>2. P[e.up[i]] \in Nat BY <1>2, <2>1
  <2>3. /\ low <= P[e.up[i]] /\ P[e.up[i]] < w + k /\ P[e.up[i]] < high
        /\ \A j \in 1 .. i - 1 : e.up[j] # NoMpdu => P[e.up[j]] < P[e.up[i]]
    BY <1>6, <1>8 DEF UpInOrder
  <2> QED BY <1>2, <1>4, <2>2, <2>3
<1>13. e.winstart = (n + (w + d)) % SeqMod
  <2>1. (b.winstart + d) % SeqMod = ssn BY <1>1, DistanceBack
  <2>2. (((n + w) % SeqMod) + d) % SeqMod = (n + w + d) % SeqMod BY <1>2, SeqModAdd
  <2>3. n + w + d = n + (w + d) BY <1>2
  <2> QED BY <1>2, <1>8, <2>1, <2>2, <2>3
<1>14. Tracks(e, P, n, low, w + d, high) BY <1>2, <1>11, <1>12, <1>13 DEF Tracks
<1> DEFINE v == w + d + Flushed(e)
<1>15. /\ Tracks(input_ba_flush(e), P, n, low, v, high)
       /\ Flushed(e) \in 0 .. e.winsize
       /\ Flushed(e) = 0 \/ v <= high
  BY <1>9, <1>14, FlushTracks
<1>16. Flushed(e) \in Nat
  <2>1. e.winsize \in 0 .. MaxWinSz BY <1>8 DEF BaType
  <2> QED BY <1>15, <2>1, Sizes
<1>17. d > b.winsize => Flushed(e) = 0
  <2>1. 0 \in Index BY Sizes DEF Index
  <2> QED BY <1>9, <2>1 DEF Flushed
<1>18. v \in Nat /\ w + d <= v /\ (v = w + d \/ v <= high) /\ (d > b.winsize => v = w + d)
  BY <1>2, <1>15, <1>16, <1>17
<1> QED BY <1>3, <1>15, <1>18

(* The place of an MPDU in the window is its position, counted from the    *)
(* start of the window.                                                    *)
LEMMA PlaceTracks ==
  ASSUME NEW b, NEW P, NEW n, Numbers(P, n), NEW v \in Nat,
         b.winstart = (n + v) % SeqMod,
         NEW m \in Mpdu, v <= P[m], P[m] - v < SeqMod
  PROVE  Place(b, m) = P[m] - v
<1> DEFINE d == P[m] - v
<1>1. SeqMod \in Nat /\ P[m] \in Nat /\ n \in Nat
  BY Sizes DEF Numbers, SeqNo
<1>2. d \in 0 .. SeqMod - 1 /\ P[m] = v + d BY <1>1
<1> HIDE DEF d
<1>3. Sn(m) = (n + v + d) % SeqMod
  <2>1. n + v + d = n + P[m] BY <1>1, <1>2
  <2> QED BY <2>1 DEF Numbers
<1>4. (((n + v + d) % SeqMod) - ((n + v) % SeqMod)) % SeqMod = d
  BY <1>1, <1>2, SeqModDiff
<1> QED BY <1>3, <1>4 DEF Place, d

(* MakeRoom: nothing at or after the MPDU is passed, and it is inside the  *)
(* window that results.                                                    *)
LEMMA MakeRoomTracks ==
  ASSUME NEW b, Settled(b), NEW m \in Mpdu, ~BelowWindow(b, m),
         ~(b.winsize = 1 /\ Place(b, m) = SeqMod \div 2),
         NEW P, NEW n, Numbers(P, n), NEW low, NEW w, NEW high,
         Tracks(b, P, n, low, w, high), P[m] = w + Place(b, m)
  PROVE  \E v \in Nat :
           /\ Tracks(MakeRoom(b, m), P, n, low, v, high)
           /\ w <= v /\ v <= P[m]
           /\ P[m] - v < MakeRoom(b, m).winsize
<1> DEFINE d == Place(b, m)
           r == MakeRoom(b, m)
           z == b.winsize
<1>1. /\ b \in BaType /\ WindowOK(b) /\ Ordered(b)
      /\ z \in 1 .. MaxWinSz /\ b.winstart \in SeqNo
  BY DEF Settled, Ordered, WindowOK, BaType
<1>2. w \in Nat /\ high \in Nat /\ low \in Nat /\ low <= w /\ P \in [Mpdu -> Nat]
  BY DEF Tracks, Numbers
<1>3. /\ d \in 0 .. SeqMod - 1
      /\ ~SeqLt(b.winend, Sn(m)) => d < z
      /\ SeqLt(b.winend, Sn(m)) /\ AheadBy(b, m) > z => d > z
      /\ SeqLt(b.winend, Sn(m)) /\ ~(AheadBy(b, m) > z) =>
           AheadBy(b, m) \in 1 .. z /\ d = AheadBy(b, m) + z - 1
  BY <1>1, RoomCases
<1>4. z \in Nat /\ z > 0 /\ d \in Nat /\ P[m] = w + d BY <1>1, <1>3, Sizes
<1>5. d = (Sn(m) - b.winstart) % SeqMod BY DEF Place
<1> HIDE DEF d
<1>6. CASE ~SeqLt(b.winend, Sn(m))
  <2>1. r = b BY <1>6 DEF MakeRoom
  <2> QED BY <1>2, <1>3, <1>4, <1>6, <2>1
<1>7. CASE SeqLt(b.winend, Sn(m)) /\ AheadBy(b, m) > z
  <2> DEFINE f == ForgetMisses(b)
  <2>1. f \in BaType /\ Ordered(f) /\ f.winsize = z /\ f.winstart = b.winstart
    BY <1>1, ForgetMissesType, ForgetMissesSame, SameWindowOrdered DEF SameWindow
  <2>2. Tracks(f, P, n, low, w, high)
    <3>1. SameList(b, f) BY <1>1 DEF SameList, ForgetMisses, BaType
    <3> HIDE DEF f
    <3> QED BY <3>1, SameListTracks
  <2>3. r = ba_move_window(f, Sn(m)) BY <1>7 DEF MakeRoom
  <2> HIDE DEF f, r
  <2>4. Sn(m) \in SeqNo BY SnType
  <2>5. d = (Sn(m) - f.winstart) % SeqMod BY <1>5, <2>1
  <2>6. PICK v \in Nat : /\ Tracks(r, P, n, low, v, high)
                         /\ d > f.winsize => v = w + d
    BY <1>4, <2>1, <2>2, <2>3, <2>4, <2>5, MoveWindowTracks
  <2>7. v = P[m] BY <1>3, <1>4, <1>7, <2>1, <2>6
  <2>8. r.winsize = z BY <2>1, <2>3, <2>4, MoveWindowFacts
  <2> QED BY <1>2, <1>4, <2>6, <2>7, <2>8 DEF r
<1>8. CASE SeqLt(b.winend, Sn(m)) /\ ~(AheadBy(b, m) > z)
  <2> DEFINE a == AheadBy(b, m)
             c == input_ba_seq(b, (b.winstart + a) % SeqMod)
  <2>1. a \in 1 .. z /\ d = a + z - 1 BY <1>3, <1>8
  <2>2. r = input_ba_flush(c) BY <1>8 DEF MakeRoom
  <2> HIDE DEF a, r
  <2>3. /\ Ordered(c) /\ c.winsize = z
        /\ \E k \in a .. z : c = Advance(b, k)
    BY <2>1, InputBaSeqFacts
  <2>4. PICK k \in a .. z : c = Advance(b, k) BY <2>3
  <2> HIDE DEF c
  <2>5. k \in 0 .. MaxWinSz /\ k \in Nat /\ a \in Nat /\ a <= k /\ k <= z
    BY <1>1, <1>4, <2>1, Sizes
  <2>6. Tracks(c, P, n, low, w + k, high)
    BY <1>1, <2>4, <2>5, AdvanceTracks
  <2>7. Tracks(b, P, n, low, w, w + z)
    <3>1. InSlots(b, P, w, w + z) BY <1>1, <1>2, WindowSlots DEF Tracks
    <3>2. UpInOrder(b, P, low, w, w + z)
      <4> SUFFICES ASSUME NEW i \in DOMAIN b.up, b.up[i] # NoMpdu
            PROVE  /\ low <= P[b.up[i]] /\ P[b.up[i]] < w /\ P[b.up[i]] < w + z
                   /\ \A j \in 1 .. i - 1 : b.up[j] # NoMpdu => P[b.up[j]] < P[b.up[i]]
        BY DEF UpInOrder
      <4>1. b.up[i] \in Mpdu BY <1>1 DEF BaType
      <4>2. P[b.up[i]] \in Nat BY <1>2, <4>1
      <4>3. /\ low <= P[b.up[i]] /\ P[b.up[i]] < w
            /\ \A j \in 1 .. i - 1 : b.up[j] # NoMpdu => P[b.up[j]] < P[b.up[i]]
        BY DEF Tracks, UpInOrder
      <4> QED BY <1>2, <1>4, <4>2, <4>3
    <3> QED BY <1>2, <1>4, <3>1, <3>2 DEF Tracks
  <2>8. Tracks(c, P, n, low, w + k, w + z)
    BY <1>1, <2>4, <2>5, <2>7, AdvanceTracks
  <2> DEFINE q == Flushed(c)
  <2>9. /\ Tracks(r, P, n, low, w + k + q, high)
        /\ q \in 0 .. z /\ (q = 0 \/ w + k + q <= w + z)
    BY <2>2, <2>3, <2>6, <2>8, FlushTracks
  <2> HIDE DEF q
  <2> DEFINE v == w + k + q
  <2>10. q \in Nat /\ v \in Nat BY <1>2, <1>4, <2>5, <2>9
  <2>11. w <= v /\ v <= w + d /\ w + d - v < z
    BY <1>2, <1>4, <2>1, <2>5, <2>9, <2>10
  <2>12. r.winsize = z BY <2>2, <2>3, FlushFacts
  <2>13. v <= P[m] /\ P[m] - v < r.winsize BY <1>2, <1>4, <2>10, <2>11, <2>12
  <2> HIDE DEF v
  <2>14. Tracks(r, P, n, low, v, high) BY <2>9 DEF v
  <2> QED BY <2>10, <2>11, <2>13, <2>14 DEF r
<1> QED BY <1>6, <1>7, <1>8

(* Store, once the slot is free: the MPDU is put in the buffer, and the    *)
(* buffer is flushed.                                                      *)
LEMMA StoreSplit ==
  ASSUME NEW b \in BaType, NEW m \in Mpdu, Empty(b, Place(b, m))
  PROVE  \E c, u \in BaType :
           /\ Stored(b, c, m) /\ SameWindow(c, u) /\ u.up = b.up
           /\ Store(b, m) = input_ba_flush(u)
<1> DEFINE i == Place(b, m)
           c == [b EXCEPT !.buf[Slot(b, i)] = m, !.gapwait = @ + 1]
           waiting == Empty(c, 0) /\ c.gapwait = 1
           timed == [c EXCEPT !.gap_to = TimeoutAdd]
           u == IF waiting THEN timed ELSE c
<1>1. Store(b, m) = input_ba_flush(u) BY DEF Store, Place
<1>2. Stored(b, c, m) /\ c.up = b.up
  <2>1. i \in Int /\ b.head \in Index BY PlaceFacts, Sizes DEF BaType
  <2>2. Slot(b, i) \in Index BY <2>1, SlotIndex
  <2>3. [b.buf EXCEPT ![Slot(b, i)] = m] \in [Index -> Mpdu \cup {NoMpdu}]
    BY <2>2 DEF BaType
  <2>4. b.gapwait + 1 \in Int BY DEF BaType
  <2> QED BY <2>3, <2>4 DEF BaType, Stored
<1> HIDE DEF c
<1>3. c \in BaType BY <1>2 DEF Stored
<1>4. timed \in BaType /\ SameWindow(c, timed) /\ timed.up = b.up
  <2>1. timed \in BaType /\ SameWindow(c, timed) BY <1>3, TimeoutTypes, GapToSame
  <2>2. timed.up = c.up BY <1>3 DEF BaType
  <2> QED BY <1>2, <2>1, <2>2
<1>5. SameWindow(c, c) BY DEF SameWindow
<1>6. u \in BaType /\ SameWindow(c, u) /\ u.up = b.up BY <1>2, <1>3, <1>4, <1>5
<1> HIDE DEF u
<1> QED BY <1>1, <1>2, <1>3, <1>6

(* Store: the MPDU is in the slot of its position.                         *)
LEMMA StoreTracks ==
  ASSUME NEW b, Settled(b), NEW m \in Mpdu,
         NEW P, NEW n, Numbers(P, n), NEW low, NEW w, NEW high,
         Tracks(b, P, n, low, w, high),
         w <= P[m], P[m] - w < b.winsize, P[m] < high
  PROVE  \E v \in Nat :
           /\ Tracks(Store(b, m), P, n, low, v, high)
           /\ w <= v /\ (v = w \/ v <= high)
<1>1. b \in BaType /\ WindowOK(b) /\ Ordered(b) /\ b.winsize \in 1 .. MaxWinSz
  BY DEF Settled, Ordered, WindowOK
<1>2. /\ w \in Nat /\ high \in Nat /\ P \in [Mpdu -> Nat] /\ P[m] \in Nat
      /\ b.winstart = (n + w) % SeqMod
      /\ InSlots(b, P, w, high)
  BY DEF Tracks, Numbers
<1> DEFINE i == Place(b, m)
<1>3. i = P[m] - w /\ i < b.winsize
  BY <1>1, <1>2, PlaceTracks, Sizes
<1>4. i \in Index /\ P[m] = w + i /\ w + i < high
  BY <1>1, <1>2, <1>3, Sizes DEF Index
<1>5. CASE ~Empty(b, i)
  BY <1>2, <1>5 DEF Store, Place
<1>6. CASE Empty(b, i)
  <2>1. PICK c \in BaType, u \in BaType :
          /\ Stored(b, c, m) /\ SameWindow(c, u) /\ u.up = b.up
          /\ Store(b, m) = input_ba_flush(u)
    BY <1>1, <1>6, StoreSplit
  <2>2. Ordered(u) /\ u.winsize = b.winsize
    <3>1. Ordered(c) BY <1>1, <1>3, <1>6, <2>1, StoredOrdered
    <3> QED BY <2>1, <3>1, SameWindowOrdered DEF SameWindow, Stored
  <2>3. /\ u.buf = [b.buf EXCEPT ![Slot(b, i)] = m]
        /\ u.head = b.head /\ u.winstart = b.winstart
    BY <2>1 DEF Stored, SameWindow
  <2>4. \A j : Slot(u, j) = Slot(b, j) BY <2>3 DEF Slot
  <2>5. b.buf \in [Index -> Mpdu \cup {NoMpdu}] BY <1>1 DEF BaType
  <2> HIDE DEF i
  <2>6. InSlots(u, P, w, high)
    <3> SUFFICES ASSUME NEW j \in Index, ~Empty(u, j)
                 PROVE  P[u.buf[Slot(u, j)]] = w + j /\ w + j < high
      BY DEF InSlots
    <3>1. Slot(b, j) \in Index /\ Slot(b, i) \in Index
      BY <1>1, <1>4, PlaceSlot
    <3>2. CASE j = i
      <4>1. u.buf[Slot(u, j)] = m BY <2>3, <2>4, <2>5, <3>1, <3>2
      <4> QED BY <1>4, <3>2, <4>1
    <3>3. CASE j # i
      <4>1. Slot(b, j) # Slot(b, i) BY <1>1, <1>4, <3>3, PlaceSlot
      <4>2. u.buf[Slot(u, j)] = b.buf[Slot(b, j)]
        BY <2>3, <2>4, <2>5, <3>1, <4>1
      <4>3. ~Empty(b, j) BY <4>2 DEF Empty
      <4> QED BY <1>2, <4>2, <4>3 DEF InSlots
    <3> QED BY <3>2, <3>3
  <2>7. Tracks(u, P, n, low, w, high)
    BY <2>1, <2>3, <2>6 DEF Tracks, UpInOrder
  <2> DEFINE q == Flushed(u)
  <2>8. /\ Tracks(input_ba_flush(u), P, n, low, w + q, high)
        /\ q \in 0 .. b.winsize /\ (q = 0 \/ w + q <= high)
    BY <2>2, <2>7, FlushTracks
  <2> HIDE DEF q
  <2> DEFINE v == w + q
  <2>9. v \in Nat /\ w <= v /\ (v = w \/ v <= high)
    BY <1>1, <1>2, <2>8, Sizes
  <2>10. Tracks(input_ba_flush(u), P, n, low, v, high) BY <2>8
  <2> HIDE DEF v
  <2> QED BY <2>1, <2>9, <2>10
<1> QED BY <1>5, <1>6

(* input_ba, once it takes the MPDU.                                       *)
LEMMA AcceptTracks ==
  ASSUME NEW b, Settled(b), NEW m \in Mpdu, ~BelowWindow(b, m),
         ~(b.winsize = 1 /\ Place(b, m) = SeqMod \div 2),
         NEW P, NEW n, Numbers(P, n), NEW low, NEW w, NEW high,
         Tracks(b, P, n, low, w, high), P[m] = w + Place(b, m), P[m] < high
  PROVE  \E v \in Nat :
           /\ Tracks(Accept(b, m), P, n, low, v, high)
           /\ w <= v /\ (v = w \/ v <= high)
<1> DEFINE r == MakeRoom(b, m)
           f == ForgetMisses(r)
<1>1. Settled(r) BY MakeRoomFacts
<1>2. PICK x \in Nat : /\ Tracks(r, P, n, low, x, high)
                       /\ w <= x /\ x <= P[m] /\ P[m] - x < r.winsize
  BY MakeRoomTracks
<1>3. Accept(b, m) = Store(f, m) BY DEF Accept
<1> HIDE DEF r
<1>4. r \in BaType BY <1>1 DEF Settled, Ordered
<1>5. f \in BaType /\ SameWindow(r, f) /\ SameList(r, f)
  BY <1>4, ForgetMissesType, ForgetMissesSame DEF SameList, ForgetMisses, BaType
<1> HIDE DEF f
<1>6. Settled(f) /\ f.winsize = r.winsize
  BY <1>1, <1>5, SameWindowOrdered DEF SameWindow
<1>7. Tracks(f, P, n, low, x, high) BY <1>2, <1>5, SameListTracks
<1>8. PICK v \in Nat : /\ Tracks(Store(f, m), P, n, low, v, high)
                       /\ x <= v /\ (v = x \/ v <= high)
  BY <1>2, <1>6, <1>7, StoreTracks
<1>9. w \in Nat /\ high \in Nat /\ P[m] \in Nat BY DEF Tracks, Numbers
<1>10. w <= v /\ (v = w \/ v <= high) BY <1>2, <1>8, <1>9
<1> QED BY <1>3, <1>8, <1>10

(* The gap timer: the window moves to the first MPDU and past the run that *)
(* starts there, or past its own end if it holds none.                     *)
LEMMA GapTracks ==
  ASSUME NEW b, Settled(b),
         NEW P, NEW n, Numbers(P, n), NEW low, NEW w, NEW high,
         Tracks(b, P, n, low, w, high)
  PROVE  LET s == input_ba_gap_skip(b)
             f == input_ba_flush(s)
         IN \E x, v \in Nat :
              /\ Tracks(s, P, n, low, x, high) /\ Tracks(f, P, n, low, v, high)
              /\ w <= x /\ w <= v /\ x <= w + b.winsize /\ f.winsize = b.winsize
              /\ v <= high \/ (v = w + b.winsize /\ f = s /\ s.gap_to = b.gap_to)
<1> DEFINE S == {k \in 0 .. b.winsize : k = b.winsize \/ ~Empty(b, k)}
           k == Min(S)
           s == Advance(b, k)
           f == input_ba_flush(s)
<1>1. b \in BaType /\ WindowOK(b) /\ Ordered(b) /\ Empty(b, 0)
  BY DEF Settled, Ordered
<1>2. b.winsize \in 1 .. MaxWinSz /\ b.winsize \in Nat
  BY <1>1, Sizes DEF WindowOK
<1>3. /\ S \in SUBSET (0 .. b.winsize) /\ b.winsize \in S
      /\ \A j \in S : j = b.winsize \/ ~Empty(b, j)
  BY <1>2
<1>4. k = GapLength(b) /\ GapLength(b) # 0
  BY GapSkipFacts DEF GapLength
<1> HIDE DEF S
<1>5. k \in S /\ k \in 0 .. b.winsize /\ (k = b.winsize \/ ~Empty(b, k))
  BY <1>2, <1>3, LoopEnd
<1>6. s = input_ba_gap_skip(b) BY <1>4 DEF input_ba_gap_skip
<1> HIDE DEF k
<1>7. k \in 0 .. MaxWinSz /\ k \in Nat /\ k > 0 /\ k <= b.winsize
  BY <1>2, <1>4, <1>5, Sizes
<1>8. w \in Nat /\ high \in Nat BY DEF Tracks
<1>9. /\ Ordered(s) /\ s.gap_to = b.gap_to /\ s.winsize = b.winsize
      /\ Passed(s, b, k) /\ Tracks(s, P, n, low, w + k, high)
  BY <1>1, <1>7, AdvanceOrdered, AdvanceFields, AdvanceTracks
<1> HIDE DEF s
<1> DEFINE q == Flushed(s)
<1>10. /\ Tracks(f, P, n, low, w + k + q, high)
       /\ q \in 0 .. s.winsize /\ (q = 0 \/ w + k + q <= high)
       /\ f.winsize = b.winsize
  BY <1>9, FlushTracks, FlushFacts
<1>11. q \in Nat BY <1>2, <1>9, <1>10, Sizes
<1>12. w + k + q <= high \/ (w + k + q = w + b.winsize /\ f = s)
  <2>1. CASE q # 0 BY <1>10, <2>1
  <2>2. CASE q = 0 /\ k = b.winsize
    <3>1. Empty(s, 0)
      <4>1. 0 \in Index /\ k + 0 = k BY <1>7, Sizes DEF Index
      <4>2. Empty(s, 0) <=> (k < MaxWinSz => Empty(b, k))
        BY <1>1, <1>7, <1>9, <4>1, PassedEmpty
      <4>3. k < MaxWinSz => k \in Index /\ ~(k < b.winsize)
        BY <1>7, <2>2, Sizes DEF Index
      <4> QED BY <1>1, <4>2, <4>3 DEF WindowOK
    <3>2. f = s BY <3>1 DEF input_ba_flush
    <3> QED BY <1>7, <1>8, <2>2, <3>2
  <2>3. CASE q = 0 /\ k # b.winsize
    <3>1. ~Empty(b, k) /\ k < b.winsize BY <1>2, <1>5, <1>7, <2>3
    <3>2. k \in Index BY <1>2, <1>7, <3>1, Sizes DEF Index
    <3>3. w + k < high BY <3>1, <3>2 DEF Tracks, InSlots
    <3> QED BY <1>7, <1>8, <2>3, <3>3
  <2> QED BY <2>1, <2>2, <2>3
<1> HIDE DEF q, f
<1> DEFINE x == w + k
           v == w + k + q
<1>13. /\ x \in Nat /\ v \in Nat /\ w <= x /\ w <= v /\ x <= w + b.winsize
       /\ v <= high \/ (v = w + b.winsize /\ f = s)
  BY <1>2, <1>7, <1>8, <1>11, <1>12
<1>14. Tracks(s, P, n, low, x, high) /\ Tracks(f, P, n, low, v, high)
  BY <1>9, <1>10
<1> HIDE DEF x, v
<1> QED BY <1>6, <1>9, <1>10, <1>13, <1>14 DEF f

-----------------------------------------------------------------------------
(* The handlers, one step of the recipient at a time.                      *)

(* A handler that starts with a buffer in its slots.                       *)
LEMMA FreshTracks ==
  ASSUME IInv, ba_buf,
         NEW P, NEW n, Numbers(P, n), NEW low \in Nat, NEW w \in Nat,
         NEW high \in Nat, low <= w, ba.winstart = (n + w) % SeqMod,
         InSlots(ba, P, w, high)
  PROVE  /\ Settled(Fresh(ba)) /\ Tracks(Fresh(ba), P, n, low, w, high)
         /\ Fresh(ba).winsize = ba.winsize /\ Fresh(ba).winstart = ba.winstart
<1> DEFINE f == Fresh(ba)
<1>1. ba \in BaType /\ f \in BaType /\ Settled(f) BY FreshFacts DEF IInv, TypeOK
<1>2. /\ f.buf = ba.buf /\ f.head = ba.head /\ f.winstart = ba.winstart
      /\ f.winsize = ba.winsize /\ f.up = <<>>
  BY <1>1 DEF Fresh, BaType
<1> HIDE DEF f
<1>3. \A i : Slot(f, i) = Slot(ba, i) /\ Empty(f, i) = Empty(ba, i)
  BY <1>2 DEF Slot, Empty
<1>4. InSlots(f, P, w, high) BY <1>2, <1>3 DEF InSlots
<1>5. UpInOrder(f, P, low, w, high) BY <1>2 DEF UpInOrder
<1> QED BY <1>1, <1>2, <1>4, <1>5 DEF Tracks, f

(* A loop over a buffer that holds nothing hands nothing up.               *)
LEMMA NothingPassed ==
  ASSUME NEW b \in BaType, b.buf = EmptyBuf, b.up = <<>>
  PROVE  LET s == input_ba_gap_skip(b) IN
         s.buf = EmptyBuf /\ \A i \in DOMAIN s.up : s.up[i] = NoMpdu
<1> DEFINE k == GapLength(b)
<1>1. CASE k = 0 BY <1>1 DEF input_ba_gap_skip
<1>2. CASE k # 0
  <2> DEFINE S == {x \in 0 .. b.winsize : x = b.winsize \/ ~Empty(b, x)}
             s == Advance(b, k)
  <2>1. S \in SUBSET (0 .. b.winsize) /\ b.winsize \in S /\ b.winsize \in 0 .. MaxWinSz
    BY Sizes DEF BaType
  <2>2. k = Min(S) BY DEF GapLength
  <2> HIDE DEF S
  <2>3. k \in 0 .. MaxWinSz
    <3>1. b.winsize \in Nat /\ b.winsize <= MaxWinSz BY <2>1, Sizes
    <3>2. k \in 0 .. b.winsize BY <2>1, <2>2, <3>1, LoopEnd
    <3> QED BY <3>1, <3>2, Sizes
  <2>4. s = input_ba_gap_skip(b) BY <1>2 DEF input_ba_gap_skip
  <2> HIDE DEF k
  <2>5. Passed(s, b, k) BY <2>3, AdvanceFields
  <2>6. s.up = PassSlots(b, k).up
    <3>1. PassSlots(b, k) \in BaType BY <2>3, PassSlotsType
    <3> HIDE DEF s
    <3> QED BY <3>1 DEF Advance, SetWinEnd, BaType, s
  <2> HIDE DEF s
  <2>7. s.buf = EmptyBuf
    <3>1. s.buf = PassSlots(b, k).buf BY <2>5 DEF Passed
    <3>2. s.buf = [x \in Index |-> IF (x - b.head) % MaxWinSz < k
                                   THEN NoMpdu ELSE b.buf[x]]
      BY <3>1 DEF PassSlots, BaType
    <3> QED BY <3>2 DEF EmptyBuf
  <2>8. ASSUME NEW i \in DOMAIN s.up PROVE s.up[i] = NoMpdu
    <3>1. /\ DOMAIN s.up = 1 .. Len(b.up) + k
          /\ \A j \in 1 .. k : s.up[Len(b.up) + j] = b.buf[Slot(b, j - 1)]
      BY <2>3, <2>6, PassedList
    <3>2. Len(b.up) = 0 /\ k \in Nat BY <2>3, Sizes
    <3>3. i \in 1 .. k /\ s.up[i] = b.buf[Slot(b, i - 1)]
      BY <3>1, <3>2
    <3>4. i - 1 \in Int /\ b.head \in Index BY <3>2, <3>3 DEF BaType
    <3>5. Slot(b, i - 1) \in Index BY <3>4, SlotIndex
    <3> QED BY <3>3, <3>5 DEF EmptyBuf
  <2> QED BY <2>4, <2>7, <2>8
<1> QED BY <1>1, <1>2

(* Without a buffer none of its slots holds anything.                      *)
BufferCleared == ~ba_buf => ba.buf = EmptyBuf

(* The buffer and the list after a step that is not one of the functions   *)
(* of the reorder buffer on a buffer that is there.                        *)
HandsNothing(b) == \A i \in DOMAIN b.up : b.up[i] = NoMpdu

(* The gap timer, with a buffer and without one.                           *)
LEMMA GapTimeoutSplit ==
  ASSUME IInv, BufferCleared, NEW to \in TimeoutType, GapTimeoutRuns(to)
  PROVE  LET t == [Fresh(ba) EXCEPT !.gap_to = to]
             f == input_ba_flush(input_ba_gap_skip(t))
         IN /\ t \in BaType /\ SameList(Fresh(ba), t) /\ SameWindow(Fresh(ba), t)
            /\ t.gap_to = to
            /\ \/ ba' = Fresh(ba)
               \/ /\ ba_buf /\ Settled(t)
                  /\ ba' = [f EXCEPT !.gap_to = TimeoutRan(@)]
               \/ ~ba_buf /\ ba'.buf = EmptyBuf /\ HandsNothing(ba')
<1> DEFINE b == Fresh(ba)
           t == [b EXCEPT !.gap_to = to]
<1>1. ba \in BaType /\ b \in BaType /\ SameWindow(ba, b) /\ b.up = <<>>
      /\ (ba_buf => Settled(b))
  BY FreshFacts, FreshSame DEF IInv, TypeOK, Fresh, BaType
<1> HIDE DEF b
<1>2. t \in BaType /\ SameWindow(b, t) /\ t.gap_to = to BY <1>1, GapToSame
<1>3. SameList(b, t) /\ t.up = <<>> BY <1>1 DEF SameList, BaType
<1> HIDE DEF t
<1>4. GapLength(t) = GapLength(ba)
  <2>1. \A i : Empty(t, i) = Empty(b, i) /\ Empty(b, i) = Empty(ba, i)
    BY <1>1, <1>2, SameWindowOrdered
  <2>2. t.winsize = ba.winsize BY <1>1, <1>2 DEF SameWindow
  <2> QED BY <2>1, <2>2 DEF GapLength
<1>5. CASE ba_buf
  <2>1. Settled(t) BY <1>1, <1>2, <1>5, SameWindowOrdered
  <2>2. GapLength(ba) # 0 BY <1>4, <2>1, GapSkipFacts
  <2> QED BY <1>2, <1>3, <1>5, <2>1, <2>2 DEF GapTimeoutRuns, UseBuffer, t, b
<1>6. CASE ~ba_buf
  <2>1. t.buf = EmptyBuf
    BY <1>1, <1>2, <1>6 DEF BufferCleared, SameWindow
  <2>2. ba' = b \/ ba' = input_ba_gap_skip(t)
    BY <1>6 DEF GapTimeoutRuns, UseBuffer, t, b
  <2>3. ba' = input_ba_gap_skip(t) => ba'.buf = EmptyBuf /\ HandsNothing(ba')
    BY <1>2, <1>3, <2>1, NothingPassed DEF HandsNothing
  <2> QED BY <1>2, <1>3, <1>6, <2>2, <2>3 DEF t, b
<1> QED BY <1>5, <1>6 DEF b

LEMMA FreshFields ==
  ASSUME TypeOK
  PROVE  /\ Fresh(ba) \in BaType /\ Fresh(ba).buf = ba.buf /\ Fresh(ba).up = <<>>
         /\ Fresh(ba).head = ba.head /\ Fresh(ba).winstart = ba.winstart
         /\ Fresh(ba).winsize = ba.winsize /\ Fresh(ba).gap_to = ba.gap_to
         /\ HandsNothing(Fresh(ba))
BY FreshType DEF TypeOK, Fresh, BaType, HandsNothing

LEMMA EmptiedFields ==
  ASSUME TypeOK, NEW wait, NEW to,
         ba' = [Fresh(ba) EXCEPT !.gap_to = to, !.gapwait = wait, !.buf = EmptyBuf]
  PROVE  ba'.buf = EmptyBuf /\ HandsNothing(ba')
BY FreshFields DEF BaType, HandsNothing

LEMMA SetupFields ==
  ASSUME TypeOK, NEW ssn \in SeqNo, NEW bufsz \in BufSizes,
         NEW inactivity \in BOOLEAN, NEW head,
         SetupAgreement(ssn, bufsz, inactivity, head)
  PROVE  /\ ba'.buf = EmptyBuf /\ ba'.up = <<>> /\ HandsNothing(ba')
         /\ ba'.winstart = ssn /\ ba'.winsize = WindowSize(bufsz)
         /\ ba'.gap_to = TimeoutSet
<1> DEFINE f == Fresh(ba)
<1>1. f \in BaType /\ f.up = <<>> BY FreshFields
<1>2. ba' = SetWinEnd([f EXCEPT
                !.buf = EmptyBuf, !.head = head, !.winstart = ssn,
                !.winsize = WindowSize(bufsz), !.gapwait = 0,
                !.gap_to = TimeoutSet])
  BY DEF SetupAgreement
<1> HIDE DEF f
<1> QED BY <1>1, <1>2 DEF SetWinEnd, BaType, HandsNothing

LEMMA CountMissFields ==
  ASSUME TypeOK, NEW m
  PROVE  LET c == CountMiss(Fresh(ba), m) IN
         /\ c.buf = ba.buf /\ c.head = ba.head /\ c.winstart = ba.winstart
         /\ c.winsize = ba.winsize /\ c.gap_to = ba.gap_to /\ HandsNothing(c)
<1> DEFINE f == Fresh(ba)
<1>1. /\ f \in BaType /\ f.up = <<>> /\ f.buf = ba.buf /\ f.head = ba.head
      /\ f.winstart = ba.winstart /\ f.winsize = ba.winsize /\ f.gap_to = ba.gap_to
  BY FreshFields
<1> HIDE DEF f
<1>2. SameWindow(f, CountMiss(f, m)) /\ CountMiss(f, m).gap_to = f.gap_to
  BY <1>1, CountMissSame
<1>3. CountMiss(f, m).up = f.up BY <1>1 DEF CountMiss, BaType
<1> QED BY <1>1, <1>2, <1>3 DEF SameWindow, HandsNothing, f

(* How many gap timers of this agreement and of earlier ones can expire.   *)
Counted(to) == IF to.armed THEN 1 ELSE 0
GapTimers == Counted(ba.gap_to) + stale_gap

(* What a step does to the buffer.  It stays as it is:                     *)
Stays ==
  /\ HandsNothing(ba')
  /\ ba'.buf = ba.buf /\ ba'.head = ba.head
  /\ ba'.winstart = ba.winstart /\ ba'.winsize = ba.winsize
  /\ ba'.gap_to.armed => ba.gap_to.armed
  /\ ba_buf' = ba_buf /\ stale_gap' <= stale_gap

(* it is freed, or there is none:                                          *)
Drops ==
  /\ HandsNothing(ba')
  /\ ba'.buf = EmptyBuf /\ ~ba_buf'
  /\ ba_state' = "AGREED" /\ ba_state = "AGREED" => ba'.buf = ba.buf
  /\ stale_gap' <= stale_gap \/ stale_gap' <= MaxStale

(* it is allocated:                                                        *)
Starts(ssn, bufsz) ==
  /\ HandsNothing(ba')
  /\ ba'.buf = EmptyBuf /\ ba_buf' /\ ba_state # "AGREED"
  /\ ba'.winstart = ssn /\ ba'.winsize = WindowSize(bufsz)
  /\ ba'.gap_to = TimeoutSet /\ stale_gap' <= MaxStale

(* an MPDU is taken, the window is moved, or a gap timer expires.          *)
Takes(m) ==
  /\ ba_buf /\ ba_buf' /\ ~BelowWindow(ba, m) /\ ba' = Accept(Fresh(ba), m)
  /\ stale_gap' = stale_gap

Moves(ssn) ==
  /\ ba_buf /\ ba_buf' /\ SeqLt(ba.winstart, ssn)
  /\ ba' = ba_move_window(Fresh(ba), ssn)
  /\ stale_gap' = stale_gap

Skips(to) ==
  LET t == [Fresh(ba) EXCEPT !.gap_to = to]
      f == input_ba_flush(input_ba_gap_skip(t))
  IN /\ ba_buf /\ ba_buf' /\ t \in BaType /\ Settled(t)
     /\ SameList(Fresh(ba), t) /\ SameWindow(Fresh(ba), t)
     /\ t.gap_to = to
     /\ ba' = [f EXCEPT !.gap_to = TimeoutRan(@)]
     /\ Counted(to) + stale_gap' + 1 = GapTimers

LEMMA FreshStays ==
  ASSUME TypeOK, ba' = Fresh(ba), ba_buf' = ba_buf, stale_gap' <= stale_gap
  PROVE  Stays
BY FreshFields DEF Stays

LEMMA MoveWindowToSplit ==
  ASSUME TypeOK, NEW ssn \in SeqNo, MoveWindowTo(ssn),
         ba_buf' = ba_buf, stale_gap' = stale_gap
  PROVE  Moves(ssn) \/ Stays
<1>1. CASE ba_buf /\ SeqLt(ba.winstart, ssn)
  BY <1>1 DEF MoveWindowTo, UseBuffer, Moves
<1>2. CASE ~(ba_buf /\ SeqLt(ba.winstart, ssn))
  <2>1. ba' = Fresh(ba) BY <1>2 DEF MoveWindowTo, UseBuffer, LeaveBuffer
  <2>2. stale_gap' <= stale_gap BY DEF TypeOK
  <2> QED BY <2>1, <2>2, FreshStays
<1> QED BY <1>1, <1>2

(* A BlockAckReq, and the ADDBA Request of a protected agreement.          *)
LEMMA MoveSplit ==
  ASSUME TypeOK, NEW ssn \in SeqNo, RecvAddbaReqAgreed(ssn) \/ RecvBar(ssn)
  PROVE  Moves(ssn) \/ Stays
<1>1. ba_buf' = ba_buf /\ stale_gap' = stale_gap /\ stale_gap' <= stale_gap
  BY DEF RecvAddbaReqAgreed, RecvBar, TypeOK
<1>2. MoveWindowTo(ssn) \/ ba' = Fresh(ba)
  BY DEF RecvAddbaReqAgreed, RecvBar, LeaveBuffer
<1> QED BY <1>1, <1>2, MoveWindowToSplit, FreshStays

LEMMA InputSplit ==
  ASSUME TypeOK, NEW m \in Mpdu, InputBa(m)
  PROVE  Takes(m) \/ Stays
<1>1. ba_buf' = ba_buf /\ stale_gap' = stale_gap /\ stale_gap' <= stale_gap
  BY DEF InputBa, TypeOK
<1>2. CASE ba' = Fresh(ba) BY <1>1, <1>2, FreshStays
<1>3. CASE ba' = CountMiss(Fresh(ba), m) BY <1>1, <1>3, CountMissFields DEF Stays
<1>4. CASE ~BelowWindow(ba, m) /\ ba_buf /\ ba' = Accept(Fresh(ba), m)
  BY <1>1, <1>4 DEF Takes
<1> QED BY <1>2, <1>3, <1>4 DEF InputBa, LeaveBuffer, UseBuffer

LEMMA AddbaReqSplit ==
  ASSUME TypeOK, NEW ssn \in SeqNo, NEW bufsz \in BufSizes,
         NEW inactivity \in BOOLEAN, RecvAddbaReq(ssn, bufsz, inactivity)
  PROVE  Starts(ssn, bufsz) \/ Drops
<1>1. /\ ba_state # "AGREED" /\ stale_gap' <= MaxStale
      /\ \E head : SetupAgreement(ssn, bufsz, inactivity, head)
      /\ ba_buf' \in BOOLEAN
  BY DEF RecvAddbaReq, AddbaReqNoMemory, AddbaReqDriverBusy,
         AddbaReqDriverFails, AddbaReqDriverReady, SetupAgreement
<1>2. /\ ba'.buf = EmptyBuf /\ HandsNothing(ba')
      /\ ba'.winstart = ssn /\ ba'.winsize = WindowSize(bufsz)
      /\ ba'.gap_to = TimeoutSet
  BY <1>1, SetupFields
<1> QED BY <1>1, <1>2 DEF Starts, Drops

LEMMA GapTimeoutRunsSplit ==
  ASSUME IInv, BufferCleared, NEW to \in TimeoutType, GapTimeoutRuns(to),
         to = ba.gap_to \/ to = TimeoutExpired(ba.gap_to),
         stale_gap' <= stale_gap, Counted(to) + stale_gap' + 1 = GapTimers
  PROVE  (\E x \in TimeoutType : Skips(x)) \/ Stays \/ Drops
<1>1. TypeOK /\ ba_buf' = ba_buf /\ ba_state' = ba_state
  BY DEF IInv, GapTimeoutRuns
<1> DEFINE t == [Fresh(ba) EXCEPT !.gap_to = to]
           f == input_ba_flush(input_ba_gap_skip(t))
<1>2. /\ t \in BaType /\ SameList(Fresh(ba), t) /\ SameWindow(Fresh(ba), t)
      /\ t.gap_to = to
      /\ \/ ba' = Fresh(ba)
         \/ /\ ba_buf /\ Settled(t)
            /\ ba' = [f EXCEPT !.gap_to = TimeoutRan(@)]
         \/ ~ba_buf /\ ba'.buf = EmptyBuf /\ HandsNothing(ba')
  BY GapTimeoutSplit
<1> HIDE DEF t
<1>3. CASE ba' = Fresh(ba) BY <1>1, <1>3, FreshStays
<1>4. CASE ba_buf /\ Settled(t) /\ ba' = [f EXCEPT !.gap_to = TimeoutRan(@)]
  BY <1>1, <1>2, <1>4 DEF Skips, t
<1>5. CASE ~ba_buf /\ ba'.buf = EmptyBuf /\ HandsNothing(ba')
  BY <1>1, <1>5 DEF Drops, BufferCleared
<1> QED BY <1>2, <1>3, <1>4, <1>5

(* Everything the recipient does without a frame of the originator.        *)
ElsewhereStep ==
  AddbaReqDenied \/ RecvDelba \/ Driver \/ Timers \/ Interface

LEMMA ElsewhereSplit ==
  ASSUME IInv, BufferCleared, ElsewhereStep
  PROVE  (\E to \in TimeoutType : Skips(to)) \/ Stays \/ Drops
<1>0. TypeOK /\ stale_gap \in Nat BY DEF IInv, TypeOK
<1>1. CASE AddbaReqDenied \/ AddbaReqAccept \/ EnterRun
  BY <1>0, <1>1, FreshStays DEF AddbaReqDenied, AddbaReqAccept, EnterRun
<1>2. ASSUME NEW wait, DropAgreement(wait), stale_gap' = stale_gap PROVE Drops
  <2>1. ba'.buf = EmptyBuf /\ HandsNothing(ba')
    BY <1>0, <1>2, EmptiedFields DEF DropAgreement
  <2> QED BY <1>0, <1>2, <2>1 DEF DropAgreement, Drops
<1>3. CASE RecvDelba BY <1>2, <1>3 DEF RecvDelba
<1>4. CASE AddbaReqRefuse
  <2>1. ba' = [Fresh(ba) EXCEPT !.buf = EmptyBuf] BY <1>4 DEF AddbaReqRefuse
  <2>2. ba'.buf = EmptyBuf /\ HandsNothing(ba')
    BY <1>0, <2>1, FreshFields DEF BaType, HandsNothing
  <2> QED BY <1>0, <1>4, <2>2 DEF AddbaReqRefuse, Drops
<1>6. CASE RxBaTimeout
  <2>1. CASE ba_ni BY <1>2, <1>6, <2>1 DEF RxBaTimeout, DelbaRequest
  <2>2. CASE ~ba_ni BY <1>0, <1>6, <2>2, FreshStays DEF RxBaTimeout
  <2> QED BY <2>1, <2>2
<1>7. CASE GapTimeout
  <2> DEFINE to == TimeoutExpired(ba.gap_to)
  <2>1. to \in TimeoutType /\ Counted(to) = 0 /\ Counted(ba.gap_to) = 1
    BY <1>0, <1>7, TimeoutTypes
       DEF GapTimeout, TypeOK, BaType, TimeoutExpired, TimeoutType, Counted
  <2>2. GapTimeoutRuns(to) /\ stale_gap' = stale_gap BY <1>7 DEF GapTimeout
  <2>3. Counted(to) + stale_gap' + 1 = GapTimers /\ stale_gap' <= stale_gap
    BY <1>0, <2>1, <2>2 DEF GapTimers
  <2> QED BY <2>1, <2>2, <2>3, GapTimeoutRunsSplit
<1>8. CASE StaleGapTimeout
  <2> DEFINE to == ba.gap_to
  <2>1. to \in TimeoutType /\ Counted(to) \in Nat
    BY <1>0 DEF TypeOK, BaType, Counted
  <2>2. GapTimeoutRuns(to) /\ stale_gap' = stale_gap - 1 BY <1>8 DEF StaleGapTimeout
  <2>3. Counted(to) + stale_gap' + 1 = GapTimers /\ stale_gap' <= stale_gap
    BY <1>0, <2>1, <2>2 DEF GapTimers
  <2> QED BY <2>1, <2>2, <2>3, GapTimeoutRunsSplit
<1>9. CASE JoinBss
  <2>1. ba'.buf = EmptyBuf /\ HandsNothing(ba')
    BY <1>9 DEF JoinBss, ZeroBa, HandsNothing
  <2> QED BY <1>9, <2>1 DEF JoinBss, Drops
<1>10. ASSUME NEW stay \in BOOLEAN, BaDel(stay) PROVE Stays
  <2> DEFINE to == TimeoutDelIfPending(Fresh(ba).gap_to)
  <2>1. ba' = Fresh(ba) \/ ba' = [Fresh(ba) EXCEPT !.gap_to = to]
    BY <1>10 DEF BaDel
  <2>2. to.armed => ba.gap_to.armed
    BY <1>0, FreshFields DEF TimeoutDelIfPending, TimeoutDel
  <2>3. ba_buf' = ba_buf /\ stale_gap' <= stale_gap BY <1>0, <1>10 DEF BaDel
  <2>4. CASE ba' = Fresh(ba) BY <1>0, <2>3, <2>4, FreshStays
  <2>5. CASE ba' = [Fresh(ba) EXCEPT !.gap_to = to]
    BY <1>0, <2>2, <2>3, <2>5, FreshFields DEF Stays, HandsNothing, BaType
  <2> QED BY <2>1, <2>4, <2>5
<1> QED BY <1>1, <1>3, <1>4, <1>6, <1>7, <1>8, <1>9, <1>10
        DEF ElsewhereStep, Driver, Timers, Interface

BufferStep ==
  \/ Stays
  \/ Drops
  \/ \E ssn \in SeqNo, bufsz \in BufSizes : Starts(ssn, bufsz)
  \/ \E m \in Mpdu : Takes(m)
  \/ \E ssn \in SeqNo : Moves(ssn)
  \/ \E to \in TimeoutType : Skips(to)

LEMMA StepSplit == IInv /\ BufferCleared /\ Next => BufferStep
<1> SUFFICES ASSUME IInv, BufferCleared, Next PROVE BufferStep
  OBVIOUS
<1>0. TypeOK BY DEF IInv
<1>1. CASE ElsewhereStep BY <1>1, ElsewhereSplit DEF BufferStep
<1>2. ASSUME NEW ssn \in SeqNo, NEW bufsz \in BufSizes,
             NEW inactivity \in BOOLEAN,
             RecvAddbaReq(ssn, bufsz, inactivity)
      PROVE  BufferStep
  BY <1>0, <1>2, AddbaReqSplit DEF BufferStep
<1>3. ASSUME NEW ssn \in SeqNo, RecvAddbaReqAgreed(ssn) \/ RecvBar(ssn)
      PROVE  BufferStep
  BY <1>0, <1>3, MoveSplit DEF BufferStep
<1>4. ASSUME NEW m \in Mpdu, InputBa(m) PROVE BufferStep
  BY <1>0, <1>4, InputSplit DEF BufferStep
<1> QED BY <1>1, <1>2, <1>3, <1>4 DEF Next, Peer, ElsewhereStep

-----------------------------------------------------------------------------
(* The order within one step of the recipient.                             *)

LEMMA BufferClearedInit == Init => BufferCleared
BY DEF Init, ZeroBa, BufferCleared

LEMMA BufferClearedStep ==
  IInv /\ BufferCleared /\ [Next]_vars => BufferCleared'
<1> SUFFICES ASSUME IInv, BufferCleared, [Next]_vars PROVE BufferCleared'
  OBVIOUS
<1>1. CASE Next
  <2>1. BufferStep BY <1>1, StepSplit
  <2> QED BY <2>1 DEF BufferStep, Stays, Drops, Starts, Takes, Moves, Skips,
                     BufferCleared
<1>2. CASE UNCHANGED vars BY <1>2 DEF vars, BufferCleared
<1> QED BY <1>1, <1>2

(* The positions of the MPDUs, counted from the start of the window.       *)
FromStart == [m \in Mpdu |-> Offset(m)]

LEMMA FromStartFacts ==
  ASSUME IInv, ba_buf, ba.winsize > 1
  PROVE  /\ Numbers(FromStart, ba.winstart)
         /\ SeqMod \in Nat /\ ba.winsize \in Nat /\ 2 * ba.winsize <= SeqMod
         /\ SeqMod > 3
         /\ Settled(Fresh(ba)) /\ Fresh(ba).winsize = ba.winsize
         /\ Fresh(ba).winstart = ba.winstart
         /\ Tracks(Fresh(ba), FromStart, ba.winstart, 0, 0, SeqMod - 1)
<1> DEFINE n == ba.winstart
<1>1. /\ ba \in BaType /\ Settled(ba) /\ WindowOK(ba) /\ n \in SeqNo
      /\ ba.winsize \in 1 .. MaxWinSz
  BY DEF IInv, Settled, Ordered, WindowOK, BaType
<1>2. SeqMod \in Nat /\ ba.winsize \in Nat /\ 2 * ba.winsize <= SeqMod /\ SeqMod > 3
  BY <1>1, Sizes
<1>3. \A m \in Mpdu : /\ Offset(m) \in 0 .. SeqMod - 1 /\ Offset(m) \in Nat
                      /\ (n + Offset(m)) % SeqMod = Sn(m)
  BY <1>1, <1>2, SnType, DistanceBack DEF Offset
<1>4. Numbers(FromStart, n) BY <1>1, <1>3 DEF Numbers, FromStart
<1>5. InSlots(ba, FromStart, 0, SeqMod - 1)
  <2> SUFFICES ASSUME NEW i \in Index, ~Empty(ba, i)
               PROVE  /\ FromStart[ba.buf[Slot(ba, i)]] = 0 + i
                      /\ 0 + i < SeqMod - 1
    BY DEF InSlots
  <2> DEFINE m == ba.buf[Slot(ba, i)]
  <2>1. Slot(ba, i) \in Index BY <1>1, PlaceSlot
  <2>2. m \in Mpdu BY <1>1, <2>1 DEF BaType, Empty
  <2>3. i < ba.winsize /\ Sn(m) = (n + i) % SeqMod BY <1>1 DEF WindowOK
  <2>4. i \in Nat /\ i \in 0 .. SeqMod - 1 /\ 0 \in 0 .. SeqMod - 1 /\ n \in Nat
    BY <1>1, <1>2, <2>3, Sizes DEF Index, SeqNo
  <2>5. (n + 0) % SeqMod = n BY <1>1, <1>2, SeqModLow DEF SeqNo
  <2>6. (((n + i) % SeqMod) - ((n + 0) % SeqMod)) % SeqMod = i
    BY <1>1, <2>4, SeqDiff
  <2>7. Offset(m) = i BY <2>3, <2>5, <2>6 DEF Offset
  <2> QED BY <1>2, <2>2, <2>3, <2>4, <2>7 DEF FromStart
<1>6. n = (n + 0) % SeqMod BY <1>1, <1>2, SeqModLow DEF SeqNo
<1> QED BY <1>2, <1>4, <1>5, <1>6, FreshTracks

(* What a step hands up is in order, and before the new window.            *)
UpBeforeWindow ==
  \A i \in DOMAIN ba'.up : ba'.up[i] # NoMpdu =>
    /\ Offset(ba'.up[i]) < (ba'.winstart - ba.winstart) % SeqMod
    /\ \A j \in 1 .. i - 1 : ba'.up[j] # NoMpdu =>
         Offset(ba'.up[j]) < Offset(ba'.up[i])

LEMMA TracksInOrder ==
  ASSUME IInv, ba' \in BaType, NEW v \in Nat, NEW high, v < SeqMod,
         Tracks(ba', FromStart, ba.winstart, 0, v, high)
  PROVE  UpBeforeWindow
<1> DEFINE n == ba.winstart
<1>1. n \in SeqNo /\ n \in Nat /\ SeqMod \in Nat
  BY Sizes DEF IInv, TypeOK, BaType, SeqNo
<1>2. (ba'.winstart - n) % SeqMod = v
  <2>1. ba'.winstart = (n + v) % SeqMod BY DEF Tracks
  <2>2. v \in 0 .. SeqMod - 1 /\ 0 \in 0 .. SeqMod - 1 BY <1>1
  <2>3. (((n + v) % SeqMod) - ((n + 0) % SeqMod)) % SeqMod = v
    BY <1>1, <2>2, SeqDiff
  <2>4. (n + 0) % SeqMod = n BY <1>1, SeqModLow DEF SeqNo
  <2> QED BY <2>1, <2>3, <2>4
<1>3. \A i \in DOMAIN ba'.up : ba'.up[i] # NoMpdu =>
        FromStart[ba'.up[i]] = Offset(ba'.up[i])
  BY DEF BaType, FromStart
<1>4. DOMAIN ba'.up = 1 .. Len(ba'.up) /\ Len(ba'.up) \in Nat BY DEF BaType
<1>5. \A i \in DOMAIN ba'.up : \A j \in 1 .. i - 1 : j \in DOMAIN ba'.up
  BY <1>4
<1>6. UpInOrder(ba', FromStart, 0, v, high) BY DEF Tracks
<1> QED BY <1>2, <1>3, <1>5, <1>6 DEF UpInOrder, UpBeforeWindow

LEMMA StepInOrder ==
  ASSUME IInv, IInv', BufferCleared, Next, ba.winsize > 1
  PROVE  UpBeforeWindow
<1> DEFINE n == ba.winstart
           h == SeqMod - 1
           b == Fresh(ba)
<1>0. ba' \in BaType /\ BufferStep BY StepSplit DEF IInv, TypeOK
<1>1. CASE HandsNothing(ba')
  BY <1>1 DEF HandsNothing, UpBeforeWindow
<1> SUFFICES ASSUME ba_buf PROVE UpBeforeWindow
  BY <1>0, <1>1 DEF BufferStep, Stays, Drops, Starts, Takes, Moves, Skips
<1>2. /\ Numbers(FromStart, n)
      /\ SeqMod \in Nat /\ ba.winsize \in Nat /\ 2 * ba.winsize <= SeqMod
      /\ SeqMod > 3
      /\ Settled(b) /\ b.winsize = ba.winsize /\ b.winstart = n
      /\ Tracks(b, FromStart, n, 0, 0, h)
  BY FromStartFacts
<1>3. b \in BaType /\ Ordered(b) BY <1>2 DEF Settled, Ordered
<1>4. \A m : BelowWindow(b, m) = BelowWindow(ba, m)
  BY FreshFacts DEF IInv, TypeOK
<1>5. ASSUME NEW m \in Mpdu, Takes(m) PROVE UpBeforeWindow
  <2>1. ba' = Accept(b, m) /\ ~BelowWindow(b, m) BY <1>4, <1>5 DEF Takes
  <2>2. FromStart[m] = 0 + Place(b, m) /\ FromStart[m] < h
    <3>1. FromStart[m] = Place(b, m) BY <1>2 DEF FromStart, Offset, Place
    <3>2. Place(b, m) \in 0 .. SeqMod - 1 /\ Place(b, m) <= SeqMod \div 2
      BY <1>3, <2>1, RoomCases
    <3> QED BY <1>2, <3>1, <3>2
  <2> HIDE DEF b
  <2>3. PICK v \in Nat : /\ Tracks(Accept(b, m), FromStart, n, 0, v, h)
                         /\ v = 0 \/ v <= h
    BY <1>2, <2>1, <2>2, AcceptTracks
  <2>4. v < SeqMod BY <1>2, <2>3
  <2> QED BY <1>0, <2>1, <2>3, <2>4, TracksInOrder
<1>6. ASSUME NEW ssn \in SeqNo, Moves(ssn) PROVE UpBeforeWindow
  <2> DEFINE d == (ssn - n) % SeqMod
  <2>1. ba' = ba_move_window(b, ssn) BY <1>6 DEF Moves
  <2>2. n \in SeqNo BY <1>3, <1>2 DEF BaType
  <2>3. d \in 0 .. SeqMod - 1 BY <2>2, DistanceBack
  <2>4. d \in Nat /\ d < SeqMod BY <1>2, <2>3
  <2>5. d = (ssn - b.winstart) % SeqMod BY <1>2
  <2> HIDE DEF b, d
  <2>6. PICK v \in Nat : /\ Tracks(ba_move_window(b, ssn), FromStart, n, 0, v, h)
                         /\ v = 0 + d \/ v <= h
    BY <1>2, <1>3, <2>4, <2>5, MoveWindowTracks
  <2>7. v < SeqMod BY <1>2, <2>4, <2>6
  <2> QED BY <1>0, <2>1, <2>6, <2>7, TracksInOrder
<1>7. ASSUME NEW to \in TimeoutType, Skips(to) PROVE UpBeforeWindow
  <2> DEFINE t == [b EXCEPT !.gap_to = to]
             f == input_ba_flush(input_ba_gap_skip(t))
  <2>1. /\ t \in BaType /\ Settled(t) /\ SameList(b, t) /\ SameWindow(b, t)
        /\ ba' = [f EXCEPT !.gap_to = TimeoutRan(@)]
    BY <1>7 DEF Skips
  <2> HIDE DEF t, b
  <2>2. Tracks(t, FromStart, n, 0, 0, h) /\ t.winsize = ba.winsize
    BY <1>2, <2>1, SameListTracks DEF SameWindow
  <2>3. PICK v \in Nat : /\ Tracks(f, FromStart, n, 0, v, h)
                         /\ v <= h \/ v = 0 + t.winsize
    BY <1>2, <2>1, <2>2, GapTracks
  <2>4. v < SeqMod BY <1>2, <2>2, <2>3
  <2>5. f \in BaType
    BY <2>1, GapSkipType, FlushType
  <2> HIDE DEF f
  <2>6. SameList(f, ba') BY <2>1, <2>5 DEF SameList, BaType
  <2>7. Tracks(ba', FromStart, n, 0, v, h) BY <2>3, <2>6, SameListTracks
  <2> QED BY <1>0, <2>4, <2>7, TracksInOrder
<1> QED BY <1>0, <1>1, <1>5, <1>6, <1>7 DEF BufferStep, Stays, Drops, Starts

(* The invariants of the structure, with an empty buffer where there is    *)
(* none.                                                                   *)
LEMMA ClearedCorrect == Spec => [](IInv /\ BufferCleared)
<1>1. Init => IInv /\ BufferCleared
  BY TypeOKInit, BufferClearedInit DEF Init, IInv
<1>2. (IInv /\ BufferCleared) /\ [Next]_vars => (IInv /\ BufferCleared)'
  BY IInvStep, BufferClearedStep
<1> QED BY <1>1, <1>2, PTL DEF Spec

(* Every handler hands MPDUs up in the order of their sequence numbers,    *)
(* and moves the window past what it hands up, whatever the peer sends     *)
(* and whenever the gap timer expires (ieee80211_input_ba and the          *)
(* functions it calls).                                                    *)
THEOREM OrderCorrect == Spec => HandedUpInOrder
<1>1. ASSUME IInv, BufferCleared, [Next]_vars
      PROVE  [ba.winsize > 1 => UpBeforeWindow]_vars
  BY <1>1, IInvStep, StepInOrder
<1>2. IInv /\ BufferCleared /\ [Next]_vars =>
        [ba.winsize > 1 =>
           \A i \in DOMAIN ba'.up : ba'.up[i] # NoMpdu =>
             /\ Offset(ba'.up[i]) < (ba'.winstart - ba.winstart) % SeqMod
             /\ \A j \in 1 .. i - 1 : ba'.up[j] # NoMpdu =>
                  Offset(ba'.up[j]) < Offset(ba'.up[i])]_vars
  BY <1>1 DEF UpBeforeWindow
<1> QED BY <1>2, ClearedCorrect, PTL DEF Spec, HandedUpInOrder

-----------------------------------------------------------------------------
(* No MPDU is lost: what is in the buffer or in the list stays in one of   *)
(* the two.                                                                *)

Has(b, x) ==
  (\E s \in Index : b.buf[s] = x) \/ (\E i \in DOMAIN b.up : b.up[i] = x)

Keeps(b, c) == \A x \in Mpdu : Has(b, x) => Has(c, x)

LEMMA KeepsSame ==
  ASSUME NEW b, NEW c, c.buf = b.buf, c.up = b.up
  PROVE  Keeps(b, c)
BY DEF Keeps, Has

LEMMA KeepsTrans ==
  ASSUME NEW b, NEW c, NEW e, Keeps(b, c), Keeps(c, e)
  PROVE  Keeps(b, e)
BY DEF Keeps

(* What leaves the window is appended to the list.                         *)
LEMMA PassKeeps ==
  ASSUME NEW b \in BaType, NEW k \in 0 .. MaxWinSz
  PROVE  Keeps(b, PassSlots(b, k))
<1> DEFINE p == PassSlots(b, k)
           l == Len(b.up)
<1>1. \A s \in Index : p.buf[s] = IF (s - b.head) % MaxWinSz < k
                                  THEN NoMpdu ELSE b.buf[s]
  BY PassSlotsFields
<1>2. /\ l \in Nat /\ DOMAIN b.up = 1 .. l /\ DOMAIN p.up = 1 .. l + k
      /\ \A i \in 1 .. l : p.up[i] = b.up[i]
      /\ \A i \in 1 .. k : p.up[l + i] = b.buf[Slot(b, i - 1)]
  BY PassedList
<1> HIDE DEF p, l
<1>3. k \in Nat /\ k <= MaxWinSz BY Sizes
<1> SUFFICES ASSUME NEW x \in Mpdu, Has(b, x) PROVE Has(p, x)
  BY DEF Keeps, p
<1>4. ASSUME NEW s \in Index, b.buf[s] = x PROVE Has(p, x)
  <2> DEFINE i == (s - b.head) % MaxWinSz
             j == i + 1
  <2>1. i \in Index /\ Slot(b, i) = s BY SlotPlace
  <2> HIDE DEF i
  <2>2. CASE i < k
    <3>1. j \in 1 .. k /\ j - 1 = i BY <1>3, <2>1, <2>2, Sizes DEF Index
    <3>2. p.up[l + j] = x BY <1>2, <1>4, <2>1, <3>1
    <3>3. l + j \in DOMAIN p.up BY <1>2, <1>3, <3>1
    <3> QED BY <3>2, <3>3 DEF Has
  <2>3. CASE ~(i < k)
    <3>1. p.buf[s] = x BY <1>1, <1>4, <2>3 DEF i
    <3> QED BY <3>1 DEF Has
  <2> QED BY <2>2, <2>3
<1>5. ASSUME NEW i \in DOMAIN b.up, b.up[i] = x PROVE Has(p, x)
  <2>1. i \in DOMAIN p.up /\ p.up[i] = x BY <1>2, <1>3, <1>5
  <2> QED BY <2>1 DEF Has
<1> QED BY <1>4, <1>5 DEF Has

LEMMA SetWinEndKeeps ==
  ASSUME NEW b \in BaType, NEW n \in SeqNo
  PROVE  Keeps(b, SetWinEnd([b EXCEPT !.winstart = n]))
<1> DEFINE s == [b EXCEPT !.winstart = n]
<1>1. s \in BaType /\ s.buf = b.buf /\ s.up = b.up BY DEF BaType
<1> HIDE DEF s
<1>2. SetWinEnd(s).buf = s.buf /\ SetWinEnd(s).up = s.up
  BY <1>1 DEF SetWinEnd, BaType
<1> QED BY <1>1, <1>2, KeepsSame DEF s

LEMMA AdvanceKeeps ==
  ASSUME NEW b \in BaType, NEW k \in 0 .. MaxWinSz
  PROVE  Keeps(b, Advance(b, k))
<1>1. PassSlots(b, k) \in BaType /\ Keeps(b, PassSlots(b, k))
  BY PassSlotsType, PassKeeps
<1>2. (b.winstart + k) % SeqMod \in SeqNo BY WindowBounds, SeqNoMod, Sizes
<1>3. Keeps(PassSlots(b, k), Advance(b, k)) BY <1>1, <1>2, SetWinEndKeeps DEF Advance
<1> QED BY <1>1, <1>3, KeepsTrans

LEMMA FlushKeeps ==
  ASSUME NEW b \in BaType
  PROVE  Keeps(b, input_ba_flush(b))
<1>1. CASE Empty(b, 0) BY <1>1, KeepsSame DEF input_ba_flush
<1>2. CASE ~Empty(b, 0)
  <2> DEFINE a == Advance(b, RunLength(b))
             to == IF a.gapwait # 0 THEN TimeoutAdd ELSE TimeoutDelIfPending(a.gap_to)
             f == [a EXCEPT !.gap_to = to]
  <2>1. a \in BaType /\ Keeps(b, a) BY RunLengthRange, AdvanceType, AdvanceKeeps
  <2>2. f = input_ba_flush(b) BY <1>2 DEF input_ba_flush
  <2> HIDE DEF a, to
  <2>3. f.buf = a.buf /\ f.up = a.up BY <2>1 DEF BaType
  <2> HIDE DEF f
  <2>4. Keeps(a, f) BY <2>3, KeepsSame
  <2> QED BY <2>1, <2>2, <2>4, KeepsTrans
<1> QED BY <1>1, <1>2

LEMMA MoveWindowKeeps ==
  ASSUME NEW b \in BaType, NEW ssn \in SeqNo
  PROVE  Keeps(b, ba_move_window(b, ssn))
<1> DEFINE d == (ssn - b.winstart) % SeqMod
           k == IF d > b.winsize THEN b.winsize ELSE d
           p == PassSlots(b, k)
           e == SetWinEnd([p EXCEPT !.winstart = ssn])
<1>1. k \in 0 .. MaxWinSz
  <2>1. d \in 0 .. SeqMod - 1 /\ b.winsize \in 0 .. MaxWinSz
    BY DistanceBack DEF BaType
  <2> HIDE DEF d
  <2> QED BY <2>1, Sizes
<1>2. ba_move_window(b, ssn) = input_ba_flush(e) BY DEF ba_move_window
<1> HIDE DEF k
<1>3. p \in BaType /\ Keeps(b, p) BY <1>1, PassSlotsType, PassKeeps
<1> HIDE DEF p
<1>4. [p EXCEPT !.winstart = ssn] \in BaType BY <1>3 DEF BaType
<1>5. e \in BaType /\ Keeps(p, e) BY <1>3, <1>4, SetWinEndType, SetWinEndKeeps
<1> HIDE DEF e
<1>6. Keeps(e, input_ba_flush(e)) BY <1>5, FlushKeeps
<1> QED BY <1>2, <1>3, <1>5, <1>6, KeepsTrans

LEMMA InputBaSeqKeeps ==
  ASSUME NEW b \in BaType, NEW max_seq
  PROVE  Keeps(b, input_ba_seq(b, max_seq))
<1> DEFINE stop(k) == ~Empty(b, k) /\ ~SeqLt(Sn(b.buf[Slot(b, k)]), max_seq)
           S == {k \in 0 .. b.winsize : k = b.winsize \/ stop(k)}
<1>1. b.winsize \in 0 .. MaxWinSz /\ S \in SUBSET (0 .. b.winsize) /\ b.winsize \in S
  BY Sizes DEF BaType
<1>2. input_ba_seq(b, max_seq) = Advance(b, Min(S)) BY DEF input_ba_seq
<1> HIDE DEF S
<1>3. Min(S) \in 0 .. MaxWinSz BY <1>1, BoundedLoop
<1> QED BY <1>2, <1>3, AdvanceKeeps

LEMMA GapSkipKeeps ==
  ASSUME NEW b \in BaType
  PROVE  Keeps(b, input_ba_gap_skip(b))
<1> DEFINE S == {k \in 0 .. b.winsize : k = b.winsize \/ ~Empty(b, k)}
<1>1. b.winsize \in 0 .. MaxWinSz /\ S \in SUBSET (0 .. b.winsize) /\ b.winsize \in S
  BY Sizes DEF BaType
<1>2. GapLength(b) = Min(S) BY DEF GapLength
<1> HIDE DEF S
<1>3. GapLength(b) \in 0 .. MaxWinSz BY <1>1, <1>2, BoundedLoop
<1> QED BY <1>3, AdvanceKeeps, KeepsSame DEF input_ba_gap_skip

LEMMA MakeRoomKeeps ==
  ASSUME NEW b \in BaType, NEW m \in Mpdu
  PROVE  Keeps(b, MakeRoom(b, m))
<1> DEFINE f == ForgetMisses(b)
<1>1. f \in BaType /\ f.buf = b.buf /\ f.up = b.up
  BY ForgetMissesType DEF ForgetMisses, BaType
<1> HIDE DEF f
<1>2. Keeps(b, ba_move_window(f, Sn(m)))
  BY <1>1, SnType, KeepsSame, MoveWindowKeeps, KeepsTrans
<1>3. ASSUME NEW x PROVE Keeps(b, input_ba_flush(input_ba_seq(b, x)))
  <2>1. input_ba_seq(b, x) \in BaType /\ Keeps(b, input_ba_seq(b, x))
    BY InputBaSeqType, InputBaSeqKeeps
  <2> QED BY <2>1, FlushKeeps, KeepsTrans
<1> QED BY <1>2, <1>3, KeepsSame DEF MakeRoom, f

(* An MPDU is only put in a slot that is empty.                            *)
LEMMA StoreKeeps ==
  ASSUME NEW b \in BaType, NEW m \in Mpdu
  PROVE  Keeps(b, Store(b, m))
<1>1. CASE ~Empty(b, Place(b, m)) BY <1>1, KeepsSame DEF Store, Place
<1>2. CASE Empty(b, Place(b, m))
  <2>1. PICK c \in BaType, u \in BaType :
          /\ Stored(b, c, m) /\ SameWindow(c, u) /\ u.up = b.up
          /\ Store(b, m) = input_ba_flush(u)
    BY <1>2, StoreSplit
  <2> DEFINE s == Slot(b, Place(b, m))
  <2>2. u.buf = [b.buf EXCEPT ![s] = m] /\ b.buf[s] = NoMpdu
    BY <1>2, <2>1 DEF Stored, SameWindow, Empty
  <2> HIDE DEF s
  <2>3. Keeps(b, u)
    <3> SUFFICES ASSUME NEW x \in Mpdu, Has(b, x) PROVE Has(u, x)
      BY DEF Keeps
    <3>1. ASSUME NEW z \in Index, b.buf[z] = x PROVE u.buf[z] = x
      <4>1. b.buf \in [Index -> Mpdu \cup {NoMpdu}] BY DEF BaType
      <4>2. z # s BY <2>2, <3>1, MpduAssumption
      <4> QED BY <2>2, <3>1, <4>1, <4>2
    <3> QED BY <2>1, <3>1 DEF Has
  <2> QED BY <2>1, <2>3, FlushKeeps, KeepsTrans
<1> QED BY <1>1, <1>2

LEMMA AcceptKeeps ==
  ASSUME NEW b \in BaType, NEW m \in Mpdu
  PROVE  Keeps(b, Accept(b, m))
<1> DEFINE r == MakeRoom(b, m)
           f == ForgetMisses(r)
<1>1. r \in BaType /\ Keeps(b, r) BY MakeRoomType, MakeRoomKeeps
<1>2. Accept(b, m) = Store(f, m) BY DEF Accept
<1> HIDE DEF r
<1>3. f \in BaType /\ f.buf = r.buf /\ f.up = r.up
  BY <1>1, ForgetMissesType DEF ForgetMisses, BaType
<1> HIDE DEF f
<1>4. Keeps(r, f) /\ Keeps(f, Store(f, m)) BY <1>3, KeepsSame, StoreKeeps
<1> QED BY <1>1, <1>2, <1>4, KeepsTrans

LEMMA StepKeeps ==
  ASSUME IInv, BufferCleared, Next, ba_state = "AGREED", ba_state' = "AGREED"
  PROVE  Mpdus(ba) \subseteq Mpdus(ba') \cup Range(ba'.up)
<1>0. BufferStep /\ TypeOK BY StepSplit DEF IInv
<1>1. CASE ba'.buf = ba.buf BY <1>1 DEF Mpdus, Occupied
<1> SUFFICES ASSUME ba'.buf # ba.buf
             PROVE  Mpdus(ba) \subseteq Mpdus(ba') \cup Range(ba'.up)
  BY <1>1
<1> DEFINE b == Fresh(ba)
<1>2. b \in BaType /\ b.buf = ba.buf BY <1>0, FreshFields
<1>3. Keeps(b, ba')
  <2>1. ASSUME NEW m \in Mpdu, Takes(m) PROVE Keeps(b, ba')
    BY <1>2, <2>1, AcceptKeeps DEF Takes
  <2>2. ASSUME NEW ssn \in SeqNo, Moves(ssn) PROVE Keeps(b, ba')
    BY <1>2, <2>2, MoveWindowKeeps DEF Moves
  <2>3. ASSUME NEW to \in TimeoutType, Skips(to) PROVE Keeps(b, ba')
    <3> DEFINE t == [b EXCEPT !.gap_to = to]
               s == input_ba_gap_skip(t)
               f == input_ba_flush(s)
    <3>1. t \in BaType /\ SameList(b, t) /\ ba' = [f EXCEPT !.gap_to = TimeoutRan(@)]
      BY <2>3 DEF Skips
    <3> HIDE DEF b, t
    <3>2. Keeps(b, t) BY <3>1, KeepsSame DEF SameList
    <3>3. s \in BaType /\ Keeps(t, s) BY <3>1, GapSkipType, GapSkipKeeps
    <3> HIDE DEF s
    <3>4. f \in BaType /\ Keeps(s, f) BY <3>3, FlushType, FlushKeeps
    <3> HIDE DEF f
    <3>5. ba'.buf = f.buf /\ ba'.up = f.up BY <3>1, <3>4 DEF BaType
    <3>6. Keeps(f, ba') BY <3>5, KeepsSame
    <3> QED BY <3>2, <3>3, <3>4, <3>6, KeepsTrans
  <2> QED BY <1>0, <2>1, <2>2, <2>3 DEF BufferStep, Stays, Drops, Starts
<1>4. ba \in BaType BY <1>0 DEF TypeOK
<1> SUFFICES ASSUME NEW x \in Mpdus(ba), x \notin Mpdus(ba') PROVE x \in Range(ba'.up)
  OBVIOUS
<1>5. PICK s \in Index : ba.buf[s] # NoMpdu /\ ba.buf[s] = x BY DEF Mpdus, Occupied
<1>6. x \in Mpdu BY <1>4, <1>5 DEF BaType
<1>7. Has(b, x) BY <1>2, <1>5 DEF Has
<1>8. Has(ba', x) BY <1>3, <1>6, <1>7 DEF Keeps
<1>9. ASSUME NEW z \in Index, ba'.buf[z] = x PROVE FALSE
  BY <1>5, <1>9 DEF Mpdus, Occupied
<1> QED BY <1>8, <1>9 DEF Has, Range

(* While the agreement lasts, an MPDU leaves the reorder buffer only with  *)
(* the list that goes to ieee80211_inputm: no move of the window, however  *)
(* far, and no expiry of the gap timer drops one (ba_move_window,          *)
(* input_ba_seq, input_ba_gap_skip, input_ba_flush).                       *)
THEOREM HandedUpCorrect == Spec => BufferedIsHandedUp
<1>1. IInv /\ BufferCleared /\ [Next]_vars =>
        [ba_state = "AGREED" /\ ba_state' = "AGREED" =>
           Mpdus(ba) \subseteq Mpdus(ba') \cup Range(ba'.up)]_vars
  BY StepKeeps
<1> QED BY <1>1, ClearedCorrect, PTL DEF Spec, BufferedIsHandedUp

-----------------------------------------------------------------------------
(* The functions of the reorder buffer leave the size of the window alone. *)

LEMMA FlushSize ==
  ASSUME NEW b \in BaType
  PROVE  input_ba_flush(b).winsize = b.winsize
<1>1. Advance(b, RunLength(b)) \in BaType
      /\ Advance(b, RunLength(b)).winsize = b.winsize
  BY RunLengthRange, AdvanceFields
<1> QED BY <1>1 DEF input_ba_flush, BaType

LEMMA MakeRoomSize ==
  ASSUME NEW b, Settled(b), NEW m \in Mpdu, ~BelowWindow(b, m)
  PROVE  MakeRoom(b, m).winsize = b.winsize
<1>1. b \in BaType /\ Ordered(b) BY DEF Settled, Ordered
<1>2. CASE ~SeqLt(b.winend, Sn(m)) BY <1>2 DEF MakeRoom
<1>3. CASE SeqLt(b.winend, Sn(m)) /\ AheadBy(b, m) > b.winsize
  <2> DEFINE f == ForgetMisses(b)
  <2>1. Ordered(f) /\ f.winsize = b.winsize
    BY <1>1, ForgetMissesType, ForgetMissesSame, SameWindowOrdered DEF SameWindow
  <2> HIDE DEF f
  <2>2. ba_move_window(f, Sn(m)).winsize = b.winsize
    BY <2>1, SnType, MoveWindowFacts
  <2> QED BY <1>3, <2>2 DEF MakeRoom, f
<1>4. CASE SeqLt(b.winend, Sn(m)) /\ ~(AheadBy(b, m) > b.winsize)
  <2> DEFINE c == input_ba_seq(b, (b.winstart + AheadBy(b, m)) % SeqMod)
  <2>1. AheadBy(b, m) \in 1 .. b.winsize BY <1>1, <1>4, RoomCases
  <2>2. c \in BaType /\ c.winsize = b.winsize
    BY <2>1, InputBaSeqFacts DEF Ordered
  <2> HIDE DEF c
  <2>3. input_ba_flush(c).winsize = b.winsize BY <2>2, FlushSize
  <2> QED BY <1>4, <2>3 DEF MakeRoom, c
<1> QED BY <1>2, <1>3, <1>4

LEMMA AcceptSize ==
  ASSUME NEW b, Settled(b), NEW m \in Mpdu, ~BelowWindow(b, m)
  PROVE  Accept(b, m).winsize = b.winsize
<1> DEFINE r == MakeRoom(b, m)
           f == ForgetMisses(r)
<1>1. r \in BaType /\ r.winsize = b.winsize
  BY MakeRoomFacts, MakeRoomSize DEF Settled, Ordered
<1>2. Accept(b, m) = Store(f, m) BY DEF Accept
<1> HIDE DEF r
<1>3. f \in BaType /\ f.winsize = r.winsize
  BY <1>1, ForgetMissesType DEF ForgetMisses, BaType
<1> HIDE DEF f
<1>4. CASE ~Empty(f, Place(f, m)) BY <1>1, <1>2, <1>3, <1>4 DEF Store, Place
<1>5. CASE Empty(f, Place(f, m))
  <2>1. PICK c \in BaType, u \in BaType :
          /\ Stored(f, c, m) /\ SameWindow(c, u)
          /\ Store(f, m) = input_ba_flush(u)
    BY <1>3, <1>5, StoreSplit
  <2>2. u.winsize = f.winsize BY <2>1 DEF Stored, SameWindow
  <2> QED BY <1>1, <1>2, <1>3, <2>1, <2>2, FlushSize
<1> QED BY <1>4, <1>5

-----------------------------------------------------------------------------
(* The recipient on the link.                                              *)

(* Every MPDU is its own position.                                         *)
Numbering == [m \in Mpdu |-> m]

(* The window starts at MPDU w: everything handed up is before it, the     *)
(* buffer holds what was sent at and after it, and it is neither far       *)
(* behind the originator, nor farther ahead of it than one window for each *)
(* gap timer that already expired without an MPDU to hand up.              *)
OnLink(w) ==
  /\ ba.winstart = w % SeqMod
  /\ last < w
  /\ tx <= w + MaxAhead
  /\ next <= tx + ba.winsize
  /\ w + ba.winsize * GapTimers <= next + ba.winsize * (MaxStale + 1)
  /\ InSlots(ba, Numbering, w, next)

(* The window is small next to the sequence space.                         *)
SpaceOK(size) ==
  MaxAhead + size <= SeqMod \div 2 /\ 2 * (MaxStale + 2) * size < SeqMod

LinkInv ==
  /\ tx \in Nat /\ next \in Nat /\ tx <= next
  /\ last \in Int /\ -1 <= last /\ last < next /\ count \in Nat
  /\ \A i \in Nat : i < next => i \in Mpdu
  /\ stale_gap <= MaxStale
  /\ BufferCleared
  /\ ba_buf => SpaceOK(ba.winsize)
  /\ ba_buf => \E w \in Nat : OnLink(w)

LEMMA NumberingFacts == Numbers(Numbering, 0) /\ \A m \in Mpdu : Numbering[m] = m
<1>1. \A m \in Mpdu : m \in Nat /\ 0 + m = m BY MpduAssumption
<1>2. 0 \in SeqNo BY Sizes DEF SeqNo
<1> QED BY <1>1, <1>2 DEF Numbers, Numbering, Sn

LEMMA Multiples ==
  /\ \A x, y, z \in Nat : x <= y => z * x <= z * y
  /\ \A x, z \in Nat : z * (x + 1) = z * x + z
  /\ \A x, z \in Nat : 2 * x * z = 2 * (z * x)
<1>1. ASSUME NEW x \in Nat, NEW y \in Nat, NEW z \in Nat, x <= y
      PROVE  z * x <= z * y
  <2>1. y - x \in Nat BY <1>1
  <2>2. z * (y - x) \in Nat BY <2>1
  <2>3. z * (y - x) = z * y - z * x OBVIOUS
  <2>4. z * x \in Nat /\ z * y \in Nat OBVIOUS
  <2> QED BY <2>2, <2>3, <2>4
<1>2. \A x, z \in Nat : z * (x + 1) = z * x + z OBVIOUS
<1>3. \A x, z \in Nat : 2 * x * z = 2 * (z * x) OBVIOUS
<1> QED BY <1>1, <1>2, <1>3

(* The greatest of a set of numbers that has a bound.                      *)
LEMMA MaxOfBounded ==
  ASSUME NEW h \in Int, NEW S, S # {}, \A x \in S : x \in Int /\ x < h
  PROVE  Max(S) \in S /\ \A x \in S : x <= Max(S)
<1> DEFINE T == {h - x : x \in S}
<1>1. T \in SUBSET Nat /\ T # {}
  <2>1. \A x \in S : h - x \in Nat OBVIOUS
  <2> QED BY <2>1
<1>2. Min(T) \in T /\ \A y \in T : Min(T) <= y BY <1>1, MinOfNat
<1>3. PICK x \in S : Min(T) = h - x BY <1>2
<1>4. \A y \in S : y <= x
  <2> SUFFICES ASSUME NEW y \in S PROVE y <= x
    OBVIOUS
  <2>1. h - y \in T OBVIOUS
  <2>2. h - x <= h - y BY <1>2, <1>3, <2>1
  <2> QED BY <2>2
<1>5. \E z \in S : \A y \in S : z >= y BY <1>4
<1> QED BY <1>5 DEF Max

LEMMA SameCardinality == \A S : InOrder!Cardinality(S) = Cardinality(S)
BY DEF Cardinality, InOrder!Cardinality

LEMMA SameTaken == InOrder!Taken(ba'.up) = Handed(ba')
BY DEF InOrder!Taken, Handed

(* The layer above, after a step that hands nothing up.                    *)
LEMMA NothingTaken ==
  ASSUME count \in Nat, HandsNothing(ba'), last' = last, count' = count
  PROVE  InOrder!Next
<1>1. Handed(ba') = {} BY DEF HandsNothing, Handed
<1>2. InOrder!Taken(ba'.up) = {} BY <1>1, SameTaken
<1>3. InOrder!Cardinality(InOrder!Taken(ba'.up)) = 0
  BY <1>2, FS_EmptySet, SameCardinality
<1>4. count' = count + InOrder!Cardinality(InOrder!Taken(ba'.up)) BY <1>3
<1>5. \A i \in InOrder!Taken(ba'.up) : FALSE BY <1>2
<1> QED BY <1>2, <1>4, <1>5 DEF InOrder!Next

LEMMA TakesNothing ==
  ASSUME last \in Int, count \in Nat, HandsNothing(ba'), TakeUp
  PROVE  last' = last /\ count' = count /\ InOrder!Next
<1>1. Handed(ba') = {} BY DEF HandsNothing, Handed
<1>2. Cardinality(Handed(ba')) = 0 BY <1>1, FS_EmptySet
<1>3. count' = count BY <1>2 DEF TakeUp
<1>4. last' = last
  <2>1. last' = Max({last}) BY <1>1 DEF TakeUp
  <2>2. Max({last}) \in {last}
    <3>1. \A x \in {last} : x \in Int /\ x < last + 1 OBVIOUS
    <3> QED BY <3>1, MaxOfBounded
  <2> QED BY <2>1, <2>2
<1> QED BY <1>3, <1>4, NothingTaken

(* And after a step that hands up MPDUs from low to before v, in order.    *)
LEMMA TakesInOrder ==
  ASSUME last \in Int, count \in Nat, ba' \in BaType, TakeUp,
         NEW low \in Nat, NEW v \in Nat, NEW high \in Nat, last < low,
         UpInOrder(ba', Numbering, low, v, high)
  PROVE  /\ last' \in Int /\ last <= last' /\ count' \in Nat
         /\ last' = last \/ (last' < v /\ last' < high)
         /\ InOrder!Next
<1> DEFINE u == ba'.up
           H == Handed(ba')
           S == {last} \cup {u[i] : i \in H}
<1>1. /\ u \in Seq(Mpdu \cup {NoMpdu}) /\ DOMAIN u = 1 .. Len(u) /\ Len(u) \in Nat
  BY DEF BaType
<1>2. \A i \in H : i \in DOMAIN u /\ i \in Nat /\ u[i] # NoMpdu /\ u[i] \in Mpdu
  BY <1>1 DEF Handed
<1>3. \A i \in H : u[i] \in Nat /\ Numbering[u[i]] = u[i]
  BY <1>2, NumberingFacts, MpduAssumption
<1>4. \A i \in H : /\ low <= u[i] /\ u[i] < v /\ u[i] < high
                   /\ \A j \in H : j < i => u[j] < u[i]
  <2> SUFFICES ASSUME NEW i \in H
        PROVE  /\ low <= u[i] /\ u[i] < v /\ u[i] < high
               /\ \A j \in H : j < i => u[j] < u[i]
    OBVIOUS
  <2>1. /\ low <= Numbering[u[i]] /\ Numbering[u[i]] < v /\ Numbering[u[i]] < high
        /\ \A j \in 1 .. i - 1 : u[j] # NoMpdu => Numbering[u[j]] < Numbering[u[i]]
    BY <1>2 DEF UpInOrder
  <2>2. \A j \in H : j < i => j \in 1 .. i - 1 BY <1>1, <1>2
  <2> QED BY <1>2, <1>3, <2>1, <2>2
<1>5. H \in SUBSET (1 .. Len(u)) BY <1>1 DEF Handed
<1>6. count' \in Nat
  <2>1. IsFiniteSet(1 .. Len(u)) BY <1>1, FS_Interval
  <2>2. Cardinality(H) \in Nat BY <1>5, <2>1, FS_Subset, FS_CardinalityType
  <2> QED BY <2>2 DEF TakeUp
<1>7. last' = Max(S) BY DEF TakeUp
<1>8. InOrder!Taken(u) = H BY SameTaken
<1> HIDE DEF u, H
<1>9. Max(S) \in S /\ \A x \in S : x <= Max(S)
  <2> DEFINE h == low + high + v
  <2>0. last \in Int /\ last < h /\ h \in Int OBVIOUS
  <2>1. \A i \in H : u[i] \in Int /\ u[i] < h BY <1>3, <1>4
  <2> HIDE DEF h
  <2>2. S # {} /\ \A x \in S : x \in Int /\ x < h BY <2>0, <2>1
  <2> HIDE DEF S
  <2> QED BY <2>0, <2>2, MaxOfBounded
<1>10. \A i \in H : u[i] <= last' /\ last < u[i] BY <1>3, <1>4, <1>7, <1>9
<1>11. last \in S OBVIOUS
<1>12. last' = last \/ \E i \in H : last' = u[i] BY <1>7, <1>9
<1>13. last <= last' BY <1>7, <1>9, <1>11
<1> HIDE DEF S
<1>14. /\ last' \in Int
       /\ last' = last \/ (last' < v /\ last' < high)
  BY <1>3, <1>4, <1>12
<1>15. IF H = {} THEN last' = last
       ELSE \E i \in DOMAIN u : InOrder!IsFinal(i, u) /\ last' = u[i]
  <2>1. CASE H = {} BY <1>12, <2>1
  <2>2. CASE H # {}
    <3>1. last' # last BY <1>3, <1>10, <1>14, <2>2
    <3>2. PICK i \in H : last' = u[i] BY <1>12, <3>1
    <3>3. \A j \in H : j <= i
      <4> SUFFICES ASSUME NEW j \in H, i < j PROVE FALSE
        BY <1>2
      <4>1. u[i] < u[j] BY <1>4
      <4> QED BY <1>3, <1>10, <3>2, <4>1
    <3>4. InOrder!IsFinal(i, u)
      BY <3>3 DEF InOrder!IsFinal, InOrder!Taken, H, u, Handed
    <3> QED BY <1>2, <2>2, <3>2, <3>4
  <2> QED BY <2>1, <2>2
<1>16. /\ \A i \in H : u[i] > last /\ \A j \in H : j < i => u[j] < u[i]
       /\ count' = count + Cardinality(H)
  BY <1>3, <1>4, <1>10 DEF TakeUp, H
<1>17. InOrder!Next BY <1>8, <1>15, <1>16, SameCardinality DEF InOrder!Next, u
<1> QED BY <1>6, <1>13, <1>14, <1>17

-----------------------------------------------------------------------------
(* One step of the link.                                                   *)

(* What the bounds say of an agreement, without products of variables.     *)
LEMMA OnLinkFacts ==
  ASSUME IInv, LinkInv, ba_buf, NEW w \in Nat, OnLink(w)
  PROVE  LET z == ba.winsize
             lag == z * (MaxStale + 1)
         IN /\ ba \in BaType /\ z \in Nat /\ z > 0 /\ lag \in Nat
            /\ SeqMod \in Nat /\ MaxAhead \in Nat
            /\ GapTimers \in Nat /\ z * GapTimers \in Nat
            /\ MaxAhead + z <= SeqMod \div 2
            /\ 2 * (lag + z) < SeqMod
            /\ w <= next + lag
            /\ \A x \in Nat : x <= MaxStale + 1 => z * x <= lag
<1> DEFINE z == ba.winsize
           lag == z * (MaxStale + 1)
<1>1. /\ ba \in BaType /\ z \in Nat /\ z > 0
      /\ SeqMod \in Nat /\ MaxAhead \in Nat /\ MaxStale \in Nat
  BY Sizes, MaxAheadAssumption, EnvAssumption
     DEF IInv, TypeOK, BaType, Settled, Ordered, WindowOK
<1>2. GapTimers \in Nat BY DEF IInv, TypeOK, GapTimers, Counted
<1>3. SpaceOK(z) BY DEF LinkInv
<1> HIDE DEF z
<1>4. lag \in Nat /\ z * GapTimers \in Nat BY <1>1, <1>2
<1>5. lag + z = z * (MaxStale + 2)
  <2>1. MaxStale + 1 \in Nat /\ MaxStale + 2 = (MaxStale + 1) + 1 BY <1>1
  <2> QED BY <1>1, <2>1, Multiples
<1>6. 2 * (lag + z) < SeqMod
  <2>1. MaxStale + 2 \in Nat BY <1>1
  <2>2. 2 * (MaxStale + 2) * z = 2 * (z * (MaxStale + 2)) BY <1>1, <2>1, Multiples
  <2> QED BY <1>3, <1>5, <2>2 DEF SpaceOK
<1>7. \A x \in Nat : x <= MaxStale + 1 => z * x <= lag
  <2>1. MaxStale + 1 \in Nat BY <1>1
  <2> QED BY <1>1, <2>1, Multiples
<1>8. w + z * GapTimers <= next + lag BY DEF OnLink, z
<1>9. next \in Nat BY DEF LinkInv
<1> HIDE DEF lag
<1>10. w <= next + lag BY <1>4, <1>8, <1>9
<1> QED BY <1>1, <1>2, <1>3, <1>4, <1>6, <1>7, <1>10 DEF SpaceOK, z, lag

(* The recipient moved its window to v, and everything else follows.       *)
LEMMA Progress ==
  ASSUME IInv, IInv', LinkInv, TakeUp, tx' = tx, next' = next,
         stale_gap' <= MaxStale, ba_buf, ba_buf', ba'.winsize = ba.winsize,
         NEW w \in Nat, OnLink(w), NEW v \in Nat,
         Tracks(ba', Numbering, 0, w, v, next),
         v + ba.winsize * GapTimers' <= next + ba.winsize * (MaxStale + 1)
  PROVE  LinkInv' /\ InOrder!Next
<1>1. /\ tx \in Nat /\ next \in Nat /\ last \in Int /\ last < w
      /\ -1 <= last /\ last < next /\ count \in Nat /\ ba' \in BaType
      /\ tx <= w + MaxAhead /\ next <= tx + ba.winsize /\ MaxAhead \in Nat
  BY MaxAheadAssumption DEF LinkInv, OnLink, IInv, TypeOK
<1>2. /\ w <= v /\ ba'.winstart = (0 + v) % SeqMod
      /\ InSlots(ba', Numbering, v, next) /\ UpInOrder(ba', Numbering, w, v, next)
  BY DEF Tracks
<1>3. /\ last' \in Int /\ last <= last' /\ count' \in Nat
      /\ last' = last \/ (last' < v /\ last' < next)
      /\ InOrder!Next
  BY <1>1, <1>2, TakesInOrder
<1>4. last' < v /\ last' < next /\ -1 <= last' /\ tx <= v + MaxAhead
  BY <1>1, <1>2, <1>3
<1>5. (0 + v) % SeqMod = v % SeqMod OBVIOUS
<1>6. OnLink(v)' BY <1>1, <1>2, <1>4, <1>5 DEF OnLink
<1>7. LinkInv' BY <1>1, <1>3, <1>4, <1>6 DEF LinkInv, BufferCleared, SpaceOK
<1> QED BY <1>3, <1>7

(* The steps that leave the buffer as it is, or without one.               *)
LEMMA LinkStays ==
  ASSUME IInv, IInv', LinkInv, TakeUp, tx' = tx, next' = next, Stays
  PROVE  LinkInv' /\ InOrder!Next
<1>1. /\ tx \in Nat /\ next \in Nat /\ last \in Int /\ count \in Nat
      /\ stale_gap \in Nat /\ stale_gap' \in Nat /\ MaxStale \in Nat
      /\ stale_gap <= MaxStale /\ ba \in BaType /\ ba' \in BaType
  BY EnvAssumption DEF LinkInv, IInv, TypeOK
<1>2. last' = last /\ count' = count /\ InOrder!Next
  BY <1>1, TakesNothing DEF Stays
<1>3. stale_gap' <= MaxStale BY <1>1 DEF Stays
<1>4. BufferCleared' BY DEF Stays, LinkInv, BufferCleared
<1>5. ASSUME ba_buf, NEW w \in Nat, OnLink(w) PROVE OnLink(w)'
  <2> DEFINE z == ba.winsize
  <2>1. z \in Nat /\ GapTimers \in Nat /\ z * GapTimers \in Nat
    BY <1>5, OnLinkFacts
  <2>2. GapTimers' \in Nat /\ GapTimers' <= GapTimers
    <3>1. Counted(ba'.gap_to) \in {0, 1} /\ Counted(ba.gap_to) \in {0, 1}
      BY DEF Counted
    <3>2. Counted(ba'.gap_to) <= Counted(ba.gap_to) BY DEF Stays, Counted
    <3>3. /\ GapTimers = Counted(ba.gap_to) + stale_gap
          /\ GapTimers' = Counted(ba'.gap_to) + stale_gap'
      BY DEF GapTimers
    <3>4. stale_gap' <= stale_gap BY DEF Stays
    <3> QED BY <1>1, <3>1, <3>2, <3>3, <3>4
  <2>3. z * GapTimers' <= z * GapTimers BY <2>1, <2>2, Multiples
  <2>4. w + z * GapTimers <= next + z * (MaxStale + 1) BY <1>5 DEF OnLink
  <2> HIDE DEF z
  <2>5. z * GapTimers' \in Nat /\ z * (MaxStale + 1) \in Nat
    <3>1. MaxStale + 1 \in Nat BY <1>1
    <3>2. \A x, y \in Nat : x * y \in Nat OBVIOUS
    <3> QED BY <2>1, <2>2, <3>1, <3>2
  <2>6. w + z * GapTimers' <= next + z * (MaxStale + 1)
    BY <1>1, <2>1, <2>3, <2>4, <2>5
  <2>7. \A i : Empty(ba', i) = Empty(ba, i) /\ Slot(ba', i) = Slot(ba, i)
    BY DEF Stays, Empty, Slot
  <2>8. InSlots(ba', Numbering, w, next)
    BY <1>5, <2>7 DEF OnLink, InSlots, Stays
  <2> QED BY <1>2, <1>5, <2>6, <2>8 DEF OnLink, Stays, z
<1>6. LinkInv' BY <1>2, <1>3, <1>4, <1>5 DEF LinkInv, Stays, SpaceOK
<1> QED BY <1>2, <1>6

LEMMA LinkDrops ==
  ASSUME IInv, IInv', LinkInv, last' = last, count' = count, next' = next,
         tx' \in Nat, tx' <= next, Drops
  PROVE  LinkInv' /\ InOrder!Next
<1>1. /\ stale_gap \in Nat /\ stale_gap' \in Nat /\ MaxStale \in Nat
      /\ stale_gap <= MaxStale /\ count \in Nat
  BY EnvAssumption DEF LinkInv, IInv, TypeOK
<1>2. InOrder!Next BY <1>1, NothingTaken DEF Drops
<1>3. stale_gap' <= MaxStale BY <1>1 DEF Drops
<1>4. LinkInv' BY <1>3 DEF LinkInv, Drops, BufferCleared
<1> QED BY <1>2, <1>4

(* A new agreement, whose first MPDU is the one sent next.                 *)
LEMMA LinkStarts ==
  ASSUME IInv, IInv', LinkInv, last' = last, count' = count, next' = next,
         tx' = next, NEW bufsz \in BufSizes, Starts(Sn(next), bufsz)
  PROVE  LinkInv' /\ InOrder!Next
<1>1. /\ stale_gap' \in Nat /\ MaxStale \in Nat /\ next \in Nat
      /\ count \in Nat /\ ba' \in BaType /\ stale_gap' <= MaxStale
      /\ ba'.winsize \in Nat /\ last < next /\ MaxAhead \in Nat
  BY EnvAssumption, MaxAheadAssumption, Sizes
     DEF LinkInv, IInv, TypeOK, Starts, BaType
<1>2. InOrder!Next BY <1>1, NothingTaken DEF Starts
<1>3. SpaceOK(ba'.winsize) BY SeqSpaceAssumption DEF Starts, SpaceOK
<1>4. GapTimers' = stale_gap' BY <1>1 DEF Starts, TimeoutSet, GapTimers, Counted
<1>5. ba'.winsize * stale_gap' <= ba'.winsize * (MaxStale + 1)
  <2>1. MaxStale + 1 \in Nat /\ stale_gap' <= MaxStale + 1 BY <1>1
  <2> QED BY <1>1, <2>1, Multiples
<1>6. next + ba'.winsize * GapTimers' <= next + ba'.winsize * (MaxStale + 1)
  <2> DEFINE x == ba'.winsize * stale_gap'
             y == ba'.winsize * (MaxStale + 1)
  <2>1. x \in Nat /\ y \in Nat BY <1>1
  <2>2. x <= y BY <1>5
  <2> HIDE DEF x, y
  <2>3. next + x <= next + y BY <1>1, <2>1, <2>2
  <2> QED BY <1>4, <2>3 DEF x, y
<1>7. InSlots(ba', Numbering, next, next)
  <2>1. \A i \in Index : Slot(ba', i) \in Index
    <3>1. ba'.head \in Index BY <1>1 DEF BaType
    <3>2. \A i \in Index : i \in Int BY DEF Index
    <3> QED BY <3>1, <3>2, SlotIndex
  <2>2. \A i \in Index : Empty(ba', i) BY <2>1 DEF Starts, EmptyBuf, Empty
  <2> QED BY <2>2 DEF InSlots
<1>8. /\ ba'.winstart = next % SeqMod /\ next <= next + MaxAhead
      /\ next <= next + ba'.winsize
  BY <1>1 DEF Starts, Sn
<1>9. OnLink(next)' BY <1>1, <1>6, <1>7, <1>8 DEF OnLink
<1>10. LinkInv' BY <1>1, <1>3, <1>9 DEF LinkInv, Starts, BufferCleared, SpaceOK
<1> QED BY <1>2, <1>10

(* Two MPDUs less than the sequence space apart.                           *)
LEMMA SeqModApart ==
  ASSUME NEW x \in Nat, NEW y \in Nat, NEW d \in 0 .. SeqMod - 1, y = x + d
  PROVE  /\ ((y % SeqMod) - (x % SeqMod)) % SeqMod = d
         /\ d > 0 => ((x % SeqMod) - (y % SeqMod)) % SeqMod = SeqMod - d
<1>1. PICK z \in Nat : z = 0 OBVIOUS
<1>2. /\ (((z + x + d) % SeqMod) - ((z + x) % SeqMod)) % SeqMod = d
      /\ d > 0 =>
           (((z + x) % SeqMod) - ((z + x + d) % SeqMod)) % SeqMod = SeqMod - d
  BY SeqModDiff
<1>3. z + x = x /\ z + x + d = y BY <1>1, Sizes
<1> QED BY <1>2, <1>3

(* What a handler that uses the buffer starts with.                        *)
LEMMA LinkFresh ==
  ASSUME IInv, LinkInv, ba_buf, NEW w \in Nat, OnLink(w)
  PROVE  /\ Settled(Fresh(ba)) /\ Tracks(Fresh(ba), Numbering, 0, w, w, next)
         /\ Fresh(ba).winsize = ba.winsize /\ Fresh(ba).winstart = ba.winstart
         /\ ba.winstart = w % SeqMod /\ next \in Nat /\ Ordered(Fresh(ba))
<1>1. /\ next \in Nat /\ ba.winstart = w % SeqMod /\ w <= w
      /\ InSlots(ba, Numbering, w, next)
  BY DEF LinkInv, OnLink
<1>2. (0 + w) % SeqMod = w % SeqMod OBVIOUS
<1>3. Settled(Fresh(ba)) => Ordered(Fresh(ba)) BY DEF Settled
<1> QED BY <1>1, <1>2, <1>3, FreshTracks, NumberingFacts

(* After the window stopped at or before the MPDU sent next, every gap     *)
(* timer there can be is allowed for.                                      *)
LEMMA EnoughTimers ==
  ASSUME IInv, IInv', LinkInv, ba_buf, stale_gap' <= MaxStale,
         NEW w \in Nat, OnLink(w), NEW v \in Nat, v <= next
  PROVE  v + ba.winsize * GapTimers' <= next + ba.winsize * (MaxStale + 1)
<1> DEFINE z == ba.winsize
           lag == z * (MaxStale + 1)
           g == GapTimers'
<1>1. /\ z \in Nat /\ lag \in Nat
      /\ \A x \in Nat : x <= MaxStale + 1 => z * x <= lag
  BY OnLinkFacts
<1>2. g \in Nat /\ g <= MaxStale + 1
  <2>1. stale_gap' \in Nat /\ MaxStale \in Nat
    BY EnvAssumption DEF IInv, TypeOK
  <2>2. Counted(ba'.gap_to) \in {0, 1} BY DEF Counted
  <2>3. g = Counted(ba'.gap_to) + stale_gap' BY DEF GapTimers
  <2> HIDE DEF g
  <2> QED BY <2>1, <2>2, <2>3
<1>3. next \in Nat BY DEF LinkInv
<1> HIDE DEF z, lag, g
<1>4. z * g \in Nat /\ z * g <= lag BY <1>1, <1>2
<1> DEFINE y == z * g
<1> HIDE DEF y
<1>5. v + y <= next + lag BY <1>1, <1>3, <1>4 DEF y
<1> QED BY <1>5 DEF y, z, lag, g

(* An outstanding MPDU arrives.                                            *)
LEMMA LinkTakes ==
  ASSUME IInv, IInv', LinkInv, TakeUp, tx' = tx, next' = next,
         NEW m \in tx .. next - 1, Takes(m)
  PROVE  LinkInv' /\ InOrder!Next
<1> DEFINE b == Fresh(ba)
           z == ba.winsize
           lag == z * (MaxStale + 1)
<1>0. ba_buf /\ ba_buf' /\ ~BelowWindow(ba, m) /\ ba' = Accept(b, m)
      /\ stale_gap' = stale_gap
  BY DEF Takes
<1>1. PICK w \in Nat : OnLink(w) BY <1>0 DEF LinkInv
<1>2. /\ ba \in BaType /\ z \in Nat /\ z > 0 /\ lag \in Nat
      /\ SeqMod \in Nat /\ MaxAhead \in Nat
      /\ MaxAhead + z <= SeqMod \div 2 /\ 2 * (lag + z) < SeqMod
      /\ w <= next + lag
  BY <1>0, <1>1, OnLinkFacts
<1>3. /\ Settled(b) /\ Tracks(b, Numbering, 0, w, w, next)
      /\ b.winsize = z /\ b.winstart = ba.winstart
      /\ ba.winstart = w % SeqMod
  BY <1>0, <1>1, LinkFresh
<1>4. /\ tx \in Nat /\ next \in Nat /\ m \in Nat /\ tx <= m /\ m < next
      /\ m \in Mpdu /\ Numbering[m] = m
      /\ tx <= w + MaxAhead /\ next <= tx + z
  BY <1>1, NumberingFacts DEF LinkInv, OnLink
<1>5. ~BelowWindow(b, m) BY <1>0, <1>2, FreshFacts
<1>6. stale_gap' <= MaxStale BY <1>0 DEF LinkInv
<1> HIDE DEF b, z, lag
<1>7. w <= m
  <2> SUFFICES ASSUME m < w PROVE FALSE
    BY <1>4
  <2> DEFINE d == w - m
  <2>1. d \in Nat /\ d > 0 /\ d <= lag + z /\ w = m + d
    BY <1>2, <1>4
  <2> HIDE DEF d
  <2>2. 2 * d < SeqMod /\ d \in 0 .. SeqMod - 1 BY <1>2, <2>1
  <2>3. ((m % SeqMod) - (w % SeqMod)) % SeqMod = SeqMod - d
    BY <1>4, <2>1, <2>2, SeqModApart
  <2>4. SeqMod - d > SeqMod \div 2 BY <1>2, <2>1, <2>2
  <2> QED BY <1>0, <1>3, <2>3, <2>4 DEF BelowWindow, SeqLt, Sn
<1>8. m - w \in Nat /\ m - w < SeqMod \div 2 /\ m - w < SeqMod
  BY <1>2, <1>4, <1>7
<1>9. Place(b, m) = m - w
  <2>1. b.winstart = (0 + w) % SeqMod BY <1>3
  <2> QED BY <1>4, <1>7, <1>8, <2>1, NumberingFacts, PlaceTracks
<1>10. PICK v \in Nat : /\ Tracks(Accept(b, m), Numbering, 0, w, v, next)
                        /\ w <= v /\ (v = w \/ v <= next)
  <2>1. Numbering[m] = w + Place(b, m) /\ Numbering[m] < next
    BY <1>4, <1>7, <1>9
  <2>2. Place(b, m) # SeqMod \div 2 BY <1>2, <1>8, <1>9
  <2>3. ~(b.winsize = 1 /\ Place(b, m) = SeqMod \div 2) BY <2>2
  <2> QED BY <1>3, <1>4, <1>5, <2>1, <2>3, NumberingFacts, AcceptTracks
<1>11. v <= next BY <1>4, <1>7, <1>10
<1>12. ba'.winsize = z BY <1>0, <1>3, <1>4, <1>5, AcceptSize
<1> HIDE DEF Tracks, LinkInv, OnLink
<1>13. v + ba.winsize * GapTimers' <= next + ba.winsize * (MaxStale + 1)
  BY <1>0, <1>1, <1>6, <1>11, EnoughTimers
<1> QED BY <1>0, <1>1, <1>6, <1>10, <1>12, <1>13, Progress DEF z

(* The originator asks for the window to move.                             *)
LEMMA LinkMoves ==
  ASSUME IInv, IInv', LinkInv, TakeUp, tx' = tx, next' = next, Moves(Sn(tx))
  PROVE  LinkInv' /\ InOrder!Next
<1> DEFINE b == Fresh(ba)
           z == ba.winsize
           lag == z * (MaxStale + 1)
<1>0. ba_buf /\ ba_buf' /\ SeqLt(ba.winstart, Sn(tx))
      /\ ba' = ba_move_window(b, Sn(tx)) /\ stale_gap' = stale_gap
  BY DEF Moves
<1>1. PICK w \in Nat : OnLink(w) BY <1>0 DEF LinkInv
<1>2. /\ ba \in BaType /\ z \in Nat /\ z > 0 /\ lag \in Nat
      /\ SeqMod \in Nat /\ MaxAhead \in Nat
      /\ MaxAhead + z <= SeqMod \div 2 /\ 2 * (lag + z) < SeqMod
      /\ w <= next + lag
  BY <1>0, <1>1, OnLinkFacts
<1>3. /\ Ordered(b) /\ Tracks(b, Numbering, 0, w, w, next)
      /\ b.winsize = z /\ b.winstart = ba.winstart
      /\ ba.winstart = w % SeqMod
  BY <1>0, <1>1, LinkFresh
<1>4. /\ tx \in Nat /\ next \in Nat /\ tx <= next
      /\ tx <= w + MaxAhead /\ next <= tx + z
      /\ Sn(tx) = tx % SeqMod
  BY <1>1 DEF LinkInv, OnLink, Sn
<1>5. Sn(tx) \in SeqNo BY <1>4, Sizes DEF SeqNo
<1>6. stale_gap' <= MaxStale BY <1>0 DEF LinkInv
<1> HIDE DEF b, z, lag
<1>7. w < tx
  <2> SUFFICES ASSUME tx <= w PROVE FALSE
    BY <1>4
  <2> DEFINE d == w - tx
  <2>1. d \in Nat /\ d <= lag + z /\ w = tx + d
    BY <1>2, <1>4
  <2> HIDE DEF d
  <2>2. 2 * d < SeqMod /\ d \in 0 .. SeqMod - 1 BY <1>2, <2>1
  <2>3. ((w % SeqMod) - (tx % SeqMod)) % SeqMod = d
    BY <1>4, <2>1, <2>2, SeqModApart
  <2>4. ~(d > SeqMod \div 2) BY <1>2, <2>1, <2>2
  <2> QED BY <1>0, <1>3, <1>4, <2>3, <2>4 DEF SeqLt
<1> DEFINE e == tx - w
<1>8. e \in Nat /\ e \in 0 .. SeqMod - 1 /\ tx = w + e
  BY <1>2, <1>4, <1>7
<1>9. e = (Sn(tx) - b.winstart) % SeqMod
  <2> HIDE DEF e
  <2>1. ((tx % SeqMod) - (w % SeqMod)) % SeqMod = e BY <1>8, SeqModApart
  <2> QED BY <1>3, <1>4, <2>1
<1> HIDE DEF e
<1>10. PICK v \in Nat :
         /\ Tracks(ba_move_window(b, Sn(tx)), Numbering, 0, w, v, next)
         /\ w + e <= v /\ (v = w + e \/ v <= next)
  BY <1>3, <1>5, <1>8, <1>9, NumberingFacts, MoveWindowTracks
<1>11. v <= next BY <1>4, <1>8, <1>10
<1>12. ba'.winsize = z BY <1>0, <1>3, <1>5, MoveWindowFacts
<1>13. v + ba.winsize * GapTimers' <= next + ba.winsize * (MaxStale + 1)
  BY <1>0, <1>1, <1>6, <1>11, EnoughTimers
<1> QED BY <1>0, <1>1, <1>6, <1>10, <1>12, <1>13, Progress DEF z

(* A gap timer expires.  One that finds an MPDU flushes the buffer, and    *)
(* the window stops at an MPDU that was sent; one that finds none moves it *)
(* on by its size, but then is one less to expire.                         *)
LEMMA LinkSkips ==
  ASSUME IInv, IInv', LinkInv, TakeUp, tx' = tx, next' = next,
         stale_gap' <= MaxStale, NEW to \in TimeoutType, Skips(to)
  PROVE  LinkInv' /\ InOrder!Next
<1> DEFINE b == Fresh(ba)
           t == [b EXCEPT !.gap_to = to]
           s == input_ba_gap_skip(t)
           f == input_ba_flush(s)
           z == ba.winsize
           lag == z * (MaxStale + 1)
           g == GapTimers'
<1>0. /\ ba_buf /\ ba_buf' /\ t \in BaType /\ Settled(t)
      /\ SameList(b, t) /\ SameWindow(b, t) /\ t.gap_to = to
      /\ ba' = [f EXCEPT !.gap_to = TimeoutRan(@)]
      /\ Counted(to) + stale_gap' + 1 = GapTimers
  BY DEF Skips
<1>1. PICK w \in Nat : OnLink(w) BY <1>0 DEF LinkInv
<1>2. /\ z \in Nat /\ lag \in Nat /\ GapTimers \in Nat
      /\ w + z * GapTimers <= next + lag
  BY <1>0, <1>1, OnLinkFacts DEF OnLink
<1>3. /\ Tracks(b, Numbering, 0, w, w, next) /\ b.winsize = z /\ next \in Nat
  BY <1>0, <1>1, LinkFresh
<1>4. stale_gap' \in Nat BY DEF IInv, TypeOK
<1> HIDE DEF b, t
<1>5. Tracks(t, Numbering, 0, w, w, next) /\ t.winsize = z
  BY <1>0, <1>3, SameListTracks DEF SameWindow
<1>6. s \in BaType /\ f \in BaType BY <1>0, GapSkipType, FlushType
<1>7. PICK v \in Nat :
        /\ Tracks(f, Numbering, 0, w, v, next) /\ f.winsize = t.winsize
        /\ v <= next \/ (v = w + t.winsize /\ f = s /\ s.gap_to = t.gap_to)
  BY <1>0, <1>5, NumberingFacts, GapTracks
<1> HIDE DEF s, f
<1>8. /\ SameList(f, ba') /\ ba'.winsize = z
      /\ ba'.gap_to = TimeoutRan(f.gap_to)
  BY <1>0, <1>5, <1>6, <1>7 DEF SameList, BaType
<1>9. Tracks(ba', Numbering, 0, w, v, next) BY <1>7, <1>8, SameListTracks
<1> HIDE DEF z, lag, g
<1>10. v + ba.winsize * GapTimers' <= next + ba.winsize * (MaxStale + 1)
  <2>1. CASE v <= next BY <1>0, <1>1, <2>1, EnoughTimers
  <2>2. CASE v = w + z /\ f.gap_to = to
    <3>1. Counted(ba'.gap_to) = Counted(to)
      BY <1>8, <2>2 DEF TimeoutRan, TimeoutType, Counted
    <3>2. Counted(to) \in {0, 1} BY DEF Counted
    <3>3. g = Counted(ba'.gap_to) + stale_gap' BY DEF GapTimers, g
    <3>4. g \in Nat /\ GapTimers = g + 1 BY <1>0, <1>4, <3>1, <3>2, <3>3
    <3>5. z * GapTimers = z * g + z BY <1>2, <3>4, Multiples
    <3>6. z * g \in Nat BY <1>2, <3>4
    <3> DEFINE y == z * g
    <3>7. w + (y + z) <= next + lag BY <1>2, <3>5
    <3> HIDE DEF y
    <3>8. v + y <= next + lag BY <1>2, <1>3, <2>2, <3>6, <3>7 DEF y
    <3> QED BY <3>8 DEF y, z, lag, g
  <2> QED BY <1>0, <1>5, <1>7, <2>1, <2>2
<1> QED BY <1>0, <1>1, <1>8, <1>9, <1>10, Progress DEF z

-----------------------------------------------------------------------------
(* The specification of the link.                                          *)

LEMMA LinkInit_IInv == LinkInit => IInv /\ LinkInv
<1> SUFFICES ASSUME LinkInit PROVE IInv /\ LinkInv
  OBVIOUS
<1>1. Init /\ tx = 0 /\ next = 0 /\ last = -1 /\ count = 0 BY DEF LinkInit
<1>2. IInv BY <1>1, TypeOKInit DEF Init, IInv
<1>3. BufferCleared BY <1>1, BufferClearedInit
<1>4. ~ba_buf /\ stale_gap = 0 /\ MaxStale \in Nat BY <1>1, EnvAssumption DEF Init
<1> QED BY <1>1, <1>2, <1>3, <1>4 DEF LinkInv

(* The originator's own steps.                                             *)
LEMMA LinkSends ==
  ASSUME IInv, LinkInv, Transmit \/ MoveOn
  PROVE  LinkInv' /\ UNCHANGED <<vars, last, count>>
<1>1. /\ tx \in Nat /\ next \in Nat /\ tx <= next /\ last \in Int
      /\ last < next /\ MaxAhead \in Nat
      /\ UNCHANGED <<vars, last, count>>
  BY MaxAheadAssumption DEF LinkInv, Transmit, MoveOn
<1>2. UNCHANGED <<ba, ba_buf, stale_gap>> BY <1>1 DEF vars
<1>3. /\ tx' \in Nat /\ next' \in Nat /\ tx' <= next' /\ next <= next'
      /\ \A i \in Nat : i < next' => i \in Mpdu
  <2>1. \A i \in Nat : i < next => i \in Mpdu BY DEF LinkInv
  <2>2. CASE Transmit
    <3>1. next' = next + 1 /\ tx' = tx /\ next \in Mpdu BY <2>2 DEF Transmit
    <3> QED BY <1>1, <2>1, <3>1
  <2>3. CASE MoveOn
    <3>1. next' = next /\ tx' = tx + 1 /\ tx < next BY <2>3 DEF MoveOn
    <3> QED BY <1>1, <2>1, <3>1
  <2> QED BY <2>2, <2>3
<1>4. ASSUME ba_buf, NEW w \in Nat, OnLink(w) PROVE OnLink(w)'
  <2> DEFINE z == ba.winsize
             lag == z * (MaxStale + 1)
             y == z * GapTimers
  <2>1. z \in Nat /\ lag \in Nat /\ y \in Nat BY <1>4, OnLinkFacts
  <2>2. /\ ba.winstart = w % SeqMod /\ last < w /\ tx <= w + MaxAhead
        /\ next <= tx + z /\ w + y <= next + lag
        /\ InSlots(ba, Numbering, w, next)
    BY <1>4 DEF OnLink
  <2>3. y' = y /\ z' = z /\ lag' = lag
    BY <1>2 DEF GapTimers
  <2> HIDE DEF z, lag, y
  <2>4. tx' <= w + MaxAhead /\ next' <= tx' + z
    <3>1. CASE Transmit
      <4>1. next' = next + 1 /\ tx' = tx /\ next < tx + z
        BY <3>1 DEF Transmit, z
      <4> QED BY <1>1, <2>1, <2>2, <4>1
    <3>2. CASE MoveOn
      <4>1. next' = next /\ tx' = tx + 1 /\ tx - last < MaxAhead
        BY <3>2 DEF MoveOn
      <4> QED BY <1>1, <2>1, <2>2, <4>1
    <3> QED BY <3>1, <3>2
  <2>5. w + y <= next' + lag
    <3>1. w + y <= next + lag BY <2>2
    <3>2. next \in Nat /\ next' \in Nat /\ next <= next' BY <1>1, <1>3
    <3>3. \A p, q, r, d, e \in Nat :
            p + q <= d + r /\ d <= e => p + q <= e + r
      OBVIOUS
    <3> QED BY <2>1, <3>1, <3>2, <3>3
  <2>6. InSlots(ba, Numbering, w, next')
    <3> SUFFICES ASSUME NEW i \in Index, ~Empty(ba, i)
          PROVE  Numbering[ba.buf[Slot(ba, i)]] = w + i /\ w + i < next'
      BY DEF InSlots
    <3>1. Numbering[ba.buf[Slot(ba, i)]] = w + i /\ w + i < next /\ i \in Int
      BY <2>2 DEF InSlots, Index
    <3> QED BY <1>1, <1>3, <3>1
  <2>7. /\ ba'.winstart = w % SeqMod /\ last' < w /\ tx' <= w + MaxAhead
        /\ next' <= tx' + ba'.winsize
        /\ w + (ba.winsize * GapTimers)' <= next' + (ba.winsize * (MaxStale + 1))'
        /\ InSlots(ba', Numbering, w, next')
    BY <1>1, <1>2, <2>2, <2>3, <2>4, <2>5, <2>6 DEF y, z, lag
  <2> QED BY <2>7 DEF OnLink
<1>5. last' < next' /\ count' \in Nat /\ -1 <= last' /\ last' \in Int
  BY <1>1, <1>3 DEF LinkInv
<1>6. LinkInv'
  BY <1>2, <1>3, <1>4, <1>5 DEF LinkInv, BufferCleared, SpaceOK
<1> QED BY <1>1, <1>6

(* Every step keeps the invariant and is one of in-order delivery.         *)
LEMMA LinkStep ==
  ASSUME IInv, LinkInv, LinkNext
  PROVE  /\ IInv' /\ LinkInv'
         /\ InOrder!Next \/ UNCHANGED <<ba.up, last, count>>
<1>0. /\ TypeOK /\ BufferCleared /\ tx \in Nat /\ next \in Nat /\ tx <= next
      /\ \A i \in Nat : i < next => i \in Mpdu
      /\ ~panic
  BY DEF IInv, LinkInv, LinkNext
<1>1. Sn(tx) \in SeqNo /\ Sn(next) \in SeqNo BY <1>0, Sizes DEF Sn, SeqNo
<1>2. tx .. next - 1 \subseteq Mpdu
  <2> SUFFICES ASSUME NEW i \in tx .. next - 1 PROVE i \in Mpdu
    OBVIOUS
  <2>1. i \in Nat /\ i < next BY <1>0
  <2> QED BY <1>0, <2>1
<1>3. CASE Transmit \/ MoveOn
  <2>1. LinkInv' /\ UNCHANGED <<vars, last, count>> BY <1>3, LinkSends
  <2>2. IInv' BY <2>1, IInvStep
  <2>3. ba' = ba BY <2>1 DEF vars
  <2> QED BY <2>1, <2>2, <2>3
<1>4. ASSUME Next PROVE IInv' /\ stale_gap' \in Nat
  <2>1. IInv' BY <1>4, IInvStep
  <2> QED BY <2>1 DEF IInv, TypeOK
<1>5. CASE Arrive
  <2>1. PICK m \in tx .. next - 1 : InputBa(m) BY <1>5 DEF Arrive
  <2>2. m \in Mpdu /\ Next BY <1>0, <1>2, <2>1 DEF Next, Peer
  <2>3. IInv' BY <1>4, <2>2
  <2>4. Takes(m) \/ Stays BY <1>0, <2>1, <2>2, InputSplit
  <2>5. TakeUp /\ tx' = tx /\ next' = next BY <1>5 DEF Arrive
  <2> QED BY <2>3, <2>4, <2>5, LinkTakes, LinkStays
<1>6. CASE BlockAckReq
  <2>1. RecvAddbaReqAgreed(Sn(tx)) \/ RecvBar(Sn(tx)) BY <1>6 DEF BlockAckReq
  <2>2. Next BY <1>0, <1>1, <2>1 DEF Next, Peer
  <2>3. IInv' BY <1>4, <2>2
  <2>4. Moves(Sn(tx)) \/ Stays BY <1>0, <1>1, <2>1, MoveSplit
  <2>5. TakeUp /\ tx' = tx /\ next' = next BY <1>6 DEF BlockAckReq
  <2> QED BY <2>3, <2>4, <2>5, LinkMoves, LinkStays
<1>7. CASE Agree
  <2>1. PICK bufsz \in BufSizes, inactivity \in BOOLEAN :
          RecvAddbaReq(Sn(next), bufsz, inactivity)
    BY <1>7 DEF Agree
  <2>2. Next BY <1>0, <1>1, <2>1 DEF Next, Peer
  <2>3. IInv' BY <1>4, <2>2
  <2>4. Starts(Sn(next), bufsz) \/ Drops BY <1>0, <1>1, <2>1, AddbaReqSplit
  <2>5. tx' = next /\ next' = next /\ last' = last /\ count' = count
    BY <1>7 DEF Agree
  <2>6. tx' \in Nat /\ tx' <= next BY <1>0, <2>5
  <2> QED BY <2>3, <2>4, <2>5, <2>6, LinkStarts, LinkDrops
<1>8. CASE Elsewhere
  <2>1. ElsewhereStep BY <1>8 DEF Elsewhere, ElsewhereStep
  <2>2. Next BY <1>0, <2>1 DEF Next, Peer, ElsewhereStep
  <2>3. IInv' /\ stale_gap' \in Nat BY <1>4, <2>2
  <2>4. (\E to \in TimeoutType : Skips(to)) \/ Stays \/ Drops
    BY <1>0, <2>1, ElsewhereSplit
  <2>5. TakeUp /\ tx' = tx /\ next' = next BY <1>8 DEF Elsewhere
  <2>6. ASSUME NEW to \in TimeoutType, Skips(to) PROVE stale_gap' <= MaxStale
    <3>1. Counted(to) + stale_gap' + 1 = Counted(ba.gap_to) + stale_gap
      BY <2>6 DEF Skips, GapTimers
    <3>2. Counted(to) \in {0, 1} /\ Counted(ba.gap_to) \in {0, 1} BY DEF Counted
    <3>3. stale_gap \in Nat /\ stale_gap <= MaxStale /\ MaxStale \in Nat
      BY EnvAssumption DEF IInv, TypeOK, LinkInv
    <3> QED BY <2>3, <3>1, <3>2, <3>3
  <2>7. CASE Drops
    <3>1. last \in Int /\ count \in Nat BY DEF LinkInv
    <3>2. last' = last /\ count' = count
      BY <2>5, <2>7, <3>1, TakesNothing DEF Drops
    <3>3. tx' \in Nat /\ tx' <= next BY <1>0, <2>5
    <3> QED BY <2>3, <2>5, <2>7, <3>2, <3>3, LinkDrops
  <2> QED BY <2>3, <2>4, <2>5, <2>6, <2>7, LinkSkips, LinkStays
<1> QED BY <1>3, <1>5, <1>6, <1>7, <1>8 DEF LinkNext

LEMMA LinkStutter ==
  ASSUME IInv, LinkInv, UNCHANGED linkVars
  PROVE  IInv' /\ LinkInv' /\ UNCHANGED <<ba.up, last, count>>
<1>1. UNCHANGED <<vars, tx, next, last, count>> BY DEF linkVars
<1>2. IInv' BY <1>1, IInvStep
<1>3. UNCHANGED <<ba, ba_buf, stale_gap, tx, next, last, count>>
  BY <1>1 DEF vars
<1>4. LinkInv'
  BY <1>3 DEF LinkInv, OnLink, SpaceOK, BufferCleared, GapTimers, InSlots
<1> QED BY <1>1, <1>2, <1>3, <1>4

LEMMA LinkCorrect == LinkSpec => [](IInv /\ LinkInv)
<1>1. (IInv /\ LinkInv) /\ [LinkNext]_linkVars => (IInv /\ LinkInv)'
  BY LinkStep, LinkStutter
<1> QED BY <1>1, LinkInit_IInv, PTL DEF LinkSpec

(* What waits in the reorder buffer was sent in this agreement and comes   *)
(* after everything handed up, so that it can still be handed up in order  *)
(* (ieee80211_input_ba, ieee80211_input_ba_gap_timeout).                   *)
THEOREM BufferCorrect == LinkSpec => []BufferedAreNew
<1>1. IInv /\ LinkInv => BufferedAreNew
  <2> SUFFICES ASSUME IInv, LinkInv, ba_buf, NEW m \in Mpdus(ba)
               PROVE  last < m /\ m < next
    BY DEF BufferedAreNew
  <2>1. PICK w \in Nat : OnLink(w) BY DEF LinkInv
  <2>2. ba \in BaType /\ last \in Int /\ last < w
    BY <2>1 DEF IInv, TypeOK, LinkInv, OnLink
  <2>3. PICK s \in Index : ba.buf[s] # NoMpdu /\ ba.buf[s] = m
    BY DEF Mpdus, Occupied
  <2>4. m \in Mpdu /\ Numbering[m] = m
    BY <2>2, <2>3, NumberingFacts DEF BaType
  <2>5. PICK i \in Index : Slot(ba, i) = s
    BY <2>2, <2>3, SlotPlace DEF BaType
  <2>6. Numbering[ba.buf[Slot(ba, i)]] = w + i /\ w + i < next
    BY <2>1, <2>3, <2>5 DEF OnLink, InSlots, Empty
  <2>7. i \in Int /\ 0 <= i BY DEF Index
  <2>8. m = w + i BY <2>3, <2>4, <2>5, <2>6
  <2> QED BY <2>2, <2>6, <2>7, <2>8
<1> QED BY <1>1, LinkCorrect, PTL

(* The recipient implements in-order delivery: with an originator that     *)
(* keeps to its window, whatever the link loses, repeats or reorders and   *)
(* whenever the gap timers expire, even those of agreements that have      *)
(* ended, no MPDU is handed up twice or after a later one                  *)
(* (ieee80211_input_ba and the functions it calls).                        *)
THEOREM DeliveryCorrect == LinkSpec => DeliversInOrder
<1>1. LinkInit => InOrder!Init
  BY DEF LinkInit, Init, ZeroBa, InOrder!Init
<1>2. IInv /\ LinkInv /\ [LinkNext]_linkVars =>
        [InOrder!Next]_<<ba.up, last, count>>
  BY LinkStep, LinkStutter
<1> QED BY <1>1, <1>2, LinkCorrect, PTL DEF LinkSpec, DeliversInOrder, InOrder!Spec
=============================================================================

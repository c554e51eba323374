------------------------- MODULE RxBlockAck_proofs -------------------------
(***************************************************************************)
(* Theorems about RxBlockAck, for every size of the sequence space, of the *)
(* reorder buffer and of the window, and any set of MPDUs.                 *)
(***************************************************************************)
EXTENDS RxBlockAck, FiniteSetTheorems, WellFoundedInduction, TLAPS

-----------------------------------------------------------------------------
(* The loops of the reorder buffer end where a condition first holds: each *)
(* is the minimum of a set of natural numbers that has its own end in it.  *)

LessThan == {p \in Nat \X Nat : p[1] < p[2]}

LEMMA LessThanWellFounded == IsWellFoundedOn(LessThan, Nat)
<1>1. LessThan = OpToRel(<, Nat)
  BY DEF LessThan, OpToRel
<1> QED BY <1>1, NatLessThanWellFounded

(* A nonempty set of natural numbers has a minimum, and Min is it.         *)
LEMMA MinOfNat ==
  ASSUME NEW S \in SUBSET Nat, S # {}
  PROVE  /\ Min(S) \in S
         /\ \A k \in S : Min(S) <= k
<1>1. PICK x \in S : \A y \in S : <<y, x>> \notin LessThan
  BY LessThanWellFounded, WFMin, Zenon
<1>2. ASSUME NEW y \in S PROVE x <= y
  <2>1. SUFFICES ASSUME y < x PROVE FALSE
    BY SMT
  <2>2. <<y, x>> \in LessThan
    <3>1. <<y, x>> \in Nat \X Nat
      BY SMT
    <3> QED BY <2>1, <3>1, Zenon DEF LessThan
  <2> QED BY <1>1, <2>2
<1>3. \E z \in S : \A y \in S : z =< y
  BY <1>1, <1>2
<1> QED BY <1>3 DEF Min

(* The two sets the loops of a buffer search are never empty, and their    *)
(* minimum is at most their end.                                           *)
LEMMA LoopEnd ==
  ASSUME NEW n \in Nat, NEW S \in SUBSET (0 .. n), n \in S
  PROVE  /\ Min(S) \in S
         /\ Min(S) \in 0 .. n
         /\ \A k \in 0 .. Min(S) - 1 : k \notin S
<1>1. S \in SUBSET Nat /\ S # {}
  OBVIOUS
<1>2. Min(S) \in S /\ \A k \in S : Min(S) <= k
  BY <1>1, MinOfNat
<1>3. Min(S) \in 0 .. n
  BY <1>2
<1>4. ASSUME NEW k \in 0 .. Min(S) - 1 PROVE k \notin S
  BY <1>2, <1>3
<1> QED BY <1>2, <1>3, <1>4

-----------------------------------------------------------------------------
(* Sequence numbers and slots.                                             *)

LEMMA Sizes ==
  /\ SeqMod \in Nat /\ MaxWinSz \in Nat
  /\ 0 < MaxWinSz /\ 2 * MaxWinSz <= SeqMod
BY SeqModAssumption, MaxWinSzAssumption

LEMMA ModRange ==
  ASSUME NEW m \in Nat, m > 0, NEW x \in Int
  PROVE  x % m \in 0 .. m - 1
OBVIOUS

LEMMA SeqNoMod == \A x \in Int : x % SeqMod \in SeqNo
BY Sizes, ModRange DEF SeqNo

LEMMA SlotIndex ==
  ASSUME NEW b, b.head \in Index, NEW i \in Int
  PROVE  Slot(b, i) \in Index
BY Sizes, ModRange DEF Slot, Index

LEMMA TimeoutTypes ==
  /\ TimeoutSet \in TimeoutType
  /\ TimeoutAdd \in TimeoutType
  /\ TimeoutDel \in TimeoutType
  /\ \A to \in TimeoutType :
       /\ TimeoutDelIfPending(to) \in TimeoutType
       /\ TimeoutExpired(to) \in TimeoutType
       /\ TimeoutRan(to) \in TimeoutType
BY DEF TimeoutSet, TimeoutAdd, TimeoutDel, TimeoutType, TimeoutDelIfPending,
       TimeoutPending, TimeoutExpired, TimeoutRan

-----------------------------------------------------------------------------
(* The functions of the reorder buffer keep the type of the record.        *)

LEMMA PassSlotsType ==
  ASSUME NEW b \in BaType, NEW k \in 0 .. MaxWinSz
  PROVE  PassSlots(b, k) \in BaType
<1> DEFINE passed == {i \in 0 .. k - 1 : ~Empty(b, i)}
           handed == [i \in 1 .. k |-> b.buf[Slot(b, i - 1)]]
           buf == [s \in Index |->
                     IF (s - b.head) % MaxWinSz < k THEN NoMpdu ELSE b.buf[s]]
<1>0. k \in Nat /\ b.head \in Index /\ b.buf \in [Index -> Mpdu \cup {NoMpdu}]
  BY Sizes DEF BaType
<1>1. Cardinality(passed) \in Int
  <2>1. IsFiniteSet(0 .. k - 1)
    BY <1>0, FS_Interval
  <2>2. passed \in SUBSET (0 .. k - 1)
    OBVIOUS
  <2> QED BY <2>1, <2>2, FS_Subset, FS_CardinalityType
<1>2. handed \in Seq(Mpdu \cup {NoMpdu})
  <2>1. \A i \in 1 .. k : Slot(b, i - 1) \in Index
    BY <1>0, SlotIndex
  <2> QED BY <1>0, <2>1
<1>3. b.up \o handed \in Seq(Mpdu \cup {NoMpdu})
  BY <1>2 DEF BaType
<1>4. buf \in [Index -> Mpdu \cup {NoMpdu}]
  BY <1>0
<1>5. Slot(b, k) \in Index
  BY <1>0, SlotIndex
<1>6. b.gapwait - Cardinality(passed) \in Int
  BY <1>1 DEF BaType
<1> HIDE DEF passed, handed, buf
<1> QED BY <1>3, <1>4, <1>5, <1>6 DEF PassSlots, BaType, passed, handed, buf

LEMMA SetWinEndType ==
  ASSUME NEW b \in BaType
  PROVE  SetWinEnd(b) \in BaType
<1>1. WinEnd(b) \in SeqNo
  <2>1. b.winstart + b.winsize - 1 \in Int
    BY Sizes DEF BaType, SeqNo
  <2> QED BY <2>1, SeqNoMod DEF WinEnd
<1> QED BY <1>1 DEF SetWinEnd, BaType

LEMMA AdvanceType ==
  ASSUME NEW b \in BaType, NEW k \in 0 .. MaxWinSz
  PROVE  Advance(b, k) \in BaType
<1>1. PassSlots(b, k) \in BaType
  BY PassSlotsType
<1>2. (b.winstart + k) % SeqMod \in SeqNo
  <2>1. b.winstart + k \in Int
    BY Sizes DEF BaType, SeqNo
  <2> QED BY <2>1, SeqNoMod
<1>3. [PassSlots(b, k) EXCEPT !.winstart = (b.winstart + k) % SeqMod] \in BaType
  BY <1>1, <1>2 DEF BaType
<1> QED BY <1>3, SetWinEndType DEF Advance

(* The number of slots each loop passes.                                   *)
LEMMA RunLengthRange ==
  ASSUME NEW b
  PROVE  /\ RunLength(b) \in 0 .. MaxWinSz
         /\ RunLength(b) < MaxWinSz => Empty(b, RunLength(b))
         /\ \A k \in 0 .. RunLength(b) - 1 : ~Empty(b, k)
<1> DEFINE S == {k \in 0 .. MaxWinSz : k = MaxWinSz \/ Empty(b, k)}
<1>1. MaxWinSz \in Nat /\ S \in SUBSET (0 .. MaxWinSz) /\ MaxWinSz \in S
  BY Sizes
<1>2. /\ Min(S) \in S
      /\ Min(S) \in 0 .. MaxWinSz
      /\ \A k \in 0 .. Min(S) - 1 : k \notin S
  BY <1>1, LoopEnd
<1> QED BY <1>1, <1>2 DEF RunLength

LEMMA FlushType ==
  ASSUME NEW b \in BaType
  PROVE  input_ba_flush(b) \in BaType
<1>1. Advance(b, RunLength(b)) \in BaType
  BY RunLengthRange, AdvanceType
<1>2. ASSUME NEW to \in TimeoutType
      PROVE  [Advance(b, RunLength(b)) EXCEPT !.gap_to = to] \in BaType
  BY <1>1 DEF BaType
<1>3. Advance(b, RunLength(b)).gap_to \in TimeoutType
  BY <1>1 DEF BaType
<1> QED BY <1>2, <1>3, TimeoutTypes DEF input_ba_flush

(* The loop of input_ba_seq, whatever it stops at.                         *)
LEMMA BoundedLoop ==
  ASSUME NEW n \in 0 .. MaxWinSz, NEW S \in SUBSET (0 .. n), n \in S
  PROVE  Min(S) \in 0 .. MaxWinSz
BY LoopEnd, Sizes

LEMMA InputBaSeqType ==
  ASSUME NEW b \in BaType, NEW max_seq
  PROVE  input_ba_seq(b, max_seq) \in BaType
<1> DEFINE stop(k) == ~Empty(b, k) /\ ~SeqLt(Sn(b.buf[Slot(b, k)]), max_seq)
           S == {k \in 0 .. b.winsize : k = b.winsize \/ stop(k)}
<1>1. b.winsize \in 0 .. MaxWinSz
  BY DEF BaType
<1>2. S \in SUBSET (0 .. b.winsize) /\ b.winsize \in S
  BY <1>1, Sizes
<1> HIDE DEF S
<1>3. Min(S) \in 0 .. MaxWinSz
  BY <1>1, <1>2, BoundedLoop
<1> QED BY <1>3, AdvanceType DEF input_ba_seq, S

LEMMA MoveWindowType ==
  ASSUME NEW b \in BaType, NEW ssn \in SeqNo
  PROVE  ba_move_window(b, ssn) \in BaType
<1> DEFINE distance == (ssn - b.winstart) % SeqMod
           count == IF distance > b.winsize THEN b.winsize ELSE distance
           passed == PassSlots(b, count)
<1>1. count \in 0 .. MaxWinSz
  <2>1. ssn - b.winstart \in Int
    BY Sizes DEF BaType, SeqNo
  <2>2. distance \in SeqNo
    BY <2>1, SeqNoMod
  <2>3. b.winsize \in 0 .. MaxWinSz
    BY DEF BaType
  <2> QED BY <2>2, <2>3, Sizes DEF SeqNo
<1>2. passed \in BaType
  BY <1>1, PassSlotsType
<1>3. [passed EXCEPT !.winstart = ssn] \in BaType
  BY <1>2 DEF BaType
<1>4. SetWinEnd([passed EXCEPT !.winstart = ssn]) \in BaType
  BY <1>3, SetWinEndType
<1> QED BY <1>4, FlushType DEF ba_move_window

LEMMA GapSkipType ==
  ASSUME NEW b \in BaType
  PROVE  input_ba_gap_skip(b) \in BaType
<1> DEFINE S == {k \in 0 .. b.winsize : k = b.winsize \/ ~Empty(b, k)}
<1>1. b.winsize \in 0 .. MaxWinSz
  BY DEF BaType
<1>2. S \in SUBSET (0 .. b.winsize) /\ b.winsize \in S
  BY <1>1, Sizes
<1> HIDE DEF S
<1>3. Min(S) \in 0 .. MaxWinSz
  BY <1>1, <1>2, BoundedLoop
<1> QED BY <1>3, AdvanceType DEF input_ba_gap_skip, GapLength, S

LEMMA SnType == \A m \in Mpdu : Sn(m) \in SeqNo /\ m \in Nat
BY MpduAssumption, SeqNoMod DEF Sn

LEMMA ForgetMissesType ==
  ASSUME NEW b \in BaType
  PROVE  ForgetMisses(b) \in BaType
<1>1. 0 \in 0 .. MaxWinMiss /\ 0 \in SeqNo
  BY Sizes, MaxWinMissAssumption DEF SeqNo
<1> QED BY <1>1 DEF ForgetMisses, BaType

LEMMA CountMissType ==
  ASSUME NEW b \in BaType, NEW m \in Mpdu, MissesWindow(b, m)
  PROVE  CountMiss(b, m) \in BaType
<1>1. b.winmiss + 1 \in 0 .. MaxWinMiss /\ 0 \in 0 .. MaxWinMiss
  BY MaxWinMissAssumption DEF MissesWindow, BaType
<1> QED BY <1>1, SnType DEF CountMiss, BaType

LEMMA MakeRoomType ==
  ASSUME NEW b \in BaType, NEW m \in Mpdu
  PROVE  MakeRoom(b, m) \in BaType
<1>1. ba_move_window(ForgetMisses(b), Sn(m)) \in BaType
  BY ForgetMissesType, SnType, MoveWindowType
<1>2. \A x : input_ba_flush(input_ba_seq(b, x)) \in BaType
  BY InputBaSeqType, FlushType
<1> QED BY <1>1, <1>2 DEF MakeRoom

(* The place of an MPDU after the head, and its slot.                      *)
LEMMA StoreType ==
  ASSUME NEW b \in BaType, NEW m \in Mpdu
  PROVE  Store(b, m) \in BaType
<1> DEFINE i == (Sn(m) - b.winstart) % SeqMod
           stored == [b EXCEPT !.buf[Slot(b, i)] = m, !.gapwait = @ + 1]
<1>1. i \in Int
  <2>1. Sn(m) - b.winstart \in Int
    BY Sizes, SnType DEF BaType, SeqNo
  <2> QED BY <2>1, SeqNoMod DEF SeqNo
<1>2. Slot(b, i) \in Index
  BY <1>1, SlotIndex DEF BaType
<1>3. stored \in BaType
  <2>1. [b.buf EXCEPT ![Slot(b, i)] = m] \in [Index -> Mpdu \cup {NoMpdu}]
    BY <1>2 DEF BaType
  <2>2. b.gapwait + 1 \in Int
    BY DEF BaType
  <2> QED BY <2>1, <2>2 DEF BaType
<1> HIDE DEF stored
<1>4. [stored EXCEPT !.gap_to = TimeoutAdd] \in BaType
  BY <1>3, TimeoutTypes DEF BaType
<1> QED BY <1>3, <1>4, FlushType DEF Store, stored

LEMMA AcceptType ==
  ASSUME NEW b \in BaType, NEW m \in Mpdu
  PROVE  Accept(b, m) \in BaType
BY MakeRoomType, ForgetMissesType, StoreType DEF Accept

-----------------------------------------------------------------------------
(* Type correctness.                                                       *)

LEMMA FreshType ==
  ASSUME NEW b \in BaType
  PROVE  Fresh(b) \in BaType
<1>1. <<>> \in Seq(Mpdu \cup {NoMpdu})
  OBVIOUS
<1> QED BY <1>1 DEF Fresh, BaType

LEMMA EmptyBufType == EmptyBuf \in [Index -> Mpdu \cup {NoMpdu}]
BY DEF EmptyBuf

LEMMA ZeroBaType == ZeroBa \in BaType
BY Sizes, MaxWinMissAssumption, EmptyBufType, TimeoutTypes
   DEF ZeroBa, BaType, Index, SeqNo

LEMMA DropAgreementType ==
  ASSUME TypeOK, NEW wait \in Int, DropAgreement(wait)
  PROVE  /\ ba_state' = "INIT" /\ ba_to' \in TimeoutType
         /\ ba' \in BaType /\ ba_buf' \in BOOLEAN
<1>1. Fresh(ba) \in BaType
  BY FreshType DEF TypeOK
<1> QED BY <1>1, EmptyBufType, TimeoutTypes DEF DropAgreement, BaType

LEMMA SetupAgreementType ==
  ASSUME TypeOK, NEW ssn \in SeqNo, NEW bufsz \in BufSizes,
         NEW inactivity \in BOOLEAN, NEW head \in Index,
         SetupAgreement(ssn, bufsz, inactivity, head)
  PROVE  /\ running' \in BOOLEAN /\ ba' \in BaType /\ ba_timeout' \in BOOLEAN
         /\ ba_ni' \in BOOLEAN /\ pbac' \in BOOLEAN /\ panic' \in BOOLEAN
         /\ stale_gap' \in Nat /\ stale_to' \in Nat
<1> DEFINE size == WindowSize(bufsz)
           b == [Fresh(ba) EXCEPT
                   !.buf = EmptyBuf, !.head = head, !.winstart = ssn,
                   !.winsize = size, !.gapwait = 0, !.gap_to = TimeoutSet]
<1>1. size \in 0 .. MaxWinSz
  BY Sizes, BufSizesAssumption DEF WindowSize
<1>2. Fresh(ba) \in BaType
  BY FreshType DEF TypeOK
<1> HIDE DEF size
<1>3. b \in BaType
  <2>1. 0 \in Int /\ TimeoutSet \in TimeoutType
    BY TimeoutTypes
  <2> QED BY <1>1, <1>2, <2>1, EmptyBufType DEF BaType
<1>4. SetWinEnd(b) \in BaType
  BY <1>3, SetWinEndType
<1>5. ba' \in BaType
  BY <1>4 DEF SetupAgreement, size
<1>6. stale_gap' \in Nat /\ stale_to' \in Nat
  BY DEF SetupAgreement, Abandoned, TypeOK
<1> QED BY <1>5, <1>6 DEF SetupAgreement, TypeOK

LEMMA MoveWindowToType ==
  ASSUME TypeOK, NEW ssn \in SeqNo, MoveWindowTo(ssn)
  PROVE  ba' \in BaType /\ panic' \in BOOLEAN
<1>1. Fresh(ba) \in BaType
  BY FreshType DEF TypeOK
<1>2. ba_move_window(Fresh(ba), ssn) \in BaType
  BY <1>1, MoveWindowType
<1> QED BY <1>1, <1>2 DEF MoveWindowTo, UseBuffer, LeaveBuffer, TypeOK

LEMMA ArmedType ==
  ASSUME TypeOK PROVE Armed(ba_to) \in TimeoutType
BY TimeoutTypes DEF Armed, TypeOK

LEMMA DelbaRequestType ==
  ASSUME TypeOK, DelbaRequest
  PROVE  /\ ba_state' = "INIT" /\ ba_to' \in TimeoutType
         /\ ba' \in BaType /\ ba_buf' \in BOOLEAN
         /\ UNCHANGED <<running, ba_timeout, ba_ni, pbac, driver>>
<1>1. ba.gapwait \in Int
  BY DEF TypeOK, BaType
<1>2. DropAgreement(ba.gapwait)
  BY DEF DelbaRequest
<1> QED BY <1>1, <1>2, DropAgreementType DEF DelbaRequest

(* What a new request and a state change leave of the driver's answer.     *)
LEMMA DriverTypes ==
  ASSUME TypeOK
  PROVE  /\ \A asked \in BOOLEAN : NewRequest(asked) => driver' \in DriverType
         /\ DriverGoesOn => driver' \in DriverType
         /\ driver.asked \in BOOLEAN /\ driver.late \in BOOLEAN
BY DEF TypeOK, DriverType, NewRequest, DriverGoesOn

LEMMA GapTimeoutRunsType ==
  ASSUME TypeOK, NEW to \in TimeoutType, GapTimeoutRuns(to)
  PROVE  ba' \in BaType /\ panic' \in BOOLEAN
<1> DEFINE timed == [Fresh(ba) EXCEPT !.gap_to = to]
           skipped == input_ba_gap_skip(timed)
           flushed == IF GapLength(ba) = 0 THEN skipped ELSE input_ba_flush(skipped)
           ran == [flushed EXCEPT !.gap_to = TimeoutRan(@)]
<1>1. Fresh(ba) \in BaType
  BY FreshType DEF TypeOK
<1>2. timed \in BaType
  BY <1>1 DEF BaType
<1> HIDE DEF timed
<1>3. skipped \in BaType
  BY <1>2, GapSkipType
<1> HIDE DEF skipped
<1>4. flushed \in BaType
  BY <1>3, FlushType
<1> HIDE DEF flushed
<1>5. ran \in BaType
  <2>1. TimeoutRan(flushed.gap_to) \in TimeoutType
    BY <1>4, TimeoutTypes DEF BaType
  <2> QED BY <1>4, <2>1 DEF BaType
<1>6. \/ ba' = Fresh(ba) /\ panic' = TRUE
      \/ ba' = skipped /\ panic' = ~ba_buf
      \/ ba' = ran /\ panic' = ~ba_buf
  BY DEF GapTimeoutRuns, UseBuffer, timed, skipped, flushed
<1> QED BY <1>1, <1>3, <1>5, <1>6 DEF TypeOK

LEMMA TypeOKInit == Init => TypeOK
<1>1. Init => pbac \in BOOLEAN
  BY EnvAssumption DEF Init
<1>2. Init => ba \in BaType /\ ba_to \in TimeoutType
  BY ZeroBaType, TimeoutTypes DEF Init
<1>3. Init => stale_gap \in Nat /\ stale_to \in Nat
  BY DEF Init
<1>4. Init => driver \in DriverType
  BY DEF Init, DriverType
<1> QED BY <1>1, <1>2, <1>3, <1>4 DEF Init, TypeOK

(* One step per action.                                                    *)
LEMMA TypeOKStep == TypeOK /\ [Next]_vars => TypeOK'
<1> SUFFICES ASSUME TypeOK, [Next]_vars PROVE TypeOK'
  OBVIOUS
<1>1. CASE AddbaReqDenied
  BY <1>1, FreshType DEF AddbaReqDenied, TypeOK
<1>2. ASSUME NEW ssn \in SeqNo, NEW bufsz \in BufSizes,
             NEW inactivity \in BOOLEAN,
             RecvAddbaReq(ssn, bufsz, inactivity)
      PROVE  TypeOK'
  <2>1. PICK head \in Index : SetupAgreement(ssn, bufsz, inactivity, head)
    <3>1. ba.head \in Index /\ 0 \in Index
      BY Sizes DEF TypeOK, BaType, Index
    <3> QED BY <1>2, <3>1
            DEF RecvAddbaReq, AddbaReqNoMemory, AddbaReqDriverBusy,
                AddbaReqDriverFails, AddbaReqDriverReady
  <2>2. /\ running' \in BOOLEAN /\ ba' \in BaType
        /\ ba_timeout' \in BOOLEAN /\ ba_ni' \in BOOLEAN
        /\ pbac' \in BOOLEAN /\ panic' \in BOOLEAN
        /\ stale_gap' \in Nat /\ stale_to' \in Nat
    BY <2>1, SetupAgreementType
  <2>3. driver' \in DriverType
    <3>1. \E asked \in {driver.asked, TRUE, FALSE} : NewRequest(asked)
      BY <1>2 DEF RecvAddbaReq, AddbaReqNoMemory, AddbaReqDriverBusy,
                  AddbaReqDriverFails, AddbaReqDriverReady
    <3> QED BY <3>1, DriverTypes
  <2> QED BY <1>2, <2>2, <2>3, TimeoutTypes
          DEF RecvAddbaReq, AddbaReqNoMemory, AddbaReqDriverBusy,
              AddbaReqDriverFails, AddbaReqDriverReady, TypeOK
<1>3. ASSUME NEW ssn \in SeqNo, RecvAddbaReqAgreed(ssn) PROVE TypeOK'
  <2>1. Fresh(ba) \in BaType
    BY FreshType DEF TypeOK
  <2>2. ba' \in BaType /\ panic' \in BOOLEAN
    BY <1>3, <2>1, MoveWindowToType
       DEF RecvAddbaReqAgreed, LeaveBuffer, TypeOK
  <2> QED BY <1>3, <2>2, ArmedType DEF RecvAddbaReqAgreed, TypeOK
<1>4. ASSUME NEW ssn \in SeqNo, RecvBar(ssn) PROVE TypeOK'
  <2>1. Fresh(ba) \in BaType
    BY FreshType DEF TypeOK
  <2>2. ba' \in BaType /\ panic' \in BOOLEAN
    BY <1>4, <2>1, MoveWindowToType DEF RecvBar, LeaveBuffer, TypeOK
  <2>3. ba_to' \in TimeoutType
    BY <1>4, ArmedType DEF RecvBar, TypeOK
  <2> QED BY <1>4, <2>2, <2>3 DEF RecvBar, TypeOK
<1>5. ASSUME NEW m \in Mpdu, InputBa(m) PROVE TypeOK'
  <2>1. Fresh(ba) \in BaType
    BY FreshType DEF TypeOK
  <2>2. Accept(Fresh(ba), m) \in BaType
    BY <2>1, AcceptType
  <2>3. MissesWindow(ba, m) => CountMiss(Fresh(ba), m) \in BaType
    <3>1. MissesWindow(ba, m) = MissesWindow(Fresh(ba), m)
      BY DEF MissesWindow, Fresh, AheadBy, TypeOK, BaType
    <3> QED BY <2>1, <3>1, CountMissType
  <2>4. ba' \in BaType /\ panic' \in BOOLEAN
    BY <1>5, <2>1, <2>2, <2>3 DEF InputBa, UseBuffer, LeaveBuffer, TypeOK
  <2> QED BY <1>5, <2>4, ArmedType DEF InputBa, TypeOK
<1>6. CASE RecvDelba
  BY <1>6, DropAgreementType DEF RecvDelba, TypeOK
<1>7. CASE AddbaReqAccept
  <2>1. driver' \in DriverType
    BY <1>7, DriverTypes DEF AddbaReqAccept, DriverType, TypeOK
  <2> QED BY <1>7, <2>1, FreshType, ArmedType DEF AddbaReqAccept, TypeOK
<1>8. CASE AddbaReqRefuse
  <2>1. Fresh(ba) \in BaType
    BY FreshType DEF TypeOK
  <2>2. [Fresh(ba) EXCEPT !.buf = EmptyBuf] \in BaType
    BY <2>1, EmptyBufType DEF BaType
  <2>3. driver' \in DriverType
    BY <1>8 DEF AddbaReqRefuse, DriverType, TypeOK
  <2> QED BY <1>8, <2>2, <2>3 DEF AddbaReqRefuse, TypeOK
<1>10. CASE RxBaTimeout
  <2>1. stale_to' \in Nat /\ stale_gap' \in Nat
    BY <1>10 DEF RxBaTimeout, TypeOK
  <2>2. Fresh(ba) \in BaType
    BY FreshType DEF TypeOK
  <2> QED BY <1>10, <2>1, <2>2, DelbaRequestType DEF RxBaTimeout, TypeOK
<1>11. CASE GapTimeout
  <2>1. TimeoutExpired(ba.gap_to) \in TimeoutType
    BY TimeoutTypes DEF TypeOK, BaType
  <2>2. ba' \in BaType /\ panic' \in BOOLEAN
    BY <1>11, <2>1, GapTimeoutRunsType DEF GapTimeout
  <2> QED BY <1>11, <2>2 DEF GapTimeout, GapTimeoutRuns, TypeOK
<1>12. CASE StaleGapTimeout
  <2>1. ba.gap_to \in TimeoutType
    BY DEF TypeOK, BaType
  <2>2. ba' \in BaType /\ panic' \in BOOLEAN
    BY <1>12, <2>1, GapTimeoutRunsType DEF StaleGapTimeout
  <2> QED BY <1>12, <2>2 DEF StaleGapTimeout, GapTimeoutRuns, TypeOK
<1>13. CASE EnterRun
  BY <1>13, FreshType DEF EnterRun, TypeOK
<1>14. CASE JoinBss
  <2>1. pbac' \in BOOLEAN
    BY <1>14, EnvAssumption DEF JoinBss
  <2>2. stale_gap' \in Nat /\ stale_to' \in Nat
    BY <1>14 DEF JoinBss, Abandoned, TypeOK
  <2>3. driver' \in DriverType
    BY <1>14, DriverTypes DEF JoinBss
  <2> QED BY <1>14, <2>1, <2>2, <2>3, ZeroBaType, TimeoutTypes DEF JoinBss, TypeOK
<1>15. ASSUME NEW stay \in BOOLEAN, BaDel(stay) PROVE TypeOK'
  <2>1. Fresh(ba) \in BaType
    BY FreshType DEF TypeOK
  <2>2. TimeoutDelIfPending(Fresh(ba).gap_to) \in TimeoutType
    BY <2>1, TimeoutTypes DEF BaType
  <2>3. [Fresh(ba) EXCEPT !.gap_to = TimeoutDelIfPending(@)] \in BaType
    BY <2>1, <2>2 DEF BaType
  <2>4. driver' \in DriverType
    BY <1>15, DriverTypes DEF BaDel
  <2> QED BY <1>15, <2>1, <2>3, <2>4, TimeoutTypes DEF BaDel, TypeOK
<1>16. CASE UNCHANGED vars
  BY <1>16 DEF vars, TypeOK
<1> QED BY <1>1, <1>2, <1>3, <1>4, <1>5, <1>6, <1>7, <1>8, <1>10,
           <1>11, <1>12, <1>13, <1>14, <1>15, <1>16
        DEF Next, Peer, Driver, Timers, Interface

(* Every variable keeps its type, in every step (the types of the handlers *)
(* of input_ba, recv_addba_req and the timeouts).                          *)
THEOREM TypeCorrect == Spec => []TypeOK
BY TypeOKInit, TypeOKStep, PTL DEF Spec
=============================================================================

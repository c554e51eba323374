----------------------------- MODULE RxBlockAck -----------------------------
(***************************************************************************)
(* The recipient side of a Block Ack agreement for one peer and one TID:   *)
(* struct ieee80211_rx_ba, the A-MPDU reorder buffer in it, and every      *)
(* handler that changes it (net80211/ieee80211_input.c, _proto.c, _node.c) *)
(*                                                                         *)
(* The handlers run on the driver's work loop, one at a time: a received   *)
(* MPDU, BlockAckReq, ADDBA or DELBA frame, the expiry of a timeout, a     *)
(* state change of the interface.  Only the driver's answer to a new       *)
(* agreement comes from another thread, at any later moment.               *)
(*                                                                         *)
(* An MPDU is a natural number, the position its originator gave it; its   *)
(* sequence number is that position modulo SeqMod, and the code sees       *)
(* nothing else of it.                                                     *)
(*                                                                         *)
(* The hardware leaves the reordering to net80211: where it does it itself *)
(* the driver hands MPDUs past input_ba (IEEE80211_RXI_AMPDU_DONE).        *)
(***************************************************************************)
EXTENDS Integers, Sequences, FiniteSets, FiniteSetsExt, Timeout

CONSTANTS
  SeqMod,       \* number of sequence numbers: 0x1000
  MaxWinSz,     \* IEEE80211_BA_MAX_WINSZ
  MaxWinMiss,   \* IEEE80211_BA_MAX_WINMISS
  Mpdu,         \* the MPDUs that can be received
  NoMpdu,       \* an empty slot of the reorder buffer: ba_buf[i].m == NULL
  BufSizes,     \* the buffer sizes a peer can ask for
  PbacModes,    \* whether peers can use Protected Block Ack
  MaxStale      \* bound on the timers abandoned by timeout_set

ASSUME SeqModAssumption == SeqMod \in Nat /\ 2 * MaxWinSz <= SeqMod
ASSUME MaxWinSzAssumption == MaxWinSz \in Nat \ {0}
ASSUME MaxWinMissAssumption == MaxWinMiss \in Nat
ASSUME MpduAssumption == Mpdu \subseteq Nat /\ NoMpdu \notin Mpdu
ASSUME BufSizesAssumption == BufSizes \subseteq Nat
(* With a window of one MPDU the number half the sequence space away is    *)
(* neither before nor behind it; it shares the slot of the head.           *)
ASSUME WrapAssumption ==
  1 \in BufSizes => \E q \in 0 .. SeqMod : SeqMod \div 2 = MaxWinSz * q
ASSUME EnvAssumption == PbacModes \subseteq BOOLEAN /\ MaxStale \in Nat

VARIABLES
  running,      \* ic_state is RUN and the port is open
  ba_state,     \* "INIT", "REQUESTED" or "AGREED"
  ba,           \* the reorder buffer and its window
  ba_buf,       \* ba_buf is not NULL
  ba_to,        \* the inactivity timeout
  ba_timeout,   \* ba_timeout_val # 0
  ba_ni,        \* ba_ni is not NULL
  pbac,         \* both sides use Protected Block Ack
  driver,       \* what the driver does about this TID (DriverType)
  stale_gap,    \* armed gap timers abandoned by timeout_set
  stale_to,     \* armed inactivity timers abandoned by timeout_set
  panic         \* a NULL pointer was dereferenced: ba_buf or ba_ni

vars == <<running, ba_state, ba, ba_buf, ba_to, ba_timeout, ba_ni, pbac,
          driver, stale_gap, stale_to, panic>>

-----------------------------------------------------------------------------
(* Sequence numbers and slots.                                             *)

SeqNo == 0 .. SeqMod - 1
Index == 0 .. MaxWinSz - 1

Sn(m) == m % SeqMod

(* SEQ_LT: a is before b, by less than half of the sequence space.         *)
SeqLt(a, b) == (a - b) % SeqMod > SeqMod \div 2

(* The index in ba_buf of the slot i places after the head.                *)
Slot(b, i) == (b.head + i) % MaxWinSz

Empty(b, i) == b.buf[Slot(b, i)] = NoMpdu

Occupied(b) == {s \in Index : b.buf[s] # NoMpdu}

WinEnd(b) == (b.winstart + b.winsize - 1) % SeqMod

SetWinEnd(b) == [b EXCEPT !.winend = WinEnd(b)]

-----------------------------------------------------------------------------
(* The reorder buffer: one operator per function of ieee80211_input.c,     *)
(* from the record before to the record after.  The field up is the list   *)
(* ml of what the window passed, in the order it was passed: an MPDU that  *)
(* went to ieee80211_inputm, or NoMpdu for a gap.                          *)

(* Broken variant: the slots passed are not taken off the count.           *)
PassSlotsUncounted(b, k) ==
  [b EXCEPT
     !.buf = [s \in Index |->
                IF (s - b.head) % MaxWinSz < k THEN NoMpdu ELSE b.buf[s]],
     !.up = b.up \o [i \in 1 .. k |-> b.buf[Slot(b, i - 1)]],
     !.head = Slot(b, k)]

(* The common body of the loops: k slots leave the window at its head.     *)
PassSlots(b, k) ==
  [b EXCEPT
     !.buf = [s \in Index |->
                IF (s - b.head) % MaxWinSz < k THEN NoMpdu ELSE b.buf[s]],
     !.up = b.up \o [i \in 1 .. k |-> b.buf[Slot(b, i - 1)]],
     !.gapwait = b.gapwait
                   - Cardinality({i \in 0 .. k - 1 : ~Empty(b, i)}),
     !.head = Slot(b, k)]

(* Broken variant: the end of the window is not recomputed.                *)
AdvanceStart(b, k) ==
  [PassSlots(b, k) EXCEPT !.winstart = (b.winstart + k) % SeqMod]

(* The loops that also count the window start up, slot by slot.            *)
Advance(b, k) ==
  SetWinEnd([PassSlots(b, k) EXCEPT !.winstart = (b.winstart + k) % SeqMod])

(* The number of consecutive MPDUs at the head.                            *)
RunLength(b) ==
  Min({k \in 0 .. MaxWinSz : k = MaxWinSz \/ Empty(b, k)})

(* Broken variant: the gap timer is only cancelled, never restarted.       *)
FlushWithoutRestart(b) ==
  IF Empty(b, 0) THEN b
  ELSE LET f == Advance(b, RunLength(b)) IN
       [f EXCEPT !.gap_to = TimeoutDelIfPending(@)]

input_ba_flush(b) ==
  IF Empty(b, 0) THEN b
  ELSE LET f == Advance(b, RunLength(b)) IN
       [f EXCEPT !.gap_to =
          IF f.gapwait # 0 THEN TimeoutAdd ELSE TimeoutDelIfPending(@)]

(* Forward the MPDUs before max_seq: stops at the first MPDU that is not,  *)
(* or after winsize slots.                                                 *)
input_ba_seq(b, max_seq) ==
  LET stop(k) == ~Empty(b, k) /\ ~SeqLt(Sn(b.buf[Slot(b, k)]), max_seq)
  IN Advance(b, Min({k \in 0 .. b.winsize : k = b.winsize \/ stop(k)}))

(* Broken variants: the slots passed over are not freed; the window is     *)
(* moved without handing up what it passes.                                *)
MoveWindowKeepsSlots(b, ssn) ==
  input_ba_flush(SetWinEnd([b EXCEPT !.winstart = ssn]))

MoveWindowDropsMpdus(b, ssn) ==
  LET distance == (ssn - b.winstart) % SeqMod
      count == IF distance > b.winsize THEN b.winsize ELSE distance
  IN input_ba_flush(
       SetWinEnd([PassSlots(b, count) EXCEPT !.winstart = ssn, !.up = b.up]))

ba_move_window(b, ssn) ==
  LET distance == (ssn - b.winstart) % SeqMod
      count == IF distance > b.winsize THEN b.winsize ELSE distance
  IN input_ba_flush(
       SetWinEnd([PassSlots(b, count) EXCEPT !.winstart = ssn]))

(* The number of empty slots at the head, at most winsize.                 *)
GapLength(b) ==
  Min({k \in 0 .. b.winsize : k = b.winsize \/ ~Empty(b, k)})

input_ba_gap_skip(b) ==
  IF GapLength(b) = 0 THEN b ELSE Advance(b, GapLength(b))

(* Broken variant: no MPDU is too old.                                     *)
NeverBelowWindow(b, m) == FALSE

(* SN is before the window: the MPDU is old.                               *)
BelowWindow(b, m) == SeqLt(Sn(m), b.winstart)

(* SN is beyond the window by more than its size: the MPDU is only counted *)
(* until MaxWinMiss of them came in a row.                                 *)
AheadBy(b, m) == (Sn(m) - b.winend) % SeqMod

(* Broken variant: there is no end to the misses.                          *)
AlwaysMissesWindow(b, m) ==
  /\ SeqLt(b.winend, Sn(m))
  /\ AheadBy(b, m) > b.winsize

MissesWindow(b, m) ==
  /\ SeqLt(b.winend, Sn(m))
  /\ AheadBy(b, m) > b.winsize
  /\ b.winmiss < MaxWinMiss

CountMiss(b, m) ==
  [b EXCEPT
     !.winmiss = IF b.missedsn = (Sn(m) - 1) % SeqMod THEN @ + 1 ELSE 0,
     !.missedsn = Sn(m)]

ForgetMisses(b) == [b EXCEPT !.winmiss = 0, !.missedsn = 0]

(* Move the window so that it reaches an MPDU beyond its end.              *)
MakeRoom(b, m) ==
  IF ~SeqLt(b.winend, Sn(m)) THEN b
  ELSE IF AheadBy(b, m) > b.winsize
       THEN ba_move_window(ForgetMisses(b), Sn(m))
       ELSE input_ba_flush(
              input_ba_seq(b, (b.winstart + AheadBy(b, m)) % SeqMod))

(* Broken variants: the MPDUs that now are in order stay behind; the gap   *)
(* timer is not started.                                                   *)
StoreOnly(b, m) ==
  LET i == (Sn(m) - b.winstart) % SeqMod
  IN IF ~Empty(b, i) THEN b
     ELSE [b EXCEPT !.buf[Slot(b, i)] = m, !.gapwait = @ + 1,
                    !.gap_to = TimeoutAdd]

StoreUntimed(b, m) ==
  LET i == (Sn(m) - b.winstart) % SeqMod
  IN IF ~Empty(b, i) THEN b
     ELSE input_ba_flush([b EXCEPT !.buf[Slot(b, i)] = m, !.gapwait = @ + 1])

(* Put the MPDU in its slot, unless the slot is taken.                     *)
Store(b, m) ==
  LET i == (Sn(m) - b.winstart) % SeqMod
      stored == [b EXCEPT !.buf[Slot(b, i)] = m, !.gapwait = @ + 1]
      waiting == Empty(stored, 0) /\ stored.gapwait = 1
  IN IF ~Empty(b, i) THEN b
     ELSE input_ba_flush(
            IF waiting THEN [stored EXCEPT !.gap_to = TimeoutAdd] ELSE stored)

Accept(b, m) == Store(ForgetMisses(MakeRoom(b, m)), m)

-----------------------------------------------------------------------------
(* The handlers.                                                           *)

(* A handler that hands MPDUs up starts with an empty list.                *)
Fresh(b) == [b EXCEPT !.up = <<>>]

EmptyBuf == [s \in Index |-> NoMpdu]

Armed(to) == IF ba_timeout THEN TimeoutAdd ELSE to

(* timeout_set on a timeout whose timer may still be armed abandons it.    *)
Abandoned(n, to) == IF to.armed THEN n + 1 ELSE n

(* asked: an answer is to come.  late is kept for the properties: the      *)
(* record, as its last request set it up, was made an agreement after the  *)
(* request had ended.                                                      *)
DriverType == [asked : BOOLEAN, late : BOOLEAN]

NewRequest(asked) == driver' = [driver EXCEPT !.asked = asked, !.late = FALSE]

(* iwm_newstate takes the driver's task off its queue.  It answers all the *)
(* same if it sleeps in a command already, or when it is queued again for  *)
(* another TID, since the bit of this one is not cleared.                  *)
DriverGoesOn ==
  \E asked \in {driver.asked, FALSE} : driver' = [driver EXCEPT !.asked = asked]

(* The end of an agreement: timers cancelled, buffer and MPDUs freed.      *)
DropAgreement(wait) ==
  /\ ba_state' = "INIT"
  /\ ba_to' = TimeoutDel
  /\ ba' = [Fresh(ba) EXCEPT !.gap_to = TimeoutDel, !.gapwait = wait,
                             !.buf = EmptyBuf]
  /\ ba_buf' = FALSE

(* An ADDBA Request refused before anything is set up.                     *)
AddbaReqDenied ==
  /\ running
  /\ ba_state = "INIT"
  /\ ba' = Fresh(ba)
  /\ UNCHANGED <<running, ba_state, ba_buf, ba_to, ba_timeout, ba_ni,
                 pbac, driver, stale_gap, stale_to, panic>>

(* The window of an agreement, from the buffer size the peer asks for.     *)
WindowSize(bufsz) ==
  IF bufsz = 0 \/ bufsz > MaxWinSz THEN MaxWinSz ELSE bufsz

(* What recv_addba_req sets up before it calls the driver; ba_head is only *)
(* reset once the buffer is allocated.                                     *)
SetupAgreement(ssn, bufsz, inactivity, head) ==
  /\ running
  /\ ba_state = "INIT"
  /\ stale_gap' = Abandoned(stale_gap, ba.gap_to)
  /\ stale_to' = Abandoned(stale_to, ba_to)
  /\ stale_gap' <= MaxStale /\ stale_to' <= MaxStale
  /\ ba_timeout' = inactivity
  /\ ba_ni' = TRUE
  /\ ba' = SetWinEnd([Fresh(ba) EXCEPT
                !.buf = EmptyBuf, !.head = head, !.winstart = ssn,
                !.winsize = WindowSize(bufsz), !.gapwait = 0,
                !.gap_to = TimeoutSet])
  /\ UNCHANGED <<running, pbac, panic>>

(* The buffer cannot be allocated: the request is refused, and the state   *)
(* is left as it is, REQUESTED.                                            *)
AddbaReqNoMemory(ssn, bufsz, inactivity) ==
  /\ SetupAgreement(ssn, bufsz, inactivity, ba.head)
  /\ ba_state' = "REQUESTED"
  /\ ba_buf' = FALSE
  /\ ba_to' = TimeoutSet
  /\ NewRequest(driver.asked)

(* ic_ampdu_rx_start returns EBUSY: the driver answers later.              *)
AddbaReqDriverBusy(ssn, bufsz, inactivity) ==
  /\ SetupAgreement(ssn, bufsz, inactivity, 0)
  /\ ba_state' = "REQUESTED"
  /\ ba_buf' = TRUE
  /\ ba_to' = TimeoutSet
  /\ NewRequest(TRUE)

(* It fails at once: addba_req_refuse.                                     *)
AddbaReqDriverFails(ssn, bufsz, inactivity) ==
  /\ SetupAgreement(ssn, bufsz, inactivity, 0)
  /\ ba_state' = "INIT"
  /\ ba_buf' = FALSE
  /\ ba_to' = TimeoutSet
  /\ NewRequest(driver.asked)

(* It returns 0, or there is none: addba_req_accept.                       *)
AddbaReqDriverReady(ssn, bufsz, inactivity) ==
  /\ ~driver.asked
  /\ SetupAgreement(ssn, bufsz, inactivity, 0)
  /\ ba_state' = "AGREED"
  /\ ba_buf' = TRUE
  /\ ba_to' = IF inactivity THEN TimeoutAdd ELSE TimeoutSet
  /\ NewRequest(FALSE)

RecvAddbaReq(ssn, bufsz, inactivity) ==
  \/ AddbaReqNoMemory(ssn, bufsz, inactivity)
  \/ AddbaReqDriverBusy(ssn, bufsz, inactivity)
  \/ AddbaReqDriverFails(ssn, bufsz, inactivity)
  \/ AddbaReqDriverReady(ssn, bufsz, inactivity)

(* A step that dereferences ba_buf, and what it makes of the record b.     *)
UseBuffer(b, after) ==
  /\ ba' = IF ba_buf THEN after ELSE b
  /\ panic' = ~ba_buf

LeaveBuffer(b) ==
  /\ ba' = b
  /\ UNCHANGED panic

(* A starting sequence number beyond WinStartB moves the window there.     *)
MoveWindowTo(ssn) ==
  IF SeqLt(ba.winstart, ssn)
  THEN UseBuffer(Fresh(ba), ba_move_window(Fresh(ba), ssn))
  ELSE LeaveBuffer(Fresh(ba))

(* An ADDBA Request within an agreement restarts the inactivity timer, and *)
(* for a protected agreement is treated like a BlockAckReq.                *)
RecvAddbaReqAgreed(ssn) ==
  /\ running
  /\ ba_state = "AGREED"
  /\ ba_to' = Armed(ba_to)
  /\ IF pbac THEN MoveWindowTo(ssn) ELSE LeaveBuffer(Fresh(ba))
  /\ UNCHANGED <<running, ba_state, ba_buf, ba_timeout, ba_ni,
                 pbac, driver, stale_gap, stale_to>>

(* The driver's answer, to whatever the record is by then: addba_req_accept *)
(* or addba_req_refuse.                                                    *)
AddbaReqAccept ==
  /\ driver.asked
  /\ driver' = [asked |-> FALSE, late |-> driver.late \/ (ba_state = "INIT" /\ ba_buf)]
  /\ ba_state' = "AGREED"
  /\ ba_to' = Armed(ba_to)
  /\ ba' = Fresh(ba)
  /\ UNCHANGED <<running, ba_buf, ba_timeout, ba_ni, pbac, stale_gap,
                 stale_to, panic>>

AddbaReqRefuse ==
  /\ driver.asked
  /\ driver' = [driver EXCEPT !.asked = FALSE]
  /\ ba_state' = "INIT"
  /\ ba_buf' = FALSE
  /\ ba' = [Fresh(ba) EXCEPT !.buf = EmptyBuf]
  /\ UNCHANGED <<running, ba_to, ba_timeout, ba_ni, pbac, stale_gap,
                 stale_to, panic>>

(* A QoS data MPDU of this TID, in RUN, with an agreement that is at least *)
(* requested: input_ba.  Only an MPDU that is discarded for its sequence   *)
(* number leaves ba_buf alone.                                             *)
InputBa(m) ==
  /\ running
  /\ ba_state \in {"REQUESTED", "AGREED"}
  /\ ba_to' = Armed(ba_to)
  /\ \/ /\ BelowWindow(ba, m)
        /\ LeaveBuffer(Fresh(ba))
     \/ /\ ~BelowWindow(ba, m)
        /\ MissesWindow(ba, m)
        /\ LeaveBuffer(CountMiss(Fresh(ba), m))
     \/ /\ ~BelowWindow(ba, m)
        /\ ~MissesWindow(ba, m)
        /\ UseBuffer(Fresh(ba), Accept(Fresh(ba), m))
  /\ UNCHANGED <<running, ba_state, ba_buf, ba_timeout, ba_ni,
                 pbac, driver, stale_gap, stale_to>>

(* A BlockAckReq for this TID: bar_tid.                                    *)
RecvBar(ssn) ==
  /\ IF ba_state = "AGREED" /\ ~pbac
     THEN ba_to' = Armed(ba_to) /\ MoveWindowTo(ssn)
     ELSE UNCHANGED ba_to /\ LeaveBuffer(Fresh(ba))
  /\ UNCHANGED <<running, ba_state, ba_buf, ba_timeout, ba_ni,
                 pbac, driver, stale_gap, stale_to>>

(* A DELBA frame from the originator.                                      *)
RecvDelba ==
  /\ ba_state = "AGREED"
  /\ DropAgreement(0)
  /\ UNCHANGED <<running, ba_timeout, ba_ni, pbac, driver, stale_gap, stale_to,
                 panic>>

(* delba_request for the recipient side: gapwait keeps its value.          *)
DelbaRequest ==
  /\ DropAgreement(ba.gapwait)
  /\ UNCHANGED <<running, ba_timeout, ba_ni, pbac, driver>>

(* The inactivity timeout, of the current timer or of an abandoned one.    *)
RxBaTimeout ==
  /\ \/ /\ ba_to.armed
        /\ UNCHANGED stale_to
     \/ /\ stale_to > 0
        /\ stale_to' = stale_to - 1
  /\ IF ba_ni
     THEN DelbaRequest /\ UNCHANGED panic
     ELSE /\ panic' = TRUE
          /\ ba' = Fresh(ba)
          /\ UNCHANGED <<running, ba_state, ba_buf, ba_to, ba_timeout,
                         ba_ni, pbac, driver>>
  /\ UNCHANGED stale_gap

(* input_ba_gap_timeout, with the gap timer in the state it has when the   *)
(* callback starts.                                                        *)
GapTimeoutRuns(to) ==
  /\ \E skipped \in {input_ba_gap_skip([Fresh(ba) EXCEPT !.gap_to = to])} :
       LET flushed == IF GapLength(ba) = 0 THEN skipped
                      ELSE input_ba_flush(skipped)
       IN IF ba_ni
          THEN UseBuffer(skipped,
                         [flushed EXCEPT !.gap_to = TimeoutRan(@)])
          ELSE ba' = Fresh(ba) /\ panic' = TRUE
  /\ UNCHANGED <<running, ba_state, ba_buf, ba_to, ba_timeout, ba_ni,
                 pbac, driver, stale_to>>

GapTimeout ==
  /\ ba.gap_to.armed
  /\ GapTimeoutRuns(TimeoutExpired(ba.gap_to))
  /\ UNCHANGED stale_gap

StaleGapTimeout ==
  /\ stale_gap > 0
  /\ stale_gap' = stale_gap - 1
  /\ GapTimeoutRuns(ba.gap_to)

(* The interface leaves RUN, or stays in it after a new authentication:    *)
(* ba_del.                                                                 *)
BaDel(stay) ==
  /\ running
  /\ running' = stay
  /\ IF ba_state = "INIT"
     THEN ba' = Fresh(ba) /\ UNCHANGED <<ba_state, ba_to>>
     ELSE /\ ba_state' = "INIT"
          /\ ba_to' = TimeoutDelIfPending(ba_to)
          /\ ba' = [Fresh(ba) EXCEPT !.gap_to = TimeoutDelIfPending(@)]
  /\ DriverGoesOn
  /\ UNCHANGED <<ba_buf, ba_timeout, ba_ni, pbac, stale_gap, stale_to,
                 panic>>

EnterRun ==
  /\ ~running
  /\ running' = TRUE
  /\ ba' = Fresh(ba)
  /\ UNCHANGED <<ba_state, ba_buf, ba_to, ba_timeout, ba_ni,
                 pbac, driver, stale_gap, stale_to, panic>>

(* A node record is allocated zeroed.                                      *)
ZeroBa ==
  [buf |-> EmptyBuf, head |-> 0, winstart |-> 0, winend |-> 0,
   winsize |-> 0, gapwait |-> 0, winmiss |-> 0, missedsn |-> 0,
   gap_to |-> TimeoutSet, up |-> <<>>]

(* The interface joins a BSS, when it is not in RUN or to roam: the record *)
(* of the peer is overwritten with that of a node of the scan cache, after *)
(* ba_del.  The timers it still has armed expire on the new record, and    *)
(* the driver may answer it.                                               *)
JoinBss ==
  LET Left(to) == IF ba_state = "INIT" THEN to ELSE TimeoutDelIfPending(to)
  IN /\ stale_gap' = Abandoned(stale_gap, Left(ba.gap_to))
     /\ stale_to' = Abandoned(stale_to, Left(ba_to))
  /\ stale_gap' <= MaxStale /\ stale_to' <= MaxStale
  /\ ba_state' = "INIT"
  /\ ba' = ZeroBa
  /\ ba_buf' = FALSE
  /\ ba_to' = TimeoutSet
  /\ ba_timeout' = FALSE
  /\ ba_ni' = FALSE
  /\ pbac' \in PbacModes
  /\ DriverGoesOn
  /\ UNCHANGED <<running, panic>>

-----------------------------------------------------------------------------
(* The specification.                                                      *)

Init ==
  /\ running = TRUE
  /\ ba_state = "INIT"
  /\ ba = ZeroBa
  /\ ba_buf = FALSE
  /\ ba_to = TimeoutSet
  /\ ba_timeout = FALSE
  /\ ba_ni = FALSE
  /\ pbac \in PbacModes
  /\ driver = [asked |-> FALSE, late |-> FALSE]
  /\ stale_gap = 0 /\ stale_to = 0
  /\ panic = FALSE

(* What the peer sends.                                                    *)
Peer ==
  \/ AddbaReqDenied
  \/ \E ssn \in SeqNo, bufsz \in BufSizes, inactivity \in BOOLEAN :
       RecvAddbaReq(ssn, bufsz, inactivity)
  \/ \E ssn \in SeqNo : RecvAddbaReqAgreed(ssn) \/ RecvBar(ssn)
  \/ \E m \in Mpdu : InputBa(m)
  \/ RecvDelba

Driver == AddbaReqAccept \/ AddbaReqRefuse

Timers == RxBaTimeout \/ GapTimeout \/ StaleGapTimeout

Interface == EnterRun \/ JoinBss \/ \E stay \in BOOLEAN : BaDel(stay)

(* After a panic there is no next step.                                    *)
Next == ~panic /\ (Peer \/ Driver \/ Timers \/ Interface)

Spec == Init /\ [][Next]_vars

(* A gap timer that stays armed expires: weak fairness of GapTimeout, with *)
(* its enabling condition written out.                                     *)
Fairness ==
  []<>(panic \/ ~ba.gap_to.armed) \/ []<><<GapTimeout>>_vars

FairSpec == Spec /\ Fairness

(* The station stays associated: no state change of the interface.         *)
AssociatedNext == ~panic /\ (Peer \/ Driver \/ Timers)

AssociatedSpec == Init /\ [][AssociatedNext]_vars

-----------------------------------------------------------------------------
(* Invariants.                                                             *)

Mpdus(b) == {b.buf[s] : s \in Occupied(b)}

(* Types of the record and of the state around it.                         *)
BaType ==
  [buf : [Index -> Mpdu \cup {NoMpdu}], head : Index,
   winstart : SeqNo, winend : SeqNo, winsize : 0 .. MaxWinSz,
   gapwait : Int, winmiss : 0 .. MaxWinMiss, missedsn : SeqNo,
   gap_to : TimeoutType, up : Seq(Mpdu \cup {NoMpdu})]

(* Every variable has its type.                                            *)
TypeOK ==
  /\ running \in BOOLEAN
  /\ ba_state \in {"INIT", "REQUESTED", "AGREED"}
  /\ ba \in BaType
  /\ ba_buf \in BOOLEAN
  /\ ba_to \in TimeoutType
  /\ ba_timeout \in BOOLEAN
  /\ ba_ni \in BOOLEAN /\ pbac \in BOOLEAN
  /\ driver \in DriverType
  /\ stale_gap \in Nat /\ stale_to \in Nat
  /\ panic \in BOOLEAN

(* winend always is winstart + winsize - 1.                                *)
WinEndFollows == ba_buf => ba.winsize > 0 /\ ba.winend = WinEnd(ba)

(* An MPDU sits in the slot of its sequence number: the slot i places      *)
(* after the head holds sequence number winstart + i or nothing, and the   *)
(* slots outside the window are empty (ba_head and ba_winstart are moved   *)
(* by different statements, modulo different numbers).                     *)
SlotsMatchWindow ==
  ba_buf => \A i \in Index :
    ~Empty(ba, i) =>
      /\ i < ba.winsize
      /\ Sn(ba.buf[Slot(ba, i)]) = (ba.winstart + i) % SeqMod

(* No MPDU whose turn has come waits: the head slot is empty between       *)
(* handlers.                                                               *)
HeadIsGap == ba_buf => Empty(ba, 0)

(* The counter ba_gapwait is the number of MPDUs in the buffer.            *)
GapwaitCounts == ba_buf => ba.gapwait = Cardinality(Occupied(ba))

(* No MPDU is stranded: while some wait behind a gap, the gap timer is     *)
(* armed.  Only the answer to a request that a state change had ended can  *)
(* leave it unarmed, on what is still in the buffer.                       *)
NoStrandedMpdu ==
  ba_buf /\ ba_state # "INIT" /\ ba.gapwait > 0
    => ba.gap_to.armed \/ driver.late

-----------------------------------------------------------------------------
(* Action properties.                                                      *)

(* The sequence numbers handed up by one step, relative to the window      *)
(* start before it.                                                        *)
Offset(m) == (Sn(m) - ba.winstart) % SeqMod

(* MPDUs are handed up in sequence number order, and only once the window  *)
(* has moved past them: none of them can be accepted again.  A window of   *)
(* one is left out: there input_ba takes the MPDU half the sequence space  *)
(* away for the next one, and moves the window past that one only.         *)
HandedUpInOrder ==
  [][ba.winsize > 1 =>
       \A i \in DOMAIN ba'.up : ba'.up[i] # NoMpdu =>
         /\ Offset(ba'.up[i]) < (ba'.winstart - ba.winstart) % SeqMod
         /\ \A j \in 1 .. i - 1 : ba'.up[j] # NoMpdu =>
              Offset(ba'.up[j]) < Offset(ba'.up[i])]_vars

(* While an agreement lasts, an MPDU leaves the buffer only by being       *)
(* handed up.                                                              *)
BufferedIsHandedUp ==
  [][ba_state = "AGREED" /\ ba_state' = "AGREED" =>
       Mpdus(ba) \subseteq Mpdus(ba') \cup Range(ba'.up)]_vars

(* Liveness: while an agreement holds MPDUs back, its window keeps moving,  *)
(* whatever the peer sends.  As every MPDU in the buffer is inside the     *)
(* window (SlotsMatchWindow), none of them stays there for ever.  Again an *)
(* agreement made by the answer to a request that had ended is left out.   *)
NoMpduLingers ==
  []<>(ba_state # "AGREED" \/ Mpdus(ba) = {} \/ panic \/ driver.late)
    \/ []<><<ba'.winstart # ba.winstart>>_vars

-----------------------------------------------------------------------------
(* What a comment of the code says, and the code does not do.              *)

(* addba_req_accept "start[s] Block Ack inactivity timer" once the buffer  *)
(* is set up, so an agreement always has its reorder buffer, as long as    *)
(* the station stays associated (AssociatedSpec).                          *)
AgreementHasBuffer == ba_state = "AGREED" => ba_buf
=============================================================================

-------------------------- MODULE IwmBaTask_proofs --------------------------
(***************************************************************************)
(* The state of IwmBaTask keeps its types, the driver never counts more    *)
(* sessions than it allows, and a start bit keeps its task: for any number *)
(* of TIDs and sessions, and any transitions of the link where none is     *)
(* stated.                                                                 *)
(***************************************************************************)
EXTENDS IwmBaTask, TLAPS


-----------------------------------------------------------------------------
(* The queue of systq.                                                     *)

(* task_add keeps every task at most once in the queue.                    *)
LEMMA WithType ==
  ASSUME NEW q, IsTaskQueue(q), NEW t \in Task
  PROVE  IsTaskQueue(With(q, t))
<1>1. CASE Queued(q, t)
  BY <1>1 DEF With
<1>2. CASE ~Queued(q, t)
  <2>1. With(q, t) = Append(q, t) /\ q \in Seq(Task)
    BY <1>2 DEF With, IsTaskQueue
  <2>2. \A i \in 1 .. Len(q) : q[i] # t
    BY <1>2, <2>1 DEF Queued
  <2>3. \A i, j \in 1 .. Len(q) : q[i] = q[j] => i = j
    BY <2>1 DEF IsTaskQueue
  <2> QED BY <2>1, <2>2, <2>3 DEF IsTaskQueue
<1> QED BY <1>1, <1>2

(* task_del leaves the other task.                                         *)
LEMMA WithoutType ==
  ASSUME NEW q, IsTaskQueue(q), NEW t \in Task
  PROVE  IsTaskQueue(Without(q, t))
<1>1. CASE Len(q) = 2 /\ Queued(q, t)
  <2> DEFINE x == IF q[1] = t THEN q[2] ELSE q[1]
  <2>1. Without(q, t) = <<x>>
    BY <1>1 DEF Without
  <2>4. x \in Task
    BY <1>1 DEF IsTaskQueue
  <2> HIDE DEF x
  <2>2. <<x>> \in Seq(Task) /\ Len(<<x>>) = 1
    BY <2>4
  <2>3. DOMAIN <<x>> = {1}
    BY <2>2
  <2> QED BY <2>1, <2>2, <2>3 DEF IsTaskQueue
<1>2. CASE ~(Len(q) = 2 /\ Queued(q, t)) /\ q = <<t>>
  BY <1>2 DEF Without, IsTaskQueue
<1>3. CASE ~(Len(q) = 2 /\ Queued(q, t)) /\ q # <<t>>
  BY <1>3 DEF Without
<1> QED BY <1>1, <1>2, <1>3

(* The thread of the queue takes its first task.                           *)
LEMMA TailType ==
  ASSUME NEW q, IsTaskQueue(q), q # <<>>
  PROVE  IsTaskQueue(Tail(q))
BY DEF IsTaskQueue

(* The driver's ways to queue a task.                                      *)
LEMMA AddType ==
  ASSUME NEW q, IsTaskQueue(q), NEW t \in Task
  PROVE  IsTaskQueue(AddTask(q, t)) /\ IsTaskQueue(AddInitTask(q))
BY WithType DEF AddTask, AddInitTask, Task

-----------------------------------------------------------------------------
(* The inductive invariant: the types, by the part of the state, where     *)
(* iwm_ba_task is over a TID while it works on one, iwm_run_stop over an   *)
(* entry while it stops one, and a session is free while one is started.   *)

MlmeType == /\ ic_state \in LinkState /\ ns_nstate \in LinkState
            /\ ba_state \in [Tid -> {"INIT", "REQUESTED", "AGREED"}]

SessionType == /\ start_tidmask \subseteq Tid /\ stop_tidmask \subseteq Tid
               /\ fw \subseteq Tid
               /\ sc_rxba_data \in [Baid -> Tid \cup {NoTid}]

CountInv == /\ sc_rx_ba_sessions \in Nat
            /\ sc_rx_ba_sessions <= MaxSessions
            /\ bt.pc \in {"starting", "started"} => sc_rx_ba_sessions < MaxSessions

DeviceType == /\ mqrx \in BOOLEAN /\ nswq \in BOOLEAN
              /\ sta_active \in BOOLEAN /\ shutdown \in BOOLEAN
              /\ running \in BOOLEAN

BtPc == {"idle", "loop", "starting", "stopping", "started", "stopped", "clear_start",
         "clear_stop"}

BtRecord == [pc : BtPc, tid : 0 .. MaxTidCount, done : BOOLEAN, stale : BOOLEAN,
             err : BOOLEAN]

BtInv == /\ bt \in BtRecord
         /\ bt.pc \notin {"idle", "loop"} => bt.tid < MaxTidCount

NtRecord == [pc : {"idle", "run_stop", "run_stop_cmd", "deauth", "enter", "protect"},
             nstate : LinkState, baid : 0 .. NumBaid, tid : Tid \cup {NoTid},
             stale : BOOLEAN]

NtInv == /\ nt \in NtRecord
         /\ nt.pc = "run_stop_cmd" => nt.baid < NumBaid

ResetType == reset \in [Resetter -> {"no", "stop", "init", "wait", "expired"}]

IInv == /\ MlmeType /\ SessionType /\ CountInv /\ DeviceType /\ BtInv /\ NtInv
        /\ IsTaskQueue(systq) /\ ResetType

(* What the invariant is for.                                              *)
LEMMA IInvImplies == IInv => TypeOK /\ SessionsBounded
BY DEF IInv, MlmeType, SessionType, CountInv, DeviceType, BtPc, BtRecord, BtInv, NtRecord,
       NtInv, ResetType, TypeOK, SessionsBounded

(* The records of the two tasks: each field that changes keeps its type.   *)
LEMMA BtFields ==
  ASSUME NEW b \in BtRecord
  PROVE  /\ \A pc \in BtPc :
              [b EXCEPT !.pc = pc] \in BtRecord /\ [b EXCEPT !.pc = pc].pc = pc
              /\ [b EXCEPT !.pc = pc].tid = b.tid
         /\ \A tid \in 0 .. MaxTidCount :
              [b EXCEPT !.tid = tid] \in BtRecord /\ [b EXCEPT !.tid = tid].pc = b.pc
              /\ [b EXCEPT !.tid = tid].tid = tid
         /\ \A done, stale, err \in BOOLEAN :
              LET c == [b EXCEPT !.done = done, !.stale = stale, !.err = err]
              IN  c \in BtRecord /\ c.pc = b.pc /\ c.tid = b.tid
BY DEF BtPc, BtRecord

(* A new generation marks the task as stale while it sleeps.               *)
LEMMA StaleType ==
  ASSUME BtInv, bt' = [bt EXCEPT !.stale = bt.pc \in {"starting", "stopping"}]
  PROVE  BtInv'
<1>1. CASE bt.pc \in {"starting", "stopping"}
  <2>1. bt' = [bt EXCEPT !.stale = TRUE]
    BY <1>1, Zenon
  <2> QED BY <2>1 DEF BtInv, BtPc, BtRecord
<1>2. CASE ~(bt.pc \in {"starting", "stopping"})
  <2>0. (bt.pc \in {"starting", "stopping"}) = FALSE
    BY <1>2
  <2>1. bt' = [bt EXCEPT !.stale = FALSE]
    BY <2>0, Zenon
  <2> QED BY <2>1 DEF BtInv, BtPc, BtRecord
<1> QED BY <1>1, <1>2

(* iwm_newstate_task at rest.                                              *)
LEMMA NtIdleType == NtIdle \in NtRecord
BY SessionsAssumption DEF NtIdle, NtRecord, LinkState

(* The part of iwm_newstate_task the switch goes on with.                  *)
LEMMA LeaveType ==
  \A o, n : LeavePc(o, n) \in {"run_stop", "deauth", "enter"}
BY DEF LeavePc

-----------------------------------------------------------------------------
(* Every step keeps the invariant.  A part that is not named in a case is  *)
(* not changed by it.                                                      *)
LEMMA IInvStep ==
  ASSUME IInv, [Next]_vars
  PROVE  IInv'
<1> USE TidAssumption, SessionsAssumption, ResetterAssumption
<1>0. /\ MlmeType /\ SessionType /\ CountInv /\ DeviceType /\ BtInv /\ NtInv
      /\ IsTaskQueue(systq) /\ ResetType
  BY DEF IInv
<1>1. ASSUME NEW t \in Tid, RecvAddbaReq(t) PROVE IInv'
  <2>1. MlmeType'
    BY <1>0, <1>1 DEF RecvAddbaReq, RxStart, MlmeType, LinkState, Tid, mlme,
           session, device
  <2>2. SessionType'
    BY <1>0, <1>1 DEF RecvAddbaReq, RxStart, SessionType, Tid, Baid, NoTid,
           mlme, session, device
  <2>3. IsTaskQueue(systq)'
    BY <1>0, <1>1, AddType DEF RecvAddbaReq, RxStart, Task, mlme, session,
           device
  <2> QED BY <1>0, <1>1, <2>1, <2>2, <2>3 DEF RecvAddbaReq, IInv, CountInv,
         DeviceType, BtInv, NtInv, ResetType, mlme, session, device
<1>2. ASSUME NEW t \in Tid, EndAgreement(t) PROVE IInv'
  <2>1. MlmeType'
    BY <1>0, <1>2 DEF EndAgreement, RxStop, Refuse, MlmeType, LinkState, Tid,
           mlme, session, device
  <2>2. SessionType'
    BY <1>0, <1>2 DEF EndAgreement, RxStop, Refuse, SessionType, Tid, Baid,
           NoTid, mlme, session, device
  <2>3. IsTaskQueue(systq)'
    BY <1>0, <1>2, AddType DEF EndAgreement, RxStop, Refuse, Task, mlme,
           session, device
  <2> QED BY <1>0, <1>2, <2>1, <2>2, <2>3 DEF EndAgreement, IInv, CountInv,
         DeviceType, BtInv, NtInv, ResetType, mlme, session, device
<1>3. ASSUME NEW n \in LinkState, Transition(n) PROVE IInv'
  <2>1. MlmeType'
    BY <1>0, <1>3 DEF Transition, NewState, MlmeType, LinkState, Tid, mlme,
           session, device
  <2>2. DeviceType'
    BY <1>0, <1>3 DEF Transition, NewState, DeviceType, mlme, session, device
  <2>3. IsTaskQueue(systq)'
    BY <1>0, <1>3, WithoutType DEF Transition, NewState, Task, mlme, session,
           device
  <2> QED BY <1>0, <1>3, <2>1, <2>2, <2>3 DEF Transition, IInv, SessionType,
         CountInv, BtInv, NtInv, ResetType, mlme, session, device
<1>4. ASSUME FirmwareAnswers PROVE IInv'
  <2>1. SessionType'
    BY <1>0, <1>4 DEF FirmwareAnswers, SessionType, Tid, Baid, NoTid, BtInv,
           BtPc, BtRecord, mlme, session, device
  <2>2. CountInv'
    BY <1>0, <1>4 DEF FirmwareAnswers, CountInv, BtInv, BtPc, BtRecord, mlme,
           session, device
  <2>3. BtInv'
    BY <1>0, <1>4 DEF FirmwareAnswers, BtInv, BtPc, BtRecord, mlme, session, device
  <2> QED BY <1>0, <1>4, <2>1, <2>2, <2>3 DEF FirmwareAnswers, IInv,
         MlmeType, DeviceType, NtInv, IsTaskQueue, ResetType, mlme, session, device
<1>5. ASSUME BaTaskStart PROVE IInv'
  <2>1. CountInv'
    BY <1>0, <1>5 DEF BaTaskStart, Idle, CountInv, mlme, session, device
  <2>2. BtInv'
    <3>1. Idle \in BtRecord
      BY DEF Idle, BtPc, BtRecord
    <3>2. [Idle EXCEPT !.pc = "loop"] \in BtRecord /\ [Idle EXCEPT !.pc = "loop"].pc = "loop"
      BY <3>1, BtFields DEF BtPc
    <3>3. Idle.pc = "idle"
      BY DEF Idle
    <3>4. bt' = Idle \/ bt' = [Idle EXCEPT !.pc = "loop"]
      BY <1>5 DEF BaTaskStart
    <3> QED BY <3>1, <3>2, <3>3, <3>4 DEF BtInv
  <2>3. IsTaskQueue(systq)'
    BY <1>0, <1>5, TailType DEF BaTaskStart, Idle, Task, mlme, session, device
  <2> QED BY <1>0, <1>5, <2>1, <2>2, <2>3 DEF BaTaskStart, IInv, MlmeType,
         SessionType, DeviceType, NtInv, ResetType, mlme, session, device
<1>6. ASSUME BaTaskLoop PROVE IInv'
  <2>1. MlmeType'
    BY <1>0, <1>6 DEF BaTaskLoop, Refuse, AllSessionsInUse, MlmeType,
           LinkState, Tid, mlme, session, device
  <2>2. CountInv'
    <3>1. CASE bt' = [bt EXCEPT !.pc = "clear_start"]
      BY <1>0, <1>6, <3>1 DEF BaTaskLoop, AllSessionsInUse, CountInv, BtInv,
             BtPc, BtRecord, session
    <3>2. CASE /\ bt' = [bt EXCEPT !.pc = "starting", !.done = FALSE, !.stale = FALSE]
                /\ ~AllSessionsInUse
      BY <1>0, <1>6, <3>2 DEF BaTaskLoop, AllSessionsInUse, CountInv, BtInv,
             BtPc, BtRecord, session
    <3>3. CASE bt' = [bt EXCEPT !.pc = "stopping", !.done = FALSE, !.stale = FALSE]
      BY <1>0, <1>6, <3>3 DEF BaTaskLoop, AllSessionsInUse, CountInv, BtInv,
             BtPc, BtRecord, session
    <3>4. CASE bt' = [bt EXCEPT !.tid = @ + 1]
      BY <1>0, <1>6, <3>4 DEF BaTaskLoop, AllSessionsInUse, CountInv, BtInv,
             BtPc, BtRecord, session
    <3> QED BY <1>6, <3>1, <3>2, <3>3, <3>4 DEF BaTaskLoop
  <2>3. BtInv'
    <3>1. CASE bt' = [bt EXCEPT !.pc = "clear_start"]
      BY <1>0, <1>6, <3>1 DEF BaTaskLoop, BtInv, BtPc, BtRecord
    <3>2. CASE /\ bt' = [bt EXCEPT !.pc = "starting", !.done = FALSE, !.stale = FALSE]
                /\ ~AllSessionsInUse
      BY <1>0, <1>6, <3>2 DEF BaTaskLoop, BtInv, BtPc, BtRecord
    <3>3. CASE bt' = [bt EXCEPT !.pc = "stopping", !.done = FALSE, !.stale = FALSE]
      BY <1>0, <1>6, <3>3 DEF BaTaskLoop, BtInv, BtPc, BtRecord
    <3>4. CASE bt' = [bt EXCEPT !.tid = @ + 1]
      BY <1>0, <1>6, <3>4 DEF BaTaskLoop, BtInv, BtPc, BtRecord
    <3> QED BY <1>6, <3>1, <3>2, <3>3, <3>4 DEF BaTaskLoop
  <2> QED BY <1>0, <1>6, <2>1, <2>2, <2>3 DEF BaTaskLoop, IInv, SessionType,
         DeviceType, NtInv, IsTaskQueue, ResetType, mlme, session, device
<1>7. ASSUME BaTaskDone PROVE IInv'
  <2>1. CountInv'
    BY <1>0, <1>7 DEF BaTaskDone, Idle, CountInv, mlme, session, device
  <2>2. BtInv'
    BY <1>0, <1>7 DEF BaTaskDone, Idle, BtInv, BtPc, BtRecord, mlme, session, device
  <2> QED BY <1>0, <1>7, <2>1, <2>2 DEF BaTaskDone, IInv, MlmeType,
         SessionType, DeviceType, NtInv, IsTaskQueue, ResetType, mlme, session, device
<1>7a. ASSUME CommandEnds PROVE IInv'
  <2>1. PICK e \in BOOLEAN :
          bt' = [bt EXCEPT !.pc = IF @ = "starting" THEN "started" ELSE "stopped",
                           !.done = FALSE, !.stale = FALSE, !.err = e]
    BY <1>7a DEF CommandEnds
  <2>2. CountInv'
    BY <1>0, <1>7a, <2>1 DEF CommandEnds, CountInv, BtInv, BtPc, BtRecord, mlme, session
  <2>3. BtInv'
    BY <1>0, <1>7a, <2>1 DEF CommandEnds, BtInv, BtPc, BtRecord
  <2> QED BY <1>0, <1>7a, <2>2, <2>3 DEF CommandEnds, IInv, MlmeType, SessionType,
         DeviceType, NtInv, IsTaskQueue, ResetType, mlme, session, device
<1>8. ASSUME CommandFails PROVE IInv'
  <2>1. MlmeType'
    BY <1>0, <1>8 DEF CommandFails, Refuse, MlmeType, LinkState, Tid, mlme,
           session, device
  <2>2. CountInv'
    BY <1>0, <1>8 DEF CommandFails, Refuse, CountInv, mlme, session, device
  <2>3. BtInv'
    BY <1>0, <1>8 DEF CommandFails, Refuse, BtInv, BtPc, BtRecord, mlme, session,
           device
  <2> QED BY <1>0, <1>8, <2>1, <2>2, <2>3 DEF CommandFails, IInv,
         SessionType, DeviceType, NtInv, IsTaskQueue, ResetType, mlme, session, device
<1>9. ASSUME SessionStarted PROVE IInv'
  <2>1. MlmeType'
    BY <1>0, <1>9 DEF SessionStarted, Accept, MlmeType, LinkState, Tid, mlme,
           session, device
  <2>2. SessionType'
    BY <1>0, <1>9 DEF SessionStarted, Accept, SessionType, Tid, Baid, NoTid,
           BtInv, BtPc, BtRecord, mlme, session, device
  <2>3. CountInv'
    BY <1>0, <1>9 DEF SessionStarted, Accept, CountInv, BtInv, BtPc, BtRecord,
           mlme, session, device
  <2>4. BtInv'
    BY <1>0, <1>9 DEF SessionStarted, Accept, BtInv, BtPc, BtRecord, mlme, session,
           device
  <2> QED BY <1>0, <1>9, <2>1, <2>2, <2>3, <2>4 DEF SessionStarted, IInv,
         DeviceType, NtInv, IsTaskQueue, ResetType, mlme, session, device
<1>10. ASSUME SessionUnusable PROVE IInv'
  <2>1. MlmeType'
    BY <1>0, <1>10 DEF SessionUnusable, Refuse, MlmeType, LinkState, Tid,
           mlme, session, device
  <2>2. CountInv'
    BY <1>0, <1>10 DEF SessionUnusable, Refuse, CountInv, mlme, session, device
  <2>3. BtInv'
    BY <1>0, <1>10 DEF SessionUnusable, Refuse, BtInv, BtPc, BtRecord, mlme,
           session, device
  <2> QED BY <1>0, <1>10, <2>1, <2>2, <2>3 DEF SessionUnusable, IInv,
         SessionType, DeviceType, NtInv, IsTaskQueue, ResetType, mlme, session, device
<1>11. ASSUME SessionStopped PROVE IInv'
  <2>1. SessionType'
    BY <1>0, <1>11 DEF SessionStopped, ClearRxba, SessionType, Tid, Baid,
           NoTid, mlme, session, device
  <2>2. CountInv'
    BY <1>0, <1>11 DEF SessionStopped, ClearRxba, CountInv, mlme, session,
           device
  <2>3. BtInv'
    BY <1>0, <1>11 DEF SessionStopped, ClearRxba, BtInv, BtPc, BtRecord, mlme,
           session, device
  <2> QED BY <1>0, <1>11, <2>1, <2>2, <2>3 DEF SessionStopped, IInv,
         MlmeType, DeviceType, NtInv, IsTaskQueue, ResetType, mlme, session, device
<1>12. ASSUME ClearBit PROVE IInv'
  <2>1. SessionType'
    BY <1>0, <1>12 DEF ClearBit, Idle, SessionType, Tid, Baid, NoTid, BtInv,
           BtPc, BtRecord, mlme, session, device
  <2>2. CountInv'
    <3>1. CASE bt' = Idle
      BY <1>0, <1>12, <3>1 DEF ClearBit, Idle, CountInv, BtInv, BtPc, BtRecord
    <3>2. CASE bt' = [bt EXCEPT !.pc = "loop", !.tid = @ + 1]
      BY <1>0, <1>12, <3>2 DEF ClearBit, Idle, CountInv, BtInv, BtPc, BtRecord
    <3> QED BY <1>12, <3>1, <3>2 DEF ClearBit
  <2>3. BtInv'
    <3>1. CASE bt' = Idle
      BY <1>0, <1>12, <3>1 DEF Idle, BtInv, BtPc, BtRecord
    <3>2. CASE bt' = [bt EXCEPT !.pc = "loop", !.tid = bt.tid + 1]
      <4>1. bt.tid + 1 \in 0 .. MaxTidCount
        BY <1>0, <1>12 DEF ClearBit, BtInv, BtPc, BtRecord
      <4> QED BY <1>0, <3>2, <4>1 DEF BtInv, BtPc, BtRecord
    <3> QED BY <1>12, <3>1, <3>2 DEF ClearBit
  <2>4. IsTaskQueue(systq)'
    BY <1>0, <1>12, AddType DEF ClearBit, Idle, Task, mlme, session, device
  <2> QED BY <1>0, <1>12, <2>1, <2>2, <2>3, <2>4 DEF ClearBit, IInv,
         MlmeType, DeviceType, NtInv, ResetType, mlme, session, device
<1>13. ASSUME NewstateStart PROVE IInv'
  <2>1. DeviceType'
    BY <1>0, <1>13 DEF NewstateStart, NtIdle, DeviceType, mlme, session, device
  <2>2. NtInv'
    <3>1. NtIdle \in NtRecord /\ NtIdle.pc = "idle"
      BY NtIdleType DEF NtIdle
    <3> DEFINE pc == LeavePc(ic_state, ns_nstate)
    <3>2. nt' = NtIdle \/ nt' = [NtIdle EXCEPT !.pc = pc, !.nstate = ns_nstate]
      BY <1>13 DEF NewstateStart
    <3>3. pc \in {"run_stop", "deauth", "enter"} /\ ns_nstate \in LinkState
      BY <1>0, LeaveType DEF MlmeType
    <3> HIDE DEF pc
    <3>4. CASE nt' = NtIdle
      BY <3>1, <3>4 DEF NtInv
    <3>5. CASE nt' = [NtIdle EXCEPT !.pc = pc, !.nstate = ns_nstate]
      BY <3>1, <3>3, <3>5 DEF NtInv, NtRecord
    <3> QED BY <3>2, <3>4, <3>5
  <2> QED BY <1>0, <1>13, <2>1, <2>2 DEF NewstateStart, IInv, MlmeType,
         SessionType, CountInv, BtInv, IsTaskQueue, ResetType, mlme, session, device
<1>14. ASSUME NewstateFails PROVE IInv'
  <2>1. NtInv'
    BY <1>0, <1>14 DEF NewstateFails, GiveUp, NtIdle, NtInv, NtRecord,
           LinkState, Tid, NoTid, Baid, mlme, session, device
  <2>2. IsTaskQueue(systq)'
    BY <1>0, <1>14, AddType DEF NewstateFails, GiveUp, NtIdle, Task, mlme,
           session, device
  <2> QED BY <1>0, <1>14, <2>1, <2>2 DEF NewstateFails, IInv, MlmeType,
         SessionType, CountInv, DeviceType, BtInv, ResetType, mlme, session, device
<1>15. ASSUME RunStopSend PROVE IInv'
  <2>1. NtInv'
    <3>1. PICK b \in Baid : nt' = [nt EXCEPT !.pc = "run_stop_cmd", !.baid = b,
                                              !.tid = sc_rxba_data[b]]
      BY <1>15 DEF RunStopSend
    <3>2. sc_rxba_data[b] \in Tid \cup {NoTid}
      BY <1>0 DEF SessionType
    <3>3. b \in 0 .. NumBaid /\ b < NumBaid
      BY DEF Baid
    <3> QED BY <1>0, <3>1, <3>2, <3>3 DEF NtInv, NtRecord
  <2> QED BY <1>0, <1>15, <2>1 DEF RunStopSend, IInv, MlmeType, SessionType,
         CountInv, DeviceType, BtInv, IsTaskQueue, ResetType, mlme, session, device
<1>16. ASSUME RunStopAnswer PROVE IInv'
  <2>1. SessionType'
    BY <1>0, <1>16 DEF RunStopAnswer, ClearRxba, SessionType, Tid, Baid,
           NoTid, mlme, session, device
  <2>2. CountInv'
    BY <1>0, <1>16 DEF RunStopAnswer, ClearRxba, CountInv, mlme, session, device
  <2>3. NtInv'
    <3>1. nt' = [nt EXCEPT !.pc = "run_stop", !.baid = nt.baid + 1, !.tid = NoTid]
      BY <1>16 DEF RunStopAnswer
    <3>2. nt.baid + 1 \in 0 .. NumBaid
      BY <1>0, <1>16 DEF RunStopAnswer, NtInv, NtRecord
    <3> QED BY <1>0, <3>1, <3>2 DEF NtInv, NtRecord
  <2> QED BY <1>0, <1>16, <2>1, <2>2, <2>3 DEF RunStopAnswer, IInv, MlmeType,
         DeviceType, BtInv, IsTaskQueue, ResetType, mlme, session, device
<1>17. ASSUME RunStopDone PROVE IInv'
  <2>1. MlmeType'
    BY <1>0, <1>17 DEF RunStopDone, BaDel, GiveUp, NtIdle, MlmeType,
           LinkState, Tid, mlme, session, device
  <2>2. NtInv'
    <3>1. NtIdle \in NtRecord /\ NtIdle.pc = "idle"
      BY NtIdleType DEF NtIdle
    <3> DEFINE pc == LeavePc("ASSOC", nt.nstate)
    <3>2. nt' = NtIdle \/ nt' = [nt EXCEPT !.pc = pc]
      BY <1>17 DEF RunStopDone, GiveUp
    <3>3. pc \in {"run_stop", "deauth", "enter"}
      BY LeaveType
    <3> HIDE DEF pc
    <3>4. CASE nt' = NtIdle
      BY <3>1, <3>4 DEF NtInv
    <3>5. CASE nt' = [nt EXCEPT !.pc = pc]
      BY <1>0, <3>3, <3>5 DEF NtInv, NtRecord
    <3> QED BY <3>2, <3>4, <3>5
  <2>3. IsTaskQueue(systq)'
    BY <1>0, <1>17, AddType DEF RunStopDone, BaDel, GiveUp, NtIdle, Task,
           mlme, session, device
  <2> QED BY <1>0, <1>17, <2>1, <2>2, <2>3 DEF RunStopDone, IInv,
         SessionType, CountInv, DeviceType, BtInv, ResetType, mlme, session, device
<1>18. ASSUME Deauth PROVE IInv'
  <2>1. SessionType'
    BY <1>0, <1>18 DEF Deauth, GiveUp, NtIdle, SessionType, Tid, Baid, NoTid,
           mlme, session, device
  <2>2. CountInv'
    BY <1>0, <1>18 DEF Deauth, GiveUp, NtIdle, CountInv, mlme, session, device
  <2>3. DeviceType'
    BY <1>0, <1>18 DEF Deauth, GiveUp, NtIdle, DeviceType, mlme, session, device
  <2>4. NtInv'
    <3>1. NtIdle \in NtRecord /\ NtIdle.pc = "idle"
      BY NtIdleType DEF NtIdle
    <3>2. nt' = NtIdle \/ nt' = [nt EXCEPT !.pc = "enter"]
      BY <1>18 DEF Deauth, GiveUp
    <3>3. CASE nt' = NtIdle
      BY <3>1, <3>3 DEF NtInv
    <3>4. CASE nt' = [nt EXCEPT !.pc = "enter"]
      BY <1>0, <3>4 DEF NtInv, NtRecord
    <3> QED BY <3>2, <3>3, <3>4
  <2>5. IsTaskQueue(systq)'
    BY <1>0, <1>18, AddType DEF Deauth, GiveUp, NtIdle, Task, mlme, session,
           device
  <2> QED BY <1>0, <1>18, <2>1, <2>2, <2>3, <2>4, <2>5 DEF Deauth, IInv,
         MlmeType, BtInv, ResetType, mlme, session, device
<1>19. ASSUME EnterScan PROVE IInv'
  <2>1. MlmeType'
    BY <1>0, <1>19 DEF EnterScan, BaDel, NtIdle, MlmeType, LinkState, Tid,
           mlme, session, device
  <2>2. NtInv'
    BY <1>0, <1>19 DEF EnterScan, BaDel, NtIdle, NtInv, NtRecord, LinkState,
           Tid, NoTid, Baid, mlme, session, device
  <2> QED BY <1>0, <1>19, <2>1, <2>2 DEF EnterScan, IInv, SessionType,
         CountInv, DeviceType, BtInv, IsTaskQueue, ResetType, mlme, session, device
<1>20. ASSUME AddStation PROVE IInv'
  <2>1. DeviceType'
    BY <1>0, <1>20 DEF AddStation, DeviceType, mlme, session, device
  <2>2. NtInv'
    BY <1>0, <1>20 DEF AddStation, NtInv, NtRecord, LinkState, Tid, NoTid,
           Baid, mlme, session, device
  <2> QED BY <1>0, <1>20, <2>1, <2>2 DEF AddStation, IInv, MlmeType,
         SessionType, CountInv, BtInv, IsTaskQueue, ResetType, mlme, session, device
<1>21. ASSUME EnterState PROVE IInv'
  <2>1. MlmeType'
    BY <1>0, <1>21 DEF EnterState, BaDel, NtIdle, MlmeType, LinkState, Tid,
           NtInv, NtRecord, mlme, session, device
  <2>2. NtInv'
    BY <1>0, <1>21 DEF EnterState, BaDel, NtIdle, NtInv, NtRecord, LinkState,
           Tid, NoTid, Baid, mlme, session, device
  <2> QED BY <1>0, <1>21, <2>1, <2>2 DEF EnterState, IInv, SessionType,
         CountInv, DeviceType, BtInv, IsTaskQueue, ResetType, mlme, session, device
<1>22. ASSUME NEW p \in Resetter, StopEnd(p) PROVE IInv'
  <2>1. MlmeType'
    BY <1>0, <1>22 DEF StopEnd, NewGeneration, BaDel, MlmeType, LinkState,
           Tid, mlme, session, device
  <2>2. SessionType'
    BY <1>0, <1>22 DEF StopEnd, NewGeneration, BaDel, SessionType, Tid, Baid,
           NoTid, mlme, session, device
  <2>3. CountInv'
    BY <1>0, <1>22 DEF StopEnd, NewGeneration, BaDel, CountInv, mlme,
           session, device
  <2>4. DeviceType'
    BY <1>0, <1>22 DEF StopEnd, NewGeneration, BaDel, DeviceType, mlme,
           session, device
  <2>5. BtInv'
    <3>1. bt' = [bt EXCEPT !.stale = bt.pc \in {"starting", "stopping"}]
      BY <1>22 DEF StopEnd, NewGeneration
    <3> QED BY <1>0, <3>1, StaleType
  <2>6. NtInv'
    BY <1>0, <1>22 DEF StopEnd, NewGeneration, BaDel, NtInv, NtRecord,
           LinkState, Tid, NoTid, Baid, mlme, session, device
  <2>7. ResetType'
    BY <1>0, <1>22 DEF StopEnd, NewGeneration, BaDel, ResetType, mlme,
           session, device
  <2> QED BY <1>0, <1>22, <2>1, <2>2, <2>3, <2>4, <2>5, <2>6,
         <2>7 DEF StopEnd, IInv, IsTaskQueue, mlme, session, device
<1>23. ASSUME NEW p \in Resetter, InitFails(p) PROVE IInv'
  <2>1. SessionType'
    BY <1>0, <1>23 DEF InitFails, NewGeneration, SessionType, Tid, Baid,
           NoTid, mlme, session, device
  <2>2. CountInv'
    BY <1>0, <1>23 DEF InitFails, NewGeneration, CountInv, mlme, session, device
  <2>3. BtInv'
    <3>1. bt' = [bt EXCEPT !.stale = bt.pc \in {"starting", "stopping"}]
      BY <1>23 DEF InitFails, NewGeneration
    <3> QED BY <1>0, <3>1, StaleType
  <2>4. NtInv'
    BY <1>0, <1>23 DEF InitFails, NewGeneration, NtInv, NtRecord, LinkState,
           Tid, NoTid, Baid, mlme, session, device
  <2>5. ResetType'
    BY <1>0, <1>23 DEF InitFails, NewGeneration, ResetType, mlme, session,
           device
  <2> QED BY <1>0, <1>23, <2>1, <2>2, <2>3, <2>4, <2>5 DEF InitFails, IInv,
         MlmeType, DeviceType, IsTaskQueue, mlme, session, device
<1>24. ASSUME NEW p \in Resetter, InitBegin(p) PROVE IInv'
  <2>1. MlmeType'
    BY <1>0, <1>24 DEF InitBegin, NewGeneration, NewState, MlmeType,
           LinkState, Tid, mlme, session, device
  <2>2. SessionType'
    BY <1>0, <1>24 DEF InitBegin, NewGeneration, NewState, SessionType, Tid,
           Baid, NoTid, mlme, session, device
  <2>3. CountInv'
    BY <1>0, <1>24 DEF InitBegin, NewGeneration, NewState, CountInv, mlme,
           session, device
  <2>4. DeviceType'
    BY <1>0, <1>24 DEF InitBegin, NewGeneration, NewState, DeviceType, mlme,
           session, device
  <2>5. BtInv'
    <3>1. bt' = [bt EXCEPT !.stale = bt.pc \in {"starting", "stopping"}]
      BY <1>24 DEF InitBegin, NewGeneration
    <3> QED BY <1>0, <3>1, StaleType
  <2>6. NtInv'
    BY <1>0, <1>24 DEF InitBegin, NewGeneration, NewState, NtInv, NtRecord,
           LinkState, Tid, NoTid, Baid, mlme, session, device
  <2>7. IsTaskQueue(systq)'
    BY <1>0, <1>24, WithoutType DEF InitBegin, NewGeneration, NewState, Task,
           mlme, session, device
  <2>8. ResetType'
    BY <1>0, <1>24 DEF InitBegin, NewGeneration, NewState, ResetType, mlme,
           session, device
  <2> QED BY <1>0, <1>24, <2>1, <2>2, <2>3, <2>4, <2>5, <2>6, <2>7,
         <2>8 DEF InitBegin, IInv, mlme, session, device
<1>25. ASSUME NEW p \in Resetter, InitEnd(p) PROVE IInv'
  <2>1. ResetType'
    BY <1>0, <1>25 DEF InitEnd, ResetType, mlme, session, device
  <2> QED BY <1>0, <1>25, <2>1 DEF InitEnd, IInv, MlmeType, SessionType,
         CountInv, DeviceType, BtInv, NtInv, IsTaskQueue, mlme, session, device
<1>26. ASSUME NEW p \in Resetter, StopBegin(p) PROVE IInv'
  <2>1. DeviceType'
    BY <1>0, <1>26 DEF StopBegin, DeviceType, mlme, session, device
  <2>2. IsTaskQueue(systq)'
    BY <1>0, <1>26, WithoutType DEF StopBegin, Task, mlme, session, device
  <2>3. ResetType'
    BY <1>0, <1>26 DEF StopBegin, ResetType, mlme, session, device
  <2> QED BY <1>0, <1>26, <2>1, <2>2, <2>3 DEF StopBegin, IInv, MlmeType,
         SessionType, CountInv, BtInv, NtInv, mlme, session, device
<1>27. ASSUME InitTask PROVE IInv'
  <2>1. CASE running
    BY <1>26, <1>27, <2>1 DEF InitTask
  <2>2. CASE ~running
    <3>1. IsTaskQueue(systq)'
      BY <1>0, <1>27, <2>2, TailType DEF InitTask
    <3>2. ResetType'
      BY <1>0, <1>27, <2>2 DEF InitTask, ResetType
    <3> QED BY <1>0, <1>27, <2>2, <3>1, <3>2 DEF InitTask, IInv, MlmeType,
           SessionType, CountInv, DeviceType, BtInv, NtInv, mlme, session, device
  <2> QED BY <2>1, <2>2
<1>28. ASSUME DeviceError PROVE IInv'
  <2>1. IsTaskQueue(systq)'
    BY <1>0, <1>28, AddType, WithType DEF DeviceError, Task
  <2> QED BY <1>0, <1>28, <2>1 DEF DeviceError, IInv, MlmeType, SessionType,
         CountInv, DeviceType, BtInv, NtInv, ResetType, mlme, session, device
<1>29. ASSUME Ioctl PROVE IInv'
  <2>1. CASE running /\ StopBegin("ioctl")
    BY <1>26, <1>29, <2>1 DEF Ioctl
  <2>2. CASE ~(running /\ StopBegin("ioctl"))
    <3>1. ResetType'
      BY <1>0, <1>29, <2>2 DEF Ioctl, ResetType
    <3> QED BY <1>0, <1>29, <2>2, <3>1 DEF Ioctl, IInv, MlmeType,
           SessionType, CountInv, DeviceType, BtInv, NtInv, IsTaskQueue, mlme, session, device
  <2> QED BY <2>1, <2>2
<1>30. CASE UNCHANGED vars
  BY <1>0, <1>30 DEF vars, mlme, session, device, IInv, MlmeType,
         SessionType, CountInv, DeviceType, BtInv, NtInv, IsTaskQueue, ResetType
<1>31. ASSUME NEW p \in Resetter, Reset(p) PROVE IInv'
  BY <1>31, <1>22, <1>23, <1>24, <1>25, <1>26 DEF Reset, InitTimeout
<1>32. ASSUME BaTask PROVE IInv'
  BY <1>32, <1>5, <1>6, <1>7, <1>8, <1>9, <1>10, <1>11, <1>12, <1>7a DEF BaTask
<1>33. ASSUME NewstateTask PROVE IInv'
  BY <1>33, <1>13, <1>14, <1>15, <1>16, <1>17, <1>18, <1>19, <1>20,
         <1>21 DEF NewstateTask
<1> QED
  BY <1>1, <1>2, <1>3, <1>4, <1>27, <1>28, <1>29, <1>30, <1>31, <1>32,
         <1>33 DEF Next

-----------------------------------------------------------------------------
(* The start of the driver.                                                *)
LEMMA IInvInit == Init => IInv
<1> SUFFICES ASSUME Init PROVE IInv
  OBVIOUS
<1> USE TidAssumption, SessionsAssumption, ResetterAssumption, ModeAssumption
<1>1. MlmeType /\ SessionType
  BY DEF Init, MlmeType, SessionType, LinkState
<1>2. BtInv /\ CountInv
  BY DEF Init, BtInv, BtPc, BtRecord, CountInv, Idle
<1>3. NtInv
  BY NtIdleType DEF Init, NtInv, NtIdle
<1>4. DeviceType
  BY DEF Init, DeviceType
<1>5. IsTaskQueue(systq) /\ ResetType
  BY DEF Init, IsTaskQueue, ResetType
<1> QED
  BY <1>1, <1>2, <1>3, <1>4, <1>5 DEF IInv

(* The invariant holds in every state the driver reaches.                  *)
THEOREM InvariantCorrect == Spec => []IInv
BY IInvInit, IInvStep, PTL DEF Spec

(* Every variable keeps its type.                                          *)
THEOREM TypeCorrect == Spec => []TypeOK
BY InvariantCorrect, IInvImplies, PTL

(* The driver never counts more than MaxSessions sessions, though the test *)
(* and the count are a sleep in a command apart, and resets, deauth and    *)
(* iwm_run_stop change the count in between.                               *)
THEOREM SessionsBoundedCorrect == Spec => []SessionsBounded
BY InvariantCorrect, IInvImplies, PTL

-----------------------------------------------------------------------------
(* A start bit keeps its task.                                             *)

(* task_add removes nothing, and leaves the task in the queue.             *)
LEMMA QueueKeeps ==
  ASSUME NEW q, IsTaskQueue(q), NEW t \in Task
  PROVE  /\ Queued(q, "ba") => Queued(With(q, t), "ba") /\ Queued(AddTask(q, t), "ba")
                               /\ Queued(AddInitTask(q), "ba")
         /\ Queued(With(q, t), t)
<1>1. q \in Seq(Task)
  BY DEF IsTaskQueue
<1>2. ASSUME NEW u \in Task
      PROVE  Queued(With(q, u), u) /\ (Queued(q, "ba") => Queued(With(q, u), "ba"))
  <2>1. CASE Queued(q, u)
    BY <2>1 DEF With
  <2>2. CASE ~Queued(q, u)
    <3>1. With(q, u) = Append(q, u)
      BY <2>2 DEF With
    <3>2. Append(q, u)[Len(q) + 1] = u /\ Len(q) + 1 \in DOMAIN Append(q, u)
      BY <1>1
    <3>3. \A i \in DOMAIN q : i \in DOMAIN Append(q, u) /\ Append(q, u)[i] = q[i]
      BY <1>1
    <3> QED BY <3>1, <3>2, <3>3 DEF Queued
  <2> QED BY <2>1, <2>2
<1> QED BY <1>2 DEF AddTask, AddInitTask, Task

(* The thread of the queue takes init_task and leaves ba_task.             *)
LEMMA TailKeeps ==
  ASSUME NEW q, IsTaskQueue(q), q # <<>>, Head(q) = "init", Queued(q, "ba")
  PROVE  Queued(Tail(q), "ba")
<1>1. q \in Seq(Task) /\ Len(q) > 0
  BY DEF IsTaskQueue
<1>2. PICK i \in DOMAIN q : q[i] = "ba"
  BY DEF Queued
<1>3. i \in 1 .. Len(q) /\ i # 1
  BY <1>1, <1>2
<1>4. i - 1 \in DOMAIN Tail(q) /\ Tail(q)[i - 1] = "ba"
  BY <1>1, <1>2, <1>3
<1> QED BY <1>4 DEF Queued
(* What leaves the queued iwm_ba_task and its place in the loop alone.     *)
LEMMA CoveredKeeps ==
  ASSUME NEW t, Covered(t), Queued(systq, "ba") => Queued(systq', "ba"),
         bt'.pc = bt.pc, bt'.tid = bt.tid
  PROVE  Covered(t)'
BY DEF Covered

(* The thread of systq: where iwm_ba_task goes on from one TID to the next.*)
LEMMA BaTaskCovers ==
  ASSUME IInv, BaTask, NEW t \in 0 .. MaxTidCount - 1, t \in start_tidmask',
         t \in start_tidmask, Covered(t), ~shutdown', ~bt.err, ic_state = "RUN"
  PROVE  Covered(t)'
<1> DEFINE Ahead == bt.pc # "idle" /\ bt.tid < t
           Here == bt.pc \in {"loop", "starting", "started", "clear_start"} /\ bt.tid = t
<1>1. Queued(systq, "ba") \/ Ahead \/ Here
  BY DEF Covered
<1>2. /\ bt \in BtRecord /\ bt.tid \in Nat /\ t \in Nat /\ t < MaxTidCount
      /\ MaxTidCount \in Nat
  BY TidAssumption DEF IInv, BtInv, BtPc, BtRecord
<1>3. CASE BaTaskStart
  <2>1. ~shutdown
    BY <1>3 DEF BaTaskStart, device
  <2>2. bt' = [Idle EXCEPT !.pc = "loop"]
    BY <1>3, <2>1 DEF BaTaskStart
  <2>3. bt'.pc = "loop" /\ bt'.tid = 0
    BY <2>2 DEF Idle
  <2> QED BY <1>2, <2>3 DEF Covered
<1>4. CASE BaTaskLoop
  <2>1. UNCHANGED systq /\ bt.pc = "loop"
    BY <1>4 DEF BaTaskLoop
  <2>2. CASE Queued(systq, "ba")
    BY <2>1, <2>2 DEF Covered
  <2>3. CASE Ahead \/ Here
    <3>1. CASE bt.tid \in start_tidmask
      <4>1. bt'.tid = bt.tid /\ bt'.pc \in {"clear_start", "starting"}
        BY <1>2, <1>4, <3>1 DEF BaTaskLoop, BtPc, BtRecord
      <4> QED BY <2>3, <4>1 DEF Covered
    <3>2. CASE bt.tid \notin start_tidmask
      <4>1. bt.tid < t
        BY <2>3, <3>2
      <4>2. \/ bt'.tid = bt.tid /\ bt'.pc = "stopping"
            \/ bt'.tid = bt.tid + 1 /\ bt'.pc = "loop"
        BY <1>2, <1>4, <3>2 DEF BaTaskLoop, BtPc, BtRecord
      <4> QED BY <1>2, <4>1, <4>2 DEF Covered
    <3> QED BY <3>1, <3>2
  <2> QED BY <1>1, <2>2, <2>3
<1>5. CASE BaTaskDone
  <2>1. UNCHANGED systq /\ bt.pc = "loop" /\ bt.tid = MaxTidCount
    BY <1>5 DEF BaTaskDone, device
  <2>2. ~Ahead /\ ~Here
    BY <1>2, <2>1
  <2> QED BY <1>1, <2>1, <2>2 DEF Covered
<1>6. CASE CommandEnds \/ CommandFails \/ SessionStarted \/ SessionUnusable \/ SessionStopped
  <2>1. /\ UNCHANGED systq /\ bt'.tid = bt.tid
        /\ \/ bt.pc \in {"starting", "started"} /\ bt'.pc \in {"started", "clear_start"}
           \/ bt.pc \in {"stopping", "stopped"} /\ bt'.pc \in {"stopped", "clear_stop"}
    <3>1. CASE CommandFails
      BY <1>2, <3>1 DEF CommandFails, BtPc, BtRecord
    <3>2. CASE SessionStarted
      BY <1>2, <3>2 DEF SessionStarted, BtPc, BtRecord
    <3>3. CASE SessionUnusable
      BY <1>2, <3>3 DEF SessionUnusable, BtPc, BtRecord
    <3>4. CASE SessionStopped
      BY <1>2, <3>4 DEF SessionStopped, BtPc, BtRecord
    <3>5. CASE CommandEnds
      BY <1>2, <3>5 DEF CommandEnds, BtPc, BtRecord
    <3> QED BY <1>6, <3>1, <3>2, <3>3, <3>4, <3>5
  <2> QED BY <1>1, <2>1 DEF Covered
<1>7. CASE ClearBit
  <2>1. UNCHANGED systq /\ bt'.pc = "loop" /\ bt'.tid = bt.tid + 1
    BY <1>2, <1>7 DEF ClearBit, BtPc, BtRecord
  <2>2. CASE Queued(systq, "ba")
    BY <2>1, <2>2 DEF Covered
  <2>3. CASE Ahead \/ Here
    <3>1. bt.tid # t
      BY <1>7, <2>3 DEF ClearBit
    <3> QED BY <1>2, <2>1, <2>3, <3>1 DEF Covered
  <2> QED BY <1>1, <2>2, <2>3
<1> QED BY <1>3, <1>4, <1>5, <1>6, <1>7 DEF BaTask

(* The steps of the other threads.                                         *)
LEMMA StartBitsStep ==
  ASSUME IInv, [Next]_vars, <<"RUN", "RUN">> \notin Moves,
         NEW t \in 0 .. MaxTidCount - 1,
         t \in start_tidmask', t \in start_tidmask => Covered(t),
         ~shutdown', ns_nstate' = "RUN", ~bt.err, ic_state = "RUN"
  PROVE  Covered(t)'
<1>1. IsTaskQueue(systq) /\ bt \in BtRecord
  BY DEF IInv, BtInv
<1>2. CASE \E u \in Tid : RecvAddbaReq(u) \/ EndAgreement(u)
  <2>1. PICK u \in Tid : RecvAddbaReq(u) \/ EndAgreement(u)
    BY <1>2
  <2>2. UNCHANGED <<shutdown, bt>>
    BY <2>1 DEF RecvAddbaReq, EndAgreement, device
  <2>3. /\ \/ systq' = systq \/ systq' = AddTask(systq, "ba")
        /\ t \notin start_tidmask => systq' = AddTask(systq, "ba")
    BY <2>1 DEF RecvAddbaReq, EndAgreement, RxStart, RxStop
  <2>4. AddTask(systq, "ba") = With(systq, "ba")
    BY <2>2 DEF AddTask
  <2>5. Queued(With(systq, "ba"), "ba")
    BY <1>1, QueueKeeps DEF Task
  <2>6. CASE systq' = systq /\ t \in start_tidmask
    BY <2>2, <2>6, CoveredKeeps
  <2>7. CASE systq' = AddTask(systq, "ba")
    BY <2>4, <2>5, <2>7 DEF Covered
  <2> QED BY <2>3, <2>6, <2>7
<1>3. CASE ~(\E u \in Tid : RecvAddbaReq(u) \/ EndAgreement(u))
  <2>0. start_tidmask' \subseteq start_tidmask
    <3>1. CASE BaTask
      BY <3>1 DEF BaTask, BaTaskStart, BaTaskLoop, BaTaskDone, CommandEnds,
         CommandFails, SessionStarted, SessionUnusable, SessionStopped, ClearBit, session
    <3>2. CASE NewstateTask
      BY <3>2 DEF NewstateTask, NewstateStart, NewstateFails, RunStopSend, RunStopAnswer,
         RunStopDone, Deauth, EnterScan, AddStation, EnterState, session
    <3>3. CASE \E p \in Resetter : Reset(p)
      BY <3>3 DEF Reset, StopEnd, InitFails, InitBegin, InitEnd, InitTimeout, StopBegin, session
    <3>4. CASE \/ \E n \in LinkState : Transition(n)
               \/ FirmwareAnswers \/ InitTask \/ DeviceError \/ Ioctl \/ UNCHANGED vars
      BY <3>4 DEF Transition, FirmwareAnswers, InitTask, DeviceError, Ioctl,
         StopBegin, session, vars
    <3> QED BY <1>3, <3>1, <3>2, <3>3, <3>4 DEF Next
  <2>1. t \in start_tidmask /\ Covered(t)
    BY <2>0
  <2>2. CASE BaTask
    BY <2>1, <2>2, BaTaskCovers
  <2>3. CASE NewstateTask
    <3>1. UNCHANGED bt /\ (systq' = systq \/ systq' = AddInitTask(systq))
      BY <2>3 DEF NewstateTask, NewstateStart, NewstateFails, RunStopSend, RunStopAnswer,
         RunStopDone, Deauth, EnterScan, AddStation, EnterState, GiveUp
    <3> QED BY <1>1, <2>1, <3>1, QueueKeeps, CoveredKeeps DEF Task
  <2>4. CASE \E n \in LinkState : Transition(n)
    <3>1. PICK n \in LinkState : Transition(n)
      BY <2>4
    <3>2. n # "RUN" /\ NewState(n) /\ UNCHANGED bt
      BY <3>1 DEF Transition
    <3>3. UNCHANGED systq
      BY <3>2 DEF NewState
    <3> QED BY <2>1, <3>2, <3>3, CoveredKeeps
  <2>5. CASE FirmwareAnswers
    <3>1. UNCHANGED systq /\ bt'.pc = bt.pc /\ bt'.tid = bt.tid
      BY <1>1, <2>5 DEF FirmwareAnswers, BtPc, BtRecord
    <3> QED BY <2>1, <3>1, CoveredKeeps
  <2>6. CASE \E p \in Resetter : Reset(p)
    <3>1. PICK p \in Resetter : Reset(p)
      BY <2>6
    <3>2. ~StopEnd(p) /\ ~InitTimeout(p)
      BY <2>1 DEF StopEnd, InitTimeout, StopBegin
    <3>3. ~InitBegin(p)
      BY DEF InitBegin, NewState
    <3>4. CASE InitFails(p)
      <4>1. UNCHANGED systq /\ bt' = [bt EXCEPT !.stale = bt.pc \in {"starting", "stopping"}]
        BY <3>4 DEF InitFails, NewGeneration
      <4>2. bt'.pc = bt.pc /\ bt'.tid = bt.tid
        BY <1>1, <4>1 DEF BtPc, BtRecord
      <4> QED BY <2>1, <4>1, <4>2, CoveredKeeps
    <3>5. CASE InitEnd(p)
      BY <2>1, <3>5, CoveredKeeps DEF InitEnd
    <3> QED BY <3>1, <3>2, <3>3, <3>4, <3>5 DEF Reset
  <2>7. CASE InitTask
    <3>1. /\ UNCHANGED bt /\ systq' = Tail(systq)
          /\ systq # <<>> /\ Head(systq) = "init"
      BY <2>7 DEF InitTask, StopBegin
    <3> QED BY <1>1, <2>1, <3>1, TailKeeps, CoveredKeeps
  <2>8. CASE DeviceError
    <3>1. UNCHANGED bt /\ (systq' = With(systq, "init") \/ systq' = AddInitTask(systq))
      BY <2>8 DEF DeviceError
    <3> QED BY <1>1, <2>1, <3>1, QueueKeeps, CoveredKeeps DEF Task
  <2>9. CASE Ioctl \/ UNCHANGED vars
    <3>1. UNCHANGED <<systq, bt>>
      BY <2>9 DEF Ioctl, StopBegin, vars
    <3> QED BY <2>1, <3>1, CoveredKeeps
  <2> QED BY <1>3, <2>2, <2>3, <2>4, <2>5, <2>6, <2>7, <2>8, <2>9 DEF Next
<1> QED BY <1>2, <1>3

(* A start bit keeps the task that serves it, however many TIDs there are, *)
(* unless a move from RUN to RUN has iwm_newstate cancel the task.         *)
THEOREM StartBitsCorrect ==
  ASSUME <<"RUN", "RUN">> \notin Moves
  PROVE  Spec => StartBitsAreCovered
<1>1. IInv /\ [Next]_vars =>
        [\A t \in 0 .. MaxTidCount - 1 :
           t \in start_tidmask' /\ (t \in start_tidmask => Covered(t))
             => Covered(t)' \/ shutdown' \/ ns_nstate' # "RUN" \/ bt.err
                \/ ic_state # "RUN"]_vars
  BY StartBitsStep
<1> QED BY <1>1, InvariantCorrect, PTL DEF Spec, StartBitsAreCovered
=============================================================================

----------------------------- MODULE IwmBaTask -----------------------------
(***************************************************************************)
(* How the iwm driver sets Rx Block Ack sessions up in the firmware        *)
(* (dev/pci/if_iwm.c).  The frame handlers of net80211 only set a bit and  *)
(* queue a task; iwm_ba_task, iwm_newstate_task and iwm_init_task do the   *)
(* work, and sleep while the firmware executes a command.  The tasks run   *)
(* on two task queues, each with a thread of its own, next to the work     *)
(* loop that runs the handlers and the threads of ioctl requests.          *)
(*                                                                         *)
(* An action is what a thread does up to the next place where another one  *)
(* can change what it has read: a sleep in a firmware command, the test of *)
(* the generation after it, one pass of the loop of iwm_ba_task, and the   *)
(* gap between the answer of the firmware and the reset of the bit.        *)
(* splnet() protects none of them: it is defined as 1, and so the          *)
(* reference counts and locks are empty.                                   *)
(***************************************************************************)
EXTENDS Integers, Sequences

CONSTANTS
  NumTid,        \* IEEE80211_NUM_TID
  MaxTidCount,   \* IWM_MAX_TID_COUNT, the TIDs the driver serves
  MaxSessions,   \* IWM_MAX_RX_BA_SESSIONS
  NumBaid,       \* number of entries of sc_rxba_data
  MqModes,       \* possible values of sc_mqrx_supported
  Moves,         \* the transitions of the link, <<from, to>>, that can occur
  AllocFails,    \* whether the allocation of a reorder buffer can fail
  Resetter       \* the threads that reset the device: "systq", and "ioctl"
                 \* when the interface is brought up and down as well

ASSUME TidAssumption == NumTid \in Nat /\ MaxTidCount \in 0 .. NumTid
ASSUME SessionsAssumption == MaxSessions \in Nat /\ NumBaid \in Nat
ASSUME ResetterAssumption == "systq" \in Resetter /\ Resetter \subseteq {"systq", "ioctl"}
ASSUME ModeAssumption == MqModes \subseteq BOOLEAN /\ AllocFails \in BOOLEAN

Tid == 0 .. NumTid - 1
Baid == 0 .. NumBaid - 1
NoTid == NumTid               \* IWM_RX_REORDER_DATA_INVALID_BAID: free entry
LinkState == {"INIT", "SCAN", "AUTH", "ASSOC", "RUN"}

ASSUME MovesAssumption ==
  Moves \subseteq (LinkState \ {"INIT"}) \X (LinkState \ {"INIT"})

VARIABLES
  ic_state,           \* the state of the link
  ba_state,           \* per TID: "INIT", "REQUESTED" or "AGREED"
  start_tidmask, stop_tidmask,
  sc_rx_ba_sessions,
  sc_rxba_data,       \* the TID an entry is used for, or NoTid
  mqrx,               \* sc_mqrx_supported
  fw,                 \* the TIDs the firmware has a session for
  sta_active,         \* IWM_FLAG_STA_ACTIVE
  shutdown,           \* IWM_FLAG_SHUTDOWN
  running,            \* IFF_RUNNING
  systq,              \* ba_task and init_task as they are queued
  nswq,               \* newstate_task is queued
  ns_nstate,          \* the state newstate_task is to enter
  bt,                 \* iwm_ba_task
  nt,                 \* iwm_newstate_task
  reset               \* per thread: where it is in iwm_stop and iwm_init

mlme == <<ic_state, ba_state>>
session == <<start_tidmask, stop_tidmask, sc_rx_ba_sessions, sc_rxba_data, fw>>
device == <<sta_active, shutdown, running>>
vars == <<mlme, session, device, mqrx, systq, nswq, ns_nstate, bt, nt, reset>>

-----------------------------------------------------------------------------
(* The task queues.                                                        *)

Task == {"ba", "init"}

IsTaskQueue(q) ==
  q \in Seq(Task) /\ \A i, j \in DOMAIN q : q[i] = q[j] => i = j

Queued(q, t) == \E i \in DOMAIN q : q[i] = t

(* Broken variant: task_add without the test of TASK_ONQUEUE.              *)
WithAgain(q, t) == Append(q, t)

(* task_add: a task that is queued is not queued again.                    *)
With(q, t) == IF Queued(q, t) THEN q ELSE Append(q, t)

(* task_del                                                                *)
Without(q, t) == IF Len(q) = 2 /\ Queued(q, t)
                 THEN <<IF q[1] = t THEN q[2] ELSE q[1]>>
                 ELSE IF q = <<t>> THEN <<>> ELSE q

(* iwm_add_task                                                            *)
AddTask(q, t) == IF shutdown THEN q ELSE With(q, t)

(* Broken variant: an error is only reported.                              *)
NoInitTask(q) == q

(* The device is reset to recover from an error.                           *)
AddInitTask(q) == IF shutdown THEN q ELSE With(q, "init")

-----------------------------------------------------------------------------
(* What net80211 tells the driver, and the driver net80211.                *)

(* ieee80211_addba_req_accept and _refuse; ieee80211_ba_del                *)
Accept(t) == ba_state' = [ba_state EXCEPT ![t] = "AGREED"]
Refuse(t) == ba_state' = [ba_state EXCEPT ![t] = "INIT"]
BaDel == ba_state' = [t \in Tid |-> "INIT"]

(* Broken variant: the limit is tested with > instead of >=.               *)
MoreThanAllSessions == sc_rx_ba_sessions > MaxSessions

AllSessionsInUse == sc_rx_ba_sessions >= MaxSessions

(* iwm_ampdu_rx_start, with what ieee80211_recv_addba_req does next.       *)
RxStart(t) ==
  \/ /\ AllSessionsInUse \/ t > MaxTidCount                        \* ENOSPC
     /\ UNCHANGED <<ba_state, start_tidmask, systq>>
  \/ /\ ~AllSessionsInUse /\ t <= MaxTidCount                      \* EBUSY
     /\ ba_state' = [ba_state EXCEPT ![t] = "REQUESTED"]
     /\ start_tidmask' = start_tidmask \cup {t}
     /\ systq' = IF t \in start_tidmask THEN systq ELSE AddTask(systq, "ba")

(* ieee80211_recv_addba_req.  The state is left REQUESTED when there is no *)
(* memory; a refused one is INIT again at the end.                         *)
RecvAddbaReq(t) ==
  /\ ic_state = "RUN"
  /\ ba_state[t] = "INIT"
  /\ \/ RxStart(t)
     \/ /\ AllocFails
        /\ ba_state' = [ba_state EXCEPT ![t] = "REQUESTED"]
        /\ UNCHANGED <<start_tidmask, systq>>
  /\ UNCHANGED <<ic_state, stop_tidmask, sc_rx_ba_sessions, sc_rxba_data, fw,
                 device, mqrx, nswq, ns_nstate, bt, nt, reset>>

(* iwm_ampdu_rx_stop                                                       *)
RxStop(t) ==
  IF t > MaxTidCount \/ t \in stop_tidmask
  THEN UNCHANGED <<stop_tidmask, systq>>
  ELSE /\ stop_tidmask' = stop_tidmask \cup {t}
       /\ systq' = AddTask(systq, "ba")

(* ieee80211_recv_delba, ieee80211_rx_ba_timeout (its timer is armed by an *)
(* MPDU received before the agreement is made, too), and on hardware that  *)
(* reorders itself iwm_rx_ba_session_expired.                              *)
EndAgreement(t) ==
  /\ \/ ba_state[t] # "INIT"
     \/ /\ ~shutdown /\ ic_state = "RUN"
        /\ \E b \in Baid : sc_rxba_data[b] = t
  /\ RxStop(t)
  /\ Refuse(t)
  /\ UNCHANGED <<ic_state, start_tidmask, sc_rx_ba_sessions, sc_rxba_data, fw,
                 device, mqrx, nswq, ns_nstate, bt, nt, reset>>

(* Broken variant: the task is not queued again while it runs.             *)
NewStateUnlessRunning(n) ==
  IF ns_nstate = n /\ n \notin {"SCAN", "AUTH"}
  THEN UNCHANGED <<ns_nstate, nswq, systq>>
  ELSE /\ ns_nstate' = n
       /\ nswq' = (nswq \/ (~shutdown /\ nt.pc = "idle"))
       /\ systq' = IF ic_state = "RUN" THEN Without(systq, "ba") ELSE systq

(* iwm_newstate                                                            *)
NewState(n) ==
  IF ns_nstate = n /\ n \notin {"SCAN", "AUTH"}
  THEN UNCHANGED <<ns_nstate, nswq, systq>>
  ELSE /\ ns_nstate' = n
       /\ nswq' = (nswq \/ ~shutdown)
       /\ systq' = IF ic_state = "RUN" THEN Without(systq, "ba") ELSE systq

(* A management frame, the end of a scan or the watchdog moves the link.   *)
Transition(n) ==
  /\ running /\ <<ic_state, n>> \in Moves
  /\ NewState(n)
  /\ UNCHANGED <<mlme, session, device, mqrx, bt, nt, reset>>

-----------------------------------------------------------------------------
(* iwm_ba_task.  done: the firmware has executed the command that the task *)
(* sleeps in; stale: sc_generation has changed since the command was sent. *)

Idle == [pc |-> "idle", tid |-> 0, done |-> FALSE, stale |-> FALSE, err |-> FALSE]

SystqIdle == bt.pc = "idle" /\ reset["systq"] = "no"

BaTaskStart ==
  /\ SystqIdle
  /\ systq # <<>> /\ Head(systq) = "ba"
  /\ systq' = Tail(systq)
  /\ bt' = IF shutdown \/ ic_state # "RUN" THEN Idle ELSE [Idle EXCEPT !.pc = "loop"]
  /\ UNCHANGED <<mlme, session, device, mqrx, nswq, ns_nstate, nt, reset>>

(* The test of the bits of one TID, and the part of iwm_sta_rx_agg before  *)
(* the command is sent.                                                    *)
BaTaskLoop ==
  /\ bt.pc = "loop"
  /\ bt.tid < MaxTidCount /\ ~shutdown
  /\ \/ /\ bt.tid \in start_tidmask /\ AllSessionsInUse
        /\ Refuse(bt.tid)
        /\ bt' = [bt EXCEPT !.pc = "clear_start"]
     \/ /\ bt.tid \in start_tidmask /\ ~AllSessionsInUse
        /\ bt' = [bt EXCEPT !.pc = "starting", !.done = FALSE, !.stale = FALSE]
        /\ UNCHANGED ba_state
     \/ /\ bt.tid \in stop_tidmask \ start_tidmask
        /\ bt' = [bt EXCEPT !.pc = "stopping", !.done = FALSE, !.stale = FALSE]
        /\ UNCHANGED ba_state
     \/ /\ bt.tid \notin stop_tidmask \cup start_tidmask
        /\ bt' = [bt EXCEPT !.tid = @ + 1]
        /\ UNCHANGED ba_state
  /\ UNCHANGED <<ic_state, session, device, mqrx, systq, nswq, ns_nstate, nt, reset>>

(* Broken variant: the loop of the task ends one TID early.                *)
BaTaskDoneEarly ==
  /\ bt.pc = "loop"
  /\ bt.tid = MaxTidCount - 1 \/ shutdown
  /\ bt' = Idle
  /\ UNCHANGED <<mlme, session, device, mqrx, systq, nswq, ns_nstate, nt, reset>>

(* All TIDs are done, or the device is being stopped.                      *)
BaTaskDone ==
  /\ bt.pc = "loop"
  /\ bt.tid = MaxTidCount \/ shutdown
  /\ bt' = Idle
  /\ UNCHANGED <<mlme, session, device, mqrx, systq, nswq, ns_nstate, nt, reset>>

(* The firmware executes the command.                                      *)
FirmwareAnswers ==
  /\ bt.pc \in {"starting", "stopping"} /\ ~bt.done /\ ~bt.stale
  /\ sta_active
  /\ bt' = [bt EXCEPT !.done = TRUE]
  /\ fw' = IF bt.pc = "starting" THEN fw \cup {bt.tid} ELSE fw \ {bt.tid}
  /\ UNCHANGED <<mlme, start_tidmask, stop_tidmask, sc_rx_ba_sessions,
                 sc_rxba_data, device, mqrx, systq, nswq, ns_nstate, nt, reset>>

CommandSucceeds == bt.done /\ ~bt.stale

(* The end of iwm_send_cmd_status.  It is an error if the firmware rejects *)
(* the command, the sleep times out (the answer may have come before the   *)
(* task slept), or the generation is not that of the command.              *)
CommandEnds ==
  /\ bt.pc \in {"starting", "stopping"}
  /\ \E e \in BOOLEAN :
       /\ e \/ CommandSucceeds
       /\ bt' = [bt EXCEPT !.pc = IF @ = "starting" THEN "started" ELSE "stopped",
                           !.done = FALSE, !.stale = FALSE, !.err = e]
  /\ UNCHANGED <<mlme, session, device, mqrx, systq, nswq, ns_nstate, nt, reset>>

(* What iwm_sta_rx_agg does with an error: the device may have been reset  *)
(* since the generation was tested, here and in the next three actions.    *)
CommandFails ==
  /\ bt.pc \in {"started", "stopped"} /\ bt.err
  /\ IF bt.pc = "started" THEN Refuse(bt.tid) ELSE UNCHANGED ba_state
  /\ bt' = [bt EXCEPT !.pc = IF @ = "started" THEN "clear_start" ELSE "clear_stop"]
  /\ UNCHANGED <<ic_state, session, device, mqrx, systq, nswq, ns_nstate, nt, reset>>

(* The part of iwm_sta_rx_agg after the command has started a session.     *)
SessionStarted ==
  /\ bt.pc = "started" /\ ~bt.err
  /\ \/ /\ ~mqrx
        /\ UNCHANGED sc_rxba_data
     \/ /\ mqrx
        /\ \E b \in Baid : /\ sc_rxba_data[b] = NoTid
                           /\ sc_rxba_data' = [sc_rxba_data EXCEPT ![b] = bt.tid]
  /\ sc_rx_ba_sessions' = sc_rx_ba_sessions + 1
  /\ Accept(bt.tid)
  /\ bt' = [bt EXCEPT !.pc = "clear_start"]
  /\ UNCHANGED <<ic_state, start_tidmask, stop_tidmask, fw, device, mqrx, systq,
                 nswq, ns_nstate, nt, reset>>

(* The firmware's BAID is invalid (an error) or in use (none).             *)
SessionUnusable ==
  /\ bt.pc = "started" /\ ~bt.err /\ mqrx
  /\ \E e \in BOOLEAN :
       /\ e \/ \E b \in Baid : sc_rxba_data[b] # NoTid
       /\ bt' = [bt EXCEPT !.pc = "clear_start", !.err = e]
  /\ Refuse(bt.tid)
  /\ UNCHANGED <<ic_state, session, device, mqrx, systq, nswq, ns_nstate, nt, reset>>

(* The first entry of sc_rxba_data for TID t is cleared.                   *)
ClearRxba(t) ==
  LET used == {b \in Baid : sc_rxba_data[b] = t}
  IN  [b \in Baid |-> IF b \in used /\ \A c \in used : b <= c
                      THEN NoTid ELSE sc_rxba_data[b]]

(* The part of iwm_sta_rx_agg after the command has stopped a session.     *)
SessionStopped ==
  /\ bt.pc = "stopped" /\ ~bt.err
  /\ sc_rxba_data' = ClearRxba(bt.tid)
  /\ sc_rx_ba_sessions' = IF sc_rx_ba_sessions > 0 THEN sc_rx_ba_sessions - 1 ELSE 0
  /\ bt' = [bt EXCEPT !.pc = "clear_stop"]
  /\ UNCHANGED <<mlme, start_tidmask, stop_tidmask, fw, device, mqrx, systq, nswq,
                 ns_nstate, nt, reset>>

(* The bit is cleared after the answer; an error ends the task.            *)
ClearBit ==
  /\ bt.pc \in {"clear_start", "clear_stop"}
  /\ IF bt.pc = "clear_start"
     THEN start_tidmask' = start_tidmask \ {bt.tid} /\ UNCHANGED stop_tidmask
     ELSE stop_tidmask' = stop_tidmask \ {bt.tid} /\ UNCHANGED start_tidmask
  /\ IF bt.err
     THEN systq' = AddInitTask(systq) /\ bt' = Idle
     ELSE bt' = [bt EXCEPT !.pc = "loop", !.tid = @ + 1] /\ UNCHANGED systq
  /\ UNCHANGED <<mlme, sc_rx_ba_sessions, sc_rxba_data, fw, device, mqrx, nswq,
                 ns_nstate, nt, reset>>

BaTask == \/ BaTaskStart \/ BaTaskLoop \/ BaTaskDone \/ CommandEnds
          \/ CommandFails \/ SessionStarted \/ SessionUnusable \/ SessionStopped \/ ClearBit

-----------------------------------------------------------------------------
(* iwm_newstate_task, on a queue of its own.                               *)

NtIdle ==
  [pc |-> "idle", nstate |-> "INIT", baid |-> 0, tid |-> NoTid, stale |-> FALSE]

Rank(s) == CASE s = "INIT" -> 0 [] s = "SCAN" -> 1 [] s = "AUTH" -> 2
             [] s = "ASSOC" -> 3 [] s = "RUN" -> 4

(* Where the task goes on in the switch over the state it leaves.          *)
LeavePc(ostate, nstate) ==
  IF Rank(nstate) > Rank(ostate) THEN "enter"
  ELSE IF ostate = "RUN" THEN "run_stop"
  ELSE IF ostate \in {"AUTH", "ASSOC"} /\ Rank(nstate) <= Rank("AUTH") THEN "deauth"
  ELSE "enter"

NewstateStart ==
  /\ nt.pc = "idle" /\ nswq
  /\ nswq' = FALSE
  /\ nt' = IF shutdown THEN NtIdle
           ELSE [NtIdle EXCEPT !.pc = LeavePc(ic_state, ns_nstate), !.nstate = ns_nstate]
  /\ UNCHANGED <<mlme, session, device, mqrx, systq, ns_nstate, bt, reset>>

(* Entering ASSOC or INIT is the only part that needs no command.  The     *)
(* commands of a part fail when the device is reset, and then the part.    *)
Commands == /\ nt.pc \notin {"idle", "protect"}
            /\ ~(nt.pc = "enter" /\ nt.nstate \in {"ASSOC", "INIT"})

CommandsWork == Commands /\ ~nt.stale

(* An error of the task resets the device.                                 *)
GiveUp == nt' = NtIdle /\ systq' = AddInitTask(systq)

(* A part fails before it has changed the state, or, where GiveUp is one   *)
(* of the outcomes of its action, in a command it sends afterwards.        *)
NewstateFails ==
  /\ Commands
  /\ GiveUp
  /\ UNCHANGED <<mlme, session, device, mqrx, nswq, ns_nstate, bt, reset>>

(* iwm_run_stop: the session of the next entry in use is stopped ...       *)
RunStopSend ==
  /\ nt.pc = "run_stop"
  /\ \E b \in Baid : /\ b >= nt.baid /\ sc_rxba_data[b] # NoTid
                     /\ \A c \in nt.baid .. b - 1 : sc_rxba_data[c] = NoTid
                     /\ nt' = [nt EXCEPT !.pc = "run_stop_cmd", !.baid = b,
                                         !.tid = sc_rxba_data[b]]
  /\ UNCHANGED <<mlme, session, device, mqrx, systq, nswq, ns_nstate, bt, reset>>

(* ... and counted down, by iwm_sta_rx_agg and again by iwm_run_stop.      *)
RunStopAnswer ==
  /\ nt.pc = "run_stop_cmd" /\ CommandsWork
  /\ sta_active
  /\ fw' = fw \ {nt.tid}
  /\ sc_rxba_data' = [ClearRxba(nt.tid) EXCEPT ![nt.baid] = NoTid]
  /\ sc_rx_ba_sessions' = IF sc_rx_ba_sessions > 1 THEN sc_rx_ba_sessions - 2 ELSE 0
  /\ nt' = [nt EXCEPT !.pc = "run_stop", !.baid = @ + 1, !.tid = NoTid]
  /\ UNCHANGED <<mlme, start_tidmask, stop_tidmask, device, mqrx, systq, nswq,
                 ns_nstate, bt, reset>>

(* The rest of iwm_run_stop, when no entry is in use any more.             *)
RunStopDone ==
  /\ nt.pc = "run_stop" /\ CommandsWork
  /\ \A b \in Baid : b >= nt.baid => sc_rxba_data[b] = NoTid
  /\ BaDel
  /\ \/ GiveUp
     \/ /\ nt' = [nt EXCEPT !.pc = LeavePc("ASSOC", nt.nstate)]
        /\ UNCHANGED systq
  /\ UNCHANGED <<ic_state, session, device, mqrx, nswq, ns_nstate, bt, reset>>

(* iwm_deauth removes the station, and with it its sessions.               *)
Deauth ==
  /\ nt.pc = "deauth" /\ CommandsWork
  /\ \/ GiveUp
     \/ /\ nt' = IF shutdown THEN NtIdle ELSE [nt EXCEPT !.pc = "enter"]
        /\ UNCHANGED systq
  /\ IF sta_active
     THEN /\ sta_active' = FALSE
          /\ sc_rx_ba_sessions' = 0
          /\ start_tidmask' = {} /\ stop_tidmask' = {} /\ fw' = {}
          /\ UNCHANGED sc_rxba_data
     ELSE UNCHANGED <<session, sta_active>>
  /\ UNCHANGED <<mlme, shutdown, running, mqrx, nswq, ns_nstate, bt, reset>>

(* iwm_scan: the state is entered without net80211.                        *)
EnterScan ==
  /\ nt.pc = "enter" /\ nt.nstate = "SCAN" /\ CommandsWork
  /\ ic_state' = "SCAN"
  /\ BaDel
  /\ nt' = NtIdle
  /\ UNCHANGED <<session, device, mqrx, systq, nswq, ns_nstate, bt, reset>>

(* iwm_auth adds the station.  Its last command, which protects the        *)
(* session, may fail: nothing tests that, nor whether the device was reset.*)
AddStation ==
  /\ nt.pc = "enter" /\ nt.nstate = "AUTH" /\ CommandsWork
  /\ sta_active' = TRUE
  /\ nt' = [nt EXCEPT !.pc = "protect"]
  /\ UNCHANGED <<mlme, session, shutdown, running, mqrx, systq, nswq, ns_nstate,
                 bt, reset>>

(* The other states are entered by ieee80211_newstate.                     *)
EnterState ==
  /\ \/ nt.pc = "protect"
     \/ nt.pc = "enter" /\ nt.nstate \in {"INIT", "ASSOC", "RUN"}
  /\ Commands => CommandsWork
  /\ IF shutdown THEN UNCHANGED mlme
     ELSE /\ ic_state' = nt.nstate
          /\ IF ic_state = "RUN" /\ nt.nstate # "RUN" THEN BaDel ELSE UNCHANGED ba_state
  /\ nt' = NtIdle
  /\ UNCHANGED <<session, device, mqrx, systq, nswq, ns_nstate, bt, reset>>

NewstateTask == \/ NewstateStart \/ NewstateFails \/ RunStopSend \/ RunStopAnswer
                \/ RunStopDone \/ Deauth \/ EnterScan \/ AddStation \/ EnterState

-----------------------------------------------------------------------------
(* iwm_stop and iwm_init, run by iwm_init_task or by an ioctl thread.      *)

(* sc_generation is incremented: it tells the tasks that sleep, and the    *)
(* other thread that waits for a scan.  Thread p goes on at next.          *)
NewGeneration(p, next) ==
  /\ bt' = [bt EXCEPT !.stale = bt.pc \in {"starting", "stopping"}]
  /\ nt' = [nt EXCEPT !.stale = nt.pc # "idle"]
  /\ reset' = [q \in Resetter |-> IF q = p THEN next
                                  ELSE IF reset[q] = "wait" THEN "expired" ELSE reset[q]]

(* iwm_stop, up to refcnt_finalize: tasks are cancelled, none is awaited.  *)
StopBegin(p) ==
  /\ shutdown' = TRUE
  /\ systq' = Without(Without(systq, "init"), "ba")
  /\ nswq' = FALSE
  /\ reset' = [reset EXCEPT ![p] = "stop"]
  /\ UNCHANGED <<mlme, session, sta_active, running, mqrx, ns_nstate, bt, nt>>

(* The rest of iwm_stop, then iwm_init unless the interface goes down.     *)
StopEnd(p) ==
  /\ reset[p] = "stop"
  /\ fw' = {}
  /\ \E next \in {"init", "no"} : NewGeneration(p, next)
  /\ running' = FALSE /\ sta_active' = FALSE /\ shutdown' = FALSE
  /\ sc_rx_ba_sessions' = 0
  /\ start_tidmask' = {} /\ stop_tidmask' = {}
  /\ ic_state' = "INIT" /\ ns_nstate' = "INIT"
  /\ IF ic_state = "INIT" THEN UNCHANGED ba_state ELSE BaDel
  /\ sc_rxba_data' = [b \in Baid |-> NoTid]
  /\ UNCHANGED <<mqrx, systq, nswq>>

(* iwm_init fails, or starts a scan and waits for it.                      *)
InitFails(p) ==
  /\ reset[p] = "init"
  /\ NewGeneration(p, "no")
  /\ fw' = {}
  /\ UNCHANGED <<mlme, start_tidmask, stop_tidmask, sc_rx_ba_sessions,
                 sc_rxba_data, device, mqrx, systq, nswq, ns_nstate>>

InitBegin(p) ==
  /\ reset[p] = "init"
  /\ running' = TRUE
  /\ NewState("SCAN")
  /\ NewGeneration(p, "wait")
  /\ fw' = {}
  /\ UNCHANGED <<mlme, start_tidmask, stop_tidmask, sc_rx_ba_sessions,
                 sc_rxba_data, sta_active, shutdown, mqrx>>

InitEnd(p) ==
  /\ \/ reset[p] = "wait" /\ ic_state = "SCAN"
     \/ reset[p] = "expired"
  /\ reset' = [reset EXCEPT ![p] = "no"]
  /\ UNCHANGED <<mlme, session, device, mqrx, systq, nswq, ns_nstate, bt, nt>>

(* No scan within a second: the device is stopped again.                   *)
InitTimeout(p) == reset[p] = "wait" /\ StopBegin(p)

Reset(p) == StopEnd(p) \/ InitFails(p) \/ InitBegin(p) \/ InitEnd(p) \/ InitTimeout(p)

(* iwm_init_task                                                           *)
InitTask ==
  /\ SystqIdle
  /\ systq # <<>> /\ Head(systq) = "init"
  /\ IF running
     THEN StopBegin("systq")
     ELSE /\ systq' = Tail(systq)
          /\ \E next \in {"init", "no"} : reset' = [reset EXCEPT !["systq"] = next]
          /\ UNCHANGED <<mlme, session, device, mqrx, nswq, ns_nstate, bt, nt>>

(* An error interrupt or the watchdog asks for a reset, and so does the    *)
(* radio switch, at any time.                                              *)
DeviceError ==
  /\ \/ running /\ systq' = AddInitTask(systq)
     \/ systq' = With(systq, "init")
  /\ UNCHANGED <<mlme, session, device, mqrx, nswq, ns_nstate, bt, nt, reset>>

(* iwm_ioctl: the interface is brought down, or up.                        *)
Ioctl ==
  /\ "ioctl" \in Resetter /\ reset["ioctl"] = "no"
  /\ \/ running /\ StopBegin("ioctl")
     \/ /\ ~running
        /\ reset' = [reset EXCEPT !["ioctl"] = "init"]
        /\ UNCHANGED <<mlme, session, device, mqrx, systq, nswq, ns_nstate, bt, nt>>

-----------------------------------------------------------------------------
Init ==
  /\ ic_state = "INIT" /\ ns_nstate = "INIT"
  /\ ba_state = [t \in Tid |-> "INIT"]
  /\ start_tidmask = {} /\ stop_tidmask = {} /\ fw = {}
  /\ sc_rx_ba_sessions = 0
  /\ sc_rxba_data = [b \in Baid |-> NoTid]
  /\ mqrx \in MqModes
  /\ sta_active = FALSE /\ shutdown = FALSE /\ running = FALSE
  /\ systq = <<>> /\ nswq = FALSE
  /\ bt = Idle /\ nt = NtIdle
  /\ reset = [p \in Resetter |-> "no"]

Next ==
  \/ \E t \in Tid : RecvAddbaReq(t) \/ EndAgreement(t)
  \/ \E n \in LinkState : Transition(n)
  \/ FirmwareAnswers \/ BaTask \/ NewstateTask
  \/ \E p \in Resetter : Reset(p)
  \/ InitTask \/ DeviceError \/ Ioctl

(* A thread that can run runs in the end; a firmware command ends, at the  *)
(* latest when its sleep of one second does.                               *)
Fairness ==
  /\ WF_vars(BaTask \/ InitTask \/ Reset("systq"))
  /\ WF_vars(NewstateTask)
  /\ WF_vars("ioctl" \in Resetter /\ Reset("ioctl"))

Spec == Init /\ [][Next]_vars /\ Fairness

-----------------------------------------------------------------------------
(* Properties.                                                             *)

(* Every field of the driver's state has the values it is used with.       *)
TypeOK ==
  /\ ic_state \in LinkState /\ ns_nstate \in LinkState
  /\ ba_state \in [Tid -> {"INIT", "REQUESTED", "AGREED"}]
  /\ start_tidmask \subseteq Tid /\ stop_tidmask \subseteq Tid /\ fw \subseteq Tid
  /\ sc_rx_ba_sessions \in Nat
  /\ sc_rxba_data \in [Baid -> Tid \cup {NoTid}]
  /\ mqrx \in BOOLEAN
  /\ sta_active \in BOOLEAN /\ shutdown \in BOOLEAN /\ running \in BOOLEAN
  /\ IsTaskQueue(systq) /\ nswq \in BOOLEAN
  /\ bt \in [pc : {"idle", "loop", "starting", "stopping", "started", "stopped",
                   "clear_start", "clear_stop"},
             tid : 0 .. MaxTidCount, done : BOOLEAN,
             stale : BOOLEAN, err : BOOLEAN]
  /\ nt \in [pc : {"idle", "run_stop", "run_stop_cmd", "deauth", "enter", "protect"},
             nstate : LinkState, baid : 0 .. NumBaid, tid : Tid \cup {NoTid},
             stale : BOOLEAN]
  /\ reset \in [Resetter -> {"no", "stop", "init", "wait", "expired"}]

(* The driver never counts more sessions than it allows, though the count  *)
(* is tested before a command is sent and changed after it was answered.   *)
SessionsBounded == sc_rx_ba_sessions <= MaxSessions

(* iwm_ba_task is queued, or has yet to test or to clear the start bit of  *)
(* t: a bit set while the session of t is being stopped needs a new task.  *)
Covered(t) ==
  \/ Queued(systq, "ba")
  \/ bt.pc # "idle" /\ bt.tid < t
  \/ bt.pc \in {"loop", "starting", "started", "clear_start"} /\ bt.tid = t

(* A start bit is only ever set with a task to handle it, and loses that   *)
(* task only to a transition of the link, a reset or a failed command.     *)
StartBitsAreCovered ==
  [][\A t \in 0 .. MaxTidCount - 1 :
       t \in start_tidmask' /\ (t \in start_tidmask => Covered(t))
         => Covered(t)' \/ shutdown' \/ ns_nstate' # "RUN" \/ bt.err
            \/ ic_state # "RUN"]_vars

(* iwm_ba_task has yet to answer a request for t: one that comes between   *)
(* the answer to another and the reset of the bit is lost with the bit.    *)
WillAnswer(t) == Covered(t) /\ ~(bt.pc = "clear_start" /\ bt.tid = t)

(* A request with its bit set and a task that has yet to answer it gets an *)
(* answer, whatever else the threads do, unless the link leaves RUN.       *)
RequestIsAnswered ==
  \A t \in 0 .. MaxTidCount - 1 :
    (ba_state[t] = "REQUESTED" /\ t \in start_tidmask /\ WillAnswer(t)
       /\ ic_state = "RUN")
      ~> (ba_state[t] # "REQUESTED" \/ ic_state # "RUN")

(* Whatever states are asked for while newstate_task sleeps, and whatever  *)
(* fails or is reset meanwhile: the link comes to the state last asked     *)
(* for, or the device goes down.                                           *)
LinkFollows ==
  \/ []<><<ns_nstate' # ns_nstate>>_vars
  \/ []<>(ic_state = ns_nstate \/ ~running)

(* "We "recover" from failure to start or stop a BA session by resetting   *)
(* the device" (if_iwm.c:3712).                                            *)
FailureIsRecovered == bt.err ~> ~running

-----------------------------------------------------------------------------
(* Properties the code does not have.                                      *)

(* "driver will accept or refuse agreement when done" (ieee80211_input.c:  *)
(* 3010): a request waits for the driver only while a task is there to do  *)
(* it.                                                                     *)
RequestHasTask ==
  \A t \in Tid :
    ba_state[t] = "REQUESTED" /\ ic_state = "RUN" /\ ns_nstate = "RUN" /\ ~shutdown
      => (t < MaxTidCount /\ Covered(t)) \/ Queued(systq, "init")

(* "Stop Tx/Rx BA sessions now. We cannot rely on the BA task"             *)
(* (if_iwm.c:9095): once iwm_run_stop has run and the station is back in   *)
(* ASSOC, with no task at work and no reset to come, no session is counted.*)
NoSessionOutsideRun ==
  /\ ic_state = "ASSOC" /\ bt.pc = "idle" /\ nt.pc = "idle"
  /\ ~Queued(systq, "init") /\ \A p \in Resetter : reset[p] = "no"
  => sc_rx_ba_sessions = 0
=============================================================================

-------------------------------- MODULE Roam --------------------------------
(***************************************************************************)
(* Scanning, the choice of an access point, and roaming from one to        *)
(* another (net80211/ieee80211_node.c, dev/pci/if_iwm.c).  A roam is       *)
(* driven by the reference count of ic_bss: the driver flushes its rings,  *)
(* a callback is installed, a deauthentication frame is sent, and the      *)
(* release of its reference runs the callback, which copies the record of  *)
(* the new access point over ic_bss.                                       *)
(*                                                                         *)
(* The handlers of net80211 call each other in one thread and are          *)
(* functions on what they read and write, the record net.  An action is    *)
(* what a thread does up to the next sleep in a command or in a wait.      *)
(* The model begins where iwm_init asks for a scan and ends where iwm_stop *)
(* stops the device.                                                       *)
(***************************************************************************)
EXTENDS Integers, FiniteSets

CONSTANTS
  Mfp,        \* IEEE80211_NODE_MFP: iwm_stop says goodbye to the access point
  Band,       \* ieee80211_try_another_bss can find another access point
  MaxFrames,  \* bound: frames in ic_mgtq and the Tx rings
  RefMod      \* 2^32, the range of the u_int ni_refcnt

ASSUME RoamAssumption ==
  /\ {Mfp, Band} \subseteq BOOLEAN
  /\ MaxFrames \in Nat /\ RefMod \in Nat /\ RefMod > 2 * MaxFrames + 2

VARIABLES
  net,     \* what the handlers of net80211 read and write, see Net
  scan,    \* IWM_FLAG_SCANNING ("scan") and IWM_FLAG_BGSCAN ("bgscan")
  task,    \* iwm_bgscan_done_task, and bgscan_unref_arg
  nt,      \* iwm_newstate_task
  reset,   \* iwm_stop, and whether init_task is queued
  txflush  \* IWM_FLAG_TXFLUSH

vars == <<net, scan, task, nt, reset, txflush>>

LinkState == {"INIT", "SCAN", "AUTH", "ASSOC", "RUN"}
Rank(s) == [INIT |-> 0, SCAN |-> 1, AUTH |-> 2, ASSOC |-> 3, RUN |-> 4][s]
Mgt == {"none", "auth", "deauth"}

(* ieee80211_node_switch_bss_arg: its access points are in ic_tree or not. *)
Arg == {"none", "found", "gone"}

Net == [link : LinkState,       \* ic_state
        bgscan : BOOLEAN,       \* IEEE80211_F_BGSCAN
        mgtonly : BOOLEAN,      \* IEEE80211_F_TX_MGMT_ONLY
        timer : BOOLEAN,        \* ic_mgt_timer is not 0
        refcnt : 0 .. RefMod - 1,           \* ic_bss: ni_refcnt
        cb : {"none", "switch", "leave"},   \* ni_unref_cb
        arg : Arg,                          \* ni_unref_arg
        mgtq : 0 .. MaxFrames,  \* ic_mgtq
        ring : 0 .. MaxFrames,  \* the Tx rings
        ns : LinkState, mgt : Mgt, queued : BOOLEAN,  \* newstate_task
        done : BOOLEAN,         \* bgscan_done_task is queued
        shutdown : BOOLEAN,     \* IWM_FLAG_SHUTDOWN
        sent : BOOLEAN,         \* deauth_sent
        panic : BOOLEAN,        \* the kernel has stopped
        copy : {"clean", "busy", "roamed"}]
            \* history: the last copy over ic_bss found it unreferenced, or
            \* not, or a roam did not although the copy before had

TypeOK ==
  /\ net \in Net
  /\ scan \subseteq {"scan", "bgscan"}
  /\ task \in [pc : {"idle", "flush", "drain"}, arg : Arg]
  /\ nt \in [pc : {"idle", "run_stop", "flush", "drain", "abort", "enter"},
             nstate : LinkState, mgt : Mgt]
  /\ reset \in [pc : {"no", "leave", "stop"}, init : BOOLEAN]
  /\ txflush \in BOOLEAN

Outstanding(x) == x.mgtq + x.ring

-----------------------------------------------------------------------------
(* The handlers: what they make of x.                                      *)

(* iwm_newstate                                                            *)
NewState(x, n, mgt) ==
  IF x.ns = n /\ n \notin {"SCAN", "AUTH"} THEN x
  ELSE [x EXCEPT !.ns = n, !.mgt = mgt, !.queued = @ \/ ~x.shutdown,
                 !.done = @ /\ x.link # "RUN"]

(* ieee80211_node_free_unref_cb                                            *)
FreeUnrefCb(x) == [x EXCEPT !.cb = "none", !.arg = "none"]

(* ieee80211_node_join_bss: the count becomes that of the cached node,     *)
(* which is 0, whatever references are held.                               *)
JoinBss(x, roam, held) ==
  LET mgt == IF x.bgscan /\ x.link = "RUN" THEN "deauth"
             ELSE IF x.link = "AUTH" THEN "auth" ELSE "none"
      copy == IF held = 0 THEN "clean"
              ELSE IF roam /\ x.copy = "clean" THEN "roamed" ELSE "busy"
  IN  NewState([FreeUnrefCb(x) EXCEPT !.refcnt = 0, !.bgscan = FALSE, !.copy = copy],
               "AUTH", mgt)

(* ieee80211_node_switch_bss, which reads its argument.                    *)
SwitchBss(x) ==
  IF ~x.bgscan THEN x
  ELSE IF x.arg = "none" THEN [x EXCEPT !.panic = TRUE]
  ELSE IF x.arg = "found"
  THEN JoinBss([x EXCEPT !.mgtonly = FALSE], TRUE, Outstanding(x))
  ELSE NewState([FreeUnrefCb(x) EXCEPT !.bgscan = FALSE, !.mgtonly = FALSE],
                "SCAN", "none")

(* iwm_mfp_leave_done                                                      *)
MfpLeaveDone(x) == [x EXCEPT !.sent = @ \/ (x.link = "RUN" /\ Mfp)]

(* Broken variant: a count that is a signed integer.                       *)
Release_Signed(x) ==
  LET y == [x EXCEPT !.refcnt = @ - 1]
      z == [y EXCEPT !.cb = "none"]
  IN  IF y.refcnt # 0 \/ y.cb = "none" THEN y
      ELSE IF y.cb = "switch" THEN SwitchBss(z) ELSE MfpLeaveDone(z)

(* Broken variant: the last reference but one runs the callback.           *)
Release_OneEarly(x) ==
  LET y == [x EXCEPT !.refcnt = (@ - 1) % RefMod]
      z == [y EXCEPT !.cb = "none"]
  IN  IF y.refcnt > 1 \/ y.cb = "none" THEN y
      ELSE IF y.cb = "switch" THEN SwitchBss(z) ELSE MfpLeaveDone(z)

(* ieee80211_release_node                                                  *)
Release(x) ==
  LET y == [x EXCEPT !.refcnt = (@ - 1) % RefMod]
      z == [y EXCEPT !.cb = "none"]
  IN  IF y.refcnt # 0 \/ y.cb = "none" THEN y
      ELSE IF y.cb = "switch" THEN SwitchBss(z) ELSE MfpLeaveDone(z)

(* ieee80211_ref_node                                                      *)
Ref(x) == [x EXCEPT !.refcnt = (@ + 1) % RefMod]

(* Broken variant: the reference is kept when there is no memory.          *)
SendMgmt_Leaks(x, fails) ==
  IF fails THEN Ref(x) ELSE [Ref(x) EXCEPT !.mgtq = @ + 1]

(* ieee80211_send_mgmt, which fails for lack of memory.                    *)
Fails(x) == IF Outstanding(x) < MaxFrames THEN BOOLEAN ELSE {TRUE}
SendMgmt(x, fails) ==
  IF fails THEN Release(Ref(x)) ELSE [Ref(x) EXCEPT !.mgtq = @ + 1]

(* The same, with a request that is timed.                                 *)
SendRequest(x, fails) == [SendMgmt(x, fails) EXCEPT !.timer = @ \/ ~fails]

(* ieee80211_node_tx_stopped                                               *)
TxStopped(x, fails) ==
  LET y == SendMgmt([x EXCEPT !.cb = "switch"], fails)
  IN  IF ~x.bgscan THEN x
      ELSE IF ~fails THEN y
      ELSE NewState([FreeUnrefCb(y) EXCEPT !.bgscan = FALSE], "SCAN", "none")

(* ieee80211_newstate, entered by iwm_newstate_task.                       *)
Sends(link, n, mgt) ==
  \/ n = "AUTH" /\ link = "SCAN"
  \/ n = "AUTH" /\ link \in {"AUTH", "ASSOC"} /\ mgt = "auth"
  \/ n = "AUTH" /\ link = "RUN" /\ mgt # "none"
  \/ n = "ASSOC" /\ link \in {"AUTH", "RUN"}
Enter(x, n, mgt, fails) ==
  LET link == IF x.link = "RUN" /\ n = "AUTH" /\ mgt = "auth" THEN "RUN" ELSE n
      y == [x EXCEPT !.link = n, !.mgtonly = FALSE,
                     !.timer = @ /\ ~(n = "RUN" /\ x.link \in {"SCAN", "ASSOC"})]
      z == IF Sends(x.link, n, mgt) THEN SendRequest(y, fails) ELSE y
  IN  [z EXCEPT !.link = link]

-----------------------------------------------------------------------------
(* Scans.                                                                  *)

(* What an argument is worth after a scan: a cached node may be freed by   *)
(* it, or be heard again.                                                  *)
After(arg, used) == IF used /\ arg # "none" THEN {"found", "gone"} ELSE {arg}

NotFound(x) == NewState(x, "SCAN", "none")

(* ieee80211_end_scan, called by iwm_endscan.  The background scan heard   *)
(* nothing; lost the access point; found the same one, a weak one or no    *)
(* memory; or another one, for iwm_bgscan_done.                            *)
EndScan ==
  /\ scan # {}
  /\ scan' = {}
  /\ \E arg \in After(net.arg, net.cb = "switch"),
        old \in After(task.arg, net.done \/ task.pc # "idle") :
       LET x == [net EXCEPT !.arg = arg]
           giveup == [x EXCEPT !.bgscan = FALSE]
       IN  IF x.bgscan /\ x.link = "RUN"
           THEN \/ /\ net' \in {NotFound(x), NotFound(giveup), giveup}
                   /\ task' = [task EXCEPT !.arg = old]
                \/ /\ net' = [x EXCEPT !.mgtonly = TRUE, !.done = @ \/ ~x.shutdown]
                   /\ task' = [task EXCEPT !.arg = "found"]
           ELSE /\ net' \in {NotFound(x), JoinBss(x, FALSE, Outstanding(x))}
                /\ task' = [task EXCEPT !.arg = old]
  /\ UNCHANGED <<nt, reset, txflush>>

(* ieee80211_begin_bgscan, with iwm_bgscan: a scan that is under way is    *)
(* taken for the background scan.                                          *)
BeginBgscan ==
  /\ ~net.bgscan /\ net.link = "RUN" /\ ~net.timer
  /\ net' = [net EXCEPT !.bgscan = TRUE]
  /\ scan' = IF "scan" \in scan THEN scan ELSE scan \cup {"bgscan"}
  /\ UNCHANGED <<task, nt, reset, txflush>>

-----------------------------------------------------------------------------
(* Frames.  A received one holds a reference while it is handled.          *)

Receive(x) ==
  /\ net' = Release(x)
  /\ UNCHANGED <<scan, task, nt, reset, txflush>>

(* Any frame of the access point; a beacon or a probe response.            *)
RecvFrame == net.link # "INIT" /\ Receive(Ref(net))
RecvBeacon ==
  /\ net.link = "RUN" /\ ~net.bgscan
  /\ Receive([Ref(net) EXCEPT !.timer = FALSE])

(* ieee80211_auth_open                                                     *)
AuthOpen == net.link = "AUTH" /\ Receive(NewState(Ref(net), "ASSOC", "none"))

(* The same with an error status, and ieee80211_try_another_bss.           *)
AuthRefused ==
  /\ Band /\ net.link = "AUTH"
  /\ Receive(JoinBss(Ref(net), FALSE, Outstanding(net) + 1))

(* ieee80211_recv_assoc_resp                                               *)
AssocResp == net.link = "ASSOC" /\ Receive(NewState(Ref(net), "RUN", "none"))

(* ieee80211_recv_deauth and ieee80211_recv_disassoc: ignored in a roam.   *)
RecvDeauth ==
  /\ net.link \notin {"INIT", "SCAN"} /\ ~(net.bgscan /\ net.link = "RUN")
  /\ \/ Receive(NewState(Ref(net), "AUTH", "deauth"))
     \/ Receive(NewState(Ref(net), "ASSOC", "none"))

(* ieee80211_watchdog: a request was not answered.                         *)
Watchdog ==
  /\ net.timer
  /\ net' = NewState([net EXCEPT !.timer = FALSE], "SCAN", "none")
  /\ UNCHANGED <<scan, task, nt, reset, txflush>>

(* iwm_rx_bmiss: the access point is probed.                               *)
RxBmiss ==
  /\ net.link = "RUN" /\ ~net.timer
  /\ \E fails \in Fails(net) : net' = SendRequest(net, fails)
  /\ UNCHANGED <<scan, task, nt, reset, txflush>>

(* iwm_start: a frame of ic_mgtq, or a data frame.  iwm_tx may fail.       *)
TxStart ==
  /\ ~txflush
  /\ net.mgtq > 0
  /\ \/ net' = [net EXCEPT !.mgtq = @ - 1, !.ring = @ + 1]
     \/ net' = Release([net EXCEPT !.mgtq = @ - 1])
  /\ UNCHANGED <<scan, task, nt, reset, txflush>>

TxData ==
  /\ ~txflush
  /\ net.mgtq = 0 /\ net.link = "RUN" /\ ~net.mgtonly
  /\ net.ring < MaxFrames
  /\ net' = [Ref(net) EXCEPT !.ring = @ + 1]
  /\ UNCHANGED <<scan, task, nt, reset, txflush>>

(* iwm_txd_done                                                            *)
TxDone ==
  /\ net.ring > 0
  /\ net' = Release([net EXCEPT !.ring = @ - 1])
  /\ UNCHANGED <<scan, task, nt, reset, txflush>>

-----------------------------------------------------------------------------
(* iwm_bgscan_done_task, on systq.                                         *)

Idle == [pc |-> "idle", arg |-> "none"]

(* Broken variant: an error is not reported.                               *)
AskReset_Never(r) == r

(* An error of a task queues init_task.                                    *)
AskReset(r) == [r EXCEPT !.init = @ \/ ~net.shutdown]

BgscanDoneTask ==
  /\ task.pc = "idle" /\ net.done
  /\ net' = [net EXCEPT !.done = FALSE]
  /\ IF net.shutdown \/ ~net.bgscan \/ net.link # "RUN"
     THEN task' = Idle /\ reset' = AskReset(reset) /\ UNCHANGED txflush
     ELSE /\ task' = [task EXCEPT !.pc = "flush"]
          /\ txflush' = TRUE
          /\ UNCHANGED reset
  /\ UNCHANGED <<scan, nt>>

(* iwm_flush_sta: the rings have become empty ...                          *)
Flushed ==
  /\ task.pc = "flush"
  /\ net.ring = 0
  /\ task' = [task EXCEPT !.pc = "drain"]
  /\ UNCHANGED <<net, scan, nt, reset, txflush>>

(* ... and the last command was executed: the roam goes on.                *)
Drained ==
  /\ task.pc = "drain"
  /\ \E fails \in Fails(net) : net' = TxStopped([net EXCEPT !.arg = task.arg], fails)
  /\ task' = Idle
  /\ txflush' = FALSE
  /\ UNCHANGED <<scan, nt, reset>>

(* A command fails, or a ring is not empty after two seconds.              *)
FlushFails ==
  /\ task.pc # "idle"
  /\ task' = Idle
  /\ txflush' = FALSE
  /\ reset' = AskReset(reset)
  /\ UNCHANGED <<net, scan, nt>>

-----------------------------------------------------------------------------
(* iwm_newstate_task, on a queue of its own.                               *)

NtIdle == [pc |-> "idle", nstate |-> "INIT", mgt |-> "none"]

(* Where the task starts, and goes on, in the switch over the state it     *)
(* leaves; iwm_scan first aborts a background scan.                        *)
EnterPc(n) == IF n = "SCAN" /\ "bgscan" \in scan THEN "abort" ELSE "enter"
FirstPc(link, n) ==
  IF Rank(n) <= Rank(link) /\ link = "RUN" THEN "run_stop"
  ELSE IF Rank(n) <= Rank("AUTH") /\ link \in {"AUTH", "ASSOC"} THEN "flush"
  ELSE EnterPc(n)

Scanning == net.link = "SCAN" /\ net.ns = "SCAN" /\ "scan" \in scan

(* ns_arg is read here only: it is none until the next newstate.           *)
NewstateStart ==
  /\ nt.pc = "idle" /\ net.queued
  /\ net' = [net EXCEPT !.queued = FALSE, !.mgt = "none"]
  /\ IF net.shutdown \/ Scanning
     THEN UNCHANGED <<nt, txflush>>
     ELSE /\ nt' = [pc |-> FirstPc(net.link, net.ns), nstate |-> net.ns, mgt |-> net.mgt]
          /\ txflush' = (txflush \/ nt'.pc = "flush")
  /\ UNCHANGED <<scan, task, reset>>

(* A command fails, or a ring is not empty in time.                        *)
NewstateFails ==
  /\ nt.pc # "idle"
  /\ nt' = NtIdle
  /\ txflush' = (txflush /\ nt.pc \notin {"flush", "drain"})
  /\ reset' = AskReset(reset)
  /\ UNCHANGED <<net, scan, task>>

(* iwm_run_stop                                                            *)
RunStopped ==
  /\ nt.pc = "run_stop"
  /\ nt' = [nt EXCEPT !.pc = FirstPc("ASSOC", nt.nstate)]
  /\ txflush' = (txflush \/ nt'.pc = "flush")
  /\ UNCHANGED <<net, scan, task, reset>>

(* iwm_deauth                                                              *)
NewstateFlushed ==
  /\ nt.pc = "flush" /\ net.ring = 0
  /\ nt' = [nt EXCEPT !.pc = "drain"]
  /\ UNCHANGED <<net, scan, task, reset, txflush>>

(* What is left of iwm_deauth sleeps too, and so does what comes after it. *)
Deauthed ==
  /\ nt.pc = "drain"
  /\ nt' = IF net.shutdown THEN NtIdle ELSE [nt EXCEPT !.pc = EnterPc(nt.nstate)]
  /\ txflush' = FALSE
  /\ UNCHANGED <<net, scan, task, reset>>

(* iwm_scan: net80211 does not see the transition.                         *)
Aborted ==
  /\ nt.pc = "abort"
  /\ nt' = [nt EXCEPT !.pc = "enter"]
  /\ scan' = {}
  /\ UNCHANGED <<net, task, reset, txflush>>

EnterScan ==
  /\ nt.pc = "enter" /\ nt.nstate = "SCAN"
  /\ nt' = NtIdle
  /\ scan' = scan \cup {"scan"}
  /\ LET x == IF "bgscan" \in scan THEN net ELSE FreeUnrefCb(net)
     IN  net' = [x EXCEPT !.link = "SCAN"]
  /\ UNCHANGED <<task, reset, txflush>>

(* iwm_auth, iwm_run or nothing, and then ieee80211_newstate.              *)
EnterState ==
  /\ nt.pc = "enter" /\ nt.nstate \in {"AUTH", "ASSOC", "RUN"}
  /\ nt' = NtIdle
  /\ IF net.shutdown THEN UNCHANGED net
     ELSE \E fails \in Fails(net) : net' = Enter(net, nt.nstate, nt.mgt, fails)
  /\ UNCHANGED <<scan, task, reset, txflush>>

-----------------------------------------------------------------------------
(* iwm_stop, by init_task or by an ioctl thread.                           *)

(* The rest of it: the frames of the rings and of ic_mgtq are freed, not   *)
(* so their references.                                                    *)
Stopped(x) ==
  LET y == [x EXCEPT !.ring = 0, !.shutdown = FALSE, !.ns = "INIT", !.link = "INIT",
                     !.mgtonly = FALSE]
  IN  /\ net' = IF x.link = "INIT" THEN y
                 ELSE [FreeUnrefCb(y) EXCEPT !.mgtq = 0, !.timer = FALSE]
      /\ reset' = [pc |-> "stop", init |-> FALSE]
      /\ scan' = {} /\ txflush' = FALSE
      /\ task' = [task EXCEPT !.arg = "none"]
      /\ UNCHANGED nt

(* The beginning, with iwm_mfp_leave: no task is waited for.               *)
StopBegin ==
  /\ reset.pc = "no"
  /\ LET x == [net EXCEPT !.shutdown = TRUE, !.queued = FALSE, !.done = FALSE]
         y == [x EXCEPT !.mgtonly = TRUE, !.sent = FALSE, !.cb = "leave", !.arg = "none"]
     IN  IF x.link = "RUN" /\ Mfp
         THEN \E fails \in Fails(y) :
                IF fails THEN Stopped([SendMgmt(y, fails) EXCEPT !.cb = "none"])
                ELSE /\ net' = SendMgmt(y, fails)
                     /\ reset' = [pc |-> "leave", init |-> FALSE]
                     /\ UNCHANGED <<scan, task, nt, txflush>>
         ELSE Stopped(x)

(* The frame is sent, or half a second has passed.                         *)
Left ==
  /\ reset.pc = "leave"
  /\ \/ net.sent /\ Stopped(net)
     \/ Stopped([net EXCEPT !.cb = "none"])

(* iwm_init_task, on systq like the other one; or an ioctl thread.         *)
InitTask == task.pc = "idle" /\ reset.init /\ StopBegin

-----------------------------------------------------------------------------
Init ==
  /\ net = [link |-> "INIT", bgscan |-> FALSE, mgtonly |-> FALSE, timer |-> FALSE,
            refcnt |-> 1, cb |-> "none", arg |-> "none", mgtq |-> 0, ring |-> 0,
            ns |-> "SCAN", mgt |-> "none", queued |-> TRUE, done |-> FALSE,
            shutdown |-> FALSE, sent |-> FALSE, panic |-> FALSE,
            copy |-> "clean"]
  /\ scan = {} /\ txflush = FALSE
  /\ task = Idle /\ nt = NtIdle
  /\ reset = [pc |-> "no", init |-> FALSE]

Systq == BgscanDoneTask \/ Flushed \/ Drained \/ FlushFails \/ InitTask
NewstateTask == NewstateStart \/ NewstateFails \/ RunStopped \/ NewstateFlushed
                \/ Deauthed \/ Aborted \/ EnterScan \/ EnterState

Next ==
  /\ ~net.panic /\ reset.pc # "stop"
  /\ \/ EndScan \/ BeginBgscan
     \/ RecvFrame \/ RecvBeacon \/ AuthOpen \/ AuthRefused \/ AssocResp
     \/ RecvDeauth \/ Watchdog \/ RxBmiss
     \/ TxStart \/ TxData \/ TxDone
     \/ Systq \/ NewstateTask
     \/ StopBegin \/ Left

(* A thread that can run runs in the end, init_task also when it queues    *)
(* behind the other task; a frame is sent or times out.                    *)
Fairness ==
  /\ WF_vars(Systq) /\ SF_vars(InitTask \/ Left)
  /\ WF_vars(NewstateTask)
  /\ WF_vars(TxStart \/ TxDone)

Spec == Init /\ [][Next]_vars /\ Fairness

-----------------------------------------------------------------------------
(* Properties.                                                             *)

(* No copy was made over a record that was in use.                         *)
Exact == net.copy = "clean"

(* While the link is up, ic_bss is referenced by the frames that point to  *)
(* it and by nothing else.                                                 *)
ReferencesHeld == Exact /\ net.link = "RUN" => net.refcnt = Outstanding(net)

(* A roam copies the record only when no frame points to it.               *)
RoamIsQuiet == net.copy # "roamed"

(* Data frames are held back for a roam only until it is over, if with a   *)
(* reset of the device, as long as the count of references is right.       *)
Muted == net.mgtonly /\ net.link = "RUN"
DataResumes == Muted ~> ~Muted \/ net.panic \/ ~Exact
=============================================================================

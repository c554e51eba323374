----------------------------- MODULE IwxSetKey -----------------------------
(***************************************************************************)
(* How the iwx driver hands the keys of a handshake to the firmware        *)
(* (dev/pci/if_iwx.c).  iwx_set_key, called by the handshakes of net80211, *)
(* stores a pointer to the key in a ring of three entries and queues       *)
(* iwx_setkey_task, which sleeps while the firmware executes each key.  A  *)
(* transition of the link empties the ring, also under a sleeping task.    *)
(*                                                                         *)
(* The content of a key is the number of the handshake message that        *)
(* brought it; 0 is a key that is zeroed or not there.                     *)
(***************************************************************************)
EXTENDS Integers, FiniteSets

CONSTANTS
  Mfp,       \* IEEE80211_NODE_MFP: there is an integrity group key as well
  SecKeyCmd, \* the firmware has IWX_SEC_KEY_CMD
  MaxMsgs,   \* bound: handshake messages with keys
  None       \* an entry of the ring that is zeroed

ASSUME SetKeyAssumption ==
  /\ {Mfp, SecKeyCmd} \subseteq BOOLEAN /\ MaxMsgs \in Nat
  /\ None \notin {"pair", "group", "igtk"}

Key == {"pair", "group"} \cup IF Mfp THEN {"igtk"} ELSE {}
NumArgs == 3                     \* nitems(sc->setkey_arg)
Slot == 0 .. NumArgs - 1

VARIABLES
  link,       \* ic_state
  ns,         \* ns_nstate
  nt,         \* iwx_newstate_task, and whether it is queued
  supp,       \* ni_rsn_supp_state
  keys,       \* ni_pairwise_key and ic_nw_keys
  ring,       \* setkey_arg, setkey_cur, setkey_tail, setkey_nkeys
  task,       \* iwx_setkey_task, and whether it is queued
  fw,         \* the keys the firmware uses for its station
  sta_active, \* IWX_FLAG_STA_ACTIVE
  in_flags,   \* the keys the driver knows the firmware to have
  port,       \* ni_port_valid
  shutdown,   \* IWX_FLAG_SHUTDOWN
  away,       \* the access point has sent the station away
  msgs,       \* history: handshake messages so far
  clean       \* history: AUTH was entered with nothing left over of an earlier
              \* association; no key was refused or dropped and no transition
              \* failed since

vars == <<link, ns, nt, supp, keys, ring, task, fw, sta_active, in_flags, port,
          shutdown, away, msgs, clean>>

LinkState == {"INIT", "SCAN", "AUTH", "ASSOC", "RUN"}
NoKeys == [k \in Key |-> 0]
EmptyRing == [arg |-> [i \in Slot |-> None], cur |-> 0, tail |-> 0, nkeys |-> 0]
TaskIdle == [pc |-> "idle", slot |-> 0, key |-> "pair", ver |-> 0, done |-> FALSE,
             stale |-> FALSE, queued |-> FALSE]
NtIdle == [pc |-> "idle", nstate |-> "INIT", queued |-> FALSE, stale |-> FALSE]

TypeOK ==
  /\ link \in LinkState /\ ns \in LinkState
  /\ nt \in [pc : {"idle", "leave", "enter"}, nstate : LinkState,
             queued : BOOLEAN, stale : BOOLEAN]
  /\ supp \in {"INITIALIZE", "PTKSTART", "PTKDONE"}
  /\ keys \in [Key -> 0 .. MaxMsgs] /\ fw \in [Key -> 0 .. MaxMsgs]
  /\ ring \in [arg : [Slot -> Key \cup {None}], cur : Slot, tail : Slot,
               nkeys : -1 .. NumArgs]
  /\ task \in [pc : {"idle", "sleep", "panic"}, slot : Slot, key : Key,
               ver : 0 .. MaxMsgs, done : BOOLEAN, stale : BOOLEAN, queued : BOOLEAN]
  /\ in_flags \subseteq Key
  /\ {sta_active, port, shutdown, away, clean} \subseteq BOOLEAN
  /\ msgs \in 0 .. MaxMsgs

-----------------------------------------------------------------------------
(* iwx_newstate.                                                           *)

Taken(n) == n # ns \/ n \in {"SCAN", "AUTH"}

(* A link that is up is left: the task is cancelled and the ring emptied.  *)
Empties(n) == Taken(n) /\ link = "RUN"

RingAfter(n, r) == IF Empties(n) THEN EmptyRing ELSE r

RequestState(n) ==
  /\ ns' = n
  /\ nt' = [nt EXCEPT !.queued = @ \/ (Taken(n) /\ ~shutdown)]

(* The link is asked for a new state by anything but a key.                *)
Request(n) ==
  /\ RequestState(n)
  /\ clean' = (clean /\ ~(Empties(n) /\ ring.nkeys # 0))
  /\ ring' = RingAfter(n, ring)
  /\ task' = [task EXCEPT !.queued = @ /\ ~Empties(n)]
  /\ UNCHANGED <<link, fw, sta_active, in_flags, shutdown, msgs>>

-----------------------------------------------------------------------------
(* iwx_set_key.                                                            *)

(* Broken variant: the last entry is given away twice.                     *)
Full_OffByOne(r) == r.nkeys \notin 0 .. NumArgs

(* The int setkey_nkeys is compared with a size_t: -1 is more than 3.      *)
Full(r) == r.nkeys \notin 0 .. NumArgs - 1

(* Broken variant: a key that is in the ring already is not put there again. *)
Put_Once(r, S, k) ==
  IF Full(r) \/ k \notin S \/ (\E i \in Slot : r.arg[i] = k) THEN r
  ELSE [r EXCEPT !.arg[r.cur] = k, !.cur = (@ + 1) % NumArgs, !.nkeys = @ + 1]

(* iwx_set_key of key k, if k is among the keys S of the message.          *)
Put(r, S, k) ==
  IF Full(r) \/ k \notin S THEN r
  ELSE [r EXCEPT !.arg[r.cur] = k, !.cur = (@ + 1) % NumArgs, !.nkeys = @ + 1]

PutAll(S) == Put(Put(Put(ring, S, "pair"), S, "group"), S, "igtk")

Refused(S) == S # {} /\ ring.nkeys \notin 0 .. NumArgs - Cardinality(S)

(* The keys of S that are stored in net80211: up to the one refused.       *)
Rank(k) == CASE k = "pair" -> 0 [] k = "group" -> 1 [] k = "igtk" -> 2
Before(S, k) == Cardinality({j \in S : Rank(j) < Rank(k)})
Stored(S) == {k \in S : Before(S, k) = 0 \/ ring.nkeys \in 0 .. NumArgs - Before(S, k)}

(* Message 3 of the 4-way handshake or message 1 of the group handshake    *)
(* brings the keys S; opens: the port may be opened without the driver.    *)
ReceiveKeys(S, opens) ==
  /\ msgs < MaxMsgs
  /\ msgs' = msgs + 1
  /\ supp' = "PTKDONE"
  /\ keys' = [k \in Key |-> IF k \in Stored(S) THEN msgs' ELSE keys[k]]
  /\ IF Refused(S)
     THEN /\ RequestState("SCAN")
          /\ clean' = FALSE
          /\ ring' = RingAfter("SCAN", PutAll(S))
          /\ task' = [task EXCEPT !.queued = ~Empties("SCAN") /\
                                     (@ \/ (~shutdown /\ PutAll(S) # ring))]
          /\ UNCHANGED port
     ELSE /\ ring' = PutAll(S)
          /\ task' = [task EXCEPT !.queued = @ \/ (S # {} /\ ~shutdown)]
          /\ port' = (port \/ opens)
          /\ UNCHANGED <<ns, nt, clean>>
  /\ UNCHANGED <<link, fw, sta_active, in_flags, shutdown, away>>

(* A frame of an access point that has not sent the station away.          *)
Hears == link \notin {"INIT", "SCAN"} /\ ~away

Missing == {k \in Key : keys[k] = 0}

(* A frame that must be protected is decrypted by the firmware.            *)
Decrypts == fw["pair"] # 0 /\ fw["pair"] = keys["pair"]

(* ieee80211_recv_4way_msg3 after message 1.  The first handshake brings a *)
(* new pairwise key, and every one the keys that are not there; a key that *)
(* the driver is to install keeps the port as it is.                       *)
RecvMsg3 ==
  /\ Hears /\ supp # "INITIALIZE"
  /\ supp = "PTKDONE" => Decrypts
  /\ \E S \in SUBSET Key :
       /\ Missing \subseteq S /\ (supp = "PTKSTART" => "pair" \in S)
       /\ ReceiveKeys(S, S = {})

(* ieee80211_recv_rsn_group_msg1 opens the port whatever the driver says.  *)
RecvGroupMsg1 ==
  /\ Hears /\ supp = "PTKDONE" /\ Decrypts
  /\ \E S \in SUBSET (Key \ {"pair"}) :
       /\ Missing \cap {"group"} \subseteq S
       /\ ReceiveKeys(S, TRUE)

-----------------------------------------------------------------------------
(* iwx_setkey_task.                                                        *)

(* The entry at the tail is fetched and its key sent.  A zeroed entry fails *)
(* KASSERT(ni == ic->ic_bss).                                              *)
Fetch(r, queued) ==
  LET k == r.arg[r.tail]
  IN  IF k = None THEN [TaskIdle EXCEPT !.pc = "panic"]
      ELSE [pc |-> "sleep", slot |-> r.tail, key |-> k, ver |-> keys[k],
            done |-> FALSE, stale |-> FALSE, queued |-> queued]

TaskStart ==
  /\ task.pc = "idle" /\ task.queued
  /\ task' = IF ring.nkeys > 0 /\ ~shutdown THEN Fetch(ring, FALSE) ELSE TaskIdle
  /\ UNCHANGED <<link, ns, nt, supp, keys, ring, fw, sta_active, in_flags, port,
                 shutdown, away, msgs, clean>>

(* A key that is zeroed has no flags and passes for a pairwise key.        *)
Kind(k, ver) == IF ver = 0 THEN "pair" ELSE k

(* The firmware executes the command, if it has a station.                 *)
FirmwareAnswers ==
  /\ task.pc = "sleep" /\ ~task.done /\ ~task.stale
  /\ sta_active
  /\ task' = [task EXCEPT !.done = TRUE]
  /\ fw' = [fw EXCEPT ![Kind(task.key, task.ver)] = task.ver]
  /\ UNCHANGED <<link, ns, nt, supp, keys, ring, sta_active, in_flags, port, shutdown,
                 away, msgs, clean>>

(* Firmware without IWX_SEC_KEY_CMD has a command of its own for an         *)
(* integrity group key.                                                    *)
IgtkCmd == ~SecKeyCmd /\ Kind(task.key, task.ver) = "igtk"

(* iwx_add_sta_key_cmd, the other one, does not look at the answer when the *)
(* driver is being stopped.                                                *)
Cancelled == shutdown /\ ~SecKeyCmd /\ ~IgtkCmd

(* Broken variant: the tail stays where it is.                             *)
Drop_KeepTail(r) == [r EXCEPT !.arg[task.slot] = None, !.nkeys = @ - 1]

(* The entry is cleared that was fetched before the sleep.                 *)
Drop(r) == [r EXCEPT !.arg[task.slot] = None, !.tail = (@ + 1) % NumArgs, !.nkeys = @ - 1]

(* Broken variant: one key in each run of the task.                        *)
KeyAdded_One ==
  /\ task.pc = "sleep" /\ task.done /\ ~Cancelled
  /\ in_flags' = in_flags \cup {Kind(task.key, keys[task.key])}
  /\ port' = (port \/ in_flags' = Key)
  /\ ring' = Drop(ring)
  /\ task' = [TaskIdle EXCEPT !.queued = task.queued]
  /\ UNCHANGED <<link, ns, nt, supp, keys, fw, sta_active, shutdown, away, msgs, clean>>

(* Broken variant: the loop goes on while the counter is not 0.            *)
KeyAdded_NotZero ==
  /\ task.pc = "sleep" /\ task.done /\ ~Cancelled
  /\ in_flags' = in_flags \cup {Kind(task.key, keys[task.key])}
  /\ port' = (port \/ in_flags' = Key)
  /\ ring' = Drop(ring)
  /\ task' = IF ring'.nkeys # 0 /\ ~shutdown THEN Fetch(ring', task.queued)
             ELSE [TaskIdle EXCEPT !.queued = task.queued]
  /\ UNCHANGED <<link, ns, nt, supp, keys, fw, sta_active, shutdown, away, msgs, clean>>

(* The rest of iwx_add_sta_key: with all keys in place the port is opened. *)
KeyAdded ==
  /\ task.pc = "sleep" /\ task.done /\ ~Cancelled
  /\ in_flags' = in_flags \cup {Kind(task.key, keys[task.key])}
  /\ port' = (port \/ in_flags' = Key)
  /\ ring' = Drop(ring)
  /\ task' = IF ring'.nkeys > 0 /\ ~shutdown THEN Fetch(ring', task.queued)
             ELSE [TaskIdle EXCEPT !.queued = task.queued]
  /\ UNCHANGED <<link, ns, nt, supp, keys, fw, sta_active, shutdown, away, msgs, clean>>

(* The command fails or is not answered in time: the link is given up, but *)
(* not for a command that is cancelled or one for an integrity group key.  *)
KeyFails ==
  /\ task.pc = "sleep"
  /\ clean' = FALSE
  /\ \/ /\ Cancelled \/ IgtkCmd
        /\ ring' = Drop(ring)
        /\ task' = [TaskIdle EXCEPT !.queued = task.queued]
        /\ UNCHANGED <<ns, nt>>
     \/ /\ ~Cancelled /\ ~IgtkCmd
        /\ RequestState("SCAN")
        /\ ring' = Drop(RingAfter("SCAN", ring))
        /\ task' = [TaskIdle EXCEPT !.queued = task.queued /\ ~Empties("SCAN")]
  /\ UNCHANGED <<link, supp, keys, fw, sta_active, in_flags, port, shutdown,
                 away, msgs>>

-----------------------------------------------------------------------------
(* What moves the link: frames, timers, the end of a scan, iwx_init.       *)

ZeroPair == [keys EXCEPT !["pair"] = 0]
ZeroGroup == [k \in Key |-> IF k = "pair" THEN keys[k] ELSE 0]

(* ieee80211_node_join_bss copies the record of the new access point over  *)
(* ic_bss, at the end of a scan, in RUN when the last reference to the old *)
(* one is released, or when an access point has refused to authenticate    *)
(* the station (ieee80211_try_another_bss).                                *)
JoinBss ==
  /\ link \in {"SCAN", "RUN"} \/ (link = "AUTH" /\ Hears)
  /\ Request("AUTH")
  /\ keys' = ZeroPair /\ port' = FALSE /\ supp' = "INITIALIZE"
  /\ away' = TRUE

(* The management timer expires, or beacons are missed.                    *)
LoseBss ==
  /\ link # "INIT"
  /\ Request("SCAN")
  /\ UNCHANGED <<keys, port, supp, away>>

(* ieee80211_recv_deauth                                                   *)
RecvDeauth ==
  /\ link \notin {"INIT", "SCAN"}
  /\ Request("AUTH")
  /\ away' = TRUE
  /\ UNCHANGED <<keys, port, supp>>

(* ieee80211_recv_disassoc                                                 *)
RecvDisassoc ==
  /\ link = "RUN" /\ Hears
  /\ Request("ASSOC")
  /\ away' = TRUE
  /\ UNCHANGED <<keys, port, supp>>

(* Broken variant: the port is left as it is.                              *)
AuthOpen_KeepPort ==
  /\ link = "AUTH" /\ Hears
  /\ Request("ASSOC")
  /\ UNCHANGED <<keys, port, supp, away>>

(* ieee80211_auth_open: the response of the access point.                  *)
AuthOpen ==
  /\ link = "AUTH" /\ Hears
  /\ Request("ASSOC")
  /\ port' = FALSE
  /\ UNCHANGED <<keys, supp, away>>

(* ieee80211_recv_assoc_resp                                               *)
AssocResp ==
  /\ link = "ASSOC" /\ Hears
  /\ Request("RUN")
  /\ supp' = "PTKSTART"
  /\ UNCHANGED <<keys, port, away>>

(* iwx_init                                                                *)
Start ==
  /\ link = "INIT" /\ ~shutdown
  /\ Request("SCAN")
  /\ UNCHANGED <<keys, port, supp, away>>

-----------------------------------------------------------------------------
(* iwx_newstate_task, on a queue of its own.                               *)

(* A station is removed on the way down to AUTH or SCAN.                   *)
Leaves(n) == n \in {"SCAN", "AUTH"} /\ link \in {"AUTH", "ASSOC", "RUN"}

NewstateStart ==
  /\ nt.pc = "idle" /\ nt.queued
  /\ nt' = IF shutdown THEN NtIdle
           ELSE [NtIdle EXCEPT !.pc = IF Leaves(ns) THEN "leave" ELSE "enter", !.nstate = ns]
  /\ UNCHANGED <<link, ns, supp, keys, ring, task, fw, sta_active, in_flags, port,
                 shutdown, away, msgs, clean>>

(* A command fails, and iwx_init_task is queued: it begins with iwx_stop.  *)
NewstateFails ==
  /\ nt.pc # "idle"
  /\ nt' = [NtIdle EXCEPT !.queued = nt.queued]
  /\ clean' = FALSE
  /\ UNCHANGED <<link, ns, supp, keys, ring, task, fw, sta_active, in_flags, port,
                 shutdown, away, msgs>>

(* iwx_deauth, with iwx_rm_sta: what the firmware has not yet executed for *)
(* the station is rejected.                                                *)
Deauth ==
  /\ nt.pc = "leave" /\ ~nt.stale
  /\ nt' = IF shutdown THEN [NtIdle EXCEPT !.queued = nt.queued] ELSE [nt EXCEPT !.pc = "enter"]
  /\ IF sta_active
     THEN /\ sta_active' = FALSE /\ in_flags' = {} /\ fw' = NoKeys
          /\ task' = [task EXCEPT !.stale = @ \/ (task.pc = "sleep" /\ ~task.done)]
     ELSE UNCHANGED <<sta_active, in_flags, fw, task>>
  /\ UNCHANGED <<link, ns, supp, keys, ring, port, shutdown, away, msgs, clean>>

(* History: no key of the old association is queued, under way or noted,   *)
(* and a port left open is yet to be closed by ieee80211_auth_open.        *)
NothingLeft ==
  /\ port => ns = "AUTH"
  /\ task.pc = "idle" /\ in_flags = {}
  /\ ring.nkeys = 0 /\ ring.cur = ring.tail /\ ring.arg = EmptyRing.arg

(* iwx_scan, iwx_auth, iwx_run, then ieee80211_newstate but for a scan.     *)
(* iwx_run updates the station the firmware has.                           *)
EnterState ==
  /\ nt.pc = "enter" /\ ~nt.stale
  /\ nt.nstate = "RUN" => sta_active
  /\ away' = (away /\ ~(nt.nstate \in {"AUTH", "ASSOC"} /\ ns \in {nt.nstate, "SCAN"}))
  /\ nt' = [NtIdle EXCEPT !.queued = nt.queued]
  /\ sta_active' = (sta_active \/ nt.nstate = "AUTH")
  /\ IF shutdown /\ nt.nstate # "SCAN" THEN UNCHANGED <<link, supp, keys>>
     ELSE /\ link' = nt.nstate
          /\ supp' = IF nt.nstate = "AUTH" THEN "INITIALIZE" ELSE supp
          /\ keys' = IF nt.nstate = "AUTH" THEN ZeroGroup ELSE keys
  /\ clean' = IF nt.nstate = "AUTH" THEN NothingLeft ELSE clean
  /\ UNCHANGED <<ns, ring, task, fw, in_flags, port, shutdown, msgs>>

-----------------------------------------------------------------------------
(* iwx_stop cancels the tasks, but waits for none of them ...              *)
StopBegin ==
  /\ link # "INIT" /\ ~shutdown
  /\ shutdown' = TRUE
  /\ nt' = [nt EXCEPT !.queued = FALSE]
  /\ task' = [task EXCEPT !.queued = FALSE]
  /\ ring' = EmptyRing
  /\ clean' = FALSE
  /\ UNCHANGED <<link, ns, supp, keys, fw, sta_active, in_flags, port, away, msgs>>

(* ... and resets the device; commands sent before fail.                   *)
StopEnd ==
  /\ shutdown
  /\ shutdown' = FALSE
  /\ nt' = [nt EXCEPT !.stale = nt.pc # "idle"]
  /\ task' = [task EXCEPT !.stale = task.pc = "sleep", !.done = FALSE]
  /\ fw' = NoKeys /\ sta_active' = FALSE /\ in_flags' = {}
  /\ link' = "INIT" /\ ns' = "INIT"
  /\ supp' = "INITIALIZE" /\ keys' = ZeroGroup
  /\ UNCHANGED <<ring, port, away, msgs, clean>>

-----------------------------------------------------------------------------
Init ==
  /\ link = "INIT" /\ ns = "INIT" /\ nt = NtIdle
  /\ supp = "INITIALIZE" /\ keys = NoKeys
  /\ ring = EmptyRing /\ task = TaskIdle
  /\ fw = NoKeys /\ sta_active = FALSE /\ in_flags = {}
  /\ port = FALSE /\ away = TRUE /\ shutdown = FALSE
  /\ msgs = 0 /\ clean = FALSE

Step ==
  \/ RecvMsg3 \/ RecvGroupMsg1
  \/ TaskStart \/ FirmwareAnswers \/ KeyAdded \/ KeyFails
  \/ JoinBss \/ LoseBss \/ RecvDeauth \/ RecvDisassoc \/ AuthOpen \/ AssocResp \/ Start
  \/ NewstateStart \/ NewstateFails \/ Deauth \/ EnterState
  \/ StopBegin \/ StopEnd

(* After a panic nothing happens any more.                                 *)
Next == /\ task.pc # "panic"
        /\ Step

Spec == Init /\ [][Next]_vars

-----------------------------------------------------------------------------
(* Properties.                                                             *)

(* iwx_stop and iwx_newstate zero the counter under a sleeping task, which *)
(* then decrements it to -1.  iwx_set_key takes that for a full ring: the  *)
(* task has gone to rest by then and cannot fetch an entry for it.         *)
ShortageIsAtRest == ring.nkeys < 0 => task.pc = "idle"

Distance(i) == (i - ring.tail) % NumArgs

(* In an association that found nothing left over of the one before, the   *)
(* ring is a queue: its entries are those between setkey_tail and          *)
(* setkey_cur, the task sleeps over the first, and no zeroed entry meets   *)
(* KASSERT(ni == ic->ic_bss), whatever the link does in between.           *)
RingIsQueue ==
  clean =>
    /\ task.pc # "panic"
    /\ ring.nkeys >= 0 /\ ring.cur = (ring.tail + ring.nkeys) % NumArgs
    /\ \A i \in Slot : ring.arg[i] # None <=> Distance(i) < ring.nkeys
    /\ task.pc = "sleep" => task.slot = ring.tail /\ ring.nkeys > 0

(* The association is up and nothing is being given up.                    *)
Settled ==
  /\ clean /\ ~shutdown
  /\ link = "RUN" /\ ns = "RUN" /\ supp = "PTKDONE"

Waiting(k) == \E i \in Slot : /\ ring.arg[i] = k
                              /\ task.pc = "sleep" => (i # task.slot \/ ~task.done)

(* The key that the handshake agreed on last is the one the firmware uses, *)
(* or it is waiting in the ring and not yet executed: a new key that comes *)
(* while the task sleeps over the old one is not forgotten (iwx_set_key    *)
(* stores the pointer, iwx_setkey_task sends the content).                 *)
KeysReachFirmware ==
  Settled => \A k \in Key : fw[k] = keys[k] \/ Waiting(k)

(* The port of an association is open only if the firmware encrypts its    *)
(* frames: an open port of an earlier one, or a bit in in_flags, does not  *)
(* last into the next (ieee80211_auth_open, iwx_rm_sta, iwx_add_sta_key).  *)
PortMeansKeyed == Settled /\ port => fw["pair"] # 0

(* A step that leaves keys in the ring leaves a task to handle them, queued *)
(* or asleep, unless the driver is being stopped or a command has failed.  *)
KeysHaveTask ==
  [][(ring.nkeys > 0 => task.queued \/ task.pc = "sleep") =>
     \/ (ring'.nkeys > 0 => task'.queued \/ task'.pc = "sleep")
     \/ ~clean \/ shutdown' \/ KeyFails]_vars
=============================================================================

# TLA+ specifications of AirPortOpenBSD

AirPortOpenBSD runs OpenBSD's wireless stack (`net80211`) and its Intel drivers
on macOS. The parts of it that decide whether a station keeps working are state
machines: sequence windows and timers of Block Ack agreements, the station
state machine, the roaming procedure, the key handshakes, and the driver's
threads that carry state changes to the firmware. This directory specifies them
in TLA+, checks them with TLC and proves theorems about them with TLAPS.

Paths below are relative to `src/AirPortOpenBSD/openbsd/`; `input.c` is short
for `net80211/ieee80211_input.c`, and so on.

## 1. Inventory

### How the code is scheduled

* Received frames, timeouts and ioctls run on the controller's work loop, one
  at a time: a handler is atomic with respect to the other handlers. `splnet`
  and `splx` do nothing.
* `sys/timeout.c` makes a timeout an `IOTimerEventSource` on that work loop.
* `sys/task.c` makes `systq` and the driver's `sc_nswq` threads of their own. A
  task that is added while it runs is queued again; `task_del` has no effect on
  a task that runs; `taskq_barrier` does nothing.
* A driver task that sends a firmware command sleeps until the answer arrives;
  everything else may happen meanwhile.

### Components

| Component | State | Operations | Interacts with |
|---|---|---|---|
| **Block Ack recipient** (`input.c` 835-1075, 2898-3059, 3185-3233, 3486-3571; `proto.c` 705-722, 777-815; `node.c` 1754-1758, 2108-2121) | `struct ieee80211_rx_ba` per peer and TID: state, window, slots, gap count, two timeouts | ADDBA Request, driver's answer, MPDU, BlockAckReq, DELBA, inactivity and gap timeout, `ba_del`, `node_copy` | driver (`ic_ampdu_rx_start/stop`, `addba_req_accept/refuse`), timeouts, station state machine, the layer above |
| **timeout(9)** (`sys/timeout.c`) | timer armed or not; `isPending` | `timeout_set/add/del/pending`, `timeout_run` | every component with timers |
| **Block Ack originator** (`input.c` `recv_addba_resp`, `recv_delba`; `proto.c` `addba_request`, `tx_ba_timeout`; `output.c`) | `struct ieee80211_tx_ba`: state, token, window, timeout | request, response, DELBA, timeouts, `tx_ba_clear` | driver (`ic_ampdu_tx_start/stop`), rate of transmission |
| **Task queues** (`sys/task.c`) | queue, the task that runs, pending flags | `task_add`, `task_del`, the queue's thread | driver tasks |
| **iwm: Block Ack task** (`dev/pci/if_iwm.c` 3217-3242, 3308-3422, 3667-3812) | start and stop bit masks per TID, receive sessions | `iwm_ampdu_rx_start/stop`, `iwm_ampdu_tx_start/stop`, `iwm_ba_task` | recipient, `systq`, firmware commands, newstate |
| **iwm: newstate, init, stop, watchdog** (`if_iwm.c` 8887-8945, 9568-9692, 10594, 10649) | `ns_nstate`, flags, `sc_generation`, task references | `iwm_newstate` and its task, `iwm_stop`, `iwm_init`, watchdog, ioctl | station state machine, all driver tasks |
| **iwx: keys** (`dev/pci/if_iwx.c` 9030-9090, 9180-9310, 9380-9500) | ring of three pointers to keys, `setkey_nkeys`, `in_flags`, `STA_ACTIVE` | `iwx_set_key`, `iwx_setkey_task`, the parts of newstate, deauth, init and stop that touch keys | handshakes, `systq`, firmware commands, newstate |
| **iwm: command and transmit rings** | queued counters, mask of full queues, command slots | enqueue, completion, wakeup | every firmware command |
| **Station state machine** (`proto.c` 1052-1368, `ieee80211.c` 834-854, `input.c` management frames) | `ic_state`, management timer, link state | newstate, auth, association, deauthentication, timer | scan, handshakes, Block Ack, driver |
| **Scan, BSS choice, roaming** (`ieee80211.c` 73-140, `node.c` 1229-1639) | scan cache, background scan flags, pending roam and its release callback | `begin_bgscan`, `end_scan`, `tx_stopped`, `tx_flushed`, `switch_bss`, `join_bss` | nodes and their reference counts, station state machine, driver |
| **Node cache** (`node.c` 1754-2183) | nodes, reference counts, release callback | find, copy, release, clean, free | roaming, every frame |
| **RSN handshakes** (`pae_input.c`, `pae_output.c`) | supplicant state, PTK/GTK, replay counter, `port_valid`, counters for retries | 4-way messages 1-4, group key messages, timers | station state machine, keys |
| **SA Query, management frame protection** (`input.c` 2385-2398, 3260-3323) | transaction id, retry count, timer | request, response, timeout | station state machine |
| **Replay counters, MIC countermeasures, defragmentation, power save queues** | counters and queues per node | per frame | input path |
| **Rate control** (`amrr.c`, `ra.c`, `ra_vht.c`, `rssadapt.c`) | statistics per node | arithmetic on them | transmit path |
| **ioctls and media, macOS glue, other drivers, ciphers, firmware images, user tools** | configuration; IOKit objects; hardware; none | copies and translations | all |

### What is hard, and what makes it correct

* **Recipient.** Sequence numbers wrap; `ba_head` and `ba_winstart` are moved by
  different statements modulo different numbers; the gap timer is started in
  one place and has to stay armed through every other; MPDUs come repeated, late,
  or after the BlockAckReq that gave them up; the driver answers an ADDBA
  Request at any later time; one record serves agreement after agreement.
  Correct: every buffered MPDU sits in the slot of its sequence number, the count
  is right, nothing waits without a timer, and what is handed up is in order and
  never repeated.
* **timeout(9).** `isPending` and the timer have different lifetimes:
  `timeout_run` clears the flag after the callback, which may have armed the timer
  again; `timeout_set` abandons an armed timer.
* **iwm Block Ack task.** A bit that is still set when a new agreement begins, a
  stop that overtakes a start, a task deleted with bits left in the mask. Correct:
  an accepted agreement has a firmware session, and a request is always answered.
* **iwm newstate.** A second state change overwrites the target of the first while
  its task sleeps; a reset in the middle of a command. Correct: the last
  request wins, and a failure ends in a reset.
* **Roaming.** The old BSS is left only when all its frames are sent, through a
  release callback that other code also sets. Correct: the roam ends, in RUN or in a
  scan, with one BSS, and no callback runs twice.
* **Handshakes.** Messages lost, repeated and delayed against the replay counter; two
  handshakes that share one timer and one count of attempts; an answer that waits in
  the output queue until the key it confirms is installed. Correct: no key is installed
  twice, the port opens only with the key both sides hold, a handshake ends.
* **iwx keys.** A ring of keys that is emptied, by a transition or a stop, under a task
  that sleeps over one of its entries; a key replaced in place while its command is
  under way. Correct: the key agreed on last is the one the firmware uses, and an open
  port means that it has one.
* **SA Query, management timer.** A timeout that races with a late answer.

## 2. Plan

Modules in the order they are written; each has runs of its own, and the modules
that proofs are about use no recursive operators.

1. `Timeout`, `RxBlockAck`: the recipient, whole. **Done**, with its structural
   invariants proved.
2. `InOrderDelivery`, `RxBlockAckLink`: what the layer above is promised, and the
   recipient behind a lossy, reordering link implementing it. **Done**, with the
   refinement proved.
3. `IwmBaTask` with the task queues: the driver's bit masks and tasks, with the
   states of the recipient (REQUESTED, AGREED, INIT). **Done** for Rx sessions. Open:
   the Tx half of `iwm_ba_task`, with `TxBlockAck`; the double count of a session in
   `iwm_run_stop` on hardware that reorders.
4. `NewState`: net80211's state machine with iwm's newstate task, `iwm_stop`,
   `iwm_init` and the generation count, here with the flags and contexts of the
   firmware that `IwmBaTask` leaves out. Properties: RUN is entered only after the
   firmware commands that it needs; no state is entered for a device that was reset.
5. `Roam`: background scan, release callback, `switch_bss`, `join_bss`, over the
   reference count of `ic_bss`. **Done** for iwm, up to the first stop of the device.
   Open: the choice of the access point and the node cache (`find`, `clean`, `free`).
6. `KeyAgreement`, `FourWay`: what a handshake promises to its two sides, and the
   4-way and group key handshakes on a lossy network implementing it. **Done**, with
   type correctness, four invariants and the step simulation proved. Open: key
   requests, the integrity group key, the WPA variant.
7. `IwxSetKey`: the ring of keys of iwx and its task, below `FourWay`'s `ic_set_key`.
   **Done**, with all its safety properties proved.
8. `TxBlockAck`, `SaQuery`: originator of an agreement, SA Query against its timer.
9. Rate control as operators checked against a reference.

## 3. What is modelled

### `Timeout`

The states of one timeout and what each call does to them. `armed` is the
`IOTimerEventSource`, `pending` the flag. `TimeoutRan` clears only `pending`, as
`timeout_run` does after the callback. `TimeoutSet` is a new timer: the modules
count the armed timers it abandons (`stale_gap`, `stale_to`).

### `RxBlockAck`

The record `ba` is `struct ieee80211_rx_ba` without the fields that are variables
of their own. `ba.buf[s]` is the MPDU in slot `s` or `NoMpdu`; `ba.head`,
`winstart`, `winend`, `winsize`, `gapwait`, `winmiss`, `missedsn` are the fields of
those names; `gap_to` is `ba_gap_to`; `up` is the list `ml` the last handler handed
up, with `NoMpdu` for each slot the window passed that was empty.

| Operator or action | Code |
|---|---|
| `PassSlots`, `Advance` | the bodies of the loops of `input_ba_seq`, `input_ba_flush`, `input_ba_gap_skip`, `ba_move_window` |
| `input_ba_flush`, `input_ba_seq`, `input_ba_gap_skip`, `ba_move_window` | the functions `ieee80211_...` of the same name |
| `BelowWindow`, `MissesWindow`, `CountMiss`, `MakeRoom`, `Store` | the cases of `ieee80211_input_ba`, in its order |
| `InputBa(m)`, `RecvBar(ssn)`, `RecvDelba` | `ieee80211_input_ba`, `ieee80211_bar_tid`, the recipient half of `ieee80211_recv_delba` |
| `AddbaReqDenied`, `RecvAddbaReq`, `RecvAddbaReqAgreed` | `ieee80211_recv_addba_req`: refused early, set up (four outcomes: no memory; driver busy, failed, ready), within an agreement |
| `AddbaReqAccept`, `AddbaReqRefuse` | `ieee80211_addba_req_accept`, `_refuse`, when the driver's task answers |
| `RxBaTimeout`, `GapTimeout`, `StaleGapTimeout` | `ieee80211_rx_ba_timeout`, `ieee80211_input_ba_gap_timeout`, of the present or of an abandoned timer |
| `DelbaRequest` | `ieee80211_delba_request`, which `RxBaTimeout` calls |
| `BaDel`, `EnterRun`, `JoinBss` | `ieee80211_ba_del` on a state change, RUN entered, `ieee80211_node_copy` |
| `DriverGoesOn` | what `iwm_newstate` leaves of the driver's answer: `ba_task` is deleted if it is queued, and not if it sleeps; the bits stay |

A NULL `ba_buf` or `ba_ni` is dereferenced in some states; the step then sets
`panic` and nothing follows. An MPDU is a natural number and its sequence number is
that number modulo `SeqMod`; the code sees the sequence number only. The module is about
hardware that leaves the reordering to `net80211`: on newer hardware iwm reorders itself,
hands its MPDUs past `input_ba` (`IEEE80211_RXI_AMPDU_DONE`), and replaces the inactivity
timer by one of its own. What an MPDU contains, whether it decrypts, and A-MSDU subframes are left out, as is the HT and
QoS negotiation that decides whether the handlers are called.

`driver.asked` says that an answer of the driver is to come. It outlives the request: a
disassociation does not wake a `ba_task` that sleeps, nor clear the bit for a task that
another TID queues. If the answer then finds INIT with the buffer still there,
`addba_req_accept` makes an agreement of a record that holds MPDUs and whose gap timer
`ba_del` has deleted. `driver.late`, a history variable, marks that agreement until the
next request; two properties except it, because the code does strand its MPDUs.

Each `Broken variant` operator is a plausible wrong form of the definition after
it. They are not used by the specification; they show that the properties notice.

### `InOrderDelivery` and `RxBlockAckLink`

`InOrderDelivery` is what reordering promises: batches of MPDUs, each MPDU after
every MPDU handed up before. `RxBlockAckLink` puts an originator that keeps the
rules of a Block Ack agreement in front of the recipient: it keeps at most a window
outstanding, transmits any of those any number of times, gives up the oldest, tells
the recipient so with a BlockAckReq (or a protected ADDBA Request), and starts a new
agreement after everything sent before. Loss, repetition and reordering are in the
choice of what arrives next. The originator is not this program's code: the map
marks its actions external. `SeqSpaceAssumption` is what a sequence number needs to
be unambiguous: how far the originator runs ahead, and how far behind it may still
repeat, is less than half the sequence space from the window. The second distance
includes one window for each gap timer that an ended agreement left armed, because
`gap_timeout` on an empty buffer moves the window by its whole size. The code's window
of 64 in 4096 numbers leaves room for 29 of them.

### `IwmBaTask`

The frame handlers only set a bit of `start_tidmask` or `stop_tidmask` and queue
`iwm_ba_task`. This module follows the bits through the tasks and threads that read and
clear them: `bt` is `iwm_ba_task`, `nt` is `iwm_newstate_task`, `systq` and `nswq` the
queues they wait in, `reset[p]` the place of thread `p` in `iwm_stop` and `iwm_init`, and
`fw` the set of sessions the firmware has. A task is cut into actions where another
thread can change what it has read:

| Action | Code |
|---|---|
| `RecvAddbaReq`, `RxStart`; `EndAgreement`, `RxStop` | `recv_addba_req` with `iwm_ampdu_rx_start`; DELBA and the timeouts with `iwm_ampdu_rx_stop` |
| `BaTaskStart`, `BaTaskLoop`, `BaTaskDone` | entry, one TID, and end of the loop of `iwm_ba_task` |
| `FirmwareAnswers`, `CommandEnds` | the command `iwm_sta_rx_agg` sleeps in: executed; `iwm_send_cmd_status` returns, with an error if it is rejected, timed out, or of another generation |
| `CommandFails`, `SessionStarted`, `SessionUnusable`, `SessionStopped`, `ClearBit` | `iwm_sta_rx_agg` after the test of the generation, which a reset may come after; the bit and the error in `iwm_ba_task` |
| `Transition`, `NewState` | whoever calls `ieee80211_new_state`; `iwm_newstate` |
| `NewstateStart`, `RunStop...`, `Deauth`, `AddStation`, `EnterScan`, `EnterState`, `NewstateFails` | the parts of `iwm_newstate_task` |
| `StopBegin`, `StopEnd`, `InitBegin`, `InitEnd`, `InitFails`, `InitTimeout` | `iwm_stop` up to and after `refcnt_finalize`; `iwm_init` |
| `InitTask`, `DeviceError`, `Ioctl` | `iwm_init_task`, error interrupts and watchdog, `SIOCSIFFLAGS` |

Three facts of this port shape the model. `splnet()` is 1, so a handler runs while a
task sleeps or works. The reference counts are empty functions, so `iwm_stop` waits for
no task. The locks are empty functions, so `iwm_init_task` and an ioctl thread can be in
`iwm_stop` and `iwm_init` at once (`Resetter = {"systq", "ioctl"}`). One
interleaving is left out: of `iwm_newstate_task`, the stop of one session and
`iwm_deauth` are a step from the answer of the firmware to what follows it. The Tx half of the
task, background scans, `iwm_mfp_leave` and monitor mode are left out; the other
commands of `iwm_newstate_task` are one step that works or fails; the buffer, timers and
window of an agreement are `RxBlockAck`'s.

### `KeyAgreement` and `FourWay`

`KeyAgreement` is what a handshake promises: each side puts a pairwise key to use at
most once, because a second time would start its packet numbers again, and the
authenticator only one the supplicant has confirmed. `FourWay` is `pae_input.c` and
`pae_output.c` on both sides: `sta` is the station's `ic_bss`, `ap` the access point's
node for the station together with its group keys, `net` everything ever transmitted
(what arrives is any of it, at any time, any number of times), `held` the frames in the
station's output queue. A pairwise key is the pair of nonces it is derived from, and a
nonce of the access point is the number of its association; a MIC is the key it was
computed with.

| Action | Code |
|---|---|
| `RecvMsg1`; `RecvMsg3`, `RecvMsg3Unanswered`, `RecvMsg3Refused`; `RecvGroupMsg1` | `recv_4way_msg1`; `recv_4way_msg3` to its end, without an mbuf for message 4, with a key the driver refuses; `recv_rsn_group_msg1`; each with the answer it sends |
| `Drain` | `if_snd` is drained; `ieee80211_encap` applies the protection flags of that moment |
| `Leave`, `AuthOpen`, `AssocResp` | what `ieee80211_newstate`, `auth_open` and `recv_assoc_resp` do to keys and handshake |
| `Join`, `ApLeave` | `node_join` with `node_join_rsn`, `node_leave` with `node_leave_rsn` |
| `RecvMsg2`, `RecvMsg4`, `RecvGroupMsg2`, `EapolTimeout` | the functions of those names |
| `GtkRekey` | `gtk_rekey_timeout` with `setkeys`, `node_gtk_rekey`, `setkeysdone` |

Handlers of the access point are operators from the record of its state (and of what it
transmits) to the record after it, because `eapol_timeout` and `gtk_rekey` call the
functions that send one after the other. `crossed` is a history variable: a group key
handshake runs at the same time as the 4-way handshake, because a rekey began during it
(`GtkRekey`) or because the station associated again before the group handshake was over
(`Join`; `node_join_rsn` leaves `ni_rsn_gstate`).

The station's side runs on all drivers, unless `useAppleRSNSupplicant` hands the frames
to the supplicant of macOS instead. The access point's side is the code of this
repository too, compiled in but reached only by a driver that offers `IEEE80211_C_HOSTAP`
(`bwfm.c` 204); for a station of iwm or iwx it stands for the authenticator at the other
end. One station, RSN with a pre-shared key. When a key is refused the station leaves in
a separate step (`Leave`), which may come later than in the code. A disassociation takes
the station from RUN to ASSOC, and an association response may bring it back without a
new authentication, with port, flags and replay counter as they were (`input.c` 2773,
2862-2867). This path is left out: it depends on which request an association response
answers, and the network of the model, where anything sent may arrive at any later time,
has no order of association responses.

### `IwxSetKey`

What is below `ic_set_key` in iwx. `ring` is `setkey_arg` with `setkey_cur`,
`setkey_tail` and `setkey_nkeys`; its entries point to keys (`keys`), whose content is the
number of the message that brought them; `task` is `iwx_setkey_task`, which sleeps in a
command with the content it has read; `fw` is what the firmware has; `ns` and `nt` are
`ns_nstate` and `iwx_newstate_task`.

| Action | Code |
|---|---|
| `RecvMsg3`, `RecvGroupMsg1` (`ReceiveKeys`, `Put`) | the handshake with `iwx_set_key` per key, up to the one the ring refuses |
| `TaskStart`, `FirmwareAnswers`, `KeyAdded`, `KeyFails` | `iwx_setkey_task` and `iwx_add_sta_key`, cut at the sleep |
| `JoinBss`, `LoseBss`, `RecvDeauth`, `RecvDisassoc`, `AuthOpen`, `AssocResp`, `Start` | what asks for a state, with `iwx_newstate` |
| `NewstateStart`, `Deauth`, `EnterState`, `NewstateFails` | `iwx_newstate_task` |
| `StopBegin`, `StopEnd` | `iwx_stop` before and after it resets the device |

`clean` is a history variable: the association began with nothing left over of an earlier
one (`NothingLeft`), and since then no key was refused, no command failed and no
transition emptied a ring with keys in it. What the code does outside it is part of the
model, and the properties that name `clean` say nothing of it: the task that comes back
to a ring zeroed under it clears an entry and moves a tail that are no longer its own,
then either meets a zeroed entry (the `KASSERT` in `iwx_add_sta_key`; `pc = "panic"`),
or leaves the counter at -1, which `iwx_set_key` takes for a full ring until the next
transition out of RUN; keys stay in the ring with no task queued; a bit of `in_flags` set
late opens the port of the next association before its keys are installed.

Of the station state machine only what asks the driver for states is here; `away` says
that the access point no longer answers. A roam is one step. `iwx_delete_key`, an
asynchronous command before the removal of the station, is left out, and message 4 is
always sent (`FourWay` has its failure). Of `try_another_bss` there is the join of another
access point, and not the refusal for which it finds none, which only closes the port.

### `Roam`

A roam in this code is a chain: a background scan finds a better access point
(`end_scan`), the driver's task flushes the rings (`iwm_bgscan_done_task`), a callback is
installed and a deauthentication frame queued (`node_tx_stopped`), and the release of
that frame's reference, the last one, runs the callback (`release_node`,
`node_switch_bss`), which copies the new access point over `ic_bss` (`node_join_bss`) and
asks for AUTH. Each link of the chain is another thread or a later event, and each can be
cut: by a transition, a failed command, a full queue, a stop that installs a callback of
its own.

`net` is what the handlers of `net80211` read and write. They call each other in one
thread, so each is an operator from this record to the record after it, under the name
of the function; `net.ns`, `mgt` and `queued` are `ns_nstate`, `ns_arg` and the newstate
task in its queue. `refcnt`, `cb` and `arg` are `ni_refcnt`, `ni_unref_cb` and
`ni_unref_arg` of `ic_bss`; of the argument the model keeps whether the two access points
it names are in the cache (`"found"`, `"gone"`). `task` is `iwm_bgscan_done_task` with
`bgscan_unref_arg`, `nt` the newstate task, `reset` the thread in `iwm_stop`.

| Action | Code |
|---|---|
| `BeginBgscan`, `EndScan` | `ieee80211_begin_bgscan` with `iwm_bgscan`; `ieee80211_end_scan` with its five ends, `iwm_bgscan_done` |
| `BgscanDoneTask`, `Flushed`, `Drained`, `FlushFails` | `iwm_bgscan_done_task`, cut where it waits for the rings and where it waits for the last command |
| `TxStart`, `TxData`, `TxDone` | `iwm_start` with a frame of `ic_mgtq` or a data frame; `iwm_txd_done`, which releases the reference |
| `RecvFrame`, `RecvBeacon`, `AuthOpen`, `AuthRefused`, `AssocResp`, `RecvDeauth` | received frames, each with the reference it holds while it is handled; `AuthRefused` is `try_another_bss` |
| `Watchdog`, `RxBmiss` | the management timer; missed beacons, which send a probe |
| `NewstateStart`, `RunStopped`, `NewstateFlushed`, `Deauthed`, `Aborted`, `EnterScan`, `EnterState`, `NewstateFails` | `iwm_newstate_task`, cut where it sleeps; `Enter` is `ieee80211_newstate` |
| `StopBegin`, `Left`, `InitTask` | `iwm_stop` up to the wait of `iwm_mfp_leave`, and the rest; the same by `iwm_init_task` |

`copy` is a history variable. `node_join_bss` copies a cached node, whose count is 0, over
`ic_bss`, and with it the count, whatever frames still point to `ic_bss`: `copy` says
whether the last copy found the record unreferenced (`"clean"`), or not (`"busy"`), or
whether it was a roam that did not although everything before was clean (`"roamed"`).

The model begins where `iwm_init` asks for the first scan and ends where `iwm_stop` stops
the device; what a restart leaves behind, and two threads in `iwm_stop`, are `IwmBaTask`'s
subject. Left out: which access point is chosen (scores, `ni_fails`), `protect-session`
commands, the supplicant of macOS, scans of the drivers that have no `ic_bgscan_done`,
and a frame dropped because `ic_mgtq` is full (`MaxFrames` stands for the lack of memory,
which `ieee80211_send_mgmt` reports).

What the code does after a busy copy is the reason for the condition `Exact` of the
properties. `try_another_bss`, called while the refusing frame is being handled, copies
over a record that this frame references; its release then makes the count
`UINT_MAX`, it never is 0 again when the last frame is sent, and the callback of a later
roam never runs: data frames stay held back, and deauthentication frames are ignored,
until the device is reset. The same follows `end_scan` when a frame sent in the meantime
is still in a queue. Seen while the model was built, and part of it: a
`bgscan_done_task` left from an earlier scan that fails frees the argument of a later one,
and `node_switch_bss` then reads `NULL` (`panic`); a background scan that hears nothing
leaves `F_BGSCAN` set, and if an association response overtakes the scan it asks for, the
station runs with the flag set and never scans again; when no mbuf is left for the
deauthentication frame, `send_mgmt` itself releases the last reference, so that the
callback switches without it, and the error path then asks for a scan that replaces the
request of AUTH; after the flush `iwm_bgscan_done_task` does not test the state
again.

## 4. What is checked

| Run | Question | Result |
|---|---|---|
| `rx_block_ack` | Do window, slots, count and timer agree, and is what leaves in order, complete and without delay for ever, under every sequence of frames, timeouts, answers and state changes? | passes |
| `rx_block_ack_link` | Is delivery in order and without repetition behind a bad link, across agreements? | passes |
| `timeout_before_answer` | Does an agreement have its buffer (`input.c` 2998, 3035)? | violated, while the station stays associated: the timer that an MPDU arms before the answer |
| `iwm_ba_task` | Are the sessions bounded and does every start bit get a task and keep it, with two TIDs that compete for a session and two threads that reset the device? | passes |
| `iwm_ba_live` | Is a request that has a task answered, does the link come to the state last asked for, and is every failure followed by a reset? | passes |
| `request_without_task` | Will the driver "accept or refuse agreement when done" (`input.c` 3010)? | violated: TID 8 is taken up and never handled |
| `session_after_run` | Does `iwm_run_stop` stop the sessions "now" (`if_iwm.c` 9095)? | violated: not on hardware without `sc_rxba_data` |
| `four_way` | Do two sides with lost, repeated, late and held frames agree on a key, use it once, and come to an end? | passes |
| `authenticator_will_retry` | Does a lost message 4 bring a repeated message 3 (`pae_input.c` 535)? | violated: a group rekey during the handshake ends with its timer stopped |
| `rekey_no_mbuf` | Is the group key changed when all stations have the new one (`proto.c` 468)? | violated: a station whose message found no mbuf counts as one that has it |
| `iwx_set_key` | Do the keys of a handshake reach the firmware in order, and does an open port mean an installed key? | passes |
| `roam` | Does a roam copy over `ic_bss` only when no frame points to it, and are data frames held back only until it is over? | passes |

The properties:

* `SlotsMatchWindow`, `WinEndFollows`, `HeadIsGap`, `GapwaitCounts`: the structure
  of the buffer between handlers.
* `NoStrandedMpdu`: while MPDUs wait in an agreement, the gap timer is armed. The pending
  flag of that timer may be wrong (see `Timeout`); the timer itself is lost only where a
  late answer of the driver makes an agreement of a request that had ended (`driver.late`).
* `HandedUpInOrder`: what one step hands up is in order and now before the window,
  so that it cannot be accepted again. Windows of one MPDU are excepted (section 5). `BufferedIsHandedUp`: within an agreement
  nothing buffered disappears.
* `NoMpduLingers`: liveness of the same, with the same exception. `TypeOK` of every module bounds its counters.
* `DeliversInOrder`, `BufferedAreNew`: refinement of `InOrderDelivery`.
* `SessionsBounded`: the limit holds although it is tested before a command and the
  count is changed after it, on other threads as well.
* `StartBitsAreCovered`: whatever sets a start bit leaves a task queued, or running and
  not yet past that TID; a bit loses its task only when the link leaves RUN, the device
  is stopped or a command fails. A bit that has lost its task is not spoken of again.
* `RequestIsAnswered`: a request in REQUESTED whose bit is set, and that a task has yet to
  answer (`WillAnswer`), gets its answer unless the link leaves RUN. The premise leaves out
  two requests the code does lose: one that finds the bit of the request before it still
  set after the firmware has answered that one (the bit is cleared under it, `if_iwm.c`
  3690), and one that finds a bit left over from before a disassociation (`if_iwm.c` 3736
  returns EBUSY without queuing the task `iwm_newstate` has deleted).
* `LinkFollows`: `newstate_task` reads its target once and sleeps while others overwrite it;
  in the end the link is in the state asked for last, unless the device is down.
  `FailureIsRecovered`: after a failed command the device is stopped.
* `Agrees`: the handshakes implement `KeyAgreement`. `GroupKeysFresh`: no group key is
  installed a second time in an association. `PortsAgree`: open ports mean the same key on
  both sides. `StationsHaveGroupKey`: the group key in use is one the station has.
* `WaitsWithTimer`: an access point that waits for an answer of the 4-way handshake has
  its timer armed, unless `crossed`; `HandshakeEnds` is the liveness of the same.
  `AuthenticatorWillRetry` is what the comment claims without that condition.
* `RingIsQueue`, `ShortageIsAtRest`: what the ring of keys looks like under the task, and
  that its counter is -1 only when no task could fetch for it.
* `KeysReachFirmware`: the key agreed on last is in the firmware or waiting to be sent.
  `PortMeansKeyed`: an open port has a key below it. `KeysHaveTask`: keys in the ring have
  a task.
* `ReferencesHeld`: while the link is up the count of `ic_bss` is the number of frames that
  point to it, across copies of the record, failed sends and roams. `RoamIsQuiet`: a roam
  does not copy over a record in use. `DataResumes`: data frames held back for a roam
  flow again, or the link leaves RUN, after the roam or through a reset. All three as long
  as no copy before was busy (`Exact`).

**Bounds.** The code has `SeqMod` 4096, `MaxWinSz` 64, `MaxWinMiss` 8. What the
code distinguishes is where a sequence number lies: before the window, in it, up to
a window beyond its end, farther. `SeqMod` 8 with windows of 1, 2 and 4 in a buffer
of 4 has all of these, with a window as large as the buffer, smaller ones and the least,
and the wrap of both moduli at different moments (244 729 states). The link run needs more room, because an
old MPDU must not look new: the originator is at most a window and `MaxAhead` ahead
of what was handed up, and with a window of 2 in 14 numbers this is unambiguous, as
64 in 4096 is. `MaxMpdu` 16 makes the numbers wrap (1 324 716 states). `MaxStale` bounds the abandoned
timers: 0 where the question is the structure of one agreement, 1 in the link run,
where an abandoned gap timer runs into the next agreement. `timeout_before_answer` checks
`AssociatedSpec`, the behaviours without a state change, so that what it shows is the timer
and not a late answer.
`CHECK_DEADLOCK FALSE`: after a panic nothing follows, and the link run ends when
its MPDUs are used up.
For `IwmBaTask`: two TIDs and one session are the least with which TIDs compete and the
loop has a TID before and one after the other; `request_without_task` has one TID at
`MaxTidCount`. The liveness run has one TID and one resetting thread,
which the sleeping command, the bit and the reset are about. `MCMoves` are the
transitions of a station (scan, auth, assoc, run, disassociated, beacons lost);
`MCMovesUp`, in the run with two TIDs and two resetting threads, are those on the way to
RUN, so that the link comes down with the device only (1 408 982 states). With two TIDs
the same properties hold under all of `MCMoves` with one resetting thread (936 078
states), and with the loss of the link and two resetting threads (4 101 818 states).
`CHECK_DEADLOCK FALSE`: nothing happens while the interface is down.
For `FourWay`: two attempts, associations, nonces and group keys, and one frame held
back, are the least in which a message of an earlier association with the same replay
counter, a second pairwise key in one association and a group key between two others
occur (453 535 states). The invariants hold with three attempts and nothing held (4 492 592
states) and with three group keys in one association (9 099 states) as well. The two
refutations need one association. `CHECK_DEADLOCK FALSE`: nonces and group keys are used up.
For `IwxSetKey`: the ring has the three entries of the code; three messages with keys are a
handshake, a rekey while its keys are under way, and the handshake of the next
association (2.9 million states). The instances with an integrity group key (two
messages, 1.3 million states) and with `IWX_SEC_KEY_CMD` (2.9 million) have been checked
too. `CHECK_DEADLOCK FALSE`: nothing follows the `KASSERT`.
For `Roam`: one frame in the queue or the rings, besides the one being handled, is the
least with which a count can be wrong at the moment of a copy; `RefMod` 6 has room for the
wrap below 0. `CONSTRAINT Exact` ends the exploration at a busy copy, after which the
properties claim nothing; the copy itself is checked (536 564 states). `CHECK_DEADLOCK
FALSE`: nothing follows a stop.

**Fairness.** `NoMpduLingers` assumes that a gap timer which stays armed expires:
the timer event source of the work loop. Nothing is assumed of the peer or of the
driver. The condition is written as "infinitely often not armed, or infinitely often
a step `GapTimeout`", which is weak fairness of that action. `IwmBaTask` assumes that
each of the threads (of `systq`, of `sc_nswq`, of an ioctl in a reset) runs when it can:
each is a thread of the kernel, and every command they sleep in ends after a second
(`tsleep_nsec` in `iwm_send_cmd`). Of the firmware, the peer and errors nothing is
assumed. `HandshakeEnds` assumes weak fairness of `EapolTimeout` alone: an armed timer
expires. Nothing is assumed of the network or of the station. `DataResumes` assumes weak
fairness of `systq` and of the newstate queue, threads that sleep at most for a command or
two seconds of a flush; that a frame in a queue or ring is sent or given up in the end
(`TxStart`, `TxDone`); and strong fairness of `InitTask` and of the end of the wait of
`iwm_mfp_leave` (half a second): `systq` serves its tasks in the order they were added, so
that `init_task` runs although `bgscan_done_task` can be queued again and again.

## 5. What is proved

`RxBlockAck_proofs` proves `TypeCorrect`: `Spec => []TypeOK`, with one lemma per
function of the reorder buffer and one step per action. `RxBlockAckInv_proofs`
proves the structural invariants for every buffer size, window size and set of
MPDUs, and every sequence space at least twice the buffer:
`WinEndCorrect`, `HeadCorrect`, `SlotsCorrect`, `CountCorrect`, `TimerCorrect`, all
from `StructureCorrect`, `Spec => []IInv`.

*Assumptions.* Those of `RxBlockAck`: `2 * MaxWinSz <= SeqMod`, a positive buffer,
`NoMpdu` is no MPDU. `WrapAssumption` is needed only for a window of one MPDU: the
number exactly half the sequence space away is neither before nor after it, the code
stores it in the slot it computes, and that is the head's slot because the
buffer size divides half the sequence space (64 divides 2048).

*Argument.* None of the invariants is inductive alone. `HeadIsGap` is what makes
`input_ba_seq` reach `max_seq` (its loop would stop at an MPDU in the head slot at
once), and so what keeps a new MPDU inside the window after `MakeRoom`;
`SlotsMatchWindow` is what makes a jump farther than the window empty the buffer;
`GapwaitCounts` is what makes a gap timer that finds the window empty find the
count zero, and so `NoStrandedMpdu`. `IInv` has the structure of every
record with a buffer, whatever its state, because a late answer may make an agreement of it;
and the gap timer of a record that is requested or agreed and not `driver.late`: the answer
that finds INIT with a buffer sets `late`, any other finds the timer in order. The lemmas follow the code: what passing `k`
slots does to the slot `i` places after the head (`PassedSlot`), to the count
(`PassSlotsCount`, by a bijection between the places passed and the slots freed) and to
the timer; then `FlushFacts`, `InputBaSeqFacts`, `MoveWindowFacts`, `MakeRoomFacts`,
`StoreFacts`, `GapSkipFacts`, one per function.

`RxBlockAckLink_proofs` proves what leaves the buffer: `OrderCorrect` and
`HandedUpCorrect` (`HandedUpInOrder` and `BufferedIsHandedUp`, for `Spec`), and for
`LinkSpec` `BufferCorrect` (`BufferedAreNew`) and `DeliveryCorrect`, that the recipient
implements `InOrderDelivery`, from `SeqSpaceAssumption` besides the assumptions of
`RxBlockAck`. One theory serves both specifications. `Tracks(b, P, n, low, w, high)` says
that the record `b` is at position `w` of a numbering `P` of the MPDUs: the slot `i`
places after the head holds the MPDU `w + i`, and the list holds, in order, MPDUs from
`low` to before `w`. There is a lemma per function (`AdvanceTracks`, `FlushTracks`,
`MoveWindowTracks`, `MakeRoomTracks`, `AcceptTracks`, `GapTracks`) that says at which
position it leaves the record. For `Spec` the numbering counts from the start of the
window before the step, modulo the sequence space, and the theorem follows if no step
moves the window all around. For the link every MPDU is its own position, counted from
the first the originator ever sent, so that nothing wraps.

The handlers come down to six kinds of step (`Stays`, `Drops`, `Starts`, `Takes`, `Moves`,
`Skips`; `StepSplit`). `LinkInv` is inductive with the `IInv` above: if there is a buffer,
its window starts at some MPDU `w`, everything handed up is before `w`, everything
buffered is at or after it and was sent, the originator is at most `MaxAhead` ahead, and
`w + winsize * GapTimers <= next + winsize * (MaxStale + 1)`. The last part is needed
because the window may be ahead of the originator: a gap timer that expires on an
empty buffer moves it by `winsize`, past MPDUs nobody has sent yet. Each armed or
abandoned timer can do so once; a timer that is armed again was armed by an MPDU, and
then the window does not pass `next`. From these bounds the sequence number of what
arrives, taken modulo `SeqMod`, tells its position, and `BelowWindow` refuses exactly
what is before `w`.

With a window of one MPDU `HandedUpInOrder` does not hold, and the proof failed there
first: the number half the sequence space ahead is not before the window and not beyond
it (`SEQ_LT` is false both ways), so that `input_ba` reaches the line commented
`WinStartB <= SN <= WinEndB` (`input.c` 889) with it, finds its slot to be the head's,
hands it up, and moves the window by one. `rx_block_ack` includes windows of one for the
other properties; on the link no MPDU is that far away.

`IwmBaTask_proofs` proves `TypeCorrect` and `SessionsBoundedCorrect` from
`InvariantCorrect`, `Spec => []IInv`. `SessionsBounded` is not inductive: the count is
raised by `SessionStarted`, a sleep after `BaTaskLoop` tested the limit. `CountInv` adds
that a session is free as long as the task is in that command, which holds because only
this task raises the count; every other thread lowers it. `BtInv` and `NtInv` say that a
task that works on a TID or an entry has not run past the last one. Only the named
assumptions about the constants of `IwmBaTask` are used.
`StartBitsCorrect` is proved step by step from the same invariant. It follows the place of `iwm_ba_task`: every way to queue a
task keeps those that are queued (`QueueKeeps`, `TailKeeps`), and `BaTaskCovers` shows that
the task never passes a TID whose start bit is set, the one case being a bit set while the
task is past its test, where `iwm_ampdu_rx_start` has queued the task again. It assumes that
the link does not move from RUN to RUN (none of `Moves` does in any run), because
`iwm_newstate` would then cancel `ba_task` and go on in RUN.

`IwxSetKey_proofs` proves `TypeCorrect`, `ShortageCorrect`, `RingCorrect` and the action
property `TaskCorrect` for any number of messages, with and without an integrity group
key, from `SetKeyAssumption`. `IInv` is `ShortageIsAtRest` and, under `clean`, that the ring
is a queue whose first entry the sleeping task serves. `clean` becomes true only in
`EnterState`, where `NothingLeft` gives that shape to an empty ring; every step that could
spoil it under a sleeping task (a ring emptied, a key refused, a command failed) makes
`clean` false. The arithmetic of the ring modulo three has lemmas of its own.

`ReachCorrect` and `PortCorrect` (`KeysReachFirmware`, `PortMeansKeyed`) need what the ring
alone does not say, and follow from `KeyInvCorrect`, `Spec => [](StationInv /\ KeyInv)`.
`StationInv` follows the transitions: the station is in the firmware in RUN until something
else is asked for, it is gone when a scan or AUTH is entered, and its keys are gone with it.
`KeyInv` holds from AUTH entered with nothing left over until that association is disturbed.
In it `TaskSends` is the heart: what the task sleeps over has the content the key has now,
or another entry of the same key is in the ring behind it. This is what makes it harmless
that the ring holds pointers and the content is read when the entry is fetched. An entry
is never a key zeroed since (`EntriesAreKeys`): only `ieee80211_node_join_bss` and the entry
of AUTH zero keys, and both find an empty ring or end the clean association. A message that
is not refused puts every key it brings into a free entry (`PutAllNew`, which counts the
keys of the message against the room in the ring). `AuthInv` says that AUTH, entered with nothing left over,
sees no key, so that a station that joins another access point from there, after a refusal,
takes none along. `PortKeyed` says that the bit of the
pairwise key in `in_flags` is true, and that a port open without a key is an old one that
`ieee80211_auth_open` has yet to close.

`FourWay_proofs` proves `TypeCorrect`, `PortsAgreeCorrect`, `WaitsCorrect` and
`AgreesCorrect` for any number of attempts, associations, nonces, group keys and held
frames, from `FourWayAssumption` and `InvariantCorrect`, `Spec => []IInv`. The type of
the replay counter needs a budget: the attempts already counted plus those the handshakes
of the association may still make stay within `MaxCnt`. For the rest, four facts of
`IInv` carry the argument. A message 3 or 4 in the network with the replay counter of
this association carries the key the access point computed for it, because the nonce of
the access point is new in every association. The station's nonce is new in every answer,
so that a key derived later differs from all used before, and `newptk` is cleared in the
step that uses the key. What waits in the output queue is never a message 3, so that the
flags it is encapsulated with do not matter to the access point's view of it. And an open
port of the access point means that a message 4 with its key was sent by the station.
`WaitsWithTimer` is the part about the timer, where each transmission arms it and each
handler that stops it leaves the waiting states, unless `crossed`. `AgreesCorrect` is the
step simulation: every action confirms a key, adopts one, or changes nothing of
`KeyAgreement`.

`FourWayGroup_proofs` proves `GroupKeysCorrect`, `Spec => []GroupKeysFresh`, from the same
assumption. It matters most here that the number of group keys is not fixed: the run draws
two, one for each key ID, and only from the third on does a new key take the place of one
that the station has while frames with the old one are still on their way. `GroupInv` is
added to `IInv`. The station may still take a group key from a frame (`Live`) if the frame
has the pairwise key of this association and a newer replay counter than the last one the
station took. `LiveInv` says that those frames agree on the key of each key ID, and that a
key installed before is in place, so that the station finds it equal and does not install
it again. `BetweenInv` says when they are up to date with the keys of the access point:
while its timer is armed, and when no group key handshake is under way. That is what lets
`gtk_rekey` put a new key under the ID not in use, and lets a timeout send again. It holds
because an answer of the station ends the use of every frame up to the one it answers
(`AnswerOK`, `AnsweredNoneLive`), and because a station that starts a new association takes
nothing from a frame of the one before (`StaAway`, `JoinGroup`).

`StationsCorrect` of the same module proves `StationsHaveGroupKey` for an access point
that never lacks an mbuf; without that condition the run `rekey_no_mbuf` refutes it.
`RekeyInv` is added to `GroupInv`. Its part `StaHasKey` is the property made inductive: a
station that took message 3 has the key in use until a group message 1 of its association
is sent, and again once its port is open at the access point; if it has answered the last
group message 1, it has the key that comes into use next (`NextKid`). That needs what each
frame carries (`FramesHaveKid`) and that a group key handshake under way has its timer
armed (`RekeyHasTimer`), so that `gtk_rekey` never puts a new key under one. The hard case
is a group key handshake that crosses the 4-way handshake. A station whose answer to
message 3 could not be sent has not taken the group key from it, but takes the group message
1 and opens its port with the next key alone. A message 4 must not open its port at the
access point then. `CrossedEnds` excludes that: message 3 goes out before the group message 1
in the same timeout, and the counter of the later one refuses every message 4. And the port
at the access point must not be open already, from an earlier message 4: `PortProtects`
says that the access point then protects what it sends, and that the station drops it. The
station "has" a key that is in `ic_nw_keys`, also one that its driver refused.

`Roam_proofs` proves `TypeCorrect`, `ReferencesCorrect` and `RoamCorrect` for any number of
frames, with and without management frame protection and band steering, from
`RoamAssumption` (the count has room for all frames and two references more). Neither
property is inductive: they hold because of what the count is between handlers while
nothing is wrong yet. `Counted` says that after a clean copy it is exactly the number of
frames in `ic_mgtq` and the rings (`Held(net, 0)`), whatever the state of the link, or that
no access point was joined yet (`Fresh`), where the reference the record was made with is
still counted, no callback can be installed and the newstate task goes nowhere but to
SCAN. A handler that holds a reference of its own has `Held(x, 1)`, and `ReleaseFacts` leads
back: if the release finds the count 0, no frame is left, so that the copy of
`node_switch_bss` is clean again. The lemmas follow the calls: `NewStateFacts`,
`JoinBssFacts`, `SwitchBssFacts`, `ReleaseFacts`, `SendMgmtFacts`, `TxStoppedFacts`,
`EnterFacts`, then one per action.

*Only model-checked.* All liveness, which is out of the prover's reach: `NoMpduLingers`,
`RequestIsAnswered`, `LinkFollows`, `FailureIsRecovered`, `HandshakeEnds` and `DataResumes`.

## 6. What is not modelled, and why

Everything in the inventory that section 2 leaves open is not modelled yet. Ciphers,
firmware images, register definitions, formatting and the translation between IOKit
objects and `net80211` structures have no state worth exploring; the firmware images
alone are most of the 4.37 million lines of the tree, which is why the share of lines the
modules cover says little. The drivers other than iwm and iwx follow the same contract
with `net80211` on older hardware.

Some hazards have no property, because the code does what such a property would forbid;
the models have the steps. A request is lost with a bit that is cleared under it, or waits
for a deleted task (`RequestIsAnswered` above). A record is REQUESTED without a buffer when
memory is short (`input.c` 3001). A failed key leaves the others of its ring without a task
(`if_iwx.c` 9301). A peer's record is overwritten by `node_copy` with its
timers armed (`node.c` 1758): `JoinBss` of `RxBlockAck` has the step, and `panic` its
outcome, and there is nothing in the code that a property could say prevents it. MPDUs
that wait behind a gap which `gap_skip` leaves in the buffer of an ended agreement stay
there until the next one frees them.

------------------------------ MODULE Timeout ------------------------------
(***************************************************************************)
(* The timeout(9) interface as sys/timeout.c provides it on top of IOKit.  *)
(*                                                                         *)
(* A timeout is an IOTimerEventSource, which is armed or not, and the flag *)
(* isPending that timeout_pending() reports.  The two are written by       *)
(* different code: timeout_add and timeout_del write both, the expiry of   *)
(* the timer disarms it, and timeout_run clears the flag AFTER the         *)
(* callback has returned.  All of it runs on one work loop, so a callback  *)
(* is atomic with respect to every other callback and to packet input.     *)
(***************************************************************************)

(* The states of one timeout.                                              *)
TimeoutType == [armed : BOOLEAN, pending : BOOLEAN]

(* timeout_set: a new, disarmed timer event source.  The event source it   *)
(* replaces is neither cancelled nor removed from the work loop.           *)
TimeoutSet == [armed |-> FALSE, pending |-> FALSE]

(* timeout_add, timeout_add_msec, _sec and _usec: (re)start the timer.     *)
TimeoutAdd == [armed |-> TRUE, pending |-> TRUE]

(* timeout_del: cancel the timer.                                          *)
TimeoutDel == [armed |-> FALSE, pending |-> FALSE]

(* timeout_pending: what the code can see of the state.                    *)
TimeoutPending(to) == to.pending

(* "if (timeout_pending(to)) timeout_del(to)": the guarded cancellation    *)
(* the Block Ack code uses.                                                *)
TimeoutDelIfPending(to) == IF TimeoutPending(to) THEN TimeoutDel ELSE to

(* timeout_run, before the callback: the one-shot timer has expired.       *)
TimeoutExpired(to) == [to EXCEPT !.armed = FALSE]

(* timeout_run, after the callback.                                        *)
TimeoutRan(to) == [to EXCEPT !.pending = FALSE]
=============================================================================

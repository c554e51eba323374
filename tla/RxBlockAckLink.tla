--------------------------- MODULE RxBlockAckLink ---------------------------
(***************************************************************************)
(* The recipient of RxBlockAck at the end of a link to an originator that  *)
(* follows the rules of a Block Ack agreement.  The originator numbers its *)
(* MPDUs, keeps at most a window of them outstanding, transmits each of    *)
(* those any number of times, and moves on when one is acknowledged or     *)
(* given up.  The link loses, repeats and reorders within the window.      *)
(***************************************************************************)
EXTENDS RxBlockAck

CONSTANT MaxAhead   \* bound: how far the originator runs ahead of last

ASSUME MaxAheadAssumption == MaxAhead \in Nat

(* Neither what the originator may send next nor the oldest MPDU it may    *)
(* repeat is half the sequence space away from the window: the first runs  *)
(* ahead by MaxAhead and a window, the second lags by two windows and one  *)
(* for each abandoned gap timer that expires on an empty buffer.           *)
ASSUME SeqSpaceAssumption ==
  \A bufsz \in BufSizes :
    /\ MaxAhead + WindowSize(bufsz) <= SeqMod \div 2
    /\ 2 * (MaxStale + 2) * WindowSize(bufsz) < SeqMod

VARIABLES
  tx,      \* the originator's oldest outstanding MPDU
  next,    \* the MPDU it will transmit next for the first time
  last,    \* the highest MPDU handed up so far, -1 before the first
  count    \* how many MPDUs were handed up so far

linkVars == <<vars, tx, next, last, count>>

(* The places of the MPDUs in the list of what a step handed up.           *)
Handed(b) == {i \in DOMAIN b.up : b.up[i] # NoMpdu}

(* The layer above takes what the step handed up.                          *)
TakeUp ==
  /\ last' = Max({last} \cup {ba'.up[i] : i \in Handed(ba')})
  /\ count' = count + Cardinality(Handed(ba'))

LinkInit ==
  /\ Init
  /\ tx = 0 /\ next = 0
  /\ last = -1 /\ count = 0

(* A first transmission that does not get through.                         *)
Transmit ==
  /\ ba_state = "AGREED"
  /\ next < tx + ba.winsize
  /\ next \in Mpdu
  /\ next' = next + 1
  /\ UNCHANGED <<vars, tx, last, count>>

(* An outstanding MPDU arrives, as a retransmission or not.                *)
Arrive ==
  /\ \E m \in tx .. next - 1 : InputBa(m)
  /\ TakeUp
  /\ UNCHANGED <<tx, next>>

(* The oldest outstanding MPDU is acknowledged or given up.                *)
MoveOn ==
  /\ tx < next
  /\ tx - last < MaxAhead
  /\ tx' = tx + 1
  /\ UNCHANGED <<vars, next, last, count>>

(* After giving up the originator asks the recipient to move its window,   *)
(* with an ADDBA Request if the agreement is protected.                    *)
BlockAckReq ==
  /\ IF pbac THEN RecvAddbaReqAgreed(Sn(tx)) ELSE RecvBar(Sn(tx))
  /\ TakeUp
  /\ UNCHANGED <<tx, next>>

(* A new agreement starts after everything transmitted so far.             *)
Agree ==
  /\ \E bufsz \in BufSizes, inactivity \in BOOLEAN :
       RecvAddbaReq(Sn(next), bufsz, inactivity)
  /\ tx' = next
  /\ UNCHANGED <<next, last, count>>

(* Everything else the recipient does.                                     *)
Elsewhere ==
  /\ \/ AddbaReqDenied
     \/ RecvDelba
     \/ Driver
     \/ Timers
     \/ Interface
  /\ TakeUp
  /\ UNCHANGED <<tx, next>>

LinkNext ==
  ~panic /\ (Transmit \/ Arrive \/ MoveOn \/ BlockAckReq \/ Agree \/ Elsewhere)

LinkSpec == LinkInit /\ [][LinkNext]_linkVars

-----------------------------------------------------------------------------
(* Reordering as the layer above sees it.                                  *)
InOrder == INSTANCE InOrderDelivery WITH batch <- ba.up, Gap <- NoMpdu

(* The recipient implements in-order delivery: whatever the link loses or  *)
(* repeats, and whenever the gap timer moves the window, no MPDU is handed *)
(* up twice or after a later one.                                          *)
DeliversInOrder == InOrder!Spec

(* An MPDU in the buffer was sent in the agreement it is buffered for, and *)
(* nothing beyond it was handed up.                                        *)
BufferedAreNew ==
  ba_buf /\ ba_state # "INIT" =>
    \A m \in Mpdus(ba) : last < m /\ m < next
=============================================================================

--------------------------- MODULE InOrderDelivery ---------------------------
(***************************************************************************)
(* What reordering promises to the layer above: the MPDUs of one TID are   *)
(* handed up in the order their originator numbered them, each at most     *)
(* once.  Some may never be handed up.                                     *)
(***************************************************************************)
EXTENDS Integers, FiniteSets

CONSTANT Gap   \* stands in a batch for an MPDU that was given up

VARIABLES
  batch,   \* what the last step handed up
  last,    \* the highest MPDU handed up so far, -1 before the first
  count    \* how many MPDUs were handed up so far

(* The places in the batch that hold an MPDU, and the last of them.        *)
Taken(b) == {i \in DOMAIN b : b[i] # Gap}
IsFinal(i, b) == i \in Taken(b) /\ \A j \in Taken(b) : j <= i

Init == batch = <<>> /\ last = -1 /\ count = 0

(* A batch of MPDUs, each after the one before it and all after last.      *)
Next ==
  /\ \A i \in Taken(batch') :
       /\ batch'[i] > last
       /\ \A j \in Taken(batch') : j < i => batch'[j] < batch'[i]
  /\ IF Taken(batch') = {} THEN last' = last
     ELSE \E i \in DOMAIN batch' : IsFinal(i, batch') /\ last' = batch'[i]
  /\ count' = count + Cardinality(Taken(batch'))

Spec == Init /\ [][Next]_<<batch, last, count>>
=============================================================================

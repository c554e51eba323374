---------------------------- MODULE KeyAgreement ----------------------------
(***************************************************************************)
(* What a key handshake promises to the two sides of a link: a key is put  *)
(* to use by each side at most once, because putting it to use a second    *)
(* time would start its packet numbers again, and the authenticator uses   *)
(* only a key that the supplicant has confirmed.                           *)
(***************************************************************************)
EXTENDS Sequences, Functions

CONSTANT Keys

VARIABLES
    confirmed,  \* the keys the supplicant has confirmed
    suppUsed,   \* the keys the supplicant has installed, in order
    authUsed    \* the keys the authenticator has installed, in order

avars == <<confirmed, suppUsed, authUsed>>

AInit == confirmed = {} /\ suppUsed = <<>> /\ authUsed = <<>>

(* A side installs a key it has not installed before. *)
Fresh(used, k) == k \notin Range(used)

Confirm(k) == /\ confirmed' = confirmed \cup {k}
              /\ \/ suppUsed' = suppUsed
                 \/ Fresh(suppUsed, k) /\ suppUsed' = Append(suppUsed, k)
              /\ UNCHANGED authUsed

Adopt(k) == /\ k \in confirmed /\ Fresh(authUsed, k)
            /\ authUsed' = Append(authUsed, k)
            /\ UNCHANGED <<confirmed, suppUsed>>

ANext == \E k \in Keys : Confirm(k) \/ Adopt(k)

ASpec == AInit /\ [][ANext]_avars
=============================================================================

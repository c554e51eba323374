--------------------------- MODULE FourWay_proofs ---------------------------
(***************************************************************************)
(* The handshakes between a station and an access point, for any number of *)
(* attempts, associations, nonces, group keys and held frames, on a        *)
(* network that loses, repeats, delays and reorders: the state keeps its   *)
(* types, which bounds the replay counter, no side installs a pairwise key *)
(* twice, open ports have equal keys, and the access point does not wait   *)
(* without a timer while it has mbufs.                                     *)
(***************************************************************************)
EXTENDS FourWay, TLAPS

-----------------------------------------------------------------------------
(* The parts of the invariant.                                             *)

RState == {"INITIALIZE", "PTKSTART", "PTKCALCNEGOTIATING", "PTKINITNEGOTIATING",
           "PTKINITDONE"}

(* The record ap, with any number of attempts and transmissions.           *)
ApWide == [assoc : 0 .. MaxAssoc, here : BOOLEAN, rstate : RState,
           gstate : {"IDLE", "REKEYNEGOTIATING"},
           cnt : Int, ptk : Ptk \cup {None}, key : Ptk \cup {None},
           retries : Nat, timer : BOOLEAN, rekey : BOOLEAN,
           crossed : BOOLEAN, prot : BOOLEAN, port : BOOLEAN,
           txkey : Kid, gtk : [Kid -> Gtk \cup {None}], gtks : Gtk]

StaType == [link : {"auth", "assoc", "run"}, assoc : 0 .. MaxAssoc,
            state : {"INITIALIZE", "PTKSTART", "PTKNEGOTIATING", "PTKDONE"},
            anonce : 0 .. MaxAssoc, snonce : 0 .. MaxNonce,
            replaycnt : 0 .. MaxCnt, ok : BOOLEAN, newptk : BOOLEAN,
            ptk : Ptk \cup {None}, key : Ptk \cup {None},
            rxprot : BOOLEAN, txprot : BOOLEAN, port : BOOLEAN]

(* The handshakes of the association that are over: each had MaxRetries    *)
(* attempts of its own.                                                    *)
Over(a) == (IF a.rstate \in {"PTKINITNEGOTIATING", "PTKINITDONE"} THEN 1 ELSE 0)
           + (IF a.rstate = "PTKINITDONE" THEN 1 ELSE 0)
           + (a.gtks - 1) - (IF a.gstate = "IDLE" THEN 0 ELSE 1)

(* The transmissions of k handshakes.                                      *)
Cap(k) == MaxRetries * k

(* The access point begins or expects message 2: it has no key of this     *)
(* association.                                                            *)
Keyless(a) == a.rstate \in {"PTKSTART", "PTKCALCNEGOTIATING"}

Waits(a) == Keyless(a) \/ a.rstate = "PTKINITNEGOTIATING"

(* What holds of the record of the access point, also within a handler.    *)
ApCore(a) ==
    /\ a \in ApWide
    /\ a.retries <= MaxRetries /\ -1 <= a.cnt /\ a.cnt < MaxCnt
    /\ a.gtk[a.txkey] \in Gtk
    /\ a.rekey => a.gtk[OtherKid(a)] \in Gtk
    /\ a.timer => a.here
    /\ ~a.here => a.rstate = "INITIALIZE" /\ a.gstate = "IDLE" /\ ~a.port
    /\ a.here => a.cnt < Cap(Over(a)) + a.retries /\ a.assoc # 0
    /\ a.gstate # "IDLE" => a.gtks > 1
    /\ a.rstate \in {"PTKINITNEGOTIATING", "PTKINITDONE"} =>
         a.ptk \in Ptk /\ a.ptk[1] = a.assoc
    /\ a.port => a.rstate = "PTKINITDONE" /\ a.key = a.ptk
    /\ Waits(a) /\ a.gstate # "IDLE" => a.crossed

(* ... and between handlers.                                               *)
ApInv(a) == ApCore(a) /\ (~MbufsFail /\ Waits(a) => a.timer \/ a.crossed)

(* A frame of each type carries what its type needs.                       *)
WellFormed(m) ==
    /\ m \in Message
    /\ m.type \in {"1", "3"} => m.nonce \in 1 .. MaxAssoc
    /\ m.type = "2" => m.nonce \in 1 .. MaxNonce
    /\ m.type \in {"2", "3", "4"} => m.mic \in Ptk
    /\ m.type \in {"3", "G1"} => m.kid \in Kid /\ m.gtk \in Gtk

(* The key of the access point has a nonce the station has drawn.          *)
Drawn(a) == a.rstate \in {"PTKINITNEGOTIATING", "PTKINITDONE"} => a.ptk[2] <= sta.snonce

(* Message 2 has a nonce the station has drawn.                            *)
Msg2OK(m) == m.type = "2" => m.mic[2] <= sta.snonce

(* Message 3 of the present association has the key of the access point;   *)
(* in an earlier one it has a nonce the station has replaced.              *)
Msg3OK(m) ==
    m.type = "3" =>
      /\ m.mic[1] <= ap.assoc /\ m.mic[2] <= sta.snonce
      /\ m.mic[1] = ap.assoc => m.mic = ap.ptk /\ ~Keyless(ap)
      /\ m.mic[1] < ap.assoc /\ sta.state \in {"PTKNEGOTIATING", "PTKDONE"} =>
           m.mic[2] < sta.snonce

(* Message 4 of the present association has the key of both sides.         *)
Msg4OK(m) ==
    m.type = "4" =>
      /\ m.mic[1] <= ap.assoc
      /\ m.mic[1] = ap.assoc =>
           /\ m.mic = ap.ptk /\ ~Keyless(ap)
           /\ sta.assoc = ap.assoc
           /\ sta.link = "run" => sta.key = m.mic

Sent == net \cup Range(held)

StaInv ==
    /\ sta \in StaType
    /\ sta.state # "INITIALIZE" => sta.link = "run"
    /\ sta.link = "run" => sta.assoc = ap.assoc
    /\ sta.state \in {"PTKNEGOTIATING", "PTKDONE"} =>
         /\ sta.anonce # 0 /\ sta.snonce # 0
         /\ ~sta.newptk => sta.key = <<sta.anonce, sta.snonce>>

UsedInv ==
    /\ staUsed \in Seq(Ptk) /\ gkUsed \in Seq(Gtk) /\ apUsed \in Seq(Ptk)
    /\ \A k \in Range(staUsed) :
         k[2] <= sta.snonce /\ (sta.newptk => k[2] < sta.snonce)
    /\ \A k \in Range(apUsed) :
         k[1] <= ap.assoc /\ (k[1] = ap.assoc => ~Waits(ap))

IInv ==
    /\ StaInv /\ ApInv(ap) /\ Drawn(ap) /\ UsedInv
    /\ gk \in [Kid -> Gtk \cup {None}]
    /\ held \in Seq(Message) /\ Len(held) <= MaxHeld
    /\ \A m \in Sent : WellFormed(m) /\ Msg2OK(m) /\ Msg4OK(m)
    /\ \A m \in net : Msg3OK(m)
    /\ \A m \in Range(held) : m.type # "3"
    /\ ap.port => \E m \in net : m.type = "4" /\ m.mic = ap.ptk

-----------------------------------------------------------------------------
(* The number of transmissions.                                            *)

LEMMA CapFacts ==
    ASSUME NEW k \in Int
    PROVE  Cap(k) \in Int /\ Cap(k + 1) = Cap(k) + MaxRetries
BY FourWayAssumption DEF Cap

LEMMA CapMonotone ==
    ASSUME NEW j \in Int, NEW k \in Int, j <= k
    PROVE  Cap(j) <= Cap(k)
<1>1. PICK d \in Nat : k = j + d OBVIOUS
<1>2. MaxRetries * d >= 0 BY FourWayAssumption
<1>3. MaxRetries * (j + d) = MaxRetries * j + MaxRetries * d BY FourWayAssumption
<1> QED BY <1>1, <1>2, <1>3, FourWayAssumption DEF Cap

LEMMA MaxCntIsCap == MaxCnt = Cap(2 + MaxGtk) /\ MaxCnt \in Nat
BY FourWayAssumption DEF MaxCnt, Cap

LEMMA CapZero == Cap(0) = 0
BY FourWayAssumption DEF Cap

LEMMA OverFacts ==
    ASSUME NEW a \in ApWide, a.gstate # "IDLE" => a.gtks > 1
    PROVE  Over(a) \in Nat /\ Over(a) <= 1 + MaxGtk
BY FourWayAssumption DEF Over, ApWide, Gtk, RState

-----------------------------------------------------------------------------
(* What the handlers of the access point do to its record.                 *)

LEMMA OtherKidFacts ==
    ASSUME NEW a \in ApWide
    PROVE  OtherKid(a) \in Kid
BY DEF OtherKid, ApWide, Kid

(* The next group key comes into use.                                      *)
LEMMA SetKeysDoneFacts ==
    ASSUME NEW a \in ApWide
    PROVE  SetKeysDone(a) = [a EXCEPT !.txkey = OtherKid(a)] /\ SetKeysDone(a) \in ApWide
BY OtherKidFacts DEF SetKeysDone, ApWide

(* A station that has left has no timer, no handshake and no port.         *)
LEMMA NodeLeaveInv ==
    ASSUME NEW a \in ApWide, -1 <= a.cnt, a.cnt < MaxCnt, a.gtk[a.txkey] \in Gtk,
           a.rekey => a.gtk[OtherKid(a)] \in Gtk
    PROVE  /\ ApInv(NodeLeave(a))
           /\ NodeLeave(a).assoc = a.assoc /\ NodeLeave(a).ptk = a.ptk
           /\ NodeLeave(a).gtk = a.gtk
           /\ NodeLeave(a).rstate = "INITIALIZE" /\ ~NodeLeave(a).here
<1> DEFINE b == IF a.rekey THEN SetKeysDone([a EXCEPT !.rekey = FALSE]) ELSE a
           n == [b EXCEPT !.here = FALSE, !.rstate = "INITIALIZE", !.gstate = "IDLE",
                          !.timer = FALSE, !.retries = 0, !.prot = FALSE, !.port = FALSE,
                          !.key = None]
<1>1. /\ b \in ApWide /\ b.cnt = a.cnt /\ b.assoc = a.assoc /\ b.ptk = a.ptk
      /\ b.gtk = a.gtk /\ b.gtk[b.txkey] \in Gtk
      /\ b.rekey => b.gtk[OtherKid(b)] \in Gtk
  <2>1. CASE ~a.rekey BY <2>1
  <2>2. CASE a.rekey
    <3> DEFINE c == [a EXCEPT !.rekey = FALSE]
    <3>1. /\ c \in ApWide /\ c.cnt = a.cnt /\ c.assoc = a.assoc /\ c.ptk = a.ptk
          /\ c.gtk = a.gtk /\ OtherKid(c) = OtherKid(a) /\ ~c.rekey
      BY DEF ApWide, OtherKid
    <3>2. b = [c EXCEPT !.txkey = OtherKid(c)] /\ b \in ApWide
      BY <2>2, <3>1, SetKeysDoneFacts
    <3> HIDE DEF b, c
    <3> QED BY <2>2, <3>1, <3>2 DEF ApWide
  <2> QED BY <2>1, <2>2
<1>2. NodeLeave(a) = n BY DEF NodeLeave
<1> HIDE DEF b
<1>3. n \in ApWide BY <1>1 DEF ApWide, RState
<1>4. /\ n.assoc = a.assoc /\ n.ptk = a.ptk /\ n.gtk = a.gtk /\ n.cnt = a.cnt
      /\ n.retries = 0 /\ ~n.timer /\ ~n.here /\ ~n.port
      /\ n.rstate = "INITIALIZE" /\ n.gstate = "IDLE"
      /\ n.txkey = b.txkey /\ n.rekey = b.rekey /\ OtherKid(n) = OtherKid(b)
  BY <1>1 DEF ApWide, OtherKid
<1> HIDE DEF n
<1>5. ApInv(n) BY <1>1, <1>3, <1>4, FourWayAssumption DEF ApInv, ApCore, Waits, Keyless
<1> QED BY <1>2, <1>4, <1>5

ApOut == [ap : ApWide, out : SUBSET Message]

(* A frame of the access point: its type and what it carries are given.    *)
LEMMA ApFrameFacts ==
    ASSUME NEW a \in ApWide, 0 <= a.cnt, a.cnt < MaxCnt,
           NEW type \in {"1", "3", "G1"}, NEW nonce \in 0 .. MaxAssoc,
           NEW mic \in Ptk \cup {None}, NEW kid \in {0} \cup Kid, NEW gtk \in {0} \cup Gtk,
           type \in {"1", "3"} => nonce # 0, type = "3" => mic \in Ptk,
           type \in {"3", "G1"} => kid # 0 /\ gtk # 0
    PROVE  /\ WellFormed(ApFrame(a, type, nonce, mic, kid, gtk))
           /\ ApFrame(a, type, nonce, mic, kid, gtk).type = type
           /\ ApFrame(a, type, nonce, mic, kid, gtk).mic = mic
<1> DEFINE m == ApFrame(a, type, nonce, mic, kid, gtk)
<1>1. m = [type |-> type, cnt |-> a.cnt, nonce |-> nonce, mic |-> mic,
           prot |-> IF a.prot THEN a.key ELSE None, kid |-> kid, gtk |-> gtk]
  BY DEF ApFrame
<1>2. /\ a.cnt \in 0 .. MaxCnt /\ nonce \in 0 .. MaxNonce + MaxAssoc
      /\ (IF a.prot THEN a.key ELSE None) \in Ptk \cup {None}
  BY MaxCntIsCap, FourWayAssumption DEF ApWide
<1> HIDE DEF m
<1>3. m \in Message BY <1>1, <1>2 DEF Message
<1>4. /\ m.type = type /\ m.nonce = nonce /\ m.mic = mic /\ m.kid = kid /\ m.gtk = gtk
  BY <1>1
<1>5. WellFormed(m) BY <1>3, <1>4, FourWayAssumption DEF WellFormed
<1> QED BY <1>4, <1>5 DEF m

(* Records that differ in the attempts, the counter and the timer at most. *)
Alike(b, a) ==
    /\ b.assoc = a.assoc /\ b.here = a.here /\ b.rstate = a.rstate /\ b.gstate = a.gstate
    /\ b.ptk = a.ptk /\ b.key = a.key /\ b.rekey = a.rekey /\ b.crossed = a.crossed
    /\ b.port = a.port /\ b.txkey = a.txkey /\ b.gtk = a.gtk /\ b.gtks = a.gtks

LEMMA AlikeFacts ==
    ASSUME NEW a, NEW b, Alike(b, a)
    PROVE  /\ Over(b) = Over(a) /\ OtherKid(b) = OtherKid(a)
           /\ Keyless(b) = Keyless(a) /\ Waits(b) = Waits(a)
BY DEF Alike, Over, OtherKid, Keyless, Waits

(* One attempt more; and the same with a frame and a timer.                *)
Tried(a) == [a EXCEPT !.retries = @ + 1]
Transmitted(a) == [Tried(a) EXCEPT !.cnt = @ + 1, !.timer = TRUE]

LEMMA TriedFacts ==
    ASSUME NEW a \in ApWide
    PROVE  /\ Tried(a) \in ApWide /\ Alike(Tried(a), a)
           /\ Tried(a).retries = a.retries + 1 /\ Tried(a).cnt = a.cnt
           /\ Tried(a).timer = a.timer
<1>1. Tried(a) \in ApWide BY DEF Tried, ApWide
<1>2. Alike(Tried(a), a) BY DEF Tried, ApWide, Alike
<1>3. Tried(a).retries = a.retries + 1 /\ Tried(a).cnt = a.cnt BY DEF Tried, ApWide
<1>4. Tried(a).timer = a.timer BY DEF Tried, ApWide
<1> QED BY <1>1, <1>2, <1>3, <1>4

LEMMA TransmittedFacts ==
    ASSUME NEW a \in ApWide
    PROVE  /\ Transmitted(a) \in ApWide /\ Alike(Transmitted(a), a)
           /\ Transmitted(a).retries = a.retries + 1 /\ Transmitted(a).cnt = a.cnt + 1
           /\ Transmitted(a).timer = TRUE
<1> DEFINE t == Tried(a)
           s == [t EXCEPT !.cnt = @ + 1, !.timer = TRUE]
<1>0. Transmitted(a) = s BY DEF Transmitted
<1>1. /\ t \in ApWide /\ Alike(t, a) /\ t.retries = a.retries + 1 /\ t.cnt = a.cnt
  BY TriedFacts
<1> HIDE DEF t
<1>2. s \in ApWide
  <2>1. t.cnt + 1 \in Int BY <1>1 DEF ApWide
  <2>2. s = [[t EXCEPT !.cnt = t.cnt + 1] EXCEPT !.timer = TRUE] OBVIOUS
  <2> DEFINE u == [t EXCEPT !.cnt = t.cnt + 1]
  <2>3. u \in ApWide BY <1>1, <2>1 DEF ApWide
  <2> HIDE DEF u
  <2>4. [u EXCEPT !.timer = TRUE] \in ApWide BY <2>3 DEF ApWide
  <2> QED BY <2>2, <2>4 DEF u
<1>3. Alike(s, t) BY <1>1 DEF ApWide, Alike
<1>4. s.retries = t.retries /\ s.cnt = t.cnt + 1 BY <1>1 DEF ApWide
<1>5. s.timer = TRUE BY <1>1 DEF ApWide
<1> HIDE DEF s
<1> QED BY <1>0, <1>1, <1>2, <1>3, <1>4, <1>5 DEF Alike

(* The counter stays below its bound while attempts are left.              *)
LEMMA CountBelow ==
    ASSUME NEW a \in ApWide, ApCore(a), a.here, a.retries + 1 <= MaxRetries
    PROVE  a.cnt + 1 < MaxCnt /\ a.cnt + 1 < Cap(Over(a)) + a.retries + 1
<1>1. /\ a.retries \in Nat /\ a.cnt \in Int /\ Over(a) \in Nat /\ Over(a) <= 1 + MaxGtk
      /\ Cap(Over(a)) \in Int
  BY OverFacts, CapFacts DEF ApCore, ApWide
<1>2. Cap(Over(a) + 1) = Cap(Over(a)) + MaxRetries BY <1>1, CapFacts
<1>3. Cap(Over(a) + 1) <= MaxCnt /\ MaxCnt \in Nat
  BY <1>1, CapMonotone, MaxCntIsCap, FourWayAssumption
<1>4. a.cnt < Cap(Over(a)) + a.retries BY DEF ApCore
<1> QED BY <1>1, <1>2, <1>3, <1>4, FourWayAssumption

LEMMA CoreAlike ==
    ASSUME NEW a \in ApWide, ApCore(a), a.here, NEW b \in ApWide, Alike(b, a),
           b.retries = a.retries + 1, b.retries <= MaxRetries,
           b.cnt = a.cnt \/ b.cnt = a.cnt + 1
    PROVE  ApCore(b)
<1>1. /\ Over(b) = Over(a) /\ OtherKid(b) = OtherKid(a) /\ Waits(b) = Waits(a)
  BY AlikeFacts
<1>2. /\ a.cnt + 1 < MaxCnt /\ a.cnt + 1 < Cap(Over(a)) + a.retries + 1
      /\ a.cnt \in Int /\ -1 <= a.cnt /\ a.retries \in Nat
  BY CountBelow DEF ApCore, ApWide
<1>3. Cap(Over(a)) \in Int /\ MaxCnt \in Nat
  BY OverFacts, CapFacts, MaxCntIsCap DEF ApCore, ApWide
<1>4. b.retries <= MaxRetries /\ -1 <= b.cnt /\ b.cnt < MaxCnt
      /\ b.cnt < Cap(Over(b)) + b.retries
  BY <1>1, <1>2, <1>3
<1> QED BY <1>1, <1>4 DEF ApCore, Alike

(* What r is to x when a frame of the given type is sent: the handshake is *)
(* in state rstate, with a frame on its way and a timer unless there is no *)
(* mbuf, or the station is sent away.                                      *)
Sends(r, x, rstate, noMbuf, type, mic) ==
    /\ r \in ApOut /\ ApCore(r.ap)
    /\ r.ap.assoc = x.ap.assoc /\ r.ap.ptk = x.ap.ptk /\ r.ap.gtk = x.ap.gtk
    /\ r.ap.rstate = rstate \/ r.ap.rstate = "INITIALIZE"
    /\ r.ap.here => r.ap.crossed = x.ap.crossed
    /\ r.ap.port => x.ap.port
    /\ r.ap.here /\ ~noMbuf => r.ap.timer
    /\ \A m \in r.out : m \in x.out \/ (WellFormed(m) /\ m.type = type /\ m.mic = mic)

(* What is sent fits the type of the frame.                                *)
Fits(a, type, nonce, mic, kid) ==
    /\ type \in {"1", "3", "G1"} /\ nonce \in 0 .. MaxAssoc
    /\ mic \in Ptk \cup {None} /\ kid \in {0} \cup Kid
    /\ type \in {"1", "3"} => nonce # 0
    /\ type = "3" => mic \in Ptk
    /\ type \in {"3", "G1"} => kid # 0
    /\ kid # 0 => a.gtk[kid] \in Gtk

LEMMA SendKeyFacts ==
    ASSUME NEW x \in ApOut, NEW a \in ApWide, ApCore(a), a.here, NEW noMbuf \in BOOLEAN,
           NEW type, NEW nonce, NEW mic, NEW kid, Fits(a, type, nonce, mic, kid),
           a.assoc = x.ap.assoc, a.ptk = x.ap.ptk, a.gtk = x.ap.gtk,
           a.crossed = x.ap.crossed, a.port = x.ap.port
    PROVE  Sends(SendKey(x, a, noMbuf, type, nonce, mic, kid), x, a.rstate, noMbuf, type, mic)
<1> DEFINE r == SendKey(x, a, noMbuf, type, nonce, mic, kid)
           t == Tried(a)
           s == Transmitted(a)
           gtk == IF kid = 0 THEN 0 ELSE a.gtk[kid]
           f == ApFrame(s, type, nonce, mic, kid, gtk)
<1>1. r = IF t.retries > MaxRetries THEN [x EXCEPT !.ap = NodeLeave(t)]
          ELSE IF noMbuf THEN [x EXCEPT !.ap = t]
          ELSE [ap |-> s, out |-> x.out \cup {f}]
  BY DEF SendKey, Tried, Transmitted
<1>2. /\ t \in ApWide /\ Alike(t, a) /\ t.retries = a.retries + 1 /\ t.cnt = a.cnt
      /\ t.timer = a.timer
  BY TriedFacts
<1>3. /\ s \in ApWide /\ Alike(s, a) /\ s.retries = a.retries + 1 /\ s.cnt = a.cnt + 1
      /\ s.timer = TRUE
  BY TransmittedFacts
<1>4. /\ type \in {"1", "3", "G1"} /\ nonce \in 0 .. MaxAssoc
      /\ mic \in Ptk \cup {None} /\ kid \in {0} \cup Kid
      /\ gtk \in {0} \cup Gtk
  BY FourWayAssumption DEF Fits, Gtk
<1>9. /\ type \in {"1", "3"} => nonce # 0
      /\ type = "3" => mic \in Ptk
      /\ type \in {"3", "G1"} => kid # 0 /\ gtk # 0
  BY FourWayAssumption DEF Fits, Gtk
<1>5. /\ a.retries \in Nat /\ a.cnt \in Int /\ -1 <= a.cnt /\ a.cnt < MaxCnt
      /\ MaxRetries \in Nat
  BY FourWayAssumption DEF ApCore, ApWide
<1> HIDE DEF r, t, s, gtk, f
<1>6. CASE t.retries > MaxRetries
  <2> DEFINE n == NodeLeave(t)
  <2>1. t.gtk[t.txkey] \in Gtk /\ (t.rekey => t.gtk[OtherKid(t)] \in Gtk)
    BY <1>2, AlikeFacts DEF ApCore, Alike
  <2>2. /\ ApInv(n) /\ n.assoc = t.assoc /\ n.ptk = t.ptk /\ n.gtk = t.gtk
        /\ n.rstate = "INITIALIZE" /\ ~n.here
    BY <1>2, <1>5, <2>1, NodeLeaveInv
  <2>3. r = [x EXCEPT !.ap = n] BY <1>1, <1>6
  <2> HIDE DEF n
  <2>4. r.ap = n /\ r.out = x.out /\ r \in ApOut
    BY <2>2, <2>3 DEF ApOut, ApInv, ApCore
  <2>5. ApCore(n) /\ ~n.port BY <2>2 DEF ApInv, ApCore
  <2> QED BY <1>2, <2>2, <2>4, <2>5 DEF Sends, Alike, r
<1>7. CASE ~(t.retries > MaxRetries) /\ noMbuf
  <2>1. t.retries <= MaxRetries BY <1>2, <1>5, <1>7
  <2>2. ApCore(t) BY <1>2, <2>1, CoreAlike
  <2>3. r = [x EXCEPT !.ap = t] BY <1>1, <1>7
  <2>4. r.ap = t /\ r.out = x.out /\ r \in ApOut BY <1>2, <2>3 DEF ApOut
  <2> QED BY <1>2, <1>7, <2>2, <2>4 DEF Sends, Alike, r
<1>8. CASE ~(t.retries > MaxRetries) /\ ~noMbuf
  <2>1. s.retries <= MaxRetries BY <1>2, <1>3, <1>5, <1>8
  <2>2. ApCore(s) BY <1>3, <2>1, CoreAlike
  <2>3. 0 <= s.cnt /\ s.cnt < MaxCnt BY <1>3, <1>5, <2>1, CountBelow
  <2>4. WellFormed(f) /\ f.type = type /\ f.mic = mic
    <3>1. f = ApFrame(s, type, nonce, mic, kid, gtk) BY DEF f
    <3> QED BY <1>3, <1>4, <1>9, <2>3, <3>1, ApFrameFacts
  <2>5. r = [ap |-> s, out |-> x.out \cup {f}] BY <1>1, <1>8
  <2>6. r.ap = s /\ r.out = x.out \cup {f} /\ r \in ApOut
    BY <1>3, <2>4, <2>5 DEF ApOut, WellFormed
  <2> QED BY <1>3, <1>8, <2>2, <2>4, <2>6 DEF Sends, Alike, r
<1> QED BY <1>6, <1>7, <1>8 DEF r

LEMMA SendMsg1Facts ==
    ASSUME NEW x \in ApOut, x.ap.here, ApCore([x.ap EXCEPT !.rstate = "PTKSTART"]),
           NEW noMbuf \in BOOLEAN
    PROVE  Sends(SendMsg1(x, noMbuf), x, "PTKSTART", noMbuf, "1", None)
<1> DEFINE a == [x.ap EXCEPT !.rstate = "PTKSTART"]
<1>1. SendMsg1(x, noMbuf) = SendKey(x, a, noMbuf, "1", x.ap.assoc, None, 0) BY DEF SendMsg1
<1>2. x.ap \in ApWide BY DEF ApOut
<1>3. a \in ApWide BY DEF ApCore
<1>4. /\ a.assoc = x.ap.assoc /\ a.ptk = x.ap.ptk /\ a.gtk = x.ap.gtk
      /\ a.crossed = x.ap.crossed /\ a.here = x.ap.here /\ a.port = x.ap.port /\ a.rstate = "PTKSTART"
  BY <1>2 DEF ApWide
<1>5. ApCore(a) OBVIOUS
<1> HIDE DEF a
<1>6. x.ap.assoc \in 0 .. MaxAssoc /\ x.ap.assoc # 0 BY <1>2, <1>4, <1>5 DEF ApCore, ApWide
<1>7. Fits(a, "1", x.ap.assoc, None, 0) BY <1>6 DEF Fits
<1> QED BY <1>1, <1>3, <1>4, <1>5, <1>7, SendKeyFacts

LEMMA SendMsg3Facts ==
    ASSUME NEW x \in ApOut, x.ap.here, ApCore([x.ap EXCEPT !.rstate = "PTKINITNEGOTIATING"]),
           NEW noMbuf \in BOOLEAN
    PROVE  Sends(SendMsg3(x, noMbuf), x, "PTKINITNEGOTIATING", noMbuf, "3", x.ap.ptk)
<1> DEFINE a == [x.ap EXCEPT !.rstate = "PTKINITNEGOTIATING"]
<1>1. SendMsg3(x, noMbuf) = SendKey(x, a, noMbuf, "3", x.ap.assoc, x.ap.ptk, x.ap.txkey)
  BY DEF SendMsg3
<1>2. x.ap \in ApWide BY DEF ApOut
<1>3. a \in ApWide BY DEF ApCore
<1>4. /\ a.assoc = x.ap.assoc /\ a.ptk = x.ap.ptk /\ a.gtk = x.ap.gtk
      /\ a.crossed = x.ap.crossed /\ a.here = x.ap.here /\ a.port = x.ap.port /\ a.rstate = "PTKINITNEGOTIATING"
      /\ a.txkey = x.ap.txkey
  BY <1>2 DEF ApWide
<1>5. ApCore(a) OBVIOUS
<1> HIDE DEF a
<1>6. x.ap.assoc \in 0 .. MaxAssoc /\ x.ap.assoc # 0 BY <1>2, <1>4, <1>5 DEF ApCore, ApWide
<1>7. x.ap.ptk \in Ptk /\ a.gtk[x.ap.txkey] \in Gtk BY <1>4, <1>5 DEF ApCore
<1>8. x.ap.txkey \in Kid /\ x.ap.txkey # 0 BY <1>2 DEF ApWide, Kid
<1>9. Fits(a, "3", x.ap.assoc, x.ap.ptk, x.ap.txkey) BY <1>6, <1>7, <1>8 DEF Fits
<1>10. Sends(SendKey(x, a, noMbuf, "3", x.ap.assoc, x.ap.ptk, x.ap.txkey), x, a.rstate,
             noMbuf, "3", x.ap.ptk)
  BY <1>3, <1>4, <1>5, <1>9, SendKeyFacts
<1> QED BY <1>1, <1>4, <1>10

LEMMA SendGroupMsg1Facts ==
    ASSUME NEW x \in ApOut, x.ap.here, ApCore([x.ap EXCEPT !.gstate = "REKEYNEGOTIATING"]),
           NEW noMbuf \in BOOLEAN
    PROVE  Sends(SendGroupMsg1(x, noMbuf), x, x.ap.rstate, noMbuf, "G1", x.ap.ptk)
<1> DEFINE a == [x.ap EXCEPT !.gstate = "REKEYNEGOTIATING"]
           kid == IF x.ap.rekey THEN OtherKid(x.ap) ELSE x.ap.txkey
<1>1. SendGroupMsg1(x, noMbuf) = SendKey(x, a, noMbuf, "G1", 0, x.ap.ptk, kid)
  BY DEF SendGroupMsg1
<1>2. x.ap \in ApWide BY DEF ApOut
<1>3. a \in ApWide BY DEF ApCore
<1>4. /\ a.assoc = x.ap.assoc /\ a.ptk = x.ap.ptk /\ a.gtk = x.ap.gtk
      /\ a.crossed = x.ap.crossed /\ a.here = x.ap.here /\ a.port = x.ap.port /\ a.rstate = x.ap.rstate
      /\ a.txkey = x.ap.txkey /\ a.rekey = x.ap.rekey /\ OtherKid(a) = OtherKid(x.ap)
  BY <1>2 DEF ApWide, OtherKid
<1>5. ApCore(a) OBVIOUS
<1>6. kid \in Kid /\ kid # 0 BY <1>2, OtherKidFacts DEF ApWide, Kid
<1> HIDE DEF a
<1>7. a.gtk[kid] \in Gtk BY <1>4, <1>5 DEF ApCore
<1>8. x.ap.ptk \in Ptk \cup {None} BY <1>2 DEF ApWide
<1> HIDE DEF kid
<1>9. Fits(a, "G1", 0, x.ap.ptk, kid) BY <1>6, <1>7, <1>8, FourWayAssumption DEF Fits
<1>10. Sends(SendKey(x, a, noMbuf, "G1", 0, x.ap.ptk, kid), x, a.rstate,
             noMbuf, "G1", x.ap.ptk)
  BY <1>3, <1>4, <1>5, <1>9, SendKeyFacts
<1> QED BY <1>1, <1>4, <1>10

-----------------------------------------------------------------------------
(* The handlers of the access point.  What the rest of the invariant needs *)
(* of the record x.ap and the frames x.out that a handler ends with.       *)

KeepsStation(x) ==
    /\ x \in ApOut /\ ApCore(x.ap)
    /\ x.ap.assoc = ap.assoc
    /\ Keyless(ap) \/ x.ap.ptk = ap.ptk
    /\ Keyless(x.ap) => Keyless(ap)
    /\ Waits(x.ap) => Waits(ap)
    /\ Drawn(x.ap)
    /\ \A m \in x.out :
         /\ WellFormed(m) /\ m.type \in {"1", "3", "G1"}
         /\ m.type = "3" => /\ m.mic = x.ap.ptk /\ ~Keyless(x.ap)
                            /\ m.mic[1] = ap.assoc /\ m.mic[2] <= sta.snonce

(* ... when the handler opens no port and adopts no key.                   *)
Handled == \E x \in ApOut : /\ KeepsStation(x) /\ ApInv(x.ap)
                            /\ x.ap.port => ap.port
                            /\ ap' = x.ap /\ net' = net \cup x.out

LEMMA NoMbufFacts == NoMbuf \subseteq BOOLEAN /\ (~MbufsFail => NoMbuf = {FALSE})
BY FourWayAssumption DEF NoMbuf

LEMMA HereFacts ==
    ASSUME NEW a \in ApWide
    PROVE  Here(a) \in ApOut /\ Here(a).ap = a /\ Here(a).out = {}
BY DEF Here, ApOut

LEMMA ApLeaveHandled ==
    ASSUME IInv, ApLeave
    PROVE  Handled
<1> DEFINE n == NodeLeave(ap)
<1>1. ap \in ApWide /\ ApCore(ap) BY DEF IInv, ApInv, ApCore
<1>2. /\ ApInv(n) /\ n.assoc = ap.assoc /\ n.ptk = ap.ptk /\ n.rstate = "INITIALIZE" /\ ~n.here
  BY <1>1, NodeLeaveInv DEF ApCore
<1>3. ap' = Here(n).ap /\ net' = net \cup Here(n).out BY DEF ApLeave, Becomes
<1> HIDE DEF n
<1>4. n \in ApWide /\ ApCore(n) /\ ~n.port BY <1>2 DEF ApInv, ApCore
<1>5. Here(n) \in ApOut /\ Here(n).ap = n /\ Here(n).out = {} BY <1>4, HereFacts
<1>6. KeepsStation(Here(n))
  BY <1>2, <1>4, <1>5 DEF KeepsStation, Keyless, Waits, Drawn
<1> QED BY <1>2, <1>3, <1>4, <1>5, <1>6 DEF Handled

LEMMA EapolTimeoutHandled ==
    ASSUME IInv, EapolTimeout
    PROVE  Handled
<1>1. /\ ap \in ApWide /\ ApCore(ap) /\ ap.timer /\ ap.here /\ Drawn(ap)
      /\ ap.assoc \in Nat
  BY DEF IInv, ApInv, ApCore, EapolTimeout, ApWide
<1> DEFINE a == [ap EXCEPT !.timer = FALSE]
           x == Here(a)
           First(nm) == IF ap.rstate \in {"PTKSTART", "PTKCALCNEGOTIATING"} THEN SendMsg1(x, nm)
                        ELSE IF ap.rstate = "PTKINITNEGOTIATING" THEN SendMsg3(x, nm)
                        ELSE x
           Second(y, nm) == IF y.ap.gstate = "REKEYNEGOTIATING" THEN SendGroupMsg1(y, nm)
                            ELSE y
<1>2. PICK nm1 \in NoMbuf, nm2 \in NoMbuf : Becomes(Second(First(nm1), nm2))
  BY DEF EapolTimeout
<1>3. nm1 \in BOOLEAN /\ nm2 \in BOOLEAN /\ (~MbufsFail => ~nm1 /\ ~nm2)
  BY NoMbufFacts
<1>4. /\ a \in ApWide /\ Alike(a, ap) /\ a.retries = ap.retries /\ a.cnt = ap.cnt
      /\ ~a.timer
  <2>1. a \in ApWide BY <1>1 DEF ApWide
  <2>2. Alike(a, ap) BY <1>1 DEF ApWide, Alike
  <2>3. a.retries = ap.retries /\ a.cnt = ap.cnt /\ ~a.timer BY <1>1 DEF ApWide
  <2> QED BY <2>1, <2>2, <2>3
<1> HIDE DEF a
<1>5. ApCore(a) BY <1>1, <1>4, AlikeFacts DEF ApCore, Alike
<1>6. x \in ApOut /\ x.ap = a /\ x.out = {} BY <1>4, HereFacts
<1> HIDE DEF x
<1> DEFINE y == First(nm1)
           z == Second(y, nm2)
<1>7. /\ KeepsStation(y) /\ y.ap.ptk = ap.ptk
      /\ y.ap.here /\ ~nm1 /\ Waits(y.ap) => y.ap.timer
      /\ y.ap.port => ap.port
  <2>1. CASE ap.rstate \in {"PTKSTART", "PTKCALCNEGOTIATING"}
    <3> DEFINE b == [x.ap EXCEPT !.rstate = "PTKSTART"]
    <3>1. /\ b \in ApWide /\ b.rstate = "PTKSTART" /\ b.cnt = a.cnt /\ b.retries = a.retries
          /\ b.timer = a.timer /\ b.here = a.here /\ b.assoc = a.assoc /\ b.gtk = a.gtk
          /\ b.txkey = a.txkey /\ b.rekey = a.rekey /\ b.gstate = a.gstate
          /\ b.port = a.port /\ b.gtks = a.gtks /\ b.crossed = a.crossed
      BY <1>4, <1>6 DEF ApWide, RState
    <3>2. a.rstate \in {"PTKSTART", "PTKCALCNEGOTIATING"} BY <1>4, <2>1 DEF Alike
    <3> HIDE DEF b
    <3>3. OtherKid(b) = OtherKid(a) /\ Over(b) = Over(a) /\ Waits(b) /\ Waits(a)
      BY <3>1, <3>2 DEF OtherKid, Over, Waits, Keyless
    <3>4. ApCore(b) BY <1>5, <3>1, <3>2, <3>3 DEF ApCore
    <3>5. Sends(y, x, "PTKSTART", nm1, "1", None)
      BY <1>1, <1>3, <1>4, <1>6, <2>1, <3>4, SendMsg1Facts DEF b, Alike
    <3> HIDE DEF y
    <3>6. y.ap.port => ap.port BY <1>4, <1>6, <3>5 DEF Sends, Alike
    <3>7. Waits(y.ap) => y.ap.here BY <3>5 DEF Sends, ApCore, Waits, Keyless
    <3>8. y.ap.assoc = ap.assoc /\ y.ap.ptk = ap.ptk BY <1>4, <1>6, <3>5 DEF Sends, Alike
    <3>9. Keyless(ap) /\ Waits(ap) /\ Drawn(y.ap) /\ (Waits(y.ap) => y.ap.here)
      BY <2>1, <3>5, <3>7 DEF Sends, Keyless, Waits, Drawn
    <3> QED BY <1>6, <3>5, <3>6, <3>8, <3>9 DEF Sends, KeepsStation
  <2>2. CASE ap.rstate = "PTKINITNEGOTIATING"
    <3> DEFINE b == [x.ap EXCEPT !.rstate = "PTKINITNEGOTIATING"]
    <3>1. b = a BY <1>4, <1>6, <2>2 DEF ApWide, Alike
    <3>2. Sends(y, x, "PTKINITNEGOTIATING", nm1, "3", a.ptk)
      BY <1>1, <1>3, <1>4, <1>5, <1>6, <2>2, <3>1, SendMsg3Facts DEF Alike
    <3>3. a.ptk = ap.ptk /\ ap.ptk \in Ptk /\ ap.ptk[1] = ap.assoc /\ ap.ptk[2] <= sta.snonce
      BY <1>1, <1>4, <2>2 DEF Alike, ApCore, Drawn
    <3> HIDE DEF y, b
    <3>4. y.ap.port => ap.port BY <1>4, <1>6, <3>2 DEF Sends, Alike
    <3>5. y.ap.assoc = ap.assoc /\ y.ap.ptk = ap.ptk BY <1>4, <1>6, <3>2 DEF Sends, Alike
    <3>6. ~Keyless(y.ap) /\ Waits(ap) /\ Drawn(y.ap)
      BY <2>2, <3>2, <3>3, <3>5 DEF Sends, Keyless, Waits, Drawn
    <3> QED BY <1>6, <3>2, <3>3, <3>4, <3>5, <3>6 DEF Sends, KeepsStation
  <2>3. CASE ap.rstate \notin {"PTKSTART", "PTKCALCNEGOTIATING", "PTKINITNEGOTIATING"}
    <3>1. y = x BY <2>3
    <3>2. ~Waits(a) /\ ~Keyless(a) /\ ~Waits(ap) BY <1>4, <2>3 DEF Alike, Waits, Keyless
    <3>3. a.assoc = ap.assoc /\ a.ptk = ap.ptk /\ a.port = ap.port /\ Drawn(a)
      BY <1>1, <1>4 DEF Alike, Drawn
    <3> QED BY <1>5, <1>6, <3>1, <3>2, <3>3 DEF KeepsStation
  <2> QED BY <2>1, <2>2, <2>3
<1> HIDE DEF y
<1>8. /\ KeepsStation(z)
      /\ z.ap.port => ap.port
      /\ ~nm1 /\ ~nm2 /\ Waits(z.ap) => z.ap.timer
  <2>1. CASE y.ap.gstate = "REKEYNEGOTIATING"
    <3> DEFINE b == [y.ap EXCEPT !.gstate = "REKEYNEGOTIATING"]
    <3>1. y \in ApOut /\ ApCore(y.ap) /\ y.ap \in ApWide /\ y.ap.here
      BY <1>7, <2>1 DEF KeepsStation, ApCore, ApOut
    <3>2. b = y.ap BY <2>1, <3>1 DEF ApWide
    <3>3. Sends(z, y, y.ap.rstate, nm2, "G1", y.ap.ptk)
      BY <1>3, <2>1, <3>1, <3>2, SendGroupMsg1Facts
    <3> HIDE DEF z, b
    <3>4. z.ap.assoc = y.ap.assoc /\ z.ap.ptk = y.ap.ptk BY <3>3 DEF Sends
    <3>5. Keyless(z.ap) => Keyless(y.ap) BY <3>3 DEF Sends, Keyless
    <3>6. Waits(z.ap) => Waits(y.ap) BY <3>3 DEF Sends, Waits, Keyless
    <3>7. Waits(z.ap) => z.ap.here BY <3>3 DEF Sends, ApCore, Waits, Keyless
    <3>8. Drawn(z.ap)
      <4>1. Drawn(y.ap) BY <1>7 DEF KeepsStation
      <4>2. z.ap.rstate = y.ap.rstate \/ z.ap.rstate = "INITIALIZE" BY <3>3 DEF Sends
      <4> QED BY <3>4, <4>1, <4>2 DEF Drawn
    <3>9. \A m \in z.out :
            /\ WellFormed(m) /\ m.type \in {"1", "3", "G1"}
            /\ m.type = "3" => /\ m.mic = z.ap.ptk /\ ~Keyless(z.ap)
                               /\ m.mic[1] = ap.assoc /\ m.mic[2] <= sta.snonce
      <4>1. \A m \in z.out : m \in y.out \/ (WellFormed(m) /\ m.type = "G1")
        BY <3>3 DEF Sends
      <4>2. \A m \in y.out :
              /\ WellFormed(m) /\ m.type \in {"1", "3", "G1"}
              /\ m.type = "3" => /\ m.mic = y.ap.ptk /\ ~Keyless(y.ap)
                                 /\ m.mic[1] = ap.assoc /\ m.mic[2] <= sta.snonce
        BY <1>7 DEF KeepsStation
      <4> QED BY <3>4, <3>5, <4>1, <4>2
    <3>10. /\ z \in ApOut /\ ApCore(z.ap)
           /\ z.ap.port => y.ap.port
           /\ z.ap.here /\ ~nm2 => z.ap.timer
      BY <3>3 DEF Sends
    <3>11. /\ y.ap.assoc = ap.assoc /\ (Keyless(ap) \/ y.ap.ptk = ap.ptk)
           /\ (Keyless(y.ap) => Keyless(ap)) /\ (Waits(y.ap) => Waits(ap))
      BY <1>7 DEF KeepsStation
    <3>12. KeepsStation(z)
      BY <3>4, <3>5, <3>6, <3>8, <3>9, <3>10, <3>11 DEF KeepsStation
    <3> QED BY <1>7, <3>7, <3>10, <3>12
  <2>2. CASE y.ap.gstate # "REKEYNEGOTIATING"
    <3>1. z = y BY <2>2
    <3>2. Waits(y.ap) => y.ap.here BY <1>7 DEF KeepsStation, ApCore, Waits, Keyless
    <3> QED BY <1>7, <3>1, <3>2
  <2> QED BY <2>1, <2>2
<1> HIDE DEF z
<1>9. ApInv(z.ap) BY <1>3, <1>8 DEF KeepsStation, ApInv
<1>10. ap' = z.ap /\ net' = net \cup z.out BY <1>2 DEF Becomes, z, y
<1> QED BY <1>8, <1>9, <1>10 DEF Handled, KeepsStation

(* The end of a handshake allows MaxRetries attempts more.                 *)
LEMMA OneMoreOver ==
    ASSUME NEW a \in ApWide, ApCore(a), a.here, NEW b \in ApWide,
           Over(b) >= Over(a) + 1, b.cnt = a.cnt, b.retries >= 0
    PROVE  b.cnt < Cap(Over(b)) + b.retries
<1>1. /\ a.retries \in Nat /\ a.cnt \in Int /\ Over(a) \in Nat /\ b.retries \in Nat
      /\ a.retries <= MaxRetries /\ a.cnt < Cap(Over(a)) + a.retries /\ Cap(Over(a)) \in Int
  BY OverFacts, CapFacts DEF ApCore, ApWide
<1>2. Over(b) \in Int BY DEF Over, ApWide, Gtk, RState
<1>3. Cap(Over(a) + 1) = Cap(Over(a)) + MaxRetries BY <1>1, CapFacts
<1>4. Cap(Over(a) + 1) <= Cap(Over(b)) /\ Cap(Over(b)) \in Int
  BY <1>1, <1>2, CapMonotone, CapFacts
<1> QED BY <1>1, <1>3, <1>4, FourWayAssumption

LEMMA RecvMsg2Handled ==
    ASSUME IInv, NEW m \in net, RecvMsg2(m)
    PROVE  Handled
<1> DEFINE mine == <<ap.assoc, m.nonce>>
           calc == [ap EXCEPT !.rstate = "PTKCALCNEGOTIATING"]
           b == [calc EXCEPT !.timer = FALSE, !.retries = 0, !.ptk = mine]
           x == Here(b)
           c == [x.ap EXCEPT !.rstate = "PTKINITNEGOTIATING"]
<1>1. /\ ap \in ApWide /\ ApCore(ap) /\ ApInv(ap) /\ ap.here /\ m.type = "2"
      /\ Keyless(ap) /\ Waits(ap)
      /\ WellFormed(m) /\ Msg2OK(m)
  BY DEF IInv, Sent, ApInv, ApCore, RecvMsg2, ApAccepts, Keyless, Waits
<1>2. /\ calc \in ApWide /\ calc.rstate = "PTKCALCNEGOTIATING" /\ calc.cnt = ap.cnt
      /\ calc.retries = ap.retries /\ calc.timer = ap.timer /\ calc.here = ap.here
      /\ calc.assoc = ap.assoc /\ calc.ptk = ap.ptk /\ calc.gtk = ap.gtk
      /\ calc.txkey = ap.txkey /\ calc.rekey = ap.rekey /\ calc.gstate = ap.gstate
      /\ calc.port = ap.port /\ calc.gtks = ap.gtks /\ calc.crossed = ap.crossed
  BY <1>1 DEF ApWide, RState
<1> HIDE DEF calc
<1>3. /\ OtherKid(calc) = OtherKid(ap) /\ Over(calc) = Over(ap) /\ Waits(calc)
      /\ Keyless(calc)
  BY <1>1, <1>2 DEF OtherKid, Over, Waits, Keyless
<1>4. CASE m.mic = mine
  <2>1. PICK nm \in NoMbuf : Becomes(SendMsg3(x, nm))
    BY <1>4 DEF RecvMsg2, calc
  <2>2. nm \in BOOLEAN /\ (~MbufsFail => ~nm) BY NoMbufFacts
  <2>3. mine \in Ptk /\ mine[1] = ap.assoc /\ mine[2] <= sta.snonce
    BY <1>1, <1>4 DEF WellFormed, Msg2OK
  <2> HIDE DEF mine
  <2>4. b \in ApWide BY <1>2, <2>3 DEF ApWide
  <2>5. x \in ApOut /\ x.ap = b /\ x.out = {} BY <2>4, HereFacts
  <2>6. /\ b.cnt = calc.cnt /\ b.retries = 0 /\ ~b.timer /\ b.here = calc.here
        /\ b.assoc = calc.assoc /\ b.ptk = mine /\ b.gtk = calc.gtk
        /\ b.txkey = calc.txkey /\ b.rekey = calc.rekey /\ b.gstate = calc.gstate
        /\ b.port = calc.port /\ b.gtks = calc.gtks /\ b.crossed = calc.crossed
    BY <1>2, <2>3 DEF ApWide
  <2> HIDE DEF b, x
  <2>7. /\ c \in ApWide /\ c.rstate = "PTKINITNEGOTIATING"
        /\ c.cnt = b.cnt /\ c.retries = 0 /\ ~c.timer /\ c.here = b.here
        /\ c.assoc = b.assoc /\ c.ptk = mine /\ c.gtk = b.gtk
        /\ c.txkey = b.txkey /\ c.rekey = b.rekey /\ c.gstate = b.gstate
        /\ c.port = b.port /\ c.gtks = b.gtks /\ c.crossed = b.crossed
    BY <2>4, <2>5, <2>6 DEF ApWide, RState
  <2>8. ApCore(c)
    <3> HIDE DEF c
    <3>1. OtherKid(c) = OtherKid(ap) /\ Waits(c) BY <1>2, <2>6, <2>7 DEF OtherKid, Waits, Keyless
    <3>2. Over(c) >= Over(ap) + 1
      BY <1>1, <1>2, <2>6, <2>7, FourWayAssumption DEF Over, Keyless, ApWide, Gtk
    <3>3. c.cnt < Cap(Over(c)) + c.retries
      BY <1>1, <1>2, <2>6, <2>7, <3>2, OneMoreOver
    <3> QED
      BY <1>1, <1>2, <2>3, <2>6, <2>7, <3>1, <3>3, FourWayAssumption DEF ApCore, Keyless
  <2> DEFINE y == SendMsg3(x, nm)
  <2>9. Sends(y, x, "PTKINITNEGOTIATING", nm, "3", mine)
    BY <1>1, <1>2, <2>2, <2>5, <2>6, <2>8, SendMsg3Facts
  <2> HIDE DEF c, y
  <2>10. /\ y \in ApOut /\ ApCore(y.ap) /\ y.ap.assoc = ap.assoc /\ y.ap.ptk = mine
         /\ y.ap.rstate = "PTKINITNEGOTIATING" \/ y.ap.rstate = "INITIALIZE"
         /\ y.ap.port => ap.port
         /\ y.ap.here /\ ~nm => y.ap.timer
         /\ \A n \in y.out : WellFormed(n) /\ n.type = "3" /\ n.mic = mine
    BY <1>2, <2>5, <2>6, <2>9 DEF Sends
  <2>11. KeepsStation(y)
    BY <1>1, <2>3, <2>10 DEF KeepsStation, Keyless, Waits, Drawn
  <2>12. ApInv(y.ap) BY <2>2, <2>10 DEF ApInv, ApCore, Waits, Keyless
  <2>13. ap' = y.ap /\ net' = net \cup y.out BY <2>1 DEF Becomes, y
  <2> QED BY <2>10, <2>11, <2>12, <2>13 DEF Handled
<1>5. CASE m.mic # mine
  <2>1. Becomes(Here(calc)) BY <1>5 DEF RecvMsg2, calc
  <2>2. Here(calc) \in ApOut /\ Here(calc).ap = calc /\ Here(calc).out = {}
    BY <1>2, HereFacts
  <2>3. ApCore(calc) BY <1>1, <1>2, <1>3 DEF ApCore, Keyless
  <2>4. ApInv(calc) BY <1>1, <1>2, <1>3, <2>3 DEF ApInv
  <2>5. KeepsStation(Here(calc))
    BY <1>1, <1>2, <2>2, <2>3 DEF KeepsStation, Drawn
  <2>6. ap' = Here(calc).ap /\ net' = net \cup Here(calc).out BY <2>1 DEF Becomes
  <2> QED BY <1>2, <2>2, <2>4, <2>5, <2>6 DEF Handled
<1> QED BY <1>4, <1>5

(* The next group key comes into use: nothing of the handshakes changes.   *)
LEMMA SetKeysDoneCore ==
    ASSUME NEW a \in ApWide, ApCore(a), a.gtk[OtherKid(a)] \in Gtk
    PROVE  /\ ApCore(SetKeysDone(a))
           /\ SetKeysDone(a).assoc = a.assoc /\ SetKeysDone(a).ptk = a.ptk
           /\ SetKeysDone(a).rstate = a.rstate /\ SetKeysDone(a).port = a.port
           /\ SetKeysDone(a).timer = a.timer /\ SetKeysDone(a).crossed = a.crossed
           /\ SetKeysDone(a).here = a.here
<1> DEFINE b == SetKeysDone(a)
<1>1. b = [a EXCEPT !.txkey = OtherKid(a)] /\ b \in ApWide BY SetKeysDoneFacts
<1> HIDE DEF b
<1>2. /\ b.assoc = a.assoc /\ b.ptk = a.ptk /\ b.rstate = a.rstate /\ b.port = a.port
      /\ b.timer = a.timer /\ b.crossed = a.crossed /\ b.here = a.here
      /\ b.gstate = a.gstate /\ b.cnt = a.cnt /\ b.retries = a.retries /\ b.gtk = a.gtk
      /\ b.gtks = a.gtks /\ b.key = a.key /\ b.rekey = a.rekey /\ b.txkey = OtherKid(a)
  BY <1>1 DEF ApWide
<1>3. OtherKid(b) = a.txkey BY <1>2 DEF OtherKid, ApWide, Kid
<1>4. Over(b) = Over(a) /\ Waits(b) = Waits(a) BY <1>2 DEF Over, Waits, Keyless
<1>5. ApCore(b) BY <1>1, <1>2, <1>3, <1>4 DEF ApCore
<1> QED BY <1>2, <1>5 DEF b

LEMMA RecvGroupMsg2Handled ==
    ASSUME IInv, NEW m \in net, RecvGroupMsg2(m)
    PROVE  Handled
<1> DEFINE done == [ap EXCEPT !.timer = FALSE, !.rekey = FALSE, !.prot = TRUE,
                              !.gstate = "IDLE", !.retries = 0]
           b == IF ap.rekey THEN SetKeysDone(done) ELSE done
<1>1. /\ ap \in ApWide /\ ApCore(ap) /\ ApInv(ap) /\ ap.here /\ Drawn(ap)
      /\ ap.gstate = "REKEYNEGOTIATING"
  BY DEF IInv, ApInv, ApCore, RecvGroupMsg2, ApAccepts
<1>2. Becomes(Here(b)) BY DEF RecvGroupMsg2
<1>3. /\ done \in ApWide /\ ~done.timer /\ ~done.rekey /\ done.gstate = "IDLE"
      /\ done.retries = 0
  BY <1>1 DEF ApWide
<1>4. /\ done.rstate = ap.rstate /\ done.cnt = ap.cnt /\ done.here = ap.here
      /\ done.assoc = ap.assoc /\ done.ptk = ap.ptk /\ done.gtk = ap.gtk
      /\ done.txkey = ap.txkey /\ done.port = ap.port /\ done.gtks = ap.gtks
      /\ done.crossed = ap.crossed /\ done.key = ap.key
  BY <1>1 DEF ApWide
<1> HIDE DEF done
<1>5. OtherKid(done) = OtherKid(ap) /\ Waits(done) = Waits(ap) /\ Keyless(done) = Keyless(ap)
  BY <1>4 DEF OtherKid, Waits, Keyless
<1>6. Over(done) >= Over(ap) + 1
  BY <1>1, <1>3, <1>4, FourWayAssumption DEF Over, ApWide, Gtk
<1>7. done.cnt < Cap(Over(done)) + done.retries BY <1>1, <1>3, <1>4, <1>6, OneMoreOver
<1>8. Waits(ap) => ap.crossed BY <1>1 DEF ApCore
<1>9. ApCore(done) BY <1>1, <1>3, <1>4, <1>5, <1>7, <1>8, FourWayAssumption DEF ApCore
<1>10. /\ ApCore(b) /\ b.assoc = ap.assoc /\ b.ptk = ap.ptk /\ b.rstate = ap.rstate
       /\ b.port = ap.port /\ b.crossed = ap.crossed
  <2>1. CASE ap.rekey
    <3>1. done.gtk[OtherKid(done)] \in Gtk BY <1>1, <1>4, <1>5, <2>1 DEF ApCore
    <3> QED BY <1>3, <1>4, <1>9, <2>1, <3>1, SetKeysDoneCore
  <2>2. CASE ~ap.rekey BY <1>4, <1>9, <2>2
  <2> QED BY <2>1, <2>2
<1> HIDE DEF b
<1>11. b \in ApWide BY <1>10 DEF ApCore
<1>12. Waits(b) = Waits(ap) /\ Keyless(b) = Keyless(ap) /\ Drawn(b)
  BY <1>1, <1>10 DEF Waits, Keyless, Drawn
<1>13. Here(b) \in ApOut /\ Here(b).ap = b /\ Here(b).out = {} BY <1>11, HereFacts
<1>14. KeepsStation(Here(b)) BY <1>10, <1>12, <1>13 DEF KeepsStation
<1>15. ApInv(b) BY <1>8, <1>10, <1>12 DEF ApInv
<1>16. ap' = Here(b).ap /\ net' = net \cup Here(b).out BY <1>2 DEF Becomes
<1> QED BY <1>10, <1>13, <1>14, <1>15, <1>16 DEF Handled

LEMMA GtkRekeyHandled ==
    ASSUME IInv, GtkRekey
    PROVE  Handled
<1> DEFINE k == OtherKid(ap)
           a == [ap EXCEPT !.gtks = @ + 1, !.gtk[OtherKid(ap)] = ap.gtks + 1,
                           !.crossed = @ \/ Waiting]
           b == [a EXCEPT !.rekey = TRUE]
           x0 == Here(b)
           c == [x0.ap EXCEPT !.gstate = "REKEYNEGOTIATING"]
           X(nm) == SendGroupMsg1(x0, nm)
           Y(nm) == IF ~a.here \/ a.gstate # "IDLE" THEN Here(a)
                    ELSE IF nm /\ X(nm).ap.here THEN [X(nm) EXCEPT !.ap.rekey = FALSE]
                    ELSE X(nm)
           Z(nm) == IF Y(nm).ap.rekey THEN Y(nm)
                    ELSE [Y(nm) EXCEPT !.ap = SetKeysDone(Y(nm).ap)]
<1>1. /\ ap \in ApWide /\ ApCore(ap) /\ ApInv(ap) /\ Drawn(ap)
      /\ ap.gtks \in Nat /\ ap.gtks + 1 \in Gtk /\ ap.gtks >= 1
  <2>1. ap \in ApWide /\ ApCore(ap) /\ ApInv(ap) /\ Drawn(ap) BY DEF IInv, ApInv, ApCore
  <2>2. ap.gtks \in 1 .. MaxGtk /\ ap.gtks < MaxGtk BY <2>1 DEF ApWide, Gtk, GtkRekey
  <2> QED BY <2>1, <2>2, FourWayAssumption DEF Gtk
<1>2. PICK nm \in NoMbuf : Becomes(Z(nm)) BY DEF GtkRekey
<1>3. nm \in BOOLEAN BY NoMbufFacts
<1>4. k \in Kid /\ k # ap.txkey BY <1>1 DEF OtherKid, ApWide, Kid
<1>5. Waiting = Waits(ap) BY DEF Waiting, Waits, Keyless
<1>6. /\ a \in ApWide /\ a.gtks = ap.gtks + 1 /\ a.gtk = [ap.gtk EXCEPT ![k] = ap.gtks + 1]
      /\ (Waits(ap) => a.crossed) /\ (ap.crossed => a.crossed)
  <2> DEFINE g == [ap.gtk EXCEPT ![k] = ap.gtks + 1]
             w == ap.crossed \/ Waiting
  <2>1. a = [ap EXCEPT !.gtks = ap.gtks + 1, !.gtk = g, !.crossed = w] BY <1>1 DEF ApWide
  <2>2. g \in [Kid -> Gtk \cup {None}] BY <1>1, <1>4 DEF ApWide
  <2>3. w \in BOOLEAN /\ (Waits(ap) => w) /\ (ap.crossed => w) BY <1>5
  <2> HIDE DEF g, w, a
  <2>4. a \in ApWide /\ a.gtks = ap.gtks + 1 /\ a.gtk = g /\ a.crossed = w
    BY <1>1, <2>1, <2>2, <2>3 DEF ApWide
  <2> QED BY <2>3, <2>4 DEF g
<1>7. /\ a.rstate = ap.rstate /\ a.cnt = ap.cnt /\ a.here = ap.here /\ a.assoc = ap.assoc
      /\ a.ptk = ap.ptk /\ a.txkey = ap.txkey /\ a.port = ap.port /\ a.gstate = ap.gstate
      /\ a.timer = ap.timer /\ a.retries = ap.retries /\ a.key = ap.key /\ a.rekey = ap.rekey
  BY <1>1 DEF ApWide
<1> HIDE DEF a
<1>8. OtherKid(a) = k /\ Waits(a) = Waits(ap) /\ Keyless(a) = Keyless(ap) /\ Drawn(a)
  BY <1>1, <1>7 DEF OtherKid, Waits, Keyless, Drawn
<1>9. a.gtk[1] \in Gtk /\ a.gtk[2] \in Gtk
  BY <1>1, <1>4, <1>6 DEF ApCore, ApWide, Kid
<1>10. a.gtk[a.txkey] \in Gtk /\ a.gtk[k] \in Gtk
  BY <1>4, <1>6, <1>9 DEF ApWide, Kid
<1>11. Over(a) = Over(ap) + 1
  BY <1>1, <1>6, <1>7 DEF Over
<1>12. a.here => a.cnt < Cap(Over(a)) + a.retries
  <2>1. Over(ap) \in Nat BY <1>1, OverFacts DEF ApCore
  <2>2. a.retries >= 0 /\ Over(a) >= Over(ap) + 1 BY <1>6, <1>11, <2>1 DEF ApWide
  <2> QED BY <1>1, <1>6, <1>7, <2>2, OneMoreOver
<1>13. ApCore(a)
  BY <1>1, <1>6, <1>7, <1>8, <1>10, <1>12 DEF ApCore
<1> HIDE DEF k
<1>14. /\ KeepsStation(Y(nm)) /\ Y(nm).ap.gtk = a.gtk
       /\ Waits(Y(nm).ap) => Y(nm).ap.crossed
       /\ Y(nm).ap.port => ap.port
  <2>1. CASE ~a.here \/ a.gstate # "IDLE"
    <3>1. Y(nm) = Here(a) BY <2>1
    <3>2. Here(a) \in ApOut /\ Here(a).ap = a /\ Here(a).out = {} BY <1>6, HereFacts
    <3> QED BY <1>6, <1>7, <1>8, <1>13, <3>1, <3>2 DEF KeepsStation
  <2>2. CASE a.here /\ a.gstate = "IDLE"
    <3>1. /\ b \in ApWide /\ b.rekey /\ b.gtks = a.gtks /\ b.gtk = a.gtk /\ b.crossed = a.crossed
          /\ b.rstate = a.rstate /\ b.cnt = a.cnt /\ b.here = a.here /\ b.assoc = a.assoc
          /\ b.ptk = a.ptk /\ b.txkey = a.txkey /\ b.port = a.port /\ b.gstate = a.gstate
          /\ b.timer = a.timer /\ b.retries = a.retries /\ b.key = a.key
      BY <1>6 DEF ApWide
    <3>2. x0 \in ApOut /\ x0.ap = b /\ x0.out = {} BY <3>1, HereFacts
    <3> HIDE DEF b, x0
    <3>3. /\ c \in ApWide /\ c.rekey /\ c.gtks = b.gtks /\ c.gtk = b.gtk
          /\ c.crossed = b.crossed /\ c.rstate = b.rstate /\ c.cnt = b.cnt /\ c.here = b.here
          /\ c.assoc = b.assoc /\ c.ptk = b.ptk /\ c.txkey = b.txkey /\ c.port = b.port
          /\ c.gstate = "REKEYNEGOTIATING" /\ c.timer = b.timer /\ c.retries = b.retries
          /\ c.key = b.key
      BY <3>1, <3>2 DEF ApWide
    <3> HIDE DEF c
    <3>4. OtherKid(c) = k /\ Waits(c) = Waits(ap) /\ Over(c) = Over(ap)
      BY <1>1, <1>6, <1>7, <1>8, <2>2, <3>1, <3>3 DEF OtherKid, Waits, Keyless, Over
    <3>5. ApCore(c)
      BY <1>1, <1>6, <1>7, <1>10, <1>13, <2>2, <3>1, <3>3, <3>4 DEF ApCore
    <3> DEFINE s == X(nm)
    <3>6. Sends(s, x0, b.rstate, nm, "G1", b.ptk)
      BY <1>3, <2>2, <3>1, <3>2, <3>5, SendGroupMsg1Facts DEF c
    <3> HIDE DEF X, s
    <3>7. /\ s \in ApOut /\ ApCore(s.ap) /\ s.ap.assoc = ap.assoc /\ s.ap.ptk = ap.ptk
          /\ s.ap.gtk = a.gtk
          /\ s.ap.rstate = ap.rstate \/ s.ap.rstate = "INITIALIZE"
          /\ s.ap.here => s.ap.crossed = a.crossed
          /\ s.ap.port => ap.port
          /\ \A m \in s.out : WellFormed(m) /\ m.type = "G1"
      BY <1>7, <3>1, <3>2, <3>6 DEF Sends
    <3>8. /\ Waits(s.ap) => Waits(ap) /\ s.ap.here
          /\ Keyless(s.ap) => Keyless(ap)
          /\ Drawn(s.ap)
      BY <1>1, <3>7 DEF Waits, Keyless, Drawn, ApCore
    <3>9. KeepsStation(s) BY <3>7, <3>8 DEF KeepsStation
    <3>10. CASE nm /\ s.ap.here
      <4> DEFINE y == [s EXCEPT !.ap.rekey = FALSE]
                 d == [s.ap EXCEPT !.rekey = FALSE]
      <4>1. s.ap \in ApWide BY <3>7 DEF ApOut
      <4>2. /\ d \in ApWide /\ ~d.rekey /\ d.gtks = s.ap.gtks /\ d.gtk = s.ap.gtk
            /\ d.crossed = s.ap.crossed /\ d.rstate = s.ap.rstate /\ d.cnt = s.ap.cnt
            /\ d.here = s.ap.here /\ d.assoc = s.ap.assoc /\ d.ptk = s.ap.ptk
            /\ d.txkey = s.ap.txkey /\ d.port = s.ap.port /\ d.gstate = s.ap.gstate
            /\ d.timer = s.ap.timer /\ d.retries = s.ap.retries /\ d.key = s.ap.key
        BY <4>1 DEF ApWide
      <4>3. y \in ApOut /\ y.ap = d /\ y.out = s.out BY <3>7, <4>2 DEF ApOut
      <4> HIDE DEF d
      <4>4. /\ OtherKid(d) = OtherKid(s.ap) /\ Over(d) = Over(s.ap)
            /\ Waits(d) = Waits(s.ap) /\ Keyless(d) = Keyless(s.ap)
        BY <4>2 DEF OtherKid, Over, Waits, Keyless
      <4>5. ApCore(d) BY <3>7, <4>2, <4>4 DEF ApCore
      <4>6. Drawn(d) BY <3>8, <4>2 DEF Drawn
      <4>7. Y(nm) = y BY <2>2, <3>10 DEF s
      <4> HIDE DEF y
      <4>8. KeepsStation(y) BY <3>7, <3>8, <4>2, <4>3, <4>4, <4>5, <4>6 DEF KeepsStation
      <4>9. /\ y.ap.gtk = a.gtk
            /\ Waits(y.ap) => y.ap.crossed
            /\ y.ap.port => ap.port
        BY <1>6, <3>7, <3>8, <4>2, <4>3, <4>4
      <4> QED BY <4>7, <4>8, <4>9
    <3>11. CASE ~(nm /\ s.ap.here)
      <4>1. Y(nm) = s BY <2>2, <3>11 DEF s
      <4> QED BY <1>6, <3>7, <3>8, <3>9, <4>1
    <3> QED BY <3>10, <3>11
  <2> QED BY <2>1, <2>2
<1> DEFINE y == Y(nm)
           z == Z(nm)
<1>15. z = IF y.ap.rekey THEN y ELSE [y EXCEPT !.ap = SetKeysDone(y.ap)] OBVIOUS
<1> HIDE DEF Y, y
<1>16. /\ KeepsStation(z)
       /\ Waits(z.ap) => z.ap.crossed
       /\ z.ap.port => ap.port
  <2>1. CASE y.ap.rekey BY <1>14, <1>15, <2>1 DEF y
  <2>2. CASE ~y.ap.rekey
    <3> DEFINE d == SetKeysDone(y.ap)
    <3>1. y \in ApOut /\ y.ap \in ApWide /\ ApCore(y.ap) BY <1>14 DEF KeepsStation, ApOut, y
    <3>2. y.ap.gtk[OtherKid(y.ap)] \in Gtk BY <1>9, <1>14, <3>1, OtherKidFacts DEF Kid, y
    <3>3. /\ ApCore(d) /\ d.assoc = y.ap.assoc /\ d.ptk = y.ap.ptk /\ d.rstate = y.ap.rstate
          /\ d.port = y.ap.port /\ d.crossed = y.ap.crossed
      BY <3>1, <3>2, SetKeysDoneCore
    <3> HIDE DEF d
    <3>4. d \in ApWide BY <3>3 DEF ApCore
    <3>5. z \in ApOut /\ z.ap = d /\ z.out = y.out BY <1>15, <2>2, <3>1, <3>4 DEF ApOut, d
    <3>6. Waits(d) = Waits(y.ap) /\ Keyless(d) = Keyless(y.ap) /\ (Drawn(y.ap) => Drawn(d))
      BY <3>3 DEF Waits, Keyless, Drawn
    <3> HIDE DEF z
    <3>7. KeepsStation(y) /\ (Waits(y.ap) => y.ap.crossed) /\ (y.ap.port => ap.port)
      BY <1>14 DEF y
    <3>8. KeepsStation(z) BY <3>3, <3>5, <3>6, <3>7 DEF KeepsStation
    <3> QED BY <3>3, <3>5, <3>6, <3>7, <3>8
  <2> QED BY <2>1, <2>2
<1>17. ap' = z.ap /\ net' = net \cup z.out BY <1>2 DEF Becomes
<1> HIDE DEF z
<1>18. ApInv(z.ap) BY <1>16 DEF KeepsStation, ApInv
<1> QED BY <1>16, <1>17, <1>18 DEF Handled, KeepsStation

LEMMA RecvMsg4Handled ==
    ASSUME IInv, NEW m \in net, RecvMsg4(m)
    PROVE  /\ m.type = "4" /\ m.mic = ap.ptk /\ Waits(ap)
           /\ ap.ptk \in Ptk /\ ap.ptk[1] = ap.assoc
           /\ apUsed' = apUsed \/ apUsed' = Append(apUsed, ap.ptk)
           /\ \E x \in ApOut : /\ KeepsStation(x) /\ ApInv(x.ap)
                               /\ x.ap.ptk = ap.ptk /\ ~Waits(x.ap)
                               /\ ap' = x.ap /\ net' = net \cup x.out
<1> DEFINE done == [ap EXCEPT !.timer = FALSE, !.rstate = "PTKINITDONE", !.retries = 0,
                              !.key = ap.ptk]
           d == [done EXCEPT !.prot = TRUE, !.port = TRUE, !.gstate = "IDLE"]
           n == NodeLeave(done)
<1>1. /\ ap \in ApWide /\ ApCore(ap) /\ ap.here /\ Drawn(ap)
      /\ ap.rstate = "PTKINITNEGOTIATING" /\ m.type = "4" /\ m.mic = ap.ptk
  BY DEF IInv, ApInv, ApCore, RecvMsg4, ApAccepts
<1>2. Waits(ap) /\ ~Keyless(ap) /\ ap.ptk \in Ptk /\ ap.ptk[1] = ap.assoc
  BY <1>1 DEF Waits, Keyless, ApCore
<1>3. \/ Becomes(Here(d)) /\ apUsed' = Append(apUsed, ap.ptk)
      \/ Becomes(Here(n)) /\ apUsed' = apUsed
  BY DEF RecvMsg4
<1>4. done \in ApWide BY <1>1 DEF ApWide, RState
<1>5. /\ ~done.timer /\ done.rstate = "PTKINITDONE" /\ done.retries = 0 /\ done.key = ap.ptk
      /\ done.cnt = ap.cnt /\ done.here = ap.here /\ done.assoc = ap.assoc
      /\ done.ptk = ap.ptk /\ done.gtk = ap.gtk /\ done.txkey = ap.txkey
      /\ done.rekey = ap.rekey /\ done.gtks = ap.gtks /\ done.gstate = ap.gstate
  BY <1>1 DEF ApWide
<1> HIDE DEF done
<1>6. OtherKid(done) = OtherKid(ap) BY <1>5 DEF OtherKid
<1>7. CASE Becomes(Here(n))
  <2>1. ApInv(n) /\ n.assoc = ap.assoc /\ n.ptk = ap.ptk /\ n.rstate = "INITIALIZE" /\ ~n.here
    BY <1>1, <1>4, <1>5, <1>6, NodeLeaveInv DEF ApCore
  <2> HIDE DEF n
  <2>2. n \in ApWide /\ ApCore(n) BY <2>1 DEF ApInv, ApCore
  <2>3. Here(n) \in ApOut /\ Here(n).ap = n /\ Here(n).out = {} BY <2>2, HereFacts
  <2>4. ~Waits(n) /\ ~Keyless(n) /\ Drawn(n) BY <2>1 DEF Waits, Keyless, Drawn
  <2>5. KeepsStation(Here(n)) BY <2>1, <2>2, <2>3, <2>4 DEF KeepsStation
  <2>6. ap' = Here(n).ap /\ net' = net \cup Here(n).out BY <1>7 DEF Becomes
  <2> QED BY <1>1, <1>2, <1>3, <2>1, <2>3, <2>4, <2>5, <2>6
<1>8. CASE Becomes(Here(d))
  <2>1. d \in ApWide BY <1>4 DEF ApWide
  <2>2. /\ ~d.timer /\ d.rstate = "PTKINITDONE" /\ d.retries = 0 /\ d.key = ap.ptk
        /\ d.cnt = ap.cnt /\ d.here = ap.here /\ d.assoc = ap.assoc
        /\ d.ptk = ap.ptk /\ d.gtk = ap.gtk /\ d.txkey = ap.txkey
        /\ d.rekey = ap.rekey /\ d.gtks = ap.gtks /\ d.gstate = "IDLE"
    BY <1>4, <1>5 DEF ApWide
  <2> HIDE DEF d
  <2>3. OtherKid(d) = OtherKid(ap) /\ ~Waits(d) /\ ~Keyless(d)
    BY <2>2 DEF OtherKid, Waits, Keyless
  <2>4. Over(d) >= Over(ap) + 1
    BY <1>1, <2>1, <2>2, FourWayAssumption DEF Over, ApWide, Gtk
  <2>5. d.cnt < Cap(Over(d)) + d.retries BY <1>1, <2>1, <2>2, <2>4, OneMoreOver
  <2>6. ApCore(d)
    BY <1>1, <1>2, <2>1, <2>2, <2>3, <2>5, FourWayAssumption DEF ApCore
  <2>7. ApInv(d) BY <2>3, <2>6 DEF ApInv
  <2>8. Here(d) \in ApOut /\ Here(d).ap = d /\ Here(d).out = {} BY <2>1, HereFacts
  <2>9. Drawn(d) BY <1>1, <2>2 DEF Drawn
  <2>10. KeepsStation(Here(d)) BY <2>2, <2>3, <2>6, <2>8, <2>9 DEF KeepsStation
  <2>11. ap' = Here(d).ap /\ net' = net \cup Here(d).out BY <1>8 DEF Becomes
  <2> QED BY <1>1, <1>2, <1>3, <2>2, <2>3, <2>7, <2>8, <2>10, <2>11
<1> QED BY <1>3, <1>7, <1>8

-----------------------------------------------------------------------------
(* The steps of the access point.                                          *)

LEMMA RangeAppend ==
    ASSUME NEW S, NEW q \in Seq(S), NEW e \in S
    PROVE  Range(Append(q, e)) = Range(q) \cup {e} /\ Append(q, e) \in Seq(S)
<1> DEFINE r == Append(q, e)
<1>1. /\ r \in Seq(S) /\ DOMAIN r = 1 .. Len(q) + 1 /\ DOMAIN q = 1 .. Len(q) /\ Len(q) \in Nat
      /\ \A i \in 1 .. Len(q) : r[i] = q[i]
      /\ r[Len(q) + 1] = e
  OBVIOUS
<1> HIDE DEF r
<1>2. \A y \in Range(r) : y \in Range(q) \cup {e} BY <1>1 DEF Range
<1>3. \A y \in Range(q) : y \in Range(r) BY <1>1 DEF Range
<1>4. e \in Range(r) BY <1>1 DEF Range
<1> QED BY <1>1, <1>2, <1>3, <1>4 DEF r

LEMMA ApStepInv ==
    ASSUME IInv, UNCHANGED <<sta, gk, held, staUsed, gkUsed>>,
           NEW x \in ApOut, KeepsStation(x), ApInv(x.ap), ap' = x.ap, net' = net \cup x.out,
           x.ap.port => \/ ap.port
                        \/ \E m \in net : m.type = "4" /\ m.mic = x.ap.ptk,
           \/ apUsed' = apUsed
           \/ /\ apUsed' = Append(apUsed, ap.ptk) /\ ~Waits(x.ap)
              /\ ap.ptk \in Ptk /\ ap.ptk[1] = ap.assoc
    PROVE  IInv'
<1>1. /\ ap'.assoc = ap.assoc
      /\ Keyless(ap) \/ ap'.ptk = ap.ptk
      /\ Keyless(ap') => Keyless(ap)
      /\ Waits(ap') => Waits(ap)
  BY DEF KeepsStation
<1>2. StaInv' BY <1>1 DEF IInv, StaInv, StaType
<1>3. ApInv(ap)' OBVIOUS
<1>4. Drawn(ap)' BY DEF KeepsStation, Drawn
<1>5. UsedInv'
  <2>1. staUsed' \in Seq(Ptk) /\ gkUsed' \in Seq(Gtk) BY DEF IInv, UsedInv
  <2>2. \A k \in Range(staUsed') : k[2] <= sta'.snonce /\ (sta'.newptk => k[2] < sta'.snonce)
    BY DEF IInv, UsedInv
  <2>3. \A k \in Range(apUsed) : k[1] <= ap'.assoc /\ (k[1] = ap'.assoc => ~Waits(ap'))
    BY <1>1 DEF IInv, UsedInv
  <2>4. apUsed \in Seq(Ptk) BY DEF IInv, UsedInv
  <2>5. ap.assoc \in Nat BY DEF IInv, ApInv, ApCore, ApWide
  <2>6. /\ apUsed' \in Seq(Ptk)
        /\ \A k \in Range(apUsed') : k[1] <= ap'.assoc /\ (k[1] = ap'.assoc => ~Waits(ap'))
    <3>1. CASE apUsed' = apUsed BY <2>3, <2>4, <3>1
    <3>2. CASE /\ apUsed' = Append(apUsed, ap.ptk) /\ ~Waits(x.ap)
               /\ ap.ptk \in Ptk /\ ap.ptk[1] = ap.assoc
      <4>1. Range(apUsed') = Range(apUsed) \cup {ap.ptk} /\ apUsed' \in Seq(Ptk)
        BY <2>4, <3>2, RangeAppend
      <4> QED BY <1>1, <2>3, <2>5, <3>2, <4>1
    <3> QED BY <3>1, <3>2
  <2> QED BY <2>1, <2>2, <2>6 DEF UsedInv
<1>6. gk' \in [Kid -> Gtk \cup {None}] /\ held' \in Seq(Message) /\ Len(held') <= MaxHeld
  BY DEF IInv
<1>7. \A m \in net \cup Range(held) : WellFormed(m) /\ Msg2OK(m)' /\ Msg4OK(m)'
  <2> SUFFICES ASSUME NEW m \in net \cup Range(held)
               PROVE  WellFormed(m) /\ Msg2OK(m)' /\ Msg4OK(m)'
    OBVIOUS
  <2>1. WellFormed(m) /\ Msg2OK(m) /\ Msg4OK(m) BY DEF IInv, Sent
  <2>2. Msg2OK(m)' BY <2>1 DEF Msg2OK
  <2>3. Msg4OK(m)' BY <1>1, <2>1 DEF Msg4OK
  <2> QED BY <2>1, <2>2, <2>3
<1>8. \A m \in net : Msg3OK(m)'
  <2> SUFFICES ASSUME NEW m \in net PROVE Msg3OK(m)' OBVIOUS
  <2>1. Msg3OK(m) BY DEF IInv
  <2> QED BY <1>1, <2>1 DEF Msg3OK
<1>9. \A m \in x.out : WellFormed(m) /\ Msg2OK(m)' /\ Msg3OK(m)' /\ Msg4OK(m)'
  <2> SUFFICES ASSUME NEW m \in x.out
               PROVE  WellFormed(m) /\ Msg2OK(m)' /\ Msg3OK(m)' /\ Msg4OK(m)'
    OBVIOUS
  <2>1. /\ WellFormed(m) /\ m.type \in {"1", "3", "G1"}
        /\ m.type = "3" => /\ m.mic = ap'.ptk /\ ~Keyless(ap')
                           /\ m.mic[1] = ap.assoc /\ m.mic[2] <= sta.snonce
    BY DEF KeepsStation
  <2>2. Msg2OK(m)' /\ Msg4OK(m)' BY <2>1 DEF Msg2OK, Msg4OK
  <2>3. ap.assoc \in Nat BY DEF IInv, ApInv, ApCore, ApWide
  <2>4. Msg3OK(m)' BY <1>1, <2>1, <2>3 DEF Msg3OK
  <2> QED BY <2>1, <2>2, <2>4
<1>10. ap'.port => \E m \in net' : m.type = "4" /\ m.mic = ap'.ptk
  <2>1. ap.port => ~Keyless(ap) BY DEF IInv, ApInv, ApCore, Keyless
  <2> QED BY <1>1, <2>1 DEF IInv
<1>11. Sent' = net \cup x.out \cup Range(held) BY DEF Sent
<1>12. \A m \in Range(held') : m.type # "3" BY DEF IInv
<1> QED BY <1>2, <1>3, <1>4, <1>5, <1>6, <1>7, <1>8, <1>9, <1>10, <1>11, <1>12 DEF IInv

LEMMA HandledInv ==
    ASSUME IInv, Handled, UNCHANGED <<sta, gk, held, staUsed, gkUsed, apUsed>>
    PROVE  IInv'
BY ApStepInv DEF Handled

(* A new association: the frames of the earlier ones are of no use in it.  *)
LEMMA JoinInv ==
    ASSUME IInv, Join
    PROVE  /\ IInv'
           /\ \A m \in net' : m \in net \/ m.type = "1"
<1> DEFINE j == [ap EXCEPT !.here = TRUE, !.assoc = @ + 1, !.cnt = -1,
                           !.crossed = ap.gstate = "REKEYNEGOTIATING",
                           !.retries = 0, !.prot = FALSE, !.port = FALSE]
           x == Here(j)
           c == [x.ap EXCEPT !.rstate = "PTKSTART"]
<1>1. /\ ap \in ApWide /\ ApCore(ap) /\ sta.link = "assoc" /\ ap.assoc < MaxAssoc
      /\ ap.assoc \in Nat /\ ap.assoc + 1 \in 0 .. MaxAssoc
      /\ sta \in StaType /\ sta.state = "INITIALIZE"
  <2>1. ap \in ApWide /\ ApCore(ap) BY DEF IInv, ApInv, ApCore
  <2>2. sta.link = "assoc" /\ ap.assoc < MaxAssoc BY DEF Join
  <2>3. ap.assoc \in 0 .. MaxAssoc BY <2>1 DEF ApWide
  <2>4. sta \in StaType /\ sta.state = "INITIALIZE" BY <2>2 DEF IInv, StaInv
  <2> QED BY <2>1, <2>2, <2>3, <2>4, FourWayAssumption
<1>2. PICK nm \in NoMbuf : Becomes(SendMsg1(x, nm)) BY DEF Join
<1>3. nm \in BOOLEAN /\ (~MbufsFail => ~nm) BY NoMbufFacts
<1>4. j \in ApWide
  <2> DEFINE w == ap.gstate = "REKEYNEGOTIATING"
             g == [ap EXCEPT !.here = TRUE, !.assoc = ap.assoc + 1]
             h == [g EXCEPT !.cnt = -1, !.crossed = w]
  <2>1. g \in ApWide BY <1>1 DEF ApWide
  <2>2. w \in BOOLEAN OBVIOUS
  <2>3. j = [h EXCEPT !.retries = 0, !.prot = FALSE, !.port = FALSE] BY <1>1
  <2> HIDE DEF w, g
  <2>4. [g EXCEPT !.cnt = -1] \in ApWide BY <2>1 DEF ApWide
  <2>5. h = [[g EXCEPT !.cnt = -1] EXCEPT !.crossed = w] OBVIOUS
  <2>6. h \in ApWide BY <2>2, <2>4, <2>5 DEF ApWide
  <2> HIDE DEF h
  <2> QED BY <2>3, <2>6 DEF ApWide
<1>5. /\ j.here /\ j.assoc = ap.assoc + 1 /\ j.cnt = -1 /\ j.retries = 0 /\ ~j.port
      /\ (ap.gstate # "IDLE" => j.crossed)
  BY <1>1 DEF ApWide
<1>6. /\ j.gstate = ap.gstate /\ j.ptk = ap.ptk /\ j.gtk = ap.gtk /\ j.txkey = ap.txkey
      /\ j.rekey = ap.rekey /\ j.gtks = ap.gtks /\ j.timer = ap.timer
  BY <1>1 DEF ApWide
<1> HIDE DEF j
<1>7. x \in ApOut /\ x.ap = j /\ x.out = {} BY <1>4, HereFacts
<1> HIDE DEF x
<1>8. /\ c \in ApWide /\ c.rstate = "PTKSTART"
      /\ c.here /\ c.assoc = ap.assoc + 1 /\ c.cnt = -1 /\ c.retries = 0 /\ ~c.port
      /\ (ap.gstate # "IDLE" => c.crossed)
      /\ c.gstate = ap.gstate /\ c.ptk = ap.ptk /\ c.gtk = ap.gtk /\ c.txkey = ap.txkey
      /\ c.rekey = ap.rekey /\ c.gtks = ap.gtks
  BY <1>4, <1>5, <1>6, <1>7 DEF ApWide, RState
<1> HIDE DEF c
<1>9. ApCore(c)
  <2>1. OtherKid(c) = OtherKid(ap) BY <1>8 DEF OtherKid
  <2>2. Over(c) \in Nat BY <1>1, <1>8, OverFacts DEF ApCore
  <2>3. Cap(0) <= Cap(Over(c)) /\ Cap(Over(c)) \in Int BY <2>2, CapMonotone, CapFacts
  <2>4. c.cnt < Cap(Over(c)) + c.retries BY <1>8, <2>3, CapZero
  <2>5. MaxCnt \in Nat BY MaxCntIsCap
  <2> QED
    BY <1>1, <1>8, <2>1, <2>4, <2>5, FourWayAssumption DEF ApCore
<1> DEFINE y == SendMsg1(x, nm)
<1>10. Sends(y, x, "PTKSTART", nm, "1", None)
  BY <1>3, <1>5, <1>7, <1>9, SendMsg1Facts DEF c
<1>11. ap' = y.ap /\ net' = net \cup y.out /\ UNCHANGED <<sta, gk, held, staUsed, gkUsed, apUsed>>
  BY <1>2 DEF Becomes, Join
<1> HIDE DEF y
<1>12. /\ ApCore(y.ap) /\ y.ap.assoc = ap.assoc + 1
       /\ y.ap.rstate = "PTKSTART" \/ y.ap.rstate = "INITIALIZE"
       /\ ~y.ap.port
       /\ y.ap.here /\ ~nm => y.ap.timer
       /\ \A m \in y.out : WellFormed(m) /\ m.type = "1"
  BY <1>5, <1>7, <1>10 DEF Sends
<1>13. ApInv(ap)' BY <1>3, <1>11, <1>12 DEF ApInv, ApCore, Waits, Keyless
<1>14. StaInv' BY <1>1, <1>11 DEF IInv, StaInv
<1>15. Drawn(ap)' BY <1>11, <1>12 DEF Drawn
<1>16. UsedInv'
  <2>1. \A k \in Range(apUsed) : k \in Ptk /\ k[1] <= ap.assoc
    BY DEF IInv, UsedInv, Range
  <2>2. \A k \in Range(apUsed') : k[1] <= ap'.assoc /\ (k[1] = ap'.assoc => ~Waits(ap'))
    BY <1>1, <1>11, <1>12, <2>1, FourWayAssumption DEF Ptk
  <2> QED BY <1>11, <2>2 DEF IInv, UsedInv
<1>17. \A m \in net \cup Range(held) : WellFormed(m) /\ Msg2OK(m)' /\ Msg4OK(m)'
  <2> SUFFICES ASSUME NEW m \in net \cup Range(held)
               PROVE  WellFormed(m) /\ Msg2OK(m)' /\ Msg4OK(m)'
    OBVIOUS
  <2>1. WellFormed(m) /\ Msg2OK(m) /\ Msg4OK(m) BY DEF IInv, Sent
  <2>2. Msg2OK(m)' BY <1>11, <2>1 DEF Msg2OK
  <2>3. m.type = "4" => m.mic[1] \in Nat BY <2>1, FourWayAssumption DEF WellFormed, Ptk
  <2>4. Msg4OK(m)' BY <1>1, <1>11, <1>12, <2>1, <2>3 DEF Msg4OK
  <2> QED BY <2>1, <2>2, <2>4
<1>18. \A m \in net : Msg3OK(m)'
  <2> SUFFICES ASSUME NEW m \in net PROVE Msg3OK(m)' OBVIOUS
  <2>1. Msg3OK(m) /\ WellFormed(m) BY DEF IInv, Sent
  <2>2. m.type = "3" => m.mic[1] \in Nat BY <2>1, FourWayAssumption DEF WellFormed, Ptk
  <2> QED BY <1>1, <1>11, <1>12, <2>1, <2>2 DEF Msg3OK
<1>19. \A m \in y.out : WellFormed(m) /\ Msg2OK(m)' /\ Msg3OK(m)' /\ Msg4OK(m)'
  BY <1>12 DEF Msg2OK, Msg3OK, Msg4OK
<1>20. Sent' = net \cup y.out \cup Range(held) BY <1>11 DEF Sent
<1>21. ~ap'.port BY <1>11, <1>12
<1>22. /\ gk' \in [Kid -> Gtk \cup {None}]
       /\ held' \in Seq(Message) /\ Len(held') <= MaxHeld
       /\ \A m \in Range(held') : m.type # "3"
  BY <1>11 DEF IInv
<1> QED
  BY <1>11, <1>12, <1>13, <1>14, <1>15, <1>16, <1>17, <1>18, <1>19, <1>20, <1>21, <1>22
     DEF IInv

-----------------------------------------------------------------------------
(* The steps of the station.                                               *)

LEMMA StaSendFacts ==
    ASSUME held \in Seq(Message), Len(held) <= MaxHeld, NEW f \in Message, NEW failed,
           StaSend(f, failed)
    PROVE  /\ held' \in Seq(Message) /\ Len(held') <= MaxHeld
           /\ \A m \in net' : m \in net \/ m = StaProtects(f)
           /\ \A m \in Range(held') : m \in Range(held) \/ m = f
           /\ net \subseteq net' /\ Sent \subseteq Sent'
           /\ failed => Sent' = Sent
           /\ ~failed => f \in Sent' \/ StaProtects(f) \in Sent'
<1>1. CASE failed /\ UNCHANGED <<net, held>> BY <1>1 DEF Sent
<1>2. CASE ~failed /\ held = <<>> /\ net' = net \cup {StaProtects(f)} /\ UNCHANGED held
  BY <1>2 DEF Sent
<1>3. CASE ~failed /\ Len(held) < MaxHeld /\ held' = Append(held, f) /\ UNCHANGED net
  <2>1. Range(held') = Range(held) \cup {f} /\ held' \in Seq(Message) BY <1>3, RangeAppend
  <2>2. Len(held') = Len(held) + 1 BY <1>3
  <2>3. Len(held') <= MaxHeld BY <1>3, <2>2, FourWayAssumption
  <2> QED BY <1>3, <2>1, <2>3 DEF Sent
<1> QED BY <1>1, <1>2, <1>3 DEF StaSend

(* A frame of the station, as it is handed down and as it leaves.          *)
LEMMA ProtectsFacts ==
    ASSUME sta \in StaType, NEW f, WellFormed(f)
    PROVE  /\ WellFormed(StaProtects(f)) /\ StaProtects(f).type = f.type
           /\ StaProtects(f).mic = f.mic
<1> DEFINE p == IF sta.txprot THEN sta.key ELSE None
           g == [f EXCEPT !.prot = p]
<1>1. p \in Ptk \cup {None} BY DEF StaType
<1>2. StaProtects(f) = g BY DEF StaProtects
<1> HIDE DEF p
<1>3. f \in Message BY DEF WellFormed
<1>4. g \in Message BY <1>1, <1>3 DEF Message
<1>5. /\ g.type = f.type /\ g.mic = f.mic /\ g.nonce = f.nonce /\ g.kid = f.kid
      /\ g.gtk = f.gtk
  BY <1>3 DEF Message
<1> HIDE DEF g
<1> QED BY <1>2, <1>4, <1>5 DEF WellFormed

LEMMA FrameFacts ==
    ASSUME NEW type \in {"2", "4", "G2"}, NEW cnt \in 0 .. MaxCnt, NEW nonce \in 0 .. MaxNonce,
           NEW mic \in Ptk \cup {None}, type = "2" => nonce # 0,
           type \in {"2", "4"} => mic \in Ptk
    PROVE  /\ WellFormed(Frame(type, cnt, nonce, mic, 0, 0))
           /\ Frame(type, cnt, nonce, mic, 0, 0).type = type
           /\ Frame(type, cnt, nonce, mic, 0, 0).mic = mic
<1> DEFINE f == Frame(type, cnt, nonce, mic, 0, 0)
<1>1. f = [type |-> type, cnt |-> cnt, nonce |-> nonce, mic |-> mic, prot |-> None,
           kid |-> 0, gtk |-> 0]
  BY DEF Frame
<1>2. nonce \in 0 .. MaxNonce + MaxAssoc BY FourWayAssumption
<1> HIDE DEF f
<1>3. f \in Message BY <1>1, <1>2 DEF Message
<1>4. f.type = type /\ f.nonce = nonce /\ f.mic = mic BY <1>1
<1>5. WellFormed(f) BY <1>3, <1>4, FourWayAssumption DEF WellFormed
<1> QED BY <1>4, <1>5 DEF f

(* What a step of the station leaves in place, and what it may add.        *)
LEMMA StaStepInv ==
    ASSUME IInv, UNCHANGED <<ap, apUsed>>, StaInv',
           staUsed' \in Seq(Ptk), gkUsed' \in Seq(Gtk),
           \A k \in Range(staUsed') :
             k[2] <= sta'.snonce /\ (sta'.newptk => k[2] < sta'.snonce),
           gk' \in [Kid -> Gtk \cup {None}],
           held' \in Seq(Message), Len(held') <= MaxHeld,
           \A m \in Range(held') : m.type # "3",
           sta.snonce <= sta'.snonce,
           sta'.state \in {"PTKNEGOTIATING", "PTKDONE"} =>
             sta.snonce < sta'.snonce \/ sta.state \in {"PTKNEGOTIATING", "PTKDONE"},
           sta'.assoc = sta.assoc \/ sta.assoc # ap.assoc,
           sta'.link = "run" /\ sta.assoc = ap.assoc =>
             sta.link = "run" /\ (sta'.key = sta.key \/ sta'.key = ap.ptk),
           net \subseteq net',
           \A m \in net' : m \in net \/ m.type # "3",
           \A m \in Sent' : m \in Sent \/ (WellFormed(m) /\ Msg2OK(m)' /\ Msg4OK(m)')
    PROVE  IInv'
<1>1. sta.snonce \in Nat /\ sta'.snonce \in Nat BY DEF IInv, StaInv, StaType
<1>2. ApInv(ap)' BY DEF IInv
<1>3. Drawn(ap)'
  <2> SUFFICES ASSUME ap.rstate \in {"PTKINITNEGOTIATING", "PTKINITDONE"}
               PROVE  ap.ptk[2] <= sta'.snonce
    BY DEF Drawn
  <2>1. ap.ptk[2] <= sta.snonce BY DEF IInv, Drawn
  <2>2. ap.ptk \in Ptk BY DEF IInv, ApInv, ApCore
  <2>3. ap.ptk[2] \in Nat BY <2>2, FourWayAssumption DEF Ptk
  <2> QED BY <1>1, <2>1, <2>3
<1>4. UsedInv' BY DEF IInv, UsedInv
<1>5. \A m \in Sent' : WellFormed(m) /\ Msg2OK(m)' /\ Msg4OK(m)'
  <2> SUFFICES ASSUME NEW m \in Sent PROVE WellFormed(m) /\ Msg2OK(m)' /\ Msg4OK(m)'
    OBVIOUS
  <2>1. WellFormed(m) /\ Msg2OK(m) /\ Msg4OK(m) BY DEF IInv
  <2>2. m.type = "2" => m.mic[2] \in Nat BY <2>1, FourWayAssumption DEF WellFormed, Ptk
  <2>3. Msg2OK(m)' BY <1>1, <2>1, <2>2 DEF Msg2OK
  <2>4. Msg4OK(m)' BY <2>1 DEF Msg4OK
  <2> QED BY <2>1, <2>3, <2>4
<1>6. \A m \in net' : Msg3OK(m)'
  <2> SUFFICES ASSUME NEW m \in net, m.type = "3" PROVE Msg3OK(m)'
    BY DEF Msg3OK
  <2>1. WellFormed(m) /\ Msg3OK(m) BY DEF IInv, Sent
  <2>2. m.mic[2] \in Nat BY <2>1, FourWayAssumption DEF WellFormed, Ptk
  <2>3. m.mic[2] <= sta'.snonce BY <1>1, <2>1, <2>2 DEF Msg3OK
  <2>4. m.mic[1] < ap.assoc /\ sta'.state \in {"PTKNEGOTIATING", "PTKDONE"} =>
          m.mic[2] < sta'.snonce
    BY <1>1, <2>1, <2>2 DEF Msg3OK
  <2> QED BY <2>1, <2>3, <2>4 DEF Msg3OK
<1>7. ap'.port => \E m \in net' : m.type = "4" /\ m.mic = ap'.ptk BY DEF IInv
<1> QED BY <1>2, <1>3, <1>4, <1>5, <1>6, <1>7 DEF IInv

LEMMA LeaveInv ==
    ASSUME IInv, Leave
    PROVE  IInv'
<1>1. sta \in StaType /\ sta' = [sta EXCEPT !.link = "auth", !.state = "INITIALIZE"]
  BY DEF IInv, StaInv, Leave
<1>2. sta' \in StaType BY <1>1 DEF StaType
<1>3. /\ sta'.link = "auth" /\ sta'.state = "INITIALIZE" /\ sta'.assoc = sta.assoc
      /\ sta'.snonce = sta.snonce /\ sta'.newptk = sta.newptk /\ sta.snonce \in Nat
  BY <1>1 DEF StaType
<1>4. StaInv' BY <1>2, <1>3 DEF StaInv
<1>5. /\ gk' \in [Kid -> Gtk \cup {None}] /\ gkUsed' \in Seq(Gtk)
      /\ UNCHANGED <<ap, net, held, staUsed, apUsed>> /\ Sent' = Sent
  BY DEF Leave, Sent
<1> QED BY <1>3, <1>4, <1>5, StaStepInv DEF IInv, UsedInv

LEMMA AuthOpenInv ==
    ASSUME IInv, AuthOpen
    PROVE  IInv'
<1> DEFINE s == [sta EXCEPT !.link = "assoc", !.rxprot = FALSE, !.txprot = FALSE]
           t == [s EXCEPT !.port = FALSE, !.ok = FALSE, !.key = None]
<1>1. sta \in StaType /\ sta.link = "auth" /\ sta.state = "INITIALIZE" /\ sta' = t
  BY DEF IInv, StaInv, AuthOpen
<1>2. s \in StaType BY <1>1 DEF StaType
<1>3. /\ s.link = "assoc" /\ s.state = sta.state /\ s.assoc = sta.assoc
      /\ s.snonce = sta.snonce /\ s.newptk = sta.newptk /\ sta.snonce \in Nat
  BY <1>1 DEF StaType
<1> HIDE DEF s
<1>4. sta' \in StaType BY <1>1, <1>2 DEF StaType
<1>5. /\ sta'.link = "assoc" /\ sta'.state = "INITIALIZE" /\ sta'.assoc = sta.assoc
      /\ sta'.snonce = sta.snonce /\ sta'.newptk = sta.newptk
  BY <1>1, <1>2, <1>3 DEF StaType
<1>6. StaInv' BY <1>4, <1>5 DEF StaInv
<1>7. UNCHANGED <<gk, ap, net, held, staUsed, gkUsed, apUsed>> /\ Sent' = Sent
  BY DEF AuthOpen, Sent
<1> QED BY <1>3, <1>5, <1>6, <1>7, StaStepInv DEF IInv, UsedInv

LEMMA AssocRespInv ==
    ASSUME IInv, AssocResp
    PROVE  IInv'
<1>1. /\ sta \in StaType /\ sta.assoc < ap.assoc
      /\ sta' = [sta EXCEPT !.link = "run", !.state = "PTKSTART", !.assoc = ap.assoc]
      /\ ap.assoc \in 0 .. MaxAssoc
  BY DEF IInv, StaInv, ApInv, ApCore, ApWide, AssocResp
<1>2. sta' \in StaType BY <1>1 DEF StaType
<1>3. /\ sta'.link = "run" /\ sta'.state = "PTKSTART" /\ sta'.assoc = ap.assoc
      /\ sta'.snonce = sta.snonce /\ sta'.newptk = sta.newptk
      /\ sta.snonce \in Nat /\ sta.assoc \in Nat
  BY <1>1 DEF StaType
<1>4. UNCHANGED <<gk, ap, net, held, staUsed, gkUsed, apUsed>> /\ Sent' = Sent
  BY DEF AssocResp, Sent
<1>5. StaInv' BY <1>2, <1>3, <1>4 DEF StaInv
<1>6. sta.assoc # ap.assoc BY <1>1, <1>3
<1> QED BY <1>3, <1>4, <1>5, <1>6, StaStepInv DEF IInv, UsedInv

LEMMA DrainInv ==
    ASSUME IInv, Drain
    PROVE  IInv'
<1>1. /\ UNCHANGED <<sta, gk, ap, staUsed, gkUsed, apUsed>>
      /\ net' = net \cup {StaProtects(m) : m \in Range(held)} /\ held' = <<>>
  BY DEF Drain
<1>2. Range(held') = {} BY <1>1 DEF Range
<1>3. sta \in StaType /\ sta.snonce \in Nat BY DEF IInv, StaInv, StaType
<1>4. \A m \in Range(held) :
        /\ WellFormed(StaProtects(m)) /\ StaProtects(m).type # "3"
        /\ Msg2OK(StaProtects(m)) /\ Msg4OK(StaProtects(m))
  <2> SUFFICES ASSUME NEW m \in Range(held)
               PROVE  /\ WellFormed(StaProtects(m)) /\ StaProtects(m).type # "3"
                      /\ Msg2OK(StaProtects(m)) /\ Msg4OK(StaProtects(m))
    OBVIOUS
  <2>1. WellFormed(m) /\ Msg2OK(m) /\ Msg4OK(m) /\ m.type # "3" BY DEF IInv, Sent
  <2>2. /\ WellFormed(StaProtects(m)) /\ StaProtects(m).type = m.type
        /\ StaProtects(m).mic = m.mic
    BY <1>3, <2>1, ProtectsFacts
  <2> QED BY <2>1, <2>2 DEF Msg2OK, Msg4OK
<1>5. \A m \in net' : m \in net \/ m \in {StaProtects(n) : n \in Range(held)} BY <1>1
<1>6. \A m \in net' : m \in net \/ (/\ WellFormed(m) /\ m.type # "3"
                                    /\ Msg2OK(m) /\ Msg4OK(m))
  BY <1>4, <1>5
<1>7. \A m \in net' : m \in net \/ (WellFormed(m) /\ Msg2OK(m)' /\ Msg4OK(m)')
  BY <1>1, <1>6 DEF Msg2OK, Msg4OK
<1>8. Sent' = net' /\ net \subseteq Sent BY <1>2 DEF Sent
<1>9. \A m \in Sent' : m \in Sent \/ (WellFormed(m) /\ Msg2OK(m)' /\ Msg4OK(m)')
  BY <1>7, <1>8
<1>10. StaInv' BY <1>1 DEF IInv, StaInv
<1>11. held' \in Seq(Message) /\ Len(held') <= MaxHeld BY <1>1, FourWayAssumption
<1>12. \A k \in Range(staUsed') : k[2] <= sta'.snonce /\ (sta'.newptk => k[2] < sta'.snonce)
  BY <1>1 DEF IInv, UsedInv
<1>13. staUsed' \in Seq(Ptk) /\ gkUsed' \in Seq(Gtk) /\ gk' \in [Kid -> Gtk \cup {None}]
  BY <1>1 DEF IInv, UsedInv
<1>14. sta'.link = "run" /\ sta.assoc = ap.assoc =>
         sta.link = "run" /\ (sta'.key = sta.key \/ sta'.key = ap.ptk)
  BY <1>1
<1> QED
  BY <1>1, <1>2, <1>3, <1>6, <1>9, <1>10, <1>11, <1>12, <1>13, <1>14, StaStepInv

(* What the station adds to the frames when it sends frame f.              *)
LEMMA StaSentFacts ==
    ASSUME IInv, NEW f, WellFormed(f), f.type # "3", NEW failed, StaSend(f, failed)
    PROVE  /\ held' \in Seq(Message) /\ Len(held') <= MaxHeld
           /\ \A m \in Range(held') : m.type # "3"
           /\ net \subseteq net'
           /\ \A m \in net' : m \in net \/ m.type # "3"
           /\ \A m \in Sent' : m \in Sent \/ (/\ ~failed /\ WellFormed(m)
                                              /\ m.type = f.type /\ m.mic = f.mic)
           /\ ~failed => \E m \in Sent' : m.type = f.type /\ m.mic = f.mic
           /\ Sent \subseteq Sent'
<1>1. f \in Message /\ held \in Seq(Message) /\ Len(held) <= MaxHeld /\ sta \in StaType
      /\ \A m \in Range(held) : m.type # "3"
  BY DEF IInv, StaInv, WellFormed
<1> DEFINE g == StaProtects(f)
<1>2. WellFormed(g) /\ g.type = f.type /\ g.mic = f.mic BY <1>1, ProtectsFacts
<1>3. /\ held' \in Seq(Message) /\ Len(held') <= MaxHeld
      /\ \A m \in net' : m \in net \/ m = g
      /\ \A m \in Range(held') : m \in Range(held) \/ m = f
      /\ net \subseteq net' /\ Sent \subseteq Sent'
      /\ failed => Sent' = Sent
      /\ ~failed => f \in Sent' \/ g \in Sent'
  BY <1>1, StaSendFacts
<1> HIDE DEF g
<1>4. \A m \in Sent' : m \in Sent \/ m = g \/ m = f BY <1>3 DEF Sent
<1> QED BY <1>1, <1>2, <1>3, <1>4

LEMMA RecvMsg1Inv ==
    ASSUME IInv, NEW m \in net, RecvMsg1(m)
    PROVE  /\ IInv' /\ UNCHANGED <<ap, staUsed, apUsed>>
           /\ \A n \in Sent' : n \in Sent \/ n.type = "2"
           /\ Sent \subseteq Sent'
<1>1. /\ m.type = "1" /\ sta.state # "INITIALIZE" /\ sta.snonce < MaxNonce
      /\ UNCHANGED <<gk, ap, staUsed, gkUsed, apUsed>>
      /\ sta' = [sta EXCEPT !.anonce = m.nonce, !.snonce = @ + 1, !.newptk = TRUE,
                            !.state = "PTKNEGOTIATING"]
  BY DEF RecvMsg1
<1>2. PICK failed \in BOOLEAN :
        StaSend(Frame("2", m.cnt, sta'.snonce, <<m.nonce, sta'.snonce>>, 0, 0), failed)
  BY DEF RecvMsg1
<1>3. m.nonce \in 1 .. MaxAssoc /\ m.cnt \in 0 .. MaxCnt
  BY <1>1 DEF IInv, Sent, WellFormed, Message
<1>4. sta \in StaType /\ sta.link = "run" BY <1>1 DEF IInv, StaInv
<1>5. sta.snonce + 1 \in 1 .. MaxNonce /\ sta.snonce \in Nat
  BY <1>1, <1>4, FourWayAssumption DEF StaType
<1>6. sta' \in StaType
  <2> DEFINE s == [sta EXCEPT !.anonce = m.nonce, !.snonce = sta.snonce + 1]
  <2>1. sta' = [s EXCEPT !.newptk = TRUE, !.state = "PTKNEGOTIATING"] BY <1>1, <1>4
  <2>2. m.nonce \in 0 .. MaxAssoc /\ sta.snonce + 1 \in 0 .. MaxNonce
    BY <1>3, <1>5, FourWayAssumption
  <2>3. s \in StaType BY <1>4, <2>2 DEF StaType
  <2> HIDE DEF s
  <2> QED BY <2>1, <2>3 DEF StaType
<1>7. /\ sta'.link = "run" /\ sta'.state = "PTKNEGOTIATING" /\ sta'.newptk
      /\ sta'.anonce = m.nonce /\ sta'.snonce = sta.snonce + 1
      /\ sta'.assoc = sta.assoc /\ sta'.key = sta.key
  BY <1>1, <1>4 DEF StaType
<1>8. StaInv' BY <1>1, <1>3, <1>4, <1>5, <1>6, <1>7 DEF StaInv, IInv
<1> DEFINE mic == <<m.nonce, sta'.snonce>>
           f == Frame("2", m.cnt, sta'.snonce, mic, 0, 0)
<1>9. mic \in Ptk /\ mic[2] = sta'.snonce BY <1>3, <1>5, <1>7 DEF Ptk
<1>10. StaSend(f, failed) BY <1>2
<1> HIDE DEF mic
<1>11. WellFormed(f) /\ f.type = "2" /\ f.mic = mic
  BY <1>3, <1>5, <1>7, <1>9, FrameFacts
<1> HIDE DEF f
<1>12. /\ held' \in Seq(Message) /\ Len(held') <= MaxHeld
       /\ \A n \in Range(held') : n.type # "3"
       /\ net \subseteq net'
       /\ \A n \in net' : n \in net \/ n.type # "3"
       /\ \A n \in Sent' : n \in Sent \/ (WellFormed(n) /\ n.type = "2" /\ n.mic = mic)
       /\ Sent \subseteq Sent'
  BY <1>10, <1>11, StaSentFacts
<1>13. \A n \in Sent' : n \in Sent \/ (WellFormed(n) /\ Msg2OK(n)' /\ Msg4OK(n)')
  BY <1>5, <1>7, <1>9, <1>12 DEF Msg2OK, Msg4OK
<1>14. \A k \in Range(staUsed') : k[2] <= sta'.snonce /\ (sta'.newptk => k[2] < sta'.snonce)
  <2> SUFFICES ASSUME NEW k \in Range(staUsed) PROVE k[2] < sta'.snonce /\ k[2] <= sta'.snonce
    BY <1>1
  <2>1. k[2] <= sta.snonce /\ staUsed \in Seq(Ptk) BY DEF IInv, UsedInv
  <2>2. k \in Ptk BY <2>1 DEF Range
  <2>3. k[2] \in Nat BY <2>2, FourWayAssumption DEF Ptk
  <2> QED BY <1>5, <1>7, <2>1, <2>3
<1>15. staUsed' \in Seq(Ptk) /\ gkUsed' \in Seq(Gtk) /\ gk' \in [Kid -> Gtk \cup {None}]
  BY <1>1 DEF IInv, UsedInv
<1>16. sta.snonce < sta'.snonce /\ sta.snonce <= sta'.snonce BY <1>5, <1>7
<1>17. IInv'
  BY <1>1, <1>4, <1>7, <1>8, <1>12, <1>13, <1>14, <1>15, <1>16, StaStepInv
<1> QED BY <1>1, <1>12, <1>17

(* A message 3 the station accepts has the key of the access point, in the *)
(* association both are in.                                                *)
LEMMA Msg3Facts ==
    ASSUME IInv, NEW m \in net, IsMsg3(m)
    PROVE  /\ m.type = "3" /\ WellFormed(m) /\ m.cnt \in 0 .. MaxCnt
           /\ m.mic = <<sta.anonce, sta.snonce>> /\ m.mic \in Ptk
           /\ m.mic = ap.ptk /\ m.mic[1] = ap.assoc /\ m.mic[2] = sta.snonce /\ ~Keyless(ap)
           /\ sta \in StaType /\ sta.link = "run" /\ sta.assoc = ap.assoc
           /\ sta.state \in {"PTKNEGOTIATING", "PTKDONE"}
<1>1. /\ m.type = "3" /\ sta.state \in {"PTKNEGOTIATING", "PTKDONE"}
      /\ m.mic = <<sta.anonce, sta.snonce>>
  BY DEF IsMsg3
<1>2. WellFormed(m) /\ Msg3OK(m) BY DEF IInv, Sent
<1>3. m.mic \in Ptk /\ m.cnt \in 0 .. MaxCnt BY <1>1, <1>2 DEF WellFormed, Message
<1>4. m.mic[2] = sta.snonce /\ m.mic[1] \in Nat /\ m.mic[2] \in Nat
  BY <1>1, <1>3, FourWayAssumption DEF Ptk
<1>5. ap.assoc \in Nat BY DEF IInv, ApInv, ApCore, ApWide
<1>6. m.mic[1] = ap.assoc BY <1>1, <1>2, <1>4, <1>5 DEF Msg3OK
<1>7. m.mic = ap.ptk /\ ~Keyless(ap) BY <1>1, <1>2, <1>6 DEF Msg3OK
<1>8. sta \in StaType /\ sta.link = "run" /\ sta.assoc = ap.assoc
  BY <1>1 DEF IInv, StaInv
<1> QED BY <1>1, <1>2, <1>3, <1>4, <1>6, <1>7, <1>8

LEMMA ConfirmedFacts ==
    ASSUME sta \in StaType, NEW m, m.cnt \in 0 .. MaxCnt, <<sta.anonce, sta.snonce>> \in Ptk
    PROVE  /\ Confirmed(m) \in StaType
           /\ Confirmed(m).link = sta.link /\ Confirmed(m).assoc = sta.assoc
           /\ Confirmed(m).anonce = sta.anonce /\ Confirmed(m).snonce = sta.snonce
           /\ Confirmed(m).newptk = sta.newptk /\ Confirmed(m).key = sta.key
           /\ Confirmed(m).state = "PTKDONE"
<1> DEFINE p == <<sta.anonce, sta.snonce>>
           s == [sta EXCEPT !.ptk = p, !.replaycnt = m.cnt]
<1>1. Confirmed(m) = [s EXCEPT !.ok = TRUE, !.state = "PTKDONE"] BY DEF Confirmed
<1> HIDE DEF p
<1>2. s \in StaType BY DEF StaType, p
<1>3. /\ s.link = sta.link /\ s.assoc = sta.assoc /\ s.anonce = sta.anonce
      /\ s.snonce = sta.snonce /\ s.newptk = sta.newptk /\ s.key = sta.key
  BY DEF StaType
<1> HIDE DEF s
<1>4. Confirmed(m) \in StaType BY <1>1, <1>2 DEF StaType
<1> QED BY <1>1, <1>2, <1>3, <1>4 DEF StaType

LEMMA SetGroupKeyFacts ==
    ASSUME IInv, NEW m, WellFormed(m), m.type \in {"3", "G1"}, NEW refused,
           SetGroupKey(m, refused)
    PROVE  gk' \in [Kid -> Gtk \cup {None}] /\ gkUsed' \in Seq(Gtk)
<1>1. m.kid \in Kid /\ m.gtk \in Gtk BY DEF WellFormed
<1>2. gk \in [Kid -> Gtk \cup {None}] /\ gkUsed \in Seq(Gtk) BY DEF IInv, UsedInv
<1> QED BY <1>1, <1>2 DEF SetGroupKey

(* A step of the station on message 3: message 4 is sent only with the key *)
(* in place, and a key is used only when it is expected.                   *)
LEMMA Msg3StepInv ==
    ASSUME IInv, NEW m \in net, IsMsg3(m), UNCHANGED <<ap, apUsed>>,
           sta' \in StaType, sta'.link = sta.link, sta'.state = "PTKDONE",
           sta'.assoc = sta.assoc, sta'.anonce = sta.anonce, sta'.snonce = sta.snonce,
           sta'.newptk => sta.newptk,
           \/ sta'.key = m.mic
           \/ sta'.key = sta.key /\ sta'.newptk = sta.newptk,
           NEW failed, StaSend(Frame("4", m.cnt, 0, m.mic, 0, 0), failed),
           failed \/ sta'.key = m.mic,
           \/ staUsed' = staUsed
           \/ staUsed' = Append(staUsed, m.mic) /\ ~sta'.newptk,
           gk' \in [Kid -> Gtk \cup {None}], gkUsed' \in Seq(Gtk)
    PROVE  /\ IInv'
           /\ \A n \in Sent' : n \in Sent \/ (~failed /\ n.type = "4" /\ n.mic = m.mic)
           /\ ~failed => \E n \in Sent' : n.type = "4" /\ n.mic = m.mic
           /\ Sent \subseteq Sent'
<1>1. /\ m.type = "3" /\ WellFormed(m) /\ m.cnt \in 0 .. MaxCnt
      /\ m.mic = <<sta.anonce, sta.snonce>> /\ m.mic \in Ptk
      /\ m.mic = ap.ptk /\ m.mic[1] = ap.assoc /\ m.mic[2] = sta.snonce /\ ~Keyless(ap)
      /\ sta \in StaType /\ sta.link = "run" /\ sta.assoc = ap.assoc
      /\ sta.state \in {"PTKNEGOTIATING", "PTKDONE"}
  BY Msg3Facts
<1> DEFINE f == Frame("4", m.cnt, 0, m.mic, 0, 0)
<1>2. WellFormed(f) /\ f.type = "4" /\ f.mic = m.mic
  BY <1>1, FrameFacts, FourWayAssumption
<1>3. StaSend(f, failed) OBVIOUS
<1> HIDE DEF f
<1>4. /\ held' \in Seq(Message) /\ Len(held') <= MaxHeld
      /\ \A n \in Range(held') : n.type # "3"
      /\ net \subseteq net'
      /\ \A n \in net' : n \in net \/ n.type # "3"
      /\ \A n \in Sent' : n \in Sent \/ (/\ ~failed /\ WellFormed(n)
                                         /\ n.type = "4" /\ n.mic = m.mic)
      /\ ~failed => \E n \in Sent' : n.type = "4" /\ n.mic = m.mic
      /\ Sent \subseteq Sent'
  BY <1>2, <1>3, StaSentFacts
<1>5. StaInv'
  <2>1. sta.anonce # 0 /\ sta.snonce # 0
        /\ (~sta.newptk => sta.key = <<sta.anonce, sta.snonce>>)
    BY <1>1 DEF IInv, StaInv
  <2> QED BY <1>1, <2>1 DEF StaInv
<1>6. ap.assoc \in Nat BY DEF IInv, ApInv, ApCore, ApWide
<1>7. \A n \in Sent' : n \in Sent \/ (WellFormed(n) /\ Msg2OK(n)' /\ Msg4OK(n)')
  <2> SUFFICES ASSUME NEW n \in Sent', ~failed, WellFormed(n), n.type = "4", n.mic = m.mic
               PROVE  Msg2OK(n)' /\ Msg4OK(n)'
    BY <1>4
  <2> QED BY <1>1, <1>6 DEF Msg2OK, Msg4OK
<1>8. sta.snonce \in Nat BY <1>1 DEF StaType
<1>9. /\ staUsed' \in Seq(Ptk)
      /\ \A k \in Range(staUsed') : k[2] <= sta'.snonce /\ (sta'.newptk => k[2] < sta'.snonce)
  <2>1. /\ staUsed \in Seq(Ptk)
        /\ \A k \in Range(staUsed) : k[2] <= sta.snonce /\ (sta.newptk => k[2] < sta.snonce)
    BY DEF IInv, UsedInv
  <2>2. CASE staUsed' = staUsed BY <2>1, <2>2
  <2>3. CASE staUsed' = Append(staUsed, m.mic) /\ ~sta'.newptk
    <3> DEFINE e == m.mic
    <3>1. e \in Ptk /\ staUsed \in Seq(Ptk) BY <1>1, <2>1
    <3>2. staUsed' = Append(staUsed, e) BY <2>3
    <3> HIDE DEF e
    <3>3. Range(staUsed') = Range(staUsed) \cup {e} /\ staUsed' \in Seq(Ptk)
      BY <3>1, <3>2, RangeAppend
    <3>4. Range(staUsed') = Range(staUsed) \cup {m.mic} /\ staUsed' \in Seq(Ptk)
      BY <3>3 DEF e
    <3> QED BY <1>1, <1>8, <2>1, <2>3, <3>4
  <2> QED BY <2>2, <2>3
<1>10. sta.snonce <= sta'.snonce BY <1>8
<1>11. sta'.link = "run" /\ sta.assoc = ap.assoc =>
         sta.link = "run" /\ (sta'.key = sta.key \/ sta'.key = ap.ptk)
  BY <1>1
<1>12. sta'.state \in {"PTKNEGOTIATING", "PTKDONE"} =>
         sta.snonce < sta'.snonce \/ sta.state \in {"PTKNEGOTIATING", "PTKDONE"}
  BY <1>1
<1>13. IInv'
  BY <1>4, <1>5, <1>7, <1>9, <1>10, <1>11, <1>12, StaStepInv
<1> QED BY <1>4, <1>13

(* What changes in the station when a pairwise key is put to use, and what *)
(* of the abstract history.                                                *)
Confirms(m) ==
    /\ \A n \in Sent' : n \in Sent \/ (n.type = "4" /\ n.mic = m.mic)
    /\ \E n \in Sent' : n.type = "4" /\ n.mic = m.mic
    /\ Sent \subseteq Sent'
    /\ \/ staUsed' = staUsed
       \/ m.mic \notin Range(staUsed) /\ staUsed' = Append(staUsed, m.mic)
    /\ m.mic \in Ptk /\ apUsed' = apUsed

LEMMA UnansweredInv ==
    ASSUME IInv, NEW m \in net, RecvMsg3Unanswered(m)
    PROVE  IInv' /\ Sent' = Sent /\ UNCHANGED <<staUsed, apUsed>>
<1>1. /\ IsMsg3(m) /\ sta' = Confirmed(m)
      /\ StaSend(Frame("4", m.cnt, 0, m.mic, 0, 0), TRUE)
      /\ UNCHANGED <<gk, ap, staUsed, gkUsed, apUsed>>
  BY DEF RecvMsg3Unanswered
<1>2. sta \in StaType /\ m.cnt \in 0 .. MaxCnt /\ <<sta.anonce, sta.snonce>> \in Ptk
  BY <1>1, Msg3Facts
<1>3. gk' \in [Kid -> Gtk \cup {None}] /\ gkUsed' \in Seq(Gtk) BY <1>1 DEF IInv, UsedInv
<1>4. /\ sta' \in StaType
      /\ sta'.link = sta.link /\ sta'.assoc = sta.assoc
      /\ sta'.anonce = sta.anonce /\ sta'.snonce = sta.snonce
      /\ sta'.newptk = sta.newptk /\ sta'.key = sta.key /\ sta'.state = "PTKDONE"
  BY <1>1, <1>2, ConfirmedFacts
<1>5. IInv' BY <1>1, <1>3, <1>4, Msg3StepInv
<1>6. UNCHANGED <<net, held>> BY <1>1 DEF StaSend
<1> QED BY <1>1, <1>5, <1>6 DEF Sent

LEMMA RefusedInv ==
    ASSUME IInv, NEW m \in net, RecvMsg3Refused(m)
    PROVE  IInv' /\ Confirms(m)
<1>1. /\ IsMsg3(m) /\ sta.newptk /\ sta' = [Confirmed(m) EXCEPT !.key = m.mic]
      /\ StaSend(Frame("4", m.cnt, 0, m.mic, 0, 0), FALSE)
      /\ UNCHANGED <<gk, ap, staUsed, gkUsed, apUsed>>
  BY DEF RecvMsg3Refused
<1>2. /\ sta \in StaType /\ m.cnt \in 0 .. MaxCnt /\ m.mic \in Ptk
      /\ <<sta.anonce, sta.snonce>> \in Ptk
  BY <1>1, Msg3Facts
<1>3. gk' \in [Kid -> Gtk \cup {None}] /\ gkUsed' \in Seq(Gtk) BY <1>1 DEF IInv, UsedInv
<1> DEFINE s == Confirmed(m)
<1>4. /\ s \in StaType
      /\ s.link = sta.link /\ s.assoc = sta.assoc
      /\ s.anonce = sta.anonce /\ s.snonce = sta.snonce
      /\ s.newptk = sta.newptk /\ s.state = "PTKDONE"
  BY <1>2, ConfirmedFacts
<1> HIDE DEF s
<1>5. sta' = [s EXCEPT !.key = m.mic] BY <1>1 DEF s
<1>6. sta' \in StaType BY <1>2, <1>4, <1>5 DEF StaType
<1>7. /\ sta'.link = sta.link /\ sta'.assoc = sta.assoc
      /\ sta'.anonce = sta.anonce /\ sta'.snonce = sta.snonce
      /\ sta'.newptk = sta.newptk /\ sta'.key = m.mic /\ sta'.state = "PTKDONE"
  BY <1>4, <1>5 DEF StaType
<1>8. IsMsg3(m) /\ UNCHANGED <<ap, apUsed>> /\ staUsed' = staUsed BY <1>1
<1>9. StaSend(Frame("4", m.cnt, 0, m.mic, 0, 0), FALSE) BY <1>1
<1>10. /\ IInv'
       /\ \A n \in Sent' : n \in Sent \/ (n.type = "4" /\ n.mic = m.mic)
       /\ \E n \in Sent' : n.type = "4" /\ n.mic = m.mic
       /\ Sent \subseteq Sent'
  BY <1>3, <1>6, <1>7, <1>8, <1>9, Msg3StepInv
<1> QED BY <1>2, <1>8, <1>10 DEF Confirms

LEMMA RecvMsg3Inv ==
    ASSUME IInv, NEW m \in net, RecvMsg3(m)
    PROVE  IInv' /\ Confirms(m)
<1> DEFINE c == Confirmed(m)
           k == [c EXCEPT !.key = m.mic, !.newptk = FALSE]
           s == IF sta.newptk THEN [k EXCEPT !.rxprot = TRUE, !.txprot = FALSE] ELSE c
           t == [s EXCEPT !.rxprot = TRUE, !.txprot = TRUE, !.port = TRUE]
<1>0. [c EXCEPT !.key = m.mic, !.newptk = FALSE, !.rxprot = TRUE, !.txprot = FALSE]
        = [k EXCEPT !.rxprot = TRUE, !.txprot = FALSE]
  OBVIOUS
<1>1. PICK refused \in BOOLEAN :
        /\ IsMsg3(m)
        /\ StaSend(Frame("4", m.cnt, 0, m.mic, 0, 0), FALSE)
        /\ staUsed' = IF sta.newptk THEN Append(staUsed, m.mic) ELSE staUsed
        /\ SetGroupKey(m, refused)
        /\ sta' = IF refused THEN s ELSE t
        /\ UNCHANGED <<ap, apUsed>>
  BY <1>0 DEF RecvMsg3
<1>2. /\ sta \in StaType /\ m.cnt \in 0 .. MaxCnt /\ m.mic \in Ptk /\ m.type = "3"
      /\ WellFormed(m) /\ m.mic = <<sta.anonce, sta.snonce>> /\ m.mic[2] = sta.snonce
      /\ sta.state \in {"PTKNEGOTIATING", "PTKDONE"}
  BY <1>1, Msg3Facts
<1>3. gk' \in [Kid -> Gtk \cup {None}] /\ gkUsed' \in Seq(Gtk)
  BY <1>1, <1>2, SetGroupKeyFacts
<1>4. /\ c \in StaType
      /\ c.link = sta.link /\ c.assoc = sta.assoc
      /\ c.anonce = sta.anonce /\ c.snonce = sta.snonce
      /\ c.newptk = sta.newptk /\ c.key = sta.key /\ c.state = "PTKDONE"
  BY <1>2, ConfirmedFacts
<1> HIDE DEF c
<1>5. /\ k \in StaType
      /\ k.link = sta.link /\ k.assoc = sta.assoc
      /\ k.anonce = sta.anonce /\ k.snonce = sta.snonce
      /\ ~k.newptk /\ k.key = m.mic /\ k.state = "PTKDONE"
  BY <1>2, <1>4 DEF StaType
<1> HIDE DEF k
<1>6. ~sta.newptk => sta.key = m.mic BY <1>2 DEF IInv, StaInv
<1>7. /\ s \in StaType
      /\ s.link = sta.link /\ s.assoc = sta.assoc
      /\ s.anonce = sta.anonce /\ s.snonce = sta.snonce
      /\ ~s.newptk /\ s.key = m.mic /\ s.state = "PTKDONE"
  <2>1. CASE ~sta.newptk BY <1>4, <1>6, <2>1
  <2>2. CASE sta.newptk
    <3>1. s = [k EXCEPT !.rxprot = TRUE, !.txprot = FALSE] BY <2>2
    <3> HIDE DEF s
    <3>2. s \in StaType BY <1>5, <3>1 DEF StaType
    <3> QED BY <1>5, <3>1, <3>2 DEF StaType
  <2> QED BY <2>1, <2>2
<1> HIDE DEF s
<1>8. /\ t \in StaType
      /\ t.link = sta.link /\ t.assoc = sta.assoc
      /\ t.anonce = sta.anonce /\ t.snonce = sta.snonce
      /\ ~t.newptk /\ t.key = m.mic /\ t.state = "PTKDONE"
  <2> DEFINE u == [s EXCEPT !.rxprot = TRUE]
             v == [u EXCEPT !.txprot = TRUE]
  <2>1. /\ u \in StaType
        /\ u.link = s.link /\ u.assoc = s.assoc /\ u.anonce = s.anonce
        /\ u.snonce = s.snonce /\ u.newptk = s.newptk /\ u.key = s.key /\ u.state = s.state
    BY <1>7 DEF StaType
  <2>2. t = [v EXCEPT !.port = TRUE] OBVIOUS
  <2> HIDE DEF u
  <2>3. /\ v \in StaType
        /\ v.link = s.link /\ v.assoc = s.assoc /\ v.anonce = s.anonce
        /\ v.snonce = s.snonce /\ v.newptk = s.newptk /\ v.key = s.key /\ v.state = s.state
    BY <2>1 DEF StaType
  <2> HIDE DEF v
  <2> QED BY <1>7, <2>2, <2>3 DEF StaType
<1> HIDE DEF t
<1>9. /\ sta' \in StaType
      /\ sta'.link = sta.link /\ sta'.assoc = sta.assoc
      /\ sta'.anonce = sta.anonce /\ sta'.snonce = sta.snonce
      /\ ~sta'.newptk /\ sta'.key = m.mic /\ sta'.state = "PTKDONE"
  BY <1>1, <1>7, <1>8
<1>10. /\ IInv'
       /\ \A n \in Sent' : n \in Sent \/ (n.type = "4" /\ n.mic = m.mic)
       /\ \E n \in Sent' : n.type = "4" /\ n.mic = m.mic
       /\ Sent \subseteq Sent'
  BY <1>1, <1>3, <1>9, Msg3StepInv
<1>11. sta.newptk => m.mic \notin Range(staUsed)
  BY <1>2, FourWayAssumption DEF IInv, UsedInv, StaType
<1> QED BY <1>1, <1>2, <1>10, <1>11 DEF Confirms

LEMMA RecvGroupMsg1Inv ==
    ASSUME IInv, NEW m \in net, RecvGroupMsg1(m)
    PROVE  /\ IInv' /\ UNCHANGED <<ap, staUsed, apUsed>>
           /\ \A n \in Sent' : n \in Sent \/ n.type = "G2"
           /\ Sent \subseteq Sent'
<1>1. PICK refused \in BOOLEAN :
        /\ m.type = "G1" /\ SetGroupKey(m, refused)
        /\ IF refused
           THEN UNCHANGED <<sta, net, held>>
           ELSE /\ sta' = [sta EXCEPT !.port = TRUE, !.replaycnt = m.cnt]
                /\ \E failed \in BOOLEAN :
                     StaSend(Frame("G2", m.cnt, 0, sta.ptk, 0, 0), failed)
        /\ UNCHANGED <<ap, staUsed, apUsed>>
  BY DEF RecvGroupMsg1
<1>2. WellFormed(m) /\ m.cnt \in 0 .. MaxCnt /\ sta \in StaType
  BY DEF IInv, Sent, StaInv, WellFormed, Message
<1>3. gk' \in [Kid -> Gtk \cup {None}] /\ gkUsed' \in Seq(Gtk)
  BY <1>1, <1>2, SetGroupKeyFacts
<1>4. /\ sta' \in StaType
      /\ sta'.link = sta.link /\ sta'.assoc = sta.assoc /\ sta'.state = sta.state
      /\ sta'.anonce = sta.anonce /\ sta'.snonce = sta.snonce
      /\ sta'.newptk = sta.newptk /\ sta'.key = sta.key
  BY <1>1, <1>2 DEF StaType
<1>5. StaInv' BY <1>1, <1>4 DEF IInv, StaInv
<1>6. /\ held' \in Seq(Message) /\ Len(held') <= MaxHeld
      /\ \A n \in Range(held') : n.type # "3"
      /\ net \subseteq net'
      /\ \A n \in net' : n \in net \/ n.type # "3"
      /\ \A n \in Sent' : n \in Sent \/ (WellFormed(n) /\ n.type = "G2")
      /\ Sent \subseteq Sent'
  <2>1. CASE refused BY <1>1, <2>1 DEF IInv, Sent
  <2>2. CASE ~refused
    <3> DEFINE f == Frame("G2", m.cnt, 0, sta.ptk, 0, 0)
    <3>1. PICK failed \in BOOLEAN : StaSend(f, failed) BY <1>1, <2>2
    <3>2. WellFormed(f) /\ f.type = "G2" BY <1>2, FrameFacts, FourWayAssumption DEF StaType
    <3> HIDE DEF f
    <3> QED BY <3>1, <3>2, StaSentFacts
  <2> QED BY <2>1, <2>2
<1>7. \A n \in Sent' : n \in Sent \/ (WellFormed(n) /\ Msg2OK(n)' /\ Msg4OK(n)')
  BY <1>6 DEF Msg2OK, Msg4OK
<1>8. sta.snonce \in Nat BY <1>2 DEF StaType
<1>9. \A k \in Range(staUsed') : k[2] <= sta'.snonce /\ (sta'.newptk => k[2] < sta'.snonce)
  BY <1>1, <1>4 DEF IInv, UsedInv
<1>10. staUsed' \in Seq(Ptk) BY <1>1 DEF IInv, UsedInv
<1>11. IInv'
  BY <1>1, <1>3, <1>4, <1>5, <1>6, <1>7, <1>8, <1>9, <1>10, StaStepInv
<1> QED BY <1>1, <1>6, <1>11

-----------------------------------------------------------------------------
(* Every step, and what it means to the abstract agreement.                *)

(* The keys of the messages 4 on their way, those held back included.      *)
Conf == {m.mic : m \in {n \in Sent : n.type = "4"}}

Quiet == UNCHANGED <<staUsed, apUsed>> /\ Conf' = Conf

Adopts ==
    /\ ap.ptk \in Ptk /\ ap.ptk \in Conf /\ ap.ptk \notin Range(apUsed)
    /\ apUsed' = Append(apUsed, ap.ptk)
    /\ staUsed' = staUsed /\ Conf' = Conf

(* A step of the agreement, or none.                                       *)
Agreeing == Quiet \/ (\E m \in net : Confirms(m)) \/ Adopts

LEMMA SameConf ==
    ASSUME \A n \in Sent' : n.type = "4" => \E o \in Sent : o.type = "4" /\ o.mic = n.mic,
           \A n \in Sent : n.type = "4" => \E o \in Sent' : o.type = "4" /\ o.mic = n.mic
    PROVE  Conf' = Conf
<1>1. \A k \in Conf' : k \in Conf BY DEF Conf
<1>2. \A k \in Conf : k \in Conf' BY DEF Conf
<1> QED BY <1>1, <1>2

LEMMA StaReceivesStep ==
    ASSUME IInv, StaReceives
    PROVE  IInv' /\ Agreeing
<1>1. PICK m \in net : \/ RecvMsg1(m) \/ RecvMsg3(m) \/ RecvMsg3Unanswered(m)
                       \/ RecvMsg3Refused(m) \/ RecvGroupMsg1(m)
  BY DEF StaReceives
<1>2. CASE RecvMsg1(m)
  <2>1. /\ IInv' /\ UNCHANGED <<staUsed, apUsed>> /\ Sent \subseteq Sent'
        /\ \A n \in Sent' : n \in Sent \/ n.type = "2"
    BY <1>2, RecvMsg1Inv
  <2>2. Conf' = Conf BY <2>1, SameConf
  <2> QED BY <2>1, <2>2 DEF Agreeing, Quiet
<1>3. CASE RecvMsg3(m) BY <1>3, RecvMsg3Inv DEF Agreeing
<1>4. CASE RecvMsg3Unanswered(m)
  <2>1. IInv' /\ Sent' = Sent /\ UNCHANGED <<staUsed, apUsed>> BY <1>4, UnansweredInv
  <2> QED BY <2>1 DEF Agreeing, Quiet, Conf
<1>5. CASE RecvMsg3Refused(m) BY <1>5, RefusedInv DEF Agreeing
<1>6. CASE RecvGroupMsg1(m)
  <2>1. /\ IInv' /\ UNCHANGED <<staUsed, apUsed>> /\ Sent \subseteq Sent'
        /\ \A n \in Sent' : n \in Sent \/ n.type = "G2"
    BY <1>6, RecvGroupMsg1Inv
  <2>2. Conf' = Conf BY <2>1, SameConf
  <2> QED BY <2>1, <2>2 DEF Agreeing, Quiet
<1> QED BY <1>1, <1>2, <1>3, <1>4, <1>5, <1>6

(* The access point sends no message 4.                                    *)
LEMMA ApConf ==
    ASSUME NEW out, net' = net \cup out, held' = held, \A m \in out : m.type # "4"
    PROVE  Conf' = Conf
<1>1. Sent' = Sent \cup out BY DEF Sent
<1> QED BY <1>1, SameConf

LEMMA HandledStep ==
    ASSUME IInv, Handled, UNCHANGED <<sta, gk, held, staUsed, gkUsed, apUsed>>
    PROVE  IInv' /\ Agreeing
<1>1. PICK x \in ApOut : KeepsStation(x) /\ net' = net \cup x.out BY DEF Handled
<1>2. \A m \in x.out : m.type # "4" BY <1>1 DEF KeepsStation
<1>3. Conf' = Conf BY <1>1, <1>2, ApConf
<1> QED BY <1>3, HandledInv DEF Agreeing, Quiet

LEMMA RecvMsg4Step ==
    ASSUME IInv, NEW m \in net, RecvMsg4(m)
    PROVE  IInv' /\ Agreeing
<1>1. /\ m.type = "4" /\ m.mic = ap.ptk /\ Waits(ap)
      /\ ap.ptk \in Ptk /\ ap.ptk[1] = ap.assoc
      /\ apUsed' = apUsed \/ apUsed' = Append(apUsed, ap.ptk)
      /\ \E x \in ApOut : /\ KeepsStation(x) /\ ApInv(x.ap)
                          /\ x.ap.ptk = ap.ptk /\ ~Waits(x.ap)
                          /\ ap' = x.ap /\ net' = net \cup x.out
  BY RecvMsg4Handled
<1>2. PICK x \in ApOut : /\ KeepsStation(x) /\ ApInv(x.ap)
                         /\ x.ap.ptk = ap.ptk /\ ~Waits(x.ap)
                         /\ ap' = x.ap /\ net' = net \cup x.out
  BY <1>1
<1>3. UNCHANGED <<sta, gk, held, staUsed, gkUsed>> BY DEF RecvMsg4, Becomes
<1>4. IInv' BY <1>1, <1>2, <1>3, ApStepInv
<1>5. \A n \in x.out : n.type # "4" BY <1>2 DEF KeepsStation
<1>6. Conf' = Conf BY <1>2, <1>3, <1>5, ApConf
<1>7. ap.ptk \in Conf BY <1>1 DEF Conf, Sent
<1>8. ap.ptk \notin Range(apUsed) BY <1>1 DEF IInv, UsedInv
<1> QED BY <1>1, <1>3, <1>4, <1>6, <1>7, <1>8 DEF Agreeing, Quiet, Adopts

LEMMA DrainStep ==
    ASSUME IInv, Drain
    PROVE  IInv' /\ Agreeing
<1>1. /\ UNCHANGED <<sta, staUsed, apUsed>>
      /\ net' = net \cup {StaProtects(m) : m \in Range(held)} /\ held' = <<>>
  BY DEF Drain
<1>2. \A m \in Range(held) : StaProtects(m).type = m.type /\ StaProtects(m).mic = m.mic
  <2>1. \A m \in Range(held) : WellFormed(m) BY DEF IInv, Sent
  <2>2. sta \in StaType BY DEF IInv, StaInv
  <2> QED BY <2>1, <2>2, ProtectsFacts
<1>3. Sent' = net \cup {StaProtects(m) : m \in Range(held)} BY <1>1 DEF Sent, Range
<1>4. Conf' = Conf BY <1>2, <1>3, SameConf DEF Sent
<1> QED BY <1>1, <1>4, DrainInv DEF Agreeing, Quiet

LEMMA JoinStep ==
    ASSUME IInv, Join
    PROVE  IInv' /\ Agreeing
<1>1. IInv' /\ \A m \in net' : m \in net \/ m.type = "1" BY JoinInv
<1>2. UNCHANGED <<staUsed, apUsed, held>> /\ net \subseteq net' BY DEF Join, Becomes
<1>3. Conf' = Conf BY <1>1, <1>2, SameConf DEF Sent
<1> QED BY <1>1, <1>2, <1>3 DEF Agreeing, Quiet

LEMMA NextStep ==
    ASSUME IInv, [Next]_vars
    PROVE  IInv' /\ Agreeing
<1>1. CASE StaReceives BY <1>1, StaReceivesStep
<1>2. CASE ApReceives
  <2>1. PICK m \in net : RecvMsg2(m) \/ RecvMsg4(m) \/ RecvGroupMsg2(m)
    BY <1>2 DEF ApReceives
  <2>2. CASE RecvMsg2(m)
    <3>1. UNCHANGED <<sta, gk, held, staUsed, gkUsed, apUsed>>
      BY <2>2 DEF RecvMsg2, Becomes
    <3> QED BY <2>2, <3>1, RecvMsg2Handled, HandledStep
  <2>3. CASE RecvMsg4(m) BY <2>3, RecvMsg4Step
  <2>4. CASE RecvGroupMsg2(m)
    <3>1. UNCHANGED <<sta, gk, held, staUsed, gkUsed, apUsed>>
      BY <2>4 DEF RecvGroupMsg2, Becomes
    <3> QED BY <2>4, <3>1, RecvGroupMsg2Handled, HandledStep
  <2> QED BY <2>1, <2>2, <2>3, <2>4
<1>3. CASE Leave
  <2>1. Sent' = Sent /\ UNCHANGED <<staUsed, apUsed>> BY <1>3 DEF Leave, Sent
  <2> QED BY <1>3, <2>1, LeaveInv DEF Agreeing, Quiet, Conf
<1>4. CASE AuthOpen
  <2>1. Sent' = Sent /\ UNCHANGED <<staUsed, apUsed>> BY <1>4 DEF AuthOpen, Sent
  <2> QED BY <1>4, <2>1, AuthOpenInv DEF Agreeing, Quiet, Conf
<1>5. CASE AssocResp
  <2>1. Sent' = Sent /\ UNCHANGED <<staUsed, apUsed>> BY <1>5 DEF AssocResp, Sent
  <2> QED BY <1>5, <2>1, AssocRespInv DEF Agreeing, Quiet, Conf
<1>6. CASE Drain BY <1>6, DrainStep
<1>7. CASE Join BY <1>7, JoinStep
<1>8. CASE ApLeave
  <2>1. UNCHANGED <<sta, gk, held, staUsed, gkUsed, apUsed>> BY <1>8 DEF ApLeave, Becomes
  <2> QED BY <1>8, <2>1, ApLeaveHandled, HandledStep
<1>9. CASE EapolTimeout
  <2>1. UNCHANGED <<sta, gk, held, staUsed, gkUsed, apUsed>>
    BY <1>9 DEF EapolTimeout, Becomes
  <2> QED BY <1>9, <2>1, EapolTimeoutHandled, HandledStep
<1>10. CASE GtkRekey
  <2>1. UNCHANGED <<sta, gk, held, staUsed, gkUsed, apUsed>>
    BY <1>10 DEF GtkRekey, Becomes
  <2> QED BY <1>10, <2>1, GtkRekeyHandled, HandledStep
<1>11. CASE UNCHANGED vars
  <2>1. UNCHANGED <<sta, gk, ap, net, held, staUsed, gkUsed, apUsed>> BY <1>11 DEF vars
  <2>2. Sent' = Sent BY <2>1 DEF Sent
  <2>3. IInv' BY <2>1, <2>2 DEF IInv, StaInv, UsedInv, Drawn, Msg2OK, Msg3OK, Msg4OK
  <2> QED BY <2>1, <2>2, <2>3 DEF Agreeing, Quiet, Conf
<1> QED
  BY <1>1, <1>2, <1>3, <1>4, <1>5, <1>6, <1>7, <1>8, <1>9, <1>10, <1>11 DEF Next

LEMMA InitInv == Init => IInv
<1> SUFFICES ASSUME Init PROVE IInv
  OBVIOUS
<1>1. net = {} /\ held = <<>> /\ staUsed = <<>> /\ gkUsed = <<>> /\ apUsed = <<>>
  BY DEF Init
<1>2. Range(held) = {} /\ Range(staUsed) = {} /\ Range(apUsed) = {} BY <1>1 DEF Range
<1>3. MaxCnt \in Nat BY MaxCntIsCap
<1>4. sta \in StaType BY <1>3, FourWayAssumption DEF Init, StaType
<1>5. StaInv BY <1>4 DEF Init, StaInv
<1>6. gk \in [Kid -> Gtk \cup {None}] BY DEF Init
<1> DEFINE g == [k \in Kid |-> IF k = 1 THEN 1 ELSE None]
<1>7. g \in [Kid -> Gtk \cup {None}] /\ g[1] = 1 /\ 1 \in Gtk
  BY FourWayAssumption DEF Kid, Gtk
<1>8. ap = [assoc |-> 0, here |-> FALSE, rstate |-> "INITIALIZE", gstate |-> "IDLE",
            cnt |-> -1, ptk |-> None, key |-> None, retries |-> 0, timer |-> FALSE,
            rekey |-> FALSE, crossed |-> FALSE, prot |-> FALSE, port |-> FALSE, txkey |-> 1,
            gtk |-> g, gtks |-> 1]
  BY DEF Init
<1> HIDE DEF g
<1>9. ap \in ApWide BY <1>7, <1>8, FourWayAssumption DEF ApWide, RState, Kid
<1>10. /\ ap.retries = 0 /\ ap.cnt = -1 /\ ap.gtk[ap.txkey] \in Gtk /\ ~ap.rekey /\ ~ap.timer
       /\ ~ap.here /\ ap.rstate = "INITIALIZE" /\ ap.gstate = "IDLE" /\ ~ap.port
  BY <1>7, <1>8
<1>11. MaxCnt > 0
  <2>1. Cap(1) <= Cap(2 + MaxGtk) BY CapMonotone, FourWayAssumption
  <2>2. Cap(1) = MaxRetries BY FourWayAssumption DEF Cap
  <2> QED BY <2>1, <2>2, MaxCntIsCap, FourWayAssumption
<1>12. ApInv(ap)
  <2>1. ~Waits(ap) BY <1>10 DEF Waits, Keyless
  <2>2. 0 <= MaxRetries /\ -1 < MaxCnt BY <1>3, FourWayAssumption
  <2> QED BY <1>9, <1>10, <2>1, <2>2 DEF ApInv, ApCore
<1>13. Drawn(ap) BY <1>10 DEF Drawn
<1>14. UsedInv BY <1>1, <1>2 DEF UsedInv
<1> QED
  BY <1>1, <1>2, <1>5, <1>6, <1>10, <1>12, <1>13, <1>14, FourWayAssumption DEF IInv, Sent

-----------------------------------------------------------------------------
(* The invariant holds in every state of every behaviour.                  *)
THEOREM InvariantCorrect == Spec => []IInv
<1>1. IInv /\ [Next]_vars => IInv' BY NextStep
<1> QED BY InitInv, <1>1, PTL DEF Spec

(* Type correctness.  It is more than types: the replay counter of the access *)
(* point stays within the attempts that ieee80211_send_4way_msg1, _msg3 and   *)
(* ieee80211_send_group_msg1 allow each handshake of an association.          *)
THEOREM TypeCorrect == Spec => []TypeOK
<1>1. IInv => TypeOK
  <2> SUFFICES ASSUME IInv PROVE TypeOK
    OBVIOUS
  <2>1. ap \in ApWide /\ ap.retries \in 0 .. MaxRetries /\ ap.cnt \in -1 .. MaxCnt
    BY MaxCntIsCap, FourWayAssumption DEF IInv, ApInv, ApCore, ApWide
  <2>2. ap \in [assoc : 0 .. MaxAssoc, here : BOOLEAN,
               rstate : {"INITIALIZE", "PTKSTART", "PTKCALCNEGOTIATING",
                         "PTKINITNEGOTIATING", "PTKINITDONE"},
               gstate : {"IDLE", "REKEYNEGOTIATING"},
               cnt : -1 .. MaxCnt, ptk : Ptk \cup {None}, key : Ptk \cup {None},
               retries : 0 .. MaxRetries, timer : BOOLEAN, rekey : BOOLEAN,
               crossed : BOOLEAN, prot : BOOLEAN, port : BOOLEAN,
               txkey : Kid, gtk : [Kid -> Gtk \cup {None}], gtks : Gtk]
    BY <2>1 DEF ApWide, RState
  <2>3. sta \in StaType BY DEF IInv, StaInv
  <2>4. net \subseteq Message BY DEF IInv, Sent, WellFormed
  <2> QED BY <2>2, <2>3, <2>4 DEF IInv, UsedInv, TypeOK, StaType
<1> QED BY InvariantCorrect, <1>1, PTL

(* The access point opens its port only for a station that has its key, also   *)
(* when messages of an earlier association or an earlier attempt come late.    *)
THEOREM PortsAgreeCorrect == Spec => []PortsAgree
<1>1. IInv => PortsAgree
  <2> SUFFICES ASSUME IInv, Linked, ap.port PROVE sta.key = ap.key /\ sta.key # None
    BY DEF PortsAgree
  <2>1. sta.link = "run" /\ sta.assoc = ap.assoc BY DEF Linked
  <2>2. ap.rstate = "PTKINITDONE" /\ ap.key = ap.ptk BY DEF IInv, ApInv, ApCore
  <2>3. ap.ptk \in Ptk /\ ap.ptk[1] = ap.assoc BY <2>2 DEF IInv, ApInv, ApCore
  <2>4. PICK m \in net : m.type = "4" /\ m.mic = ap.ptk BY DEF IInv
  <2>5. Msg4OK(m) BY DEF IInv, Sent
  <2>6. sta.key = ap.ptk BY <2>1, <2>3, <2>4, <2>5 DEF Msg4OK
  <2>7. ap.ptk # None BY <2>3, FourWayAssumption DEF Ptk
  <2> QED BY <2>2, <2>6, <2>7
<1> QED BY InvariantCorrect, <1>1, PTL

(* An access point that never lacks an mbuf waits for an answer of the 4-way   *)
(* handshake only with its timer armed, as long as no group key handshake      *)
(* crosses it.                                                                 *)
THEOREM WaitsCorrect == MbufsFail = FALSE => (Spec => []WaitsWithTimer)
<1> SUFFICES ASSUME MbufsFail = FALSE PROVE Spec => []WaitsWithTimer
  OBVIOUS
<1>1. IInv => WaitsWithTimer
  BY DEF IInv, ApInv, Waits, Keyless, Waiting, WaitsWithTimer
<1> QED BY InvariantCorrect, <1>1, PTL

(* The handshakes implement the agreement on a key: neither side puts a        *)
(* pairwise key to use twice, and the access point uses only a key for which   *)
(* the station has sent a message 4.                                           *)
THEOREM AgreesCorrect == Spec => Agrees
<1>1. Init => Agreement!AInit
  <2> SUFFICES ASSUME Init PROVE Agreement!AInit
    OBVIOUS
  <2>1. net = {} /\ held = <<>> /\ staUsed = <<>> /\ apUsed = <<>> BY DEF Init
  <2>2. Range(held) = {} BY <2>1 DEF Range
  <2> QED BY <2>1, <2>2 DEF Agreement!AInit
<1>2. IInv /\ [Next]_vars => [Agreement!ANext]_(Agreement!avars)
  <2> SUFFICES ASSUME IInv, [Next]_vars PROVE [Agreement!ANext]_(Agreement!avars)
    OBVIOUS
  <2>1. Agreeing BY NextStep
  <2>2. CASE Quiet
    BY <2>2 DEF Quiet, Conf, Sent, Agreement!avars
  <2>3. CASE \E m \in net : Confirms(m)
    <3>1. PICK m \in net : Confirms(m) BY <2>3
    <3>2. Conf' = Conf \cup {m.mic}
      <4>1. \A k \in Conf' : k \in Conf \cup {m.mic} BY <3>1 DEF Confirms, Conf
      <4>2. \A k \in Conf : k \in Conf' BY <3>1 DEF Confirms, Conf
      <4>3. m.mic \in Conf' BY <3>1 DEF Confirms, Conf
      <4> QED BY <4>1, <4>2, <4>3
    <3> DEFINE k == m.mic
    <3>3. /\ Conf' = Conf \cup {k} /\ apUsed' = apUsed
          /\ \/ staUsed' = staUsed
             \/ k \notin Range(staUsed) /\ staUsed' = Append(staUsed, k)
      BY <3>1, <3>2 DEF Confirms
    <3> HIDE DEF k
    <3>4. Agreement!Confirm(k)
      BY <3>3 DEF Conf, Sent, Range, Agreement!Confirm, Agreement!Fresh, Agreement!Range
    <3>5. k \in Ptk BY <3>1 DEF Confirms, k
    <3> QED BY <3>4, <3>5 DEF Agreement!ANext
  <2>4. CASE Adopts
    <3>1. Agreement!Adopt(ap.ptk)
      BY <2>4 DEF Adopts, Conf, Sent, Range, Agreement!Adopt, Agreement!Fresh,
                  Agreement!Range
    <3>2. ap.ptk \in Ptk BY <2>4 DEF Adopts
    <3> QED BY <3>1, <3>2 DEF Agreement!ANext
  <2> QED BY <2>1, <2>2, <2>3, <2>4 DEF Agreeing
<1> QED BY InvariantCorrect, <1>1, <1>2, PTL DEF Spec, Agrees, Agreement!ASpec

=============================================================================

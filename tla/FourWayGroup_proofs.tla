------------------------ MODULE FourWayGroup_proofs ------------------------
(***************************************************************************)
(* The station installs no group key twice in one association, for any     *)
(* number of group keys, attempts, associations and held frames, whatever  *)
(* is repeated or late, and whether or not the driver refuses a key.  And  *)
(* an access point that has mbufs uses only a group key that a station     *)
(* with a complete handshake has.                                          *)
(***************************************************************************)
EXTENDS FourWay_proofs

-----------------------------------------------------------------------------
(* The parts of the invariant, for a record a of the access point and a    *)
(* set N of frames.                                                        *)

(* The frame carries a group key.                                          *)
Carries(m) == m.type \in {"3", "G1"}

(* The MIC of the frame has a pairwise key of the present association.     *)
InAssoc(a, m) == m.mic # None /\ m.mic[1] = a.assoc

(* The station may still take the group key from the frame.                *)
Live(a, m) ==
    /\ Carries(m) /\ InAssoc(a, m)
    /\ sta.link = "run" /\ (sta.ok => m.cnt > sta.replaycnt)

Typed(m) ==
    /\ m.cnt \in Int /\ m.mic \in Ptk \cup {None}
    /\ Carries(m) => m.kid \in Kid /\ m.gtk \in Gtk \cup {None}

(* The keys of the access point: the group keys are numbered in the order  *)
(* they are drawn, and one that was installed is still in its place.       *)
KeysInv(a) ==
    /\ a.gtk[1] # a.gtk[2]
    /\ \A k \in Kid : a.gtk[k] # None => a.gtk[k] <= a.gtks
    /\ a.ptk # None => a.ptk[1] <= a.assoc /\ (Keyless(a) => a.ptk[1] < a.assoc)
    /\ a.here => a.rstate # "INITIALIZE"
    /\ a.rstate \in {"PTKINITNEGOTIATING", "PTKINITDONE"} => sta.assoc = a.assoc
    /\ \A g \in Range(gkUsed) : g <= a.gtks
    /\ \A k \in Kid : a.gtk[k] \in Range(gkUsed) => gk[k] = a.gtk[k]

(* A frame was sent in this association or before, and a group key has     *)
(* one key ID.                                                             *)
FrameOK(a, m) ==
    /\ Typed(m)
    /\ m.mic # None => m.mic[1] <= a.assoc
    /\ m.type = "1" => m.nonce <= a.assoc
    /\ Carries(m) =>
         /\ InAssoc(a, m) => m.cnt <= a.cnt /\ m.mic = a.ptk /\ ~Keyless(a)
         /\ m.gtk # None => m.gtk <= a.gtks
         /\ \A k \in Kid : a.gtk[k] = m.gtk => k = m.kid

SameKid(N) ==
    \A m, n \in N : Carries(m) /\ Carries(n) /\ m.gtk = n.gtk => m.kid = n.kid

(* The frames the station may still take a group key from agree on the key *)
(* of each ID; one that was installed before is in place, and the station  *)
(* does not have a newer one.                                              *)
LiveInv(a, N) ==
    /\ \A m, n \in N : Live(a, m) /\ Live(a, n) /\ m.kid = n.kid => m.gtk = n.gtk
    /\ \A m \in N : Live(a, m) =>
         /\ m.gtk \in Range(gkUsed) => gk[m.kid] = m.gtk
         /\ a.gtk[m.kid] = m.gtk \/ a.gtk[m.kid] \notin Range(gkUsed)

ApKeys(a, N) ==
    KeysInv(a) /\ (\A m \in N : FrameOK(a, m)) /\ SameKid(N) /\ LiveInv(a, N)

(* Those frames have the keys the access point has now ...                 *)
UpToDate(a, N) == \A m \in N : Live(a, m) => m.gtk = a.gtk[m.kid]

(* ... and only the key in use.                                            *)
OnlyInUse(a, N) == \A m \in N : Live(a, m) => m.kid = a.txkey

(* What a function that sends needs, and leaves.                           *)
Ready(a, N) ==
    /\ ApKeys(a, N) /\ UpToDate(a, N)
    /\ a.here /\ a.gstate = "IDLE" => OnlyInUse(a, N)

(* Between handlers: a key is only replaced when no handshake is under     *)
(* way, or when the one under way cannot send any more.                    *)
BetweenInv(a, N) ==
    /\ a.here /\ (a.timer \/ a.gstate = "IDLE") => UpToDate(a, N)
    /\ a.here /\ a.gstate = "IDLE" => OnlyInUse(a, N)

(* An answer of the station ends the use of all frames up to the one it    *)
(* answers.                                                                *)
AnswerOK(m) ==
    /\ m.type \in {"2", "4", "G2"} /\ InAssoc(ap, m) => sta.assoc = ap.assoc
    /\ m.type \in {"4", "G2"} /\ InAssoc(ap, m) /\ sta.link = "run" =>
         sta.ok /\ m.cnt <= sta.replaycnt

StaKeys ==
    /\ sta.state = "PTKDONE" => sta.ok /\ sta.ptk \in Ptk /\ sta.ptk[1] = ap.assoc
    /\ sta.link # "run" \/ ~sta.ok => gkUsed = <<>>
    /\ IsInjective(gkUsed)
    /\ \A m \in Range(held) : m.type \in {"2", "4", "G2"}

GroupInv ==
    /\ ApKeys(ap, Sent) /\ BetweenInv(ap, Sent)
    /\ \A m \in Sent : AnswerOK(m)
    /\ StaKeys

-----------------------------------------------------------------------------
(* What the functions of the access point do to its keys.                  *)

(* A pairwise key is a pair that starts with its association.              *)
LEMMA PtkFacts ==
    ASSUME NEW p \in Ptk
    PROVE  p # None /\ p[1] \in Nat
BY FourWayAssumption DEF Ptk

(* Changes of the record that do not concern the keys.                     *)
LEMMA SameKeys ==
    ASSUME NEW a, NEW b, NEW N, ApKeys(a, N), a.cnt \in Int, b.cnt \in Int,
           b.assoc = a.assoc, b.ptk = a.ptk, b.gtk = a.gtk, b.gtks = a.gtks,
           a.cnt <= b.cnt, Keyless(b) => Keyless(a),
           b.rstate \in {"PTKINITNEGOTIATING", "PTKINITDONE"} => sta.assoc = a.assoc,
           b.here => b.rstate # "INITIALIZE"
    PROVE  /\ ApKeys(b, N)
           /\ UpToDate(a, N) => UpToDate(b, N)
           /\ b.txkey = a.txkey /\ OnlyInUse(a, N) => OnlyInUse(b, N)
<1>1. \A m : InAssoc(b, m) = InAssoc(a, m) /\ Live(b, m) = Live(a, m)
  BY DEF InAssoc, Live
<1>2. KeysInv(b) BY DEF ApKeys, KeysInv
<1>3. \A m \in N : FrameOK(b, m)
  <2> SUFFICES ASSUME NEW m \in N PROVE FrameOK(b, m) OBVIOUS
  <2>1. FrameOK(a, m) BY DEF ApKeys
  <2>2. m.cnt \in Int BY <2>1 DEF FrameOK, Typed
  <2> QED BY <1>1, <2>1, <2>2 DEF FrameOK
<1>4. LiveInv(b, N) BY <1>1 DEF ApKeys, LiveInv
<1>5. ApKeys(b, N) BY <1>2, <1>3, <1>4 DEF ApKeys
<1>6. UpToDate(a, N) => UpToDate(b, N) BY <1>1 DEF UpToDate
<1>7. b.txkey = a.txkey /\ OnlyInUse(a, N) => OnlyInUse(b, N) BY <1>1 DEF OnlyInUse
<1> QED BY <1>5, <1>6, <1>7

(* A frame is sent.                                                        *)
LEMMA AddFrame ==
    ASSUME NEW a, NEW N, ApKeys(a, N), UpToDate(a, N), NEW f, FrameOK(a, f),
           Carries(f) => f.gtk = a.gtk[f.kid]
    PROVE  ApKeys(a, N \cup {f}) /\ UpToDate(a, N \cup {f})
<1> DEFINE M == N \cup {f}
<1>1. UpToDate(a, M) BY DEF UpToDate, Live
<1>2. \A m \in M : FrameOK(a, m) BY DEF ApKeys
<1>3. SameKid(M)
  <2> SUFFICES ASSUME NEW m \in M, NEW n \in M, Carries(m), Carries(n), m.gtk = n.gtk
               PROVE  m.kid = n.kid
    BY DEF SameKid
  <2>1. m.kid \in Kid /\ n.kid \in Kid BY <1>2 DEF FrameOK, Typed
  <2>2. CASE m = f BY <1>2, <2>1, <2>2 DEF FrameOK
  <2>3. CASE n = f BY <1>2, <2>1, <2>3 DEF FrameOK
  <2>4. CASE m \in N /\ n \in N BY <2>4 DEF ApKeys, SameKid
  <2> QED BY <2>2, <2>3, <2>4
<1>4. LiveInv(a, M)
  <2>1. \A m \in M : Live(a, m) => m.gtk = a.gtk[m.kid] BY <1>1 DEF UpToDate
  <2>2. \A m \in M : Live(a, m) => m.kid \in Kid BY <1>2 DEF Live, FrameOK, Typed
  <2>3. \A k \in Kid : a.gtk[k] \in Range(gkUsed) => gk[k] = a.gtk[k]
    BY DEF ApKeys, KeysInv
  <2> HIDE DEF M
  <2> QED BY <2>1, <2>2, <2>3 DEF LiveInv
<1> QED BY <1>1, <1>2, <1>3, <1>4 DEF ApKeys

(* A station that leaves.                                                  *)
LEMMA NodeLeaveKeeps ==
    ASSUME NEW a \in ApWide
    PROVE  /\ NodeLeave(a) \in ApWide
           /\ NodeLeave(a).assoc = a.assoc /\ NodeLeave(a).ptk = a.ptk
           /\ NodeLeave(a).gtk = a.gtk /\ NodeLeave(a).gtks = a.gtks
           /\ NodeLeave(a).cnt = a.cnt
           /\ NodeLeave(a).rstate = "INITIALIZE" /\ ~NodeLeave(a).here
<1> DEFINE c == [a EXCEPT !.rekey = FALSE]
           b == IF a.rekey THEN SetKeysDone(c) ELSE a
           n == [b EXCEPT !.here = FALSE, !.rstate = "INITIALIZE", !.gstate = "IDLE",
                          !.timer = FALSE, !.retries = 0, !.prot = FALSE, !.port = FALSE,
                          !.key = None]
<1>1. /\ c \in ApWide /\ c.assoc = a.assoc /\ c.ptk = a.ptk /\ c.gtk = a.gtk
      /\ c.gtks = a.gtks /\ c.cnt = a.cnt
  BY DEF ApWide
<1> HIDE DEF c
<1>2. SetKeysDone(c) = [c EXCEPT !.txkey = OtherKid(c)] /\ SetKeysDone(c) \in ApWide
  BY <1>1, SetKeysDoneFacts
<1>3. /\ b \in ApWide /\ b.assoc = a.assoc /\ b.ptk = a.ptk /\ b.gtk = a.gtk
      /\ b.gtks = a.gtks /\ b.cnt = a.cnt
  <2>1. CASE a.rekey BY <1>1, <1>2, <2>1 DEF ApWide
  <2>2. CASE ~a.rekey BY <2>2
  <2> QED BY <2>1, <2>2
<1>4. NodeLeave(a) = n BY DEF NodeLeave, c
<1> HIDE DEF b
<1>5. n \in ApWide BY <1>3 DEF ApWide, RState
<1>6. /\ n.assoc = b.assoc /\ n.ptk = b.ptk /\ n.gtk = b.gtk /\ n.gtks = b.gtks
      /\ n.cnt = b.cnt /\ n.rstate = "INITIALIZE" /\ ~n.here
  BY <1>3 DEF ApWide
<1> QED BY <1>3, <1>4, <1>5, <1>6

(* ieee80211_node_leave: the keys of the access point stay.                *)
LEMMA LeaveKeys ==
    ASSUME NEW a \in ApWide, NEW N, ApKeys(a, N)
    PROVE  /\ ApKeys(NodeLeave(a), N)
           /\ UpToDate(a, N) => UpToDate(NodeLeave(a), N)
<1> DEFINE n == NodeLeave(a)
<1>1. /\ n.assoc = a.assoc /\ n.ptk = a.ptk /\ n.gtk = a.gtk /\ n.gtks = a.gtks
      /\ n.cnt = a.cnt /\ n.rstate = "INITIALIZE" /\ ~n.here /\ n.cnt \in Int
  BY NodeLeaveKeeps DEF ApWide
<1> HIDE DEF n
<1>2. ~Keyless(n) /\ n.rstate \notin {"PTKINITNEGOTIATING", "PTKINITDONE"} /\ n.cnt <= n.cnt
  BY <1>1 DEF Keyless
<1>3. ApKeys(n, N) /\ (UpToDate(a, N) => UpToDate(n, N)) BY <1>1, <1>2, SameKeys
<1> QED BY <1>3 DEF n

(* What r is to the record x, of which a is the node, when a frame of the  *)
(* given type is sent.                                                     *)
SentKeys(r, x, a, N, type) ==
    /\ r = [ap |-> r.ap, out |-> r.out] /\ r.ap \in ApWide
    /\ Ready(r.ap, N \cup r.out)
    /\ r.ap.here => /\ r.ap.gstate = a.gstate /\ r.ap.rstate = a.rstate
                    /\ r.ap.assoc = a.assoc /\ r.ap.ptk = a.ptk
                    /\ r.ap.rekey = a.rekey /\ r.ap.txkey = a.txkey
    /\ r.ap.assoc = a.assoc
    /\ \A m \in r.out : m \in x.out \/ m.type = type

(* ieee80211_send_4way_msg1, _msg3 and ieee80211_send_group_msg1.          *)
LEMMA SendKeyKeys ==
    ASSUME NEW x, NEW a \in ApWide, NEW N, Ready(a, N \cup x.out), NEW noMbuf \in BOOLEAN,
           NEW type \in {"1", "3", "G1"}, NEW nonce \in Nat, nonce <= a.assoc,
           NEW mic, type = "1" => mic = None, type # "1" => mic = a.ptk,
           NEW kid, type = "1" => kid = 0, type # "1" => kid \in Kid,
           a.gstate = "IDLE" => kid \in {0, a.txkey},
           x.ap \in ApWide, x = [ap |-> x.ap, out |-> x.out]
    PROVE  SentKeys(SendKey(x, a, noMbuf, type, nonce, mic, kid), x, a, N, type)
<1> DEFINE r == SendKey(x, a, noMbuf, type, nonce, mic, kid)
           t == Tried(a)
           s == Transmitted(a)
           n == NodeLeave(t)
           gtk == IF kid = 0 THEN 0 ELSE a.gtk[kid]
           f == ApFrame(s, type, nonce, mic, kid, gtk)
           K == N \cup x.out
<1>1. r = IF t.retries > MaxRetries THEN [x EXCEPT !.ap = n]
          ELSE IF noMbuf THEN [x EXCEPT !.ap = t]
          ELSE [ap |-> s, out |-> x.out \cup {f}]
  BY DEF SendKey, Tried, Transmitted
<1>2. /\ t \in ApWide /\ Alike(t, a) /\ t.cnt = a.cnt BY TriedFacts
<1>3. /\ s \in ApWide /\ Alike(s, a) /\ s.cnt = a.cnt + 1 BY TransmittedFacts
<1>4. a.cnt \in Int /\ a.cnt <= a.cnt /\ a.cnt <= a.cnt + 1 /\ a.cnt + 1 \in Int
  BY DEF ApWide
<1>5. /\ ApKeys(a, K) /\ UpToDate(a, K) /\ KeysInv(a)
      /\ a.here /\ a.gstate = "IDLE" => OnlyInUse(a, K)
  BY DEF Ready, ApKeys
<1> HIDE DEF t, s, n
<1>6. /\ Keyless(t) = Keyless(a) /\ Keyless(s) = Keyless(a)
  BY <1>2, <1>3, AlikeFacts
<1>7. Ready(t, K)
  <2>1. /\ ApKeys(t, K) /\ UpToDate(t, K)
        /\ OnlyInUse(a, K) => OnlyInUse(t, K)
    BY <1>2, <1>4, <1>5, <1>6, SameKeys DEF Alike, KeysInv
  <2> QED BY <1>2, <1>5, <2>1 DEF Ready, Alike
<1>8. Ready(s, K)
  <2>1. /\ ApKeys(s, K) /\ UpToDate(s, K)
        /\ OnlyInUse(a, K) => OnlyInUse(s, K)
    BY <1>3, <1>4, <1>5, <1>6, SameKeys DEF Alike, KeysInv
  <2> QED BY <1>3, <1>5, <2>1 DEF Ready, Alike
<1>9. CASE t.retries > MaxRetries
  <2>1. ApKeys(n, K) /\ UpToDate(n, K) /\ ~n.here /\ n.assoc = a.assoc /\ n \in ApWide
    BY <1>2, <1>7, LeaveKeys, NodeLeaveKeeps DEF Ready, n, Alike
  <2>2. r = [x EXCEPT !.ap = n] BY <1>1, <1>9
  <2>3. r.ap = n /\ r.out = x.out /\ r = [ap |-> n, out |-> x.out] BY <2>2
  <2>4. Ready(n, K) BY <2>1 DEF Ready
  <2> HIDE DEF r
  <2> QED BY <2>1, <2>3, <2>4 DEF SentKeys, r
<1>10. CASE ~(t.retries > MaxRetries) /\ noMbuf
  <2>2. r = [x EXCEPT !.ap = t] BY <1>1, <1>10
  <2>3. r.ap = t /\ r.out = x.out /\ r = [ap |-> t, out |-> x.out] BY <2>2
  <2> HIDE DEF r
  <2> QED BY <1>2, <1>7, <2>3 DEF SentKeys, r, Alike
<1>11. CASE ~(t.retries > MaxRetries) /\ ~noMbuf
  <2>1. f = [type |-> type, cnt |-> s.cnt, nonce |-> nonce, mic |-> mic,
             prot |-> IF s.prot THEN s.key ELSE None, kid |-> kid, gtk |-> gtk]
    BY DEF ApFrame
  <2>2. /\ f.type = type /\ f.cnt = s.cnt /\ f.nonce = nonce /\ f.mic = mic
        /\ f.kid = kid /\ f.gtk = gtk
    BY <2>1
  <2>3. r = [ap |-> s, out |-> x.out \cup {f}] BY <1>1, <1>11
  <2> HIDE DEF f
  <2>4. r.ap = s /\ r.out = x.out \cup {f} /\ r = [ap |-> s, out |-> x.out \cup {f}]
    BY <2>3
  <2>5. Carries(f) => /\ type # "1" /\ f.kid \in Kid /\ f.gtk = s.gtk[f.kid] /\ f.mic = s.ptk
                      /\ s.gtk[f.kid] \in Gtk \cup {None}
    BY <1>3, <2>2 DEF Carries, Alike, Kid, ApWide
  <2>6. Typed(f)
    <3>1. mic \in Ptk \cup {None} BY DEF ApWide
    <3> QED BY <1>3, <1>4, <2>2, <2>5, <3>1 DEF Typed
  <2>7. KeysInv(s) BY <1>8 DEF Ready, ApKeys
  <2>8. f.mic # None => f.mic = s.ptk BY <1>3, <2>2 DEF Alike
  <2>9. s.assoc = a.assoc /\ s.cnt \in Int BY <1>3, <1>4 DEF Alike
  <2>10. FrameOK(s, f)
    <3>1. f.mic # None => f.mic[1] <= s.assoc BY <2>7, <2>8 DEF KeysInv
    <3>2. f.type = "1" => f.nonce <= s.assoc BY <2>2, <2>9
    <3>3. Carries(f) /\ InAssoc(s, f) => f.cnt <= s.cnt /\ f.mic = s.ptk /\ ~Keyless(s)
      <4> SUFFICES ASSUME Carries(f), InAssoc(s, f)
                   PROVE  f.cnt <= s.cnt /\ f.mic = s.ptk /\ ~Keyless(s)
        OBVIOUS
      <4>1. s.ptk # None /\ s.ptk[1] = s.assoc /\ s.ptk \in Ptk
        BY <1>3, <2>8, FourWayAssumption DEF InAssoc, ApWide
      <4>2. s.ptk[1] \in Nat BY <4>1, PtkFacts
      <4>3. ~Keyless(s) BY <2>7, <4>1, <4>2 DEF KeysInv
      <4> QED BY <2>2, <2>5, <2>9, <4>3
    <3>4. Carries(f) /\ f.gtk # None => f.gtk <= s.gtks BY <2>5, <2>7 DEF KeysInv
    <3>5. Carries(f) => \A k \in Kid : s.gtk[k] = f.gtk => k = f.kid
      BY <2>5, <2>7 DEF KeysInv, Kid
    <3> QED BY <2>6, <3>1, <3>2, <3>3, <3>4, <3>5 DEF FrameOK
  <2>11. ApKeys(s, K \cup {f}) /\ UpToDate(s, K \cup {f})
    BY <1>8, <2>5, <2>10, AddFrame DEF Ready
  <2>12. s.here /\ s.gstate = "IDLE" => OnlyInUse(s, K \cup {f})
    <3> SUFFICES ASSUME s.here, s.gstate = "IDLE" PROVE OnlyInUse(s, K \cup {f}) OBVIOUS
    <3>1. OnlyInUse(s, K) BY <1>8 DEF Ready
    <3>2. kid \in {0, s.txkey} BY <1>3 DEF Alike
    <3>3. Carries(f) => f.kid = s.txkey BY <2>2, <2>5, <3>2 DEF Kid
    <3> QED BY <3>1, <3>3 DEF OnlyInUse, Live
  <2>13. N \cup r.out = K \cup {f} BY <2>4
  <2>14. Ready(r.ap, N \cup r.out) BY <2>4, <2>11, <2>12, <2>13 DEF Ready
  <2> HIDE DEF r
  <2> QED BY <1>3, <2>2, <2>4, <2>14 DEF SentKeys, r, Alike
<1> QED BY <1>9, <1>10, <1>11

(* ieee80211_send_4way_msg1 leaves what a sender needs.                    *)
LEMMA SendMsg1Keys ==
    ASSUME NEW x, NEW a \in ApWide, NEW N, Ready(a, N \cup x.out), NEW noMbuf \in BOOLEAN,
           NEW nonce \in Nat, nonce <= a.assoc,
           x.ap \in ApWide, x = [ap |-> x.ap, out |-> x.out]
    PROVE  SentKeys(SendKey(x, a, noMbuf, "1", nonce, None, 0), x, a, N, "1")
<1>1. "1" \in {"1", "3", "G1"} /\ 0 \in {0, a.txkey} OBVIOUS
<1> QED BY <1>1, SendKeyKeys

(* ieee80211_send_4way_msg3: the group key in use goes out.                *)
LEMMA SendMsg3Keys ==
    ASSUME NEW x, NEW a \in ApWide, NEW N, Ready(a, N \cup x.out), NEW noMbuf \in BOOLEAN,
           NEW nonce \in Nat, nonce <= a.assoc,
           x.ap \in ApWide, x = [ap |-> x.ap, out |-> x.out]
    PROVE  SentKeys(SendKey(x, a, noMbuf, "3", nonce, a.ptk, a.txkey), x, a, N, "3")
<1>1. "3" \in {"1", "3", "G1"} /\ "3" # "1" /\ a.txkey \in {0, a.txkey} OBVIOUS
<1>2. a.txkey \in Kid BY DEF ApWide
<1> QED BY <1>1, <1>2, SendKeyKeys, Zenon

(* ieee80211_send_group_msg1: the new group key goes out.                  *)
LEMMA SendGroupMsg1Keys ==
    ASSUME NEW x, NEW a \in ApWide, NEW N, Ready(a, N \cup x.out), NEW noMbuf \in BOOLEAN,
           NEW kid \in Kid, a.gstate = "REKEYNEGOTIATING",
           x.ap \in ApWide, x = [ap |-> x.ap, out |-> x.out]
    PROVE  SentKeys(SendKey(x, a, noMbuf, "G1", 0, a.ptk, kid), x, a, N, "G1")
<1>1. "G1" \in {"1", "3", "G1"} /\ "G1" # "1" /\ a.gstate # "IDLE" OBVIOUS
<1>2. 0 \in Nat /\ 0 <= a.assoc BY FourWayAssumption DEF ApWide
<1> QED BY <1>1, <1>2, SendKeyKeys, Zenon

-----------------------------------------------------------------------------
(* The steps of the access point.                                          *)

(* When the station can take a group key from no frame.                    *)
LEMMA NoneLive ==
    ASSUME NEW a, NEW N, \A m \in N : ~Live(a, m)
    PROVE  LiveInv(a, N) /\ UpToDate(a, N) /\ OnlyInUse(a, N) /\ BetweenInv(a, N)
<1>1. LiveInv(a, N) BY DEF LiveInv
<1>2. UpToDate(a, N) BY DEF UpToDate
<1>3. OnlyInUse(a, N) BY DEF OnlyInUse
<1> QED BY <1>1, <1>2, <1>3 DEF BetweenInv

(* What a sender leaves is enough between handlers.                        *)
LEMMA ReadyBetween ==
    ASSUME NEW a, NEW N, Ready(a, N)
    PROVE  ApKeys(a, N) /\ BetweenInv(a, N)
BY DEF Ready, BetweenInv

(* What the end of a handler has to establish.                             *)
LEMMA ApGroup ==
    ASSUME IInv, GroupInv, UNCHANGED <<sta, gk, held, gkUsed>>,
           NEW x, ap' = x.ap, net' = net \cup x.out,
           \/ x.ap.assoc = ap.assoc
           \/ sta.state # "PTKDONE" /\ \A m \in Sent : ~InAssoc(x.ap, m),
           ApKeys(x.ap, Sent \cup x.out), BetweenInv(x.ap, Sent \cup x.out),
           \A m \in x.out : m.type \in {"1", "3", "G1"}
    PROVE  GroupInv'
<1> DEFINE M == Sent \cup x.out
<1>1. Sent' = M BY DEF Sent
<1> HIDE DEF M
<1>2. \A m : Live(ap, m)' = Live(x.ap, m) BY DEF Live, InAssoc
<1>3. KeysInv(ap)' BY DEF ApKeys, KeysInv
<1>4. \A m \in M : FrameOK(ap, m)'
  <2>1. \A m \in M : FrameOK(x.ap, m) BY DEF ApKeys, M
  <2> QED BY <2>1 DEF FrameOK, InAssoc
<1>5. SameKid(M) /\ LiveInv(x.ap, M) /\ BetweenInv(x.ap, M) BY DEF ApKeys, M
<1>6. LiveInv(ap, Sent)' BY <1>1, <1>2, <1>5 DEF LiveInv
<1>7. BetweenInv(ap, Sent)'
  BY <1>1, <1>2, <1>5 DEF BetweenInv, UpToDate, OnlyInUse
<1>8. ApKeys(ap, Sent)' BY <1>1, <1>3, <1>4, <1>5, <1>6 DEF ApKeys, SameKid
<1>9. \A m \in Sent' : AnswerOK(m)'
  <2> SUFFICES ASSUME NEW m \in M PROVE AnswerOK(m)' BY <1>1
  <2>1. CASE m \in Sent
    <3>1. AnswerOK(m) BY <2>1 DEF GroupInv
    <3> QED BY <2>1, <3>1 DEF AnswerOK, InAssoc
  <2>2. CASE m \in x.out BY <2>2 DEF AnswerOK
  <2> QED BY <2>1, <2>2 DEF M
<1>10. StaKeys' BY DEF GroupInv, StaKeys
<1> QED BY <1>7, <1>8, <1>9, <1>10 DEF GroupInv

(* The facts of the present state that the handlers use.                   *)
LEMMA ApNow ==
    ASSUME IInv, GroupInv
    PROVE  /\ ap \in ApWide /\ ApCore(ap) /\ ap.cnt \in Int /\ ap.assoc \in Nat
           /\ ApKeys(ap, Sent) /\ KeysInv(ap) /\ BetweenInv(ap, Sent)
           /\ \A m \in Sent : FrameOK(ap, m) /\ AnswerOK(m)
           /\ Keyless(ap) => \A m \in Sent : ~Live(ap, m)
           /\ Sent \cup {} = Sent
<1>1. ap \in ApWide /\ ApCore(ap) BY DEF IInv, ApInv, ApCore
<1>2. ap.cnt \in Int /\ ap.assoc \in Nat BY <1>1 DEF ApWide
<1>3. ApKeys(ap, Sent) /\ BetweenInv(ap, Sent) /\ \A m \in Sent : AnswerOK(m)
  BY DEF GroupInv
<1>4. KeysInv(ap) /\ \A m \in Sent : FrameOK(ap, m) BY <1>3 DEF ApKeys
<1>5. Keyless(ap) => \A m \in Sent : ~Live(ap, m) BY <1>4 DEF FrameOK, Live
<1> QED BY <1>1, <1>2, <1>3, <1>4, <1>5

(* The access point removes the station.                                   *)
LEMMA ApLeaveGroup ==
    ASSUME IInv, GroupInv, ApLeave
    PROVE  GroupInv'
<1> DEFINE n == NodeLeave(ap)
           x == Here(n)
<1>1. ap \in ApWide /\ ApKeys(ap, Sent) BY ApNow
<1>2. ApKeys(n, Sent) /\ ~n.here /\ n.assoc = ap.assoc BY <1>1, LeaveKeys, NodeLeaveKeeps
<1>3. ap' = x.ap /\ net' = net \cup x.out /\ UNCHANGED <<sta, gk, held, gkUsed>>
  BY DEF ApLeave, Becomes
<1> HIDE DEF n
<1>4. x.ap = n /\ x.out = {} BY DEF Here
<1> HIDE DEF x
<1>5. BetweenInv(n, Sent) BY <1>2 DEF BetweenInv
<1>6. Sent \cup x.out = Sent BY <1>4
<1> QED BY <1>2, <1>3, <1>4, <1>5, <1>6, ApGroup

(* Message 4, or group message 2, answers the last frame of the access     *)
(* point, and with it every frame before.                                  *)
LEMMA AnsweredNoneLive ==
    ASSUME IInv, GroupInv, NEW m \in net, m.type \in {"4", "G2"}, m.cnt = ap.cnt,
           m.mic = ap.ptk, ap.here
    PROVE  \A n \in Sent : ~Live(ap, n)
<1>1. /\ ApCore(ap) /\ ap.cnt \in Int /\ KeysInv(ap)
      /\ \A n \in Sent : FrameOK(ap, n) /\ AnswerOK(n)
      /\ Keyless(ap) => \A n \in Sent : ~Live(ap, n)
  BY ApNow
<1>2. CASE Keyless(ap) BY <1>1, <1>2
<1>3. CASE ~Keyless(ap)
  <2>1. ap \in ApWide BY <1>1 DEF ApCore
  <2>2. ap.rstate \in {"PTKINITNEGOTIATING", "PTKINITDONE"}
    BY <1>1, <1>3, <2>1 DEF KeysInv, Keyless, ApWide, RState
  <2>3. InAssoc(ap, m) BY <1>1, <2>2, PtkFacts DEF ApCore, InAssoc
  <2>4. sta.link = "run" => sta.ok /\ m.cnt <= sta.replaycnt
    BY <1>1, <2>3 DEF AnswerOK, Sent
  <2>5. sta.replaycnt \in Int BY MaxCntIsCap DEF IInv, StaInv, StaType
  <2> SUFFICES ASSUME NEW n \in Sent, Live(ap, n) PROVE FALSE OBVIOUS
  <2>6. n.cnt \in Int /\ n.cnt <= ap.cnt BY <1>1 DEF Live, FrameOK, Typed
  <2> QED BY <1>1, <2>4, <2>5, <2>6 DEF Live
<1> QED BY <1>2, <1>3

(* ieee80211_recv_4way_msg4.                                               *)
LEMMA RecvMsg4Group ==
    ASSUME IInv, GroupInv, NEW m \in net, RecvMsg4(m)
    PROVE  GroupInv'
<1> DEFINE done == [ap EXCEPT !.timer = FALSE, !.rstate = "PTKINITDONE", !.retries = 0,
                              !.key = ap.ptk]
           d == [done EXCEPT !.prot = TRUE, !.port = TRUE, !.gstate = "IDLE"]
           n == NodeLeave(done)
<1>1. /\ ap \in ApWide /\ ap.cnt \in Int /\ ApKeys(ap, Sent) /\ KeysInv(ap)
  BY ApNow
<1>2. /\ m.type = "4" /\ m.cnt = ap.cnt /\ m.mic = ap.ptk /\ ap.here
      /\ ap.rstate = "PTKINITNEGOTIATING" /\ UNCHANGED <<sta, gk, held, gkUsed>>
  BY DEF RecvMsg4, ApAccepts, Becomes
<1>3. \A o \in Sent : ~Live(ap, o) BY <1>2, AnsweredNoneLive
<1>4. Becomes(Here(d)) \/ Becomes(Here(n)) BY DEF RecvMsg4
<1>5. done \in ApWide BY <1>1 DEF ApWide, RState
<1>6. /\ done.assoc = ap.assoc /\ done.ptk = ap.ptk /\ done.gtk = ap.gtk
      /\ done.gtks = ap.gtks /\ done.cnt = ap.cnt /\ done.rstate = "PTKINITDONE"
  BY <1>1 DEF ApWide
<1> HIDE DEF done
<1>7. sta.assoc = ap.assoc /\ ~Keyless(done) /\ ap.cnt <= ap.cnt
  BY <1>1, <1>2, <1>6 DEF KeysInv, Keyless
<1>8. ApKeys(done, Sent) BY <1>1, <1>6, <1>7, SameKeys
<1>9. CASE Becomes(Here(n))
  <2>1. ApKeys(n, Sent) /\ ~n.here /\ n.assoc = ap.assoc
    BY <1>5, <1>6, <1>8, LeaveKeys, NodeLeaveKeeps
  <2> DEFINE x == Here(n)
  <2>2. ap' = x.ap /\ net' = net \cup x.out BY <1>9 DEF Becomes
  <2> HIDE DEF n
  <2>3. x.ap = n /\ x.out = {} BY DEF Here
  <2> HIDE DEF x
  <2>4. BetweenInv(n, Sent) /\ Sent \cup x.out = Sent BY <2>1, <2>3 DEF BetweenInv
  <2> QED BY <1>2, <2>1, <2>2, <2>3, <2>4, ApGroup
<1>10. CASE Becomes(Here(d))
  <2>1. /\ d.assoc = done.assoc /\ d.ptk = done.ptk /\ d.gtk = done.gtk
        /\ d.gtks = done.gtks /\ d.cnt = done.cnt /\ d.rstate = "PTKINITDONE"
    BY <1>5, <1>6 DEF ApWide
  <2> DEFINE x == Here(d)
  <2>2. ap' = x.ap /\ net' = net \cup x.out BY <1>10 DEF Becomes
  <2> HIDE DEF d
  <2>3. x.ap = d /\ x.out = {} BY DEF Here
  <2> HIDE DEF x
  <2>4. ~Keyless(d) BY <2>1 DEF Keyless
  <2>5. ApKeys(d, Sent) BY <1>1, <1>6, <1>7, <2>1, <2>4, SameKeys
  <2>6. \A o \in Sent : ~Live(d, o) BY <1>3, <1>6, <2>1 DEF Live, InAssoc
  <2>7. BetweenInv(d, Sent) /\ Sent \cup x.out = Sent BY <2>3, <2>6, NoneLive
  <2> QED BY <1>2, <1>6, <2>1, <2>2, <2>3, <2>5, <2>7, ApGroup
<1> QED BY <1>4, <1>9, <1>10

(* ieee80211_recv_rsn_group_msg2.                                          *)
LEMMA RecvGroupMsg2Group ==
    ASSUME IInv, GroupInv, NEW m \in net, RecvGroupMsg2(m)
    PROVE  GroupInv'
<1> DEFINE done == [ap EXCEPT !.timer = FALSE, !.rekey = FALSE, !.prot = TRUE,
                              !.gstate = "IDLE", !.retries = 0]
           b == IF ap.rekey THEN SetKeysDone(done) ELSE done
           x == Here(b)
<1>1. /\ ap \in ApWide /\ ap.cnt \in Int /\ ApKeys(ap, Sent) /\ KeysInv(ap)
  BY ApNow
<1>2. /\ m.type = "G2" /\ m.cnt = ap.cnt /\ m.mic = ap.ptk /\ ap.here
      /\ UNCHANGED <<sta, gk, held, gkUsed>>
      /\ ap' = x.ap /\ net' = net \cup x.out
  BY DEF RecvGroupMsg2, ApAccepts, Becomes
<1>3. \A o \in Sent : ~Live(ap, o) BY <1>2, AnsweredNoneLive
<1>4. done \in ApWide BY <1>1 DEF ApWide
<1>5. /\ done.assoc = ap.assoc /\ done.ptk = ap.ptk /\ done.gtk = ap.gtk
      /\ done.gtks = ap.gtks /\ done.cnt = ap.cnt /\ done.rstate = ap.rstate
      /\ done.here = ap.here
  BY <1>1 DEF ApWide
<1> HIDE DEF done
<1>6. /\ b.assoc = ap.assoc /\ b.ptk = ap.ptk /\ b.gtk = ap.gtk
      /\ b.gtks = ap.gtks /\ b.cnt = ap.cnt /\ b.rstate = ap.rstate
      /\ b.here = ap.here
  <2>1. CASE ap.rekey
    <3>1. b = [done EXCEPT !.txkey = OtherKid(done)] BY <1>4, <2>1, SetKeysDoneFacts
    <3> QED BY <1>4, <1>5, <3>1 DEF ApWide
  <2>2. CASE ~ap.rekey BY <1>5, <2>2
  <2> QED BY <2>1, <2>2
<1> HIDE DEF b
<1>7. x.ap = b /\ x.out = {} BY DEF Here
<1> HIDE DEF x
<1>8. Keyless(b) = Keyless(ap) /\ ap.cnt <= ap.cnt BY <1>1, <1>6 DEF Keyless
<1>9. ApKeys(b, Sent) BY <1>1, <1>6, <1>8, SameKeys DEF KeysInv
<1>10. \A o \in Sent : ~Live(b, o) BY <1>3, <1>6 DEF Live, InAssoc
<1>11. BetweenInv(b, Sent) /\ Sent \cup x.out = Sent BY <1>7, <1>10, NoneLive
<1> QED BY <1>2, <1>6, <1>7, <1>9, <1>11, ApGroup

(* ieee80211_recv_4way_msg2.                                               *)
LEMMA RecvMsg2Group ==
    ASSUME IInv, GroupInv, NEW m \in net, RecvMsg2(m)
    PROVE  GroupInv'
<1> DEFINE mine == <<ap.assoc, m.nonce>>
           calc == [ap EXCEPT !.rstate = "PTKCALCNEGOTIATING"]
           b == [calc EXCEPT !.timer = FALSE, !.retries = 0, !.ptk = mine]
           x == Here(b)
           c == [x.ap EXCEPT !.rstate = "PTKINITNEGOTIATING"]
<1>1. /\ ap \in ApWide /\ ap.cnt \in Int /\ ap.assoc \in Nat
      /\ ApKeys(ap, Sent) /\ KeysInv(ap) /\ Sent \cup {} = Sent
      /\ \A n \in Sent : FrameOK(ap, n) /\ AnswerOK(n)
  BY ApNow
<1>2. /\ m.type = "2" /\ ap.here /\ Keyless(ap) /\ WellFormed(m) /\ m \in Sent
      /\ UNCHANGED <<sta, gk, held, gkUsed>>
  BY DEF RecvMsg2, ApAccepts, Keyless, Becomes, IInv, Sent
<1>3. \A n \in Sent : ~Live(ap, n) BY <1>2, ApNow
<1>4. calc \in ApWide BY <1>1 DEF ApWide, RState
<1>5. /\ calc.assoc = ap.assoc /\ calc.ptk = ap.ptk /\ calc.gtk = ap.gtk
      /\ calc.gtks = ap.gtks /\ calc.cnt = ap.cnt /\ calc.here = ap.here
      /\ calc.txkey = ap.txkey /\ calc.rstate = "PTKCALCNEGOTIATING"
  BY <1>1 DEF ApWide
<1> HIDE DEF calc
<1>6. CASE m.mic = mine
  <2>1. PICK nm \in NoMbuf : Becomes(SendMsg3(x, nm)) BY <1>6 DEF RecvMsg2, calc
  <2>2. nm \in BOOLEAN BY NoMbufFacts
  <2>3. mine \in Ptk /\ mine[1] = ap.assoc BY <1>2, <1>6 DEF WellFormed
  <2>4. sta.assoc = ap.assoc BY <1>1, <1>2, <1>6, <2>3, PtkFacts DEF AnswerOK, InAssoc
  <2> HIDE DEF mine
  <2>5. b \in ApWide BY <1>4, <2>3 DEF ApWide
  <2>6. /\ b.assoc = calc.assoc /\ b.ptk = mine /\ b.gtk = calc.gtk
        /\ b.gtks = calc.gtks /\ b.cnt = calc.cnt /\ b.here = calc.here
        /\ b.txkey = calc.txkey
    BY <1>4, <2>3 DEF ApWide
  <2> HIDE DEF b
  <2>7. x = [ap |-> b, out |-> {}] /\ x.ap = b /\ x.out = {} BY DEF Here
  <2> HIDE DEF x
  <2>8. c \in ApWide BY <2>5, <2>7 DEF ApWide, RState
  <2>9. /\ c.assoc = ap.assoc /\ c.ptk = mine /\ c.gtk = ap.gtk
        /\ c.gtks = ap.gtks /\ c.cnt = ap.cnt /\ c.here
        /\ c.txkey = ap.txkey /\ c.rstate = "PTKINITNEGOTIATING"
    BY <1>2, <1>5, <2>5, <2>6, <2>7 DEF ApWide
  <2> DEFINE r == SendKey(x, c, nm, "3", x.ap.assoc, x.ap.ptk, x.ap.txkey)
  <2>10. ap' = r.ap /\ net' = net \cup r.out BY <2>1 DEF SendMsg3, Becomes
  <2> HIDE DEF c
  <2>11. ~Keyless(c) /\ ap.assoc <= ap.assoc BY <1>1, <2>9 DEF Keyless
  <2>12. KeysInv(c) BY <1>1, <2>3, <2>4, <2>9, <2>11 DEF KeysInv
  <2>13. \A n \in Sent : FrameOK(c, n)
    <3> SUFFICES ASSUME NEW n \in Sent PROVE FrameOK(c, n) OBVIOUS
    <3>1. FrameOK(ap, n) BY <1>1
    <3>2. InAssoc(c, n) = InAssoc(ap, n) BY <2>9 DEF InAssoc
    <3> QED BY <1>2, <2>9, <3>1, <3>2 DEF FrameOK
  <2>14. \A n \in Sent : ~Live(c, n) BY <1>3, <2>9 DEF Live, InAssoc
  <2>15. Ready(c, Sent \cup x.out)
    <3>1. SameKid(Sent) /\ Sent \cup x.out = Sent BY <1>1, <2>7 DEF ApKeys
    <3> QED BY <2>12, <2>13, <2>14, <3>1, NoneLive DEF Ready, ApKeys
  <2>16. /\ x.ap.assoc \in Nat /\ x.ap.assoc <= c.assoc /\ x.ap.ptk = c.ptk
         /\ x.ap.txkey \in Kid /\ x.ap.txkey = c.txkey
    BY <1>1, <1>5, <2>6, <2>7, <2>9 DEF ApWide
  <2>17. x.ap \in ApWide /\ x = [ap |-> x.ap, out |-> x.out] BY <2>5, <2>7
  <2>18. r = SendKey(x, c, nm, "3", x.ap.assoc, c.ptk, c.txkey) BY <2>16
  <2> HIDE DEF r
  <2>19. SentKeys(r, x, c, Sent, "3")
    BY <2>2, <2>8, <2>15, <2>16, <2>17, <2>18, SendMsg3Keys, Zenon
  <2>20. /\ Ready(r.ap, Sent \cup r.out) /\ r.ap.assoc = c.assoc
         /\ \A n \in r.out : n \in x.out \/ n.type = "3"
    BY <2>19 DEF SentKeys
  <2> QED BY <1>2, <2>7, <2>9, <2>10, <2>20, ReadyBetween, ApGroup
<1>7. CASE m.mic # mine
  <2> DEFINE y == Here(calc)
  <2>1. ap' = y.ap /\ net' = net \cup y.out BY <1>7 DEF RecvMsg2, calc, Becomes
  <2>2. y.ap = calc /\ y.out = {} BY DEF Here
  <2> HIDE DEF y
  <2>3. ap.cnt <= ap.cnt BY <1>1
  <2>4. ApKeys(calc, Sent) BY <1>1, <1>2, <1>5, <2>3, SameKeys
  <2>5. \A n \in Sent : ~Live(calc, n) BY <1>3, <1>5 DEF Live, InAssoc
  <2>6. BetweenInv(calc, Sent) /\ Sent \cup y.out = Sent BY <2>2, <2>5, NoneLive
  <2> QED BY <1>2, <1>5, <2>1, <2>2, <2>4, <2>6, ApGroup
<1> QED BY <1>6, <1>7

(* ieee80211_node_join: a new association has no live frame.               *)
LEMMA JoinGroup ==
    ASSUME IInv, GroupInv, Join
    PROVE  GroupInv'
<1> DEFINE j == [ap EXCEPT !.here = TRUE, !.assoc = @ + 1, !.cnt = -1,
                           !.crossed = ap.gstate = "REKEYNEGOTIATING",
                           !.retries = 0, !.prot = FALSE, !.port = FALSE]
           x == Here(j)
           c == [x.ap EXCEPT !.rstate = "PTKSTART"]
<1>1. /\ ap \in ApWide /\ ap.assoc \in Nat /\ ApKeys(ap, Sent) /\ KeysInv(ap)
      /\ \A n \in Sent : FrameOK(ap, n) /\ AnswerOK(n)
  BY ApNow
<1>2. /\ sta.link = "assoc" /\ sta.state = "INITIALIZE" /\ ap.assoc < MaxAssoc
      /\ ap.assoc + 1 \in 0 .. MaxAssoc
  <2>1. sta.link = "assoc" /\ ap.assoc < MaxAssoc BY DEF Join
  <2> QED BY <1>1, <2>1, FourWayAssumption DEF IInv, StaInv
<1>3. PICK nm \in NoMbuf : Becomes(SendMsg1(x, nm)) BY DEF Join
<1>4. nm \in BOOLEAN BY NoMbufFacts
<1>5. j \in ApWide
  <2> DEFINE w == ap.gstate = "REKEYNEGOTIATING"
             g == [ap EXCEPT !.here = TRUE, !.assoc = ap.assoc + 1]
             h == [g EXCEPT !.cnt = -1, !.crossed = w]
  <2>1. g \in ApWide BY <1>1, <1>2 DEF ApWide
  <2>2. w \in BOOLEAN OBVIOUS
  <2>3. j = [h EXCEPT !.retries = 0, !.prot = FALSE, !.port = FALSE] BY <1>1
  <2> HIDE DEF w, g
  <2>4. [g EXCEPT !.cnt = -1] \in ApWide BY <2>1 DEF ApWide
  <2>5. h = [[g EXCEPT !.cnt = -1] EXCEPT !.crossed = w] OBVIOUS
  <2>6. h \in ApWide BY <2>2, <2>4, <2>5 DEF ApWide
  <2> HIDE DEF h
  <2> QED BY <2>3, <2>6 DEF ApWide
<1>6. /\ j.here /\ j.assoc = ap.assoc + 1 /\ j.gtk = ap.gtk /\ j.gtks = ap.gtks
      /\ j.ptk = ap.ptk
  BY <1>1 DEF ApWide
<1> HIDE DEF j
<1>7. x = [ap |-> j, out |-> {}] /\ x.ap = j /\ x.out = {} BY DEF Here
<1> HIDE DEF x
<1>8. c \in ApWide BY <1>5, <1>7 DEF ApWide, RState
<1>9. /\ c.here /\ c.assoc = ap.assoc + 1 /\ c.gtk = ap.gtk /\ c.gtks = ap.gtks
      /\ c.ptk = ap.ptk /\ c.rstate = "PTKSTART"
  BY <1>5, <1>6, <1>7 DEF ApWide
<1> DEFINE r == SendKey(x, c, nm, "1", x.ap.assoc, None, 0)
<1>10. ap' = r.ap /\ net' = net \cup r.out /\ UNCHANGED <<sta, gk, held, gkUsed>>
  BY <1>3 DEF SendMsg1, Becomes
<1> HIDE DEF c
<1>11. KeysInv(c)
  <2>1. c.ptk # None => c.ptk[1] < c.assoc
    <3> SUFFICES ASSUME ap.ptk # None PROVE ap.ptk[1] < ap.assoc + 1 BY <1>9
    <3>1. ap.ptk \in Ptk BY <1>1 DEF ApWide
    <3>2. ap.ptk[1] \in Nat /\ ap.ptk[1] <= ap.assoc BY <1>1, <3>1, PtkFacts DEF KeysInv
    <3> QED BY <1>1, <3>2
  <2>2. c.ptk # None => c.ptk[1] <= c.assoc
    <3> SUFFICES ASSUME ap.ptk # None PROVE ap.ptk[1] <= ap.assoc + 1 BY <1>9
    <3>1. ap.ptk \in Ptk BY <1>1 DEF ApWide
    <3>2. ap.ptk[1] \in Nat /\ ap.ptk[1] <= ap.assoc BY <1>1, <3>1, PtkFacts DEF KeysInv
    <3> QED BY <1>1, <3>2
  <2> QED BY <1>1, <1>9, <2>1, <2>2 DEF KeysInv
<1>12. \A n \in Sent : FrameOK(c, n) /\ ~InAssoc(c, n)
  <2> SUFFICES ASSUME NEW n \in Sent PROVE FrameOK(c, n) /\ ~InAssoc(c, n) OBVIOUS
  <2>1. FrameOK(ap, n) BY <1>1
  <2>2. n.mic # None => n.mic[1] \in Nat /\ n.mic[1] <= ap.assoc
    BY <2>1, PtkFacts DEF FrameOK, Typed
  <2>3. n.mic # None => n.mic[1] <= c.assoc /\ n.mic[1] # c.assoc BY <1>1, <1>9, <2>2
  <2>4. ~InAssoc(c, n) BY <2>3 DEF InAssoc
  <2>5. n.type = "1" => n.nonce <= c.assoc
    <3>1. n.type = "1" => n.nonce \in Nat
      BY FourWayAssumption DEF IInv, WellFormed
    <3> QED BY <1>1, <1>9, <2>1, <3>1 DEF FrameOK
  <2> QED BY <1>9, <2>1, <2>3, <2>4, <2>5 DEF FrameOK
<1>13. Ready(c, Sent \cup x.out)
  <2>1. \A n \in Sent : ~Live(c, n) BY <1>12 DEF Live
  <2>2. SameKid(Sent) /\ Sent \cup x.out = Sent BY <1>1, <1>7 DEF ApKeys
  <2> QED BY <1>11, <1>12, <2>1, <2>2, NoneLive DEF Ready, ApKeys
<1>14. x.ap.assoc \in Nat /\ x.ap.assoc <= c.assoc BY <1>1, <1>6, <1>7, <1>9
<1>15. x.ap \in ApWide /\ x = [ap |-> x.ap, out |-> x.out] BY <1>5, <1>7
<1>16. SentKeys(r, x, c, Sent, "1")
  BY <1>4, <1>8, <1>13, <1>14, <1>15, SendMsg1Keys, Zenon
<1> HIDE DEF r
<1>17. /\ Ready(r.ap, Sent \cup r.out) /\ r.ap.assoc = c.assoc
       /\ \A n \in r.out : n \in x.out \/ n.type = "1"
  BY <1>16 DEF SentKeys
<1>18. \A n \in Sent : ~InAssoc(r.ap, n) BY <1>12, <1>17 DEF InAssoc
<1> QED BY <1>2, <1>7, <1>10, <1>17, <1>18, ReadyBetween, ApGroup

(* The timer is armed only while the keys of the frames are those in place. *)
LEMMA EapolTimeoutGroup ==
    ASSUME IInv, GroupInv, EapolTimeout
    PROVE  GroupInv'
<1> DEFINE a == [ap EXCEPT !.timer = FALSE]
           x == Here(a)
           First(nm) == IF ap.rstate \in {"PTKSTART", "PTKCALCNEGOTIATING"} THEN SendMsg1(x, nm)
                        ELSE IF ap.rstate = "PTKINITNEGOTIATING" THEN SendMsg3(x, nm)
                        ELSE x
           Second(y, nm) == IF y.ap.gstate = "REKEYNEGOTIATING" THEN SendGroupMsg1(y, nm)
                            ELSE y
<1>1. /\ ap \in ApWide /\ ap.cnt \in Int /\ ap.assoc \in Nat /\ ap.timer /\ ap.here
      /\ ApKeys(ap, Sent) /\ KeysInv(ap) /\ UpToDate(ap, Sent)
      /\ ap.gstate = "IDLE" => OnlyInUse(ap, Sent)
  BY ApNow DEF ApCore, BetweenInv, EapolTimeout
<1>2. PICK nm1 \in NoMbuf, nm2 \in NoMbuf : Becomes(Second(First(nm1), nm2))
  BY DEF EapolTimeout
<1>3. nm1 \in BOOLEAN /\ nm2 \in BOOLEAN BY NoMbufFacts
<1>4. UNCHANGED <<sta, gk, held, gkUsed>> BY DEF EapolTimeout, Becomes
<1>5. a \in ApWide BY <1>1 DEF ApWide
<1>6. /\ a.assoc = ap.assoc /\ a.ptk = ap.ptk /\ a.gtk = ap.gtk /\ a.gtks = ap.gtks
      /\ a.cnt = ap.cnt /\ a.rstate = ap.rstate /\ a.gstate = ap.gstate /\ a.here
      /\ a.txkey = ap.txkey
  BY <1>1 DEF ApWide
<1> HIDE DEF a
<1>7. Keyless(a) = Keyless(ap) /\ ap.cnt <= ap.cnt BY <1>1, <1>6 DEF Keyless
<1>8. Ready(a, Sent)
  <2>1. /\ ApKeys(a, Sent) /\ UpToDate(a, Sent)
        /\ OnlyInUse(ap, Sent) => OnlyInUse(a, Sent)
    BY <1>1, <1>6, <1>7, SameKeys DEF KeysInv
  <2> QED BY <1>1, <1>6, <2>1 DEF Ready
<1>9. x = [ap |-> a, out |-> {}] /\ x.ap = a /\ x.out = {} BY DEF Here
<1>10. x = [ap |-> x.ap, out |-> x.out] /\ x.ap \in ApWide /\ Sent \cup x.out = Sent
  BY <1>5, <1>9
<1> HIDE DEF x
<1> DEFINE y == First(nm1)
           z == Second(y, nm2)
<1>11. /\ y = [ap |-> y.ap, out |-> y.out] /\ y.ap \in ApWide /\ Ready(y.ap, Sent \cup y.out)
       /\ y.ap.assoc = ap.assoc /\ \A m \in y.out : m.type \in {"1", "3", "G1"}
  <2>1. CASE ap.rstate \in {"PTKSTART", "PTKCALCNEGOTIATING"}
    <3> DEFINE b == [x.ap EXCEPT !.rstate = "PTKSTART"]
    <3>1. b \in ApWide BY <1>10 DEF ApWide, RState
    <3>2. /\ b.assoc = a.assoc /\ b.ptk = a.ptk /\ b.gtk = a.gtk /\ b.gtks = a.gtks
          /\ b.cnt = a.cnt /\ b.rstate = "PTKSTART" /\ b.gstate = a.gstate /\ b.here
          /\ b.txkey = a.txkey
      BY <1>5, <1>6, <1>9 DEF ApWide
    <3>3. y = SendKey(x, b, nm1, "1", x.ap.assoc, None, 0) BY <2>1 DEF SendMsg1
    <3> HIDE DEF b, y
    <3>4. Keyless(a) BY <1>6, <2>1 DEF Keyless
    <3>5. Ready(b, Sent \cup x.out)
      <4>1. /\ ApKeys(b, Sent) /\ (UpToDate(a, Sent) => UpToDate(b, Sent))
            /\ OnlyInUse(a, Sent) => OnlyInUse(b, Sent)
        BY <1>1, <1>6, <1>8, <3>2, <3>4, SameKeys DEF Ready
      <4> QED BY <1>6, <1>8, <1>10, <3>2, <4>1 DEF Ready
    <3>6. x.ap.assoc \in Nat /\ x.ap.assoc <= b.assoc BY <1>1, <1>6, <1>9, <3>2
    <3>7. SentKeys(y, x, b, Sent, "1")
      BY <1>3, <1>10, <3>1, <3>3, <3>5, <3>6, SendMsg1Keys, Zenon
    <3> QED BY <1>6, <1>9, <3>2, <3>7 DEF SentKeys
  <2>2. CASE ap.rstate = "PTKINITNEGOTIATING"
    <3>1. [x.ap EXCEPT !.rstate = "PTKINITNEGOTIATING"] = a
      BY <1>5, <1>6, <1>9, <2>2 DEF ApWide
    <3>2. y = SendKey(x, a, nm1, "3", x.ap.assoc, a.ptk, a.txkey)
      BY <1>9, <2>2, <3>1 DEF SendMsg3
    <3> HIDE DEF y
    <3>3. x.ap.assoc \in Nat /\ x.ap.assoc <= a.assoc BY <1>1, <1>6, <1>9
    <3>4. Ready(a, Sent \cup x.out) BY <1>8, <1>10
    <3>5. SentKeys(y, x, a, Sent, "3")
      BY <1>3, <1>5, <1>10, <3>2, <3>3, <3>4, SendMsg3Keys, Zenon
    <3> QED BY <1>6, <1>9, <3>5 DEF SentKeys
  <2>3. CASE ap.rstate \notin {"PTKSTART", "PTKCALCNEGOTIATING", "PTKINITNEGOTIATING"}
    <3>1. y = x BY <2>3
    <3> QED BY <1>6, <1>8, <1>9, <1>10, <3>1
  <2> QED BY <2>1, <2>2, <2>3
<1> HIDE DEF y
<1>12. /\ Ready(z.ap, Sent \cup z.out) /\ z.ap.assoc = ap.assoc
       /\ \A m \in z.out : m.type \in {"1", "3", "G1"}
  <2>1. CASE y.ap.gstate = "REKEYNEGOTIATING"
    <3> DEFINE kid == IF y.ap.rekey THEN OtherKid(y.ap) ELSE y.ap.txkey
    <3>1. [y.ap EXCEPT !.gstate = "REKEYNEGOTIATING"] = y.ap BY <1>11, <2>1 DEF ApWide
    <3>2. kid \in Kid BY <1>11, OtherKidFacts DEF ApWide
    <3>3. z = SendKey(y, y.ap, nm2, "G1", 0, y.ap.ptk, kid) BY <2>1, <3>1 DEF SendGroupMsg1
    <3> HIDE DEF kid, z
    <3>4. SentKeys(z, y, y.ap, Sent, "G1")
      BY <1>3, <1>11, <2>1, <3>2, <3>3, SendGroupMsg1Keys, Zenon
    <3> QED BY <1>11, <3>4 DEF SentKeys
  <2>2. CASE y.ap.gstate # "REKEYNEGOTIATING"
    <3>1. z = y BY <2>2
    <3> QED BY <1>11, <3>1
  <2> QED BY <2>1, <2>2
<1>13. ap' = z.ap /\ net' = net \cup z.out BY <1>2 DEF Becomes, y
<1> HIDE DEF z
<1> QED BY <1>4, <1>12, <1>13, ReadyBetween, ApGroup

(* A new group key takes the place of the one not in use.                  *)
LEMMA GtkRekeyGroup ==
    ASSUME IInv, GroupInv, GtkRekey
    PROVE  GroupInv'
<1> DEFINE k == OtherKid(ap)
           new == ap.gtks + 1
           a == [ap EXCEPT !.gtks = @ + 1, !.gtk[OtherKid(ap)] = ap.gtks + 1,
                           !.crossed = @ \/ Waiting]
           b == [a EXCEPT !.rekey = TRUE]
           x0 == Here(b)
           c == [x0.ap EXCEPT !.gstate = "REKEYNEGOTIATING"]
           X(nm) == SendGroupMsg1(x0, nm)
           Y(nm) == IF ~a.here \/ a.gstate # "IDLE" THEN Here(a)
                    ELSE IF nm /\ X(nm).ap.here THEN [X(nm) EXCEPT !.ap.rekey = FALSE]
                    ELSE X(nm)
           Z(nm) == IF Y(nm).ap.rekey THEN Y(nm)
                    ELSE [Y(nm) EXCEPT !.ap = SetKeysDone(Y(nm).ap)]
<1>1. /\ ap \in ApWide /\ ApCore(ap) /\ ap.cnt \in Int /\ ap.assoc \in Nat
      /\ ApKeys(ap, Sent) /\ KeysInv(ap) /\ BetweenInv(ap, Sent)
      /\ \A n \in Sent : FrameOK(ap, n)
  BY ApNow
<1>2. PICK nm \in NoMbuf : Becomes(Z(nm)) BY DEF GtkRekey
<1>3. nm \in BOOLEAN BY NoMbufFacts
<1>4. UNCHANGED <<sta, gk, held, gkUsed>> BY DEF GtkRekey, Becomes
<1>5. ap.gtks \in Nat /\ new \in Gtk /\ new \in Nat /\ new # None
  <2>1. ap.gtks \in 1 .. MaxGtk /\ ap.gtks < MaxGtk BY <1>1 DEF ApWide, Gtk, GtkRekey
  <2> QED BY <2>1, FourWayAssumption DEF Gtk
<1>6. k \in Kid /\ ap.txkey \in Kid /\ k # ap.txkey BY <1>1 DEF OtherKid, ApWide, Kid
<1>7. a \in ApWide /\ a.gtks = new /\ a.gtk = [ap.gtk EXCEPT ![k] = new]
  <2> DEFINE g == [ap.gtk EXCEPT ![k] = new]
             w == ap.crossed \/ Waiting
  <2>1. a = [ap EXCEPT !.gtks = new, !.gtk = g, !.crossed = w] BY <1>1 DEF ApWide
  <2>2. g \in [Kid -> Gtk \cup {None}] BY <1>1, <1>5, <1>6 DEF ApWide
  <2>3. w \in BOOLEAN BY <1>1 DEF ApWide
  <2> HIDE DEF g, w, a, new
  <2>4. a \in ApWide /\ a.gtks = new /\ a.gtk = g
    BY <1>1, <1>5, <2>1, <2>2, <2>3 DEF ApWide
  <2> QED BY <2>4 DEF g
<1>8. /\ a.assoc = ap.assoc /\ a.ptk = ap.ptk /\ a.cnt = ap.cnt /\ a.rstate = ap.rstate
      /\ a.gstate = ap.gstate /\ a.here = ap.here /\ a.timer = ap.timer
      /\ a.txkey = ap.txkey
  BY <1>1 DEF ApWide
<1> HIDE DEF a, k
<1>9. a.gtk[k] = new /\ a.gtk[ap.txkey] = ap.gtk[ap.txkey] /\ Kid = {k, ap.txkey}
  BY <1>1, <1>6, <1>7 DEF ApWide, Kid
<1>10. ap.gtk[ap.txkey] \in Nat /\ ap.gtk[ap.txkey] <= ap.gtks /\ ap.gtk[ap.txkey] # None
  <2>1. ap.gtk[ap.txkey] \in Gtk BY <1>1 DEF ApCore
  <2>2. ap.gtk[ap.txkey] \in Nat /\ ap.gtk[ap.txkey] # None
    BY <2>1, FourWayAssumption DEF Gtk
  <2> QED BY <1>1, <1>6, <2>2 DEF KeysInv
<1>11. new \notin Range(gkUsed) /\ \A g \in Range(gkUsed) : g \in Nat /\ g <= ap.gtks
  <2>1. gkUsed \in Seq(Gtk) BY DEF IInv, UsedInv
  <2>2. \A g \in Range(gkUsed) : g \in Nat BY <2>1, FourWayAssumption DEF Range, Gtk
  <2> QED BY <1>1, <1>5, <2>2 DEF KeysInv
<1>12. Keyless(a) = Keyless(ap) BY <1>8 DEF Keyless
<1> HIDE DEF new
<1>13. KeysInv(a)
  <2>1. a.gtk[1] # a.gtk[2] BY <1>5, <1>9, <1>10 DEF Kid, new
  <2>2. \A i \in Kid : a.gtk[i] # None => a.gtk[i] <= a.gtks
    BY <1>5, <1>7, <1>9, <1>10 DEF new
  <2>3. \A g \in Range(gkUsed) : g <= a.gtks BY <1>5, <1>7, <1>11 DEF new
  <2>4. \A i \in Kid : a.gtk[i] \in Range(gkUsed) => gk[i] = a.gtk[i]
    BY <1>1, <1>6, <1>9, <1>11 DEF KeysInv
  <2> QED BY <1>1, <1>8, <1>12, <2>1, <2>2, <2>3, <2>4 DEF KeysInv
<1>14. \A n : InAssoc(a, n) = InAssoc(ap, n) /\ Live(a, n) = Live(ap, n)
  BY <1>8 DEF InAssoc, Live
<1>15. \A n \in Sent : FrameOK(a, n)
  <2> SUFFICES ASSUME NEW n \in Sent PROVE FrameOK(a, n) OBVIOUS
  <2>1. FrameOK(ap, n) BY <1>1
  <2>2. Carries(n) /\ n.gtk # None => n.gtk \in Nat /\ n.gtk <= ap.gtks
    BY <2>1, FourWayAssumption DEF FrameOK, Typed, Gtk
  <2>3. Carries(n) /\ n.gtk # None => n.gtk <= a.gtks BY <1>5, <1>7, <2>2 DEF new
  <2>4. Carries(n) => n.gtk # new BY <1>5, <2>2 DEF new
  <2>5. Carries(n) => \A i \in Kid : a.gtk[i] = n.gtk => i = n.kid
    BY <1>6, <1>9, <2>1, <2>4 DEF FrameOK
  <2> QED BY <1>8, <1>12, <1>14, <2>1, <2>3, <2>5 DEF FrameOK
<1>16. ApKeys(a, Sent)
  <2>1. LiveInv(a, Sent)
    <3>1. LiveInv(ap, Sent) /\ \A n \in Sent : Live(ap, n) => n.kid \in Kid
      BY <1>1 DEF ApKeys, Live, FrameOK, Typed
    <3> QED BY <1>9, <1>11, <1>14, <3>1 DEF LiveInv
  <2> QED BY <1>1, <1>13, <1>15, <2>1 DEF ApKeys
<1> DEFINE y == Y(nm)
           z == Z(nm)
           Done(r) == /\ r = [ap |-> r.ap, out |-> r.out] /\ r.ap \in ApWide
                      /\ ApKeys(r.ap, Sent \cup r.out) /\ r.ap.assoc = ap.assoc
                      /\ UpToDate(r.ap, Sent \cup r.out) \/ ~r.ap.timer \/ ~r.ap.here
                      /\ ~(r.ap.here /\ r.ap.gstate = "IDLE")
                      /\ \A m \in r.out : m.type \in {"1", "3", "G1"}
<1>17. Done(y)
  <2>1. CASE ~a.here \/ a.gstate # "IDLE"
    <3>1. y = Here(a) BY <2>1
    <3> HIDE DEF Y, y
    <3>2. y = [ap |-> a, out |-> {}] /\ y.ap = a /\ y.out = {} BY <3>1 DEF Here
    <3>3. Sent \cup y.out = Sent BY <3>2
    <3>4. ~(ap.timer /\ ap.gstate = "REKEYNEGOTIATING") BY DEF GtkRekey
    <3>5. ap.gstate \in {"IDLE", "REKEYNEGOTIATING"} BY <1>1 DEF ApWide
    <3>6. ~a.timer \/ ~a.here BY <1>8, <2>1, <3>4, <3>5
    <3> QED BY <1>7, <1>8, <1>16, <2>1, <3>2, <3>3, <3>6
  <2>2. CASE a.here /\ a.gstate = "IDLE"
    <3>1. UpToDate(ap, Sent) /\ OnlyInUse(ap, Sent) BY <1>1, <1>8, <2>2 DEF BetweenInv
    <3>2. UpToDate(a, Sent) BY <1>9, <1>14, <3>1 DEF UpToDate, OnlyInUse
    <3>3. b \in ApWide BY <1>7 DEF ApWide
    <3>4. /\ b.assoc = a.assoc /\ b.ptk = a.ptk /\ b.gtk = a.gtk /\ b.gtks = a.gtks
          /\ b.cnt = a.cnt /\ b.rstate = a.rstate /\ b.here = a.here
      BY <1>7 DEF ApWide
    <3> HIDE DEF b
    <3>5. x0 = [ap |-> b, out |-> {}] /\ x0.ap = b /\ x0.out = {} BY DEF Here
    <3> HIDE DEF x0
    <3>6. c \in ApWide BY <3>3, <3>5 DEF ApWide
    <3>7. /\ c.assoc = a.assoc /\ c.ptk = a.ptk /\ c.gtk = a.gtk /\ c.gtks = a.gtks
          /\ c.cnt = a.cnt /\ c.rstate = a.rstate /\ c.here
          /\ c.gstate = "REKEYNEGOTIATING"
      BY <2>2, <3>3, <3>4, <3>5 DEF ApWide
    <3> DEFINE kid == IF x0.ap.rekey THEN OtherKid(x0.ap) ELSE x0.ap.txkey
               s == X(nm)
    <3>8. s = SendKey(x0, c, nm, "G1", 0, x0.ap.ptk, kid) BY DEF SendGroupMsg1
    <3>9. kid \in Kid BY <3>3, <3>5, OtherKidFacts DEF ApWide
    <3>10. x0.ap.ptk = c.ptk BY <3>4, <3>5, <3>7
    <3>11. y = IF nm /\ s.ap.here THEN [s EXCEPT !.ap.rekey = FALSE] ELSE s BY <2>2
    <3> HIDE DEF c, kid, X, s, Y, y
    <3>12. Keyless(c) = Keyless(a) /\ a.cnt \in Int /\ a.cnt <= a.cnt
      BY <1>1, <1>8, <3>7 DEF Keyless
    <3>13. ApKeys(c, Sent) /\ UpToDate(c, Sent)
      BY <1>13, <1>16, <2>2, <3>2, <3>7, <3>12, SameKeys DEF KeysInv
    <3>14. Sent \cup x0.out = Sent BY <3>5
    <3>15. Ready(c, Sent \cup x0.out) BY <3>7, <3>13, <3>14 DEF Ready
    <3>16. s = SendKey(x0, c, nm, "G1", 0, c.ptk, kid) BY <3>8, <3>10
    <3>17. x0.ap \in ApWide /\ x0 = [ap |-> x0.ap, out |-> x0.out] BY <3>3, <3>5
    <3>18. c.gstate = "REKEYNEGOTIATING" BY <3>7
    <3>19. SentKeys(s, x0, c, Sent, "G1")
      BY <1>3, <3>6, <3>9, <3>15, <3>16, <3>17, <3>18, SendGroupMsg1Keys, Zenon
    <3>20. Done(s)
      BY <1>8, <3>5, <3>7, <3>19 DEF SentKeys, Ready
    <3>21. CASE nm /\ s.ap.here
      <4> DEFINE d == [s.ap EXCEPT !.rekey = FALSE]
      <4>1. y = [ap |-> d, out |-> s.out] /\ y.ap = d /\ y.out = s.out
        BY <3>11, <3>20, <3>21
      <4>2. d \in ApWide BY <3>20 DEF ApWide
      <4>3. /\ d.assoc = s.ap.assoc /\ d.ptk = s.ap.ptk /\ d.gtk = s.ap.gtk
            /\ d.gtks = s.ap.gtks /\ d.cnt = s.ap.cnt /\ d.rstate = s.ap.rstate
            /\ d.here = s.ap.here /\ d.gstate = s.ap.gstate /\ d.timer = s.ap.timer
        BY <3>20 DEF ApWide
      <4> HIDE DEF d
      <4>4. Keyless(d) = Keyless(s.ap) /\ s.ap.cnt \in Int /\ s.ap.cnt <= s.ap.cnt
        BY <3>20, <4>3 DEF Keyless, ApWide
      <4>5. KeysInv(s.ap) BY <3>20 DEF ApKeys
      <4> DEFINE M == Sent \cup s.out
      <4>6. ApKeys(s.ap, M) BY <3>20
      <4> HIDE DEF M
      <4>7. ApKeys(d, M) /\ (UpToDate(s.ap, M) => UpToDate(d, M))
        BY <4>3, <4>4, <4>5, <4>6, SameKeys DEF KeysInv
      <4> QED BY <3>20, <4>1, <4>2, <4>3, <4>7 DEF M
    <3>22. CASE ~(nm /\ s.ap.here)
      <4>1. y = s BY <3>11, <3>22
      <4> QED BY <3>20, <4>1
    <3> QED BY <3>21, <3>22
  <2> QED BY <2>1, <2>2
<1>18. z = IF y.ap.rekey THEN y ELSE [y EXCEPT !.ap = SetKeysDone(y.ap)] OBVIOUS
<1>19. ap' = z.ap /\ net' = net \cup z.out BY <1>2 DEF Becomes
<1> HIDE DEF Y, y, Z, z
<1>20. Done(z)
  <2>1. CASE y.ap.rekey BY <1>17, <1>18, <2>1
  <2>2. CASE ~y.ap.rekey
    <3> DEFINE d == SetKeysDone(y.ap)
    <3>1. d = [y.ap EXCEPT !.txkey = OtherKid(y.ap)] /\ d \in ApWide
      BY <1>17, SetKeysDoneFacts
    <3> HIDE DEF d
    <3>2. z = [ap |-> d, out |-> y.out] /\ z.ap = d /\ z.out = y.out
      BY <1>17, <1>18, <2>2 DEF d
    <3>3. /\ d.assoc = y.ap.assoc /\ d.ptk = y.ap.ptk /\ d.gtk = y.ap.gtk
          /\ d.gtks = y.ap.gtks /\ d.cnt = y.ap.cnt /\ d.rstate = y.ap.rstate
          /\ d.here = y.ap.here /\ d.gstate = y.ap.gstate /\ d.timer = y.ap.timer
      BY <1>17, <3>1 DEF ApWide
    <3>4. Keyless(d) = Keyless(y.ap) /\ y.ap.cnt \in Int /\ y.ap.cnt <= y.ap.cnt
      BY <1>17, <3>3 DEF Keyless, ApWide
    <3>5. KeysInv(y.ap) BY <1>17 DEF ApKeys
    <3> DEFINE M == Sent \cup y.out
    <3>6. ApKeys(y.ap, M) BY <1>17
    <3> HIDE DEF M
    <3>7. ApKeys(d, M) /\ (UpToDate(y.ap, M) => UpToDate(d, M))
      BY <3>3, <3>4, <3>5, <3>6, SameKeys DEF KeysInv
    <3> QED BY <1>17, <3>1, <3>2, <3>3, <3>7 DEF M
  <2> QED BY <2>1, <2>2
<1>21. BetweenInv(z.ap, Sent \cup z.out) BY <1>20 DEF BetweenInv
<1> QED BY <1>4, <1>19, <1>20, <1>21, ApGroup

-----------------------------------------------------------------------------
(* The steps of the station.                                               *)

(* The station takes the group key from a frame: installed, or refused.    *)
Takes(m) ==
    /\ m \in Sent /\ WellFormed(m) /\ Live(ap, m) /\ gk[m.kid] # m.gtk
    /\ gk' = [gk EXCEPT ![m.kid] = m.gtk]
    /\ (gkUsed' = gkUsed \/ (gkUsed' = Append(gkUsed, m.gtk) /\ sta'.ok))

(* A frame the station adds is an answer.                                  *)
Answers(n) ==
    /\ n.type \in {"2", "4", "G2"} /\ n.cnt \in Int /\ n.mic \in Ptk \cup {None}
    /\ n.mic # None => n.mic[1] <= ap.assoc
    /\ n.type \in {"4", "G2"} /\ InAssoc(ap, n) => sta'.ok /\ n.cnt <= sta'.replaycnt

(* A new element keeps a sequence free of repetitions.                     *)
LEMMA InjectiveAppend ==
    ASSUME NEW S, NEW q \in Seq(S), NEW e \in S, IsInjective(q), e \notin Range(q)
    PROVE  IsInjective(Append(q, e))
<1> DEFINE r == Append(q, e)
<1>1. /\ DOMAIN r = 1 .. Len(q) + 1 /\ DOMAIN q = 1 .. Len(q) /\ Len(q) \in Nat
      /\ \A i \in 1 .. Len(q) : r[i] = q[i]
      /\ r[Len(q) + 1] = e
  OBVIOUS
<1> HIDE DEF r
<1>2. \A i \in 1 .. Len(q) : r[i] # e BY <1>1 DEF Range
<1>3. \A i, j \in 1 .. Len(q) : r[i] = r[j] => i = j BY <1>1 DEF IsInjective
<1>4. \A i \in 1 .. Len(q) + 1 : i \in 1 .. Len(q) \/ i = Len(q) + 1 BY <1>1
<1>5. \A i, j \in DOMAIN r : r[i] = r[j] => i = j BY <1>1, <1>2, <1>3, <1>4
<1> QED BY <1>5 DEF IsInjective, r

(* What a step of the station has to establish.                            *)
LEMMA StaGroup ==
    ASSUME IInv, GroupInv, ap' = ap, sta.link = "run", sta'.link = "run",
           sta' \in StaType, sta'.assoc = sta.assoc,
           sta.ok => sta'.ok /\ sta.replaycnt <= sta'.replaycnt,
           sta'.state = "PTKDONE" => sta'.ok /\ sta'.ptk \in Ptk /\ sta'.ptk[1] = ap.assoc,
           \A n \in Sent' : n \in Sent \/ Answers(n),
           \A n \in Range(held') : n.type \in {"2", "4", "G2"},
           UNCHANGED <<gk, gkUsed>> \/ \E m \in Sent : Takes(m)
    PROVE  GroupInv'
<1>1. /\ ApKeys(ap, Sent) /\ KeysInv(ap) /\ BetweenInv(ap, Sent)
      /\ \A n \in Sent : FrameOK(ap, n) /\ AnswerOK(n)
      /\ SameKid(Sent) /\ LiveInv(ap, Sent)
  BY ApNow DEF ApKeys
<1>2. /\ sta.replaycnt \in Int /\ sta'.replaycnt \in Int /\ sta.assoc = ap.assoc
  BY MaxCntIsCap DEF IInv, StaInv, StaType
<1>3. /\ gk \in [Kid -> Gtk \cup {None}] /\ gkUsed \in Seq(Gtk)
      /\ IsInjective(gkUsed) /\ (~sta.ok => gkUsed = <<>>)
  BY DEF IInv, UsedInv, GroupInv, StaKeys
<1>4. \A n \in Sent' : Carries(n) => n \in Sent BY DEF Answers, Carries
<1>5. \A n \in Sent' : Live(ap, n)' => n \in Sent /\ Live(ap, n)
  <2> SUFFICES ASSUME NEW n \in Sent', Live(ap, n)' PROVE n \in Sent /\ Live(ap, n)
    OBVIOUS
  <2>1. /\ Carries(n) /\ InAssoc(ap, n) /\ (sta'.ok => n.cnt > sta'.replaycnt)
    BY DEF Live, InAssoc
  <2>2. n \in Sent /\ n.cnt \in Int BY <1>1, <1>4, <2>1 DEF FrameOK, Typed
  <2> QED BY <1>2, <2>1, <2>2 DEF Live
<1>6. \A n \in Sent' : FrameOK(ap, n)'
  <2> SUFFICES ASSUME NEW n \in Sent' PROVE FrameOK(ap, n) BY DEF FrameOK, InAssoc
  <2>1. CASE n \in Sent BY <1>1, <2>1
  <2>2. CASE Answers(n) BY <2>2 DEF Answers, FrameOK, Typed, Carries
  <2> QED BY <2>1, <2>2
<1>7. SameKid(Sent)' BY <1>1, <1>4 DEF SameKid
<1>8. BetweenInv(ap, Sent)' BY <1>1, <1>5 DEF BetweenInv, UpToDate, OnlyInUse
<1>9. \A n \in Sent' : AnswerOK(n)'
  <2> SUFFICES ASSUME NEW n \in Sent' PROVE AnswerOK(n)' OBVIOUS
  <2>1. CASE n \in Sent
    <3>1. AnswerOK(n) /\ n.cnt \in Int BY <1>1, <2>1 DEF FrameOK, Typed
    <3> QED BY <1>2, <3>1 DEF AnswerOK, InAssoc
  <2>2. CASE Answers(n) BY <1>2, <2>2 DEF AnswerOK, Answers, InAssoc
  <2> QED BY <2>1, <2>2
<1>10. CASE UNCHANGED <<gk, gkUsed>>
  <2>1. KeysInv(ap)' BY <1>1, <1>10 DEF KeysInv
  <2>2. LiveInv(ap, Sent)' BY <1>1, <1>5, <1>10 DEF LiveInv
  <2>3. ApKeys(ap, Sent)' BY <1>6, <1>7, <2>1, <2>2 DEF ApKeys
  <2>4. StaKeys' BY <1>3, <1>10 DEF StaKeys
  <2> QED BY <1>8, <1>9, <2>3, <2>4 DEF GroupInv
<1>11. CASE \E m \in Sent : Takes(m)
  <2>1. PICK m \in Sent : Takes(m) BY <1>11
  <2>2. /\ m.kid \in Kid /\ m.gtk \in Gtk /\ m.gtk # None /\ Live(ap, m) /\ Carries(m)
    BY <2>1, FourWayAssumption DEF Takes, Live, Carries, WellFormed, Gtk
  <2>3. /\ gk'[m.kid] = m.gtk
        /\ \A k \in Kid : k # m.kid => gk'[k] = gk[k]
    BY <1>3, <2>1, <2>2 DEF Takes
  <2>4. m.gtk \notin Range(gkUsed) BY <1>1, <2>1, <2>2 DEF LiveInv, Takes
  <2>5. Range(gkUsed') \subseteq Range(gkUsed) \cup {m.gtk} /\ IsInjective(gkUsed')
    <3>1. CASE gkUsed' = gkUsed BY <1>3, <3>1
    <3>2. CASE gkUsed' = Append(gkUsed, m.gtk)
      <4> DEFINE e == m.gtk
      <4>1. e \in Gtk /\ e \notin Range(gkUsed) /\ gkUsed' = Append(gkUsed, e)
        BY <2>2, <2>4, <3>2
      <4> HIDE DEF e
      <4>2. Range(gkUsed') = Range(gkUsed) \cup {e} /\ IsInjective(gkUsed')
        BY <1>3, <4>1, RangeAppend, InjectiveAppend
      <4> QED BY <4>2 DEF e
    <3> QED BY <2>1, <3>1, <3>2 DEF Takes
  <2>6. FrameOK(ap, m) BY <1>1
  <2>7. ap.gtk[m.kid] = m.gtk \/ ap.gtk[m.kid] \notin Range(gkUsed)
    BY <1>1, <2>2 DEF LiveInv
  <2>8. \A k \in Kid : ap.gtk[k] = m.gtk => k = m.kid BY <2>2, <2>6 DEF FrameOK
  <2>9. KeysInv(ap)'
    <3>1. \A g \in Range(gkUsed') : g <= ap.gtks BY <1>1, <2>2, <2>5, <2>6 DEF KeysInv, FrameOK
    <3>2. \A k \in Kid : ap.gtk[k] \in Range(gkUsed') => gk'[k] = ap.gtk[k]
      BY <1>1, <2>3, <2>5, <2>7, <2>8 DEF KeysInv
    <3> QED BY <1>1, <3>1, <3>2 DEF KeysInv
  <2>10. LiveInv(ap, Sent)'
    <3>1. \A n \in Sent' : Live(ap, n)' =>
            /\ n.gtk \in Range(gkUsed') => gk'[n.kid] = n.gtk
            /\ ap.gtk[n.kid] = n.gtk \/ ap.gtk[n.kid] \notin Range(gkUsed')
      <4> SUFFICES ASSUME NEW n \in Sent', Live(ap, n)'
                   PROVE  /\ n.gtk \in Range(gkUsed') => gk'[n.kid] = n.gtk
                          /\ ap.gtk[n.kid] = n.gtk \/ ap.gtk[n.kid] \notin Range(gkUsed')
        OBVIOUS
      <4>1. n \in Sent /\ Live(ap, n) /\ Carries(n) BY <1>5 DEF Live
      <4>2. n.kid \in Kid BY <1>1, <4>1 DEF FrameOK, Typed
      <4>3. n.kid = m.kid => n.gtk = m.gtk BY <1>1, <2>2, <4>1 DEF LiveInv
      <4>4. n.gtk = m.gtk => n.kid = m.kid BY <1>1, <2>2, <4>1 DEF SameKid
      <4>5. /\ n.gtk \in Range(gkUsed) => gk[n.kid] = n.gtk
            /\ ap.gtk[n.kid] = n.gtk \/ ap.gtk[n.kid] \notin Range(gkUsed)
        BY <1>1, <4>1 DEF LiveInv
      <4> QED BY <2>3, <2>5, <2>8, <4>2, <4>3, <4>4, <4>5
    <3>2. \A n, o \in Sent' : Live(ap, n)' /\ Live(ap, o)' /\ n.kid = o.kid => n.gtk = o.gtk
      BY <1>1, <1>5 DEF LiveInv
    <3> QED BY <3>1, <3>2 DEF LiveInv
  <2>11. ApKeys(ap, Sent)' BY <1>6, <1>7, <2>9, <2>10 DEF ApKeys
  <2>12. StaKeys'
    <3>1. ~sta'.ok => gkUsed' = <<>> BY <1>3, <2>1 DEF Takes
    <3> QED BY <2>5, <3>1 DEF StaKeys
  <2> QED BY <1>8, <1>9, <2>11, <2>12 DEF GroupInv
<1> QED BY <1>10, <1>11

(* The frames of the station after it sends frame f.                       *)
LEMMA StaFrames ==
    ASSUME IInv, GroupInv, NEW f, WellFormed(f), f.type \in {"2", "4", "G2"},
           NEW failed, StaSend(f, failed), Answers(f)
    PROVE  /\ \A n \in Sent' : n \in Sent \/ Answers(n)
           /\ \A n \in Range(held') : n.type \in {"2", "4", "G2"}
<1> DEFINE g == StaProtects(f)
           p == IF sta.txprot THEN sta.key ELSE None
<1>1. f \in Message /\ held \in Seq(Message) /\ Len(held) <= MaxHeld
      /\ \A m \in Range(held) : m.type \in {"2", "4", "G2"}
  BY DEF IInv, GroupInv, StaKeys, WellFormed
<1>2. g = [f EXCEPT !.prot = p] BY DEF StaProtects
<1> HIDE DEF p
<1>3. g.type = f.type /\ g.cnt = f.cnt /\ g.mic = f.mic BY <1>1, <1>2 DEF Message
<1>4. /\ \A m \in net' : m \in net \/ m = g
      /\ \A m \in Range(held') : m \in Range(held) \/ m = f
  BY <1>1, StaSendFacts
<1> HIDE DEF g
<1>5. Answers(g) BY <1>3 DEF Answers, InAssoc
<1> QED BY <1>1, <1>4, <1>5 DEF Sent

(* ieee80211_recv_4way_msg1.                                               *)
LEMMA RecvMsg1Group ==
    ASSUME IInv, GroupInv, NEW m \in net, RecvMsg1(m)
    PROVE  GroupInv'
<1>1. /\ m.type = "1" /\ sta.state # "INITIALIZE" /\ sta.snonce < MaxNonce
      /\ UNCHANGED <<gk, ap, gkUsed>>
      /\ sta' = [sta EXCEPT !.anonce = m.nonce, !.snonce = @ + 1, !.newptk = TRUE,
                            !.state = "PTKNEGOTIATING"]
  BY DEF RecvMsg1
<1>2. PICK failed \in BOOLEAN :
        StaSend(Frame("2", m.cnt, sta'.snonce, <<m.nonce, sta'.snonce>>, 0, 0), failed)
  BY DEF RecvMsg1
<1>3. m.nonce \in 1 .. MaxAssoc /\ m.cnt \in 0 .. MaxCnt /\ m.nonce <= ap.assoc
  BY <1>1, ApNow DEF IInv, Sent, WellFormed, Message, FrameOK
<1>4. sta \in StaType /\ sta.link = "run" BY <1>1 DEF IInv, StaInv
<1>5. sta' \in StaType BY RecvMsg1Inv DEF IInv, StaInv
<1>6. /\ sta'.link = "run" /\ sta'.state = "PTKNEGOTIATING" /\ sta'.snonce = sta.snonce + 1
      /\ sta'.assoc = sta.assoc /\ sta'.ok = sta.ok /\ sta'.replaycnt = sta.replaycnt
      /\ sta.snonce \in Nat /\ sta.replaycnt <= sta.replaycnt
  BY <1>1, <1>4, MaxCntIsCap DEF StaType
<1> DEFINE mic == <<m.nonce, sta'.snonce>>
           f == Frame("2", m.cnt, sta'.snonce, mic, 0, 0)
<1>7. /\ sta'.snonce \in 1 .. MaxNonce /\ mic \in Ptk /\ mic[1] = m.nonce
  BY <1>1, <1>3, <1>6, FourWayAssumption DEF Ptk
<1>8. StaSend(f, failed) BY <1>2
<1>9. mic[1] <= ap.assoc BY <1>3, <1>7
<1> HIDE DEF mic
<1>10. WellFormed(f) /\ f.type = "2" /\ f.mic = mic BY <1>3, <1>7, FrameFacts
<1>11. f.cnt = m.cnt BY DEF Frame
<1> HIDE DEF f
<1>12. Answers(f) BY <1>3, <1>7, <1>9, <1>10, <1>11, MaxCntIsCap DEF Answers
<1>13. /\ \A n \in Sent' : n \in Sent \/ Answers(n)
       /\ \A n \in Range(held') : n.type \in {"2", "4", "G2"}
  BY <1>8, <1>10, <1>12, StaFrames
<1> QED BY <1>1, <1>4, <1>5, <1>6, <1>13, StaGroup

(* A step of the station on message 3.                                     *)
LEMMA Msg3Group ==
    ASSUME IInv, GroupInv, NEW m \in net, IsMsg3(m), ap' = ap, sta' \in StaType,
           sta'.link = sta.link, sta'.assoc = sta.assoc, sta'.ok, sta'.replaycnt = m.cnt,
           sta'.ptk = m.mic,
           NEW failed, StaSend(Frame("4", m.cnt, 0, m.mic, 0, 0), failed),
           \/ UNCHANGED <<gk, gkUsed>>
           \/ \E refused : SetGroupKey(m, refused)
    PROVE  GroupInv'
<1>1. /\ m.type = "3" /\ WellFormed(m) /\ m.cnt \in 0 .. MaxCnt /\ m.mic \in Ptk
      /\ m.mic[1] = ap.assoc /\ sta \in StaType /\ sta.link = "run"
  BY Msg3Facts
<1>2. /\ ap.assoc \in Nat /\ m.cnt \in Int /\ sta.replaycnt \in Int /\ m \in Sent
  BY <1>1, ApNow, MaxCntIsCap DEF StaType, Sent
<1>3. sta.ok => m.cnt > sta.replaycnt BY <1>2 DEF IsMsg3, Replayed
<1> DEFINE f == Frame("4", m.cnt, 0, m.mic, 0, 0)
<1>4. WellFormed(f) /\ f.type = "4" /\ f.mic = m.mic
  BY <1>1, FrameFacts, FourWayAssumption
<1>5. f.cnt = m.cnt BY DEF Frame
<1>6. StaSend(f, failed) OBVIOUS
<1> HIDE DEF f
<1>7. Answers(f) BY <1>1, <1>2, <1>4, <1>5 DEF Answers
<1>8. /\ \A n \in Sent' : n \in Sent \/ Answers(n)
      /\ \A n \in Range(held') : n.type \in {"2", "4", "G2"}
  BY <1>4, <1>6, <1>7, StaFrames
<1>9. Live(ap, m) BY <1>1, <1>3, PtkFacts DEF Live, Carries, InAssoc
<1>10. UNCHANGED <<gk, gkUsed>> \/ \E n \in Sent : Takes(n)
  BY <1>1, <1>2, <1>9 DEF SetGroupKey, MustUpdate, Takes
<1>11. sta.ok => sta'.ok /\ sta.replaycnt <= sta'.replaycnt BY <1>2, <1>3
<1>12. sta'.state = "PTKDONE" => sta'.ok /\ sta'.ptk \in Ptk /\ sta'.ptk[1] = ap.assoc
  BY <1>1
<1>13. sta'.link = "run" BY <1>1
<1> QED BY <1>1, <1>8, <1>10, <1>11, <1>12, <1>13, StaGroup

(* The station after it installs the pairwise key.                         *)
LEMMA ConfirmedKeys ==
    ASSUME sta \in StaType, NEW m, m.mic = <<sta.anonce, sta.snonce>>
    PROVE  /\ Confirmed(m).link = sta.link /\ Confirmed(m).assoc = sta.assoc
           /\ Confirmed(m).ok = TRUE /\ Confirmed(m).replaycnt = m.cnt
           /\ Confirmed(m).ptk = m.mic
<1> DEFINE p == <<sta.anonce, sta.snonce>>
<1>1. Confirmed(m) = [sta EXCEPT !.ptk = p, !.replaycnt = m.cnt, !.ok = TRUE,
                                 !.state = "PTKDONE"]
  BY DEF Confirmed
<1>2. m.mic = p OBVIOUS
<1> HIDE DEF p
<1> QED BY <1>1, <1>2 DEF StaType

(* Message 3 when the answer cannot be sent.                               *)
LEMMA UnansweredGroup ==
    ASSUME IInv, GroupInv, NEW m \in net, RecvMsg3Unanswered(m)
    PROVE  GroupInv'
<1>1. /\ IsMsg3(m) /\ sta' = Confirmed(m) /\ UNCHANGED <<gk, ap, gkUsed>>
      /\ StaSend(Frame("4", m.cnt, 0, m.mic, 0, 0), TRUE)
  BY DEF RecvMsg3Unanswered
<1>2. sta \in StaType /\ m.mic = <<sta.anonce, sta.snonce>> BY <1>1, Msg3Facts
<1>3. sta' \in StaType BY UnansweredInv DEF IInv, StaInv
<1>4. /\ sta'.link = sta.link /\ sta'.assoc = sta.assoc /\ sta'.ok
      /\ sta'.replaycnt = m.cnt /\ sta'.ptk = m.mic
  BY <1>1, <1>2, ConfirmedKeys
<1> QED BY <1>1, <1>3, <1>4, Msg3Group

(* Message 3 when the driver refuses a key.                                *)
LEMMA RefusedGroup ==
    ASSUME IInv, GroupInv, NEW m \in net, RecvMsg3Refused(m)
    PROVE  GroupInv'
<1> DEFINE c == Confirmed(m)
<1>1. /\ IsMsg3(m) /\ sta' = [c EXCEPT !.key = m.mic] /\ UNCHANGED <<gk, ap, gkUsed>>
      /\ StaSend(Frame("4", m.cnt, 0, m.mic, 0, 0), FALSE)
  BY DEF RecvMsg3Refused
<1>2. /\ sta \in StaType /\ m.mic = <<sta.anonce, sta.snonce>> /\ m.cnt \in 0 .. MaxCnt
      /\ <<sta.anonce, sta.snonce>> \in Ptk
  BY <1>1, Msg3Facts
<1>3. sta' \in StaType BY RefusedInv DEF IInv, StaInv
<1>4. /\ c.link = sta.link /\ c.assoc = sta.assoc /\ c.ok /\ c.replaycnt = m.cnt
      /\ c.ptk = m.mic /\ c \in StaType
  BY <1>2, ConfirmedKeys, ConfirmedFacts
<1> HIDE DEF c
<1>5. /\ sta'.link = sta.link /\ sta'.assoc = sta.assoc /\ sta'.ok
      /\ sta'.replaycnt = m.cnt /\ sta'.ptk = m.mic
  BY <1>1, <1>4 DEF StaType
<1> QED BY <1>1, <1>3, <1>5, Msg3Group

(* ieee80211_recv_4way_msg3.                                               *)
LEMMA RecvMsg3Group ==
    ASSUME IInv, GroupInv, NEW m \in net, RecvMsg3(m)
    PROVE  GroupInv'
<1> DEFINE c == Confirmed(m)
           k == [c EXCEPT !.key = m.mic, !.newptk = FALSE, !.rxprot = TRUE, !.txprot = FALSE]
           s == IF sta.newptk THEN k ELSE c
           t == [s EXCEPT !.rxprot = TRUE, !.txprot = TRUE, !.port = TRUE]
           Kept(u) == /\ u.link = sta.link /\ u.assoc = sta.assoc /\ u.ok
                      /\ u.replaycnt = m.cnt /\ u.ptk = m.mic
<1>1. PICK refused \in BOOLEAN :
        /\ IsMsg3(m)
        /\ StaSend(Frame("4", m.cnt, 0, m.mic, 0, 0), FALSE)
        /\ SetGroupKey(m, refused)
        /\ sta' = IF refused THEN s ELSE t
        /\ UNCHANGED <<ap, apUsed>>
  BY DEF RecvMsg3
<1>2. /\ sta \in StaType /\ m.mic = <<sta.anonce, sta.snonce>> /\ m.cnt \in 0 .. MaxCnt
      /\ <<sta.anonce, sta.snonce>> \in Ptk
  BY <1>1, Msg3Facts
<1>3. sta' \in StaType BY RecvMsg3Inv DEF IInv, StaInv
<1>4. Kept(c) /\ c \in StaType BY <1>2, ConfirmedKeys, ConfirmedFacts
<1> HIDE DEF c
<1>5. Kept(k) BY <1>4 DEF StaType
<1>6. k \in StaType
  <2> DEFINE u == [c EXCEPT !.key = m.mic, !.newptk = FALSE]
  <2>1. u \in StaType BY <1>2, <1>4 DEF StaType
  <2>2. k = [u EXCEPT !.rxprot = TRUE, !.txprot = FALSE] OBVIOUS
  <2> HIDE DEF u, k
  <2> QED BY <2>1, <2>2 DEF StaType
<1> HIDE DEF k
<1>7. Kept(s) /\ s \in StaType BY <1>4, <1>5, <1>6
<1> HIDE DEF s
<1>8. Kept(t) BY <1>7 DEF StaType
<1>9. Kept(sta') BY <1>1, <1>7, <1>8
<1> QED BY <1>1, <1>3, <1>9, Msg3Group

(* ieee80211_recv_rsn_group_msg1.                                          *)
LEMMA RecvGroupMsg1Group ==
    ASSUME IInv, GroupInv, NEW m \in net, RecvGroupMsg1(m)
    PROVE  GroupInv'
<1>1. PICK refused \in BOOLEAN :
        /\ m.type = "G1" /\ sta.state = "PTKDONE" /\ m.cnt > sta.replaycnt
        /\ m.mic = sta.ptk /\ SetGroupKey(m, refused)
        /\ IF refused
           THEN UNCHANGED <<sta, net, held>>
           ELSE /\ sta' = [sta EXCEPT !.port = TRUE, !.replaycnt = m.cnt]
                /\ \E failed \in BOOLEAN :
                     StaSend(Frame("G2", m.cnt, 0, sta.ptk, 0, 0), failed)
        /\ UNCHANGED ap
  BY DEF RecvGroupMsg1
<1>2. /\ WellFormed(m) /\ m.cnt \in 0 .. MaxCnt /\ sta \in StaType /\ m \in Sent
      /\ sta.link = "run"
  BY <1>1 DEF IInv, Sent, StaInv, WellFormed, Message
<1>3. sta.ok /\ sta.ptk \in Ptk /\ sta.ptk[1] = ap.assoc /\ ap.assoc \in Nat
  BY <1>1, ApNow DEF GroupInv, StaKeys
<1>4. m.cnt \in Int /\ sta.replaycnt \in Int BY <1>2, MaxCntIsCap DEF StaType
<1>5. Live(ap, m) BY <1>1, <1>2, <1>3, PtkFacts DEF Live, Carries, InAssoc
<1>6. sta' \in StaType BY RecvGroupMsg1Inv DEF IInv, StaInv
<1>7. /\ sta'.link = sta.link /\ sta'.assoc = sta.assoc /\ sta'.state = sta.state
      /\ sta'.ok = sta.ok /\ sta'.ptk = sta.ptk
      /\ sta'.replaycnt = m.cnt \/ (refused /\ sta'.replaycnt = sta.replaycnt)
      /\ sta.replaycnt <= sta'.replaycnt
  <2>1. CASE refused BY <1>1, <1>4, <2>1
  <2>2. CASE ~refused
    <3>1. sta' = [sta EXCEPT !.port = TRUE, !.replaycnt = m.cnt] BY <1>1, <2>2
    <3>2. sta'.replaycnt = m.cnt BY <1>2, <3>1 DEF StaType
    <3>3. sta.replaycnt <= m.cnt BY <1>1, <1>4
    <3> QED BY <1>2, <3>1, <3>2, <3>3 DEF StaType
  <2> QED BY <2>1, <2>2
<1>8. UNCHANGED <<gk, gkUsed>> \/ \E n \in Sent : Takes(n)
  BY <1>1, <1>2, <1>3, <1>5, <1>7 DEF SetGroupKey, MustUpdate, Takes
<1>9. /\ \A n \in Sent' : n \in Sent \/ Answers(n)
      /\ \A n \in Range(held') : n.type \in {"2", "4", "G2"}
  <2>1. CASE refused BY <1>1, <2>1 DEF Sent, GroupInv, StaKeys
  <2>2. CASE ~refused
    <3> DEFINE f == Frame("G2", m.cnt, 0, sta.ptk, 0, 0)
    <3>1. PICK failed \in BOOLEAN : StaSend(f, failed) BY <1>1, <2>2
    <3>2. WellFormed(f) /\ f.type = "G2" /\ f.mic = sta.ptk
      BY <1>2, <1>3, FrameFacts, FourWayAssumption
    <3>3. f.cnt = m.cnt BY DEF Frame
    <3> HIDE DEF f
    <3>4. sta'.replaycnt = m.cnt BY <1>7, <2>2
    <3>5. Answers(f) BY <1>3, <1>4, <1>7, <3>2, <3>3, <3>4 DEF Answers
    <3> QED BY <3>1, <3>2, <3>5, StaFrames
  <2> QED BY <2>1, <2>2
<1> QED BY <1>1, <1>2, <1>3, <1>6, <1>7, <1>8, <1>9, StaGroup

(* A step that ends, or is outside, an association in which the station    *)
(* could take a group key.                                                 *)
LEMMA StaAway ==
    ASSUME IInv, GroupInv, UNCHANGED <<ap, net, held>>, gkUsed' = <<>>,
           sta'.state # "PTKDONE",
           sta'.assoc = ap.assoc \/ sta'.assoc = sta.assoc,
           \A m \in Sent : m.type \in {"3", "G1", "4", "G2"} /\ InAssoc(ap, m) =>
             sta'.link # "run"
    PROVE  GroupInv'
<1>1. /\ ApKeys(ap, Sent) /\ KeysInv(ap)
      /\ \A n \in Sent : FrameOK(ap, n) /\ AnswerOK(n)
      /\ SameKid(Sent)
  BY ApNow DEF ApKeys
<1>2. Sent' = Sent BY DEF Sent
<1>3. Range(gkUsed') = {} /\ IsInjective(gkUsed') BY DEF Range, IsInjective
<1>4. \A m \in Sent' : ~Live(ap, m)' BY <1>2 DEF Live, Carries, InAssoc
<1>5. LiveInv(ap, Sent)' BY <1>4 DEF LiveInv
<1>6. BetweenInv(ap, Sent)' BY <1>4 DEF BetweenInv, UpToDate, OnlyInUse
<1>7. KeysInv(ap)' BY <1>1, <1>3 DEF KeysInv
<1>8. \A m \in Sent' : FrameOK(ap, m)' BY <1>1, <1>2 DEF FrameOK, InAssoc
<1>9. ApKeys(ap, Sent)' BY <1>1, <1>2, <1>5, <1>7, <1>8 DEF ApKeys, SameKid
<1>10. \A m \in Sent' : AnswerOK(m)' BY <1>1, <1>2 DEF AnswerOK, InAssoc
<1>11. StaKeys' BY <1>3 DEF GroupInv, StaKeys
<1> QED BY <1>6, <1>9, <1>10, <1>11 DEF GroupInv

(* The station leaves RUN.                                                 *)
LEMMA LeaveGroup ==
    ASSUME IInv, GroupInv, Leave
    PROVE  GroupInv'
<1>1. /\ sta' = [sta EXCEPT !.link = "auth", !.state = "INITIALIZE"] /\ sta \in StaType
      /\ UNCHANGED <<ap, net, held>> /\ gkUsed' = <<>>
  BY DEF Leave, IInv, StaInv
<1>2. sta'.link = "auth" /\ sta'.state = "INITIALIZE" /\ sta'.assoc = sta.assoc
  BY <1>1 DEF StaType
<1> QED BY <1>1, <1>2, StaAway

(* The station starts a new association.                                   *)
LEMMA AuthOpenGroup ==
    ASSUME IInv, GroupInv, AuthOpen
    PROVE  GroupInv'
<1> DEFINE s == [sta EXCEPT !.link = "assoc", !.rxprot = FALSE, !.txprot = FALSE]
<1>1. /\ sta' = [s EXCEPT !.port = FALSE, !.ok = FALSE, !.key = None]
      /\ sta \in StaType /\ sta.link = "auth" /\ sta.state = "INITIALIZE"
      /\ UNCHANGED <<ap, net, held, gkUsed>>
  BY DEF AuthOpen, IInv, StaInv
<1>2. /\ s.link = "assoc" /\ s.state = sta.state /\ s.assoc = sta.assoc /\ s \in StaType
  BY <1>1 DEF StaType
<1> HIDE DEF s
<1>3. sta'.link = "assoc" /\ sta'.state = "INITIALIZE" /\ sta'.assoc = sta.assoc
  BY <1>1, <1>2 DEF StaType
<1>4. gkUsed' = <<>> BY <1>1 DEF GroupInv, StaKeys
<1> QED BY <1>1, <1>3, <1>4, StaAway

(* The access point has answered a new association request: no frame of    *)
(* this association has a MIC yet.                                         *)
LEMMA AssocRespGroup ==
    ASSUME IInv, GroupInv, AssocResp
    PROVE  GroupInv'
<1>1. /\ sta' = [sta EXCEPT !.link = "run", !.state = "PTKSTART", !.assoc = ap.assoc]
      /\ sta \in StaType /\ sta.link = "assoc" /\ ap.here /\ sta.assoc < ap.assoc
      /\ UNCHANGED <<ap, net, held, gkUsed>>
  BY DEF AssocResp, IInv, StaInv
<1>2. sta'.state = "PTKSTART" /\ sta'.assoc = ap.assoc BY <1>1 DEF StaType
<1>3. gkUsed' = <<>> BY <1>1 DEF GroupInv, StaKeys
<1>4. /\ ap \in ApWide /\ ap.assoc \in Nat /\ KeysInv(ap)
      /\ \A n \in Sent : FrameOK(ap, n) /\ AnswerOK(n)
  BY ApNow
<1>5. sta.assoc \in Nat /\ sta.assoc # ap.assoc BY <1>1, <1>4 DEF StaType
<1>6. Keyless(ap) BY <1>1, <1>4, <1>5 DEF KeysInv, Keyless, ApWide, RState
<1>7. \A m \in Sent : m.type \in {"3", "G1", "4", "G2"} => ~InAssoc(ap, m)
  BY <1>4, <1>5, <1>6 DEF FrameOK, AnswerOK, Carries
<1> QED BY <1>1, <1>2, <1>3, <1>7, StaAway

(* The output queue of the station goes on the air.                        *)
LEMMA DrainGroup ==
    ASSUME IInv, GroupInv, Drain
    PROVE  GroupInv'
<1>1. /\ UNCHANGED <<sta, gk, ap, gkUsed>> /\ sta.link = "run" /\ sta \in StaType
      /\ net' = net \cup {StaProtects(m) : m \in Range(held)} /\ held' = <<>>
  BY DEF Drain, IInv, StaInv
<1>2. Range(held') = {} BY <1>1 DEF Range
<1>3. \A m \in Range(held) : Answers(StaProtects(m))
  <2> SUFFICES ASSUME NEW m \in Range(held) PROVE Answers(StaProtects(m)) OBVIOUS
  <2>1. /\ m \in Message /\ m.type \in {"2", "4", "G2"} /\ m \in Sent
    BY DEF IInv, Sent, WellFormed, GroupInv, StaKeys
  <2>2. FrameOK(ap, m) /\ AnswerOK(m) BY <2>1, ApNow
  <2> DEFINE p == IF sta.txprot THEN sta.key ELSE None
             g == StaProtects(m)
  <2>3. g = [m EXCEPT !.prot = p] BY DEF StaProtects
  <2> HIDE DEF p, g
  <2>4. g.type = m.type /\ g.cnt = m.cnt /\ g.mic = m.mic BY <2>1, <2>3 DEF Message
  <2>5. Answers(g)
    BY <1>1, <2>1, <2>2, <2>4 DEF Answers, FrameOK, Typed, AnswerOK, InAssoc
  <2> QED BY <2>5 DEF g
<1>4. \A n \in Sent' : n \in Sent \/ Answers(n) BY <1>1, <1>2, <1>3 DEF Sent
<1>5. sta.replaycnt <= sta.replaycnt BY <1>1, MaxCntIsCap DEF StaType
<1>6. sta.state = "PTKDONE" => sta.ok /\ sta.ptk \in Ptk /\ sta.ptk[1] = ap.assoc
  BY DEF GroupInv, StaKeys
<1> QED BY <1>1, <1>2, <1>4, <1>5, <1>6, StaGroup

-----------------------------------------------------------------------------
(* Every step.                                                             *)

(* Every step of either side keeps the invariant.                          *)
LEMMA GroupStep ==
    ASSUME IInv, GroupInv, [Next]_vars
    PROVE  GroupInv'
<1>1. CASE StaReceives
  <2>1. PICK m \in net : \/ RecvMsg1(m) \/ RecvMsg3(m) \/ RecvMsg3Unanswered(m)
                         \/ RecvMsg3Refused(m) \/ RecvGroupMsg1(m)
    BY <1>1 DEF StaReceives
  <2> QED
    BY <2>1, RecvMsg1Group, RecvMsg3Group, UnansweredGroup, RefusedGroup,
       RecvGroupMsg1Group
<1>2. CASE ApReceives
  <2>1. PICK m \in net : RecvMsg2(m) \/ RecvMsg4(m) \/ RecvGroupMsg2(m)
    BY <1>2 DEF ApReceives
  <2> QED BY <2>1, RecvMsg2Group, RecvMsg4Group, RecvGroupMsg2Group
<1>3. CASE Leave BY <1>3, LeaveGroup
<1>4. CASE AuthOpen BY <1>4, AuthOpenGroup
<1>5. CASE AssocResp BY <1>5, AssocRespGroup
<1>6. CASE Drain BY <1>6, DrainGroup
<1>7. CASE Join BY <1>7, JoinGroup
<1>8. CASE ApLeave BY <1>8, ApLeaveGroup
<1>9. CASE EapolTimeout BY <1>9, EapolTimeoutGroup
<1>10. CASE GtkRekey BY <1>10, GtkRekeyGroup
<1>11. CASE UNCHANGED vars
  <2>1. UNCHANGED <<sta, gk, ap, net, held, gkUsed>> BY <1>11 DEF vars
  <2>2. Sent' = Sent BY <2>1 DEF Sent
  <2>3. \A m : Live(ap, m)' = Live(ap, m) /\ InAssoc(ap, m)' = InAssoc(ap, m)
    BY <2>1 DEF Live, InAssoc
  <2>4. KeysInv(ap)' /\ StaKeys' BY <2>1 DEF GroupInv, ApKeys, KeysInv, StaKeys
  <2>5. \A m \in Sent' : FrameOK(ap, m)' /\ AnswerOK(m)'
    BY <2>1, <2>2, ApNow DEF FrameOK, AnswerOK, InAssoc
  <2>6. LiveInv(ap, Sent)' BY <2>1, <2>2, <2>3 DEF GroupInv, ApKeys, LiveInv
  <2>7. BetweenInv(ap, Sent)'
    BY <2>1, <2>2, <2>3, ApNow DEF BetweenInv, UpToDate, OnlyInUse
  <2>8. SameKid(Sent)' BY <2>2 DEF GroupInv, ApKeys, SameKid
  <2> QED BY <2>4, <2>5, <2>6, <2>7, <2>8 DEF GroupInv, ApKeys
<1> QED
  BY <1>1, <1>2, <1>3, <1>4, <1>5, <1>6, <1>7, <1>8, <1>9, <1>10, <1>11 DEF Next

(* The invariant holds at the start.                                       *)
LEMMA GroupInit == Init => GroupInv
<1> SUFFICES ASSUME Init PROVE GroupInv
  OBVIOUS
<1>1. net = {} /\ held = <<>> /\ gkUsed = <<>> BY DEF Init
<1>2. Sent = {} /\ Range(held) = {} /\ Range(gkUsed) = {} /\ IsInjective(gkUsed)
  BY <1>1 DEF Sent, Range, IsInjective
<1> DEFINE g == [k \in Kid |-> IF k = 1 THEN 1 ELSE None]
<1>3. g[1] = 1 /\ g[2] = None /\ None # 1 BY FourWayAssumption DEF Kid
<1>4. /\ ~ap.here /\ ap.rstate = "INITIALIZE" /\ ap.ptk = None /\ ap.gtk = g
      /\ ap.gtks = 1 /\ sta.state = "INITIALIZE"
  BY DEF Init
<1> HIDE DEF g
<1>5. KeysInv(ap) BY <1>2, <1>3, <1>4 DEF KeysInv, Kid
<1>6. ApKeys(ap, Sent) BY <1>2, <1>5 DEF ApKeys, SameKid, LiveInv
<1>7. BetweenInv(ap, Sent) BY <1>4 DEF BetweenInv
<1>8. StaKeys BY <1>1, <1>2, <1>4 DEF StaKeys
<1> QED BY <1>2, <1>6, <1>7, <1>8 DEF GroupInv

-----------------------------------------------------------------------------
(* The station gives no group key to the driver twice in one association   *)
(* (ieee80211_must_update_group_key), for any number of group keys: also   *)
(* when a key ID is used for the next key but one while frames with the    *)
(* key before it are still on their way.                                   *)
THEOREM GroupKeysCorrect == Spec => []GroupKeysFresh
<1>1. Init => IInv /\ GroupInv BY InitInv, GroupInit
<1>2. IInv /\ GroupInv /\ [Next]_vars => IInv' /\ GroupInv' BY NextStep, GroupStep
<1>3. IInv /\ GroupInv => GroupKeysFresh BY DEF GroupInv, StaKeys, GroupKeysFresh
<1> QED BY <1>1, <1>2, <1>3, PTL DEF Spec

-----------------------------------------------------------------------------
(* The group key in use, while the access point has mbufs.                 *)

(* The key ID that the next group message 1 has.                           *)
NextKid(a) == IF a.rekey THEN OtherKid(a) ELSE a.txkey

NoGroupMsg1(a, N) == \A m \in N : m.type = "G1" => ~InAssoc(a, m)

(* A group key handshake is under way only with the timer armed.           *)
RekeyHasTimer(a) == a.gstate = "REKEYNEGOTIATING" => a.here /\ a.timer

(* The key of a message 3 that the station may still take is in use; that  *)
(* of the last group message 1 is the next one.                            *)
FramesHaveKid(a, N) ==
    /\ \A m \in N : m.type = "3" /\ Live(a, m) => m.kid = a.txkey
    /\ a.gstate = "REKEYNEGOTIATING" =>
         \A m \in N : m.type = "G1" /\ InAssoc(a, m) /\ m.cnt = a.cnt => m.kid = NextKid(a)

(* Once a group message 1 has crossed the 4-way handshake, no message 4    *)
(* answers the last frame, and the message 3 of a timeout is not the last. *)
CrossedEnds(a, N) ==
    a.rstate = "PTKINITNEGOTIATING" /\ ~NoGroupMsg1(a, N) =>
      /\ a.gstate = "REKEYNEGOTIATING" \/ ~a.timer
      /\ \A m \in N : m.type \in {"3", "4"} /\ InAssoc(a, m) => m.cnt < a.cnt

(* An open port goes with protection, which the station without its key    *)
(* does not pass.                                                          *)
PortProtects(a, N) == a.port => a.prot /\ \A m \in N : Live(a, m) => m.prot # None

(* An answer is to a frame that was sent.                                  *)
AnswersSent(a, N) ==
    /\ \A m \in N : m.type \in {"4", "G2"} /\ InAssoc(a, m) => m.cnt <= a.cnt
    /\ (\E m \in N : m.type = "G2" /\ InAssoc(a, m)) => ~NoGroupMsg1(a, N)

HasKey(k) == gk[k] = ap.gtk[k]

(* The station has taken message 3 of this association.                    *)
Joined == Linked /\ (sta.port \/ sta.rxprot)

(* The station has the group key in use until a group key handshake, and   *)
(* again when its port is open at the access point; and it has the next    *)
(* one when it has answered the last group message 1.                      *)
StaHasKey ==
    /\ sta.link = "assoc" => ~sta.port /\ ~sta.rxprot
    /\ Joined => ~Keyless(ap)
    /\ Joined /\ NoGroupMsg1(ap, Sent) => HasKey(ap.txkey)
    /\ Joined /\ ap.port => HasKey(ap.txkey)
    /\ Linked /\ ap.gstate = "REKEYNEGOTIATING" =>
         \A m \in Sent : m.type = "G2" /\ InAssoc(ap, m) /\ m.cnt = ap.cnt =>
           HasKey(NextKid(ap))

RekeyInv ==
    /\ RekeyHasTimer(ap) /\ AnswersSent(ap, Sent)
    /\ ap.here => /\ FramesHaveKid(ap, Sent) /\ CrossedEnds(ap, Sent)
                  /\ PortProtects(ap, Sent)
    /\ StaHasKey

(* At the start there is no association.                                   *)
LEMMA RekeyInit == Init => RekeyInv
<1> SUFFICES ASSUME Init PROVE RekeyInv
  OBVIOUS
<1>1. net = {} /\ held = <<>> BY DEF Init
<1>2. Sent = {} BY <1>1 DEF Sent, Range
<1>3. ~ap.here /\ ap.gstate = "IDLE" /\ sta.link = "auth" BY DEF Init
<1> QED BY <1>2, <1>3 DEF RekeyInv, RekeyHasTimer, AnswersSent, StaHasKey, Linked, Joined

-----------------------------------------------------------------------------
(* The handlers of the access point.                                       *)

(* What a handler that sends, or does nothing, ends with.                  *)
Goes(z) ==
    /\ z.ap \in ApWide /\ ap.here /\ z.ap.here /\ z.ap.assoc = ap.assoc
    /\ z.ap.txkey = ap.txkey /\ z.ap.gtk[ap.txkey] = ap.gtk[ap.txkey]
    /\ z.ap.port = ap.port /\ z.ap.prot = ap.prot
    /\ Keyless(z.ap) => Keyless(ap)
    /\ ap.cnt <= z.ap.cnt
    /\ z.ap.cnt = ap.cnt => /\ z.ap.gstate = ap.gstate /\ z.ap.rekey = ap.rekey
                            /\ z.ap.gtk = ap.gtk /\ z.out = {}
    /\ z.ap.gstate = "REKEYNEGOTIATING" => z.ap.timer
    /\ z.ap.rstate = "PTKINITNEGOTIATING" =>
         \/ /\ z.ap.gstate = "REKEYNEGOTIATING" /\ ap.cnt < z.ap.cnt
            /\ \A m \in z.out : m.type = "3" => m.cnt < z.ap.cnt
         \/ NoGroupMsg1(ap, Sent) /\ \A m \in z.out : m.type # "G1"
    /\ \A m \in z.out :
         /\ m.type \in {"1", "3", "G1"}
         /\ m.type = "3" => m.kid = ap.txkey
         /\ m.type = "G1" => m.kid = NextKid(z.ap)
         /\ ap.prot => m.prot = ap.key

(* ... or the station is sent away.                                        *)
Gone(z) ==
    /\ ~z.ap.here /\ z.ap.gstate = "IDLE" /\ z.ap.assoc = ap.assoc
    /\ z.ap.cnt \in Int /\ ap.cnt <= z.ap.cnt
    /\ \A m \in z.out : m.type \in {"1", "3", "G1"}

(* The record of a handler becomes the state.                              *)
Result(z) == /\ ap' = z.ap /\ net' = net \cup z.out
             /\ UNCHANGED <<sta, gk, held, gkUsed>>

LEMMA GoneKeeps ==
    ASSUME IInv, GroupInv, RekeyInv, NEW z, Gone(z), Result(z)
    PROVE  RekeyInv'
<1>1. /\ ap.cnt \in Int /\ \A m \in Sent : FrameOK(ap, m) /\ AnswerOK(m)
  BY ApNow
<1>2. Sent' = Sent \cup z.out /\ UNCHANGED sta BY DEF Result, Sent
<1>3. ~ap'.here /\ ap'.gstate = "IDLE" /\ ap'.assoc = ap.assoc /\ ap'.cnt \in Int
      /\ ap.cnt <= ap'.cnt
  BY DEF Result, Gone
<1>4. \A m : InAssoc(ap, m)' = InAssoc(ap, m) BY <1>3 DEF InAssoc
<1>5. AnswersSent(ap, Sent)'
  <2>1. \A m \in Sent' : m.type \in {"4", "G2"} => m \in Sent BY <1>2 DEF Gone
  <2>2. \A m \in Sent : m.type \in {"4", "G2"} /\ InAssoc(ap, m) => m.cnt <= ap'.cnt
    <3> SUFFICES ASSUME NEW m \in Sent, m.type \in {"4", "G2"}, InAssoc(ap, m)
                 PROVE  m.cnt <= ap'.cnt
      OBVIOUS
    <3>1. m.cnt \in Int /\ m.cnt <= ap.cnt
      BY <1>1 DEF RekeyInv, AnswersSent, FrameOK, Typed
    <3> QED BY <1>1, <1>3, <3>1
  <2>3. Sent \subseteq Sent' BY <1>2
  <2>4. ~NoGroupMsg1(ap, Sent) => ~NoGroupMsg1(ap, Sent)'
    BY <1>4, <2>3 DEF NoGroupMsg1
  <2> QED BY <1>4, <2>1, <2>2, <2>4 DEF AnswersSent, RekeyInv
<1>6. StaHasKey' BY <1>2, <1>3 DEF StaHasKey, RekeyInv, Linked, Joined
<1>7. RekeyHasTimer(ap)' BY <1>3 DEF RekeyHasTimer
<1> QED BY <1>3, <1>5, <1>6, <1>7 DEF RekeyInv

LEMMA GoesKeeps ==
    ASSUME IInv, GroupInv, RekeyInv, NEW z, Goes(z), Result(z)
    PROVE  RekeyInv'
<1>1. /\ ap \in ApWide /\ ApCore(ap) /\ ap.cnt \in Int
      /\ \A m \in Sent : FrameOK(ap, m) /\ AnswerOK(m)
  BY ApNow
<1>2. Sent' = Sent \cup z.out /\ UNCHANGED <<sta, gk>> BY DEF Result, Sent
<1>3. /\ ap' = z.ap /\ ap.here /\ ap'.here /\ ap'.assoc = ap.assoc
      /\ ap'.txkey = ap.txkey /\ ap'.gtk[ap.txkey] = ap.gtk[ap.txkey]
      /\ ap'.port = ap.port /\ ap'.prot = ap.prot /\ ap'.cnt \in Int /\ ap.cnt <= ap'.cnt
      /\ Keyless(ap') => Keyless(ap)
      /\ ap'.cnt = ap.cnt => /\ ap'.gstate = ap.gstate /\ ap'.rekey = ap.rekey
                             /\ ap'.gtk = ap.gtk /\ z.out = {}
  BY DEF Result, Goes, ApWide
<1>4. \A m : InAssoc(ap, m)' = InAssoc(ap, m) /\ Live(ap, m)' = Live(ap, m)
  BY <1>2, <1>3 DEF InAssoc, Live
<1>5. /\ RekeyHasTimer(ap) /\ AnswersSent(ap, Sent) /\ FramesHaveKid(ap, Sent)
      /\ CrossedEnds(ap, Sent) /\ PortProtects(ap, Sent) /\ StaHasKey
  BY <1>3 DEF RekeyInv
<1>6. \A m \in Sent : InAssoc(ap, m) /\ (Carries(m) \/ m.type \in {"4", "G2"}) =>
        m.cnt \in Int /\ m.cnt <= ap.cnt
  BY <1>1, <1>5 DEF FrameOK, Typed, AnswersSent
<1>7. RekeyHasTimer(ap)' BY <1>3 DEF RekeyHasTimer, Goes
<1>8. NoGroupMsg1(ap, Sent)' => NoGroupMsg1(ap, Sent) BY <1>2, <1>4 DEF NoGroupMsg1
<1>9. AnswersSent(ap, Sent)'
  <2>1. \A m \in Sent' : m.type \in {"4", "G2"} => m \in Sent BY <1>2 DEF Goes
  <2>2. \A m \in Sent : m.type \in {"4", "G2"} /\ InAssoc(ap, m) => m.cnt <= ap'.cnt
    BY <1>1, <1>3, <1>6
  <2> QED BY <1>4, <1>5, <1>8, <2>1, <2>2 DEF AnswersSent
<1>10. FramesHaveKid(ap, Sent)'
  <2>1. \A m \in Sent' : m.type = "3" /\ Live(ap, m)' => m.kid = ap'.txkey
    BY <1>2, <1>3, <1>4, <1>5 DEF FramesHaveKid, Goes
  <2>2. ASSUME ap'.gstate = "REKEYNEGOTIATING", NEW m \in Sent', m.type = "G1",
               InAssoc(ap, m)', m.cnt = ap'.cnt
        PROVE  m.kid = NextKid(ap')
    <3>1. CASE m \in z.out BY <1>3, <2>2, <3>1 DEF Goes
    <3>2. CASE m \in Sent
      <4>1. ap'.cnt = ap.cnt BY <1>1, <1>3, <1>4, <1>6, <2>2, <3>2 DEF Carries
      <4>2. NextKid(ap') = NextKid(ap) BY <1>3, <4>1 DEF NextKid, OtherKid
      <4> QED BY <1>3, <1>4, <1>5, <2>2, <3>2, <4>1, <4>2 DEF FramesHaveKid
    <3> QED BY <1>2, <3>1, <3>2
  <2> QED BY <2>1, <2>2 DEF FramesHaveKid, NextKid
<1>11. CrossedEnds(ap, Sent)'
  <2> SUFFICES ASSUME ap'.rstate = "PTKINITNEGOTIATING", ~NoGroupMsg1(ap, Sent)'
               PROVE  /\ ap'.gstate = "REKEYNEGOTIATING"
                      /\ \A m \in Sent' : m.type \in {"3", "4"} /\ InAssoc(ap, m)' =>
                           m.cnt < ap'.cnt
    BY DEF CrossedEnds
  <2>1. ~(NoGroupMsg1(ap, Sent) /\ \A m \in z.out : m.type # "G1")
    BY <1>2, <1>4 DEF NoGroupMsg1
  <2>2. /\ ap'.gstate = "REKEYNEGOTIATING" /\ ap.cnt < ap'.cnt
        /\ \A m \in z.out : m.type = "3" => m.cnt < ap'.cnt
    BY <1>3, <2>1 DEF Goes
  <2>3. \A m \in Sent : m.type \in {"3", "4"} /\ InAssoc(ap, m) => m.cnt < ap'.cnt
    BY <1>1, <1>3, <1>6, <2>2 DEF Carries
  <2>4. \A m \in z.out : m.type # "4" BY DEF Goes
  <2> QED BY <1>2, <1>4, <2>2, <2>3, <2>4
<1>12. PortProtects(ap, Sent)'
  <2> SUFFICES ASSUME ap'.port
               PROVE  ap'.prot /\ \A m \in Sent' : Live(ap, m)' => m.prot # None
    BY DEF PortProtects
  <2>1. ap.port /\ ap.prot BY <1>3, <1>5 DEF PortProtects
  <2>2. ap.key # None BY <1>1, <2>1, PtkFacts DEF ApCore
  <2>3. \A m \in z.out : m.prot = ap.key BY <2>1 DEF Goes
  <2> QED BY <1>2, <1>3, <1>4, <1>5, <2>1, <2>2, <2>3 DEF PortProtects
<1>13. StaHasKey'
  <2>1. Linked' = Linked /\ Joined' = Joined BY <1>2, <1>3 DEF Linked, Joined
  <2>2. HasKey(ap.txkey) => HasKey(ap.txkey)' BY <1>2, <1>3 DEF HasKey
  <2>4. Joined => ~Keyless(ap)' BY <1>3, <1>5 DEF StaHasKey, Keyless
  <2>3. ASSUME Linked, ap'.gstate = "REKEYNEGOTIATING", NEW m \in Sent', m.type = "G2",
               InAssoc(ap, m)', m.cnt = ap'.cnt
        PROVE  HasKey(NextKid(ap))'
    <3>1. m \in Sent BY <1>2, <2>3 DEF Goes
    <3>2. ap'.cnt = ap.cnt BY <1>1, <1>3, <1>4, <1>6, <2>3, <3>1
    <3>3. NextKid(ap') = NextKid(ap) BY <1>3, <3>2 DEF NextKid, OtherKid
    <3>4. HasKey(NextKid(ap)) BY <1>3, <1>4, <1>5, <2>3, <3>1, <3>2 DEF StaHasKey
    <3> QED BY <1>2, <1>3, <3>2, <3>3, <3>4 DEF HasKey, NextKid
  <2> QED BY <1>2, <1>3, <1>5, <1>8, <2>1, <2>2, <2>3, <2>4 DEF StaHasKey
<1> QED BY <1>3, <1>7, <1>9, <1>10, <1>11, <1>12, <1>13 DEF RekeyInv

(* A function that sends: one frame more and the timer armed, or the       *)
(* station is sent away.                                                   *)
FrameSent(r, x, a, type, kid) ==
    /\ r.ap \in ApWide /\ Alike(r.ap, a) /\ r.ap.prot = a.prot
    /\ r.ap.cnt = a.cnt + 1 /\ r.ap.timer
    /\ \E f : /\ r.out = x.out \cup {f}
              /\ f.type = type /\ f.kid = kid /\ f.cnt = a.cnt + 1
              /\ f.prot = IF a.prot THEN a.key ELSE None

SentAway(r, x, a) ==
    /\ r.ap \in ApWide /\ ~r.ap.here /\ r.ap.gstate = "IDLE"
    /\ r.ap.assoc = a.assoc /\ r.ap.cnt = a.cnt /\ r.out = x.out

LEMMA LeaveIdle ==
    ASSUME NEW a \in ApWide
    PROVE  NodeLeave(a).gstate = "IDLE"
<1> DEFINE c == [a EXCEPT !.rekey = FALSE]
           b == IF a.rekey THEN SetKeysDone(c) ELSE a
           n == [b EXCEPT !.here = FALSE, !.rstate = "INITIALIZE", !.gstate = "IDLE",
                          !.timer = FALSE, !.retries = 0, !.prot = FALSE, !.port = FALSE,
                          !.key = None]
<1>1. c \in ApWide BY DEF ApWide
<1> HIDE DEF c
<1>2. b \in ApWide BY <1>1, SetKeysDoneFacts
<1>3. NodeLeave(a) = n BY DEF NodeLeave, c
<1> HIDE DEF b
<1> QED BY <1>2, <1>3 DEF ApWide

LEMMA SendKeySends ==
    ASSUME NEW x, NEW a \in ApWide, NEW noMbuf, ~noMbuf,
           NEW type, NEW nonce, NEW mic, NEW kid, x = [ap |-> x.ap, out |-> x.out]
    PROVE  /\ SendKey(x, a, noMbuf, type, nonce, mic, kid)
                = [ap |-> SendKey(x, a, noMbuf, type, nonce, mic, kid).ap,
                   out |-> SendKey(x, a, noMbuf, type, nonce, mic, kid).out]
           /\ \/ FrameSent(SendKey(x, a, noMbuf, type, nonce, mic, kid), x, a, type, kid)
              \/ SentAway(SendKey(x, a, noMbuf, type, nonce, mic, kid), x, a)
           /\ a.retries + 1 <= MaxRetries =>
                FrameSent(SendKey(x, a, noMbuf, type, nonce, mic, kid), x, a, type, kid)
<1> DEFINE r == SendKey(x, a, noMbuf, type, nonce, mic, kid)
           t == Tried(a)
           s == Transmitted(a)
           n == NodeLeave(t)
           gtk == IF kid = 0 THEN 0 ELSE a.gtk[kid]
           f == ApFrame(s, type, nonce, mic, kid, gtk)
<1>1. r = IF t.retries > MaxRetries THEN [x EXCEPT !.ap = n]
          ELSE IF noMbuf THEN [x EXCEPT !.ap = t]
          ELSE [ap |-> s, out |-> x.out \cup {f}]
  BY DEF SendKey, Tried, Transmitted
<1>2. t \in ApWide /\ Alike(t, a) /\ t.cnt = a.cnt /\ t.retries = a.retries + 1
  BY TriedFacts
<1>3. s \in ApWide /\ Alike(s, a) /\ s.cnt = a.cnt + 1 /\ s.timer = TRUE
  BY TransmittedFacts
<1>4. s.prot = a.prot BY DEF Transmitted, Tried, ApWide
<1>5. s.key = a.key BY <1>3 DEF Alike
<1>6. f = [type |-> type, cnt |-> s.cnt, nonce |-> nonce, mic |-> mic,
           prot |-> IF s.prot THEN s.key ELSE None, kid |-> kid, gtk |-> gtk]
  BY DEF ApFrame
<1> HIDE DEF t, s, n, gtk
<1>7. /\ f.type = type /\ f.cnt = s.cnt /\ f.kid = kid
      /\ f.prot = IF a.prot THEN a.key ELSE None
  BY <1>4, <1>5, <1>6
<1> HIDE DEF f
<1>8. CASE t.retries > MaxRetries
  <2>1. r = [x EXCEPT !.ap = n] BY <1>1, <1>8
  <2> HIDE DEF r
  <2>2. r.ap = n /\ r.out = x.out /\ r = [ap |-> r.ap, out |-> r.out] BY <2>1
  <2>3. n \in ApWide /\ ~n.here /\ n.gstate = "IDLE" /\ n.assoc = t.assoc /\ n.cnt = t.cnt
    BY <1>2, LeaveIdle, NodeLeaveKeeps DEF n
  <2>4. SentAway(r, x, a) BY <1>2, <2>2, <2>3 DEF SentAway, Alike
  <2>5. ~(a.retries + 1 <= MaxRetries)
    <3>1. a.retries + 1 > MaxRetries BY <1>2, <1>8
    <3>2. a.retries \in Nat /\ MaxRetries \in Nat BY FourWayAssumption DEF ApWide
    <3> QED BY <3>1, <3>2
  <2> QED BY <2>2, <2>4, <2>5 DEF r
<1>9. CASE ~(t.retries > MaxRetries)
  <2>1. r = [ap |-> s, out |-> x.out \cup {f}] BY <1>1, <1>9
  <2> HIDE DEF r
  <2>2. r.ap = s /\ r.out = x.out \cup {f} /\ r = [ap |-> r.ap, out |-> r.out] BY <2>1
  <2>3. FrameSent(r, x, a, type, kid) BY <1>3, <1>4, <1>7, <2>2 DEF FrameSent
  <2> QED BY <2>2, <2>3 DEF r
<1> QED BY <1>8, <1>9

(* A record of a handler that has not changed what matters here.           *)
LikeAp(a) ==
    /\ a \in ApWide /\ ap.here /\ a.here /\ a.assoc = ap.assoc
    /\ a.txkey = ap.txkey /\ a.gtk[ap.txkey] = ap.gtk[ap.txkey]
    /\ a.port = ap.port /\ a.prot = ap.prot /\ a.key = ap.key
    /\ Keyless(a) => Keyless(ap)
    /\ ap.cnt \in Int /\ ap.cnt <= a.cnt

(* Frames of the 4-way handshake that the handler has sent before.         *)
Earlier(out, a) ==
    \A m \in out : /\ m.type \in {"1", "3"} /\ m.cnt \in Int /\ m.cnt <= a.cnt
                   /\ m.type = "3" => m.kid = ap.txkey
                   /\ ap.prot => m.prot = ap.key

LEMMA SentLike ==
    ASSUME NEW a, LikeAp(a), NEW x, Earlier(x.out, a), NEW type \in {"1", "3"}, NEW kid,
           type = "3" => kid = ap.txkey, NEW r, FrameSent(r, x, a, type, kid)
    PROVE  LikeAp(r.ap) /\ Earlier(r.out, r.ap)
<1>1. a.cnt \in Int /\ r.ap.cnt \in Int BY DEF LikeAp, FrameSent, ApWide
<1>2. Keyless(r.ap) = Keyless(a) BY AlikeFacts DEF FrameSent
<1>3. ap.cnt <= r.ap.cnt BY <1>1 DEF LikeAp, FrameSent
<1>4. LikeAp(r.ap) BY <1>2, <1>3 DEF LikeAp, FrameSent, Alike
<1>5. PICK f : /\ r.out = x.out \cup {f}
               /\ f.type = type /\ f.kid = kid /\ f.cnt = a.cnt + 1
               /\ f.prot = IF a.prot THEN a.key ELSE None
  BY DEF FrameSent
<1>6. r.ap.cnt = a.cnt + 1 BY DEF FrameSent
<1>7. \A m \in x.out : m.cnt <= r.ap.cnt BY <1>1, <1>6 DEF Earlier
<1>8. f.cnt \in Int /\ f.cnt <= r.ap.cnt BY <1>1, <1>5, <1>6
<1> QED BY <1>4, <1>5, <1>7, <1>8 DEF Earlier, LikeAp

LEMMA SentGoes ==
    ASSUME NEW a, LikeAp(a), NEW x, Earlier(x.out, a), NEW type \in {"1", "3", "G1"}, NEW kid,
           type = "3" => kid = ap.txkey, type = "G1" => kid = NextKid(a),
           NEW r, FrameSent(r, x, a, type, kid),
           a.rstate = "PTKINITNEGOTIATING" =>
             \/ type = "G1" /\ a.gstate = "REKEYNEGOTIATING"
             \/ NoGroupMsg1(ap, Sent) /\ type # "G1"
    PROVE  Goes(r)
<1>1. a.cnt \in Int /\ ap.cnt \in Int /\ ap.cnt <= a.cnt BY DEF LikeAp, ApWide
<1>2. /\ r.ap \in ApWide /\ Alike(r.ap, a) /\ r.ap.prot = a.prot
      /\ r.ap.cnt = a.cnt + 1 /\ r.ap.timer
  BY DEF FrameSent
<1>3. PICK f : /\ r.out = x.out \cup {f}
               /\ f.type = type /\ f.kid = kid /\ f.cnt = a.cnt + 1
               /\ f.prot = IF a.prot THEN a.key ELSE None
  BY DEF FrameSent
<1>4. ap.cnt < r.ap.cnt /\ ap.cnt <= r.ap.cnt /\ r.ap.cnt # ap.cnt BY <1>1, <1>2
<1>5. NextKid(r.ap) = NextKid(a) BY <1>2 DEF Alike, NextKid, OtherKid
<1>6. \A m \in x.out : m.cnt < r.ap.cnt BY <1>1, <1>2 DEF Earlier
<1>7. \A m \in r.out :
        /\ m.type \in {"1", "3", "G1"}
        /\ m.type = "3" => m.kid = ap.txkey
        /\ m.type = "G1" => m.kid = NextKid(r.ap)
        /\ ap.prot => m.prot = ap.key
  BY <1>3, <1>5 DEF Earlier, LikeAp
<1>8. r.ap.rstate = "PTKINITNEGOTIATING" =>
        \/ /\ r.ap.gstate = "REKEYNEGOTIATING" /\ ap.cnt < r.ap.cnt
           /\ \A m \in r.out : m.type = "3" => m.cnt < r.ap.cnt
        \/ NoGroupMsg1(ap, Sent) /\ \A m \in r.out : m.type # "G1"
  BY <1>2, <1>3, <1>4, <1>6 DEF Alike, Earlier
<1>9. Keyless(r.ap) => Keyless(ap) BY <1>2, AlikeFacts DEF LikeAp
<1> QED BY <1>2, <1>4, <1>7, <1>8, <1>9 DEF Goes, LikeAp, Alike

LEMMA AwayGone ==
    ASSUME NEW a, a \in ApWide, a.assoc = ap.assoc, ap.cnt <= a.cnt,
           NEW x, \A m \in x.out : m.type \in {"1", "3", "G1"},
           NEW r, SentAway(r, x, a)
    PROVE  Gone(r)
<1>1. a.cnt \in Int BY DEF ApWide
<1> QED BY <1>1 DEF Gone, SentAway

(* Without a lack of mbufs every send has one.                             *)
LEMMA HasMbuf ==
    ASSUME MbufsFail = FALSE, NEW nm \in NoMbuf
    PROVE  nm = FALSE
BY DEF NoMbuf

(* ieee80211_recv_4way_msg2: no group message 1 has the new key yet.       *)
LEMMA RecvMsg2Rekey ==
    ASSUME IInv, GroupInv, RekeyInv, MbufsFail = FALSE, NEW m \in net, RecvMsg2(m)
    PROVE  RekeyInv'
<1> DEFINE mine == <<ap.assoc, m.nonce>>
           calc == [ap EXCEPT !.rstate = "PTKCALCNEGOTIATING"]
           b == [calc EXCEPT !.timer = FALSE, !.retries = 0, !.ptk = mine]
           x == Here(b)
           c == [x.ap EXCEPT !.rstate = "PTKINITNEGOTIATING"]
<1>1. /\ ap \in ApWide /\ ap.cnt \in Int /\ \A n \in Sent : FrameOK(ap, n)
  BY ApNow
<1>2. /\ m.type = "2" /\ ap.here /\ Keyless(ap) /\ WellFormed(m)
      /\ UNCHANGED <<sta, gk, held, gkUsed>>
  BY DEF RecvMsg2, ApAccepts, Keyless, Becomes, IInv, Sent
<1>3. NoGroupMsg1(ap, Sent) BY <1>1, <1>2 DEF NoGroupMsg1, FrameOK, Carries
<1>4. calc \in ApWide BY <1>1 DEF ApWide, RState
<1>5. /\ calc.assoc = ap.assoc /\ calc.gtk = ap.gtk /\ calc.cnt = ap.cnt
      /\ calc.here = ap.here /\ calc.txkey = ap.txkey /\ calc.rekey = ap.rekey
      /\ calc.port = ap.port /\ calc.prot = ap.prot /\ calc.key = ap.key
      /\ calc.gstate = ap.gstate /\ calc.timer = ap.timer
      /\ calc.rstate = "PTKCALCNEGOTIATING"
  BY <1>1 DEF ApWide
<1> HIDE DEF calc
<1>6. CASE m.mic = mine
  <2>1. PICK nm \in NoMbuf : Becomes(SendMsg3(x, nm)) BY <1>6 DEF RecvMsg2, calc
  <2>2. ~nm BY HasMbuf
  <2>3. mine \in Ptk BY <1>2, <1>6 DEF WellFormed
  <2> HIDE DEF mine
  <2>4. b \in ApWide BY <1>4, <2>3 DEF ApWide
  <2>5. /\ b.assoc = calc.assoc /\ b.gtk = calc.gtk /\ b.cnt = calc.cnt
        /\ b.here = calc.here /\ b.txkey = calc.txkey /\ b.port = calc.port
        /\ b.prot = calc.prot /\ b.key = calc.key /\ b.retries = 0
    BY <1>4, <2>3 DEF ApWide
  <2> HIDE DEF b
  <2>6. x = [ap |-> b, out |-> {}] /\ x.ap = b /\ x.out = {} BY DEF Here
  <2> HIDE DEF x
  <2>7. c \in ApWide BY <2>4, <2>6 DEF ApWide, RState
  <2>8. /\ c.assoc = b.assoc /\ c.gtk = b.gtk /\ c.cnt = b.cnt /\ c.here = b.here
        /\ c.txkey = b.txkey /\ c.port = b.port /\ c.prot = b.prot /\ c.key = b.key
        /\ c.retries = 0
    BY <2>4, <2>5, <2>6 DEF ApWide
  <2> DEFINE r == SendKey(x, c, nm, "3", x.ap.assoc, x.ap.ptk, x.ap.txkey)
  <2>9. ap' = r.ap /\ net' = net \cup r.out BY <2>1 DEF SendMsg3, Becomes
  <2> HIDE DEF c
  <2>10. x = [ap |-> x.ap, out |-> x.out] /\ c.retries + 1 <= MaxRetries
    BY <2>6, <2>8, FourWayAssumption
  <2>11. FrameSent(r, x, c, "3", x.ap.txkey) BY <2>2, <2>7, <2>10, SendKeySends
  <2> HIDE DEF r
  <2>12. LikeAp(c) BY <1>1, <1>2, <1>5, <2>5, <2>7, <2>8 DEF LikeAp
  <2>13. Earlier(x.out, c) /\ x.ap.txkey = ap.txkey BY <1>5, <2>5, <2>6 DEF Earlier
  <2>14. Goes(r) BY <1>3, <2>11, <2>12, <2>13, SentGoes
  <2>15. Result(r) BY <1>2, <2>9 DEF Result
  <2> QED BY <2>14, <2>15, GoesKeeps
<1>7. CASE m.mic # mine
  <2> DEFINE z == Here(calc)
  <2>1. ap' = z.ap /\ net' = net \cup z.out BY <1>7 DEF RecvMsg2, calc, Becomes
  <2>2. z.ap = calc /\ z.out = {} BY DEF Here
  <2> HIDE DEF z
  <2>3. calc.gstate = "REKEYNEGOTIATING" => calc.timer
    BY <1>5 DEF RekeyInv, RekeyHasTimer
  <2>4. ap.cnt <= ap.cnt BY <1>1
  <2>5. Goes(z) BY <1>2, <1>4, <1>5, <2>2, <2>3, <2>4 DEF Goes
  <2>6. Result(z) BY <1>2, <2>1 DEF Result
  <2> QED BY <2>5, <2>6, GoesKeeps
<1> QED BY <1>6, <1>7

(* ieee80211_node_leave.                                                   *)
LEMMA ApLeaveRekey ==
    ASSUME IInv, GroupInv, RekeyInv, ApLeave
    PROVE  RekeyInv'
<1> DEFINE n == NodeLeave(ap)
           z == Here(n)
<1>1. ap \in ApWide /\ ap.cnt \in Int BY ApNow
<1>2. ~n.here /\ n.gstate = "IDLE" /\ n.assoc = ap.assoc /\ n.cnt = ap.cnt
  BY <1>1, NodeLeaveKeeps, LeaveIdle
<1>3. ap' = z.ap /\ net' = net \cup z.out /\ UNCHANGED <<sta, gk, held, gkUsed>>
  BY DEF ApLeave, Becomes
<1> HIDE DEF n
<1>4. z.ap = n /\ z.out = {} BY DEF Here
<1> HIDE DEF z
<1>5. Gone(z) BY <1>1, <1>2, <1>4 DEF Gone
<1> QED BY <1>3, <1>5, GoneKeeps DEF Result

(* ieee80211_node_join: no frame has a key of the new association.         *)
LEMMA JoinRekey ==
    ASSUME IInv, GroupInv, RekeyInv, MbufsFail = FALSE, Join
    PROVE  RekeyInv'
<1> DEFINE j == [ap EXCEPT !.here = TRUE, !.assoc = @ + 1, !.cnt = -1,
                           !.crossed = ap.gstate = "REKEYNEGOTIATING",
                           !.retries = 0, !.prot = FALSE, !.port = FALSE]
           x == Here(j)
           c == [x.ap EXCEPT !.rstate = "PTKSTART"]
<1>1. /\ ap \in ApWide /\ ap.assoc \in Nat /\ \A n \in Sent : FrameOK(ap, n)
  BY ApNow
<1>2. /\ sta.link = "assoc" /\ ap.assoc + 1 \in 0 .. MaxAssoc
  <2>1. sta.link = "assoc" /\ ap.assoc < MaxAssoc BY DEF Join
  <2> QED BY <1>1, <2>1, FourWayAssumption
<1>3. PICK nm \in NoMbuf : Becomes(SendMsg1(x, nm)) BY DEF Join
<1>4. ~nm BY HasMbuf
<1>5. j \in ApWide
  <2> DEFINE w == ap.gstate = "REKEYNEGOTIATING"
             g == [ap EXCEPT !.here = TRUE, !.assoc = ap.assoc + 1]
             h == [g EXCEPT !.cnt = -1, !.crossed = w]
  <2>1. g \in ApWide BY <1>1, <1>2 DEF ApWide
  <2>2. w \in BOOLEAN OBVIOUS
  <2>3. j = [h EXCEPT !.retries = 0, !.prot = FALSE, !.port = FALSE] BY <1>1
  <2> HIDE DEF w, g
  <2>4. [g EXCEPT !.cnt = -1] \in ApWide BY <2>1 DEF ApWide
  <2>5. h = [[g EXCEPT !.cnt = -1] EXCEPT !.crossed = w] OBVIOUS
  <2>6. h \in ApWide BY <2>2, <2>4, <2>5 DEF ApWide
  <2> HIDE DEF h
  <2> QED BY <2>3, <2>6 DEF ApWide
<1>6. j.here /\ j.assoc = ap.assoc + 1 /\ j.retries = 0 /\ ~j.port
  BY <1>1 DEF ApWide
<1> HIDE DEF j
<1>7. x = [ap |-> j, out |-> {}] /\ x.ap = j /\ x.out = {} BY DEF Here
<1> HIDE DEF x
<1>8. c \in ApWide BY <1>5, <1>7 DEF ApWide, RState
<1>9. c.here /\ c.assoc = ap.assoc + 1 /\ c.retries = 0 /\ ~c.port /\ c.rstate = "PTKSTART"
  BY <1>5, <1>6, <1>7 DEF ApWide
<1> DEFINE r == SendKey(x, c, nm, "1", x.ap.assoc, None, 0)
<1>10. ap' = r.ap /\ net' = net \cup r.out /\ UNCHANGED <<sta, gk, held>>
  BY <1>3 DEF SendMsg1, Becomes
<1> HIDE DEF c
<1>11. x = [ap |-> x.ap, out |-> x.out] /\ c.retries + 1 <= MaxRetries
  BY <1>7, <1>9, FourWayAssumption
<1>12. FrameSent(r, x, c, "1", 0) BY <1>4, <1>8, <1>11, SendKeySends
<1> HIDE DEF r
<1>13. /\ ap'.here /\ ap'.assoc = ap.assoc + 1 /\ ap'.timer /\ ~ap'.port
       /\ ap'.rstate = "PTKSTART"
  BY <1>9, <1>10, <1>12 DEF FrameSent, Alike
<1>14. \A n \in Sent' : n \in Sent \/ n.type = "1"
  BY <1>7, <1>10, <1>12 DEF FrameSent, Sent
<1>15. \A n \in Sent' : n.type # "1" => ~InAssoc(ap, n)'
  <2> SUFFICES ASSUME NEW n \in Sent, n.mic # None PROVE n.mic[1] # ap.assoc + 1
    BY <1>13, <1>14 DEF InAssoc
  <2>1. n.mic[1] \in Nat /\ n.mic[1] <= ap.assoc BY <1>1, PtkFacts DEF FrameOK, Typed
  <2> QED BY <1>1, <2>1
<1>16. AnswersSent(ap, Sent)' BY <1>15 DEF AnswersSent
<1>17. FramesHaveKid(ap, Sent)' BY <1>15 DEF FramesHaveKid, Live
<1>18. CrossedEnds(ap, Sent)' /\ PortProtects(ap, Sent)'
  BY <1>13 DEF CrossedEnds, PortProtects
<1>19. StaHasKey' BY <1>2, <1>10 DEF StaHasKey, RekeyInv, Linked, Joined
<1> QED BY <1>13, <1>16, <1>17, <1>18, <1>19 DEF RekeyInv, RekeyHasTimer

(* ieee80211_recv_4way_msg4: the station that answered the last message 3  *)
(* has the group key that was in it.                                       *)
LEMMA RecvMsg4Rekey ==
    ASSUME IInv, GroupInv, RekeyInv, NEW m \in net, RecvMsg4(m)
    PROVE  RekeyInv'
<1> DEFINE done == [ap EXCEPT !.timer = FALSE, !.rstate = "PTKINITDONE", !.retries = 0,
                              !.key = ap.ptk]
           d == [done EXCEPT !.prot = TRUE, !.port = TRUE, !.gstate = "IDLE"]
           n == NodeLeave(done)
<1>1. /\ ap \in ApWide /\ ApCore(ap) /\ ap.cnt \in Int
      /\ \A o \in Sent : FrameOK(ap, o)
  BY ApNow
<1>2. /\ m.type = "4" /\ m.cnt = ap.cnt /\ m.mic = ap.ptk /\ ap.here /\ m \in Sent
      /\ ap.rstate = "PTKINITNEGOTIATING" /\ UNCHANGED <<sta, gk, held, gkUsed>>
  BY DEF RecvMsg4, ApAccepts, Becomes, Sent
<1>3. \A o \in Sent : ~Live(ap, o) BY <1>2, AnsweredNoneLive
<1>4. Becomes(Here(d)) \/ Becomes(Here(n)) BY DEF RecvMsg4
<1>5. done \in ApWide BY <1>1 DEF ApWide, RState
<1>6. /\ done.assoc = ap.assoc /\ done.gtk = ap.gtk /\ done.cnt = ap.cnt
      /\ done.txkey = ap.txkey /\ done.here = ap.here
  BY <1>1 DEF ApWide
<1> HIDE DEF done
<1>7. NoGroupMsg1(ap, Sent)
  <2>1. InAssoc(ap, m) BY <1>1, <1>2, PtkFacts DEF ApCore, InAssoc
  <2> QED BY <1>1, <1>2, <2>1 DEF RekeyInv, CrossedEnds
<1>8. CASE Becomes(Here(n))
  <2>1. ~n.here /\ n.gstate = "IDLE" /\ n.assoc = ap.assoc /\ n.cnt = ap.cnt
    BY <1>5, <1>6, NodeLeaveKeeps, LeaveIdle
  <2> DEFINE z == Here(n)
  <2>2. ap' = z.ap /\ net' = net \cup z.out BY <1>8 DEF Becomes
  <2> HIDE DEF n
  <2>3. z.ap = n /\ z.out = {} BY DEF Here
  <2> HIDE DEF z
  <2>4. Gone(z) BY <1>1, <2>1, <2>3 DEF Gone
  <2> QED BY <1>2, <2>2, <2>4, GoneKeeps DEF Result
<1>9. CASE Becomes(Here(d))
  <2>1. /\ d.assoc = ap.assoc /\ d.gtk = ap.gtk /\ d.cnt = ap.cnt /\ d.txkey = ap.txkey
        /\ d.here = ap.here /\ d.gstate = "IDLE" /\ d.prot = TRUE
        /\ d.rstate = "PTKINITDONE"
    <3>1. done.rstate = "PTKINITDONE" BY <1>1 DEF done, ApWide
    <3> QED BY <1>5, <1>6, <3>1 DEF ApWide
  <2> HIDE DEF d
  <2>2. ap' = d /\ net' = net BY <1>9 DEF Becomes, Here
  <2>3. Sent' = Sent BY <1>2, <2>2 DEF Sent
  <2>4. \A o : InAssoc(ap, o)' = InAssoc(ap, o) BY <2>1, <2>2 DEF InAssoc
  <2>5. \A o \in Sent' : ~Live(ap, o)' BY <1>2, <1>3, <2>3, <2>4 DEF Live
  <2>6. AnswersSent(ap, Sent)'
    BY <2>1, <2>2, <2>3, <2>4 DEF RekeyInv, AnswersSent, NoGroupMsg1
  <2>7. FramesHaveKid(ap, Sent)' BY <2>1, <2>2, <2>5 DEF FramesHaveKid
  <2>8. CrossedEnds(ap, Sent)' BY <2>1, <2>2 DEF CrossedEnds
  <2>9. PortProtects(ap, Sent)' BY <2>1, <2>2, <2>5 DEF PortProtects
  <2>10. StaHasKey'
    <3>1. Joined' = Joined BY <1>2, <2>1, <2>2 DEF Joined, Linked
    <3>2. HasKey(ap.txkey)' = HasKey(ap.txkey) BY <1>2, <2>1, <2>2 DEF HasKey
    <3>3. Joined => HasKey(ap.txkey) BY <1>7 DEF RekeyInv, StaHasKey
    <3>4. ap'.gstate = "IDLE" /\ ~Keyless(ap)' BY <2>1, <2>2 DEF Keyless
    <3> QED BY <1>2, <3>1, <3>2, <3>3, <3>4 DEF RekeyInv, StaHasKey
  <2> QED
    BY <2>1, <2>2, <2>6, <2>7, <2>8, <2>9, <2>10 DEF RekeyInv, RekeyHasTimer
<1> QED BY <1>4, <1>8, <1>9

(* ieee80211_recv_rsn_group_msg2: the station that answered the last group *)
(* message 1 has the key that comes into use.                              *)
LEMMA RecvGroupMsg2Rekey ==
    ASSUME IInv, GroupInv, RekeyInv, NEW m \in net, RecvGroupMsg2(m)
    PROVE  RekeyInv'
<1> DEFINE done == [ap EXCEPT !.timer = FALSE, !.rekey = FALSE, !.prot = TRUE,
                              !.gstate = "IDLE", !.retries = 0]
           b == IF ap.rekey THEN SetKeysDone(done) ELSE done
<1>1. /\ ap \in ApWide /\ ApCore(ap) /\ KeysInv(ap)
  BY ApNow
<1>2. /\ m.type = "G2" /\ m.cnt = ap.cnt /\ m.mic = ap.ptk /\ ap.here /\ m \in Sent
      /\ ap.gstate = "REKEYNEGOTIATING" /\ UNCHANGED <<sta, gk, held>>
      /\ ap' = b /\ net' = net
  BY DEF RecvGroupMsg2, ApAccepts, Becomes, Sent, Here
<1>3. \A o \in Sent : ~Live(ap, o) BY <1>2, AnsweredNoneLive
<1>4. done \in ApWide BY <1>1 DEF ApWide
<1>5. /\ done.assoc = ap.assoc /\ done.gtk = ap.gtk /\ done.cnt = ap.cnt
      /\ done.rstate = ap.rstate /\ done.here = ap.here /\ done.port = ap.port
      /\ done.gstate = "IDLE" /\ done.prot = TRUE /\ done.timer = FALSE
      /\ done.txkey = ap.txkey /\ OtherKid(done) = OtherKid(ap)
  BY <1>1 DEF ApWide, OtherKid
<1> HIDE DEF done
<1>6. /\ b.assoc = ap.assoc /\ b.gtk = ap.gtk /\ b.cnt = ap.cnt
      /\ b.rstate = ap.rstate /\ b.here = ap.here /\ b.port = ap.port
      /\ b.gstate = "IDLE" /\ b.prot = TRUE /\ b.timer = FALSE
      /\ b.txkey = NextKid(ap)
  <2>1. CASE ap.rekey
    <3>1. b = [done EXCEPT !.txkey = OtherKid(done)] BY <1>4, <2>1, SetKeysDoneFacts
    <3> QED BY <1>4, <1>5, <2>1, <3>1 DEF ApWide, NextKid
  <2>2. CASE ~ap.rekey BY <1>5, <2>2 DEF NextKid
  <2> QED BY <2>1, <2>2
<1> HIDE DEF b
<1>7. Sent' = Sent BY <1>2 DEF Sent
<1>8. \A o : InAssoc(ap, o)' = InAssoc(ap, o) BY <1>2, <1>6 DEF InAssoc
<1>9. \A o \in Sent' : ~Live(ap, o)' BY <1>2, <1>3, <1>7, <1>8 DEF Live
<1>10. NoGroupMsg1(ap, Sent)' = NoGroupMsg1(ap, Sent) BY <1>7, <1>8 DEF NoGroupMsg1
<1>11. AnswersSent(ap, Sent)'
  BY <1>2, <1>6, <1>7, <1>8, <1>10 DEF RekeyInv, AnswersSent
<1>12. FramesHaveKid(ap, Sent)' BY <1>2, <1>6, <1>9 DEF FramesHaveKid
<1>13. CrossedEnds(ap, Sent)'
  BY <1>2, <1>6, <1>7, <1>8, <1>10 DEF RekeyInv, CrossedEnds
<1>14. PortProtects(ap, Sent)' BY <1>2, <1>6, <1>9 DEF PortProtects
<1>15. StaHasKey'
  <2>1. Linked' = Linked /\ Joined' = Joined BY <1>2, <1>6 DEF Joined, Linked
  <2>2. Keyless(ap)' = Keyless(ap) BY <1>2, <1>6 DEF Keyless
  <2>3. Joined => HasKey(ap.txkey)'
    <3> SUFFICES ASSUME Joined PROVE HasKey(NextKid(ap))
      BY <1>2, <1>6 DEF HasKey
    <3>1. ap.rstate \in {"PTKINITNEGOTIATING", "PTKINITDONE"}
      BY <1>1, <1>2 DEF RekeyInv, StaHasKey, Keyless, KeysInv, ApWide, RState
    <3>2. InAssoc(ap, m) BY <1>1, <1>2, <3>1, PtkFacts DEF ApCore, InAssoc
    <3> QED BY <1>2, <3>2 DEF RekeyInv, StaHasKey, Joined
  <2>4. ap'.gstate = "IDLE" BY <1>2, <1>6
  <2> QED BY <1>2, <2>1, <2>2, <2>3, <2>4 DEF RekeyInv, StaHasKey
<1> QED
  BY <1>2, <1>6, <1>11, <1>12, <1>13, <1>14, <1>15 DEF RekeyInv, RekeyHasTimer

(* ieee80211_eapol_timeout: message 3 with the key in use goes out before  *)
(* the group message 1 with the next one.                                  *)
LEMMA EapolTimeoutRekey ==
    ASSUME IInv, GroupInv, RekeyInv, MbufsFail = FALSE, EapolTimeout
    PROVE  RekeyInv'
<1> DEFINE a == [ap EXCEPT !.timer = FALSE]
           x == Here(a)
           First(nm) == IF ap.rstate \in {"PTKSTART", "PTKCALCNEGOTIATING"} THEN SendMsg1(x, nm)
                        ELSE IF ap.rstate = "PTKINITNEGOTIATING" THEN SendMsg3(x, nm)
                        ELSE x
           Second(y, nm) == IF y.ap.gstate = "REKEYNEGOTIATING" THEN SendGroupMsg1(y, nm)
                            ELSE y
<1>1. /\ ap \in ApWide /\ ap.cnt \in Int /\ ap.timer /\ ap.here
      /\ \A n \in Sent : FrameOK(ap, n)
  BY ApNow DEF ApCore, EapolTimeout
<1>2. PICK nm1 \in NoMbuf, nm2 \in NoMbuf : Becomes(Second(First(nm1), nm2))
  BY DEF EapolTimeout
<1>3. ~nm1 /\ ~nm2 BY HasMbuf
<1>4. UNCHANGED <<sta, gk, held, gkUsed>> BY DEF EapolTimeout, Becomes
<1>5. a \in ApWide BY <1>1 DEF ApWide
<1>6. /\ a.assoc = ap.assoc /\ a.gtk = ap.gtk /\ a.cnt = ap.cnt /\ a.here
      /\ a.txkey = ap.txkey /\ a.port = ap.port /\ a.prot = ap.prot /\ a.key = ap.key
      /\ a.rstate = ap.rstate /\ a.gstate = ap.gstate /\ a.rekey = ap.rekey
  BY <1>1 DEF ApWide
<1> HIDE DEF a
<1>7. LikeAp(a) BY <1>1, <1>5, <1>6 DEF LikeAp, Keyless
<1>8. x = [ap |-> a, out |-> {}] /\ x.ap = a /\ x.out = {} BY DEF Here
<1>9. x = [ap |-> x.ap, out |-> x.out] /\ Earlier(x.out, a) BY <1>8 DEF Earlier
<1> HIDE DEF x
<1>10. (* a timeout of the 4-way handshake alone *)
       ap.rstate = "PTKINITNEGOTIATING" /\ ap.gstate # "REKEYNEGOTIATING" =>
         NoGroupMsg1(ap, Sent)
  BY <1>1 DEF RekeyInv, CrossedEnds
<1> DEFINE y == First(nm1)
           z == Second(y, nm2)
           Half == /\ y = [ap |-> y.ap, out |-> y.out] /\ LikeAp(y.ap) /\ Earlier(y.out, y.ap)
                   /\ y.ap.gstate = ap.gstate
                   /\ ap.gstate = "REKEYNEGOTIATING" \/ Goes(y)
           Ended == Gone(y)
<1>11. Half \/ Ended
  <2>1. CASE ap.rstate \in {"PTKSTART", "PTKCALCNEGOTIATING"}
    <3> DEFINE b == [x.ap EXCEPT !.rstate = "PTKSTART"]
    <3>1. b \in ApWide BY <1>5, <1>8 DEF ApWide, RState
    <3>2. /\ b.assoc = a.assoc /\ b.gtk = a.gtk /\ b.cnt = a.cnt /\ b.here
          /\ b.txkey = a.txkey /\ b.port = a.port /\ b.prot = a.prot /\ b.key = a.key
          /\ b.rstate = "PTKSTART" /\ b.gstate = a.gstate
      BY <1>5, <1>6, <1>8 DEF ApWide
    <3>3. y = SendKey(x, b, nm1, "1", x.ap.assoc, None, 0) BY <2>1 DEF SendMsg1
    <3> HIDE DEF b, y
    <3>4. LikeAp(b) BY <1>7, <2>1, <3>1, <3>2 DEF LikeAp, Keyless
    <3>5. Earlier(x.out, b) BY <1>8 DEF Earlier
    <3>6. /\ y = [ap |-> y.ap, out |-> y.out]
          /\ FrameSent(y, x, b, "1", 0) \/ SentAway(y, x, b)
      BY <1>3, <1>9, <3>1, <3>3, SendKeySends
    <3>7. CASE FrameSent(y, x, b, "1", 0)
      <4>1. LikeAp(y.ap) /\ Earlier(y.out, y.ap) BY <3>4, <3>5, <3>7, SentLike
      <4>2. Goes(y) BY <3>2, <3>4, <3>5, <3>7, SentGoes
      <4>3. y.ap.gstate = ap.gstate BY <1>6, <3>2, <3>7 DEF FrameSent, Alike
      <4> QED BY <3>6, <4>1, <4>2, <4>3
    <3>8. CASE SentAway(y, x, b)
      <4>1. b.assoc = ap.assoc /\ ap.cnt <= b.cnt BY <1>1, <1>6, <3>2
      <4> QED BY <1>8, <3>1, <3>8, <4>1, AwayGone
    <3> QED BY <3>6, <3>7, <3>8
  <2>2. CASE ap.rstate = "PTKINITNEGOTIATING"
    <3>1. [x.ap EXCEPT !.rstate = "PTKINITNEGOTIATING"] = a
      BY <1>5, <1>6, <1>8, <2>2 DEF ApWide
    <3>2. y = SendKey(x, a, nm1, "3", x.ap.assoc, x.ap.ptk, a.txkey)
      BY <1>8, <2>2, <3>1 DEF SendMsg3
    <3> HIDE DEF y
    <3>3. /\ y = [ap |-> y.ap, out |-> y.out]
          /\ FrameSent(y, x, a, "3", a.txkey) \/ SentAway(y, x, a)
      BY <1>3, <1>5, <1>9, <3>2, SendKeySends
    <3>4. CASE FrameSent(y, x, a, "3", a.txkey)
      <4>1. LikeAp(y.ap) /\ Earlier(y.out, y.ap) BY <1>6, <1>7, <1>9, <3>4, SentLike
      <4>2. ap.gstate = "REKEYNEGOTIATING" \/ Goes(y)
        BY <1>6, <1>7, <1>9, <1>10, <2>2, <3>4, SentGoes
      <4>3. y.ap.gstate = ap.gstate BY <1>6, <3>4 DEF FrameSent, Alike
      <4> QED BY <3>3, <4>1, <4>2, <4>3
    <3>5. CASE SentAway(y, x, a)
      <4>1. a.assoc = ap.assoc /\ ap.cnt <= a.cnt BY <1>1, <1>6
      <4> QED BY <1>5, <1>8, <3>5, <4>1, AwayGone
    <3> QED BY <3>3, <3>4, <3>5
  <2>3. CASE ap.rstate \notin {"PTKSTART", "PTKCALCNEGOTIATING", "PTKINITNEGOTIATING"}
    <3>1. y = x BY <2>3
    <3>2. ap.gstate # "REKEYNEGOTIATING" => Goes(x)
      <4>1. ~Keyless(a) BY <1>6, <2>3 DEF Keyless
      <4>2. ap.cnt <= ap.cnt BY <1>1
      <4> QED BY <1>1, <1>5, <1>6, <1>8, <2>3, <4>1, <4>2 DEF Goes
    <3> QED BY <1>6, <1>7, <1>8, <1>9, <3>1, <3>2
  <2> QED BY <2>1, <2>2, <2>3
<1>12. z = IF y.ap.gstate = "REKEYNEGOTIATING" THEN SendGroupMsg1(y, nm2) ELSE y OBVIOUS
<1>13. ap' = z.ap /\ net' = net \cup z.out BY <1>2 DEF Becomes, y
<1> HIDE DEF y, z
<1>14. Goes(z) \/ Gone(z)
  <2>1. CASE Gone(y)
    <3>1. z = y BY <1>12, <2>1 DEF Gone
    <3> QED BY <2>1, <3>1
  <2>2. CASE Half /\ ap.gstate # "REKEYNEGOTIATING" BY <1>12, <2>2
  <2>3. CASE Half /\ ap.gstate = "REKEYNEGOTIATING"
    <3> DEFINE kid == IF y.ap.rekey THEN OtherKid(y.ap) ELSE y.ap.txkey
    <3>1. y.ap \in ApWide BY <2>3 DEF LikeAp
    <3>2. [y.ap EXCEPT !.gstate = "REKEYNEGOTIATING"] = y.ap BY <2>3, <3>1 DEF ApWide
    <3>3. z = SendKey(y, y.ap, nm2, "G1", 0, y.ap.ptk, kid)
      BY <1>12, <2>3, <3>2 DEF SendGroupMsg1
    <3>4. kid = NextKid(y.ap) BY DEF NextKid
    <3> HIDE DEF kid
    <3>5. FrameSent(z, y, y.ap, "G1", kid) \/ SentAway(z, y, y.ap)
      BY <1>3, <2>3, <3>1, <3>3, SendKeySends
    <3>6. CASE FrameSent(z, y, y.ap, "G1", kid)
      BY <2>3, <3>4, <3>6, SentGoes
    <3>7. CASE SentAway(z, y, y.ap)
      <4>1. y.ap.assoc = ap.assoc /\ ap.cnt <= y.ap.cnt BY <2>3 DEF LikeAp
      <4>2. \A m \in y.out : m.type \in {"1", "3", "G1"} BY <2>3 DEF Earlier
      <4> QED BY <3>1, <3>7, <4>1, <4>2, AwayGone
    <3> QED BY <3>5, <3>6, <3>7
  <2> QED BY <1>11, <2>1, <2>2, <2>3
<1>15. Result(z) BY <1>4, <1>13 DEF Result
<1> QED BY <1>14, <1>15, GoesKeeps, GoneKeeps

(* ieee80211_gtk_rekey_timeout: the next key goes to the station, or comes *)
(* into use when there is none.                                            *)
LEMMA GtkRekeyRekey ==
    ASSUME IInv, GroupInv, RekeyInv, MbufsFail = FALSE, GtkRekey
    PROVE  RekeyInv'
<1> DEFINE k == OtherKid(ap)
           new == ap.gtks + 1
           a == [ap EXCEPT !.gtks = @ + 1, !.gtk[OtherKid(ap)] = ap.gtks + 1,
                           !.crossed = @ \/ Waiting]
           b == [a EXCEPT !.rekey = TRUE]
           x0 == Here(b)
           c == [x0.ap EXCEPT !.gstate = "REKEYNEGOTIATING"]
           X(nm) == SendGroupMsg1(x0, nm)
           Y(nm) == IF ~a.here \/ a.gstate # "IDLE" THEN Here(a)
                    ELSE IF nm /\ X(nm).ap.here THEN [X(nm) EXCEPT !.ap.rekey = FALSE]
                    ELSE X(nm)
           Z(nm) == IF Y(nm).ap.rekey THEN Y(nm)
                    ELSE [Y(nm) EXCEPT !.ap = SetKeysDone(Y(nm).ap)]
<1>1. ap \in ApWide /\ ApCore(ap) /\ ap.cnt \in Int BY ApNow
<1>2. PICK nm \in NoMbuf : Becomes(Z(nm)) BY DEF GtkRekey
<1>3. nm = FALSE BY HasMbuf
<1>4. UNCHANGED <<sta, gk, held, gkUsed>> BY DEF GtkRekey, Becomes
<1>5. ap.gtks \in Nat /\ new \in Gtk
  <2>1. ap.gtks \in 1 .. MaxGtk /\ ap.gtks < MaxGtk BY <1>1 DEF ApWide, Gtk, GtkRekey
  <2> QED BY <2>1, FourWayAssumption DEF Gtk
<1>6. k \in Kid /\ ap.txkey \in Kid /\ k # ap.txkey BY <1>1 DEF OtherKid, ApWide, Kid
<1>7. a \in ApWide /\ a.gtk = [ap.gtk EXCEPT ![k] = new]
  <2> DEFINE g == [ap.gtk EXCEPT ![k] = new]
             w == ap.crossed \/ Waiting
  <2>1. a = [ap EXCEPT !.gtks = new, !.gtk = g, !.crossed = w] BY <1>1 DEF ApWide
  <2>2. g \in [Kid -> Gtk \cup {None}] BY <1>1, <1>5, <1>6 DEF ApWide
  <2>3. w \in BOOLEAN BY <1>1 DEF ApWide
  <2> HIDE DEF g, w, a, new
  <2>4. a \in ApWide /\ a.gtk = g BY <1>1, <1>5, <2>1, <2>2, <2>3 DEF ApWide
  <2> QED BY <2>4 DEF g
<1>8. /\ a.assoc = ap.assoc /\ a.cnt = ap.cnt /\ a.rstate = ap.rstate
      /\ a.gstate = ap.gstate /\ a.here = ap.here /\ a.txkey = ap.txkey
      /\ a.port = ap.port /\ a.prot = ap.prot /\ a.key = ap.key
  BY <1>1 DEF ApWide
<1> HIDE DEF a, k
<1>9. a.gtk[ap.txkey] = ap.gtk[ap.txkey] BY <1>1, <1>6, <1>7 DEF ApWide
<1>10. (* no handshake is under way *)
       ap.gstate = "IDLE"
  <2>1. ~(ap.timer /\ ap.gstate = "REKEYNEGOTIATING") BY DEF GtkRekey
  <2>2. ap.gstate \in {"IDLE", "REKEYNEGOTIATING"} BY <1>1 DEF ApWide
  <2> QED BY <2>1, <2>2 DEF RekeyInv, RekeyHasTimer
<1> DEFINE y == Y(nm)
           z == Z(nm)
<1>11. z = IF y.ap.rekey THEN y ELSE [y EXCEPT !.ap = SetKeysDone(y.ap)] OBVIOUS
<1>12. ap' = z.ap /\ net' = net \cup z.out BY <1>2 DEF Becomes
<1>13. y = IF ~a.here \/ a.gstate # "IDLE" THEN Here(a) ELSE X(nm) BY <1>3
<1> HIDE DEF Y, y, Z, z
<1> DEFINE Ended == /\ y = [ap |-> y.ap, out |-> y.out] /\ y.ap \in ApWide /\ Gone(y)
<1>14. Ended \/ (Goes(y) /\ y.ap.rekey)
  <2>1. CASE ~a.here
    <3>1. y = [ap |-> a, out |-> {}] /\ y.ap = a /\ y.out = {} BY <1>13, <2>1 DEF Here
    <3>2. ap.cnt <= ap.cnt BY <1>1
    <3> QED BY <1>1, <1>7, <1>8, <1>10, <2>1, <3>1, <3>2 DEF Gone
  <2>2. CASE a.here
    <3>1. b \in ApWide BY <1>7 DEF ApWide
    <3>2. /\ b.assoc = a.assoc /\ b.gtk = a.gtk /\ b.cnt = a.cnt /\ b.rstate = a.rstate
          /\ b.here /\ b.txkey = a.txkey /\ b.port = a.port /\ b.prot = a.prot
          /\ b.key = a.key /\ b.rekey = TRUE
      BY <1>7, <2>2 DEF ApWide
    <3> HIDE DEF b
    <3>3. x0 = [ap |-> b, out |-> {}] /\ x0.ap = b /\ x0.out = {} BY DEF Here
    <3>4. y = X(nm) BY <1>8, <1>10, <1>13, <2>2
    <3> HIDE DEF x0
    <3>5. c \in ApWide BY <3>1, <3>3 DEF ApWide
    <3>6. /\ c.assoc = b.assoc /\ c.gtk = b.gtk /\ c.cnt = b.cnt /\ c.rstate = b.rstate
          /\ c.here /\ c.txkey = b.txkey /\ c.port = b.port /\ c.prot = b.prot
          /\ c.key = b.key /\ c.rekey = TRUE /\ c.gstate = "REKEYNEGOTIATING"
      BY <3>1, <3>2, <3>3 DEF ApWide
    <3> DEFINE kid == IF x0.ap.rekey THEN OtherKid(x0.ap) ELSE x0.ap.txkey
    <3>7. y = SendKey(x0, c, nm, "G1", 0, x0.ap.ptk, kid) BY <3>4 DEF SendGroupMsg1
    <3>8. kid = NextKid(c) BY <3>2, <3>3, <3>6 DEF NextKid, OtherKid
    <3>9. x0 = [ap |-> x0.ap, out |-> x0.out] BY <3>3
    <3> HIDE DEF c, kid, X
    <3>10. LikeAp(c)
      <4>1. Keyless(c) => Keyless(ap) BY <1>8, <3>2, <3>6 DEF Keyless
      <4>2. ap.cnt <= c.cnt BY <1>1, <1>8, <3>2, <3>6
      <4> QED BY <1>1, <1>8, <1>9, <2>2, <3>2, <3>5, <3>6, <4>1, <4>2 DEF LikeAp
    <3>11. Earlier(x0.out, c) BY <3>3 DEF Earlier
    <3>12. /\ y = [ap |-> y.ap, out |-> y.out]
           /\ FrameSent(y, x0, c, "G1", kid) \/ SentAway(y, x0, c)
      BY <1>3, <3>5, <3>7, <3>9, SendKeySends
    <3>13. CASE FrameSent(y, x0, c, "G1", kid)
      <4>1. Goes(y) BY <3>6, <3>8, <3>10, <3>11, <3>13, SentGoes
      <4>2. y.ap.rekey BY <3>6, <3>13 DEF FrameSent, Alike
      <4> QED BY <4>1, <4>2
    <3>14. CASE SentAway(y, x0, c)
      <4>1. c.assoc = ap.assoc /\ ap.cnt <= c.cnt BY <3>10 DEF LikeAp
      <4>2. Gone(y) BY <3>3, <3>5, <3>14, <4>1, AwayGone
      <4> QED BY <3>12, <3>14, <4>2 DEF SentAway
    <3> QED BY <3>12, <3>13, <3>14
  <2> QED BY <2>1, <2>2
<1>15. Goes(z) \/ Gone(z)
  <2>1. CASE y.ap.rekey BY <1>11, <1>14, <2>1
  <2>2. CASE ~y.ap.rekey
    <3> DEFINE d == SetKeysDone(y.ap)
    <3>1. Ended BY <1>14, <2>2
    <3>2. d = [y.ap EXCEPT !.txkey = OtherKid(y.ap)] /\ d \in ApWide
      BY <3>1, SetKeysDoneFacts
    <3>3. z = [ap |-> d, out |-> y.out] BY <1>11, <2>2, <3>1
    <3> HIDE DEF d
    <3>4. z.ap = d /\ z.out = y.out BY <3>3
    <3>5. /\ d.assoc = y.ap.assoc /\ d.cnt = y.ap.cnt /\ d.here = y.ap.here
          /\ d.gstate = y.ap.gstate
      BY <3>1, <3>2 DEF ApWide
    <3> QED BY <3>1, <3>4, <3>5 DEF Gone
  <2> QED BY <2>1, <2>2
<1>16. Result(z) BY <1>4, <1>12 DEF Result
<1> QED BY <1>15, <1>16, GoesKeeps, GoneKeeps

-----------------------------------------------------------------------------
(* The steps of the station.                                               *)

(* The station answers a message of this association that it has taken; a  *)
(* held frame stays what it is when it leaves.                             *)
Replies(n) ==
    \/ n.type = "2"
    \/ /\ n.type = "4"
       /\ \E m \in Sent : m.type = "3" /\ InAssoc(ap, m) /\ n.cnt = m.cnt
    \/ /\ n.type = "G2"
       /\ \E m \in Sent : /\ m.type = "G1" /\ InAssoc(ap, m) /\ n.cnt = m.cnt
                          /\ ap.here => gk'[m.kid] = ap.gtk[m.kid]
    \/ \E m \in Sent : /\ m.type \in {"2", "4", "G2"}
                       /\ n.type = m.type /\ n.cnt = m.cnt /\ n.mic = m.mic

(* The frames the station may still take have the keys of the access       *)
(* point.                                                                  *)
LEMMA AllUpToDate ==
    ASSUME IInv, GroupInv, RekeyInv, ap.here
    PROVE  UpToDate(ap, Sent)
<1>1. ap \in ApWide /\ BetweenInv(ap, Sent) BY ApNow
<1>2. ap.gstate \in {"IDLE", "REKEYNEGOTIATING"} BY <1>1 DEF ApWide
<1> QED BY <1>1, <1>2 DEF BetweenInv, RekeyInv, RekeyHasTimer

(* What a step of the station has to establish.                            *)
LEMMA StaRekey ==
    ASSUME IInv, GroupInv, RekeyInv, ap' = ap, net \subseteq net',
           sta.link = "run", sta'.link = "run", sta' \in StaType, sta'.assoc = sta.assoc,
           sta.ok => sta'.ok /\ sta.replaycnt <= sta'.replaycnt,
           \A n \in Sent' : n \in Sent \/ Replies(n),
           \/ gk' = gk
           \/ \E m \in Sent : Live(ap, m) /\ gk' = [gk EXCEPT ![m.kid] = m.gtk],
           ap.here /\ (sta'.port \/ sta'.rxprot) /\ ~(sta.port \/ sta.rxprot) =>
             /\ ~Keyless(ap)
             /\ NoGroupMsg1(ap, Sent) \/ ap.port => gk'[ap.txkey] = ap.gtk[ap.txkey]
    PROVE  RekeyInv'
<1>1. /\ ap \in ApWide /\ ap.cnt \in Int
      /\ \A n \in Sent : FrameOK(ap, n)
      /\ \A n \in Range(held) : n.type \in {"2", "4", "G2"}
  BY ApNow DEF GroupInv, StaKeys
<1>2. /\ sta.replaycnt \in Int /\ sta'.replaycnt \in Int
      /\ gk \in [Kid -> Gtk \cup {None}] /\ ap.txkey \in Kid /\ NextKid(ap) \in Kid
  BY <1>1, MaxCntIsCap, OtherKidFacts DEF IInv, StaInv, StaType, ApWide, NextKid
<1>3. \A n : InAssoc(ap, n)' = InAssoc(ap, n) BY DEF InAssoc
<1>4. \A n \in Sent' : Carries(n) => n \in Sent BY DEF Replies, Carries
<1>5. \A n \in Sent' : Live(ap, n)' => n \in Sent /\ Live(ap, n)
  <2> SUFFICES ASSUME NEW n \in Sent', Live(ap, n)' PROVE n \in Sent /\ Live(ap, n)
    OBVIOUS
  <2>1. /\ Carries(n) /\ InAssoc(ap, n) /\ (sta'.ok => n.cnt > sta'.replaycnt)
    BY <1>3 DEF Live
  <2>2. n \in Sent /\ n.cnt \in Int BY <1>1, <1>4, <2>1 DEF FrameOK, Typed
  <2> QED BY <1>2, <2>1, <2>2 DEF Live
<1>6. \A n \in Sent : Carries(n) => n \in Sent' BY <1>1 DEF Sent, Carries
<1>7. NoGroupMsg1(ap, Sent)' = NoGroupMsg1(ap, Sent)
  BY <1>3, <1>4, <1>6 DEF NoGroupMsg1, Carries
<1>8. ASSUME ap.here, NEW k \in Kid, HasKey(k) PROVE HasKey(k)'
  <2>1. CASE gk' = gk BY <1>8, <2>1 DEF HasKey
  <2>2. CASE \E m \in Sent : Live(ap, m) /\ gk' = [gk EXCEPT ![m.kid] = m.gtk]
    <3>1. PICK m \in Sent : Live(ap, m) /\ gk' = [gk EXCEPT ![m.kid] = m.gtk] BY <2>2
    <3>2. m.gtk = ap.gtk[m.kid] BY <1>8, <3>1, AllUpToDate DEF UpToDate
    <3>3. m.kid \in Kid BY <1>1, <3>1 DEF FrameOK, Typed, Live
    <3> QED BY <1>2, <1>8, <3>1, <3>2, <3>3 DEF HasKey
  <2> QED BY <2>1, <2>2
<1>9. AnswersSent(ap, Sent)'
  <2>1. AnswersSent(ap, Sent) BY DEF RekeyInv
  <2>2. ASSUME NEW n \in Sent', n.type \in {"4", "G2"}, InAssoc(ap, n)
        PROVE  n.cnt <= ap.cnt
    <3>1. CASE n \in Sent BY <2>1, <2>2, <3>1 DEF AnswersSent
    <3>2. CASE Replies(n)
      BY <1>1, <2>1, <2>2, <3>2 DEF Replies, FrameOK, Carries, AnswersSent, InAssoc
    <3> QED BY <3>1, <3>2
  <2>3. ASSUME NEW n \in Sent', n.type = "G2", InAssoc(ap, n)
        PROVE  ~NoGroupMsg1(ap, Sent)
    <3>1. CASE n \in Sent BY <2>1, <2>3, <3>1 DEF AnswersSent
    <3>2. CASE Replies(n)
      BY <2>1, <2>3, <3>2 DEF Replies, AnswersSent, InAssoc, NoGroupMsg1
    <3> QED BY <3>1, <3>2
  <2> QED BY <1>3, <1>7, <2>2, <2>3 DEF AnswersSent
<1>10. ASSUME ap.here
       PROVE  FramesHaveKid(ap, Sent)' /\ CrossedEnds(ap, Sent)' /\ PortProtects(ap, Sent)'
  <2>1. FramesHaveKid(ap, Sent) /\ CrossedEnds(ap, Sent) /\ PortProtects(ap, Sent)
    BY <1>10 DEF RekeyInv
  <2>2. FramesHaveKid(ap, Sent)'
    BY <1>3, <1>4, <1>5, <2>1 DEF FramesHaveKid, Carries, NextKid, OtherKid
  <2>3. CrossedEnds(ap, Sent)'
    <3> SUFFICES ASSUME ap.rstate = "PTKINITNEGOTIATING", ~NoGroupMsg1(ap, Sent),
                        NEW n \in Sent', n.type \in {"3", "4"}, InAssoc(ap, n)
                 PROVE  n.cnt < ap.cnt
      BY <1>3, <1>7, <2>1 DEF CrossedEnds
    <3>1. \A m \in Sent : m.type \in {"3", "4"} /\ InAssoc(ap, m) => m.cnt < ap.cnt
      BY <2>1 DEF CrossedEnds
    <3>2. CASE n \in Sent BY <3>1, <3>2
    <3>3. CASE Replies(n) BY <3>1, <3>3 DEF Replies, InAssoc
    <3> QED BY <3>2, <3>3
  <2>4. PortProtects(ap, Sent)' BY <1>5, <2>1 DEF PortProtects
  <2> QED BY <2>2, <2>3, <2>4
<1>11. StaHasKey'
  <2>1. StaHasKey BY DEF RekeyInv
  <2>2. Linked' = Linked BY DEF Linked
  <2>3. Joined' /\ ~Joined => ap.here /\ (sta'.port \/ sta'.rxprot) /\ ~(sta.port \/ sta.rxprot)
    BY <2>2 DEF Joined, Linked
  <2>4. Joined' => ~Keyless(ap)' BY <2>1, <2>3 DEF StaHasKey, Keyless
  <2>5. ASSUME Joined', NoGroupMsg1(ap, Sent) \/ ap.port PROVE HasKey(ap.txkey)'
    <3>1. CASE Joined
      <4>1. HasKey(ap.txkey) /\ ap.here BY <2>1, <2>5, <3>1 DEF StaHasKey, Joined, Linked
      <4> QED BY <1>2, <1>8, <4>1 DEF HasKey
    <3>2. CASE ~Joined BY <2>3, <2>5, <3>2 DEF HasKey
    <3> QED BY <3>1, <3>2
  <2>6. ASSUME Linked, ap.gstate = "REKEYNEGOTIATING", NEW n \in Sent', n.type = "G2",
               InAssoc(ap, n), n.cnt = ap.cnt
        PROVE  HasKey(NextKid(ap))'
    <3>1. ap.here BY <2>6 DEF Linked
    <3>2. CASE HasKey(NextKid(ap)) BY <1>2, <1>8, <3>1, <3>2 DEF HasKey, NextKid, OtherKid
    <3>3. CASE ~HasKey(NextKid(ap))
      <4>1. \A m \in Sent : ~(m.type = "G2" /\ InAssoc(ap, m) /\ m.cnt = ap.cnt)
        BY <2>1, <2>6, <3>3 DEF StaHasKey
      <4>2. n \notin Sent BY <2>6, <4>1
      <4>3. PICK m \in Sent : /\ m.type = "G1" /\ InAssoc(ap, m) /\ n.cnt = m.cnt
                              /\ gk'[m.kid] = ap.gtk[m.kid]
        BY <2>6, <3>1, <4>1, <4>2 DEF Replies, InAssoc
      <4>4. m.kid = NextKid(ap) BY <2>6, <3>1, <4>3 DEF RekeyInv, FramesHaveKid
      <4>5. gk'[NextKid(ap)] = ap.gtk[NextKid(ap)] BY <4>3, <4>4
      <4> QED BY <4>5 DEF HasKey, NextKid, OtherKid
    <3> QED BY <3>2, <3>3
  <2> QED BY <1>3, <1>7, <2>2, <2>4, <2>5, <2>6 DEF StaHasKey
<1> QED BY <1>9, <1>10, <1>11 DEF RekeyInv, RekeyHasTimer

(* The frames of the station after it sends frame f.                       *)
LEMMA RepliedFrames ==
    ASSUME IInv, GroupInv, NEW f, WellFormed(f), f.type \in {"2", "4", "G2"},
           NEW failed, StaSend(f, failed)
    PROVE  /\ \A n \in Sent' : n \in Sent \/ /\ n.type = f.type /\ n.cnt = f.cnt
                                             /\ n.mic = f.mic
           /\ net \subseteq net'
<1> DEFINE g == StaProtects(f)
           p == IF sta.txprot THEN sta.key ELSE None
<1>1. f \in Message /\ held \in Seq(Message) /\ Len(held) <= MaxHeld
  BY DEF IInv, WellFormed
<1>2. g = [f EXCEPT !.prot = p] BY DEF StaProtects
<1> HIDE DEF p
<1>3. g.type = f.type /\ g.cnt = f.cnt /\ g.mic = f.mic BY <1>1, <1>2 DEF Message
<1>4. /\ \A m \in net' : m \in net \/ m = g
      /\ \A m \in Range(held') : m \in Range(held) \/ m = f
      /\ net \subseteq net'
  BY <1>1, StaSendFacts
<1> QED BY <1>3, <1>4 DEF Sent

(* ieee80211_recv_4way_msg1.                                               *)
LEMMA RecvMsg1Rekey ==
    ASSUME IInv, GroupInv, RekeyInv, NEW m \in net, RecvMsg1(m)
    PROVE  RekeyInv'
<1>1. /\ m.type = "1" /\ sta.state # "INITIALIZE" /\ sta.snonce < MaxNonce
      /\ UNCHANGED <<gk, ap>>
      /\ sta' = [sta EXCEPT !.anonce = m.nonce, !.snonce = @ + 1, !.newptk = TRUE,
                            !.state = "PTKNEGOTIATING"]
  BY DEF RecvMsg1
<1>2. PICK failed \in BOOLEAN :
        StaSend(Frame("2", m.cnt, sta'.snonce, <<m.nonce, sta'.snonce>>, 0, 0), failed)
  BY DEF RecvMsg1
<1>3. m.nonce \in 1 .. MaxAssoc /\ m.cnt \in 0 .. MaxCnt
  BY <1>1 DEF IInv, Sent, WellFormed, Message
<1>4. sta \in StaType /\ sta.link = "run" BY <1>1 DEF IInv, StaInv
<1>5. sta' \in StaType BY RecvMsg1Inv DEF IInv, StaInv
<1>6. /\ sta'.link = "run" /\ sta'.snonce = sta.snonce + 1
      /\ sta'.assoc = sta.assoc /\ sta'.ok = sta.ok /\ sta'.replaycnt = sta.replaycnt
      /\ sta'.port = sta.port /\ sta'.rxprot = sta.rxprot
      /\ sta.snonce \in Nat /\ sta.replaycnt <= sta.replaycnt
  BY <1>1, <1>4, MaxCntIsCap DEF StaType
<1> DEFINE mic == <<m.nonce, sta'.snonce>>
           f == Frame("2", m.cnt, sta'.snonce, mic, 0, 0)
<1>7. sta'.snonce \in 1 .. MaxNonce /\ mic \in Ptk
  BY <1>1, <1>3, <1>6, FourWayAssumption DEF Ptk
<1>8. StaSend(f, failed) BY <1>2
<1> HIDE DEF mic
<1>9. WellFormed(f) /\ f.type = "2" BY <1>3, <1>7, FrameFacts
<1> HIDE DEF f
<1>10. /\ \A n \in Sent' : n \in Sent \/ Replies(n)
       /\ net \subseteq net'
  BY <1>8, <1>9, RepliedFrames DEF Replies
<1> QED BY <1>1, <1>4, <1>5, <1>6, <1>10, StaRekey

(* The group key of a message that the station takes is in place.          *)
LEMMA KeyInPlace ==
    ASSUME IInv, NEW m, WellFormed(m), Carries(m), NEW refused, SetGroupKey(m, refused)
    PROVE  /\ gk'[m.kid] = m.gtk
           /\ gk' = gk \/ gk' = [gk EXCEPT ![m.kid] = m.gtk]
<1>1. m.kid \in Kid /\ gk \in [Kid -> Gtk \cup {None}] BY DEF WellFormed, Carries, IInv
<1> QED BY <1>1 DEF SetGroupKey, MustUpdate

(* A step of the station on message 3: the key in it is the one in use.    *)
LEMMA Msg3Rekey ==
    ASSUME IInv, GroupInv, RekeyInv, NEW m \in net, IsMsg3(m), ap' = ap, sta' \in StaType,
           sta'.link = sta.link, sta'.assoc = sta.assoc, sta'.ok, sta'.replaycnt = m.cnt,
           NEW failed, StaSend(Frame("4", m.cnt, 0, m.mic, 0, 0), failed),
           \/ gk' = gk /\ sta'.port = sta.port /\ sta'.rxprot = sta.rxprot
           \/ \E refused : SetGroupKey(m, refused)
    PROVE  RekeyInv'
<1>1. /\ m.type = "3" /\ WellFormed(m) /\ m.cnt \in 0 .. MaxCnt /\ m.mic \in Ptk
      /\ m.mic[1] = ap.assoc /\ sta \in StaType /\ sta.link = "run" /\ ~Keyless(ap)
  BY Msg3Facts
<1>2. /\ m.cnt \in Int /\ sta.replaycnt \in Int /\ m \in Sent
  BY <1>1, MaxCntIsCap DEF StaType, Sent
<1>3. sta.ok => m.cnt > sta.replaycnt BY <1>2 DEF IsMsg3, Replayed
<1> DEFINE f == Frame("4", m.cnt, 0, m.mic, 0, 0)
<1>4. WellFormed(f) /\ f.type = "4" BY <1>1, FrameFacts, FourWayAssumption
<1>5. f.cnt = m.cnt BY DEF Frame
<1>6. StaSend(f, failed) OBVIOUS
<1> HIDE DEF f
<1>7. Live(ap, m) /\ InAssoc(ap, m) /\ Carries(m)
  BY <1>1, <1>3, PtkFacts DEF Live, Carries, InAssoc
<1>8. \A n : n.type = "4" /\ n.cnt = m.cnt => Replies(n)
  BY <1>1, <1>2, <1>7 DEF Replies
<1>9. /\ \A n \in Sent' : n \in Sent \/ Replies(n)
      /\ net \subseteq net'
  BY <1>4, <1>5, <1>6, <1>8, RepliedFrames
<1>10. \/ gk' = gk
       \/ \E n \in Sent : Live(ap, n) /\ gk' = [gk EXCEPT ![n.kid] = n.gtk]
  BY <1>1, <1>2, <1>7, KeyInPlace
<1>11. ap.here /\ (sta'.port \/ sta'.rxprot) /\ ~(sta.port \/ sta.rxprot) =>
         /\ ~Keyless(ap)
         /\ NoGroupMsg1(ap, Sent) \/ ap.port => gk'[ap.txkey] = ap.gtk[ap.txkey]
  <2> SUFFICES ASSUME ap.here, sta'.port \/ sta'.rxprot, ~(sta.port \/ sta.rxprot)
               PROVE  gk'[ap.txkey] = ap.gtk[ap.txkey]
    BY <1>1
  <2>1. PICK refused : SetGroupKey(m, refused) OBVIOUS
  <2>2. gk'[m.kid] = m.gtk BY <1>1, <1>7, <2>1, KeyInPlace
  <2>3. m.gtk = ap.gtk[m.kid] BY <1>2, <1>7, AllUpToDate DEF UpToDate
  <2>4. m.kid = ap.txkey BY <1>1, <1>2, <1>7 DEF RekeyInv, FramesHaveKid
  <2> QED BY <2>2, <2>3, <2>4
<1>12. sta.ok => sta'.ok /\ sta.replaycnt <= sta'.replaycnt BY <1>2, <1>3
<1>13. sta'.link = "run" BY <1>1
<1> QED BY <1>1, <1>9, <1>10, <1>11, <1>12, <1>13, StaRekey

(* Message 3 when the answer cannot be sent.                               *)
LEMMA UnansweredRekey ==
    ASSUME IInv, GroupInv, RekeyInv, NEW m \in net, RecvMsg3Unanswered(m)
    PROVE  RekeyInv'
<1>1. /\ IsMsg3(m) /\ sta' = Confirmed(m) /\ UNCHANGED <<gk, ap>>
      /\ StaSend(Frame("4", m.cnt, 0, m.mic, 0, 0), TRUE)
  BY DEF RecvMsg3Unanswered
<1>2. sta \in StaType /\ m.mic = <<sta.anonce, sta.snonce>> BY <1>1, Msg3Facts
<1>3. sta' \in StaType BY UnansweredInv DEF IInv, StaInv
<1>4. /\ sta'.link = sta.link /\ sta'.assoc = sta.assoc /\ sta'.ok
      /\ sta'.replaycnt = m.cnt
  BY <1>1, <1>2, ConfirmedKeys
<1>5. sta'.port = sta.port /\ sta'.rxprot = sta.rxprot
  BY <1>1, <1>2 DEF Confirmed, StaType
<1> QED BY <1>1, <1>3, <1>4, <1>5, Msg3Rekey

(* Message 3 when the driver refuses the pairwise key.                     *)
LEMMA RefusedRekey ==
    ASSUME IInv, GroupInv, RekeyInv, NEW m \in net, RecvMsg3Refused(m)
    PROVE  RekeyInv'
<1> DEFINE c == Confirmed(m)
<1>1. /\ IsMsg3(m) /\ sta' = [c EXCEPT !.key = m.mic] /\ UNCHANGED <<gk, ap>>
      /\ StaSend(Frame("4", m.cnt, 0, m.mic, 0, 0), FALSE)
  BY DEF RecvMsg3Refused
<1>2. /\ sta \in StaType /\ m.mic = <<sta.anonce, sta.snonce>> /\ m.cnt \in 0 .. MaxCnt
      /\ <<sta.anonce, sta.snonce>> \in Ptk
  BY <1>1, Msg3Facts
<1>3. sta' \in StaType BY RefusedInv DEF IInv, StaInv
<1>4. c.port = sta.port /\ c.rxprot = sta.rxprot BY <1>2 DEF Confirmed, StaType
<1>5. /\ c.link = sta.link /\ c.assoc = sta.assoc /\ c.ok /\ c.replaycnt = m.cnt
      /\ c \in StaType
  BY <1>2, ConfirmedKeys, ConfirmedFacts
<1> HIDE DEF c
<1>6. /\ sta'.link = sta.link /\ sta'.assoc = sta.assoc /\ sta'.ok
      /\ sta'.replaycnt = m.cnt /\ sta'.port = sta.port /\ sta'.rxprot = sta.rxprot
  BY <1>1, <1>4, <1>5 DEF StaType
<1> QED BY <1>1, <1>3, <1>6, Msg3Rekey

(* ieee80211_recv_4way_msg3.                                               *)
LEMMA RecvMsg3Rekey ==
    ASSUME IInv, GroupInv, RekeyInv, NEW m \in net, RecvMsg3(m)
    PROVE  RekeyInv'
<1> DEFINE c == Confirmed(m)
           k == [c EXCEPT !.key = m.mic, !.newptk = FALSE, !.rxprot = TRUE, !.txprot = FALSE]
           s == IF sta.newptk THEN k ELSE c
           t == [s EXCEPT !.rxprot = TRUE, !.txprot = TRUE, !.port = TRUE]
           Kept(u) == /\ u.link = sta.link /\ u.assoc = sta.assoc /\ u.ok
                      /\ u.replaycnt = m.cnt
<1>1. PICK refused \in BOOLEAN :
        /\ IsMsg3(m)
        /\ StaSend(Frame("4", m.cnt, 0, m.mic, 0, 0), FALSE)
        /\ SetGroupKey(m, refused)
        /\ sta' = IF refused THEN s ELSE t
        /\ UNCHANGED <<ap, apUsed>>
  BY DEF RecvMsg3
<1>2. /\ sta \in StaType /\ m.mic = <<sta.anonce, sta.snonce>> /\ m.cnt \in 0 .. MaxCnt
      /\ <<sta.anonce, sta.snonce>> \in Ptk
  BY <1>1, Msg3Facts
<1>3. sta' \in StaType BY RecvMsg3Inv DEF IInv, StaInv
<1>4. Kept(c) /\ c \in StaType BY <1>2, ConfirmedKeys, ConfirmedFacts
<1> HIDE DEF c
<1>5. Kept(k) BY <1>4 DEF StaType
<1>6. k \in StaType
  <2> DEFINE u == [c EXCEPT !.key = m.mic, !.newptk = FALSE]
  <2>1. u \in StaType BY <1>2, <1>4 DEF StaType
  <2>2. k = [u EXCEPT !.rxprot = TRUE, !.txprot = FALSE] OBVIOUS
  <2> HIDE DEF u, k
  <2> QED BY <2>1, <2>2 DEF StaType
<1> HIDE DEF k
<1>7. Kept(s) /\ s \in StaType BY <1>4, <1>5, <1>6
<1> HIDE DEF s
<1>8. Kept(t) BY <1>7 DEF StaType
<1>9. Kept(sta') BY <1>1, <1>7, <1>8
<1>10. ap' = ap /\ \E r : SetGroupKey(m, r) BY <1>1
<1> QED BY <1>1, <1>3, <1>9, <1>10, Msg3Rekey

(* ieee80211_recv_rsn_group_msg1: a port that opens here has not been told *)
(* of by message 4, since the station takes no unprotected frame after it. *)
LEMMA RecvGroupMsg1Rekey ==
    ASSUME IInv, GroupInv, RekeyInv, NEW m \in net, RecvGroupMsg1(m)
    PROVE  RekeyInv'
<1>1. PICK refused \in BOOLEAN :
        /\ m.type = "G1" /\ sta.state = "PTKDONE" /\ m.cnt > sta.replaycnt
        /\ m.mic = sta.ptk /\ SetGroupKey(m, refused) /\ StaAccepts(m)
        /\ IF refused
           THEN UNCHANGED <<sta, net, held>>
           ELSE /\ sta' = [sta EXCEPT !.port = TRUE, !.replaycnt = m.cnt]
                /\ \E failed \in BOOLEAN :
                     StaSend(Frame("G2", m.cnt, 0, sta.ptk, 0, 0), failed)
        /\ UNCHANGED ap
  BY DEF RecvGroupMsg1
<1>2. /\ WellFormed(m) /\ m.cnt \in 0 .. MaxCnt /\ sta \in StaType /\ m \in Sent
      /\ sta.link = "run"
  BY <1>1 DEF IInv, Sent, StaInv, WellFormed, Message
<1>3. sta.ok /\ sta.ptk \in Ptk /\ sta.ptk[1] = ap.assoc BY <1>1 DEF GroupInv, StaKeys
<1>4. m.cnt \in Int /\ sta.replaycnt \in Int BY <1>2, MaxCntIsCap DEF StaType
<1>5. Live(ap, m) /\ InAssoc(ap, m) /\ Carries(m)
  BY <1>1, <1>2, <1>3, PtkFacts DEF Live, Carries, InAssoc
<1>6. sta' \in StaType BY RecvGroupMsg1Inv DEF IInv, StaInv
<1>7. /\ sta'.link = "run" /\ sta'.assoc = sta.assoc /\ sta'.ok = sta.ok
      /\ sta.replaycnt <= sta'.replaycnt
  <2>1. CASE refused BY <1>1, <1>2, <1>4, <2>1
  <2>2. CASE ~refused
    <3>1. sta' = [sta EXCEPT !.port = TRUE, !.replaycnt = m.cnt] BY <1>1, <2>2
    <3>2. sta'.replaycnt = m.cnt BY <1>2, <3>1 DEF StaType
    <3>3. sta.replaycnt <= m.cnt BY <1>1, <1>4
    <3> QED BY <1>2, <3>1, <3>2, <3>3 DEF StaType
  <2> QED BY <2>1, <2>2
<1>8. /\ gk'[m.kid] = m.gtk
      /\ gk' = gk \/ gk' = [gk EXCEPT ![m.kid] = m.gtk]
  BY <1>1, <1>2, <1>5, KeyInPlace
<1>9. ap.here => gk'[m.kid] = ap.gtk[m.kid]
  BY <1>2, <1>5, <1>8, AllUpToDate DEF UpToDate
<1>10. /\ \A n \in Sent' : n \in Sent \/ Replies(n)
       /\ net \subseteq net'
  <2>1. CASE refused BY <1>1, <2>1 DEF Sent
  <2>2. CASE ~refused
    <3> DEFINE f == Frame("G2", m.cnt, 0, sta.ptk, 0, 0)
    <3>1. PICK failed \in BOOLEAN : StaSend(f, failed) BY <1>1, <2>2
    <3>2. WellFormed(f) /\ f.type = "G2" BY <1>2, <1>3, FrameFacts, FourWayAssumption
    <3>3. f.cnt = m.cnt BY DEF Frame
    <3> HIDE DEF f
    <3>4. \A n : n.type = "G2" /\ n.cnt = m.cnt => Replies(n)
      BY <1>1, <1>2, <1>5, <1>9 DEF Replies
    <3> QED BY <3>1, <3>2, <3>3, <3>4, RepliedFrames
  <2> QED BY <2>1, <2>2
<1>11. ap.here /\ (sta'.port \/ sta'.rxprot) /\ ~(sta.port \/ sta.rxprot) =>
         /\ ~Keyless(ap)
         /\ NoGroupMsg1(ap, Sent) \/ ap.port => gk'[ap.txkey] = ap.gtk[ap.txkey]
  <2> SUFFICES ASSUME ap.here, ~sta.rxprot
               PROVE  ~Keyless(ap) /\ ~NoGroupMsg1(ap, Sent) /\ ~ap.port
    OBVIOUS
  <2>1. FrameOK(ap, m) BY <1>2, ApNow
  <2>2. m.prot = None BY <1>1 DEF StaAccepts
  <2>3. ~ap.port BY <1>2, <1>5, <2>2 DEF RekeyInv, PortProtects
  <2> QED BY <1>1, <1>2, <1>5, <2>1, <2>3 DEF FrameOK, NoGroupMsg1
<1>12. \/ gk' = gk
       \/ \E n \in Sent : Live(ap, n) /\ gk' = [gk EXCEPT ![n.kid] = n.gtk]
  BY <1>2, <1>5, <1>8
<1> QED BY <1>1, <1>2, <1>6, <1>7, <1>10, <1>11, <1>12, StaRekey

(* The output queue of the station goes on the air.                        *)
LEMMA DrainRekey ==
    ASSUME IInv, GroupInv, RekeyInv, Drain
    PROVE  RekeyInv'
<1>1. /\ UNCHANGED <<sta, gk, ap>> /\ sta.link = "run" /\ sta \in StaType
      /\ net' = net \cup {StaProtects(m) : m \in Range(held)} /\ held' = <<>>
  BY DEF Drain, IInv, StaInv
<1>2. Range(held') = {} BY <1>1 DEF Range
<1>3. \A m \in Range(held) : Replies(StaProtects(m))
  <2> SUFFICES ASSUME NEW m \in Range(held) PROVE Replies(StaProtects(m)) OBVIOUS
  <2>1. m \in Message /\ m.type \in {"2", "4", "G2"} /\ m \in Sent
    BY DEF IInv, Sent, WellFormed, GroupInv, StaKeys
  <2> DEFINE p == IF sta.txprot THEN sta.key ELSE None
             g == StaProtects(m)
  <2>2. g = [m EXCEPT !.prot = p] BY DEF StaProtects
  <2> HIDE DEF p, g
  <2>3. g.type = m.type /\ g.cnt = m.cnt /\ g.mic = m.mic BY <2>1, <2>2 DEF Message
  <2>4. Replies(g) BY <2>1, <2>3 DEF Replies
  <2> QED BY <2>4 DEF g
<1>4. (\A n \in Sent' : n \in Sent \/ Replies(n)) /\ net \subseteq net'
  BY <1>1, <1>2, <1>3 DEF Sent
<1>5. sta.replaycnt <= sta.replaycnt BY <1>1, MaxCntIsCap DEF StaType
<1> QED BY <1>1, <1>4, <1>5, StaRekey

(* A step that ends, or is outside, an association in which the station    *)
(* could take a group key.                                                 *)
LEMMA AwayRekey ==
    ASSUME RekeyInv, UNCHANGED <<ap, net, held>>,
           sta'.link # "auth" => ~sta'.port /\ ~sta'.rxprot,
           \A m \in Sent : m.type \in {"3", "G1", "4", "G2"} /\ InAssoc(ap, m) =>
             sta'.link # "run"
    PROVE  RekeyInv'
<1>1. Sent' = Sent /\ \A m : InAssoc(ap, m)' = InAssoc(ap, m) BY DEF Sent, InAssoc
<1>2. \A m \in Sent' : ~Live(ap, m)' BY <1>1 DEF Live, Carries
<1>3. AnswersSent(ap, Sent)' BY <1>1 DEF RekeyInv, AnswersSent, NoGroupMsg1
<1>4. CrossedEnds(ap, Sent) => CrossedEnds(ap, Sent)'
  BY <1>1 DEF CrossedEnds, NoGroupMsg1
<1>5. FramesHaveKid(ap, Sent) => FramesHaveKid(ap, Sent)'
  BY <1>1, <1>2 DEF FramesHaveKid, NextKid, OtherKid
<1>6. PortProtects(ap, Sent) => PortProtects(ap, Sent)' BY <1>2 DEF PortProtects
<1>7. StaHasKey' BY <1>1 DEF StaHasKey, Joined, Linked
<1> QED BY <1>3, <1>4, <1>5, <1>6, <1>7 DEF RekeyInv, RekeyHasTimer

(* The station leaves RUN.                                                 *)
LEMMA LeaveRekey ==
    ASSUME IInv, RekeyInv, Leave
    PROVE  RekeyInv'
<1>1. /\ sta' = [sta EXCEPT !.link = "auth", !.state = "INITIALIZE"] /\ sta \in StaType
      /\ UNCHANGED <<ap, net, held>>
  BY DEF Leave, IInv, StaInv
<1>2. sta'.link = "auth" BY <1>1 DEF StaType
<1> QED BY <1>1, <1>2, AwayRekey

(* The station starts a new association.                                   *)
LEMMA AuthOpenRekey ==
    ASSUME IInv, RekeyInv, AuthOpen
    PROVE  RekeyInv'
<1> DEFINE s == [sta EXCEPT !.link = "assoc", !.rxprot = FALSE, !.txprot = FALSE]
<1>1. /\ sta' = [s EXCEPT !.port = FALSE, !.ok = FALSE, !.key = None]
      /\ sta \in StaType /\ UNCHANGED <<ap, net, held>>
  BY DEF AuthOpen, IInv, StaInv
<1>2. s.link = "assoc" /\ s.rxprot = FALSE /\ s \in StaType BY <1>1 DEF StaType
<1> HIDE DEF s
<1>3. sta'.link = "assoc" /\ ~sta'.port /\ ~sta'.rxprot BY <1>1, <1>2 DEF StaType
<1> QED BY <1>1, <1>3, AwayRekey

(* The access point has answered a new association request: no frame of    *)
(* this association has a MIC yet, and the station has no key.             *)
LEMMA AssocRespRekey ==
    ASSUME IInv, GroupInv, RekeyInv, AssocResp
    PROVE  RekeyInv'
<1>1. /\ sta' = [sta EXCEPT !.link = "run", !.state = "PTKSTART", !.assoc = ap.assoc]
      /\ sta \in StaType /\ sta.link = "assoc" /\ ap.here /\ sta.assoc < ap.assoc
      /\ UNCHANGED <<ap, net, held>>
  BY DEF AssocResp, IInv, StaInv
<1>2. sta'.port = sta.port /\ sta'.rxprot = sta.rxprot BY <1>1 DEF StaType
<1>3. ~sta.port /\ ~sta.rxprot BY <1>1 DEF RekeyInv, StaHasKey
<1>4. /\ ap \in ApWide /\ ap.assoc \in Nat /\ KeysInv(ap)
      /\ \A n \in Sent : FrameOK(ap, n) /\ AnswerOK(n)
  BY ApNow
<1>5. sta.assoc \in Nat /\ sta.assoc # ap.assoc BY <1>1, <1>4 DEF StaType
<1>6. Keyless(ap) BY <1>1, <1>4, <1>5 DEF KeysInv, Keyless, ApWide, RState
<1>7. \A m \in Sent : m.type \in {"3", "G1", "4", "G2"} => ~InAssoc(ap, m)
  BY <1>4, <1>5, <1>6 DEF FrameOK, AnswerOK, Carries
<1> QED BY <1>1, <1>2, <1>3, <1>7, AwayRekey

-----------------------------------------------------------------------------
(* Every step of either side keeps the invariant.                          *)
LEMMA RekeyStep ==
    ASSUME MbufsFail = FALSE, IInv, GroupInv, RekeyInv, [Next]_vars
    PROVE  RekeyInv'
<1>1. CASE StaReceives
  <2>1. PICK m \in net : \/ RecvMsg1(m) \/ RecvMsg3(m) \/ RecvMsg3Unanswered(m)
                         \/ RecvMsg3Refused(m) \/ RecvGroupMsg1(m)
    BY <1>1 DEF StaReceives
  <2> QED
    BY <2>1, RecvMsg1Rekey, RecvMsg3Rekey, UnansweredRekey, RefusedRekey,
       RecvGroupMsg1Rekey
<1>2. CASE ApReceives
  <2>1. PICK m \in net : RecvMsg2(m) \/ RecvMsg4(m) \/ RecvGroupMsg2(m)
    BY <1>2 DEF ApReceives
  <2> QED BY <2>1, RecvMsg2Rekey, RecvMsg4Rekey, RecvGroupMsg2Rekey
<1>3. CASE Leave BY <1>3, LeaveRekey
<1>4. CASE AuthOpen BY <1>4, AuthOpenRekey
<1>5. CASE AssocResp BY <1>5, AssocRespRekey
<1>6. CASE Drain BY <1>6, DrainRekey
<1>7. CASE Join BY <1>7, JoinRekey
<1>8. CASE ApLeave BY <1>8, ApLeaveRekey
<1>9. CASE EapolTimeout BY <1>9, EapolTimeoutRekey
<1>10. CASE GtkRekey BY <1>10, GtkRekeyRekey
<1>11. CASE UNCHANGED vars
  <2>1. UNCHANGED <<sta, gk, ap, net, held>> BY <1>11 DEF vars
  <2>2. /\ Sent' = Sent /\ Linked' = Linked /\ Joined' = Joined
        /\ \A m : Live(ap, m)' = Live(ap, m) /\ InAssoc(ap, m)' = InAssoc(ap, m)
    BY <2>1 DEF Sent, Linked, Joined, Live, InAssoc
  <2>3. AnswersSent(ap, Sent)' /\ RekeyHasTimer(ap)'
    BY <2>1, <2>2 DEF RekeyInv, AnswersSent, NoGroupMsg1, RekeyHasTimer
  <2>4. FramesHaveKid(ap, Sent) => FramesHaveKid(ap, Sent)'
    BY <2>1, <2>2 DEF FramesHaveKid, NextKid, OtherKid
  <2>5. CrossedEnds(ap, Sent) => CrossedEnds(ap, Sent)'
    BY <2>1, <2>2 DEF CrossedEnds, NoGroupMsg1
  <2>6. PortProtects(ap, Sent) => PortProtects(ap, Sent)'
    BY <2>1, <2>2 DEF PortProtects
  <2>7. StaHasKey'
    BY <2>1, <2>2 DEF RekeyInv, StaHasKey, NoGroupMsg1, HasKey, NextKid, OtherKid, Keyless
  <2> QED BY <2>1, <2>3, <2>4, <2>5, <2>6, <2>7 DEF RekeyInv
<1> QED
  BY <1>1, <1>2, <1>3, <1>4, <1>5, <1>6, <1>7, <1>8, <1>9, <1>10, <1>11 DEF Next

(* An access point that never lacks an mbuf changes to the next group key  *)
(* (ieee80211_setkeysdone) only when the station with a complete handshake *)
(* has it: also when the group key handshake crosses the 4-way handshake,  *)
(* and with answers and keys of any earlier rekeying on their way.         *)
THEOREM StationsCorrect == MbufsFail = FALSE => (Spec => []StationsHaveGroupKey)
<1> SUFFICES ASSUME MbufsFail = FALSE PROVE Spec => []StationsHaveGroupKey
  OBVIOUS
<1>1. Init => IInv /\ GroupInv /\ RekeyInv BY InitInv, GroupInit, RekeyInit
<1>2. IInv /\ GroupInv /\ RekeyInv /\ [Next]_vars => IInv' /\ GroupInv' /\ RekeyInv'
  BY NextStep, GroupStep, RekeyStep
<1>3. RekeyInv => StationsHaveGroupKey
  BY DEF RekeyInv, StaHasKey, Joined, HasKey, StationsHaveGroupKey
<1> QED BY <1>1, <1>2, <1>3, PTL DEF Spec
=============================================================================

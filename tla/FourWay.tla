------------------------------ MODULE FourWay ------------------------------
(***************************************************************************)
(* The 4-way and group key handshakes of net80211 (ieee80211_pae_input.c,  *)
(* ieee80211_pae_output.c) between a station and an access point.  A       *)
(* message that was sent may arrive at any later time, once, several times *)
(* or never.  The station's node is "sta", the access point's node for it, *)
(* with the group keys, is "ap".  A pairwise key is the pair of the nonces *)
(* it is derived from; a MIC is the key it was computed with.              *)
(***************************************************************************)
EXTENDS Integers, Sequences, FiniteSets, Functions

CONSTANTS
    None,       \* no key, no nonce
    MaxRetries, \* attempts of the access point, 3 in the code
    MaxNonce,   \* bound: nonces the station draws
    MaxAssoc,   \* bound: associations
    MaxGtk,     \* bound: group keys the access point draws
    MaxHeld,    \* bound: frames the station's output queue holds back
    MbufsFail   \* the access point may be out of mbufs

ASSUME FourWayAssumption ==
    /\ MaxRetries \in Nat \ {0}
    /\ MaxNonce \in Nat /\ MaxAssoc \in Nat \ {0} /\ MaxGtk \in Nat \ {0}
    /\ MaxHeld \in Nat /\ MbufsFail \in BOOLEAN
    /\ None \notin Nat /\ None \notin Nat \X Nat

VARIABLES
    sta,      \* ic_bss of the station: its side of both handshakes
    gk,       \* ic_nw_keys of the station
    ap,       \* the node of the station at the access point; its group keys
    net,      \* every frame transmitted so far
    held,     \* if_snd of the station: frames not yet encapsulated
    staUsed,  \* history: pairwise keys given to ic_set_key by the station
    gkUsed,   \* history: group keys likewise, since they were last cleared
    apUsed    \* history: pairwise keys given to ic_set_key by the access point

vars == <<sta, gk, ap, net, held, staUsed, gkUsed, apUsed>>

Kid == {1, 2}
Ptk == (1 .. MaxAssoc) \X (1 .. MaxNonce)
Gtk == 1 .. MaxGtk
(* MaxRetries transmissions each of message 1, of message 3, of each group message *)
MaxCnt == MaxRetries * (2 + MaxGtk)

Message == [type : {"1", "2", "3", "4", "G1", "G2"}, cnt : 0 .. MaxCnt,
            nonce : 0 .. MaxNonce + MaxAssoc, mic : Ptk \cup {None},
            prot : Ptk \cup {None}, kid : {0} \cup Kid, gtk : {0} \cup Gtk]

TypeOK ==
    /\ sta \in [link : {"auth", "assoc", "run"}, assoc : 0 .. MaxAssoc,
                state : {"INITIALIZE", "PTKSTART", "PTKNEGOTIATING", "PTKDONE"},
                anonce : 0 .. MaxAssoc, snonce : 0 .. MaxNonce,
                replaycnt : 0 .. MaxCnt, ok : BOOLEAN, newptk : BOOLEAN,
                ptk : Ptk \cup {None}, key : Ptk \cup {None},
                rxprot : BOOLEAN, txprot : BOOLEAN, port : BOOLEAN]
    /\ gk \in [Kid -> Gtk \cup {None}]
    /\ ap \in [assoc : 0 .. MaxAssoc, here : BOOLEAN,
               rstate : {"INITIALIZE", "PTKSTART", "PTKCALCNEGOTIATING",
                         "PTKINITNEGOTIATING", "PTKINITDONE"},
               gstate : {"IDLE", "REKEYNEGOTIATING"},
               cnt : -1 .. MaxCnt, ptk : Ptk \cup {None}, key : Ptk \cup {None},
               retries : 0 .. MaxRetries, timer : BOOLEAN, rekey : BOOLEAN,
               crossed : BOOLEAN, prot : BOOLEAN, port : BOOLEAN,
               txkey : Kid, gtk : [Kid -> Gtk \cup {None}], gtks : Gtk]
    /\ net \subseteq Message
    /\ held \in Seq(Message) /\ Len(held) <= MaxHeld
    /\ staUsed \in Seq(Ptk) /\ gkUsed \in Seq(Gtk) /\ apUsed \in Seq(Ptk)
-----------------------------------------------------------------------------
(* A frame without protection; ieee80211_encap protects it when it leaves. *)
Frame(type, cnt, nonce, mic, kid, gtk) ==
    [type |-> type, cnt |-> cnt, nonce |-> nonce, mic |-> mic, prot |-> None,
     kid |-> kid, gtk |-> gtk]

StaProtects(m) == [m EXCEPT !.prot = IF sta.txprot THEN sta.key ELSE None]

(* ieee80211_inputm: with protection on, a frame must be protected with our key; *)
(* with protection off, it must not be protected.                               *)
StaAccepts(m) == m \in net /\ m.prot = IF sta.rxprot THEN sta.key ELSE None
ApAccepts(m) == m \in net /\ ap.here /\ m.prot = IF ap.prot THEN ap.key ELSE None

(* ieee80211_send_eapol_key of the station: the queue is full or no mbuf is left *)
(* (failed), it drains at once, or the driver holds frames back for now.         *)
StaSend(m, failed) ==
    \/ failed /\ UNCHANGED <<net, held>>
    \/ ~failed /\ held = <<>> /\ net' = net \cup {StaProtects(m)} /\ UNCHANGED held
    \/ ~failed /\ Len(held) < MaxHeld /\ held' = Append(held, m) /\ UNCHANGED net

(* iwm_start finds room again. *)
Drain == /\ held # <<>> /\ sta.link = "run"
         /\ net' = net \cup {StaProtects(m) : m \in Range(held)}
         /\ held' = <<>>
         /\ UNCHANGED <<sta, gk, ap, staUsed, gkUsed, apUsed>>
-----------------------------------------------------------------------------
(* The station. *)

Replayed(m) == sta.ok /\ m.cnt <= sta.replaycnt

(* ieee80211_recv_4way_msg1, with ieee80211_send_4way_msg2 *)
RecvMsg1(m) ==
    /\ m.type = "1" /\ StaAccepts(m)
    /\ sta.state # "INITIALIZE"
    /\ ~Replayed(m)
    /\ sta.snonce < MaxNonce
    /\ sta' = [sta EXCEPT !.anonce = m.nonce, !.snonce = @ + 1, !.newptk = TRUE,
                          !.state = "PTKNEGOTIATING"]
    /\ \E failed \in BOOLEAN :
         StaSend(Frame("2", m.cnt, sta'.snonce, <<m.nonce, sta'.snonce>>, 0, 0), failed)
    /\ UNCHANGED <<gk, ap, staUsed, gkUsed, apUsed>>

(* Broken variant: a group key in place is installed again. *)
MustUpdateAlways(m) == m.gtk # 0

(* ieee80211_must_update_group_key *)
MustUpdate(m) == gk[m.kid] # m.gtk

(* ic_set_key of the group key in message m: installed, refused, or in place. *)
SetGroupKey(m, refused) ==
    IF MustUpdate(m)
    THEN /\ gk' = [gk EXCEPT ![m.kid] = m.gtk]
         /\ gkUsed' = IF refused THEN gkUsed ELSE Append(gkUsed, m.gtk)
    ELSE ~refused /\ UNCHANGED <<gk, gkUsed>>

(* the checks of ieee80211_recv_4way_msg3 before anything but ni_ptk changes *)
IsMsg3(m) == /\ m.type = "3" /\ StaAccepts(m)
             /\ sta.state \in {"PTKNEGOTIATING", "PTKDONE"}
             /\ ~Replayed(m)
             /\ m.nonce = sta.anonce
             /\ m.mic = <<sta.anonce, sta.snonce>>

(* the station after message 3 is verified and message 4 was handed down *)
Confirmed(m) == [sta EXCEPT !.ptk = <<sta.anonce, sta.snonce>>, !.replaycnt = m.cnt, !.ok = TRUE,
                            !.state = "PTKDONE"]

(* Broken variant: the new key is no longer expected, although message 4 was lost. *)
RecvMsg3UnansweredClears(m) ==
    /\ IsMsg3(m)
    /\ sta' = [Confirmed(m) EXCEPT !.newptk = FALSE]
    /\ StaSend(Frame("4", m.cnt, 0, m.mic, 0, 0), TRUE)
    /\ UNCHANGED <<gk, ap, staUsed, gkUsed, apUsed>>

(* ieee80211_recv_4way_msg3 ends at message 4: the authenticator will retry. *)
RecvMsg3Unanswered(m) ==
    /\ IsMsg3(m)
    /\ sta' = Confirmed(m)
    /\ StaSend(Frame("4", m.cnt, 0, m.mic, 0, 0), TRUE)
    /\ UNCHANGED <<gk, ap, staUsed, gkUsed, apUsed>>

(* ... or the driver refuses the pairwise key; the station deauthenticates, *)
(* which is a step Leave.                                                   *)
RecvMsg3Refused(m) ==
    /\ IsMsg3(m) /\ sta.newptk
    /\ sta' = [Confirmed(m) EXCEPT !.key = m.mic]
    /\ StaSend(Frame("4", m.cnt, 0, m.mic, 0, 0), FALSE)
    /\ UNCHANGED <<gk, ap, staUsed, gkUsed, apUsed>>

(* ... or goes on to the group key, which the driver may refuse too. *)
RecvMsg3(m) ==
    \E refused \in BOOLEAN :
        /\ IsMsg3(m)
        /\ StaSend(Frame("4", m.cnt, 0, m.mic, 0, 0), FALSE)
        /\ staUsed' = IF sta.newptk THEN Append(staUsed, m.mic) ELSE staUsed
        /\ SetGroupKey(m, refused)
        /\ LET s == IF sta.newptk
                    THEN [Confirmed(m) EXCEPT !.key = m.mic, !.newptk = FALSE,
                                              !.rxprot = TRUE, !.txprot = FALSE]
                    ELSE Confirmed(m)
           IN sta' = IF refused THEN s
                     ELSE [s EXCEPT !.rxprot = TRUE, !.txprot = TRUE, !.port = TRUE]
        /\ UNCHANGED <<ap, apUsed>>

(* ieee80211_recv_rsn_group_msg1, with ieee80211_send_group_msg2 *)
RecvGroupMsg1(m) ==
    \E refused \in BOOLEAN :
        /\ m.type = "G1" /\ StaAccepts(m)
        /\ sta.state = "PTKDONE"
        /\ m.cnt > sta.replaycnt
        /\ m.mic = sta.ptk
        /\ SetGroupKey(m, refused)
        /\ IF refused
           THEN UNCHANGED <<sta, net, held>>
           ELSE /\ sta' = [sta EXCEPT !.port = TRUE, !.replaycnt = m.cnt]
                /\ \E failed \in BOOLEAN :
                     StaSend(Frame("G2", m.cnt, 0, sta.ptk, 0, 0), failed)
        /\ UNCHANGED <<ap, staUsed, apUsed>>

(* ieee80211_newstate to SCAN or AUTH: beacons missed, a deauthentication sent *)
(* or received.  Only the state and the group keys are reset.  A disassociation *)
(* that is followed by an association response without a new authentication    *)
(* (RUN, ASSOC, RUN) is left out.                                               *)
Leave ==
    /\ sta.link # "auth"
    /\ sta' = [sta EXCEPT !.link = "auth", !.state = "INITIALIZE"]
    /\ gk' = [k \in Kid |-> None] /\ gkUsed' = <<>>
    /\ UNCHANGED <<ap, net, held, staUsed, apUsed>>

(* ieee80211_auth_open: the response; ieee80211_newstate to ASSOC *)
AuthOpen ==
    /\ sta.link = "auth"
    /\ sta' = [sta EXCEPT !.link = "assoc", !.rxprot = FALSE, !.txprot = FALSE,
                          !.port = FALSE, !.ok = FALSE, !.key = None]
    /\ UNCHANGED <<gk, ap, net, held, staUsed, gkUsed, apUsed>>

(* ieee80211_recv_assoc_resp: the answer to the last request *)
AssocResp ==
    /\ sta.link = "assoc" /\ ap.here /\ ap.assoc > sta.assoc
    /\ sta' = [sta EXCEPT !.link = "run", !.state = "PTKSTART", !.assoc = ap.assoc]
    /\ UNCHANGED <<gk, ap, net, held, staUsed, gkUsed, apUsed>>
-----------------------------------------------------------------------------
(* The access point.  A handler maps the record x of its state, "ap", and of what *)
(* it transmits, "out", to the record after it.                                   *)

ApFrame(a, type, nonce, mic, kid, gtk) ==
    [type |-> type, cnt |-> a.cnt, nonce |-> nonce, mic |-> mic,
     prot |-> IF a.prot THEN a.key ELSE None, kid |-> kid, gtk |-> gtk]

OtherKid(a) == IF a.txkey = 1 THEN 2 ELSE 1

(* ieee80211_setkeysdone *)
SetKeysDone(a) == [a EXCEPT !.txkey = OtherKid(a)]

(* ieee80211_node_leave with ieee80211_node_leave_rsn *)
NodeLeave(a) ==
    LET b == IF a.rekey THEN SetKeysDone([a EXCEPT !.rekey = FALSE]) ELSE a
    IN [b EXCEPT !.here = FALSE, !.rstate = "INITIALIZE", !.gstate = "IDLE",
                 !.timer = FALSE, !.retries = 0, !.prot = FALSE, !.port = FALSE,
                 !.key = None]

(* Broken variant: the attempts are compared before they are counted. *)
SendKeyOnceMore(x, a, noMbuf, type, nonce, mic, kid) ==
    LET tried == [a EXCEPT !.retries = @ + 1]
        sent == [tried EXCEPT !.cnt = @ + 1, !.timer = TRUE]
    IN IF a.retries > MaxRetries THEN [x EXCEPT !.ap = NodeLeave(tried)]
       ELSE IF noMbuf THEN [x EXCEPT !.ap = tried]
       ELSE [ap |-> sent,
             out |-> x.out \cup {ApFrame(sent, type, nonce, mic, kid,
                                   IF kid = 0 THEN 0 ELSE a.gtk[kid])}]

(* What the three functions that send to the station share: the state, the count *)
(* of attempts, and when they run out the end of the association; otherwise a    *)
(* frame and a timer, unless there is no mbuf.                                   *)
SendKey(x, a, noMbuf, type, nonce, mic, kid) ==
    LET tried == [a EXCEPT !.retries = @ + 1]
        sent == [tried EXCEPT !.cnt = @ + 1, !.timer = TRUE]
    IN IF tried.retries > MaxRetries THEN [x EXCEPT !.ap = NodeLeave(tried)]
       ELSE IF noMbuf THEN [x EXCEPT !.ap = tried]
       ELSE [ap |-> sent,
             out |-> x.out \cup {ApFrame(sent, type, nonce, mic, kid,
                                   IF kid = 0 THEN 0 ELSE a.gtk[kid])}]

(* ieee80211_send_4way_msg1 *)
SendMsg1(x, noMbuf) ==
    SendKey(x, [x.ap EXCEPT !.rstate = "PTKSTART"], noMbuf,
            "1", x.ap.assoc, None, 0)

(* ieee80211_send_4way_msg3 *)
SendMsg3(x, noMbuf) ==
    SendKey(x, [x.ap EXCEPT !.rstate = "PTKINITNEGOTIATING"], noMbuf,
            "3", x.ap.assoc, x.ap.ptk, x.ap.txkey)

(* Broken variant: the key in use is sent, not the next one. *)
SendGroupMsg1Current(x, noMbuf) ==
    SendKey(x, [x.ap EXCEPT !.gstate = "REKEYNEGOTIATING"], noMbuf, "G1", 0, x.ap.ptk,
            x.ap.txkey)

(* ieee80211_send_group_msg1 *)
SendGroupMsg1(x, noMbuf) ==
    SendKey(x, [x.ap EXCEPT !.gstate = "REKEYNEGOTIATING"], noMbuf, "G1", 0, x.ap.ptk,
            IF x.ap.rekey THEN OtherKid(x.ap) ELSE x.ap.txkey)

(* The end of a handler of the access point. *)
Becomes(x) == /\ ap' = x.ap /\ net' = net \cup x.out
              /\ UNCHANGED <<sta, gk, held, staUsed, gkUsed>>

Here(a) == [ap |-> a, out |-> {}]
NoMbuf == IF MbufsFail THEN BOOLEAN ELSE {FALSE}

(* ieee80211_recv_assoc_req: node_join and ieee80211_node_join_rsn; a group key *)
(* handshake that was under way is not ended.                                    *)
Join ==
    /\ sta.link = "assoc" /\ ap.assoc < MaxAssoc
    /\ \E noMbuf \in NoMbuf :
         Becomes(SendMsg1(Here([ap EXCEPT !.here = TRUE, !.assoc = @ + 1, !.cnt = -1,
                                          !.crossed = ap.gstate = "REKEYNEGOTIATING",
                                          !.retries = 0, !.prot = FALSE, !.port = FALSE]),
                          noMbuf))
    /\ UNCHANGED apUsed

(* inactivity, or a deauthentication: node_leave *)
ApLeave == /\ ap.here /\ Becomes(Here(NodeLeave(ap))) /\ UNCHANGED apUsed

(* Broken variant: message 3 is not sent again. *)
EapolTimeoutMsg1Only ==
    /\ ap.timer
    /\ \E nm1, nm2 \in NoMbuf :
         LET x == Here([ap EXCEPT !.timer = FALSE])
             y == IF ap.rstate \in {"PTKSTART", "PTKCALCNEGOTIATING"}
                  THEN SendMsg1(x, nm1) ELSE x
         IN Becomes(IF y.ap.gstate = "REKEYNEGOTIATING" THEN SendGroupMsg1(y, nm2) ELSE y)
    /\ UNCHANGED apUsed

(* ieee80211_eapol_timeout *)
EapolTimeout ==
    /\ ap.timer
    /\ \E nm1, nm2 \in NoMbuf :
         LET x == Here([ap EXCEPT !.timer = FALSE])
             y == IF ap.rstate \in {"PTKSTART", "PTKCALCNEGOTIATING"} THEN SendMsg1(x, nm1)
                  ELSE IF ap.rstate = "PTKINITNEGOTIATING" THEN SendMsg3(x, nm1)
                  ELSE x
         IN Becomes(IF y.ap.gstate = "REKEYNEGOTIATING" THEN SendGroupMsg1(y, nm2) ELSE y)
    /\ UNCHANGED apUsed

(* Broken variant: the timer is stopped before the MIC is checked. *)
RecvMsg2StopsFirst(m) ==
    /\ m.type = "2" /\ ApAccepts(m) /\ m.cnt = ap.cnt
    /\ ap.rstate \in {"PTKSTART", "PTKCALCNEGOTIATING"}
    /\ LET mine == <<ap.assoc, m.nonce>>
           calc == [ap EXCEPT !.rstate = "PTKCALCNEGOTIATING", !.timer = FALSE]
       IN \E noMbuf \in NoMbuf :
            Becomes(IF m.mic = mine
                    THEN SendMsg3(Here([calc EXCEPT !.retries = 0, !.ptk = mine]), noMbuf)
                    ELSE Here(calc))
    /\ UNCHANGED apUsed

(* ieee80211_recv_4way_msg2 *)
RecvMsg2(m) ==
    /\ m.type = "2" /\ ApAccepts(m) /\ m.cnt = ap.cnt
    /\ ap.rstate \in {"PTKSTART", "PTKCALCNEGOTIATING"}
    /\ LET mine == <<ap.assoc, m.nonce>>
           calc == [ap EXCEPT !.rstate = "PTKCALCNEGOTIATING"]
       IN \E noMbuf \in NoMbuf :
            Becomes(IF m.mic = mine
                    THEN SendMsg3(Here([calc EXCEPT !.timer = FALSE, !.retries = 0,
                                                    !.ptk = mine]), noMbuf)
                    ELSE Here(calc))
    /\ UNCHANGED apUsed

(* Broken variant: message 4 is identified by the replay counter alone. *)
RecvMsg4NoMic(m) ==
    /\ m.type = "4" /\ ApAccepts(m) /\ m.cnt = ap.cnt
    /\ ap.rstate = "PTKINITNEGOTIATING"
    /\ LET done == [ap EXCEPT !.timer = FALSE, !.rstate = "PTKINITDONE", !.retries = 0,
                              !.key = ap.ptk]
       IN \/ /\ Becomes(Here([done EXCEPT !.prot = TRUE, !.port = TRUE,
                                          !.gstate = "IDLE"]))
             /\ apUsed' = Append(apUsed, ap.ptk)
          \/ Becomes(Here(NodeLeave(done))) /\ UNCHANGED apUsed

(* ieee80211_recv_4way_msg4 *)
RecvMsg4(m) ==
    /\ m.type = "4" /\ ApAccepts(m) /\ m.cnt = ap.cnt
    /\ ap.rstate = "PTKINITNEGOTIATING" /\ m.mic = ap.ptk
    /\ LET done == [ap EXCEPT !.timer = FALSE, !.rstate = "PTKINITDONE", !.retries = 0,
                              !.key = ap.ptk]
       IN \/ /\ Becomes(Here([done EXCEPT !.prot = TRUE, !.port = TRUE,
                                          !.gstate = "IDLE"]))
             /\ apUsed' = Append(apUsed, ap.ptk)
          \/ Becomes(Here(NodeLeave(done))) /\ UNCHANGED apUsed

(* ieee80211_recv_group_msg2 *)
RecvGroupMsg2(m) ==
    /\ m.type = "G2" /\ ApAccepts(m) /\ m.cnt = ap.cnt
    /\ ap.gstate = "REKEYNEGOTIATING" /\ m.mic = ap.ptk
    /\ LET done == [ap EXCEPT !.timer = FALSE, !.rekey = FALSE, !.prot = TRUE,
                              !.gstate = "IDLE", !.retries = 0]
       IN Becomes(Here(IF ap.rekey THEN SetKeysDone(done) ELSE done))
    /\ UNCHANGED apUsed

(* The access point waits for an answer of the 4-way handshake. *)
Waiting == ap.rstate \in {"PTKSTART", "PTKCALCNEGOTIATING", "PTKINITNEGOTIATING"}

(* ieee80211_gtk_rekey_timeout: ieee80211_setkeys, with ieee80211_node_gtk_rekey for *)
(* the station.  The timer has 3600 s, the retries of the last rekey end in 400 ms.  *)
(* History: crossed, when the 4-way handshake of the station was still under way, or *)
(* started (Join) before the group key handshake was over.                           *)
GtkRekey ==
    /\ ap.gtks < MaxGtk
    /\ ~(ap.timer /\ ap.gstate = "REKEYNEGOTIATING")
    /\ \E noMbuf \in NoMbuf :
         LET a == [ap EXCEPT !.gtks = @ + 1, !.gtk[OtherKid(ap)] = ap.gtks + 1,
                            !.crossed = @ \/ Waiting]
             x == SendGroupMsg1(Here([a EXCEPT !.rekey = TRUE]), noMbuf)
             failed == noMbuf /\ x.ap.here
             y == IF ~a.here \/ a.gstate # "IDLE" THEN Here(a)
                  ELSE IF failed THEN [x EXCEPT !.ap.rekey = FALSE] ELSE x
         IN Becomes(IF y.ap.rekey THEN y ELSE [y EXCEPT !.ap = SetKeysDone(y.ap)])
    /\ UNCHANGED apUsed
-----------------------------------------------------------------------------
Init ==
    /\ sta = [link |-> "auth", assoc |-> 0, state |-> "INITIALIZE", anonce |-> 0,
              snonce |-> 0, replaycnt |-> 0, ok |-> FALSE, newptk |-> FALSE,
              ptk |-> None, key |-> None, rxprot |-> FALSE, txprot |-> FALSE,
              port |-> FALSE]
    /\ gk = [k \in Kid |-> None]
    /\ ap = [assoc |-> 0, here |-> FALSE, rstate |-> "INITIALIZE", gstate |-> "IDLE",
             cnt |-> -1, ptk |-> None, key |-> None, retries |-> 0, timer |-> FALSE,
             rekey |-> FALSE, crossed |-> FALSE, prot |-> FALSE, port |-> FALSE, txkey |-> 1,
             gtk |-> [k \in Kid |-> IF k = 1 THEN 1 ELSE None], gtks |-> 1]
    /\ net = {} /\ held = <<>>
    /\ staUsed = <<>> /\ gkUsed = <<>> /\ apUsed = <<>>

StaReceives == \E m \in net : \/ RecvMsg1(m) \/ RecvMsg3(m) \/ RecvMsg3Unanswered(m)
                              \/ RecvMsg3Refused(m) \/ RecvGroupMsg1(m)

ApReceives == \E m \in net : RecvMsg2(m) \/ RecvMsg4(m) \/ RecvGroupMsg2(m)

Next == \/ StaReceives \/ ApReceives
        \/ Leave \/ AuthOpen \/ AssocResp \/ Drain
        \/ Join \/ ApLeave \/ EapolTimeout \/ GtkRekey

(* The access point's timer is a timer event source: an armed one expires. *)
Spec == Init /\ [][Next]_vars /\ WF_vars(EapolTimeout)
-----------------------------------------------------------------------------
(* The handshake installs no pairwise key twice (the purpose of NODE_RSN_NEW_PTK, *)
(* pae_input.c 538), and the access point takes only a key the station confirmed. *)
Agreement == INSTANCE KeyAgreement
    WITH Keys <- Ptk, suppUsed <- staUsed, authUsed <- apUsed,
         confirmed <- {m.mic : m \in {n \in net \cup Range(held) : n.type = "4"}}
Agrees == Agreement!ASpec

(* No group key is installed a second time in one association, whatever is        *)
(* repeated or late: that would start its replay counter again (pae_input.c 344). *)
GroupKeysFresh == IsInjective(gkUsed)

Linked == sta.link = "run" /\ ap.here /\ sta.assoc = ap.assoc

(* The access point opens its port for a station only when both have the same      *)
(* pairwise key; a station without it would drop all that it is sent.               *)
PortsAgree == Linked /\ ap.port => sta.key = ap.key /\ sta.key # None

(* The access point sends to the group only with a key that every station whose   *)
(* handshake is complete has: "The group key handshake has been completed with    *)
(* all associated stations" (proto.c 468) when it changes to the next key.        *)
StationsHaveGroupKey ==
    Linked /\ sta.port /\ ap.port => gk[ap.txkey] = ap.gtk[ap.txkey]

(* While the access point waits for an answer of the 4-way handshake, its timer is *)
(* armed.  Both handshakes use one timer and one count of attempts: this is so as   *)
(* long as no group key handshake is under way at the same time.                    *)
WaitsWithTimer == ap.here /\ Waiting => ap.timer \/ ap.crossed

(* When message 4 cannot be sent, "..authenticator will retry" (pae_input.c 535): *)
(* an access point that waits for message 4 of a station without the new key has  *)
(* its timer armed.                                                               *)
AuthenticatorWillRetry ==
    Linked /\ sta.state = "PTKDONE" /\ sta.newptk /\ ap.rstate = "PTKINITNEGOTIATING"
        => ap.timer

(* A handshake ends, if no group key handshake crosses it: the access point has   *)
(* the pairwise key in use, or drops the station after its attempts.              *)
HandshakeEnds == Waiting ~> ~Waiting \/ ap.crossed
=============================================================================

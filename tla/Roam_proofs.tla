---------------------------- MODULE Roam_proofs ----------------------------
(***************************************************************************)
(* The reference count of ic_bss, for any number of frames in the queues:  *)
(* the state keeps its types, the count is the number of frames that point *)
(* to the record while the link is up, and a roam copies the record only   *)
(* when no frame points to it.                                             *)
(***************************************************************************)
EXTENDS Roam, TLAPS

-----------------------------------------------------------------------------
(* The parts of the invariant.                                             *)

TaskType == [pc : {"idle", "flush", "drain"}, arg : Arg]
NtType == [pc : {"idle", "run_stop", "flush", "drain", "abort", "enter"},
           nstate : LinkState, mgt : Mgt]
ResetType == [pc : {"no", "leave", "stop"}, init : BOOLEAN]

RestType ==
  /\ scan \subseteq {"scan", "bgscan"} /\ task \in TaskType /\ nt \in NtType
  /\ reset \in ResetType /\ txflush \in BOOLEAN

(* A record in which the frames fit and no roam went wrong.                *)
Sane(x) == x \in Net /\ x.mgtq + x.ring <= MaxFrames /\ x.copy # "roamed"

(* After a clean copy, k references are held by others than the frames.    *)
Held(x, k) == x.copy = "clean" => x.refcnt = x.mgtq + x.ring + k

(* The record ieee80211_node_attach made: no access point was joined yet,  *)
(* and the reference it was made with is still there.                      *)
Fresh(x) ==
  /\ x.refcnt = 1 /\ x.mgtq = 0 /\ x.ring = 0 /\ x.copy = "clean"
  /\ x.cb = "none" /\ ~x.bgscan
  /\ x.link \in {"INIT", "SCAN"} /\ x.ns = "SCAN"
OnlyScans == nt.pc = "idle" \/ nt.nstate = "SCAN"

(* What a handler leaves of a sane record whose count is right.            *)
Right(x) == Sane(x) /\ Held(x, 0)

Counted == Right(net) \/ (Sane(net) /\ Fresh(net) /\ OnlyScans)

IInv ==
  /\ RestType /\ Sane(net)
  /\ IF reset.pc = "stop" THEN net.link = "INIT" ELSE Counted

-----------------------------------------------------------------------------
(* Arithmetic of the count.                                                *)

LEMMA ModFacts ==
  ASSUME NEW n \in Int, NEW m \in Nat, m > 0
  PROVE  /\ n % m \in 0 .. m - 1
         /\ n \in 0 .. m - 1 => n % m = n
OBVIOUS

LEMMA Bounds == MaxFrames \in Nat /\ RefMod \in Nat /\ RefMod > 2 * MaxFrames + 2
BY RoamAssumption

(* Values the fields take.                                                 *)
LEMMA Values ==
  /\ "INIT" \in LinkState /\ "SCAN" \in LinkState /\ "AUTH" \in LinkState
  /\ "ASSOC" \in LinkState /\ "RUN" \in LinkState
  /\ "none" \in Mgt /\ "auth" \in Mgt /\ "deauth" \in Mgt
  /\ "none" \in Arg /\ "found" \in Arg /\ "gone" \in Arg
BY DEF LinkState, Mgt, Arg

LEMMA Counts ==
  ASSUME NEW x \in Net
  PROVE  /\ x.refcnt \in Nat /\ x.mgtq \in Nat /\ x.ring \in Nat
         /\ Outstanding(x) \in Nat /\ Outstanding(x) = x.mgtq + x.ring
<1>1. x.refcnt \in Nat /\ x.mgtq \in Nat /\ x.ring \in Nat
  BY Bounds DEF Net
<1> QED BY <1>1 DEF Outstanding

-----------------------------------------------------------------------------
(* The handlers, from the leaves up.  Each lemma says that the record      *)
(* keeps its type and which fields of the count it leaves alone.           *)

Same(x, y) == /\ y.refcnt = x.refcnt /\ y.mgtq = x.mgtq /\ y.ring = x.ring
              /\ y.copy = x.copy

LEMMA SameFacts ==
  ASSUME NEW x, NEW y, Same(x, y), y \in Net, Sane(x)
  PROVE  Sane(y) /\ \A k : Held(x, k) => Held(y, k)
BY DEF Same, Sane, Held

LEMMA NewStateFacts ==
  ASSUME NEW x \in Net, NEW n \in LinkState, NEW mgt \in Mgt
  PROVE  LET y == NewState(x, n, mgt)
         IN  /\ y \in Net /\ Same(x, y)
             /\ y.cb = x.cb /\ y.bgscan = x.bgscan /\ y.link = x.link
             /\ n = "SCAN" => y.ns = "SCAN"
<1> DEFINE z == [x EXCEPT !.ns = n, !.mgt = mgt, !.queued = @ \/ ~x.shutdown,
                          !.done = @ /\ x.link # "RUN"]
<1>1. z \in Net
  BY DEF Net
<1>2. Same(x, z) /\ z.cb = x.cb /\ z.bgscan = x.bgscan /\ z.link = x.link /\ z.ns = n
  BY DEF Net, Same
<1>3. NewState(x, n, mgt) = x \/ NewState(x, n, mgt) = z
  BY DEF NewState
<1>4. n = "SCAN" => NewState(x, n, mgt) = z
  BY DEF NewState
<1> HIDE DEF z
<1> QED BY <1>1, <1>2, <1>3, <1>4 DEF Same

LEMMA FreeUnrefCbFacts ==
  ASSUME NEW x \in Net
  PROVE  LET y == FreeUnrefCb(x)
         IN  /\ y \in Net /\ Same(x, y)
             /\ y.cb = "none" /\ y.bgscan = x.bgscan /\ y.link = x.link /\ y.ns = x.ns
BY Values DEF FreeUnrefCb, Net, Same

(* A copy leaves the queues alone; it is clean only when nothing was held. *)
LEMMA JoinBssFacts ==
  ASSUME NEW x \in Net, NEW roam \in BOOLEAN, NEW held \in Nat
  PROVE  LET y == JoinBss(x, roam, held)
         IN  /\ y \in Net /\ y.mgtq = x.mgtq /\ y.ring = x.ring /\ y.refcnt = 0
             /\ y.copy = "clean" <=> held = 0
             /\ y.copy = "roamed" => roam /\ held # 0 /\ x.copy = "clean"
<1> DEFINE mgt == IF x.bgscan /\ x.link = "RUN" THEN "deauth"
                  ELSE IF x.link = "AUTH" THEN "auth" ELSE "none"
           copy == IF held = 0 THEN "clean"
                   ELSE IF roam /\ x.copy = "clean" THEN "roamed" ELSE "busy"
           f == FreeUnrefCb(x)
           z == [f EXCEPT !.refcnt = 0, !.bgscan = FALSE, !.copy = copy]
<1>1. mgt \in Mgt /\ copy \in {"clean", "busy", "roamed"}
  BY Values
<1>2. 0 \in 0 .. RefMod - 1
  BY Bounds
<1>3. f \in Net /\ f.mgtq = x.mgtq /\ f.ring = x.ring
  BY FreeUnrefCbFacts DEF Same
<1>4. z \in Net /\ z.refcnt = 0 /\ z.copy = copy /\ z.mgtq = x.mgtq /\ z.ring = x.ring
  <2> HIDE DEF f, copy
  <2> QED BY <1>1, <1>2, <1>3 DEF Net
<1>5. JoinBss(x, roam, held) = NewState(z, "AUTH", mgt)
  BY DEF JoinBss
<1>6. JoinBss(x, roam, held) \in Net /\ Same(z, JoinBss(x, roam, held))
  <2> HIDE DEF z, mgt, f
  <2>1. z \in Net /\ "AUTH" \in LinkState /\ mgt \in Mgt
    BY <1>1, <1>4, Values
  <2> QED BY <2>1, <1>5, NewStateFacts
<1>7. /\ copy = "clean" <=> held = 0
      /\ copy = "roamed" => roam /\ held # 0 /\ x.copy = "clean"
  OBVIOUS
<1> HIDE DEF z, mgt, copy
<1> QED BY <1>4, <1>6, <1>7 DEF Same

(* The switch to another access point: if the counts are right, quiet.     *)
LEMMA SwitchBssFacts ==
  ASSUME NEW x \in Net, Sane(x), Held(x, 0), x.refcnt = 0
  PROVE  Sane(SwitchBss(x)) /\ Held(SwitchBss(x), 0)
<1>1. CASE ~x.bgscan
  BY <1>1 DEF SwitchBss
<1>2. CASE x.bgscan /\ x.arg = "none"
  <2>1. SwitchBss(x) = [x EXCEPT !.panic = TRUE]
    BY <1>2 DEF SwitchBss
  <2>2. SwitchBss(x) \in Net /\ Same(x, SwitchBss(x))
    BY <2>1 DEF Net, Same
  <2> QED BY <2>2, SameFacts
<1>3. CASE x.bgscan /\ x.arg = "found"
  <2> DEFINE y == [x EXCEPT !.mgtonly = FALSE]
             z == JoinBss(y, TRUE, Outstanding(x))
  <2>1. y \in Net /\ y.mgtq = x.mgtq /\ y.ring = x.ring /\ y.copy = x.copy
    BY DEF Net
  <2>2. SwitchBss(x) = z
    BY <1>3 DEF SwitchBss
  <2>3. Outstanding(x) \in Nat /\ Outstanding(x) = x.mgtq + x.ring
    BY Counts
  <2> HIDE DEF y
  <2>4. /\ z \in Net /\ z.mgtq = x.mgtq /\ z.ring = x.ring /\ z.refcnt = 0
        /\ z.copy = "clean" <=> Outstanding(x) = 0
        /\ z.copy = "roamed" => Outstanding(x) # 0 /\ x.copy = "clean"
    BY <2>1, <2>3, JoinBssFacts
  <2> HIDE DEF z
  <2>5. z.copy # "roamed"
    BY <2>3, <2>4, Counts DEF Held
  <2>6. Sane(z)
    BY <2>4, <2>5 DEF Sane
  <2>7. Held(z, 0)
    BY <2>3, <2>4, Counts DEF Held
  <2> QED BY <2>2, <2>6, <2>7
<1>4. CASE x.bgscan /\ x.arg = "gone"
  <2> DEFINE f == FreeUnrefCb(x)
             y == [f EXCEPT !.bgscan = FALSE, !.mgtonly = FALSE]
  <2>1. SwitchBss(x) = NewState(y, "SCAN", "none")
    BY <1>4 DEF SwitchBss
  <2>2. f \in Net /\ Same(x, f)
    BY FreeUnrefCbFacts
  <2>3. y \in Net /\ Same(x, y)
    <3> HIDE DEF f
    <3> QED BY <2>2 DEF Net, Same
  <2> HIDE DEF y, f
  <2>4. SwitchBss(x) \in Net /\ Same(y, SwitchBss(x))
    <3>1. "SCAN" \in LinkState /\ "none" \in Mgt
      BY Values
    <3> QED BY <2>1, <2>3, <3>1, NewStateFacts
  <2>5. Same(x, SwitchBss(x))
    BY <2>3, <2>4 DEF Same
  <2> QED BY <2>4, <2>5, SameFacts
<1>5. x.arg \in {"none", "found", "gone"}
  BY DEF Net, Arg
<1> QED BY <1>1, <1>2, <1>3, <1>4, <1>5

LEMMA MfpLeaveDoneFacts ==
  ASSUME NEW x \in Net
  PROVE  MfpLeaveDone(x) \in Net /\ Same(x, MfpLeaveDone(x))
BY RoamAssumption DEF MfpLeaveDone, Net, Same

(* The count after a release, and after another reference.                 *)
LEMMA CountFacts ==
  ASSUME NEW x \in Net
  PROVE  LET y == [x EXCEPT !.refcnt = (@ - 1) % RefMod]
             z == [y EXCEPT !.cb = "none"]
         IN  /\ y \in Net /\ y.refcnt = (x.refcnt - 1) % RefMod
             /\ y.mgtq = x.mgtq /\ y.ring = x.ring /\ y.copy = x.copy
             /\ z \in Net /\ Same(y, z)
<1> DEFINE y == [x EXCEPT !.refcnt = (@ - 1) % RefMod]
           z == [y EXCEPT !.cb = "none"]
<1>1. x.refcnt \in Int /\ RefMod \in Nat /\ RefMod > 0
  BY Bounds DEF Net
<1>2. (x.refcnt - 1) % RefMod \in 0 .. RefMod - 1
  BY <1>1, ModFacts
<1>3. y \in Net /\ y.refcnt = (x.refcnt - 1) % RefMod
  BY <1>2 DEF Net
<1>4. y.mgtq = x.mgtq /\ y.ring = x.ring /\ y.copy = x.copy
  BY DEF Net
<1>5. z \in Net /\ Same(y, z)
  <2> HIDE DEF y
  <2> QED BY <1>3 DEF Net, Same
<1> QED BY <1>3, <1>4, <1>5

LEMMA ReleaseFacts ==
  ASSUME NEW x \in Net, Sane(x), Held(x, 1)
  PROVE  Sane(Release(x)) /\ Held(Release(x), 0)
<1> DEFINE y == [x EXCEPT !.refcnt = (@ - 1) % RefMod]
           z == [y EXCEPT !.cb = "none"]
<1>1. /\ y \in Net /\ y.refcnt = (x.refcnt - 1) % RefMod
      /\ y.mgtq = x.mgtq /\ y.ring = x.ring /\ y.copy = x.copy
      /\ z \in Net /\ Same(y, z)
  BY CountFacts
<1>4. Release(x) = y \/ (y.refcnt = 0 /\ Release(x) \in {SwitchBss(z), MfpLeaveDone(z)})
  BY DEF Release
<1> HIDE DEF y, z
<1>5. Sane(y) /\ Held(y, 0)
  <2>1. Sane(y)
    BY <1>1 DEF Sane
  <2>2. ASSUME x.copy = "clean" PROVE y.refcnt = y.mgtq + y.ring
    <3>1. x.refcnt = x.mgtq + x.ring + 1 /\ x.mgtq + x.ring <= MaxFrames
      BY <2>2 DEF Held, Sane
    <3>2. x.mgtq \in Nat /\ x.ring \in Nat
      BY Bounds DEF Net
    <3>3. x.refcnt - 1 \in 0 .. RefMod - 1
      BY <3>1, <3>2, Bounds
    <3>4. (x.refcnt - 1) % RefMod = x.refcnt - 1
      BY <3>3, ModFacts, Bounds
    <3> QED BY <1>1, <3>1, <3>2, <3>4
  <2>3. y.mgtq + y.ring + 0 = y.mgtq + y.ring
    BY <1>1, Counts
  <2> QED BY <1>1, <2>1, <2>2, <2>3 DEF Held
<1>6. z \in Net /\ Sane(z) /\ Held(z, 0)
  BY <1>1, <1>5, SameFacts
<1>7. ASSUME y.refcnt = 0 PROVE Sane(SwitchBss(z)) /\ Held(SwitchBss(z), 0)
  BY <1>1, <1>6, <1>7, SwitchBssFacts DEF Same
<1>8. Sane(MfpLeaveDone(z)) /\ Held(MfpLeaveDone(z), 0)
  BY <1>6, MfpLeaveDoneFacts, SameFacts
<1> QED BY <1>4, <1>5, <1>7, <1>8

LEMMA RefFacts ==
  ASSUME NEW x \in Net, Sane(x), Held(x, 0)
  PROVE  /\ Sane(Ref(x)) /\ Held(Ref(x), 1)
         /\ Ref(x).mgtq = x.mgtq /\ Ref(x).ring = x.ring
<1> DEFINE y == Ref(x)
<1>1. x.refcnt \in Int /\ x.refcnt >= 0 /\ RefMod \in Nat /\ RefMod > 0
  BY Bounds DEF Net
<1>2. (x.refcnt + 1) % RefMod \in 0 .. RefMod - 1
  BY <1>1, ModFacts
<1>3. y \in Net /\ y.refcnt = (x.refcnt + 1) % RefMod
  BY <1>2 DEF Net, Ref
<1>4. y.mgtq = x.mgtq /\ y.ring = x.ring /\ y.copy = x.copy
  BY DEF Net, Ref
<1> HIDE DEF y
<1>5. ASSUME x.copy = "clean" PROVE y.refcnt = y.mgtq + y.ring + 1
  <2>1. x.refcnt = x.mgtq + x.ring + 0 /\ x.mgtq + x.ring <= MaxFrames
    BY <1>5 DEF Held, Sane
  <2>2. x.mgtq \in Nat /\ x.ring \in Nat
    BY Bounds DEF Net
  <2>3. x.refcnt + 1 \in 0 .. RefMod - 1
    BY <2>1, <2>2, Bounds
  <2>4. (x.refcnt + 1) % RefMod = x.refcnt + 1
    BY <2>3, ModFacts, Bounds
  <2> QED BY <1>3, <1>4, <2>1, <2>2, <2>4
<1>6. Sane(y) /\ Held(y, 1)
  BY <1>3, <1>4, <1>5 DEF Sane, Held
<1> QED BY <1>4, <1>6 DEF y

LEMMA SameRight ==
  ASSUME NEW x, NEW y, Right(x), y \in Net, Same(x, y)
  PROVE  Right(y)
BY SameFacts DEF Right

(* A frame is queued only when there is room for it.                       *)
LEMMA FailsFacts ==
  ASSUME NEW x \in Net, NEW fails \in Fails(x)
  PROVE  fails \in BOOLEAN /\ (~fails => x.mgtq + x.ring < MaxFrames)
BY Counts DEF Fails

LEMMA SendMgmtFacts ==
  ASSUME NEW x, Right(x), NEW fails \in BOOLEAN,
         ~fails => x.mgtq + x.ring < MaxFrames
  PROVE  Right(SendMgmt(x, fails))
<1> DEFINE r == Ref(x)
           y == [r EXCEPT !.mgtq = @ + 1]
<1>1. x \in Net /\ Sane(x) /\ Held(x, 0)
  BY DEF Right, Sane
<1>2. Sane(r) /\ Held(r, 1) /\ r.mgtq = x.mgtq /\ r.ring = x.ring
  BY <1>1, RefFacts
<1>3. r \in Net
  BY <1>2 DEF Sane
<1> HIDE DEF r
<1>4. CASE fails
  <2>1. SendMgmt(x, fails) = Release(r)
    BY <1>4 DEF SendMgmt, r
  <2> QED BY <1>2, <1>3, <2>1, ReleaseFacts DEF Right
<1>5. CASE ~fails
  <2>1. SendMgmt(x, fails) = y
    BY <1>5 DEF SendMgmt, r
  <2>2. r.mgtq \in Nat /\ r.ring \in Nat /\ r.mgtq + r.ring < MaxFrames
    BY <1>2, <1>3, <1>5, Counts
  <2>3. r.mgtq + 1 \in 0 .. MaxFrames
    BY <2>2, Bounds
  <2>4. y \in Net
    BY <1>3, <2>3 DEF Net
  <2>5. /\ y.mgtq = r.mgtq + 1 /\ y.ring = r.ring
        /\ y.copy = r.copy /\ y.refcnt = r.refcnt
    BY <1>3 DEF Net
  <2> HIDE DEF y
  <2>6. Sane(y)
    BY <1>2, <2>2, <2>4, <2>5, Bounds DEF Sane
  <2>7. Held(y, 0)
    BY <1>2, <2>2, <2>5 DEF Held
  <2> QED BY <2>1, <2>6, <2>7 DEF Right
<1> QED BY <1>4, <1>5

LEMMA SendRequestFacts ==
  ASSUME NEW x, Right(x), NEW fails \in BOOLEAN,
         ~fails => x.mgtq + x.ring < MaxFrames
  PROVE  Right(SendRequest(x, fails))
<1> DEFINE y == SendMgmt(x, fails)
           z == [y EXCEPT !.timer = @ \/ ~fails]
<1>1. Right(y) /\ y \in Net
  BY SendMgmtFacts DEF Right, Sane
<1> HIDE DEF y
<1>2. z \in Net /\ Same(y, z)
  BY <1>1 DEF Net, Same
<1>3. SendRequest(x, fails) = z
  BY DEF SendRequest, y
<1> QED BY <1>1, <1>2, <1>3, SameRight

LEMMA TxStoppedFacts ==
  ASSUME NEW x, Right(x), NEW fails \in BOOLEAN,
         ~fails => x.mgtq + x.ring < MaxFrames
  PROVE  Right(TxStopped(x, fails))
<1> DEFINE c == [x EXCEPT !.cb = "switch"]
           y == SendMgmt(c, fails)
           f == FreeUnrefCb(y)
           z == [f EXCEPT !.bgscan = FALSE]
<1>1. x \in Net
  BY DEF Right, Sane
<1>2. c \in Net /\ Same(x, c)
  BY <1>1 DEF Net, Same
<1>3. Right(c) /\ (~fails => c.mgtq + c.ring < MaxFrames)
  BY <1>2, SameRight DEF Same
<1> HIDE DEF c
<1>4. Right(y) /\ y \in Net
  BY <1>3, SendMgmtFacts DEF Right, Sane
<1> HIDE DEF y
<1>5. f \in Net /\ Same(y, f)
  BY <1>4, FreeUnrefCbFacts
<1> HIDE DEF f
<1>6. z \in Net /\ Same(f, z)
  BY <1>5 DEF Net, Same
<1> HIDE DEF z
<1>7. "SCAN" \in LinkState /\ "none" \in Mgt
  BY Values
<1>8. NewState(z, "SCAN", "none") \in Net /\ Same(z, NewState(z, "SCAN", "none"))
  BY <1>6, <1>7, NewStateFacts
<1>9. Right(f) /\ Right(z)
  BY <1>4, <1>5, <1>6, SameRight
<1>10. Right(NewState(z, "SCAN", "none"))
  BY <1>8, <1>9, SameRight
<1>11. TxStopped(x, fails) \in {x, y, NewState(z, "SCAN", "none")}
  BY DEF TxStopped, c, y, f, z
<1> QED BY <1>4, <1>10, <1>11

LEMMA EnterFacts ==
  ASSUME NEW x, Right(x), NEW n \in LinkState, NEW mgt \in Mgt,
         NEW fails \in BOOLEAN, ~fails => x.mgtq + x.ring < MaxFrames
  PROVE  Right(Enter(x, n, mgt, fails))
<1> DEFINE link == IF x.link = "RUN" /\ n = "AUTH" /\ mgt = "auth" THEN "RUN" ELSE n
           y == [x EXCEPT !.link = n, !.mgtonly = FALSE,
                          !.timer = @ /\ ~(n = "RUN" /\ x.link \in {"SCAN", "ASSOC"})]
           z == IF Sends(x.link, n, mgt) THEN SendRequest(y, fails) ELSE y
           e == [z EXCEPT !.link = link]
<1>1. x \in Net
  BY DEF Right, Sane
<1>2. y \in Net
  BY <1>1 DEF Net
<1>3. Same(x, y)
  BY <1>1 DEF Net, Same
<1>4. Right(y) /\ (~fails => y.mgtq + y.ring < MaxFrames)
  BY <1>2, <1>3, SameRight DEF Same
<1>5. link \in LinkState
  BY Values
<1> HIDE DEF y, link
<1>6. Right(z) /\ z \in Net
  BY <1>4, SendRequestFacts DEF Right, Sane
<1> HIDE DEF z
<1>7. e \in Net /\ Same(z, e)
  BY <1>5, <1>6 DEF Net, Same
<1>8. Enter(x, n, mgt, fails) = e
  BY DEF Enter, e, z, y, link
<1> QED BY <1>6, <1>7, <1>8, SameRight

(* A copy over a record that nothing but the frames in the queues and what *)
(* is counted in held may reference.                                       *)
LEMMA JoinRight ==
  ASSUME NEW x, Sane(x), NEW held \in Nat, held >= x.mgtq + x.ring
  PROVE  LET y == JoinBss(x, FALSE, held)
         IN  Right(y) /\ (held > 0 => Held(y, 1))
<1> DEFINE y == JoinBss(x, FALSE, held)
<1>1. x \in Net
  BY DEF Sane
<1>2. /\ y \in Net /\ y.mgtq = x.mgtq /\ y.ring = x.ring /\ y.refcnt = 0
      /\ (y.copy = "clean" <=> held = 0) /\ y.copy # "roamed"
  BY <1>1, JoinBssFacts
<1> HIDE DEF y
<1>3. Sane(y)
  BY <1>2 DEF Sane
<1>4. y.copy = "clean" => y.refcnt = y.mgtq + y.ring + 0
  BY <1>1, <1>2, Counts
<1>5. held > 0 => y.copy # "clean"
  BY <1>2
<1> QED BY <1>3, <1>4, <1>5 DEF Right, Held, y

-----------------------------------------------------------------------------
(* The record before the first access point is joined.                     *)

LEMMA FreshScan ==
  ASSUME NEW x \in Net, Sane(x), Fresh(x)
  PROVE  LET y == NewState(x, "SCAN", "none")
         IN  y \in Net /\ Sane(y) /\ Fresh(y)
<1>1. "SCAN" \in LinkState /\ "none" \in Mgt
  BY Values
<1> DEFINE y == NewState(x, "SCAN", "none")
<1>2. /\ y \in Net /\ Same(x, y) /\ y.cb = x.cb /\ y.bgscan = x.bgscan
      /\ y.link = x.link /\ y.ns = "SCAN"
  BY <1>1, NewStateFacts
<1> HIDE DEF y
<1>3. Sane(y)
  BY <1>2, SameFacts
<1>4. Fresh(y)
  BY <1>2 DEF Fresh, Same
<1> QED BY <1>2, <1>3, <1>4 DEF y

LEMMA FreshFrame ==
  ASSUME NEW x \in Net, Sane(x), Fresh(x)
  PROVE  Sane(Release(Ref(x))) /\ Fresh(Release(Ref(x)))
<1> DEFINE r == Ref(x)
           y == [r EXCEPT !.refcnt = (@ - 1) % RefMod]
<1>1. RefMod \in Nat /\ RefMod > 2 /\ 1 \in 0 .. RefMod - 1 /\ 2 \in 0 .. RefMod - 1
  BY Bounds
<1>2. 2 % RefMod = 2 /\ 1 % RefMod = 1
  BY <1>1, ModFacts
<1>3. (x.refcnt + 1) % RefMod = 2
  BY <1>2 DEF Fresh
<1>4. r = [x EXCEPT !.refcnt = 2]
  BY <1>3 DEF Ref
<1>5. r \in Net /\ r.refcnt = 2 /\ r.cb = "none"
  BY <1>1, <1>4 DEF Net, Fresh
<1>6. /\ r.mgtq = 0 /\ r.ring = 0 /\ r.copy = "clean" /\ ~r.bgscan
      /\ r.link \in {"INIT", "SCAN"} /\ r.ns = "SCAN"
  BY <1>4 DEF Net, Fresh
<1> HIDE DEF r
<1>7. (r.refcnt - 1) % RefMod = 1
  BY <1>2, <1>5
<1>8. y = [r EXCEPT !.refcnt = 1]
  BY <1>7
<1>9. y \in Net /\ y.refcnt = 1 /\ y.cb = "none"
  BY <1>1, <1>5, <1>8 DEF Net
<1>10. /\ y.mgtq = 0 /\ y.ring = 0 /\ y.copy = "clean" /\ ~y.bgscan
       /\ y.link \in {"INIT", "SCAN"} /\ y.ns = "SCAN"
  BY <1>5, <1>6, <1>8 DEF Net
<1>11. Release(r) = y
  BY <1>9 DEF Release
<1> HIDE DEF y
<1>12. Sane(y) /\ Fresh(y)
  BY <1>9, <1>10, Bounds DEF Sane, Fresh
<1> QED BY <1>11, <1>12 DEF r

-----------------------------------------------------------------------------
(* The initial state, and what is not net.                                 *)

LEMMA InitInv == Init => IInv
<1> SUFFICES ASSUME Init PROVE IInv
  OBVIOUS
<1>1. RestType
  BY Values DEF Init, RestType, TaskType, NtType, ResetType, Idle, NtIdle
<1>2. 1 \in 0 .. RefMod - 1 /\ 0 \in 0 .. MaxFrames
  BY Bounds
<1>3. net \in Net
  BY <1>2, Values DEF Init, Net
<1>4. Sane(net)
  BY <1>3, Bounds DEF Init, Sane
<1>5. Fresh(net) /\ OnlyScans
  BY DEF Init, Fresh, OnlyScans, NtIdle
<1>6. reset.pc # "stop"
  BY DEF Init
<1> QED BY <1>1, <1>4, <1>5, <1>6 DEF IInv, Counted

LEMMA FirstPcFacts ==
  ASSUME NEW link, NEW n
  PROVE  FirstPc(link, n) \in {"run_stop", "flush", "abort", "enter"}
         /\ EnterPc(n) \in {"abort", "enter"}
<1>1. EnterPc(n) \in {"abort", "enter"}
  BY DEF EnterPc
<1> QED BY <1>1 DEF FirstPc

LEMMA StoppedFacts ==
  ASSUME RestType, NEW x, Sane(x), Stopped(x)
  PROVE  RestType' /\ Sane(net)' /\ net'.link = "INIT" /\ reset'.pc = "stop"
<1> DEFINE y == [x EXCEPT !.ring = 0, !.shutdown = FALSE, !.ns = "INIT", !.link = "INIT",
                          !.mgtonly = FALSE]
           f == FreeUnrefCb(y)
           z == [f EXCEPT !.mgtq = 0, !.timer = FALSE]
<1>1. x \in Net /\ x.mgtq + x.ring <= MaxFrames /\ x.copy # "roamed"
  BY DEF Sane
<1>2. x.mgtq \in Nat /\ x.ring \in Nat /\ 0 \in 0 .. MaxFrames
  BY <1>1, Counts, Bounds
<1>3. y \in Net
  BY <1>1, <1>2, Values DEF Net
<1>4. y.mgtq = x.mgtq /\ y.ring = 0 /\ y.copy = x.copy /\ y.link = "INIT"
  BY <1>1 DEF Net
<1> HIDE DEF y
<1>5. f \in Net /\ Same(y, f) /\ f.link = y.link
  BY <1>3, FreeUnrefCbFacts
<1> HIDE DEF f
<1>6. z \in Net
  BY <1>2, <1>5 DEF Net
<1>7. z.mgtq = 0 /\ z.ring = f.ring /\ z.copy = f.copy /\ z.link = f.link
  BY <1>5 DEF Net
<1> HIDE DEF z
<1>8. Sane(y) /\ y.link = "INIT"
  <2>1. y.mgtq + y.ring <= MaxFrames
    BY <1>1, <1>2, <1>4, Bounds
  <2> QED BY <1>1, <1>3, <1>4, <2>1 DEF Sane
<1>9. Sane(z) /\ z.link = "INIT"
  BY <1>1, <1>2, <1>4, <1>5, <1>6, <1>7, Bounds DEF Sane, Same
<1>10. net' = y \/ net' = z
  BY DEF Stopped, y, f, z
<1>11. RestType'
  BY Values DEF Stopped, RestType, TaskType, NtType, ResetType
<1>12. reset'.pc = "stop"
  BY DEF Stopped
<1>13. Sane(net)' /\ net'.link = "INIT"
  BY <1>8, <1>9, <1>10
<1> QED BY <1>11, <1>12, <1>13

-----------------------------------------------------------------------------
(* The steps.  Each keeps the count right, or the first record fresh.      *)

LEMMA CountedFacts ==
  ASSUME Counted
  PROVE  /\ net \in Net /\ Sane(net)
         /\ net.link \notin {"INIT", "SCAN"} => Right(net)
         /\ net.mgtq > 0 \/ net.ring > 0 => Right(net)
         /\ ~Right(net) => Fresh(net) /\ OnlyScans
BY DEF Counted, Right, Sane, Fresh

(* An update of other fields.                                              *)
LEMMA SameCounted ==
  ASSUME Counted, net' \in Net, Same(net, net'), net'.cb = net.cb,
         net'.bgscan = net.bgscan, net'.link = net.link, net'.ns = net.ns, OnlyScans'
  PROVE  Counted'
<1>1. CASE Right(net)
  BY <1>1, SameRight DEF Counted
<1>2. CASE ~Right(net)
  <2>1. Sane(net) /\ Fresh(net)
    BY <1>2, CountedFacts
  <2>2. Sane(net)'
    BY <2>1, SameFacts
  <2>3. Fresh(net)'
    BY <2>1 DEF Fresh, Same
  <2> QED BY <2>2, <2>3 DEF Counted
<1> QED BY <1>1, <1>2

(* A step that leaves the newstate task alone and the record right.        *)
LEMMA RightCounted == ASSUME Right(net)' PROVE Counted'
BY DEF Counted

LEMMA EndScanStep == ASSUME Counted, EndScan PROVE Counted'
<1>1. PICK arg \in After(net.arg, net.cb = "switch") :
        LET x == [net EXCEPT !.arg = arg]
            giveup == [x EXCEPT !.bgscan = FALSE]
        IN  IF x.bgscan /\ x.link = "RUN"
            THEN net' \in {NotFound(x), NotFound(giveup), giveup,
                           [x EXCEPT !.mgtonly = TRUE, !.done = @ \/ ~x.shutdown]}
            ELSE net' \in {NotFound(x), JoinBss(x, FALSE, Outstanding(x))}
  BY DEF EndScan
<1> DEFINE x == [net EXCEPT !.arg = arg]
           giveup == [x EXCEPT !.bgscan = FALSE]
           mute == [x EXCEPT !.mgtonly = TRUE, !.done = @ \/ ~x.shutdown]
<1>2. net \in Net /\ Sane(net)
  BY CountedFacts
<1>3. arg \in Arg
  BY <1>2, Values DEF After, Net
<1>4. x \in Net /\ Same(net, x) /\ x.cb = net.cb /\ x.bgscan = net.bgscan
      /\ x.link = net.link /\ x.ns = net.ns
  BY <1>2, <1>3 DEF Net, Same
<1>5. \/ x.bgscan /\ net' \in {NotFound(x), NotFound(giveup), giveup, mute}
      \/ net' \in {NotFound(x), JoinBss(x, FALSE, Outstanding(x))}
  BY <1>1
<1> HIDE DEF x
<1>6. giveup \in Net /\ Same(x, giveup) /\ mute \in Net /\ Same(x, mute)
  BY <1>4 DEF Net, Same
<1> HIDE DEF giveup, mute
<1>7. "SCAN" \in LinkState /\ "none" \in Mgt
  BY Values
<1>8. Sane(x)
  BY <1>2, <1>4, SameFacts
<1>9. CASE net' = JoinBss(x, FALSE, Outstanding(x))
  <2> DEFINE held == Outstanding(x)
  <2>1. held \in Nat /\ held = x.mgtq + x.ring
    BY <1>4, Counts
  <2>2. held >= x.mgtq + x.ring
    BY <2>1
  <2> HIDE DEF held
  <2>3. Right(JoinBss(x, FALSE, held))
    BY <1>8, <2>1, <2>2, JoinRight
  <2> QED BY <1>9, <2>3, RightCounted DEF held
<1>10. CASE Right(net) /\ net' # JoinBss(x, FALSE, Outstanding(x))
  <2>1. Right(x) /\ Right(giveup) /\ Right(mute)
    BY <1>4, <1>6, <1>10, SameRight
  <2>2. Right(NotFound(x)) /\ Right(NotFound(giveup))
    <3>1. /\ NotFound(x) \in Net /\ Same(x, NotFound(x))
          /\ NotFound(giveup) \in Net /\ Same(giveup, NotFound(giveup))
      BY <1>4, <1>6, <1>7, NewStateFacts DEF NotFound
    <3> QED BY <2>1, <3>1, SameRight
  <2> QED BY <1>5, <1>10, <2>1, <2>2, RightCounted
<1>11. CASE ~Right(net) /\ net' # JoinBss(x, FALSE, Outstanding(x))
  <2>1. Fresh(net) /\ OnlyScans
    BY <1>11, CountedFacts
  <2>2. Fresh(x)
    BY <1>4, <2>1 DEF Fresh, Same
  <2>3. net' = NotFound(x)
    BY <1>5, <1>11, <2>2 DEF Fresh
  <2>4. Sane(net') /\ Fresh(net')
    BY <1>4, <1>8, <2>2, <2>3, FreshScan DEF NotFound
  <2>5. OnlyScans'
    BY <2>1 DEF EndScan, OnlyScans
  <2> QED BY <2>4, <2>5 DEF Counted
<1> QED BY <1>9, <1>10, <1>11

LEMMA BeginBgscanStep == ASSUME Counted, BeginBgscan PROVE Counted'
<1>1. net \in Net /\ Right(net)
  BY CountedFacts DEF BeginBgscan
<1>2. net' = [net EXCEPT !.bgscan = TRUE]
  BY DEF BeginBgscan
<1>3. net' \in Net /\ Same(net, net')
  BY <1>1, <1>2 DEF Net, Same
<1> QED BY <1>1, <1>3, SameRight, RightCounted

(* A frame of a peer is handled by a function that leaves the count alone. *)
LEMMA ReceiveStep ==
  ASSUME Right(net), NEW x \in Net, Same(Ref(net), x), Receive(x)
  PROVE  Counted'
<1>1. net \in Net /\ Sane(net) /\ Held(net, 0)
  BY DEF Right, Sane
<1>2. Sane(Ref(net)) /\ Held(Ref(net), 1)
  BY <1>1, RefFacts
<1>3. Sane(x) /\ Held(x, 1)
  BY <1>2, SameFacts
<1>4. Right(Release(x))
  BY <1>3, ReleaseFacts DEF Right
<1> QED BY <1>4, RightCounted DEF Receive

LEMMA RefNet ==
  ASSUME NEW x, Right(x)
  PROVE  Ref(x) \in Net /\ Same(Ref(x), Ref(x))
BY RefFacts DEF Right, Sane, Same

LEMMA RecvFrameStep == ASSUME Counted, RecvFrame PROVE Counted'
<1>1. Receive(Ref(net))
  BY DEF RecvFrame
<1>2. CASE Right(net)
  BY <1>1, <1>2, RefNet, ReceiveStep
<1>3. CASE ~Right(net)
  <2>1. net \in Net /\ Sane(net) /\ Fresh(net) /\ OnlyScans
    BY <1>3, CountedFacts
  <2>2. net' = Release(Ref(net)) /\ OnlyScans'
    BY <1>1, <2>1 DEF Receive, OnlyScans
  <2>3. Sane(net)' /\ Fresh(net)'
    BY <2>1, <2>2, FreshFrame
  <2> QED BY <2>2, <2>3 DEF Counted
<1> QED BY <1>2, <1>3

LEMMA RecvBeaconStep == ASSUME Counted, RecvBeacon PROVE Counted'
<1> DEFINE r == Ref(net)
           x == [r EXCEPT !.timer = FALSE]
<1>1. Right(net)
  BY CountedFacts DEF RecvBeacon
<1>2. r \in Net
  BY <1>1, RefNet
<1>3. Receive(x)
  BY DEF RecvBeacon
<1> HIDE DEF r
<1>4. x \in Net /\ Same(r, x)
  BY <1>2 DEF Net, Same
<1> QED BY <1>1, <1>3, <1>4, ReceiveStep DEF r

LEMMA RecvNewState ==
  ASSUME Right(net), NEW n \in LinkState, NEW mgt \in Mgt,
         Receive(NewState(Ref(net), n, mgt))
  PROVE  Counted'
<1>1. Ref(net) \in Net
  BY RefNet
<1>2. /\ NewState(Ref(net), n, mgt) \in Net
      /\ Same(Ref(net), NewState(Ref(net), n, mgt))
  BY <1>1, NewStateFacts
<1> QED BY <1>2, ReceiveStep

LEMMA RecvStep ==
  ASSUME Counted, AuthOpen \/ AssocResp \/ RecvDeauth PROVE Counted'
<1>1. Right(net)
  BY CountedFacts DEF AuthOpen, AssocResp, RecvDeauth
<1> QED BY <1>1, RecvNewState, Values DEF AuthOpen, AssocResp, RecvDeauth

LEMMA AuthRefusedStep == ASSUME Counted, AuthRefused PROVE Counted'
<1> DEFINE r == Ref(net)
           h == Outstanding(net) + 1
           y == JoinBss(r, FALSE, h)
<1>1. Right(net) /\ net \in Net
  BY CountedFacts DEF AuthRefused
<1>2. Sane(r) /\ r.mgtq = net.mgtq /\ r.ring = net.ring
  BY <1>1, RefFacts DEF Right
<1>3. h \in Nat /\ h > 0 /\ h >= r.mgtq + r.ring
  BY <1>1, <1>2, Counts
<1>4. Receive(y)
  BY DEF AuthRefused
<1> HIDE DEF r, h
<1>5. Right(y) /\ Held(y, 1)
  BY <1>2, <1>3, JoinRight
<1> HIDE DEF y
<1>6. y \in Net /\ Sane(y)
  BY <1>5 DEF Right, Sane
<1>7. Right(Release(y))
  BY <1>5, <1>6, ReleaseFacts DEF Right
<1> QED BY <1>4, <1>7, RightCounted DEF Receive

LEMMA WatchdogStep == ASSUME Counted, Watchdog PROVE Counted'
<1> DEFINE x == [net EXCEPT !.timer = FALSE]
<1>1. net \in Net /\ Sane(net)
  BY CountedFacts
<1>2. /\ x \in Net /\ Same(net, x) /\ x.cb = net.cb /\ x.bgscan = net.bgscan
      /\ x.link = net.link /\ x.ns = net.ns
  BY <1>1 DEF Net, Same
<1>3. net' = NewState(x, "SCAN", "none") /\ nt' = nt
  BY DEF Watchdog
<1> HIDE DEF x
<1>4. CASE Right(net)
  <2>1. "SCAN" \in LinkState /\ "none" \in Mgt
    BY Values
  <2>2. net' \in Net /\ Same(x, net')
    BY <1>2, <1>3, <2>1, NewStateFacts
  <2> QED BY <1>2, <1>4, <2>2, SameRight, RightCounted
<1>5. CASE ~Right(net)
  <2>1. Fresh(net) /\ OnlyScans
    BY <1>5, CountedFacts
  <2>2. Fresh(x) /\ Sane(x)
    BY <1>1, <1>2, <2>1, SameFacts DEF Fresh, Same
  <2>3. Sane(net)' /\ Fresh(net)' /\ OnlyScans'
    BY <1>2, <1>3, <2>1, <2>2, FreshScan DEF OnlyScans
  <2> QED BY <2>3 DEF Counted
<1> QED BY <1>4, <1>5

LEMMA RxBmissStep == ASSUME Counted, RxBmiss PROVE Counted'
<1>1. Right(net) /\ net \in Net
  BY CountedFacts DEF RxBmiss
<1>2. PICK fails \in Fails(net) : net' = SendRequest(net, fails)
  BY DEF RxBmiss
<1>3. Right(net')
  BY <1>1, <1>2, FailsFacts, SendRequestFacts
<1> QED BY <1>3, RightCounted

(* A frame leaves the queue or the ring with the reference it holds.       *)
LEMMA FrameDone ==
  ASSUME Right(net), NEW x \in Net, x.refcnt = net.refcnt, x.copy = net.copy,
         x.mgtq + x.ring + 1 = net.mgtq + net.ring, net' = Release(x)
  PROVE  Counted'
<1>1. net \in Net /\ Sane(net) /\ Held(net, 0)
  BY DEF Right, Sane
<1>2. /\ net.mgtq \in Nat /\ net.ring \in Nat /\ net.refcnt \in Nat
      /\ x.mgtq \in Nat /\ x.ring \in Nat
  BY <1>1, Counts
<1>3. x.mgtq + x.ring <= MaxFrames
  BY <1>1, <1>2, Bounds DEF Sane
<1>4. Sane(x)
  BY <1>1, <1>3 DEF Sane
<1>5. Held(x, 1)
  BY <1>1, <1>2 DEF Held
<1>6. Right(Release(x))
  BY <1>4, <1>5, ReleaseFacts DEF Right
<1> QED BY <1>6, RightCounted

LEMMA TxStartStep == ASSUME Counted, TxStart PROVE Counted'
<1> DEFINE d == [net EXCEPT !.mgtq = @ - 1]
           y == [net EXCEPT !.mgtq = @ - 1, !.ring = @ + 1]
<1>1. Right(net) /\ net \in Net /\ Sane(net) /\ Held(net, 0)
  BY CountedFacts DEF TxStart, Right
<1>2. /\ net.mgtq \in Nat /\ net.ring \in Nat /\ net.mgtq > 0
      /\ net.mgtq + net.ring <= MaxFrames
  BY <1>1, Counts DEF Sane, TxStart
<1>3. net.mgtq - 1 \in 0 .. MaxFrames /\ net.ring + 1 \in 0 .. MaxFrames
  BY <1>2, Bounds
<1>4. /\ d \in Net /\ d.refcnt = net.refcnt /\ d.copy = net.copy
      /\ d.mgtq = net.mgtq - 1 /\ d.ring = net.ring
  BY <1>1, <1>3 DEF Net
<1>5. y \in Net
  BY <1>1, <1>3 DEF Net
<1>6. /\ y.refcnt = net.refcnt /\ y.copy = net.copy
      /\ y.mgtq = net.mgtq - 1 /\ y.ring = net.ring + 1
  BY <1>1 DEF Net
<1>7. net' = y \/ net' = Release(d)
  BY DEF TxStart
<1> HIDE DEF d, y
<1>8. CASE net' = y
  <2>1. y.mgtq + y.ring = net.mgtq + net.ring
    BY <1>2, <1>6
  <2>2. Sane(y)
    BY <1>1, <1>5, <1>6, <2>1 DEF Sane
  <2>3. Held(y, 0)
    BY <1>1, <1>6, <2>1 DEF Held
  <2> QED BY <1>8, <2>2, <2>3, RightCounted DEF Right
<1>9. CASE net' = Release(d)
  <2>1. d.mgtq + d.ring + 1 = net.mgtq + net.ring
    BY <1>2, <1>4
  <2> QED BY <1>1, <1>4, <1>9, <2>1, FrameDone
<1> QED BY <1>7, <1>8, <1>9

LEMMA TxDataStep == ASSUME Counted, TxData PROVE Counted'
<1> DEFINE r == Ref(net)
           y == [r EXCEPT !.ring = @ + 1]
<1>1. Right(net) /\ net \in Net /\ net.mgtq = 0 /\ net.ring < MaxFrames
  BY CountedFacts DEF TxData
<1>2. Sane(r) /\ Held(r, 1) /\ r.mgtq = net.mgtq /\ r.ring = net.ring
  BY <1>1, RefFacts DEF Right
<1>3. net' = y
  BY DEF TxData
<1> HIDE DEF r
<1>4. r \in Net /\ r.mgtq = 0 /\ r.ring \in Nat /\ r.ring < MaxFrames
  BY <1>1, <1>2, Counts DEF Sane
<1>5. r.ring + 1 \in 0 .. MaxFrames
  BY <1>4, Bounds
<1>6. y \in Net
  BY <1>4, <1>5 DEF Net
<1>7. /\ y.refcnt = r.refcnt /\ y.copy = r.copy
      /\ y.mgtq = r.mgtq /\ y.ring = r.ring + 1
  BY <1>4 DEF Net
<1> HIDE DEF y
<1>8. y.mgtq + y.ring <= MaxFrames /\ y.mgtq + y.ring + 0 = r.mgtq + r.ring + 1
  BY <1>4, <1>7, Bounds
<1>9. Sane(y)
  BY <1>2, <1>6, <1>7, <1>8 DEF Sane
<1>10. Held(y, 0)
  BY <1>2, <1>7, <1>8 DEF Held
<1> QED BY <1>3, <1>9, <1>10, RightCounted DEF Right

LEMMA TxDoneStep == ASSUME Counted, TxDone PROVE Counted'
<1> DEFINE d == [net EXCEPT !.ring = @ - 1]
<1>1. Right(net) /\ net \in Net
  BY CountedFacts DEF TxDone
<1>2. net.mgtq \in Nat /\ net.ring \in 0 .. MaxFrames /\ net.ring > 0
  BY <1>1, Counts DEF TxDone, Net
<1>3. net.ring - 1 \in 0 .. MaxFrames
  BY <1>2, Bounds
<1>4. /\ d \in Net /\ d.refcnt = net.refcnt /\ d.copy = net.copy
      /\ d.mgtq = net.mgtq /\ d.ring = net.ring - 1
  BY <1>1, <1>3 DEF Net
<1>5. net' = Release(d)
  BY DEF TxDone
<1> HIDE DEF d
<1>6. d.mgtq + d.ring + 1 = net.mgtq + net.ring
  BY <1>2, <1>4, Bounds
<1> QED BY <1>1, <1>4, <1>5, <1>6, FrameDone

(* iwm_bgscan_done_task.                                                   *)
LEMMA BgscanDoneTaskStep == ASSUME Counted, BgscanDoneTask PROVE Counted'
<1>1. net \in Net
  BY CountedFacts
<1>2. net' = [net EXCEPT !.done = FALSE] /\ nt' = nt
  BY DEF BgscanDoneTask
<1>3. /\ net' \in Net /\ Same(net, net') /\ net'.cb = net.cb
      /\ net'.bgscan = net.bgscan /\ net'.link = net.link /\ net'.ns = net.ns
  BY <1>1, <1>2 DEF Net, Same
<1>4. CASE Right(net)
  BY <1>3, <1>4, SameRight, RightCounted
<1>5. CASE ~Right(net)
  <2>1. OnlyScans'
    BY <1>2, <1>5, CountedFacts DEF OnlyScans
  <2> QED BY <1>3, <2>1, SameCounted
<1> QED BY <1>4, <1>5

LEMMA DrainedStep == ASSUME Counted, RestType, Drained PROVE Counted'
<1> DEFINE x == [net EXCEPT !.arg = task.arg]
<1>1. net \in Net /\ Sane(net)
  BY CountedFacts
<1>2. PICK fails \in Fails(net) : net' = TxStopped(x, fails)
  BY DEF Drained
<1>3. task.arg \in Arg
  BY DEF RestType, TaskType
<1>4. /\ x \in Net /\ Same(net, x) /\ x.cb = net.cb /\ x.bgscan = net.bgscan
      /\ x.link = net.link /\ x.ns = net.ns
  BY <1>1, <1>3 DEF Net, Same
<1> HIDE DEF x
<1>5. fails \in BOOLEAN /\ (~fails => x.mgtq + x.ring < MaxFrames)
  BY <1>1, <1>2, <1>4, FailsFacts DEF Same
<1>6. CASE Right(net)
  <2>1. Right(x)
    BY <1>4, <1>6, SameRight
  <2>2. Right(TxStopped(x, fails))
    BY <1>5, <2>1, TxStoppedFacts
  <2> QED BY <1>2, <2>2, RightCounted
<1>7. CASE ~Right(net)
  <2>1. Fresh(net) /\ OnlyScans
    BY <1>7, CountedFacts
  <2>2. net' = x
    BY <1>2, <1>4, <2>1 DEF TxStopped, Fresh
  <2>3. OnlyScans'
    BY <2>1 DEF Drained, OnlyScans
  <2> QED BY <1>4, <2>2, <2>3, SameCounted
<1> QED BY <1>6, <1>7

(* iwm_newstate_task.                                                      *)
LEMMA NewstateStartStep == ASSUME Counted, NewstateStart PROVE Counted'
<1>1. net \in Net
  BY CountedFacts
<1>2. net' = [net EXCEPT !.queued = FALSE, !.mgt = "none"]
  BY DEF NewstateStart
<1>3. /\ net' \in Net /\ Same(net, net') /\ net'.cb = net.cb
      /\ net'.bgscan = net.bgscan /\ net'.link = net.link /\ net'.ns = net.ns
  BY <1>1, <1>2, Values DEF Net, Same
<1>4. CASE Right(net)
  BY <1>3, <1>4, SameRight, RightCounted
<1>5. CASE ~Right(net)
  <2>1. Fresh(net) /\ OnlyScans
    BY <1>5, CountedFacts
  <2>2. nt' = nt \/ nt'.nstate = net.ns
    BY DEF NewstateStart
  <2>3. OnlyScans'
    BY <2>1, <2>2 DEF OnlyScans, Fresh
  <2> QED BY <1>3, <2>3, SameCounted
<1> QED BY <1>4, <1>5

(* The parts of the task that do not touch the record.                     *)
LEMMA NewstateSleepStep ==
  ASSUME Counted, RestType,
         NewstateFails \/ RunStopped \/ NewstateFlushed \/ Deauthed \/ Aborted
  PROVE  Counted'
<1>1. net' = net
  BY DEF NewstateFails, RunStopped, NewstateFlushed, Deauthed, Aborted
<1>2. nt.pc # "idle" /\ (nt'.pc = "idle" \/ nt'.nstate = nt.nstate)
  BY DEF NewstateFails, RunStopped, NewstateFlushed, Deauthed, Aborted, NtIdle,
         RestType, NtType
<1>3. OnlyScans => OnlyScans'
  BY <1>2 DEF OnlyScans
<1> QED BY <1>1, <1>3 DEF Counted, OnlyScans

LEMMA EnterScanStep == ASSUME Counted, EnterScan PROVE Counted'
<1> DEFINE x == IF "bgscan" \in scan THEN net ELSE FreeUnrefCb(net)
           y == [x EXCEPT !.link = "SCAN"]
<1>1. net \in Net /\ Sane(net)
  BY CountedFacts
<1>2. /\ x \in Net /\ Same(net, x) /\ x.cb \in {net.cb, "none"}
      /\ x.bgscan = net.bgscan /\ x.ns = net.ns
  BY <1>1, FreeUnrefCbFacts DEF Same
<1>3. net' = y
  BY DEF EnterScan
<1> HIDE DEF x
<1>4. /\ y \in Net /\ Same(x, y) /\ y.cb = x.cb /\ y.bgscan = x.bgscan
      /\ y.ns = x.ns /\ y.link = "SCAN"
  BY <1>2, Values DEF Net, Same
<1> HIDE DEF y
<1>5. CASE Right(net)
  BY <1>2, <1>3, <1>4, <1>5, SameRight, RightCounted
<1>6. CASE ~Right(net)
  <2>1. Fresh(net)
    BY <1>6, CountedFacts
  <2>2. Sane(y) /\ Fresh(y)
    BY <1>1, <1>2, <1>4, <2>1, SameFacts DEF Fresh, Same
  <2>3. OnlyScans'
    BY DEF EnterScan, NtIdle, OnlyScans
  <2> QED BY <1>3, <2>2, <2>3 DEF Counted
<1> QED BY <1>5, <1>6

LEMMA EnterStateStep == ASSUME Counted, RestType, EnterState PROVE Counted'
<1>1. Right(net) /\ net \in Net
  BY CountedFacts DEF EnterState, OnlyScans
<1>2. CASE net' = net
  BY <1>1, <1>2, RightCounted
<1>3. CASE net' # net
  <2>1. PICK fails \in Fails(net) : net' = Enter(net, nt.nstate, nt.mgt, fails)
    BY <1>3 DEF EnterState
  <2>2. nt.nstate \in LinkState /\ nt.mgt \in Mgt
    BY DEF RestType, NtType
  <2>3. fails \in BOOLEAN /\ (~fails => net.mgtq + net.ring < MaxFrames)
    BY <1>1, FailsFacts
  <2>4. Right(net')
    BY <1>1, <2>1, <2>2, <2>3, EnterFacts
  <2> QED BY <2>4, RightCounted
<1> QED BY <1>2, <1>3

(* iwm_stop: with a frame on its way, or at its end.                       *)
LEMMA StopBeginStep ==
  ASSUME Counted, RestType, StopBegin
  PROVE  /\ RestType' /\ Sane(net)'
         /\ IF reset'.pc = "stop" THEN net'.link = "INIT" ELSE Counted'
<1> DEFINE x == [net EXCEPT !.shutdown = TRUE, !.queued = FALSE, !.done = FALSE]
           y == [x EXCEPT !.mgtonly = TRUE, !.sent = FALSE, !.cb = "leave", !.arg = "none"]
<1>1. net \in Net /\ Sane(net)
  BY CountedFacts
<1>2. x \in Net /\ Same(net, x) /\ x.link = net.link
  BY <1>1 DEF Net, Same
<1>3. \/ Stopped(x)
      \/ /\ x.link = "RUN"
         /\ \E fails \in Fails(y) :
              IF fails THEN Stopped([SendMgmt(y, fails) EXCEPT !.cb = "none"])
              ELSE /\ net' = SendMgmt(y, fails)
                   /\ reset' = [pc |-> "leave", init |-> FALSE]
                   /\ UNCHANGED <<scan, task, nt, txflush>>
  BY DEF StopBegin
<1> HIDE DEF x
<1>4. y \in Net /\ Same(x, y)
  BY <1>2, Values DEF Net, Same
<1> HIDE DEF y
<1>5. Sane(x)
  BY <1>1, <1>2, SameFacts
<1>6. CASE Stopped(x)
  BY <1>5, <1>6, StoppedFacts
<1>7. CASE ~Stopped(x)
  <2>1. Right(net)
    BY <1>2, <1>3, <1>7, CountedFacts
  <2>2. Right(y)
    BY <1>2, <1>4, <2>1, SameRight
  <2>3. PICK fails \in Fails(y) :
          IF fails THEN Stopped([SendMgmt(y, fails) EXCEPT !.cb = "none"])
          ELSE /\ net' = SendMgmt(y, fails)
               /\ reset' = [pc |-> "leave", init |-> FALSE]
               /\ UNCHANGED <<scan, task, nt, txflush>>
    BY <1>3, <1>7
  <2>4. fails \in BOOLEAN /\ (~fails => y.mgtq + y.ring < MaxFrames)
    BY <1>4, FailsFacts
  <2> DEFINE z == SendMgmt(y, fails)
             c == [z EXCEPT !.cb = "none"]
  <2>5. Right(z) /\ z \in Net
    BY <2>2, <2>4, SendMgmtFacts DEF Right, Sane
  <2>6. (fails /\ Stopped(c))
        \/ (net' = z /\ reset' = [pc |-> "leave", init |-> FALSE]
             /\ UNCHANGED <<scan, task, nt, txflush>>)
    BY <2>3
  <2> HIDE DEF z
  <2>7. c \in Net /\ Same(z, c)
    BY <2>5 DEF Net, Same
  <2> HIDE DEF c
  <2>8. CASE fails /\ Stopped(c)
    <3>1. Sane(c)
      BY <2>5, <2>7, SameRight DEF Right
    <3> QED BY <2>8, <3>1, StoppedFacts
  <2>9. CASE net' = z /\ reset' = [pc |-> "leave", init |-> FALSE]
             /\ UNCHANGED <<scan, task, nt, txflush>>
    <3>1. RestType' /\ reset'.pc # "stop"
      BY <2>9 DEF RestType, ResetType
    <3> QED BY <2>5, <2>9, <3>1, RightCounted DEF Right
  <2> QED BY <2>6, <2>8, <2>9
<1> QED BY <1>6, <1>7

LEMMA LeftStep ==
  ASSUME Counted, RestType, Left
  PROVE  RestType' /\ Sane(net)' /\ net'.link = "INIT" /\ reset'.pc = "stop"
<1> DEFINE c == [net EXCEPT !.cb = "none"]
<1>1. net \in Net /\ Sane(net)
  BY CountedFacts
<1>2. c \in Net /\ Same(net, c)
  BY <1>1 DEF Net, Same
<1>3. Sane(c)
  BY <1>1, <1>2, SameFacts
<1>4. Stopped(net) \/ Stopped(c)
  BY DEF Left
<1> HIDE DEF c
<1> QED BY <1>1, <1>3, <1>4, StoppedFacts

-----------------------------------------------------------------------------
(* The types of what is not net.                                           *)

(* The handlers of frames, of timers and of scans.                         *)
Handler == \/ EndScan \/ BeginBgscan
           \/ RecvFrame \/ RecvBeacon \/ AuthOpen \/ AuthRefused \/ AssocResp
           \/ RecvDeauth \/ Watchdog \/ RxBmiss
           \/ TxStart \/ TxData \/ TxDone

LEMMA EndScanRest ==
  ASSUME RestType, net \in Net, EndScan
  PROVE  RestType' /\ reset' = reset
<1>1. PICK arg \in After(net.arg, net.cb = "switch"),
           old \in After(task.arg, net.done \/ task.pc # "idle") :
             task' = [task EXCEPT !.arg = old] \/ task' = [task EXCEPT !.arg = "found"]
  BY DEF EndScan
<1>2. task \in TaskType /\ old \in Arg
  BY <1>1, Values DEF After, RestType, TaskType
<1>3. task' \in TaskType
  BY <1>1, <1>2, Values DEF TaskType
<1> QED BY <1>3 DEF EndScan, RestType

LEMMA HandlerRest ==
  ASSUME RestType, net \in Net, Handler
  PROVE  RestType' /\ reset' = reset
<1>1. CASE EndScan
  BY <1>1, EndScanRest
<1>2. CASE BeginBgscan
  BY <1>2 DEF BeginBgscan, RestType
<1>3. CASE RecvFrame \/ RecvBeacon \/ AuthOpen \/ AuthRefused \/ AssocResp \/ RecvDeauth
  BY <1>3 DEF RecvFrame, RecvBeacon, AuthOpen, AuthRefused, AssocResp, RecvDeauth,
              Receive, RestType
<1>4. CASE Watchdog \/ RxBmiss \/ TxStart \/ TxData \/ TxDone
  BY <1>4 DEF Watchdog, RxBmiss, TxStart, TxData, TxDone, RestType
<1> QED BY <1>1, <1>2, <1>3, <1>4 DEF Handler

LEMMA AskResetFacts ==
  ASSUME RestType, net \in Net
  PROVE  AskReset(reset) \in ResetType /\ AskReset(reset).pc = reset.pc
BY DEF AskReset, RestType, ResetType, Net

LEMMA BgscanTaskRest ==
  ASSUME RestType, net \in Net, BgscanDoneTask \/ Flushed \/ Drained \/ FlushFails
  PROVE  RestType' /\ reset'.pc = reset.pc
<1>1. task' \in TaskType
  BY Values DEF BgscanDoneTask, Flushed, Drained, FlushFails, Idle, RestType, TaskType
<1>2. reset' \in ResetType /\ reset'.pc = reset.pc
  BY AskResetFacts DEF BgscanDoneTask, Flushed, Drained, FlushFails, RestType
<1> QED BY <1>1, <1>2 DEF BgscanDoneTask, Flushed, Drained, FlushFails, RestType

LEMMA NewstateTaskRest ==
  ASSUME RestType, net \in Net, NewstateTask
  PROVE  RestType' /\ reset'.pc = reset.pc
<1>1. nt \in NtType /\ net.ns \in LinkState /\ net.mgt \in Mgt
  BY DEF RestType, Net
<1>2. NtIdle \in NtType
  BY Values DEF NtIdle, NtType
<1>3. CASE NewstateStart
  <2>1. nt' \in NtType
    BY <1>1, <1>3, FirstPcFacts DEF NewstateStart, NtType
  <2>2. txflush' \in BOOLEAN
    BY <1>3 DEF NewstateStart, RestType
  <2> QED BY <1>3, <2>1, <2>2 DEF NewstateStart, RestType
<1>4. CASE NewstateFails
  <2>1. reset' \in ResetType /\ reset'.pc = reset.pc
    BY <1>4, AskResetFacts DEF NewstateFails
  <2> QED BY <1>2, <1>4, <2>1 DEF NewstateFails, RestType
<1>5. CASE RunStopped
  <2>1. nt' \in NtType
    BY <1>1, <1>5, FirstPcFacts DEF RunStopped, NtType
  <2> QED BY <1>5, <2>1 DEF RunStopped, RestType
<1>6. CASE NewstateFlushed
  BY <1>6 DEF NewstateFlushed, RestType, NtType
<1>7. CASE Deauthed
  <2>1. nt' \in NtType
    BY <1>1, <1>2, <1>7, FirstPcFacts DEF Deauthed, NtType
  <2> QED BY <1>7, <2>1 DEF Deauthed, RestType
<1>8. CASE Aborted
  BY <1>8 DEF Aborted, RestType, NtType
<1>9. CASE EnterScan
  BY <1>2, <1>9 DEF EnterScan, RestType
<1>10. CASE EnterState
  BY <1>2, <1>10 DEF EnterState, RestType
<1> QED BY <1>3, <1>4, <1>5, <1>6, <1>7, <1>8, <1>9, <1>10 DEF NewstateTask

-----------------------------------------------------------------------------
(* The invariant.                                                          *)

LEMMA HandlerCounted == ASSUME Counted, Handler PROVE Counted'
BY EndScanStep, BeginBgscanStep, RecvFrameStep, RecvBeaconStep, RecvStep,
   AuthRefusedStep, WatchdogStep, RxBmissStep, TxStartStep, TxDataStep, TxDoneStep
   DEF Handler

LEMMA BgscanTaskCounted ==
  ASSUME Counted, RestType, BgscanDoneTask \/ Flushed \/ Drained \/ FlushFails
  PROVE  Counted'
<1>1. CASE Flushed \/ FlushFails
  BY <1>1 DEF Flushed, FlushFails, Counted, OnlyScans
<1> QED BY <1>1, BgscanDoneTaskStep, DrainedStep

LEMMA NewstateTaskCounted ==
  ASSUME Counted, RestType, NewstateTask PROVE Counted'
BY NewstateStartStep, NewstateSleepStep, EnterScanStep, EnterStateStep DEF NewstateTask

LEMMA NextInv == IInv /\ Next => IInv'
<1> SUFFICES ASSUME IInv, Next PROVE IInv'
  OBVIOUS
<1>1. RestType /\ net \in Net /\ Counted /\ reset.pc # "stop"
  BY DEF IInv, Next, Sane
<1>2. ASSUME Counted', RestType', reset'.pc # "stop" PROVE IInv'
  <2>1. Sane(net)'
    BY <1>2 DEF Counted, Right
  <2> QED BY <1>2, <2>1 DEF IInv
<1>3. CASE Handler
  BY <1>1, <1>2, <1>3, HandlerRest, HandlerCounted
<1>4. CASE BgscanDoneTask \/ Flushed \/ Drained \/ FlushFails
  BY <1>1, <1>2, <1>4, BgscanTaskRest, BgscanTaskCounted
<1>5. CASE NewstateTask
  BY <1>1, <1>2, <1>5, NewstateTaskRest, NewstateTaskCounted
<1>6. CASE StopBegin
  BY <1>1, <1>6, StopBeginStep DEF IInv
<1>7. CASE Left
  BY <1>1, <1>7, LeftStep DEF IInv
<1> QED BY <1>3, <1>4, <1>5, <1>6, <1>7 DEF Next, Handler, Systq, InitTask

LEMMA StutterInv == IInv /\ UNCHANGED vars => IInv'
BY DEF vars, IInv, RestType, Counted, OnlyScans

(* The inductive invariant: the frames in the queues are counted in the    *)
(* record they point to, or its first reference still is.                  *)
THEOREM InvariantCorrect == Spec => []IInv
BY InitInv, NextInv, StutterInv, PTL DEF Spec

(* Every variable keeps its type: the frames fit in the queues, and the    *)
(* count stays in its range even after a copy over a record in use.        *)
THEOREM TypeCorrect == Spec => []TypeOK
<1>1. IInv => TypeOK
  BY DEF IInv, RestType, Sane, TypeOK, TaskType, NtType, ResetType
<1> QED BY <1>1, InvariantCorrect, PTL

(* While the link is up, the count of ic_bss is the number of frames that  *)
(* point to it, unless a copy was made over a record in use.               *)
THEOREM ReferencesCorrect == Spec => []ReferencesHeld
<1>1. ASSUME IInv PROVE ReferencesHeld
  <2>1. ASSUME Exact, net.link = "RUN" PROVE net.refcnt = Outstanding(net)
    <3>1. net \in Net /\ Counted
      BY <1>1, <2>1 DEF IInv, Sane
    <3>2. Right(net)
      BY <2>1, <3>1, CountedFacts
    <3> QED BY <2>1, <3>1, <3>2, Counts DEF Right, Held, Exact
  <2> QED BY <2>1 DEF ReferencesHeld
<1> QED BY <1>1, InvariantCorrect, PTL

(* A roam copies the record of the new access point over ic_bss only when  *)
(* no frame points to it.                                                  *)
THEOREM RoamCorrect == Spec => []RoamIsQuiet
<1>1. IInv => RoamIsQuiet
  BY DEF IInv, Sane, RoamIsQuiet
<1> QED BY <1>1, InvariantCorrect, PTL
=============================================================================

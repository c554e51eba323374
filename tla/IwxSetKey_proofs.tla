-------------------------- MODULE IwxSetKey_proofs --------------------------
(***************************************************************************)
(* The ring of keys of the iwx driver: for any number of handshakes, with  *)
(* or without an integrity group key, the state keeps its types, a counter *)
(* below zero finds the task at rest, the ring of a clean association is a *)
(* queue, its keys always have a task, what the handshake agreed on is in  *)
(* the firmware or on its way there, and an open port is encrypted.        *)
(***************************************************************************)
EXTENDS IwxSetKey, FiniteSetTheorems, TLAPS

-----------------------------------------------------------------------------
(* The parts of the invariant.                                             *)

RingType == [arg : [Slot -> Key \cup {None}], cur : Slot, tail : Slot,
             nkeys : -1 .. NumArgs]

TaskType == [pc : {"idle", "sleep", "panic"}, slot : Slot, key : Key,
             ver : 0 .. MaxMsgs, done : BOOLEAN, stale : BOOLEAN, queued : BOOLEAN]

NtType == [pc : {"idle", "leave", "enter"}, nstate : LinkState,
           queued : BOOLEAN, stale : BOOLEAN]

(* What is not the ring or the task.                                       *)
RestType ==
  /\ link \in LinkState /\ ns \in LinkState
  /\ nt \in NtType
  /\ supp \in {"INITIALIZE", "PTKSTART", "PTKDONE"}
  /\ keys \in [Key -> 0 .. MaxMsgs] /\ fw \in [Key -> 0 .. MaxMsgs]
  /\ in_flags \subseteq Key
  /\ sta_active \in BOOLEAN /\ port \in BOOLEAN /\ shutdown \in BOOLEAN
  /\ away \in BOOLEAN /\ clean \in BOOLEAN
  /\ msgs \in 0 .. MaxMsgs

(* The entries of ring r are those between its tail and its cur.           *)
IsQueue(r) ==
  /\ r.nkeys >= 0 /\ r.cur = (r.tail + r.nkeys) % NumArgs
  /\ \A i \in Slot : r.arg[i] # None <=> (i - r.tail) % NumArgs < r.nkeys

(* Task t works for ring r: it is not at a zeroed entry, it sleeps over the *)
(* first one.                                                              *)
Serves(t, r) ==
  /\ t.pc # "panic"
  /\ t.pc = "sleep" => t.slot = r.tail /\ r.nkeys > 0

IInv ==
  /\ RestType /\ ring \in RingType /\ task \in TaskType
  /\ ring.nkeys < 0 => task.pc = "idle"
  /\ clean => IsQueue(ring) /\ Serves(task, ring)

-----------------------------------------------------------------------------
(* The ring.                                                               *)

LEMMA SlotFacts == NumArgs = 3 /\ Slot = {0, 1, 2}
BY DEF NumArgs, Slot

LEMMA KeyFacts == "pair" \in Key /\ "group" \in Key /\ None \notin Key
BY SetKeyAssumption DEF Key

(* Distances and steps on a ring of three.                                 *)
LEMMA ModFacts ==
  ASSUME NEW t \in {0, 1, 2}, NEW i \in {0, 1, 2}
  PROVE  /\ (t + 1) % 3 = IF t = 2 THEN 0 ELSE t + 1
         /\ (i - t) % 3 = IF i >= t THEN i - t ELSE i - t + 3
OBVIOUS

(* When the tail moves, every place but the one it leaves comes nearer.    *)
LEMMA StepFacts ==
  ASSUME NEW t \in {0, 1, 2}, NEW i \in {0, 1, 2}
  PROVE  (i - ((t + 1) % 3)) % 3 = IF i = t THEN 2 ELSE ((i - t) % 3) - 1
<1>1. CASE t = 0
  <2>1. (t + 1) % 3 = 1
    BY <1>1
  <2> QED BY <1>1, <2>1
<1>2. CASE t = 1
  <2>1. (t + 1) % 3 = 2
    BY <1>2
  <2> QED BY <1>2, <2>1
<1>3. CASE t = 2
  <2>1. (t + 1) % 3 = 0
    BY <1>3
  <2> QED BY <1>3, <2>1
<1> QED BY <1>1, <1>2, <1>3

(* A zeroed ring.                                                          *)
LEMMA EmptyRingFacts ==
  EmptyRing \in RingType /\ EmptyRing.nkeys = 0 /\ IsQueue(EmptyRing)
<1>1. EmptyRing \in RingType /\ EmptyRing.nkeys = 0
  BY SlotFacts DEF EmptyRing, RingType
<1>2. IsQueue(EmptyRing)
  BY SlotFacts DEF EmptyRing, IsQueue
<1> QED BY <1>1, <1>2

(* iwx_set_key adds at the end of the queue, or leaves the ring as it is.  *)
LEMMA PutFacts ==
  ASSUME NEW r \in RingType, NEW S \in SUBSET Key, NEW k
  PROVE  LET q == Put(r, S, k)
         IN  /\ q \in RingType /\ q.tail = r.tail
             /\ q.nkeys >= r.nkeys /\ (q.nkeys < 0 <=> r.nkeys < 0)
             /\ q.nkeys = r.nkeys => q = r
             /\ IsQueue(r) => IsQueue(q)
<1>1. CASE Full(r) \/ k \notin S
  BY <1>1 DEF Put, RingType
<1>2. CASE ~(Full(r) \/ k \notin S)
  <2> DEFINE q == [arg |-> [r.arg EXCEPT ![r.cur] = k], cur |-> (r.cur + 1) % NumArgs,
                   tail |-> r.tail, nkeys |-> r.nkeys + 1]
  <2>1. k \in Key /\ r.nkeys \in 0 .. 2
    BY <1>2, SlotFacts DEF Full
  <2>2. Put(r, S, k) = q
    BY <1>2 DEF Put, RingType
  <2>3. q \in RingType
    BY <2>1, SlotFacts DEF RingType
  <2>4. ASSUME IsQueue(r) PROVE IsQueue(q)
    <3>1. r.cur = (r.tail + r.nkeys) % 3 /\ r.tail \in {0, 1, 2}
      BY <2>4, SlotFacts DEF IsQueue, RingType
    <3>2. q.cur = (q.tail + q.nkeys) % NumArgs
      BY <3>1, <2>1, SlotFacts
    <3>3. ASSUME NEW i \in Slot
          PROVE  q.arg[i] # None <=> (i - q.tail) % NumArgs < q.nkeys
      <4>1. r.arg[i] # None <=> (i - r.tail) % 3 < r.nkeys
        BY <2>4, SlotFacts DEF IsQueue
      <4>2. i \in {0, 1, 2}
        BY SlotFacts
      <4>3. CASE i = r.cur
        <5>1. q.arg[i] = k
          BY <4>3 DEF RingType
        <5>2. (i - r.tail) % 3 = r.nkeys
          BY <4>3, <3>1, <2>1, <4>2
        <5> QED BY <5>1, <5>2, <2>1, KeyFacts, SlotFacts
      <4>4. CASE i # r.cur
        <5>1. q.arg[i] = r.arg[i]
          BY <4>4 DEF RingType
        <5>2. (i - r.tail) % 3 # r.nkeys
          <6>1. r.nkeys \in {0, 1, 2} /\ r.cur \in {0, 1, 2}
            BY <2>1, SlotFacts DEF RingType
          <6> QED BY <4>4, <3>1, <4>2, <6>1, ModFacts
        <5> QED BY <5>1, <5>2, <4>1, <4>2, <3>1, <2>1, SlotFacts
      <4> QED BY <4>3, <4>4
    <3> QED BY <3>2, <3>3, <2>1 DEF IsQueue
  <2> QED BY <2>1, <2>2, <2>3, <2>4
<1> QED BY <1>1, <1>2

(* The same of all the keys of a message.                                  *)
LEMMA PutAllFacts ==
  ASSUME IInv, NEW S \in SUBSET Key
  PROVE  LET q == PutAll(S)
         IN  /\ q \in RingType /\ q.tail = ring.tail
             /\ q.nkeys >= ring.nkeys /\ (q.nkeys < 0 <=> ring.nkeys < 0)
             /\ q.nkeys = ring.nkeys => q = ring
             /\ IsQueue(ring) => IsQueue(q)
<1> DEFINE q1 == Put(ring, S, "pair")
           q2 == Put(q1, S, "group")
           q3 == Put(q2, S, "igtk")
<1>1. ring \in RingType
  BY DEF IInv
<1>2. /\ q1 \in RingType /\ q1.tail = ring.tail
      /\ q1.nkeys >= ring.nkeys /\ (q1.nkeys < 0 <=> ring.nkeys < 0)
      /\ q1.nkeys = ring.nkeys => q1 = ring
      /\ IsQueue(ring) => IsQueue(q1)
  BY <1>1, PutFacts
<1>3. /\ q2 \in RingType /\ q2.tail = q1.tail
      /\ q2.nkeys >= q1.nkeys /\ (q2.nkeys < 0 <=> q1.nkeys < 0)
      /\ q2.nkeys = q1.nkeys => q2 = q1
      /\ IsQueue(q1) => IsQueue(q2)
  <2> HIDE DEF q1
  <2> QED BY <1>2, PutFacts
<1>4. /\ q3 \in RingType /\ q3.tail = q2.tail
      /\ q3.nkeys >= q2.nkeys /\ (q3.nkeys < 0 <=> q2.nkeys < 0)
      /\ q3.nkeys = q2.nkeys => q3 = q2
      /\ IsQueue(q2) => IsQueue(q3)
  <2> HIDE DEF q2
  <2> QED BY <1>3, PutFacts
<1>5. PutAll(S) = q3
  BY DEF PutAll
<1>6. /\ ring.nkeys \in Int /\ q1.nkeys \in Int /\ q2.nkeys \in Int /\ q3.nkeys \in Int
  <2> HIDE DEF q1, q2, q3
  <2> QED BY <1>1, <1>2, <1>3, <1>4, SlotFacts DEF RingType
<1> HIDE DEF q1, q2, q3
<1> QED BY <1>2, <1>3, <1>4, <1>5, <1>6

(* iwx_setkey_task clears an entry and moves the tail.                     *)
LEMMA DropFacts ==
  ASSUME NEW r \in RingType, r.nkeys >= 0, task \in TaskType
  PROVE  /\ Drop(r) \in RingType /\ Drop(r).nkeys = r.nkeys - 1
         /\ IsQueue(r) /\ r.nkeys > 0 /\ task.slot = r.tail => IsQueue(Drop(r))
<1> DEFINE q == [arg |-> [r.arg EXCEPT ![task.slot] = None], cur |-> r.cur,
                 tail |-> (r.tail + 1) % NumArgs, nkeys |-> r.nkeys - 1]
<1>1. Drop(r) = q
  <2>1. r = [arg |-> r.arg, cur |-> r.cur, tail |-> r.tail, nkeys |-> r.nkeys]
    BY DEF RingType
  <2>2. DOMAIN r = {"arg", "cur", "tail", "nkeys"}
    BY DEF RingType
  <2>3. DOMAIN Drop(r) = DOMAIN r
    BY DEF Drop
  <2>4. Drop(r).arg = q.arg /\ Drop(r).cur = q.cur /\ Drop(r).tail = q.tail
        /\ Drop(r).nkeys = q.nkeys
    BY <2>2 DEF Drop
  <2> QED BY <2>1, <2>2, <2>3, <2>4 DEF Drop
<1>2. q \in RingType
  BY SlotFacts DEF RingType, TaskType
<1>3. ASSUME IsQueue(r), r.nkeys > 0, task.slot = r.tail PROVE IsQueue(q)
  <2>1. /\ r.cur = (r.tail + r.nkeys) % 3 /\ r.tail \in {0, 1, 2}
        /\ r.nkeys \in {1, 2, 3}
    BY <1>3, SlotFacts DEF IsQueue, RingType
  <2>2. q.cur = (q.tail + q.nkeys) % NumArgs
    BY <2>1, SlotFacts
  <2>3. ASSUME NEW i \in Slot
        PROVE  q.arg[i] # None <=> (i - q.tail) % NumArgs < q.nkeys
    <3>1. r.arg[i] # None <=> (i - r.tail) % 3 < r.nkeys
      BY <1>3, SlotFacts DEF IsQueue
    <3>2. i \in {0, 1, 2}
      BY SlotFacts
    <3>5. (i - ((r.tail + 1) % 3)) % 3 = IF i = r.tail THEN 2 ELSE ((i - r.tail) % 3) - 1
      <4>1. r.tail \in {0, 1, 2}
        BY <2>1
      <4> HIDE DEF q
      <4> QED BY ONLY <4>1, <3>2, StepFacts
    <3>6. q.tail = (r.tail + 1) % 3 /\ q.nkeys = r.nkeys - 1 /\ NumArgs = 3
      BY SlotFacts
    <3>7. r.nkeys \in {1, 2, 3}
      BY <2>1
    <3>8. (i - q.tail) % NumArgs = (i - ((r.tail + 1) % 3)) % 3
      <4>1. r.tail \in {0, 1, 2} /\ (r.tail + 1) % 3 \in Int
        BY <2>1, ModFacts
      <4> HIDE DEF q
      <4> QED BY ONLY <4>1, <3>2, <3>6 DEF NumArgs
    <3>3. CASE i = r.tail
      <4>1. q.arg[i] = None
        BY <3>3, <1>3 DEF RingType
      <4>2. (i - ((r.tail + 1) % 3)) % 3 = 2
        BY <3>3, <3>5
      <4> HIDE DEF q
      <4> QED BY ONLY <4>1, <4>2, <3>6, <3>7, <3>8
    <3>4. CASE i # r.tail
      <4>1. q.arg[i] = r.arg[i]
        BY <3>4, <1>3 DEF RingType
      <4>2. (i - ((r.tail + 1) % 3)) % 3 = ((i - r.tail) % 3) - 1
        BY <3>4, <3>5
      <4>3. (i - r.tail) % 3 \in Int
        BY <2>1, <3>2
      <4> HIDE DEF q
      <4> QED BY ONLY <4>1, <4>2, <4>3, <3>1, <3>6, <3>7, <3>8
    <3> QED BY <3>3, <3>4
  <2> QED BY <2>1, <2>2, <2>3 DEF IsQueue
<1> QED BY <1>1, <1>2, <1>3

-----------------------------------------------------------------------------
(* iwx_newstate and iwx_set_key.                                           *)

LEMMA IdleFacts ==
  /\ TaskIdle \in TaskType /\ TaskIdle.pc = "idle"
  /\ \A b \in BOOLEAN : /\ [TaskIdle EXCEPT !.queued = b] \in TaskType
                        /\ [TaskIdle EXCEPT !.queued = b].pc = "idle"
                        /\ [TaskIdle EXCEPT !.queued = b].queued = b
  /\ NtIdle \in NtType
  /\ \A b \in BOOLEAN : [NtIdle EXCEPT !.queued = b] \in NtType
<1>1. 0 \in Slot /\ 0 \in 0 .. MaxMsgs
  BY SlotFacts, SetKeyAssumption
<1>2. TaskIdle \in TaskType /\ TaskIdle.pc = "idle"
  BY <1>1, KeyFacts DEF TaskIdle, TaskType
<1>3. ASSUME NEW b \in BOOLEAN
      PROVE  /\ [TaskIdle EXCEPT !.queued = b] \in TaskType
             /\ [TaskIdle EXCEPT !.queued = b].pc = "idle"
             /\ [TaskIdle EXCEPT !.queued = b].queued = b
  BY <1>1, KeyFacts DEF TaskIdle, TaskType
<1>4. NtIdle \in NtType /\ \A b \in BOOLEAN : [NtIdle EXCEPT !.queued = b] \in NtType
  BY DEF NtIdle, NtType, LinkState
<1> QED BY <1>2, <1>3, <1>4

(* Setting the flag of a queued task changes nothing else of it.           *)
LEMMA QueuedFacts ==
  ASSUME NEW t \in TaskType, NEW b \in BOOLEAN
  PROVE  LET u == [t EXCEPT !.queued = b]
         IN  u \in TaskType /\ u.pc = t.pc /\ u.slot = t.slot /\ u.queued = b
BY DEF TaskType

LEMMA RequestStateFacts ==
  ASSUME RestType, NEW n \in LinkState, RequestState(n)
  PROVE  ns' \in LinkState /\ nt' \in NtType
BY DEF RestType, RequestState, NtType

(* What a transition out of RUN leaves of the ring.                        *)
LEMMA RingAfterFacts ==
  ASSUME NEW n, NEW r \in RingType
  PROVE  /\ RingAfter(n, r) \in RingType
         /\ RingAfter(n, r).nkeys < 0 => r.nkeys < 0
         /\ RingAfter(n, r).nkeys > 0 => ~Empties(n)
         /\ IsQueue(r) => IsQueue(RingAfter(n, r))
         /\ r.nkeys = 0 \/ ~Empties(n)
              => RingAfter(n, r).nkeys = r.nkeys
         /\ ~Empties(n) => RingAfter(n, r) = r
BY EmptyRingFacts DEF RingAfter

(* A request for a new state keeps what concerns the ring.                 *)
LEMMA RequestFacts ==
  ASSUME IInv, NEW n \in LinkState, Request(n)
  PROVE  /\ ns' \in LinkState /\ nt' \in NtType /\ clean' \in BOOLEAN
         /\ ring' \in RingType /\ task' \in TaskType
         /\ ring'.nkeys < 0 => task'.pc = "idle"
         /\ clean' => IsQueue(ring') /\ Serves(task', ring')
         /\ ring'.nkeys > 0 =>
              ring' = ring /\ task'.pc = task.pc /\ task'.queued = task.queued
<1>1. ns' \in LinkState /\ nt' \in NtType
  BY RequestStateFacts DEF IInv, Request
<1>2. clean' \in BOOLEAN
  BY DEF Request
<1> DEFINE b == task.queued /\ ~Empties(n)
<1>3. b \in BOOLEAN /\ task' = [task EXCEPT !.queued = b]
  BY DEF Request
<1>4. task' \in TaskType /\ task'.pc = task.pc /\ task'.slot = task.slot /\ task'.queued = b
  <2> HIDE DEF b
  <2> QED BY <1>3, QueuedFacts DEF IInv
<1>5. ring' = RingAfter(n, ring)
  BY DEF Request
<1>6. ring' \in RingType /\ (ring'.nkeys < 0 => task'.pc = "idle")
  BY <1>4, <1>5, RingAfterFacts DEF IInv
<1>7. ASSUME clean' PROVE IsQueue(ring') /\ Serves(task', ring')
  <2>1. clean /\ (Empties(n) => ring.nkeys = 0)
    BY <1>7 DEF Request
  <2>2. IsQueue(ring) /\ Serves(task, ring)
    BY <2>1 DEF IInv
  <2>3. IsQueue(ring')
    BY <2>2, <1>5, RingAfterFacts DEF IInv
  <2>4. CASE Empties(n)
    <3>1. ring.nkeys = 0
      BY <2>1, <2>4
    <3> QED BY <3>1, <2>2, <2>3, <1>4 DEF Serves
  <2>5. CASE ~Empties(n)
    <3>1. ring' = ring
      BY <2>5, <1>5 DEF RingAfter
    <3> QED BY <3>1, <2>2, <1>4 DEF Serves
  <2> QED BY <2>4, <2>5
<1>8. ASSUME ring'.nkeys > 0
      PROVE  ring' = ring /\ task'.pc = task.pc /\ task'.queued = task.queued
  <2>1. ~Empties(n)
    BY <1>8, <1>5, RingAfterFacts DEF IInv
  <2>2. task.queued \in BOOLEAN
    BY DEF IInv, TaskType
  <2> QED BY <2>1, <2>2, <1>4, <1>5 DEF RingAfter
<1> QED BY <1>1, <1>2, <1>4, <1>6, <1>7, <1>8

(* A message with keys: the ring and the task.                             *)
LEMMA ReceiveKeysFacts ==
  ASSUME IInv, NEW S \in SUBSET Key, NEW o \in BOOLEAN, ReceiveKeys(S, o)
  PROVE  /\ IInv'
         /\ (ring.nkeys > 0 => task.queued \/ task.pc = "sleep") =>
              (ring'.nkeys > 0 => task'.queued \/ task'.pc = "sleep") \/ shutdown'
<1> DEFINE q == PutAll(S)
<1>1. /\ q \in RingType /\ q.tail = ring.tail
      /\ q.nkeys >= ring.nkeys /\ (q.nkeys < 0 <=> ring.nkeys < 0)
      /\ q.nkeys = ring.nkeys => q = ring
      /\ IsQueue(ring) => IsQueue(q)
  BY PutAllFacts
<1> HIDE DEF q
<1>2. msgs' \in 0 .. MaxMsgs /\ keys' \in [Key -> 0 .. MaxMsgs]
  BY SetKeyAssumption DEF IInv, RestType, ReceiveKeys
<1>3. ring \in RingType /\ task \in TaskType /\ ring.nkeys \in Int
  BY SlotFacts DEF IInv, RingType
<1>4. CASE Refused(S)
  <2> DEFINE b == ~Empties("SCAN") /\ (task.queued \/ (~shutdown /\ q # ring))
  <2>1. /\ RequestState("SCAN") /\ clean' = FALSE /\ port' = port
        /\ ring' = RingAfter("SCAN", q)
        /\ task' = [task EXCEPT !.queued = b]
    BY <1>4 DEF ReceiveKeys, q
  <2>2. b \in BOOLEAN
    OBVIOUS
  <2>3. /\ task' \in TaskType /\ task'.pc = task.pc /\ task'.slot = task.slot
        /\ task'.queued = b
    <3> HIDE DEF b
    <3> QED BY <2>1, <2>2, <1>3, QueuedFacts
  <2>4. ring' \in RingType /\ (ring'.nkeys < 0 => task'.pc = "idle")
    BY <2>1, <2>3, <1>1, RingAfterFacts DEF IInv
  <2>5. ns' \in LinkState /\ nt' \in NtType
    BY <2>1, RequestStateFacts DEF IInv, LinkState
  <2>6. RestType'
    BY <2>1, <2>5, <1>2 DEF IInv, RestType, ReceiveKeys
  <2>7. ASSUME ring.nkeys > 0 => task.queued \/ task.pc = "sleep", ring'.nkeys > 0,
               ~shutdown
        PROVE  task'.queued \/ task'.pc = "sleep"
    <3>1. ~Empties("SCAN") /\ ring' = q
      BY <2>7, <2>1, <1>1, RingAfterFacts
    <3>2. CASE q = ring
      BY <3>1, <3>2, <2>7, <2>3
    <3>3. CASE q # ring
      BY <3>1, <3>3, <2>7, <2>3
    <3> QED BY <3>2, <3>3
  <2>8. shutdown' = shutdown
    BY DEF ReceiveKeys
  <2> QED BY <2>1, <2>3, <2>4, <2>6, <2>7, <2>8 DEF IInv
<1>5. CASE ~Refused(S)
  <2> DEFINE b == task.queued \/ (S # {} /\ ~shutdown)
  <2>1. /\ ring' = q /\ task' = [task EXCEPT !.queued = b] /\ port' = (port \/ o)
        /\ ns' = ns /\ nt' = nt /\ clean' = clean
    BY <1>5 DEF ReceiveKeys, q
  <2>2. b \in BOOLEAN
    OBVIOUS
  <2>3. /\ task' \in TaskType /\ task'.pc = task.pc /\ task'.slot = task.slot
        /\ task'.queued = b
    <3> HIDE DEF b
    <3> QED BY <2>1, <2>2, <1>3, QueuedFacts
  <2>4. RestType'
    BY <2>1, <1>2 DEF IInv, RestType, ReceiveKeys
  <2>5. ring' \in RingType /\ (ring'.nkeys < 0 => task'.pc = "idle")
    BY <2>1, <2>3, <1>1 DEF IInv
  <2>6. ASSUME clean' PROVE IsQueue(ring') /\ Serves(task', ring')
    <3>1. IsQueue(ring) /\ Serves(task, ring)
      BY <2>6, <2>1 DEF IInv
    <3>2. q.nkeys \in Int
      BY <1>1, SlotFacts DEF RingType
    <3> QED BY <3>1, <3>2, <2>1, <2>3, <1>1, <1>3 DEF Serves
  <2>7. ASSUME ring.nkeys > 0 => task.queued \/ task.pc = "sleep", ring'.nkeys > 0,
               ~shutdown
        PROVE  task'.queued \/ task'.pc = "sleep"
    <3>1. CASE S = {}
      <4>1. q = ring
        BY <3>1 DEF q, PutAll, Put
      <4> QED BY <4>1, <2>7, <2>1, <2>3
    <3>2. CASE S # {}
      BY <3>2, <2>7, <2>3
    <3> QED BY <3>1, <3>2
  <2>8. shutdown' = shutdown
    BY DEF ReceiveKeys
  <2> QED BY <2>3, <2>4, <2>5, <2>6, <2>7, <2>8 DEF IInv
<1> QED BY <1>4, <1>5

-----------------------------------------------------------------------------
(* iwx_setkey_task.                                                        *)

(* The body of KeysHaveTask.                                               *)
KeysKept ==
  (ring.nkeys > 0 => task.queued \/ task.pc = "sleep") =>
     \/ (ring'.nkeys > 0 => task'.queued \/ task'.pc = "sleep")
     \/ ~clean \/ shutdown' \/ KeyFails

(* The entry at the tail of a queue that is not empty holds a key.         *)
LEMMA FetchFacts ==
  ASSUME NEW r \in RingType, NEW b \in BOOLEAN, RestType
  PROVE  /\ Fetch(r, b) \in TaskType
         /\ Fetch(r, b).pc \in {"sleep", "panic"}
         /\ IsQueue(r) /\ r.nkeys > 0 => Serves(Fetch(r, b), r) /\ Fetch(r, b).pc = "sleep"
<1> DEFINE k == r.arg[r.tail]
<1>1. k \in Key \cup {None} /\ r.tail \in Slot
  BY DEF RingType
<1>2. CASE k = None
  <2>1. Fetch(r, b) = [TaskIdle EXCEPT !.pc = "panic"]
    BY <1>2 DEF Fetch
  <2>2. Fetch(r, b) \in TaskType /\ Fetch(r, b).pc = "panic"
    BY <2>1, IdleFacts DEF TaskType
  <2>3. ASSUME IsQueue(r), r.nkeys > 0 PROVE FALSE
    <3>1. r.tail \in {0, 1, 2}
      BY <1>1, SlotFacts
    <3>2. (r.tail - r.tail) % NumArgs = 0
      BY <3>1, SlotFacts
    <3>3. r.arg[r.tail] # None
      BY <2>3, <3>2, <1>1 DEF IsQueue
    <3> QED BY <3>3, <1>2
  <2> QED BY <2>2, <2>3
<1>3. CASE k # None
  <2> DEFINE t == [pc |-> "sleep", slot |-> r.tail, key |-> k, ver |-> keys[k],
                   done |-> FALSE, stale |-> FALSE, queued |-> b]
  <2>1. Fetch(r, b) = t
    BY <1>3 DEF Fetch
  <2>2. k \in Key /\ keys[k] \in 0 .. MaxMsgs
    BY <1>1, <1>3 DEF RestType
  <2>3. t \in TaskType /\ t.pc = "sleep" /\ t.slot = r.tail
    BY <2>2, <1>1 DEF TaskType
  <2> QED BY <2>1, <2>3 DEF Serves
<1> QED BY <1>2, <1>3

LEMMA TaskStartStep ==
  ASSUME IInv, TaskStart
  PROVE  IInv' /\ KeysKept
<1>1. RestType'
  BY DEF IInv, RestType, TaskStart
<1>2. ring' = ring /\ clean' = clean /\ shutdown' = shutdown
  BY DEF TaskStart
<1>3. CASE ring.nkeys > 0 /\ ~shutdown
  <2>1. task' = Fetch(ring, FALSE) /\ FALSE \in BOOLEAN
    BY <1>3 DEF TaskStart
  <2>2. task' \in TaskType
    BY <2>1, FetchFacts DEF IInv
  <2>3. clean => Serves(task', ring) /\ task'.pc = "sleep"
    BY <2>1, <1>3, FetchFacts DEF IInv
  <2>4. ~(ring.nkeys < 0)
    BY <1>3, SlotFacts DEF IInv, RingType
  <2> QED BY <1>1, <1>2, <2>2, <2>3, <2>4 DEF IInv, KeysKept
<1>4. CASE ~(ring.nkeys > 0 /\ ~shutdown)
  <2>1. task' = TaskIdle
    BY <1>4 DEF TaskStart
  <2>2. IInv'
    BY <1>1, <1>2, <2>1, IdleFacts DEF IInv, Serves
  <2>3. KeysKept
    BY <1>2, <1>4 DEF KeysKept
  <2> QED BY <2>2, <2>3
<1> QED BY <1>3, <1>4

LEMMA FirmwareAnswersStep ==
  ASSUME IInv, FirmwareAnswers
  PROVE  IInv' /\ KeysKept
<1>1. Kind(task.key, task.ver) \in Key /\ task.ver \in 0 .. MaxMsgs
  BY KeyFacts DEF IInv, TaskType, Kind
<1>2. fw' \in [Key -> 0 .. MaxMsgs]
  BY <1>1 DEF IInv, RestType, FirmwareAnswers
<1>3. RestType'
  BY <1>2 DEF IInv, RestType, FirmwareAnswers
<1>4. ring' = ring /\ clean' = clean
  BY DEF FirmwareAnswers
<1>5. task' \in TaskType /\ task'.pc = task.pc /\ task'.slot = task.slot
      /\ task'.queued = task.queued
  BY DEF IInv, TaskType, FirmwareAnswers
<1> QED BY <1>3, <1>4, <1>5 DEF IInv, Serves, KeysKept

LEMMA KeyAddedStep ==
  ASSUME IInv, KeyAdded
  PROVE  IInv' /\ KeysKept
<1>1. task.pc = "sleep" /\ ring' = Drop(ring) /\ clean' = clean
      /\ shutdown' = shutdown
  BY DEF KeyAdded
<1>2. ring.nkeys >= 0 /\ ring.nkeys \in Int
  BY <1>1, SlotFacts DEF IInv, RingType
<1>3. ring' \in RingType /\ ring'.nkeys = ring.nkeys - 1
  BY <1>1, <1>2, DropFacts DEF IInv
<1>4. clean => IsQueue(ring')
  BY <1>1, <1>2, DropFacts DEF IInv, Serves
<1>5. Kind(task.key, keys[task.key]) \in Key
  BY KeyFacts DEF IInv, TaskType, Kind
<1>6. in_flags' \subseteq Key /\ port' \in BOOLEAN
  <2>1. in_flags' \subseteq Key
    BY <1>5 DEF IInv, RestType, KeyAdded
  <2>2. port' \in BOOLEAN
    BY DEF KeyAdded
  <2> QED BY <2>1, <2>2
<1>7. RestType'
  BY <1>6 DEF IInv, RestType, KeyAdded
<1>8. task.queued \in BOOLEAN
  BY DEF IInv, TaskType
<1>9. CASE ring'.nkeys > 0 /\ ~shutdown
  <2>1. task' = Fetch(ring', task.queued)
    BY <1>9 DEF KeyAdded
  <2>2. RestType /\ ring' \in RingType
    BY <1>3 DEF IInv
  <2>3. task' \in TaskType
        /\ (IsQueue(ring') => Serves(task', ring') /\ task'.pc = "sleep")
    BY <2>1, <2>2, <1>8, <1>9, FetchFacts
  <2>4. ~(ring'.nkeys < 0)
    BY <1>9, <1>2, <1>3
  <2> QED BY <1>1, <1>3, <1>4, <1>7, <2>3, <2>4 DEF IInv, KeysKept
<1>10. CASE ~(ring'.nkeys > 0 /\ ~shutdown)
  <2>1. task' = [TaskIdle EXCEPT !.queued = task.queued]
    BY <1>10 DEF KeyAdded
  <2>2. task' \in TaskType /\ task'.pc = "idle"
    BY <2>1, <1>8, IdleFacts
  <2>3. IInv'
    BY <1>1, <1>3, <1>4, <1>7, <2>2 DEF IInv, Serves
  <2>4. KeysKept
    BY <1>10, <1>1 DEF KeysKept
  <2> QED BY <2>3, <2>4
<1> QED BY <1>9, <1>10

LEMMA KeyFailsStep ==
  ASSUME IInv, KeyFails
  PROVE  IInv' /\ KeysKept
<1>1. task.pc = "sleep" /\ clean' = FALSE
  BY DEF KeyFails
<1>2. ring.nkeys >= 0 /\ ring \in RingType /\ task \in TaskType /\ task.queued \in BOOLEAN
  BY <1>1, SlotFacts DEF IInv, RingType, TaskType
<1>3. CASE ring' = Drop(ring) /\ task' = [TaskIdle EXCEPT !.queued = task.queued]
           /\ ns' = ns /\ nt' = nt
  <2>1. RestType'
    BY <1>3, <1>1 DEF IInv, RestType, KeyFails
  <2>2. ring' \in RingType /\ task' \in TaskType /\ task'.pc = "idle"
    BY <1>2, <1>3, DropFacts, IdleFacts
  <2> QED BY <2>1, <2>2, <1>1 DEF IInv, KeysKept
<1>4. CASE RequestState("SCAN") /\ ring' = Drop(RingAfter("SCAN", ring))
           /\ task' = [TaskIdle EXCEPT !.queued = task.queued /\ ~Empties("SCAN")]
  <2>1. ns' \in LinkState /\ nt' \in NtType
    BY <1>4, RequestStateFacts DEF IInv, LinkState
  <2>2. RestType'
    BY <2>1, <1>1 DEF IInv, RestType, KeyFails
  <2> DEFINE r == RingAfter("SCAN", ring)
  <2>3. r \in RingType /\ r.nkeys >= 0
    BY <1>2, EmptyRingFacts DEF RingAfter
  <2>4. ring' \in RingType
    <3> HIDE DEF r
    <3>1. ring' = Drop(r)
      BY <1>4 DEF r
    <3> QED BY <3>1, <2>3, <1>2, DropFacts
  <2>5. task' \in TaskType /\ task'.pc = "idle"
    <3> DEFINE b == task.queued /\ ~Empties("SCAN")
    <3>1. b \in BOOLEAN /\ task' = [TaskIdle EXCEPT !.queued = b]
      BY <1>4
    <3> HIDE DEF b
    <3> QED BY <3>1, IdleFacts
  <2> QED BY <2>2, <2>4, <2>5, <1>1 DEF IInv, KeysKept
<1> QED BY <1>3, <1>4 DEF KeyFails

-----------------------------------------------------------------------------
(* Messages with keys, and what moves the link.                            *)

LEMMA MessageStep ==
  ASSUME IInv, RecvMsg3 \/ RecvGroupMsg1
  PROVE  IInv' /\ KeysKept
<1>1. PICK S \in SUBSET Key, o \in BOOLEAN : ReceiveKeys(S, o)
  <2>1. CASE RecvMsg3
    <3>1. PICK S \in SUBSET Key : ReceiveKeys(S, S = {})
      BY <2>1 DEF RecvMsg3
    <3>2. (S = {}) \in BOOLEAN
      OBVIOUS
    <3> QED BY <3>1, <3>2
  <2>2. CASE RecvGroupMsg1
    BY <2>2 DEF RecvGroupMsg1
  <2> QED BY <2>1, <2>2
<1> QED BY <1>1, ReceiveKeysFacts DEF KeysKept

(* A request for a new state, with what it does to the keys and the port.  *)
LEMMA RequestStep ==
  ASSUME IInv, NEW n \in LinkState, Request(n),
         keys' \in [Key -> 0 .. MaxMsgs], port' \in BOOLEAN, away' \in BOOLEAN,
         supp' \in {"INITIALIZE", "PTKSTART", "PTKDONE"}
  PROVE  IInv' /\ KeysKept
<1>1. /\ ns' \in LinkState /\ nt' \in NtType /\ clean' \in BOOLEAN
      /\ ring' \in RingType /\ task' \in TaskType
      /\ ring'.nkeys < 0 => task'.pc = "idle"
      /\ clean' => IsQueue(ring') /\ Serves(task', ring')
      /\ ring'.nkeys > 0 =>
           ring' = ring /\ task'.pc = task.pc /\ task'.queued = task.queued
  BY RequestFacts
<1>2. UNCHANGED <<link, fw, sta_active, in_flags, shutdown, msgs>>
  BY DEF Request
<1>3. RestType'
  BY <1>1, <1>2 DEF IInv, RestType
<1> QED BY <1>1, <1>3 DEF IInv, KeysKept

LEMMA TransitionStep ==
  ASSUME IInv,
         \/ JoinBss \/ LoseBss \/ RecvDeauth \/ RecvDisassoc \/ AuthOpen \/ AssocResp
         \/ Start
  PROVE  IInv' /\ KeysKept
<1>1. PICK n \in LinkState : Request(n)
  BY DEF LinkState, JoinBss, LoseBss, RecvDeauth, RecvDisassoc, AuthOpen, AssocResp,
         Start
<1>2. keys' \in [Key -> 0 .. MaxMsgs]
  <2>1. keys' = keys \/ keys' = ZeroPair
    BY DEF JoinBss, LoseBss, RecvDeauth, RecvDisassoc, AuthOpen, AssocResp, Start
  <2>2. ZeroPair \in [Key -> 0 .. MaxMsgs]
    <3>1. 0 \in 0 .. MaxMsgs /\ keys \in [Key -> 0 .. MaxMsgs]
      BY SetKeyAssumption DEF IInv, RestType
    <3> QED BY <3>1 DEF ZeroPair
  <2>3. keys \in [Key -> 0 .. MaxMsgs]
    BY DEF IInv, RestType
  <2> QED BY <2>1, <2>2, <2>3
<1>3. port' \in BOOLEAN /\ away' \in BOOLEAN
      /\ supp' \in {"INITIALIZE", "PTKSTART", "PTKDONE"}
  BY DEF IInv, RestType, JoinBss, LoseBss, RecvDeauth, RecvDisassoc, AuthOpen,
         AssocResp, Start
<1> QED BY <1>1, <1>2, <1>3, RequestStep

-----------------------------------------------------------------------------
(* iwx_newstate_task and iwx_stop.                                         *)

LEMMA ZeroGroupType == IInv => ZeroGroup \in [Key -> 0 .. MaxMsgs]
BY SetKeyAssumption DEF IInv, RestType, ZeroGroup

LEMMA NoKeysType == NoKeys \in [Key -> 0 .. MaxMsgs]
BY SetKeyAssumption DEF NoKeys

(* The task does not look at the ring.                                     *)
LEMMA NewstateStartStep ==
  ASSUME IInv, NewstateStart
  PROVE  IInv' /\ KeysKept
<1>1. nt' \in NtType
  <2>1. CASE shutdown
    BY <2>1, IdleFacts DEF NewstateStart
  <2>2. CASE ~shutdown
    BY <2>2 DEF NewstateStart, NtIdle, NtType, IInv, RestType
  <2> QED BY <2>1, <2>2
<1>2. RestType'
  BY <1>1 DEF IInv, RestType, NewstateStart
<1> QED BY <1>2 DEF IInv, KeysKept, NewstateStart

LEMMA NewstateFailsStep ==
  ASSUME IInv, NewstateFails
  PROVE  IInv' /\ KeysKept
<1>1. nt' \in NtType
  <2>1. nt.queued \in BOOLEAN
    BY DEF IInv, RestType, NtType
  <2> QED BY <2>1, IdleFacts DEF NewstateFails
<1>2. RestType'
  BY <1>1 DEF IInv, RestType, NewstateFails
<1> QED BY <1>2 DEF IInv, KeysKept, NewstateFails

LEMMA DeauthStep ==
  ASSUME IInv, Deauth
  PROVE  IInv' /\ KeysKept
<1>1. nt' \in NtType
  <2>1. nt.queued \in BOOLEAN /\ nt \in NtType
    BY DEF IInv, RestType, NtType
  <2>2. CASE shutdown
    BY <2>1, <2>2, IdleFacts DEF Deauth
  <2>3. CASE ~shutdown
    BY <2>1, <2>3 DEF Deauth, NtType
  <2> QED BY <2>2, <2>3
<1>2. RestType'
  BY <1>1, NoKeysType DEF IInv, RestType, Deauth
<1>3. task' \in TaskType /\ task'.pc = task.pc /\ task'.slot = task.slot
      /\ task'.queued = task.queued
  <2>1. CASE sta_active
    <3> DEFINE b == task.stale \/ (task.pc = "sleep" /\ ~task.done)
    <3>1. b \in BOOLEAN /\ task' = [task EXCEPT !.stale = b]
      BY <2>1 DEF Deauth
    <3> HIDE DEF b
    <3> QED BY <3>1 DEF IInv, TaskType
  <2>2. CASE ~sta_active
    BY <2>2 DEF Deauth, IInv
  <2> QED BY <2>1, <2>2
<1>4. ring' = ring /\ clean' = clean
  BY DEF Deauth
<1> QED BY <1>2, <1>3, <1>4 DEF IInv, Serves, KeysKept

(* AUTH is entered clean only with an empty queue and the task at rest.    *)
LEMMA EnterStateStep ==
  ASSUME IInv, EnterState
  PROVE  IInv' /\ KeysKept
<1>1. nt' \in NtType
  <2>1. nt.queued \in BOOLEAN
    BY DEF IInv, RestType, NtType
  <2> QED BY <2>1, IdleFacts DEF EnterState
<1>2. ring' = ring /\ task' = task
  BY DEF EnterState
<1>3. nt.nstate \in LinkState
  BY DEF IInv, RestType, NtType
<1>4. link' \in LinkState /\ supp' \in {"INITIALIZE", "PTKSTART", "PTKDONE"}
      /\ keys' \in [Key -> 0 .. MaxMsgs]
  BY <1>3, ZeroGroupType DEF IInv, RestType, EnterState
<1>5. clean' \in BOOLEAN /\ away' \in BOOLEAN /\ sta_active' \in BOOLEAN
  <2>1. clean' \in BOOLEAN
    BY DEF IInv, RestType, EnterState, NothingLeft
  <2>2. away' \in BOOLEAN
    BY DEF EnterState
  <2>3. sta_active' \in BOOLEAN
    BY DEF EnterState
  <2> QED BY <2>1, <2>2, <2>3
<1>6. RestType'
  BY <1>1, <1>4, <1>5 DEF IInv, RestType, EnterState
<1>7. ASSUME clean' PROVE IsQueue(ring) /\ Serves(task, ring)
  <2>1. CASE nt.nstate # "AUTH"
    BY <2>1, <1>7 DEF EnterState, IInv
  <2>2. CASE nt.nstate = "AUTH"
    <3>1. NothingLeft
      BY <2>2, <1>7 DEF EnterState
    <3>2. ring.nkeys = 0 /\ ring.cur = ring.tail /\ ring.arg = EmptyRing.arg
          /\ task.pc = "idle"
      BY <3>1 DEF NothingLeft
    <3>3. ring.tail \in {0, 1, 2}
      BY SlotFacts DEF IInv, RingType
    <3>4. (ring.tail + 0) % NumArgs = ring.tail
      BY <3>3, SlotFacts
    <3>5. ASSUME NEW i \in Slot
          PROVE  ring.arg[i] # None <=> (i - ring.tail) % NumArgs < ring.nkeys
      <4>1. ring.arg[i] = None
        BY <3>2 DEF EmptyRing
      <4>2. i \in {0, 1, 2}
        BY SlotFacts
      <4>3. (i - ring.tail) % 3 \in 0 .. 2
        BY <4>2, <3>3, ModFacts
      <4> QED BY <4>1, <4>3, <3>2, SlotFacts
    <3>6. IsQueue(ring)
      BY <3>2, <3>4, <3>5 DEF IsQueue
    <3> QED BY <3>6, <3>2 DEF Serves
  <2> QED BY <2>1, <2>2
<1> QED BY <1>2, <1>6, <1>7 DEF IInv, KeysKept

LEMMA StopBeginStep ==
  ASSUME IInv, StopBegin
  PROVE  IInv' /\ KeysKept
<1>1. nt' \in NtType
  BY DEF IInv, RestType, NtType, StopBegin
<1>2. RestType'
  BY <1>1 DEF IInv, RestType, StopBegin
<1>3. task' \in TaskType
  BY DEF IInv, TaskType, StopBegin
<1>4. ring' \in RingType /\ ring'.nkeys = 0 /\ clean' = FALSE /\ shutdown' = TRUE
  BY EmptyRingFacts DEF StopBegin
<1> QED BY <1>2, <1>3, <1>4 DEF IInv, KeysKept

LEMMA StopEndStep ==
  ASSUME IInv, StopEnd
  PROVE  IInv' /\ KeysKept
<1>1. nt' \in NtType
  <2> DEFINE b == nt.pc # "idle"
  <2>1. b \in BOOLEAN /\ nt' = [nt EXCEPT !.stale = b]
    BY DEF StopEnd
  <2> HIDE DEF b
  <2> QED BY <2>1 DEF IInv, RestType, NtType
<1>2. RestType'
  BY <1>1, NoKeysType, ZeroGroupType DEF IInv, RestType, StopEnd, LinkState
<1>3. task' \in TaskType /\ task'.pc = task.pc /\ task'.slot = task.slot
      /\ task'.queued = task.queued
  <2> DEFINE b == task.pc = "sleep"
  <2>1. b \in BOOLEAN /\ task' = [task EXCEPT !.stale = b, !.done = FALSE]
    BY DEF StopEnd
  <2> HIDE DEF b
  <2> QED BY <2>1 DEF IInv, TaskType
<1>4. ring' = ring /\ clean' = clean
  BY DEF StopEnd
<1> QED BY <1>2, <1>3, <1>4 DEF IInv, Serves, KeysKept

-----------------------------------------------------------------------------
(* The theorems.                                                           *)

LEMMA IInvInit == Init => IInv
<1> SUFFICES ASSUME Init PROVE IInv
  OBVIOUS
<1>1. RestType
  <2>1. nt \in NtType
    BY IdleFacts DEF Init
  <2>2. 0 \in 0 .. MaxMsgs
    BY SetKeyAssumption
  <2> QED BY <2>1, <2>2, NoKeysType DEF Init, RestType, LinkState
<1>2. ring \in RingType /\ task \in TaskType /\ ring.nkeys = 0
  BY EmptyRingFacts, IdleFacts DEF Init
<1> QED BY <1>1, <1>2 DEF Init, IInv

LEMMA NextStep ==
  ASSUME IInv, Next
  PROVE  IInv' /\ KeysKept
BY MessageStep, TaskStartStep, FirmwareAnswersStep, KeyAddedStep, KeyFailsStep,
   TransitionStep, NewstateStartStep, NewstateFailsStep, DeauthStep, EnterStateStep,
   StopBeginStep, StopEndStep DEF Next, Step

LEMMA IInvStep == IInv /\ [Next]_vars => IInv'
<1> SUFFICES ASSUME IInv, [Next]_vars PROVE IInv'
  OBVIOUS
<1>1. CASE Next
  BY <1>1, NextStep
<1>2. CASE UNCHANGED vars
  BY <1>2 DEF vars, IInv, RestType, Serves, IsQueue
<1> QED BY <1>1, <1>2

LEMMA IInvImplies == IInv => TypeOK /\ ShortageIsAtRest /\ RingIsQueue
<1> SUFFICES ASSUME IInv PROVE TypeOK /\ ShortageIsAtRest /\ RingIsQueue
  OBVIOUS
<1>1. TypeOK
  BY DEF IInv, RestType, RingType, TaskType, NtType, TypeOK
<1>2. ShortageIsAtRest
  BY DEF IInv, ShortageIsAtRest
<1>3. RingIsQueue
  BY DEF IInv, IsQueue, Serves, RingIsQueue, Distance
<1> QED BY <1>1, <1>2, <1>3

(* The invariant holds in every state the driver reaches.                  *)
THEOREM InvariantCorrect == Spec => []IInv
BY IInvInit, IInvStep, PTL DEF Spec

(* Every variable keeps its type; setkey_nkeys stays between -1 and 3.     *)
THEOREM TypeCorrect == Spec => []TypeOK
BY InvariantCorrect, IInvImplies, PTL

(* A counter of -1 finds iwx_setkey_task at rest.                          *)
THEOREM ShortageCorrect == Spec => []ShortageIsAtRest
BY InvariantCorrect, IInvImplies, PTL

(* In an association that found nothing left over, the ring is a queue and *)
(* no zeroed entry reaches the KASSERT of iwx_add_sta_key, for any number  *)
(* of messages with keys and any order of transitions.                     *)
THEOREM RingCorrect == Spec => []RingIsQueue
BY InvariantCorrect, IInvImplies, PTL

(* Keys in the ring always have a task that will handle them, unless a     *)
(* command failed or the driver is being stopped.                          *)
THEOREM TaskCorrect == Spec => KeysHaveTask
<1>1. IInv /\ [Next]_vars => [KeysKept]_vars
  BY NextStep
<1> QED BY <1>1, InvariantCorrect, PTL DEF Spec, KeysHaveTask, KeysKept

-----------------------------------------------------------------------------
(* The link and the station of the firmware.                               *)

(* A task that is queued or under way carries no transition to INIT, and   *)
(* one that leaves a state is on its way to a scan or to AUTH.             *)
TaskMoves ==
  /\ shutdown => ~nt.queued
  /\ nt.queued => ns # "INIT"
  /\ nt.pc # "idle" => nt.nstate # "INIT"
  /\ nt.pc = "leave" => nt.nstate \in {"SCAN", "AUTH"}

(* The station is there in RUN, until something else is asked for, and is  *)
(* gone when a scan or AUTH is entered; its keys are gone with it.         *)
StationInv ==
  /\ TaskMoves
  /\ link = "RUN" /\ ns = "RUN" =>
       /\ nt.pc = "idle" \/ (nt.pc = "enter" /\ nt.nstate = "RUN")
       /\ ~shutdown => sta_active
  /\ nt.pc = "enter" /\ nt.nstate \in {"SCAN", "AUTH"} => ~sta_active
  /\ ~shutdown /\ link \in {"INIT", "SCAN"} => ~sta_active
  /\ ~sta_active => fw = NoKeys

(* A request for a state leaves the transition under way as it is.         *)
LEMMA RequestStateMoves ==
  ASSUME RestType, StationInv, NEW n \in LinkState \ {"INIT"}, RequestState(n),
         n = "RUN" => link # "RUN",
         link' = link, sta_active' = sta_active, shutdown' = shutdown, fw' = fw
  PROVE  /\ StationInv'
         /\ ns' = n /\ nt'.pc = nt.pc /\ nt'.nstate = nt.nstate
<1> DEFINE b == nt.queued \/ (Taken(n) /\ ~shutdown)
<1>1. nt' = [nt EXCEPT !.queued = b] /\ ns' = n
  BY DEF RequestState
<1>2. /\ nt'.pc = nt.pc /\ nt'.nstate = nt.nstate /\ nt'.queued = b
      /\ nt.queued \in BOOLEAN
  <2> HIDE DEF b
  <2> QED BY <1>1 DEF RestType, NtType
<1>3. TaskMoves'
  BY <1>1, <1>2 DEF StationInv, TaskMoves
<1> QED BY <1>1, <1>2, <1>3 DEF StationInv

LEMMA StationInvInit == Init => StationInv
BY DEF Init, StationInv, TaskMoves, NtIdle

(* What neither moves the link nor touches the station.                    *)
LEMMA StationFrame ==
  ASSUME StationInv, UNCHANGED <<link, ns, nt, fw, sta_active, shutdown>>
  PROVE  StationInv'
BY DEF StationInv, TaskMoves

LEMMA StationNewstateStart ==
  ASSUME RestType, StationInv, NewstateStart
  PROVE  /\ StationInv'
         /\ ~shutdown /\ Leaves(ns) => nt'.pc = "leave"
<1>1. ~shutdown /\ ns # "INIT"
  BY DEF StationInv, TaskMoves, NewstateStart
<1> DEFINE p == IF Leaves(ns) THEN "leave" ELSE "enter"
<1>2. nt' = [NtIdle EXCEPT !.pc = p, !.nstate = ns]
  BY <1>1 DEF NewstateStart
<1>3. nt'.pc = p /\ nt'.nstate = ns /\ nt'.queued = FALSE
  BY <1>2 DEF NtIdle
<1>4. UNCHANGED <<link, ns, fw, sta_active, shutdown>>
  BY DEF NewstateStart
<1>5. link \in LinkState /\ (~Leaves(ns) /\ ns \in {"SCAN", "AUTH"} => link \in {"INIT", "SCAN"})
  BY DEF RestType, LinkState, Leaves
<1>6. TaskMoves'
  BY <1>1, <1>3, <1>4 DEF TaskMoves, Leaves
<1>7. nt'.pc = "enter" /\ nt'.nstate \in {"SCAN", "AUTH"} => ~sta_active
  BY <1>1, <1>3, <1>5 DEF StationInv
<1>8. link = "RUN" /\ ns = "RUN" => nt'.pc = "enter" /\ nt'.nstate = "RUN"
  BY <1>3 DEF Leaves
<1> QED BY <1>1, <1>3, <1>4, <1>6, <1>7, <1>8 DEF StationInv

LEMMA StationNewstateFails ==
  ASSUME RestType, StationInv, NewstateFails
  PROVE  StationInv'
<1>1. nt'.pc = "idle" /\ nt'.queued = nt.queued
  BY DEF NewstateFails, NtIdle
<1> QED BY <1>1 DEF StationInv, TaskMoves, NewstateFails

LEMMA StationDeauth ==
  ASSUME RestType, StationInv, Deauth
  PROVE  StationInv' /\ ~sta_active'
<1>1. /\ nt'.pc = IF shutdown THEN "idle" ELSE "enter"
      /\ ~shutdown => nt'.nstate = nt.nstate
      /\ nt'.queued = nt.queued
  BY DEF Deauth, NtIdle, RestType, NtType
<1>2. ~sta_active' /\ fw' = NoKeys
  <2>1. CASE sta_active
    BY <2>1 DEF Deauth
  <2>2. CASE ~sta_active
    BY <2>2 DEF Deauth, StationInv
  <2> QED BY <2>1, <2>2
<1>3. nt.pc = "leave" /\ UNCHANGED <<link, ns, shutdown>>
  BY DEF Deauth
<1> QED BY <1>1, <1>2, <1>3 DEF StationInv, TaskMoves

LEMMA StationEnterState ==
  ASSUME RestType, StationInv, EnterState
  PROVE  StationInv'
<1>1. nt'.pc = "idle" /\ nt'.queued = nt.queued
  BY DEF EnterState, NtIdle
<1>2. nt.pc = "enter" /\ nt.nstate # "INIT"
  BY DEF EnterState, StationInv, TaskMoves
<1>3. /\ ns' = ns /\ fw' = fw /\ shutdown' = shutdown
      /\ sta_active' = (sta_active \/ nt.nstate = "AUTH")
      /\ nt.nstate = "RUN" => sta_active
      /\ ~shutdown => link' = nt.nstate
  BY DEF EnterState
<1>4. TaskMoves'
  BY <1>1, <1>3 DEF StationInv, TaskMoves
<1>5. ~sta_active' => fw' = NoKeys
  BY <1>3 DEF StationInv
<1>6. ASSUME ~shutdown, link' \in {"INIT", "SCAN"} PROVE ~sta_active'
  BY <1>2, <1>3, <1>6 DEF StationInv
<1>7. ASSUME ~shutdown, link' = "RUN" PROVE sta_active'
  BY <1>3, <1>7
<1> QED BY <1>1, <1>3, <1>4, <1>5, <1>6, <1>7 DEF StationInv

LEMMA StationStop ==
  ASSUME RestType, StationInv, StopBegin \/ StopEnd
  PROVE  StationInv'
<1>1. CASE StopBegin
  <2>1. nt'.pc = nt.pc /\ nt'.nstate = nt.nstate /\ nt'.queued = FALSE
    BY <1>1 DEF StopBegin, RestType, NtType
  <2> QED BY <1>1, <2>1 DEF StationInv, TaskMoves, StopBegin
<1>2. CASE StopEnd
  <2> DEFINE b == nt.pc # "idle"
  <2>1. nt' = [nt EXCEPT !.stale = b]
    BY <1>2 DEF StopEnd
  <2>2. nt'.pc = nt.pc /\ nt'.nstate = nt.nstate /\ nt'.queued = nt.queued
    <3> HIDE DEF b
    <3> QED BY <2>1 DEF RestType, NtType
  <2>3. /\ link' = "INIT" /\ fw' = NoKeys /\ ~sta_active' /\ shutdown /\ ~shutdown'
    BY <1>2 DEF StopEnd
  <2>4. ~nt.queued
    BY <2>3 DEF StationInv, TaskMoves
  <2> QED BY <2>2, <2>3, <2>4 DEF StationInv, TaskMoves
<1> QED BY <1>1, <1>2

-----------------------------------------------------------------------------
(* The keys, in an association that found nothing left over.               *)

Live == clean /\ ~shutdown /\ sta_active

(* Key k is in the ring, in a slot other than i.                           *)
Another(i, k) == \E j \in Slot : j # i /\ ring.arg[j] = k

(* What is known of a key and not yet executed is in the ring; before the  *)
(* handshake is done the pairwise key of net80211 is that of an earlier one. *)
KeysKnown ==
  \A k \in Key : (k = "pair" => supp = "PTKDONE") => fw[k] = keys[k] \/ Waiting(k)

(* The task sleeps over the key in its slot.  It sends the content that the *)
(* key has, unless a later one is in the ring as well; what the firmware   *)
(* has executed is there.                                                  *)
TaskSends ==
  task.pc = "sleep" =>
    /\ ring.arg[task.slot] = task.key /\ task.ver # 0
    /\ task.ver = keys[task.key] \/ Another(task.slot, task.key)
    /\ task.done => fw[task.key] # 0

(* No entry of the ring is a key that was zeroed since.                    *)
EntriesAreKeys == \A i \in Slot : ring.arg[i] # None => keys[ring.arg[i]] # 0

(* The bit of the pairwise key is true; an open port has the key, or AUTH  *)
(* is still being waited for, which closes it.                             *)
PortKeyed ==
  /\ "pair" \in in_flags => fw["pair"] # 0
  /\ port => \/ fw["pair"] # 0
             \/ link = "AUTH" /\ ns \in {"AUTH", "SCAN"} /\ nt.pc # "enter"

KeyInv == Live => KeysKnown /\ TaskSends /\ EntriesAreKeys /\ PortKeyed

LEMMA KeyInvInit == Init => KeyInv
BY DEF Init, KeyInv, Live

(* In an empty ring there is nothing, and the task is not asleep.          *)
LEMMA EmptyMeans ==
  ASSUME IInv, clean, ring.nkeys = 0
  PROVE  (\A i \in Slot : ring.arg[i] = None) /\ task.pc # "sleep"
<1>1. IsQueue(ring) /\ Serves(task, ring) /\ ring.tail \in {0, 1, 2}
  BY SlotFacts DEF IInv, RingType
<1>2. ASSUME NEW i \in Slot PROVE ring.arg[i] = None
  <2>1. i \in {0, 1, 2}
    BY SlotFacts
  <2>2. (i - ring.tail) % 3 \in 0 .. 2
    BY <1>1, <2>1, ModFacts
  <2>3. ring.arg[i] # None <=> (i - ring.tail) % NumArgs < ring.nkeys
    BY <1>1 DEF IsQueue
  <2> QED BY <2>2, <2>3, SlotFacts
<1> QED BY <1>1, <1>2 DEF Serves

(* A transition that leaves the association clean leaves the ring as it is. *)
LEMMA RequestKeeps ==
  ASSUME IInv, NEW n \in LinkState, Request(n), clean'
  PROVE  /\ clean
         /\ \A i \in Slot : ring'.arg[i] = ring.arg[i]
         /\ task'.pc = task.pc /\ task'.slot = task.slot /\ task'.key = task.key
         /\ task'.ver = task.ver /\ task'.done = task.done
         /\ Empties(n) => \A i \in Slot : ring.arg[i] = None
         /\ Empties(n) => task.pc # "sleep"
<1>1. clean /\ (Empties(n) => ring.nkeys = 0)
  BY DEF Request
<1>2. Empties(n) => (\A i \in Slot : ring.arg[i] = None) /\ task.pc # "sleep"
  BY <1>1, EmptyMeans
<1>3. \A i \in Slot : ring'.arg[i] = ring.arg[i]
  BY <1>2 DEF Request, RingAfter, EmptyRing
<1> DEFINE b == task.queued /\ ~Empties(n)
<1>4. task' = [task EXCEPT !.queued = b]
  BY DEF Request
<1>5. /\ task'.pc = task.pc /\ task'.slot = task.slot /\ task'.key = task.key
      /\ task'.ver = task.ver /\ task'.done = task.done
  <2> HIDE DEF b
  <2> QED BY <1>4 DEF IInv, TaskType
<1> QED BY <1>1, <1>2, <1>3, <1>5

(* The same keys, the same ring and the same firmware mean the same.       *)
LEMMA KeysFrame ==
  ASSUME task \in TaskType,
         KeysKnown, TaskSends, EntriesAreKeys,
         \A i \in Slot : ring'.arg[i] = ring.arg[i],
         task'.pc = task.pc, task'.slot = task.slot, task'.key = task.key,
         task'.ver = task.ver, task'.done = task.done,
         keys' = keys, fw' = fw, supp' = "PTKDONE" => supp = "PTKDONE"
  PROVE  KeysKnown' /\ TaskSends' /\ EntriesAreKeys'
<1>1. KeysKnown'
  BY DEF KeysKnown, Waiting
<1>2. TaskSends'
  BY DEF TaskSends, Another, TaskType
<1>3. EntriesAreKeys'
  BY DEF EntriesAreKeys
<1> QED BY <1>1, <1>2, <1>3

(* AUTH, entered clean, sees no key: the handshake needs an association.   *)
AuthInv == Live /\ link = "AUTH" => supp = "INITIALIZE" /\ ring.nkeys = 0

LEMMA AuthInvStep == IInv /\ AuthInv /\ [Next]_vars => AuthInv'
<1> SUFFICES ASSUME IInv, AuthInv, [Next]_vars, Live', link' = "AUTH"
             PROVE  supp' = "INITIALIZE" /\ ring'.nkeys = 0
  BY DEF AuthInv
<1>1. CASE EnterState
  <2>1. clean' /\ ~shutdown'
    BY DEF Live
  <2>2. nt.nstate = "AUTH"
    BY <1>1, <2>1 DEF EnterState
  <2>3. NothingLeft /\ supp' = "INITIALIZE" /\ ring' = ring
    BY <1>1, <2>1, <2>2 DEF EnterState
  <2> QED BY <2>3 DEF NothingLeft
<1>2. CASE StopBegin \/ StopEnd \/ NewstateFails \/ KeyFails \/ Deauth
  <2>1. CASE Deauth
    BY <2>1 DEF Deauth, Live, AuthInv
  <2> QED BY <1>2, <2>1 DEF StopBegin, StopEnd, NewstateFails, KeyFails, Live
<1>3. CASE \/ JoinBss \/ LoseBss \/ RecvDeauth \/ RecvDisassoc \/ AuthOpen \/ AssocResp
           \/ Start
  <2>1. PICK n \in LinkState : Request(n)
    BY <1>3 DEF LinkState, JoinBss, LoseBss, RecvDeauth, RecvDisassoc, AuthOpen,
       AssocResp, Start
  <2>2. clean /\ UNCHANGED <<link, sta_active, shutdown>> /\ ring' = RingAfter(n, ring)
    BY <2>1 DEF Request, Live
  <2>3. supp = "INITIALIZE" /\ ring.nkeys = 0
    BY <2>2 DEF AuthInv, Live
  <2>4. supp' = supp \/ supp' = "INITIALIZE"
    BY <1>3, <2>2 DEF JoinBss, LoseBss, RecvDeauth, RecvDisassoc, AuthOpen, AssocResp,
       Start
  <2> QED BY <2>2, <2>3, <2>4 DEF RingAfter, EmptyRing
<1>4. CASE \/ RecvMsg3 \/ RecvGroupMsg1 \/ TaskStart \/ FirmwareAnswers \/ KeyAdded
           \/ NewstateStart \/ UNCHANGED vars
  <2>1. UNCHANGED <<link, sta_active, shutdown>> /\ (clean' = FALSE \/ clean' = clean)
    <3>1. CASE RecvMsg3 \/ RecvGroupMsg1
      <4>1. PICK S, o : ReceiveKeys(S, o)
        BY <3>1 DEF RecvMsg3, RecvGroupMsg1
      <4>2. clean' = FALSE \/ clean' = clean
        BY <4>1 DEF ReceiveKeys
      <4> QED BY <4>1, <4>2 DEF ReceiveKeys, Live
    <3>2. CASE TaskStart \/ NewstateStart
      BY <3>2 DEF TaskStart, NewstateStart
    <3>3. CASE FirmwareAnswers
      BY <3>3 DEF FirmwareAnswers
    <3>4. CASE KeyAdded
      BY <3>4 DEF KeyAdded
    <3>5. CASE UNCHANGED vars
      BY <3>5 DEF vars
    <3> QED BY <1>4, <3>1, <3>2, <3>3, <3>4, <3>5
  <2>2. supp = "INITIALIZE" /\ ring.nkeys = 0 /\ clean
    BY <2>1 DEF AuthInv, Live
  <2>3. task.pc # "sleep"
    BY <2>2, EmptyMeans
  <2>4. UNCHANGED <<supp, ring>>
    BY <1>4, <2>2, <2>3 DEF RecvMsg3, RecvGroupMsg1, TaskStart, FirmwareAnswers, KeyAdded,
       NewstateStart, vars
  <2> QED BY <2>2, <2>4
<1> QED BY <1>1, <1>2, <1>3, <1>4 DEF Next, Step

(* What moves the link: the keys.  Only a new access point zeroes one, and *)
(* finds the ring empty.                                                   *)
LEMMA KeyTransition ==
  ASSUME IInv, StationInv, KeyInv, AuthInv,
         \/ JoinBss \/ LoseBss \/ RecvDeauth \/ RecvDisassoc \/ AuthOpen \/ AssocResp
         \/ Start
  PROVE  StationInv' /\ KeyInv'
<1>1. PICK n \in LinkState \ {"INIT"} : Request(n) /\ (n = "RUN" => link # "RUN")
  BY DEF LinkState, JoinBss, LoseBss, RecvDeauth, RecvDisassoc, AuthOpen, AssocResp,
         Start
<1>2. /\ RequestState(n)
      /\ UNCHANGED <<link, fw, sta_active, in_flags, shutdown, msgs>>
  BY <1>1 DEF Request
<1>3. StationInv' /\ ns' = n /\ nt'.pc = nt.pc
  BY <1>1, <1>2, RequestStateMoves DEF IInv
<1> SUFFICES ASSUME Live' PROVE (KeysKnown /\ TaskSends /\ EntriesAreKeys /\ PortKeyed)'
  BY <1>3 DEF KeyInv
<1>4. /\ clean
      /\ \A i \in Slot : ring'.arg[i] = ring.arg[i]
      /\ task'.pc = task.pc /\ task'.slot = task.slot /\ task'.key = task.key
      /\ task'.ver = task.ver /\ task'.done = task.done
      /\ Empties(n) => \A i \in Slot : ring.arg[i] = None
      /\ Empties(n) => task.pc # "sleep"
  BY <1>1, RequestKeeps DEF Live
<1>5. Live /\ KeysKnown /\ TaskSends /\ EntriesAreKeys /\ PortKeyed
  BY <1>2, <1>4 DEF Live, KeyInv
<1>6. PortKeyed'
  <2>1. CASE JoinBss
    BY <2>1, <1>2, <1>5 DEF JoinBss, PortKeyed
  <2>2. CASE LoseBss \/ RecvDeauth
    <3>1. port' = port /\ ns' \in {"AUTH", "SCAN"}
      BY <2>2 DEF LoseBss, RecvDeauth, Request, RequestState
    <3> QED BY <3>1, <1>2, <1>3, <1>5 DEF PortKeyed
  <2>3. CASE RecvDisassoc \/ AssocResp \/ Start
    <3>1. port' = port /\ link # "AUTH"
      BY <2>3 DEF RecvDisassoc, AssocResp, Start
    <3> QED BY <3>1, <1>2, <1>5 DEF PortKeyed
  <2>4. CASE AuthOpen
    BY <2>4, <1>2, <1>5 DEF AuthOpen, PortKeyed
  <2> QED BY <2>1, <2>2, <2>3, <2>4
<1>7. KeysKnown' /\ TaskSends' /\ EntriesAreKeys'
  <2>1. CASE JoinBss
    <3>1. link # "SCAN"
      BY <1>5 DEF StationInv, Live
    <3>2. link \in {"AUTH", "RUN"} /\ Request("AUTH")
          /\ keys' = ZeroPair /\ supp' = "INITIALIZE"
      BY <2>1, <3>1 DEF JoinBss
    <3>3. n = "AUTH"
      BY <1>3, <3>2 DEF Request, RequestState
    <3> DEFINE Nothing == (\A i \in Slot : ring.arg[i] = None) /\ task.pc # "sleep"
    <3>4. ASSUME link = "RUN" PROVE Nothing
      BY <3>3, <3>4, <1>4 DEF Empties, Taken
    <3>9. ASSUME link = "AUTH" PROVE Nothing
      <4>1. ring.nkeys = 0
        BY <3>9, <1>5 DEF AuthInv
      <4> QED BY <4>1, <1>4, EmptyMeans
    <3>5. /\ \A i \in Slot : ring'.arg[i] = None /\ ring.arg[i] = None
          /\ task.pc # "sleep"
      BY <3>2, <3>4, <3>9, <1>4
    <3>6. TaskSends' /\ EntriesAreKeys'
      BY <3>2, <3>5, <1>4 DEF TaskSends, EntriesAreKeys
    <3>7. ASSUME NEW k \in Key, k # "pair" PROVE fw[k] = keys'[k]
      <4>1. ~Waiting(k)
        BY <3>5, KeyFacts DEF Waiting
      <4>2. keys'[k] = keys[k]
        BY <3>2, <3>7 DEF ZeroPair, IInv, RestType
      <4> QED BY <4>1, <4>2, <3>7, <1>5 DEF KeysKnown
    <3>8. KeysKnown'
      BY <3>2, <3>7, <1>2 DEF KeysKnown
    <3> QED BY <3>6, <3>8
  <2>2. CASE ~JoinBss
    <3>1. keys' = keys /\ (supp' = "PTKDONE" => supp = "PTKDONE")
      BY <2>2 DEF LoseBss, RecvDeauth, RecvDisassoc, AuthOpen, AssocResp, Start
    <3> QED BY <3>1, <1>2, <1>4, <1>5, KeysFrame DEF IInv
  <2> QED BY <2>1, <2>2
<1> QED BY <1>6, <1>7

-----------------------------------------------------------------------------
(* A message with keys.                                                    *)

One(S, k) == IF k \in S THEN 1 ELSE 0

(* A set of keys has as many as it has of each.                            *)
LEMMA KeyCount ==
  ASSUME NEW S \in SUBSET Key
  PROVE  IsFiniteSet(S) /\ Cardinality(S) = One(S, "pair") + One(S, "group") + One(S, "igtk")
<1> DEFINE S1 == S \cap {"pair"}
           S2 == S \cap {"pair", "group"}
<1>1. IsFiniteSet(S1) /\ Cardinality(S1) = One(S, "pair")
  <2>1. CASE "pair" \in S
    <3>1. S1 = {"pair"}
      BY <2>1
    <3> QED BY <2>1, <3>1, FS_Singleton DEF One
  <2>2. CASE "pair" \notin S
    <3>1. S1 = {}
      BY <2>2
    <3> QED BY <2>2, <3>1, FS_EmptySet DEF One
  <2> QED BY <2>1, <2>2
<1>2. IsFiniteSet(S2) /\ Cardinality(S2) = Cardinality(S1) + One(S, "group")
  <2>1. CASE "group" \in S
    <3>1. S2 = S1 \cup {"group"} /\ "group" \notin S1
      BY <2>1
    <3> HIDE DEF S1, S2
    <3> QED BY <2>1, <3>1, <1>1, FS_AddElement DEF One
  <2>2. CASE "group" \notin S
    <3>1. S2 = S1 /\ One(S, "group") = 0
      BY <2>2 DEF One
    <3> QED BY <1>1, <3>1 DEF One
  <2> QED BY <2>1, <2>2
<1>3. IsFiniteSet(S) /\ Cardinality(S) = Cardinality(S2) + One(S, "igtk")
  <2>0. \A k \in S : k \in {"pair", "group", "igtk"}
    BY DEF Key
  <2>1. CASE "igtk" \in S
    <3>1. S = S2 \cup {"igtk"} /\ "igtk" \notin S2
      BY <2>0, <2>1
    <3> HIDE DEF S2
    <3> QED BY <2>1, <3>1, <1>2, FS_AddElement DEF One
  <2>2. CASE "igtk" \notin S
    <3>1. S2 = S /\ One(S, "igtk") = 0
      BY <2>0, <2>2 DEF One
    <3> HIDE DEF S2
    <3>2. Cardinality(S) \in Nat
      BY <1>2, <3>1, FS_CardinalityType
    <3> QED BY <1>2, <3>1, <3>2
  <2> QED BY <2>1, <2>2
<1> QED BY <1>1, <1>2, <1>3

(* iwx_set_key writes to an entry that is free, if there is one.           *)
LEMMA PutNew ==
  ASSUME NEW r \in RingType, IsQueue(r), NEW S \in SUBSET Key, NEW k
  PROVE  LET q == Put(r, S, k)
         IN  /\ \A i \in Slot : r.arg[i] # None => q.arg[i] = r.arg[i]
             /\ \A i \in Slot : q.arg[i] = r.arg[i] \/ q.arg[i] \in S
             /\ r.nkeys + One(S, k) <= NumArgs =>
                  /\ q.nkeys = r.nkeys + One(S, k)
                  /\ k \in S => \E i \in Slot : r.arg[i] = None /\ q.arg[i] = k
<1>1. CASE k \notin S
  <2>1. Put(r, S, k) = r /\ r.nkeys \in Int
    BY <1>1, SlotFacts DEF Put, RingType
  <2> QED BY <1>1, <2>1 DEF One
<1>2. CASE k \in S /\ Full(r)
  <2>1. Put(r, S, k) = r
    BY <1>2 DEF Put
  <2>2. r.nkeys = 3
    BY <1>2, SlotFacts DEF Full, RingType, IsQueue
  <2> QED BY <1>2, <2>1, <2>2, SlotFacts DEF One
<1>3. CASE k \in S /\ ~Full(r)
  <2> DEFINE q == Put(r, S, k)
  <2>1. r.nkeys \in 0 .. 2 /\ r.cur \in {0, 1, 2} /\ r.tail \in {0, 1, 2}
    BY <1>3, SlotFacts DEF Full, RingType
  <2>2. /\ q.nkeys = r.nkeys + 1 /\ q.arg[r.cur] = k
        /\ \A i \in Slot : i # r.cur => q.arg[i] = r.arg[i]
    BY <1>3 DEF Put, RingType
  <2>3. (r.cur - r.tail) % 3 = r.nkeys
    <3>1. r.cur = (r.tail + r.nkeys) % 3
      BY SlotFacts DEF IsQueue
    <3> QED BY <2>1, <3>1
  <2>4. r.arg[r.cur] = None
    <3>1. r.cur \in Slot /\ (r.arg[r.cur] # None <=> (r.cur - r.tail) % NumArgs < r.nkeys)
      BY SlotFacts DEF IsQueue, RingType
    <3> QED BY <3>1, <2>1, <2>3, SlotFacts
  <2> HIDE DEF q
  <2>5. \E i \in Slot : r.arg[i] = None /\ q.arg[i] = k
    BY <2>2, <2>4 DEF RingType
  <2>6. /\ \A i \in Slot : r.arg[i] # None => q.arg[i] = r.arg[i]
        /\ \A i \in Slot : q.arg[i] = r.arg[i] \/ q.arg[i] \in S
    BY <2>2, <2>4, <1>3
  <2>7. One(S, k) = 1
    BY <1>3 DEF One
  <2> QED BY <2>2, <2>5, <2>6, <2>7 DEF q
<1> QED BY <1>1, <1>2, <1>3

(* A message that is not refused has each of its keys in the ring, and in  *)
(* a free entry, whatever is there already.                                *)
LEMMA PutAllNew ==
  ASSUME IInv, clean, NEW S \in SUBSET Key, ~Refused(S)
  PROVE  LET q == PutAll(S)
         IN  /\ \A i \in Slot : ring.arg[i] # None => q.arg[i] = ring.arg[i]
             /\ \A i \in Slot : q.arg[i] = ring.arg[i] \/ q.arg[i] \in S
             /\ \A k \in S : \E i \in Slot : ring.arg[i] = None /\ q.arg[i] = k
             /\ S \subseteq Stored(S)
<1> DEFINE q1 == Put(ring, S, "pair")
           q2 == Put(q1, S, "group")
           q3 == Put(q2, S, "igtk")
           Kept(r, q) == \A i \in Slot : r.arg[i] # None => q.arg[i] = r.arg[i]
           New(r, q) == \A i \in Slot : q.arg[i] = r.arg[i] \/ q.arg[i] \in S
           Fresh(r, q, k) == \E i \in Slot : r.arg[i] = None /\ q.arg[i] = k
           Room(r, k) == r.nkeys + One(S, k) <= NumArgs
<1>1. ring \in RingType /\ IsQueue(ring) /\ ring.nkeys \in 0 .. 3
  BY SlotFacts DEF IInv, RingType, IsQueue
<1>2. /\ IsFiniteSet(S)
      /\ Cardinality(S) = One(S, "pair") + One(S, "group") + One(S, "igtk")
      /\ \A k : One(S, k) \in {0, 1} /\ (k \in S => One(S, k) = 1)
  BY KeyCount DEF One
<1>3. ring.nkeys + One(S, "pair") + One(S, "group") + One(S, "igtk") <= 3
  <2>1. CASE S = {}
    <3>1. \A k : One(S, k) = 0
      BY <2>1 DEF One
    <3> QED BY <3>1, <1>1
  <2>2. CASE S # {}
    BY <2>2, <1>1, <1>2, SlotFacts DEF Refused
  <2> QED BY <2>1, <2>2
<1>4. /\ q1 \in RingType /\ IsQueue(q1)
      /\ Kept(ring, q1) /\ New(ring, q1)
      /\ q1.nkeys = ring.nkeys + One(S, "pair")
      /\ "pair" \in S => Fresh(ring, q1, "pair")
  <2>1. Room(ring, "pair")
    BY <1>1, <1>2, <1>3, SlotFacts
  <2>2. q1 \in RingType /\ IsQueue(q1)
    BY <1>1, PutFacts
  <2>3. Kept(ring, q1) /\ New(ring, q1)
    BY <1>1, PutNew
  <2>4. /\ q1.nkeys = ring.nkeys + One(S, "pair")
        /\ "pair" \in S => Fresh(ring, q1, "pair")
    <3>1. ASSUME NEW r \in RingType, IsQueue(r), Room(r, "pair")
          PROVE  LET q == Put(r, S, "pair")
                 IN  /\ q.nkeys = r.nkeys + One(S, "pair")
                     /\ "pair" \in S => Fresh(r, q, "pair")
      BY <3>1, PutNew
    <3> QED BY <1>1, <2>1, <3>1
  <2> QED BY <2>2, <2>3, <2>4
<1>5. /\ q2 \in RingType /\ IsQueue(q2)
      /\ Kept(q1, q2) /\ New(q1, q2)
      /\ q2.nkeys = q1.nkeys + One(S, "group")
      /\ "group" \in S => Fresh(q1, q2, "group")
  <2> HIDE DEF q1
  <2>1. Room(q1, "group")
    BY <1>1, <1>2, <1>3, <1>4, SlotFacts
  <2> QED BY <1>4, <2>1, PutFacts, PutNew
<1>6. /\ Kept(q2, q3) /\ New(q2, q3)
      /\ "igtk" \in S => Fresh(q2, q3, "igtk")
  <2> HIDE DEF q1, q2
  <2>1. Room(q2, "igtk")
    BY <1>1, <1>2, <1>3, <1>4, <1>5, SlotFacts
  <2>2. Kept(q2, q3) /\ New(q2, q3)
    BY <1>5, PutNew
  <2>3. "igtk" \in S => Fresh(q2, q3, "igtk")
    BY <1>5, <2>1, PutNew
  <2> QED BY <2>2, <2>3
<1>7. PutAll(S) = q3
  BY DEF PutAll
<1>8. None \notin S /\ \A k \in S : k \in {"pair", "group", "igtk"}
  BY KeyFacts DEF Key
<1> HIDE DEF q1, q2, q3
<1>9. Kept(ring, q3) /\ New(ring, q3)
  <2>1. Kept(ring, q2)
    BY <1>4, <1>5
  <2>2. New(ring, q2)
    BY <1>4, <1>5
  <2> QED BY <2>1, <2>2, <1>6
<1>10. ASSUME NEW k \in S PROVE Fresh(ring, q3, k)
  <2>0. k # None
    BY <1>8
  <2>1. CASE k = "pair"
    <3>1. PICK i \in Slot : ring.arg[i] = None /\ q1.arg[i] = k
      BY <1>4, <2>1
    <3>2. q3.arg[i] = k
      BY <3>1, <2>0, <1>5, <1>6
    <3> QED BY <3>1, <3>2
  <2>2. CASE k = "group"
    <3>1. PICK i \in Slot : q1.arg[i] = None /\ q2.arg[i] = k
      BY <1>5, <2>2
    <3>2. ring.arg[i] = None /\ q3.arg[i] = k
      BY <3>1, <2>0, <1>4, <1>6
    <3> QED BY <3>2
  <2>3. CASE k = "igtk"
    <3>1. PICK i \in Slot : q2.arg[i] = None /\ q3.arg[i] = k
      BY <1>6, <2>3
    <3>2. q1.arg[i] = None
      BY <3>1, <1>5
    <3>3. ring.arg[i] = None
      BY <3>2, <1>4
    <3> QED BY <3>1, <3>3
  <2> QED BY <2>1, <2>2, <2>3, <1>8
<1>11. S \subseteq Stored(S)
  <2> SUFFICES ASSUME NEW k \in S PROVE ring.nkeys \in 0 .. NumArgs - Before(S, k)
    BY DEF Stored
  <2>1. {j \in S : Rank(j) < Rank(k)} \in SUBSET S
    OBVIOUS
  <2>2. Before(S, k) <= Cardinality(S) /\ Before(S, k) \in Nat
    BY <2>1, <1>2, FS_Subset, FS_CardinalityType DEF Before
  <2>3. ring.nkeys \in 0 .. NumArgs - Cardinality(S) /\ Cardinality(S) \in Nat
    BY <1>2, FS_CardinalityType DEF Refused
  <2> QED BY <2>2, <2>3, SlotFacts
<1> QED BY <1>7, <1>9, <1>10, <1>11

(* A message brings its keys to the ring, or ends the clean association.   *)
LEMMA KeyReceived ==
  ASSUME IInv, StationInv, KeyInv, NEW S \in SUBSET Key, NEW o \in BOOLEAN,
         ReceiveKeys(S, o), UNCHANGED <<link, fw, sta_active, in_flags, shutdown>>,
         "pair" \in S \/ supp = "PTKDONE",
         o => Decrypts
  PROVE  StationInv' /\ KeyInv'
<1>1. CASE Refused(S)
  <2>1. RequestState("SCAN") /\ clean' = FALSE
    BY <1>1 DEF ReceiveKeys
  <2>2. StationInv'
    BY <2>1, RequestStateMoves DEF IInv, LinkState
  <2> QED BY <2>1, <2>2 DEF KeyInv, Live
<1>2. CASE ~Refused(S)
  <2> DEFINE q == PutAll(S)
             b == task.queued \/ (S # {} /\ ~shutdown)
  <2>1. /\ ring' = q /\ task' = [task EXCEPT !.queued = b]
        /\ port' = (port \/ o) /\ UNCHANGED <<ns, nt, clean>>
        /\ msgs' = msgs + 1 /\ supp' = "PTKDONE"
        /\ keys' = [k \in Key |-> IF k \in Stored(S) THEN msgs' ELSE keys[k]]
    BY <1>2 DEF ReceiveKeys
  <2>2. StationInv'
    BY <2>1, StationFrame
  <2>3. /\ task'.pc = task.pc /\ task'.slot = task.slot /\ task'.key = task.key
        /\ task'.ver = task.ver /\ task'.done = task.done
        /\ task.slot \in Slot /\ task.key \in Key
    <3> HIDE DEF b
    <3> QED BY <2>1 DEF IInv, TaskType
  <2> SUFFICES ASSUME Live'
               PROVE  KeysKnown' /\ TaskSends' /\ EntriesAreKeys' /\ PortKeyed'
    BY <2>2 DEF KeyInv
  <2>4. Live /\ KeysKnown /\ TaskSends /\ EntriesAreKeys /\ PortKeyed
    BY <2>1 DEF Live, KeyInv
  <2>5. /\ \A i \in Slot : ring.arg[i] # None => ring'.arg[i] = ring.arg[i]
        /\ \A i \in Slot : ring'.arg[i] = ring.arg[i] \/ ring'.arg[i] \in S
        /\ \A k \in S : \E i \in Slot : ring.arg[i] = None /\ ring'.arg[i] = k
        /\ S \subseteq Stored(S)
    <3> HIDE DEF q
    <3> QED BY <1>2, <2>1, <2>4, PutAllNew DEF Live, q
  <2>6. /\ \A k \in S : keys'[k] = msgs + 1 /\ keys'[k] # 0
        /\ \A k \in Key \ S : keys'[k] = keys[k]
        /\ \A k \in Key : keys[k] # 0 => keys'[k] # 0
    <3>1. msgs \in Nat
      BY SetKeyAssumption DEF IInv, RestType
    <3>2. Stored(S) \subseteq S
      BY DEF Stored
    <3> QED BY <2>1, <2>5, <3>1, <3>2
  <2>7. None \notin Key
    BY KeyFacts
  <2>8. ASSUME task.pc = "sleep" PROVE ring.arg[task.slot] = task.key /\ task.key # None
    BY <2>3, <2>4, <2>7, <2>8 DEF TaskSends
  <2>9. ASSUME NEW k \in S
        PROVE  \E i \in Slot : ring'.arg[i] = k /\ (task.pc = "sleep" => i # task.slot)
    <3>1. PICK i \in Slot : ring.arg[i] = None /\ ring'.arg[i] = k
      BY <2>5
    <3> QED BY <3>1, <2>8
  <2>10. ASSUME NEW k \in Key, k = "pair" => supp' = "PTKDONE"
         PROVE  fw'[k] = keys'[k] \/ Waiting(k)'
    <3>1. CASE k \in S
      BY <3>1, <2>3, <2>9 DEF Waiting
    <3>2. CASE k \notin S
      <4>1. fw[k] = keys[k] \/ Waiting(k)
        BY <3>2, <2>4 DEF KeysKnown
      <4>2. Waiting(k) => Waiting(k)'
        BY <2>3, <2>5, <2>7 DEF Waiting
      <4> QED BY <3>2, <4>1, <4>2, <2>6
    <3> QED BY <3>1, <3>2
  <2>11. KeysKnown'
    BY <2>10 DEF KeysKnown
  <2>12. TaskSends'
    <3> SUFFICES ASSUME task.pc = "sleep"
                 PROVE  /\ ring'.arg[task.slot] = task.key /\ task.ver # 0
                        /\ task.ver = keys'[task.key] \/ Another(task.slot, task.key)'
                        /\ task.done => fw[task.key] # 0
      BY <2>3 DEF TaskSends, Another
    <3>1. /\ ring'.arg[task.slot] = task.key /\ task.ver # 0
          /\ task.done => fw[task.key] # 0
          /\ task.ver = keys[task.key] \/ Another(task.slot, task.key)
      BY <2>3, <2>4, <2>5, <2>8 DEF TaskSends
    <3>2. CASE task.key \in S
      BY <3>1, <3>2, <2>3, <2>9 DEF Another
    <3>3. CASE task.key \notin S
      <4>1. Another(task.slot, task.key) => Another(task.slot, task.key)'
        BY <2>3, <2>5, <2>7 DEF Another
      <4> QED BY <3>1, <3>3, <4>1, <2>3, <2>6
    <3> QED BY <3>1, <3>2, <3>3
  <2>13. EntriesAreKeys'
    <3> SUFFICES ASSUME NEW i \in Slot, ring'.arg[i] # None
                 PROVE  keys'[ring'.arg[i]] # 0
      BY DEF EntriesAreKeys
    <3>1. CASE ring'.arg[i] \in S
      BY <3>1, <2>6
    <3>2. CASE ring'.arg[i] = ring.arg[i]
      <4>1. ring.arg[i] \in Key /\ keys[ring.arg[i]] # 0
        BY <3>2, <2>4 DEF EntriesAreKeys, IInv, RingType
      <4> QED BY <3>2, <4>1, <2>6
    <3> QED BY <3>1, <3>2, <2>5
  <2>14. PortKeyed'
    BY <2>1, <2>4 DEF PortKeyed, Decrypts
  <2> QED BY <2>11, <2>12, <2>13, <2>14
<1> QED BY <1>1, <1>2

LEMMA KeyMessage ==
  ASSUME IInv, StationInv, KeyInv, RecvMsg3 \/ RecvGroupMsg1
  PROVE  StationInv' /\ KeyInv'
<1>1. UNCHANGED <<link, fw, sta_active, in_flags, shutdown>>
  BY DEF RecvMsg3, RecvGroupMsg1, ReceiveKeys
<1>2. CASE RecvMsg3
  <2>1. PICK S \in SUBSET Key :
          (supp = "PTKSTART" => "pair" \in S) /\ ReceiveKeys(S, S = {})
    BY <1>2 DEF RecvMsg3
  <2>2. "pair" \in S \/ supp = "PTKDONE"
    BY <1>2, <2>1 DEF RecvMsg3, IInv, RestType
  <2>3. S = {} => Decrypts
    BY <1>2, <2>2 DEF RecvMsg3
  <2>4. (S = {}) \in BOOLEAN
    OBVIOUS
  <2> QED BY <1>1, <2>1, <2>2, <2>3, <2>4, KeyReceived
<1>3. CASE RecvGroupMsg1
  <2>1. supp = "PTKDONE" /\ Decrypts
    BY <1>3 DEF RecvGroupMsg1
  <2>2. PICK S \in SUBSET Key : ReceiveKeys(S, TRUE)
    BY <1>3 DEF RecvGroupMsg1
  <2> QED BY <1>1, <2>1, <2>2, KeyReceived
<1> QED BY <1>2, <1>3

-----------------------------------------------------------------------------
(* The key task.                                                           *)

(* What the task fetches from an entry is the content the key has now.     *)
LEMMA FetchSends ==
  ASSUME RestType, NEW r \in RingType, IsQueue(r), r.nkeys > 0, NEW b \in BOOLEAN,
         \A i \in Slot : r.arg[i] # None => keys[r.arg[i]] # 0
  PROVE  LET t == Fetch(r, b)
         IN  /\ t.pc = "sleep" /\ t.slot = r.tail /\ t.done = FALSE
             /\ t.key = r.arg[t.slot] /\ t.ver = keys[t.key] /\ t.ver # 0
<1>1. Serves(Fetch(r, b), r) /\ Fetch(r, b).pc = "sleep"
  BY FetchFacts
<1>2. r.arg[r.tail] # None
  <2>1. CASE r.arg[r.tail] = None
    <3>1. Fetch(r, b) = [TaskIdle EXCEPT !.pc = "panic"]
      BY <2>1 DEF Fetch
    <3> QED BY <1>1, <3>1 DEF TaskIdle
  <2> QED BY <2>1
<1>3. Fetch(r, b) = [pc |-> "sleep", slot |-> r.tail, key |-> r.arg[r.tail],
                     ver |-> keys[r.arg[r.tail]], done |-> FALSE, stale |-> FALSE,
                     queued |-> b]
  BY <1>2 DEF Fetch
<1>4. r.tail \in Slot
  BY DEF RingType
<1> QED BY <1>2, <1>3, <1>4

LEMMA KeyTaskStart ==
  ASSUME IInv, StationInv, KeyInv, TaskStart
  PROVE  StationInv' /\ KeyInv'
<1>1. UNCHANGED <<link, ns, nt, supp, keys, ring, fw, sta_active, in_flags, port,
                  shutdown, clean>>
  BY DEF TaskStart
<1>2. StationInv'
  BY <1>1, StationFrame
<1> SUFFICES ASSUME Live PROVE KeysKnown' /\ TaskSends' /\ EntriesAreKeys' /\ PortKeyed'
  BY <1>1, <1>2 DEF KeyInv, Live
<1>3. KeysKnown /\ EntriesAreKeys /\ PortKeyed /\ task.pc = "idle"
  BY DEF KeyInv, TaskStart
<1>4. EntriesAreKeys' /\ PortKeyed'
  BY <1>1, <1>3 DEF EntriesAreKeys, PortKeyed
<1>5. CASE ring.nkeys > 0
  <2>1. task' = Fetch(ring, FALSE)
    BY <1>5 DEF TaskStart, Live
  <2>2. /\ RestType /\ ring \in RingType /\ IsQueue(ring) /\ FALSE \in BOOLEAN
        /\ \A i \in Slot : ring.arg[i] # None => keys[ring.arg[i]] # 0
    BY <1>3 DEF IInv, Live, EntriesAreKeys
  <2>3. /\ task'.done = FALSE
        /\ task'.key = ring.arg[task'.slot] /\ task'.ver = keys[task'.key] /\ task'.ver # 0
    BY <2>1, <2>2, <1>5, FetchSends
  <2>4. KeysKnown'
    BY <1>1, <1>3, <2>3 DEF KeysKnown, Waiting
  <2>5. TaskSends'
    BY <1>1, <2>3 DEF TaskSends
  <2> QED BY <1>4, <2>4, <2>5
<1>6. CASE ~(ring.nkeys > 0)
  <2>1. task'.pc = "idle"
    BY <1>6 DEF TaskStart, TaskIdle
  <2>2. KeysKnown'
    BY <1>1, <1>3, <2>1 DEF KeysKnown, Waiting
  <2> QED BY <1>4, <2>1, <2>2 DEF TaskSends
<1> QED BY <1>5, <1>6

(* The firmware takes the content that was sent: the last one, or one that *)
(* is followed by another entry of the ring.                               *)
LEMMA KeyFirmwareAnswers ==
  ASSUME IInv, StationInv, KeyInv, FirmwareAnswers
  PROVE  StationInv' /\ KeyInv'
<1>1. /\ UNCHANGED <<link, ns, nt, supp, keys, ring, sta_active, in_flags, port,
                     shutdown, clean>>
      /\ task.pc = "sleep" /\ ~task.done /\ sta_active
      /\ fw' = [fw EXCEPT ![Kind(task.key, task.ver)] = task.ver]
  BY DEF FirmwareAnswers
<1>2. /\ task'.pc = "sleep" /\ task'.done /\ task'.slot = task.slot
      /\ task'.key = task.key /\ task'.ver = task.ver /\ task.key \in Key
  BY <1>1 DEF FirmwareAnswers, IInv, TaskType
<1>3. StationInv'
  BY <1>1 DEF StationInv, TaskMoves
<1> SUFFICES ASSUME Live PROVE KeysKnown' /\ TaskSends' /\ EntriesAreKeys' /\ PortKeyed'
  BY <1>1, <1>3 DEF KeyInv, Live
<1>4. KeysKnown /\ TaskSends /\ EntriesAreKeys /\ PortKeyed
  BY DEF KeyInv
<1>5. /\ ring.arg[task.slot] = task.key /\ task.ver # 0
      /\ task.ver = keys[task.key] \/ Another(task.slot, task.key)
  BY <1>1, <1>4 DEF TaskSends
<1>6. /\ fw'[task.key] = task.ver
      /\ \A k \in Key : k # task.key => fw'[k] = fw[k]
  BY <1>1, <1>2, <1>5 DEF Kind, IInv, RestType
<1>7. ASSUME NEW k \in Key, k = "pair" => supp' = "PTKDONE"
      PROVE  fw'[k] = keys'[k] \/ Waiting(k)'
  <2>1. CASE k = task.key
    BY <2>1, <1>1, <1>2, <1>5, <1>6 DEF Another, Waiting
  <2>2. CASE k # task.key
    <3>1. fw[k] = keys[k] \/ Waiting(k)
      BY <1>1, <1>4, <1>7 DEF KeysKnown
    <3>2. Waiting(k) => Waiting(k)'
      BY <2>2, <1>1, <1>2, <1>5 DEF Waiting
    <3> QED BY <3>1, <3>2, <2>2, <1>1, <1>6
  <2> QED BY <2>1, <2>2
<1>8. TaskSends'
  BY <1>1, <1>2, <1>5, <1>6 DEF TaskSends, Another
<1>9. EntriesAreKeys'
  BY <1>1, <1>4 DEF EntriesAreKeys
<1>10. PortKeyed'
  <2>1. fw["pair"] # 0 => fw'["pair"] # 0
    BY <1>5, <1>6, KeyFacts
  <2> QED BY <2>1, <1>1, <1>4 DEF PortKeyed
<1> QED BY <1>7, <1>8, <1>9, <1>10 DEF KeysKnown

(* The entry that goes is the one the firmware has executed.               *)
LEMMA KeyKeyAdded ==
  ASSUME IInv, StationInv, KeyInv, KeyAdded
  PROVE  StationInv' /\ KeyInv'
<1>1. /\ UNCHANGED <<link, ns, nt, supp, keys, fw, sta_active, shutdown, clean>>
      /\ task.pc = "sleep" /\ task.done
      /\ in_flags' = in_flags \cup {Kind(task.key, keys[task.key])}
      /\ port' = (port \/ in_flags' = Key) /\ ring' = Drop(ring)
  BY DEF KeyAdded
<1>2. StationInv'
  BY <1>1, StationFrame
<1> SUFFICES ASSUME Live PROVE KeysKnown' /\ TaskSends' /\ EntriesAreKeys' /\ PortKeyed'
  BY <1>1, <1>2 DEF KeyInv, Live
<1>3. KeysKnown /\ TaskSends /\ EntriesAreKeys /\ PortKeyed
  BY DEF KeyInv
<1>4. /\ ring \in RingType /\ IsQueue(ring) /\ task \in TaskType /\ RestType
      /\ task.slot = ring.tail /\ ring.nkeys > 0 /\ ring.nkeys >= 0
  BY <1>1, SlotFacts DEF IInv, Live, Serves, RingType
<1>5. ring' \in RingType /\ IsQueue(ring')
  BY <1>1, <1>4, DropFacts
<1>6. /\ ring'.arg[task.slot] = None
      /\ \A i \in Slot : i # task.slot => ring'.arg[i] = ring.arg[i]
  BY <1>1, <1>4 DEF Drop, RingType, TaskType
<1>7. EntriesAreKeys'
  BY <1>1, <1>3, <1>6 DEF EntriesAreKeys
<1>8. ring.arg[task.slot] = task.key /\ fw[task.key] # 0 /\ task.key \in Key
  BY <1>1, <1>3, <1>4 DEF TaskSends, TaskType
<1>9. Kind(task.key, keys[task.key]) = task.key
  <2>1. task.slot \in Slot /\ task.key # None
    BY <1>4, <1>8, KeyFacts DEF TaskType
  <2> QED BY <2>1, <1>3, <1>8 DEF EntriesAreKeys, Kind
<1>10. PortKeyed'
  <2>1. "pair" \in in_flags' => fw["pair"] # 0
    BY <1>1, <1>3, <1>8, <1>9 DEF PortKeyed
  <2>2. in_flags' = Key => "pair" \in in_flags'
    BY KeyFacts
  <2> QED BY <2>1, <2>2, <1>1, <1>3 DEF PortKeyed
<1>11. ASSUME ~task'.done
       PROVE  KeysKnown'
  <2> SUFFICES ASSUME NEW k \in Key, k = "pair" => supp = "PTKDONE"
               PROVE  fw[k] = keys[k] \/ Waiting(k)'
    BY <1>1 DEF KeysKnown
  <2>1. fw[k] = keys[k] \/ Waiting(k)
    BY <1>3 DEF KeysKnown
  <2>2. Waiting(k) => Waiting(k)'
    BY <1>1, <1>6, <1>11 DEF Waiting
  <2> QED BY <2>1, <2>2
<1>12. task.queued \in BOOLEAN
  BY <1>4 DEF TaskType
<1>13. CASE ring'.nkeys > 0 /\ ~shutdown
  <2>1. task' = Fetch(ring', task.queued)
    BY <1>13 DEF KeyAdded
  <2>2. \A i \in Slot : ring'.arg[i] # None => keys[ring'.arg[i]] # 0
    BY <1>1, <1>7 DEF EntriesAreKeys
  <2>3. /\ task'.done = FALSE
        /\ task'.key = ring'.arg[task'.slot] /\ task'.ver = keys[task'.key]
        /\ task'.ver # 0
    BY <2>1, <2>2, <1>4, <1>5, <1>12, <1>13, FetchSends
  <2>4. TaskSends'
    BY <2>3, <1>1 DEF TaskSends
  <2> QED BY <1>7, <1>10, <1>11, <2>3, <2>4
<1>14. CASE ~(ring'.nkeys > 0 /\ ~shutdown)
  <2>1. task' = [TaskIdle EXCEPT !.queued = task.queued]
    BY <1>14 DEF KeyAdded
  <2>2. task'.pc = "idle" /\ task'.done = FALSE
    BY <2>1 DEF TaskIdle
  <2> QED BY <2>2, <1>7, <1>10, <1>11 DEF TaskSends
<1> QED BY <1>13, <1>14

LEMMA KeyKeyFails ==
  ASSUME IInv, StationInv, KeyInv, KeyFails
  PROVE  StationInv' /\ KeyInv'
<1>1. clean' = FALSE /\ UNCHANGED <<link, fw, sta_active, shutdown>>
  BY DEF KeyFails
<1>2. CASE UNCHANGED <<ns, nt>>
  BY <1>1, <1>2, StationFrame DEF KeyInv, Live
<1>3. CASE RequestState("SCAN")
  <2>1. StationInv'
    BY <1>1, <1>3, RequestStateMoves DEF IInv, LinkState
  <2> QED BY <1>1, <2>1 DEF KeyInv, Live
<1> QED BY <1>2, <1>3 DEF KeyFails

-----------------------------------------------------------------------------
(* The link task and iwx_stop.                                             *)

LEMMA KeyNewstateStart ==
  ASSUME IInv, StationInv, KeyInv, NewstateStart
  PROVE  StationInv' /\ KeyInv'
<1>1. UNCHANGED <<link, ns, supp, keys, ring, task, fw, sta_active, in_flags, port,
                  shutdown, clean>>
  BY DEF NewstateStart
<1>2. StationInv' /\ (~shutdown /\ Leaves(ns) => nt'.pc = "leave")
  BY StationNewstateStart DEF IInv
<1> SUFFICES ASSUME Live PROVE KeysKnown' /\ TaskSends' /\ EntriesAreKeys' /\ PortKeyed'
  BY <1>1, <1>2 DEF KeyInv, Live
<1>3. KeysKnown /\ TaskSends /\ EntriesAreKeys /\ PortKeyed
  BY DEF KeyInv
<1>4. PortKeyed'
  BY <1>1, <1>2, <1>3 DEF PortKeyed, Leaves, Live
<1>5. KeysKnown' /\ TaskSends' /\ EntriesAreKeys'
  BY <1>1, <1>3 DEF KeysKnown, Waiting, TaskSends, Another, EntriesAreKeys
<1> QED BY <1>4, <1>5

(* AUTH is entered clean with no key anywhere; the other states find what  *)
(* the association has.                                                    *)
LEMMA KeyEnterState ==
  ASSUME IInv, StationInv, KeyInv, EnterState
  PROVE  StationInv' /\ KeyInv'
<1>1. StationInv'
  BY StationEnterState DEF IInv
<1> SUFFICES ASSUME Live' PROVE KeysKnown' /\ TaskSends' /\ EntriesAreKeys' /\ PortKeyed'
  BY <1>1 DEF KeyInv
<1>2. /\ UNCHANGED <<ns, ring, task, fw, in_flags, port, shutdown>> /\ ~shutdown
      /\ nt.pc = "enter" /\ nt'.pc = "idle"
      /\ link' = nt.nstate
      /\ supp' = IF nt.nstate = "AUTH" THEN "INITIALIZE" ELSE supp
      /\ keys' = IF nt.nstate = "AUTH" THEN ZeroGroup ELSE keys
      /\ clean' = IF nt.nstate = "AUTH" THEN NothingLeft ELSE clean
      /\ sta_active' = (sta_active \/ nt.nstate = "AUTH")
  BY DEF EnterState, Live, NtIdle
<1>3. CASE nt.nstate = "AUTH"
  <2>1. NothingLeft
    BY <1>2, <1>3 DEF Live
  <2>2. /\ port => ns = "AUTH"
        /\ task.pc = "idle" /\ in_flags = {}
        /\ \A i \in Slot : ring.arg[i] = None
    BY <2>1 DEF NothingLeft, EmptyRing
  <2>3. fw = NoKeys
    BY <1>2, <1>3 DEF StationInv
  <2>4. \A k \in Key : k # "pair" => keys'[k] = 0 /\ fw'[k] = 0
    BY <1>2, <1>3, <2>3 DEF ZeroGroup, NoKeys
  <2>5. KeysKnown'
    BY <1>2, <1>3, <2>4 DEF KeysKnown
  <2>6. TaskSends' /\ EntriesAreKeys'
    BY <1>2, <2>2 DEF TaskSends, EntriesAreKeys
  <2>7. PortKeyed'
    BY <1>2, <1>3, <2>2 DEF PortKeyed
  <2> QED BY <2>5, <2>6, <2>7
<1>4. CASE nt.nstate # "AUTH"
  <2>1. Live /\ keys' = keys /\ supp' = supp
    BY <1>2, <1>4 DEF Live
  <2>2. KeysKnown /\ TaskSends /\ EntriesAreKeys /\ PortKeyed
    BY <2>1 DEF KeyInv
  <2>3. PortKeyed'
    BY <1>2, <2>2 DEF PortKeyed
  <2>4. KeysKnown' /\ TaskSends' /\ EntriesAreKeys'
    BY <1>2, <2>1, <2>2 DEF KeysKnown, Waiting, TaskSends, Another, EntriesAreKeys
  <2> QED BY <2>3, <2>4
<1> QED BY <1>3, <1>4

(* The rest ends the clean association or takes the station away.          *)
LEMMA KeyEnds ==
  ASSUME IInv, StationInv, KeyInv, NewstateFails \/ Deauth \/ StopBegin \/ StopEnd
  PROVE  StationInv' /\ KeyInv'
<1>1. CASE NewstateFails
  <2>1. StationInv'
    BY <1>1, StationNewstateFails DEF IInv
  <2> QED BY <1>1, <2>1 DEF NewstateFails, KeyInv, Live
<1>2. CASE Deauth
  BY <1>2, StationDeauth DEF IInv, KeyInv, Live
<1>3. CASE StopBegin \/ StopEnd
  <2>1. StationInv'
    BY <1>3, StationStop DEF IInv
  <2>2. ~Live'
    BY <1>3 DEF StopBegin, StopEnd, Live
  <2> QED BY <2>1, <2>2 DEF KeyInv
<1> QED BY <1>1, <1>2, <1>3

-----------------------------------------------------------------------------
(* The theorems about the keys.                                            *)

LEMMA KeyInvStep ==
  IInv /\ StationInv /\ KeyInv /\ AuthInv /\ [Next]_vars => StationInv' /\ KeyInv'
<1> SUFFICES ASSUME IInv, StationInv, KeyInv, AuthInv, [Next]_vars
             PROVE  StationInv' /\ KeyInv'
  OBVIOUS
<1>1. CASE Next
  BY <1>1, KeyMessage, KeyTaskStart, KeyFirmwareAnswers, KeyKeyAdded, KeyKeyFails,
     KeyTransition, KeyNewstateStart, KeyEnterState, KeyEnds DEF Next, Step
<1>2. CASE UNCHANGED vars
  <2>1. StationInv'
    BY <1>2, StationFrame DEF vars
  <2>2. KeyInv'
    BY <1>2 DEF vars, KeyInv, Live, KeysKnown, Waiting, TaskSends, Another,
                EntriesAreKeys, PortKeyed
  <2> QED BY <2>1, <2>2
<1> QED BY <1>1, <1>2

(* A settled association has its station in the firmware.                  *)
LEMMA KeyInvImplies == StationInv /\ KeyInv => KeysReachFirmware /\ PortMeansKeyed
<1> SUFFICES ASSUME StationInv, KeyInv, Settled
             PROVE  /\ \A k \in Key : fw[k] = keys[k] \/ Waiting(k)
                    /\ port => fw["pair"] # 0
  BY DEF KeysReachFirmware, PortMeansKeyed
<1>1. Live
  BY DEF Settled, StationInv, Live
<1>2. KeysKnown /\ PortKeyed
  BY <1>1 DEF KeyInv
<1> QED BY <1>2 DEF KeysKnown, PortKeyed, Settled

LEMMA KeyInvCorrect == Spec => [](StationInv /\ KeyInv /\ AuthInv)
<1>1. Init => StationInv /\ KeyInv /\ AuthInv
  BY StationInvInit, KeyInvInit DEF Init, AuthInv, Live
<1>2. IInv /\ (StationInv /\ KeyInv /\ AuthInv) /\ [Next]_vars
        => (StationInv /\ KeyInv /\ AuthInv)'
  BY KeyInvStep, AuthInvStep
<1> QED BY <1>1, <1>2, InvariantCorrect, PTL DEF Spec

(* In a clean association that is up, the key a handshake agreed on last is *)
(* the one the firmware uses, or it is still in the ring: a new content    *)
(* that comes while the task sleeps over the old one is not forgotten, for *)
(* any number of handshakes and any order of transitions.                  *)
THEOREM ReachCorrect == Spec => []KeysReachFirmware
BY KeyInvCorrect, KeyInvImplies, PTL

(* In such an association an open port means that the firmware encrypts.   *)
THEOREM PortCorrect == Spec => []PortMeansKeyed
BY KeyInvCorrect, KeyInvImplies, PTL
=============================================================================

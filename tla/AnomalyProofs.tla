--------------------------- MODULE AnomalyProofs ----------------------------
(***************************************************************************)
(* Theorems about the two parts an anomaly passes on its way from a batch  *)
(* to an operator: the detector's memory and the webhook's queue.          *)
(***************************************************************************)
EXTENDS Detector, Webhook, FunctionTheorems, FiniteSetTheorems, SequenceTheorems, TLAPS

----------------------------------------------------------------------------
(* The notifier *)

Tally == [sent : Nat, failed : Nat, dropped : Nat, suppressed : Nat]

WebhookTypes ==
    /\ queue \in Seq({Note, StopMark})
    /\ worker \in {"waiting", "posting", "returned", "ended"}
    /\ caller \in {"running", "putting", "joining", "through"}
    /\ tally \in Tally /\ handed \in Nat

\* The stop mark has been put and not yet been taken.
Marked == caller \in {"joining", "through"} /\ worker # "returned"

\* Notifications still in the queue: all of it, but for the mark at its end.
Waiting == IF Marked THEN Len(queue) - 1 ELSE Len(queue)

\* Nothing stands behind the stop mark, and nothing is left when it has been taken.
QueueShape ==
    /\ Marked => queue # <<>> /\ queue[Len(queue)] = StopMark
    /\ \A i \in 1..Waiting : queue[i] = Note
    /\ worker = "returned" => queue = <<>> /\ caller \in {"joining", "through"}

Outcomes == tally.sent + tally.failed + tally.dropped + tally.suppressed

OutcomesInv ==
    worker # "ended" => handed = Outcomes + Waiting + (IF worker = "posting" THEN 1 ELSE 0)

WebhookInv == WebhookTypes /\ QueueShape /\ OutcomesInv

LEMMA OneTo ==
    \A n \in Int : n >= 0 => Cardinality(1..n) = n
<1> TAKE n \in Int
<1>1. Cardinality(1..n) = IF 1 > n THEN 0 ELSE n - 1 + 1
  BY FS_Interval
<1> QED
  BY <1>1

\* As many notifications wait as the queue holds apart from the mark.
LEMMA NotesWaiting ==
    ASSUME WebhookTypes, QueueShape
    PROVE  Waiting \in Nat /\ Notes = Waiting
<1>1. Len(queue) \in Nat /\ DOMAIN queue = 1..Len(queue)
  BY DEF WebhookTypes
<1>2. CASE Marked
  <2>1. Len(queue) # 0 /\ queue[Len(queue)] = StopMark
    BY <1>1, <1>2 DEF QueueShape, WebhookTypes
  <2>2. Waiting = Len(queue) - 1 /\ Waiting \in Nat
    BY <1>1, <1>2, <2>1 DEF Waiting
  <2>3. { i \in DOMAIN queue : queue[i] = Note } = 1..(Len(queue) - 1)
    BY <1>1, <2>1, <2>2 DEF QueueShape, Note, StopMark
  <2>4. Cardinality(1..(Len(queue) - 1)) = Len(queue) - 1
    BY <1>1, <2>1, OneTo
  <2> QED
    BY <2>2, <2>3, <2>4 DEF Notes
<1>3. CASE ~Marked
  <2>1. Waiting = Len(queue)
    BY <1>3 DEF Waiting
  <2>2. { i \in DOMAIN queue : queue[i] = Note } = 1..Len(queue)
    BY <1>1, <2>1 DEF QueueShape
  <2>3. Cardinality(1..Len(queue)) = Len(queue)
    BY <1>1, OneTo
  <2> QED
    BY <1>1, <2>1, <2>2, <2>3 DEF Notes
<1> QED
  BY <1>2, <1>3

LEMMA WebhookInit == Init => WebhookInv
  BY DEF Init, WebhookInv, WebhookTypes, QueueShape, OutcomesInv, Outcomes, Waiting, Marked, Tally

LEMMA WebhookStep == WebhookInv /\ [Next]_vars => WebhookInv'
<1> SUFFICES ASSUME WebhookInv, [Next]_vars PROVE WebhookInv'
  OBVIOUS
<1>t. WebhookTypes /\ QueueShape /\ OutcomesInv
  BY DEF WebhookInv
<1>q. /\ queue \in Seq({Note, StopMark}) /\ Len(queue) \in Nat /\ handed \in Nat
      /\ tally \in Tally
  BY <1>t DEF WebhookTypes
<1>n. /\ tally.sent \in Nat /\ tally.failed \in Nat /\ tally.dropped \in Nat
      /\ tally.suppressed \in Nat
  BY <1>q DEF Tally
<1>1. ASSUME NEW s \in Severity, Notify(s) PROVE WebhookInv'
  <2>1. /\ caller = "running" /\ handed' = handed + 1
        /\ UNCHANGED <<worker, caller, surprises>>
        /\ ~Marked /\ ~Marked' /\ worker # "returned"
    BY <1>1, <1>t DEF Notify, Marked, QueueShape
  <2>2. CASE /\ queue' = queue
             /\ \/ tally' = [tally EXCEPT !.suppressed = @ + 1]
                \/ tally' = [tally EXCEPT !.dropped = @ + 1]
    <3>1. tally' \in Tally /\ Outcomes' = Outcomes + 1
      BY <1>q, <1>n, <2>2 DEF Tally, Outcomes
    <3>2. Waiting' = Waiting /\ Waiting = Len(queue)
      BY <2>1, <2>2 DEF Waiting
    <3>3. Outcomes \in Nat
      BY <1>n DEF Outcomes
    <3> QED
      BY <1>t, <1>q, <2>1, <2>2, <3>1, <3>2, <3>3
      DEF WebhookInv, WebhookTypes, QueueShape, OutcomesInv
  <2>3. CASE queue' = Append(queue, Note) /\ tally' = tally
    <3>1. Waiting = Len(queue) /\ Waiting' = Len(queue) + 1
      BY <1>q, <2>1, <2>3 DEF Waiting
    <3>2. queue' \in Seq({Note, StopMark}) /\ \A i \in 1..Len(queue) + 1 : queue'[i] = Note
      BY <1>t, <1>q, <2>3, <3>1 DEF QueueShape
    <3>3. Outcomes' = Outcomes /\ Outcomes \in Nat
      BY <1>n, <2>3 DEF Outcomes
    <3>4. OutcomesInv'
      BY <1>t, <1>q, <2>1, <3>1, <3>3 DEF OutcomesInv
    <3> QED
      BY <1>t, <2>1, <2>3, <3>1, <3>2, <3>4 DEF WebhookInv, WebhookTypes, QueueShape
  <2>4. \/ /\ queue' = queue
           /\ \/ tally' = [tally EXCEPT !.suppressed = @ + 1]
              \/ tally' = [tally EXCEPT !.dropped = @ + 1]
        \/ queue' = Append(queue, Note) /\ tally' = tally
    BY <1>1 DEF Notify
  <2> QED
    BY <2>2, <2>3, <2>4
<1>2. CASE Stop
  BY <1>2, <1>t DEF Stop, WebhookInv, WebhookTypes, QueueShape, OutcomesInv, Outcomes,
                    Waiting, Marked
<1>3. CASE PutStop
  <2>1. /\ caller = "putting" /\ caller' = "joining" /\ queue' = Append(queue, StopMark)
        /\ UNCHANGED <<worker, tally, handed>>
    BY <1>3 DEF PutStop
  <2>2. ~Marked /\ Marked' /\ worker # "returned"
    BY <1>t, <2>1 DEF Marked, QueueShape
  <2>3. /\ queue' \in Seq({Note, StopMark}) /\ queue' # <<>> /\ Len(queue') = Len(queue) + 1
        /\ queue'[Len(queue')] = StopMark /\ \A i \in 1..Len(queue) : queue'[i] = queue[i]
    BY <1>q, <2>1
  <2>4. Waiting = Len(queue) /\ Waiting' = Waiting
    BY <1>q, <2>2, <2>3 DEF Waiting
  <2>5. \A i \in 1..Waiting' : queue'[i] = Note
    BY <1>t, <2>3, <2>4 DEF QueueShape
  <2> QED
    BY <1>t, <2>1, <2>2, <2>3, <2>4, <2>5
    DEF WebhookInv, WebhookTypes, QueueShape, OutcomesInv, Outcomes
<1>4. CASE Joined
  BY <1>4, <1>t DEF Joined, WebhookInv, WebhookTypes, QueueShape, OutcomesInv, Outcomes,
                    Waiting, Marked
<1>5. CASE Get
  <2>1. /\ worker = "waiting" /\ queue # <<>> /\ queue' = Tail(queue)
        /\ worker' = IF Head(queue) = StopMark THEN "returned" ELSE "posting"
        /\ UNCHANGED <<caller, tally, handed>>
    BY <1>5 DEF Get
  <2>2. /\ queue' \in Seq({Note, StopMark}) /\ Len(queue) > 0 /\ Len(queue') = Len(queue) - 1
        /\ \A i \in 1..Len(queue') : queue'[i] = queue[i + 1] /\ i + 1 \in 1..Len(queue)
        /\ Head(queue) = queue[1]
    BY <1>q, <2>1
  <2>3. CASE queue[1] = StopMark
    <3>1. Marked /\ Len(queue) = 1
      <4>1. 1 \notin 1..Waiting
        BY <1>t, <2>3 DEF QueueShape, Note, StopMark
      <4> QED
        BY <1>q, <2>2, <4>1 DEF Waiting
    <3>2. worker' = "returned" /\ queue' = <<>> /\ ~Marked' /\ caller \in {"joining", "through"}
      BY <1>q, <2>1, <2>2, <2>3, <3>1 DEF Marked
    <3>3. Waiting = 0 /\ Waiting' = 0
      BY <3>1, <3>2 DEF Waiting
    <3> QED
      BY <1>t, <2>1, <2>2, <3>2, <3>3
      DEF WebhookInv, WebhookTypes, QueueShape, OutcomesInv, Outcomes
  <2>4. CASE queue[1] # StopMark
    <3>1. worker' = "posting" /\ (Marked' <=> Marked)
      BY <2>1, <2>2, <2>4 DEF Marked
    <3>2. Waiting' = Waiting - 1 /\ Waiting \in Nat /\ Waiting # 0
      <4>1. Marked => Len(queue) # 1
        BY <1>t, <2>4 DEF QueueShape
      <4> QED
        BY <1>q, <2>2, <3>1, <4>1 DEF Waiting
    <3>3. \A i \in 1..Waiting' : queue'[i] = Note
      <4>1. Waiting' <= Len(queue')
        BY <1>q, <2>2, <3>1 DEF Waiting
      <4>2. \A i \in 1..Waiting' : i \in 1..Len(queue') /\ i + 1 \in 1..Waiting
        BY <2>2, <3>2, <4>1, <1>q
      <4> QED
        BY <1>t, <2>2, <4>2 DEF QueueShape
    <3>4. Marked => queue' # <<>> /\ queue'[Len(queue')] = StopMark
      <4> SUFFICES ASSUME Marked PROVE queue' # <<>> /\ queue'[Len(queue')] = StopMark
        OBVIOUS
      <4>1. Len(queue) # 1 /\ queue[Len(queue)] = StopMark
        BY <1>t, <2>4 DEF QueueShape
      <4>2. Len(queue') \in 1..Len(queue') /\ Len(queue') + 1 = Len(queue)
        BY <1>q, <2>2, <4>1
      <4> QED
        BY <2>2, <4>1, <4>2
    <3>5. OutcomesInv'
      <4>1. Outcomes' = Outcomes /\ Outcomes \in Nat
        BY <1>n, <2>1 DEF Outcomes
      <4>2. handed = Outcomes + Waiting
        BY <1>t, <1>q, <2>1, <3>2, <4>1 DEF OutcomesInv
      <4> QED
        BY <2>1, <3>1, <3>2, <4>1, <4>2 DEF OutcomesInv
    <3> QED
      BY <1>t, <2>1, <2>2, <3>1, <3>3, <3>4, <3>5 DEF WebhookInv, WebhookTypes, QueueShape
  <2> QED
    BY <2>3, <2>4
<1>6. CASE PostSucceeds \/ PostFails
  <2>1. /\ worker = "posting" /\ worker' = "waiting" /\ UNCHANGED <<queue, caller, handed>>
        /\ \/ tally' = [tally EXCEPT !.sent = @ + 1]
           \/ tally' = [tally EXCEPT !.failed = @ + 1]
    BY <1>6 DEF PostSucceeds, PostFails
  <2>2. tally' \in Tally /\ Outcomes' = Outcomes + 1 /\ Outcomes \in Nat
    <3>1. CASE tally' = [tally EXCEPT !.sent = @ + 1]
      <4>1. /\ tally' \in Tally /\ tally'.sent = tally.sent + 1 /\ tally'.failed = tally.failed
            /\ tally'.dropped = tally.dropped /\ tally'.suppressed = tally.suppressed
        BY <1>q, <1>n, <3>1 DEF Tally
      <4> QED
        BY <1>n, <4>1 DEF Outcomes
    <3>2. CASE tally' = [tally EXCEPT !.failed = @ + 1]
      <4>1. /\ tally' \in Tally /\ tally'.failed = tally.failed + 1 /\ tally'.sent = tally.sent
            /\ tally'.dropped = tally.dropped /\ tally'.suppressed = tally.suppressed
        BY <1>q, <1>n, <3>2 DEF Tally
      <4> QED
        BY <1>n, <4>1 DEF Outcomes
    <3> QED
      BY <2>1, <3>1, <3>2
  <2>3. (Marked' <=> Marked) /\ Waiting' = Waiting
    BY <2>1 DEF Marked, Waiting
  <2>4. Waiting \in Nat
    BY <1>t, NotesWaiting
  <2>5. OutcomesInv'
    BY <1>t, <2>1, <2>2, <2>3, <2>4 DEF OutcomesInv
  <2> QED
    BY <1>t, <2>1, <2>2, <2>3, <2>5 DEF WebhookInv, WebhookTypes, QueueShape
<1>7. CASE PostRaises
  BY <1>7, <1>t DEF PostRaises, WebhookInv, WebhookTypes, QueueShape, OutcomesInv, Waiting, Marked
<1>8. CASE UNCHANGED vars
  BY <1>8, <1>t DEF vars, WebhookInv, WebhookTypes, QueueShape, OutcomesInv, Outcomes,
                    Waiting, Marked
<1> QED
  BY <1>1, <1>2, <1>3, <1>4, <1>5, <1>6, <1>7, <1>8 DEF Next, CallerStep, WorkerStep

LEMMA WebhookInvariant == Spec => []WebhookInv
  BY WebhookInit, WebhookStep, PTL DEF Spec

\* notify and the worker lose count of no notification while the worker is alive, at
\* whatever depth of the queue, severities and answers.
THEOREM NotificationsStayCounted == Spec => []CountedWhileAlive
<1>1. WebhookInv => CountedWhileAlive
  <2> SUFFICES ASSUME WebhookInv, worker # "ended" PROVE EveryOutcomeCounted
    BY DEF CountedWhileAlive
  <2>1. Waiting \in Nat /\ Notes = Waiting
    BY NotesWaiting DEF WebhookInv
  <2> QED
    BY <2>1 DEF WebhookInv, OutcomesInv, Outcomes, EveryOutcomeCounted
<1> QED
  BY <1>1, WebhookInvariant, PTL

\* _run returns from the stop mark of stop() with nothing left in the queue.
THEOREM WorkerDrainsTheQueue == Spec => []DrainedOnReturn
<1>1. WebhookInv => DrainedOnReturn
  BY DEF WebhookInv, QueueShape, DrainedOnReturn
<1> QED
  BY <1>1, WebhookInvariant, PTL

----------------------------------------------------------------------------
(* The detector's memory *)

Entry == [id : Building, window : Seq(Nat)]
Snapshot == [id : Building, was : SUBSET Seq(Nat)]

\* One entry per building.
Keyed(s) == \A i, j \in DOMAIN s : s[i].id = s[j].id => i = j

DetectorTypes ==
    /\ state \in Seq(Entry) /\ Keyed(state)
    /\ saved \in Seq(Snapshot)
    /\ pc \in {"warm", "idle", "batch", "undoing", "undone"}
    /\ clock \in Nat
    /\ before.state \in Seq(Entry) /\ Keyed(before.state)
    /\ before = [state |-> before.state, evicted |-> before.evicted, lost |-> before.lost]

\* What is saved of a building is the window the batch found, unless the building had
\* been pushed out before the batch came to it.
SavedTruly ==
    \A i \in DOMAIN saved :
        \/ saved[i].was = WindowOf(before.state, saved[i].id)
        \/ saved[i].was = {} /\ saved[i].id \in before.lost

\* Whatever is not (or no longer) waiting to be put back is as the batch found it.
RestUntouched ==
    /\ \A i \in DOMAIN state : state[i].id \notin Ids(saved) => state[i] \in Range(before.state)
    /\ Ids(before.state) \ Ids(state) \subseteq before.lost
    /\ Len(before.state) <= MaxTracked

BatchOrder ==
    \A i, j \in DOMAIN state :
        i < j /\ state[i].id \in Ids(saved) => state[j].id \in Ids(saved)

DetectorInv ==
    /\ DetectorTypes
    /\ pc \in {"batch", "undoing"} => SavedTruly /\ RestUntouched
    /\ pc = "batch" => BatchOrder
    /\ pc # "undoing" => Len(state) <= MaxTracked
    /\ pc = "undone" => /\ Range(state) \subseteq Range(before.state)
                        /\ Ids(before.state) \ Ids(state) \subseteq before.lost
                        /\ evicted = before.evicted

\* r is s with some entries taken out: f says where each of r's entries stood.
Thinned(r, s) ==
    \E f \in [DOMAIN r -> DOMAIN s] :
        /\ \A i \in DOMAIN r : r[i] = s[f[i]]
        /\ \A i, j \in DOMAIN r : i < j => f[i] < f[j]

LEMMA ThinnedKeeps ==
    ASSUME NEW s \in Seq(Entry), NEW r \in Seq(Entry), Keyed(s), Thinned(r, s)
    PROVE  Keyed(r) /\ Ids(r) \subseteq Ids(s) /\ Range(r) \subseteq Range(s)
<1> PICK f \in [DOMAIN r -> DOMAIN s] :
       /\ \A i \in DOMAIN r : r[i] = s[f[i]]
       /\ \A i, j \in DOMAIN r : i < j => f[i] < f[j]
  BY DEF Thinned
<1>1. \A i \in DOMAIN r : f[i] \in DOMAIN s
  OBVIOUS
<1>2. Keyed(r)
  <2> SUFFICES ASSUME NEW i \in DOMAIN r, NEW j \in DOMAIN r, r[i].id = r[j].id
               PROVE  i = j
    BY DEF Keyed
  <2>1. f[i] = f[j]
    BY <1>1 DEF Keyed
  <2>2. i \in Int /\ j \in Int /\ f[i] \in Int
    BY <1>1
  <2> QED
    BY <2>1, <2>2
<1> QED
  BY <1>1, <1>2 DEF Ids, Range

\* pop(b, None): what is left stands in the order it stood in, and only b is gone.
LEMMA WithoutIs ==
    ASSUME NEW s \in Seq(Entry), Keyed(s), NEW b \in Building
    PROVE  /\ Without(s, b) \in Seq(Entry)
           /\ Thinned(Without(s, b), s)
           /\ Ids(Without(s, b)) = Ids(s) \ {b}
           /\ b \in Ids(s) => Len(Without(s, b)) = Len(s) - 1
<1>0. Len(s) \in Nat /\ DOMAIN s = 1..Len(s)
  OBVIOUS
<1>1. CASE b \notin Ids(s)
  <2>1. Without(s, b) = s
    BY <1>1 DEF Without
  <2>2. Thinned(s, s)
    <3>1. [i \in DOMAIN s |-> i] \in [DOMAIN s -> DOMAIN s]
      OBVIOUS
    <3> QED
      BY <3>1 DEF Thinned
  <2> QED
    BY <1>1, <2>1, <2>2
<1>2. CASE b \in Ids(s)
  <2> DEFINE k == Place(s, b)
             t == Without(s, b)
             f == [i \in 1..(Len(s) - 1) |-> IF i < k THEN i ELSE i + 1]
  <2>1. k \in DOMAIN s /\ s[k].id = b
    BY <1>2 DEF Ids, Place
  <2>2. t = SubSeq(s, 1, k - 1) \o SubSeq(s, k + 1, Len(s))
    BY <1>2 DEF Without, RemoveAt
  <2> HIDE DEF k, t
  <2>3. SubSeq(s, 1, k - 1) \in Seq(Entry) /\ Len(SubSeq(s, 1, k - 1)) = k - 1
    BY <1>0, <2>1
  <2>4. /\ SubSeq(s, k + 1, Len(s)) \in Seq(Entry)
        /\ Len(SubSeq(s, k + 1, Len(s))) = Len(s) - k
    BY <1>0, <2>1
  <2>5. t \in Seq(Entry) /\ Len(t) = Len(s) - 1 /\ DOMAIN t = 1..(Len(s) - 1)
    <3> DEFINE u == SubSeq(s, 1, k - 1)
               v == SubSeq(s, k + 1, Len(s))
    <3>1. /\ u \in Seq(Entry) /\ v \in Seq(Entry) /\ Len(u) = k - 1 /\ Len(v) = Len(s) - k
          /\ t = u \o v /\ k \in Int
      BY <1>0, <2>1, <2>2, <2>3, <2>4
    <3> HIDE DEF u, v
    <3>2. u \o v \in Seq(Entry) /\ Len(u \o v) = Len(u) + Len(v)
      BY <3>1, ConcatProperties
    <3>3. Len(u \o v) = Len(s) - 1
      BY <1>0, <3>1, <3>2
    <3>4. t \in Seq(Entry) /\ Len(t) = Len(s) - 1
      BY <3>1, <3>2, <3>3
    <3> QED
      BY <3>4
  <2>6. \A i \in DOMAIN t : t[i] = s[f[i]] /\ f[i] \in DOMAIN s
    <3> SUFFICES ASSUME NEW i \in 1..(Len(s) - 1) PROVE t[i] = s[f[i]] /\ f[i] \in DOMAIN s
      BY <2>5
    <3>1. CASE i < k
      <4>1. t[i] = SubSeq(s, 1, k - 1)[i]
        BY <1>0, <2>1, <2>2, <2>3, <2>4, <3>1
      <4>2. SubSeq(s, 1, k - 1)[i] = s[i]
        BY <1>0, <2>1, <3>1
      <4>3. f[i] = i /\ i \in DOMAIN s
        BY <1>0, <3>1
      <4> QED
        BY <4>1, <4>2, <4>3
    <3>2. CASE ~(i < k)
      <4>1. t[i] = SubSeq(s, k + 1, Len(s))[i - (k - 1)]
        <5> DEFINE u == SubSeq(s, 1, k - 1)
                   v == SubSeq(s, k + 1, Len(s))
        <5>1. /\ u \in Seq(Entry) /\ v \in Seq(Entry) /\ Len(u) = k - 1 /\ Len(v) = Len(s) - k
              /\ t = u \o v /\ k \in Int /\ i \in Int
          BY <1>0, <2>1, <2>2, <2>3, <2>4
        <5> HIDE DEF u, v
        <5>2. i > Len(u) /\ i \in 1..(Len(u) + Len(v))
          BY <1>0, <3>2, <5>1
        <5>3. (u \o v)[i] = v[i - Len(u)]
          BY <5>1, <5>2
        <5> QED
          BY <5>1, <5>3 DEF v
      <4>2. SubSeq(s, k + 1, Len(s))[i - (k - 1)] = s[i + 1]
        <5>1. i - (k - 1) \in 1..(Len(s) - k) /\ (k + 1) + (i - (k - 1)) - 1 = i + 1
          BY <1>0, <2>1, <3>2
        <5> QED
          BY <1>0, <2>1, <5>1
      <4> QED
        BY <1>0, <2>1, <3>2, <4>1, <4>2
    <3> QED
      BY <3>1, <3>2
  <2>7. Thinned(t, s)
    <3>1. f \in [DOMAIN t -> DOMAIN s]
      BY <1>0, <2>5, <2>6
    <3>2. \A i, j \in DOMAIN t : i < j => f[i] < f[j]
      BY <1>0, <2>1, <2>5
    <3> HIDE DEF f, t
    <3> QED
      BY <2>6, <3>1, <3>2 DEF Thinned
  <2>8. Ids(t) = Ids(s) \ {b}
    <3>1. \A i \in DOMAIN t : f[i] # k
      BY <1>0, <2>1, <2>5
    <3>2. \A i \in DOMAIN s : i # k => \E j \in DOMAIN t : f[j] = i
      <4> SUFFICES ASSUME NEW i \in DOMAIN s, i # k PROVE \E j \in DOMAIN t : f[j] = i
        OBVIOUS
      <4>1. CASE i < k
        <5>1. i \in DOMAIN t /\ f[i] = i
          BY <1>0, <2>1, <2>5, <4>1
        <5> QED
          BY <5>1
      <4>2. CASE i > k
        <5>1. i - 1 \in DOMAIN t /\ f[i - 1] = i
          BY <1>0, <2>1, <2>5, <4>2
        <5> QED
          BY <5>1
      <4> QED
        BY <1>0, <2>1, <4>1, <4>2
    <3> HIDE DEF f, t
    <3>3. \A i \in DOMAIN t : t[i].id \in Ids(s) \ {b}
      BY <2>1, <2>6, <3>1 DEF Ids, Keyed
    <3>4. \A x \in Ids(s) \ {b} : x \in Ids(t)
      <4> SUFFICES ASSUME NEW i \in DOMAIN s, s[i].id # b PROVE s[i].id \in Ids(t)
        BY DEF Ids
      <4>1. PICK j \in DOMAIN t : f[j] = i
        BY <2>1, <3>2
      <4>2. t[j] = s[i]
        BY <2>6, <4>1
      <4> QED
        BY <4>2 DEF Ids
    <3> QED
      BY <3>3, <3>4 DEF Ids
  <2> QED
    BY <2>5, <2>7, <2>8 DEF t
<1> QED
  BY <1>1, <1>2

\* popitem(last=False): the rest stands in the order it stood in.
LEMMA TailThins ==
    ASSUME NEW s \in Seq(Entry), s # <<>>
    PROVE  Tail(s) \in Seq(Entry) /\ Len(Tail(s)) = Len(s) - 1 /\ Thinned(Tail(s), s)
<1> DEFINE f == [i \in DOMAIN Tail(s) |-> i + 1]
<1>1. /\ Tail(s) \in Seq(Entry) /\ Len(s) \in Nat /\ Len(Tail(s)) = Len(s) - 1
      /\ DOMAIN s = 1..Len(s) /\ DOMAIN Tail(s) = 1..(Len(s) - 1)
  OBVIOUS
<1>2. \A i \in DOMAIN Tail(s) : Tail(s)[i] = s[i + 1]
  OBVIOUS
<1>3. f \in [DOMAIN Tail(s) -> DOMAIN s]
  BY <1>1
<1>4. \A i, j \in DOMAIN Tail(s) : i < j => f[i] < f[j]
  BY <1>1
<1>5. \A i \in DOMAIN Tail(s) : Tail(s)[i] = s[f[i]]
  BY <1>2
<1> QED
  BY <1>1, <1>3, <1>4, <1>5 DEF Thinned

\* Whichever way _state_for and remember go, the building scored ends up last, behind
\* entries that stood there before in the same order, and there is room for it.
LEMMA ScoredIs ==
    ASSUME state \in Seq(Entry), Keyed(state), clock \in Nat, NEW b \in Building
    PROVE  \E r \in Seq(Entry), y \in Entry :
              /\ Scored(b) = Append(r, y) /\ y.id = b
              /\ b \notin Ids(r) /\ Thinned(r, state)
              /\ Len(state) <= MaxTracked => Len(r) < MaxTracked
<1>0. Len(state) \in Nat /\ DOMAIN state = 1..Len(state) /\ MaxTracked \in Nat /\ MaxTracked # 0
  BY DetectorAssumption
<1>1. \E r \in Seq(Entry), y \in Entry :
         /\ state_for(state, b) = Append(r, y) /\ y.id = b
         /\ b \notin Ids(r) /\ Thinned(r, state)
         /\ Len(state) <= MaxTracked => Len(r) < MaxTracked
  <2>1. CASE b \in Ids(state)
    <3> DEFINE r == Without(state, b)
               y == state[Place(state, b)]
    <3>1. y \in Entry /\ y.id = b
      BY <2>1 DEF Ids, Place
    <3>2. r \in Seq(Entry) /\ Thinned(r, state) /\ b \notin Ids(r) /\ Len(r) = Len(state) - 1
      BY <2>1, WithoutIs
    <3>3. state_for(state, b) = Append(r, y)
      BY <2>1 DEF state_for
    <3> HIDE DEF r, y
    <3>4. Len(state) <= MaxTracked => Len(r) < MaxTracked
      BY <1>0, <3>2
    <3> QED
      BY <3>1, <3>2, <3>3, <3>4
  <2>2. CASE b \notin Ids(state)
    <3> DEFINE r == IF Len(state) >= MaxTracked THEN Tail(state) ELSE state
               y == [id |-> b, window |-> <<>>]
    <3>1. y \in Entry /\ y.id = b
      BY DEF Entry
    <3>2. r \in Seq(Entry) /\ Thinned(r, state) /\ (Len(state) <= MaxTracked => Len(r) < MaxTracked)
      <4>1. CASE Len(state) >= MaxTracked
        <5>1. state # <<>>
          BY <1>0, <4>1
        <5>2. /\ Tail(state) \in Seq(Entry) /\ Len(Tail(state)) = Len(state) - 1
              /\ Thinned(Tail(state), state)
          BY <5>1, TailThins
        <5>3. r = Tail(state)
          BY <4>1
        <5> HIDE DEF r
        <5> QED
          BY <1>0, <5>2, <5>3
      <4>2. CASE ~(Len(state) >= MaxTracked)
        <5>1. r = state
          BY <4>2
        <5>2. Thinned(state, state)
          <6>1. [i \in DOMAIN state |-> i] \in [DOMAIN state -> DOMAIN state]
            OBVIOUS
          <6> QED
            BY <6>1 DEF Thinned
        <5> HIDE DEF r
        <5> QED
          BY <1>0, <4>2, <5>1, <5>2
      <4> QED
        BY <4>1, <4>2
    <3>3. state_for(state, b) = Append(r, y)
      BY <2>2 DEF state_for
    <3> HIDE DEF r, y
    <3>4. b \notin Ids(r)
      BY <2>2, <3>2, ThinnedKeeps
    <3> QED
      BY <3>1, <3>2, <3>3, <3>4
  <2> QED
    BY <2>1, <2>2
<1>2. PICK r \in Seq(Entry), y \in Entry :
         /\ state_for(state, b) = Append(r, y) /\ y.id = b
         /\ b \notin Ids(r) /\ Thinned(r, state)
         /\ Len(state) <= MaxTracked => Len(r) < MaxTracked
  BY <1>1
<1> DEFINE z == [y EXCEPT !.window = remember(@, clock)]
<1>3. z \in Entry /\ z.id = b
  <2>1. y.window \in Seq(Nat) /\ y.id \in Building
    BY DEF Entry
  <2>2. remember(y.window, clock) \in Seq(Nat)
    <3>1. Append(y.window, clock) \in Seq(Nat) /\ Append(y.window, clock) # <<>>
      BY <2>1
    <3>2. Tail(Append(y.window, clock)) \in Seq(Nat)
      BY <3>1
    <3> QED
      BY <3>1, <3>2 DEF remember
  <2>3. z = [id |-> y.id, window |-> remember(y.window, clock)]
    BY DEF Entry
  <2> HIDE DEF z
  <2> QED
    BY <1>2, <2>1, <2>2, <2>3 DEF Entry
<1> DEFINE s == Append(r, y)
<1>4. Scored(b) = [i \in DOMAIN s |-> IF s[i].id = b
                       THEN [s[i] EXCEPT !.window = remember(@, clock)] ELSE s[i]]
  BY <1>2 DEF Scored
<1>5. Scored(b) = Append(r, z)
  <2>1. DOMAIN s = 1..(Len(r) + 1) /\ Len(r) \in Nat /\ s[Len(r) + 1] = y
    OBVIOUS
  <2>2. \A i \in 1..Len(r) : s[i] = r[i] /\ r[i].id # b
    BY <1>2 DEF Ids
  <2>3. /\ Append(r, z) = [i \in 1..(Len(r) + 1) |-> IF i = Len(r) + 1 THEN z ELSE r[i]]
    OBVIOUS
  <2>4. \A i \in DOMAIN s : Scored(b)[i] = Append(r, z)[i]
    <3> TAKE i \in DOMAIN s
    <3>1. CASE i = Len(r) + 1
      BY <1>2, <1>4, <2>1, <2>3, <3>1
    <3>2. CASE i \in 1..Len(r)
      BY <1>4, <2>1, <2>2, <2>3, <3>2
    <3> QED
      BY <2>1, <3>1, <3>2
  <2> HIDE DEF s, z
  <2> QED
    BY <1>4, <2>1, <2>3, <2>4
<1> HIDE DEF z
<1> QED
  BY <1>2, <1>3, <1>5

LEMMA WindowOfIs ==
    ASSUME NEW s \in Seq(Entry), Keyed(s), NEW b
    PROVE  /\ b \notin Ids(s) => WindowOf(s, b) = {}
           /\ \A i \in DOMAIN s : s[i].id = b => WindowOf(s, b) = {s[i].window}
           /\ b \in Ids(s) => \E e \in Range(s) : e.id = b /\ WindowOf(s, b) = {e.window}
           /\ WindowOf(s, b) \subseteq Seq(Nat)
<1>1. ASSUME NEW i \in DOMAIN s, s[i].id = b
      PROVE  WindowOf(s, b) = {s[i].window} /\ s[i] \in Range(s) /\ s[i].window \in Seq(Nat)
  <2>1. { x \in Range(s) : x.id = b } = {s[i]}
    BY <1>1 DEF Range, Keyed
  <2>2. s[i] \in Entry
    OBVIOUS
  <2> QED
    BY <2>1, <2>2 DEF WindowOf, Range, Entry
<1>2. b \notin Ids(s) => WindowOf(s, b) = {}
  BY DEF WindowOf, Ids, Range
<1> QED
  BY <1>1, <1>2 DEF Ids

\* One step of the undoing changes the entry of one building and of no other.
LEMMA PutBackIs ==
    ASSUME NEW s \in Seq(Entry), Keyed(s), NEW e \in Snapshot,
           e.was = {} \/ \E w : e.was = {w}
    PROVE  /\ PutBack(s, e) \in Seq(Entry) /\ Keyed(PutBack(s, e))
           /\ e.was = {} => Ids(PutBack(s, e)) = Ids(s) \ {e.id}
           /\ e.was # {} => Ids(PutBack(s, e)) = Ids(s) \cup {e.id}
           /\ \A x \in Range(PutBack(s, e)) :
                 \/ x \in Range(s) /\ x.id # e.id
                 \/ x.id = e.id /\ e.was = {x.window}
<1> DEFINE p == PutBack(s, e)
<1>0. /\ Len(s) \in Nat /\ DOMAIN s = 1..Len(s) /\ e.id \in Building
      /\ \A i \in DOMAIN s : s[i] \in Entry
  BY DEF Snapshot
<1>1. CASE e.was = {}
  <2>1. p = Without(s, e.id)
    BY <1>1 DEF PutBack
  <2>2. p \in Seq(Entry) /\ Thinned(p, s) /\ Ids(p) = Ids(s) \ {e.id}
    BY <1>0, <2>1, WithoutIs
  <2>3. Keyed(p) /\ Range(p) \subseteq Range(s)
    BY <2>2, ThinnedKeeps
  <2> HIDE DEF p
  <2>4. \A x \in Range(p) : x.id # e.id
    BY <2>2 DEF Ids, Range
  <2> QED
    BY <1>1, <2>2, <2>3, <2>4 DEF p
<1>2. CASE e.was # {}
  <2>1. PICK w : e.was = {w}
    BY <1>2
  <2> DEFINE y == [id |-> e.id, window |-> w]
  <2>2. y \in Entry /\ y.id = e.id /\ y.window = w
    BY <1>0, <2>1 DEF Entry, Snapshot
  <2>3. (CHOOSE v \in e.was : TRUE) = w
    BY <2>1
  <2> HIDE DEF y
  <2>4. CASE e.id \in Ids(s)
    <3>1. p = [i \in DOMAIN s |-> IF s[i].id = e.id THEN y ELSE s[i]]
      BY <1>2, <2>3, <2>4 DEF PutBack, y
    <3> HIDE DEF p
    <3>2. /\ p \in [DOMAIN s -> Entry]
          /\ \A i \in DOMAIN s : p[i] = IF s[i].id = e.id THEN y ELSE s[i]
      BY <1>0, <2>2, <3>1
    <3>3. p \in Seq(Entry) /\ DOMAIN p = DOMAIN s
      BY <1>0, <3>2
    <3>4. \A i \in DOMAIN s : p[i].id = s[i].id
      BY <2>2, <3>2
    <3>5. Keyed(p)
      BY <3>3, <3>4 DEF Keyed
    <3>6. Ids(p) = Ids(s) /\ e.id \in Ids(s)
      BY <2>4, <3>3, <3>4 DEF Ids
    <3>7. \A x \in Range(p) : \/ x \in Range(s) /\ x.id # e.id
                              \/ x.id = e.id /\ e.was = {x.window}
      BY <2>1, <2>2, <3>2, <3>3 DEF Range
    <3> QED
      BY <1>2, <3>3, <3>5, <3>6, <3>7 DEF p
  <2>5. CASE e.id \notin Ids(s)
    <3>1. p = Append(s, y)
      BY <1>2, <2>3, <2>5 DEF PutBack, y
    <3> HIDE DEF p
    <3>2. /\ p \in Seq(Entry) /\ DOMAIN p = 1..(Len(s) + 1) /\ p[Len(s) + 1] = y
          /\ \A i \in DOMAIN s : p[i] = s[i] /\ s[i].id # e.id
      BY <1>0, <2>2, <2>5, <3>1 DEF Ids
    <3>3. \A i \in DOMAIN p : i = Len(s) + 1 \/ i \in DOMAIN s
      BY <1>0, <3>2
    <3>4. Keyed(p)
      <4> SUFFICES ASSUME NEW i \in DOMAIN p, NEW j \in DOMAIN p, p[i].id = p[j].id
                   PROVE  i = j
        BY DEF Keyed
      <4> QED
        BY <2>2, <3>2, <3>3 DEF Keyed
    <3>5. DOMAIN s \subseteq DOMAIN p /\ Len(s) + 1 \in DOMAIN p
      BY <1>0, <3>2
    <3>6. Ids(p) = Ids(s) \cup {e.id}
      BY <2>2, <3>2, <3>3, <3>5 DEF Ids
    <3>7. \A x \in Range(p) : \/ x \in Range(s) /\ x.id # e.id
                              \/ x.id = e.id /\ e.was = {x.window}
      BY <2>1, <2>2, <3>2, <3>3 DEF Range
    <3> QED
      BY <1>2, <3>2, <3>4, <3>6, <3>7 DEF p
  <2> QED
    BY <2>4, <2>5
<1> QED
  BY <1>1, <1>2

\* One entry per building: as many buildings as entries.
LEMMA KeyedCounts ==
    ASSUME NEW s \in Seq(Entry), Keyed(s)
    PROVE  IsFiniteSet(Ids(s)) /\ Cardinality(Ids(s)) = Len(s)
<1> DEFINE f == [i \in 1..Len(s) |-> s[i].id]
<1>1. Len(s) \in Nat /\ DOMAIN s = 1..Len(s)
  OBVIOUS
<1>2. f \in Bijection(1..Len(s), Ids(s))
  <2>1. f \in [1..Len(s) -> Ids(s)]
    BY <1>1 DEF Ids
  <2>2. \A i, j \in 1..Len(s) : f[i] = f[j] => i = j
    BY <1>1 DEF Keyed
  <2>3. \A x \in Ids(s) : \E i \in 1..Len(s) : f[i] = x
    BY <1>1 DEF Ids
  <2> HIDE DEF f
  <2> QED
    BY <2>1, <2>2, <2>3, Fun_IsBij
<1>3. ExistsBijection(1..Len(s), Ids(s))
  BY <1>2 DEF ExistsBijection
<1>4. IsFiniteSet(1..Len(s)) /\ Cardinality(1..Len(s)) = Len(s)
  BY <1>1, FS_Interval, OneTo
<1> QED
  BY <1>3, <1>4, FS_Bijection

\* A memory whose buildings are among those of another is no longer than that.
LEMMA FewerBuildings ==
    ASSUME NEW s \in Seq(Entry), Keyed(s), NEW t \in Seq(Entry), Keyed(t),
           Ids(s) \subseteq Ids(t)
    PROVE  Len(s) <= Len(t)
  BY KeyedCounts, FS_Subset

LEMMA DetectorStarts == DetectorInit => DetectorInv
<1> SUFFICES ASSUME DetectorInit PROVE DetectorInv
  OBVIOUS
<1>1. /\ state = <<>> /\ saved = <<>> /\ pc = "warm" /\ clock = 0
      /\ before = [state |-> <<>>, evicted |-> 0, lost |-> {}]
  BY DEF DetectorInit
<1>2. <<>> \in Seq(Entry) /\ <<>> \in Seq(Snapshot) /\ Keyed(<<>>) /\ Len(<<>>) = 0
  BY DEF Keyed
<1>3. DetectorTypes
  BY <1>1, <1>2 DEF DetectorTypes
<1> QED
  BY <1>1, <1>2, <1>3, DetectorAssumption DEF DetectorInv

\* What a touch of b leaves in `state`.
Touched(b) ==
    \E r \in Seq(Entry), y \in Entry :
        /\ state' = Append(r, y) /\ y.id = b
        /\ b \notin Ids(r) /\ Thinned(r, state)
        /\ Len(state) <= MaxTracked => Len(r) < MaxTracked

LEMMA AppendedIs ==
    ASSUME NEW r \in Seq(Entry), NEW y \in Entry, Keyed(r), y.id \notin Ids(r)
    PROVE  /\ Append(r, y) \in Seq(Entry) /\ Keyed(Append(r, y))
           /\ Ids(Append(r, y)) = Ids(r) \cup {y.id}
           /\ Len(Append(r, y)) = Len(r) + 1
           /\ DOMAIN Append(r, y) = 1..(Len(r) + 1)
           /\ Append(r, y)[Len(r) + 1] = y
           /\ \A i \in 1..Len(r) : Append(r, y)[i] = r[i]
<1> DEFINE p == Append(r, y)
<1>1. /\ p \in Seq(Entry) /\ Len(r) \in Nat /\ DOMAIN r = 1..Len(r)
      /\ DOMAIN p = 1..(Len(r) + 1) /\ Len(p) = Len(r) + 1 /\ p[Len(r) + 1] = y
      /\ \A i \in 1..Len(r) : p[i] = r[i]
  OBVIOUS
<1> HIDE DEF p
<1>2. \A i \in DOMAIN p : i = Len(r) + 1 \/ i \in DOMAIN r
  BY <1>1
<1>3. \A i \in DOMAIN r : r[i].id # y.id
  BY DEF Ids
<1>4. Keyed(p)
  <2> SUFFICES ASSUME NEW i \in DOMAIN p, NEW j \in DOMAIN p, p[i].id = p[j].id
               PROVE  i = j
    BY DEF Keyed
  <2> QED
    BY <1>1, <1>2, <1>3 DEF Keyed
<1>5. DOMAIN r \subseteq DOMAIN p /\ Len(r) + 1 \in DOMAIN p
  BY <1>1
<1>6. Ids(p) = Ids(r) \cup {y.id}
  BY <1>1, <1>2, <1>5 DEF Ids
<1> QED
  BY <1>1, <1>4, <1>6 DEF p

LEMMA TouchedTypes ==
    ASSUME DetectorTypes, NEW b \in Building, Touch(b)
    PROVE  /\ Touched(b) /\ clock' \in Nat
           /\ state' \in Seq(Entry) /\ Keyed(state)'
           /\ b \in Ids(state)'
           /\ Len(state) <= MaxTracked => Len(state') <= MaxTracked
<1>0. state \in Seq(Entry) /\ Keyed(state) /\ clock \in Nat
  BY DEF DetectorTypes
<1>1. Touched(b) /\ clock' \in Nat
  <2>1. state' = Scored(b) /\ clock' = clock + 1
    BY DEF Touch
  <2>2. \E r \in Seq(Entry), y \in Entry :
            /\ Scored(b) = Append(r, y) /\ y.id = b
            /\ b \notin Ids(r) /\ Thinned(r, state)
            /\ Len(state) <= MaxTracked => Len(r) < MaxTracked
    BY <1>0, ScoredIs
  <2> QED
    BY <1>0, <2>1, <2>2 DEF Touched
<1>2. PICK r \in Seq(Entry), y \in Entry :
        /\ state' = Append(r, y) /\ y.id = b
        /\ b \notin Ids(r) /\ Thinned(r, state)
        /\ Len(state) <= MaxTracked => Len(r) < MaxTracked
  BY <1>1 DEF Touched
<1>3. Keyed(r)
  BY <1>2, ThinnedKeeps DEF DetectorTypes
<1> DEFINE p == Append(r, y)
<1>4. p \in Seq(Entry) /\ Keyed(p) /\ Ids(p) = Ids(r) \cup {b} /\ Len(p) = Len(r) + 1
  BY <1>2, <1>3, AppendedIs
<1>5. state' = p
  BY <1>2
<1> HIDE DEF p
<1>6. Keyed(state)' /\ Ids(state)' = Ids(p)
  BY <1>4, <1>5 DEF Keyed, Ids
<1>7. Len(r) \in Nat /\ MaxTracked \in Nat
  BY DetectorAssumption
<1>8. Len(state) <= MaxTracked => Len(p) <= MaxTracked
  BY <1>2, <1>4, <1>7
<1> QED
  BY <1>1, <1>4, <1>5, <1>6, <1>8

\* _remember_for_rollback adds b, once.
LEMMA RememberedIs ==
    ASSUME saved \in Seq(Snapshot), state \in Seq(Entry), Keyed(state), NEW b \in Building
    PROVE  /\ remember_for_rollback(b) \in Seq(Snapshot)
           /\ Ids(remember_for_rollback(b)) = Ids(saved) \cup {b}
           /\ \A x \in Range(remember_for_rollback(b)) :
                 \/ x \in Range(saved)
                 \/ b \notin Ids(saved) /\ x.id = b /\ x.was = WindowOf(state, b)
<1>1. CASE b \in Ids(saved)
  BY <1>1 DEF remember_for_rollback
<1>2. CASE b \notin Ids(saved)
  <2> DEFINE y == [id |-> b, was |-> WindowOf(state, b)]
             p == Append(saved, y)
  <2>1. y \in Snapshot /\ y.id = b /\ y.was = WindowOf(state, b)
    BY WindowOfIs DEF Snapshot
  <2> HIDE DEF y
  <2>2. /\ p \in Seq(Snapshot) /\ Len(saved) \in Nat /\ DOMAIN saved = 1..Len(saved)
        /\ DOMAIN p = 1..(Len(saved) + 1) /\ p[Len(saved) + 1] = y
        /\ \A i \in DOMAIN saved : p[i] = saved[i]
    BY <2>1
  <2>3. remember_for_rollback(b) = p
    BY <1>2 DEF remember_for_rollback, y
  <2> HIDE DEF p
  <2>4. /\ DOMAIN saved \subseteq DOMAIN p /\ Len(saved) + 1 \in DOMAIN p
        /\ \A i \in DOMAIN p : i = Len(saved) + 1 \/ i \in DOMAIN saved
    BY <2>2
  <2>5. Ids(p) = Ids(saved) \cup {b}
    BY <2>1, <2>2, <2>4 DEF Ids
  <2>6. \A x \in Range(p) : x \in Range(saved) \/ x = y
    BY <2>2, <2>4 DEF Range
  <2> QED
    BY <1>2, <2>1, <2>2, <2>3, <2>5, <2>6
<1> QED
  BY <1>1, <1>2

\* score: one reading of a batch.
LEMMA ScoreKeeps ==
    ASSUME DetectorInv, NEW b \in Building, Score(b)
    PROVE  DetectorInv'
<1>0. /\ pc = "batch" /\ pc' = "batch" /\ saved' = remember_for_rollback(b) /\ Touch(b)
      /\ before' = [before EXCEPT !.lost = @ \cup (Ids(state) \ Ids(state)')]
  BY DEF Score, Ids
<1>t. /\ DetectorTypes /\ SavedTruly /\ RestUntouched /\ BatchOrder
      /\ Len(state) <= MaxTracked
  BY <1>0 DEF DetectorInv
<1>b. /\ state \in Seq(Entry) /\ Keyed(state) /\ saved \in Seq(Snapshot)
      /\ before.state \in Seq(Entry) /\ Keyed(before.state)
      /\ before = [state |-> before.state, evicted |-> before.evicted, lost |-> before.lost]
  BY <1>t DEF DetectorTypes
<1>c. /\ before' = [state |-> before.state, evicted |-> before.evicted,
                    lost |-> before.lost \cup (Ids(state) \ Ids(state)')]
  BY <1>0, <1>b
<1>d. /\ before'.state = before.state
      /\ before'.lost = before.lost \cup (Ids(state) \ Ids(state)')
      /\ before' = [state |-> before'.state, evicted |-> before'.evicted, lost |-> before'.lost]
  BY <1>c
<1>1. /\ Touched(b) /\ clock' \in Nat /\ state' \in Seq(Entry) /\ Keyed(state)'
      /\ b \in Ids(state)' /\ Len(state') <= MaxTracked
  BY <1>0, <1>t, TouchedTypes
<1>2. /\ saved' \in Seq(Snapshot) /\ Ids(saved)' = Ids(saved) \cup {b}
      /\ \A x \in Range(saved)' :
            \/ x \in Range(saved)
            \/ b \notin Ids(saved) /\ x.id = b /\ x.was = WindowOf(state, b)
  <2> DEFINE q == remember_for_rollback(b)
  <2>1. /\ q \in Seq(Snapshot) /\ Ids(q) = Ids(saved) \cup {b}
        /\ \A x \in Range(q) :
              \/ x \in Range(saved)
              \/ b \notin Ids(saved) /\ x.id = b /\ x.was = WindowOf(state, b)
    BY <1>b, RememberedIs
  <2>2. saved' = q
    BY <1>0
  <2> HIDE DEF q
  <2>3. Ids(saved)' = Ids(q) /\ Range(saved)' = Range(q)
    BY <2>2 DEF Ids, Range
  <2> QED
    BY <2>1, <2>2, <2>3
<1>3. DetectorTypes'
  <2>1. Keyed(before.state)'
    BY <1>b, <1>d DEF Keyed
  <2> QED
    BY <1>0, <1>1, <1>2, <1>b, <1>d, <2>1 DEF DetectorTypes
<1>4. SavedTruly'
  <2> SUFFICES ASSUME NEW i \in DOMAIN saved'
               PROVE  \/ saved'[i].was = WindowOf(before.state, saved'[i].id)
                      \/ saved'[i].was = {} /\ saved'[i].id \in before'.lost
    BY <1>d DEF SavedTruly, WindowOf, Range
  <2>1. saved'[i] \in Range(saved)'
    BY DEF Range
  <2>2. CASE saved'[i] \in Range(saved)
    <3>1. PICK j \in DOMAIN saved : saved'[i] = saved[j]
      BY <2>2 DEF Range
    <3> QED
      BY <1>t, <1>d, <3>1 DEF SavedTruly
  <2>3. CASE b \notin Ids(saved) /\ saved'[i].id = b /\ saved'[i].was = WindowOf(state, b)
    <3>1. CASE b \in Ids(state)
      <4>1. PICK k \in DOMAIN state : state[k].id = b
        BY <3>1 DEF Ids
      <4>2. state[k] \in Range(before.state)
        BY <1>t, <2>3, <4>1 DEF RestUntouched
      <4>3. PICK l \in DOMAIN before.state : before.state[l] = state[k]
        BY <4>2 DEF Range
      <4>4. WindowOf(before.state, b) = {state[k].window}
        BY <1>b, <4>1, <4>3, WindowOfIs
      <4>5. WindowOf(state, b) = {state[k].window}
        BY <1>b, <4>1, WindowOfIs
      <4> QED
        BY <2>3, <4>4, <4>5
    <3>2. CASE b \notin Ids(state)
      <4>1. WindowOf(state, b) = {}
        BY <1>b, <3>2, WindowOfIs
      <4>2. CASE b \in Ids(before.state)
        BY <1>t, <1>d, <2>3, <3>2, <4>1, <4>2 DEF RestUntouched
      <4>3. CASE b \notin Ids(before.state)
        BY <1>b, <2>3, <4>1, <4>3, WindowOfIs
      <4> QED
        BY <4>2, <4>3
    <3> QED
      BY <3>1, <3>2
  <2> QED
    BY <1>2, <2>1, <2>2, <2>3
<1>5. PICK r \in Seq(Entry), y \in Entry :
        /\ state' = Append(r, y) /\ y.id = b
        /\ b \notin Ids(r) /\ Thinned(r, state)
  BY <1>1 DEF Touched
<1>6. Keyed(r) /\ Range(r) \subseteq Range(state)
  BY <1>5, <1>b, ThinnedKeeps
<1>7. /\ DOMAIN state' = 1..(Len(r) + 1) /\ state'[Len(r) + 1] = y
      /\ \A i \in 1..Len(r) : state'[i] = r[i]
      /\ Len(r) \in Nat /\ DOMAIN r = 1..Len(r)
  BY <1>5, <1>6, AppendedIs
<1>8. \A i \in DOMAIN state' : i = Len(r) + 1 \/ i \in DOMAIN r
  BY <1>7
<1>9. RestUntouched'
  <2>1. ASSUME NEW i \in DOMAIN state', state'[i].id \notin Ids(saved)'
        PROVE  state'[i] \in Range(before.state)
    <3>1. i \in DOMAIN r /\ state'[i] = r[i]
      BY <1>2, <1>5, <1>7, <1>8, <2>1
    <3>2. r[i] \in Range(state) /\ r[i].id \notin Ids(saved)
      BY <1>2, <1>6, <2>1, <3>1 DEF Range
    <3> QED
      BY <1>t, <3>1, <3>2 DEF RestUntouched, Range
  <2>2. Range(before.state)' = Range(before.state) /\ Ids(before.state)' = Ids(before.state)
    BY <1>d DEF Range, Ids
  <2>3. Ids(before.state) \ Ids(state)' \subseteq before'.lost
    BY <1>t, <1>d DEF RestUntouched
  <2> QED
    BY <1>t, <1>d, <2>1, <2>2, <2>3 DEF RestUntouched
<1>10. BatchOrder'
  <2> SUFFICES ASSUME NEW i \in DOMAIN state', NEW j \in DOMAIN state', i < j,
                      state'[i].id \in Ids(saved)'
               PROVE  state'[j].id \in Ids(saved)'
    BY DEF BatchOrder
  <2>1. CASE j = Len(r) + 1
    BY <1>2, <1>5, <1>7, <2>1
  <2>2. CASE j \in DOMAIN r
    <3>1. i \in DOMAIN r
      BY <1>7, <1>8, <2>2
    <3>2. PICK f \in [DOMAIN r -> DOMAIN state] :
             /\ \A k \in DOMAIN r : r[k] = state[f[k]]
             /\ \A k, l \in DOMAIN r : k < l => f[k] < f[l]
      BY <1>5 DEF Thinned
    <3>3. /\ f[i] < f[j] /\ f[i] \in DOMAIN state /\ f[j] \in DOMAIN state
          /\ state'[i] = state[f[i]] /\ state'[j] = state[f[j]]
      BY <1>7, <2>2, <3>1, <3>2
    <3>4. state'[i].id \in Ids(saved)
      <4>1. state'[i] = r[i] /\ r[i].id # b
        BY <1>5, <1>7, <3>1 DEF Ids
      <4> QED
        BY <1>2, <4>1
    <3> QED
      BY <1>2, <1>t, <3>3, <3>4 DEF BatchOrder
  <2> QED
    BY <1>8, <2>1, <2>2
<1> QED
  BY <1>0, <1>1, <1>3, <1>4, <1>9, <1>10 DEF DetectorInv

\* One snapshot is put back.
LEMMA UndoKeeps ==
    ASSUME DetectorInv, UndoNext
    PROVE  DetectorInv'
<1> DEFINE e == Head(saved)
<1>0. /\ pc = "undoing" /\ pc' = "undoing" /\ saved # <<>>
      /\ state' = PutBack(state, e) /\ saved' = Tail(saved)
      /\ UNCHANGED <<evicted, clock, before, warmed>>
  BY DEF UndoNext
<1>t. DetectorTypes /\ SavedTruly /\ RestUntouched
  BY <1>0 DEF DetectorInv
<1>b. /\ state \in Seq(Entry) /\ Keyed(state) /\ saved \in Seq(Snapshot)
      /\ before.state \in Seq(Entry) /\ Keyed(before.state)
  BY <1>t DEF DetectorTypes
<1>1. /\ e \in Snapshot /\ e = saved[1] /\ 1 \in DOMAIN saved
      /\ saved' \in Seq(Snapshot) /\ Len(saved) \in Nat /\ DOMAIN saved = 1..Len(saved)
      /\ DOMAIN saved' = 1..(Len(saved) - 1)
      /\ \A i \in DOMAIN saved' : saved'[i] = saved[i + 1]
  BY <1>0, <1>b
<1> HIDE DEF e
<1>2. \/ e.was = WindowOf(before.state, e.id)
      \/ e.was = {} /\ e.id \in before.lost
  BY <1>1, <1>t DEF SavedTruly
<1>3. e.was = {} \/ \E w : e.was = {w}
  BY <1>2, <1>b, WindowOfIs
<1>4. /\ state' \in Seq(Entry) /\ Keyed(state)'
      /\ e.was = {} => Ids(state)' = Ids(state) \ {e.id}
      /\ e.was # {} => Ids(state)' = Ids(state) \cup {e.id}
      /\ \A x \in Range(state)' : \/ x \in Range(state) /\ x.id # e.id
                                  \/ x.id = e.id /\ e.was = {x.window}
  <2> DEFINE q == PutBack(state, e)
  <2>1. /\ q \in Seq(Entry) /\ Keyed(q)
        /\ e.was = {} => Ids(q) = Ids(state) \ {e.id}
        /\ e.was # {} => Ids(q) = Ids(state) \cup {e.id}
        /\ \A x \in Range(q) : \/ x \in Range(state) /\ x.id # e.id
                               \/ x.id = e.id /\ e.was = {x.window}
    <3>1. state \in Seq(Entry) /\ Keyed(state) /\ e \in Snapshot
      BY <1>1, <1>b
    <3> QED
      BY <1>3, <3>1, PutBackIs
  <2>2. state' = q
    BY <1>0
  <2> HIDE DEF q
  <2>3. Ids(state)' = Ids(q) /\ Range(state)' = Range(q) /\ (Keyed(q) => Keyed(state)')
    BY <2>2 DEF Ids, Range, Keyed
  <2> QED
    BY <2>1, <2>2, <2>3
<1>5. \A i \in DOMAIN saved : i = 1 \/ (i - 1 \in DOMAIN saved' /\ (i - 1) + 1 = i)
  BY <1>1
<1>6. Ids(saved) = Ids(saved)' \cup {e.id}
  <2>1. \A i \in DOMAIN saved' : i + 1 \in DOMAIN saved
    BY <1>1
  <2>2. Ids(saved)' \subseteq Ids(saved)
    BY <1>1, <2>1 DEF Ids
  <2>3. \A i \in DOMAIN saved : i # 1 => saved[i] = saved'[i - 1] /\ i - 1 \in DOMAIN saved'
    BY <1>1, <1>5
  <2>4. \A i \in DOMAIN saved : saved[i].id \in Ids(saved)' \cup {e.id}
    BY <1>1, <2>3 DEF Ids
  <2> QED
    BY <1>1, <2>2, <2>4 DEF Ids
<1>7. DetectorTypes'
  <2>1. Keyed(before.state)'
    BY <1>0, <1>b DEF Keyed
  <2> QED
    BY <1>0, <1>1, <1>4, <1>t, <2>1 DEF DetectorTypes
<1>8. SavedTruly'
  <2> SUFFICES ASSUME NEW i \in DOMAIN saved'
               PROVE  \/ saved'[i].was = WindowOf(before.state, saved'[i].id)
                      \/ saved'[i].was = {} /\ saved'[i].id \in before.lost
    BY <1>0 DEF SavedTruly, WindowOf, Range
  <2>1. i + 1 \in DOMAIN saved /\ saved'[i] = saved[i + 1]
    BY <1>1
  <2> QED
    BY <1>t, <2>1 DEF SavedTruly
<1>9. RestUntouched'
  <2>1. ASSUME NEW i \in DOMAIN state', state'[i].id \notin Ids(saved)'
        PROVE  state'[i] \in Range(before.state)
    <3>0. state'[i] \in Range(state)' /\ state'[i] \in Entry
      BY <1>4 DEF Range
    <3>1. CASE state'[i] \in Range(state) /\ state'[i].id # e.id
      <4>1. state'[i].id \notin Ids(saved)
        BY <1>6, <2>1, <3>1
      <4> QED
        BY <1>t, <3>1, <4>1 DEF RestUntouched, Range
    <3>2. CASE state'[i].id = e.id /\ e.was = {state'[i].window}
      <4>1. e.was = WindowOf(before.state, e.id) /\ e.id \in Ids(before.state)
        <5>1. e.was # {} /\ e.was = WindowOf(before.state, e.id)
          BY <1>2, <3>2
        <5>2. e.id \notin Ids(before.state) => WindowOf(before.state, e.id) = {}
          BY <1>b, WindowOfIs
        <5> QED
          BY <5>1, <5>2
      <4>2. PICK x \in Range(before.state) : x.id = e.id /\ e.was = {x.window}
        BY <1>b, <4>1, WindowOfIs
      <4>3. x \in Entry
        BY <1>b DEF Range
      <4>4. x.id = state'[i].id /\ x.window = state'[i].window
        BY <3>2, <4>2
      <4>5. x = state'[i]
        BY <3>0, <4>3, <4>4 DEF Entry
      <4> QED
        BY <4>5
    <3> QED
      BY <1>4, <3>0, <3>1, <3>2
  <2>2. Ids(before.state) \ Ids(state)' \subseteq before.lost
    <3>1. CASE e.was # {}
      BY <1>4, <1>t, <3>1 DEF RestUntouched
    <3>2. CASE e.was = {}
      <4>1. e.id \in Ids(before.state) => e.id \in before.lost
        <5>1. e.id \in Ids(before.state) => WindowOf(before.state, e.id) # {}
          <6> HAVE e.id \in Ids(before.state)
          <6>1. PICK x \in Range(before.state) : WindowOf(before.state, e.id) = {x.window}
            BY <1>b, WindowOfIs
          <6> QED
            BY <6>1
        <5> QED
          BY <1>2, <3>2, <5>1
      <4> QED
        BY <1>4, <1>t, <3>2, <4>1 DEF RestUntouched
    <3> QED
      BY <3>1, <3>2
  <2>3. /\ Range(before.state)' = Range(before.state) /\ Ids(before.state)' = Ids(before.state)
        /\ before' = before
    BY <1>0 DEF Range, Ids
  <2> QED
    BY <1>t, <2>1, <2>2, <2>3 DEF RestUntouched
<1> QED
  BY <1>0, <1>7, <1>8, <1>9 DEF DetectorInv

LEMMA DetectorKeeps == DetectorInv /\ [DetectorNext]_detectorVars => DetectorInv'
<1> SUFFICES ASSUME DetectorInv, [DetectorNext]_detectorVars PROVE DetectorInv'
  OBVIOUS
<1>t. DetectorTypes
  BY DEF DetectorInv
<1>b. /\ state \in Seq(Entry) /\ Keyed(state) /\ saved \in Seq(Snapshot)
      /\ before.state \in Seq(Entry) /\ Keyed(before.state)
  BY <1>t DEF DetectorTypes
<1>1. ASSUME NEW b \in Building, Warm(b) PROVE DetectorInv'
  <2>1. pc = "warm" /\ pc' = "warm" /\ Touch(b) /\ UNCHANGED <<saved, before>>
    BY <1>1 DEF Warm
  <2>2. /\ clock' \in Nat /\ state' \in Seq(Entry) /\ Keyed(state)'
        /\ Len(state') <= MaxTracked
    BY <1>t, <2>1, TouchedTypes DEF DetectorInv
  <2>3. DetectorTypes'
    BY <1>t, <2>1, <2>2 DEF DetectorTypes, Keyed
  <2> QED
    BY <2>1, <2>2, <2>3 DEF DetectorInv
<1>2. ASSUME NEW b \in Building, Score(b) PROVE DetectorInv'
  BY <1>2, ScoreKeeps
<1>3. CASE WarmDone \/ Stored \/ Resume
  <2>1. /\ pc' = "idle" /\ saved' \in {saved, <<>>} /\ pc # "undoing"
        /\ UNCHANGED <<state, evicted, clock, before>>
    BY <1>3 DEF WarmDone, Stored, Resume
  <2>2. saved' \in Seq(Snapshot)
    <3>1. <<>> \in Seq(Snapshot)
      OBVIOUS
    <3> QED
      BY <1>b, <2>1, <3>1
  <2>3. DetectorTypes'
    BY <1>t, <2>1, <2>2 DEF DetectorTypes, Keyed
  <2> QED
    BY <2>1, <2>3 DEF DetectorInv
<1>4. CASE Begin
  <2>1. /\ pc = "idle" /\ pc' = "batch" /\ saved' = <<>>
        /\ before' = [state |-> state, evicted |-> evicted, lost |-> {}]
        /\ UNCHANGED <<state, evicted, clock>>
    BY <1>4 DEF Begin
  <2>2. /\ before'.state = state /\ before'.lost = {}
        /\ before' = [state |-> before'.state, evicted |-> before'.evicted, lost |-> before'.lost]
    BY <2>1
  <2>3. DetectorTypes'
    BY <1>t, <2>1, <2>2 DEF DetectorTypes, Keyed
  <2>4. Ids(saved)' = {} /\ DOMAIN saved' = {}
    BY <2>1 DEF Ids
  <2>5. SavedTruly'
    BY <2>4 DEF SavedTruly
  <2>6. Len(state) <= MaxTracked
    BY <2>1 DEF DetectorInv
  <2>7. RestUntouched'
    <3>1. \A i \in DOMAIN state' : state'[i] \in Range(before.state)'
      BY <2>1, <2>2 DEF Range
    <3>2. Ids(before.state)' = Ids(state)'
      BY <2>1, <2>2 DEF Ids
    <3> QED
      BY <2>1, <2>2, <2>6, <3>1, <3>2 DEF RestUntouched
  <2>8. BatchOrder'
    BY <2>4 DEF BatchOrder
  <2> QED
    BY <2>1, <2>3, <2>5, <2>6, <2>7, <2>8 DEF DetectorInv
<1>5. CASE NotStored
  <2>1. pc = "batch" /\ pc' = "undoing" /\ UNCHANGED <<state, saved, evicted, clock, before, warmed>>
    BY <1>5 DEF NotStored
  <2>2. DetectorTypes'
    BY <1>t, <2>1 DEF DetectorTypes, Keyed
  <2>3. SavedTruly' /\ RestUntouched'
    BY <2>1 DEF DetectorInv, SavedTruly, RestUntouched, WindowOf, Ids, Range
  <2> QED
    BY <2>1, <2>2, <2>3 DEF DetectorInv
<1>6. CASE UndoNext
  BY <1>6, UndoKeeps
<1>7. CASE Undone
  <2>1. /\ pc = "undoing" /\ pc' = "undone" /\ saved = <<>> /\ evicted' = before.evicted
        /\ UNCHANGED <<state, saved, clock, before, warmed>>
    BY <1>7 DEF Undone
  <2>2. RestUntouched
    BY <2>1 DEF DetectorInv
  <2>3. Ids(saved) = {}
    BY <2>1 DEF Ids
  <2>4. Range(state) \subseteq Range(before.state)
    BY <2>2, <2>3 DEF RestUntouched, Range
  <2>5. Ids(state) \subseteq Ids(before.state)
    BY <2>4 DEF Ids, Range
  <2>6. Len(state) <= Len(before.state)
    BY <1>b, <2>5, FewerBuildings
  <2>7. Len(state) <= MaxTracked
    <3>1. Len(state) \in Nat /\ Len(before.state) \in Nat /\ MaxTracked \in Nat
      BY <1>b, DetectorAssumption
    <3> QED
      BY <2>2, <2>6, <3>1 DEF RestUntouched
  <2>8. DetectorTypes'
    BY <1>t, <2>1 DEF DetectorTypes, Keyed
  <2>9. /\ Range(state)' \subseteq Range(before.state)'
        /\ Ids(before.state)' \ Ids(state)' \subseteq before'.lost
    BY <2>1, <2>2, <2>4 DEF RestUntouched, Range, Ids
  <2> QED
    BY <2>1, <2>7, <2>8, <2>9 DEF DetectorInv
<1>8. CASE UNCHANGED detectorVars
  <2>1. UNCHANGED <<state, saved, evicted, pc, clock, before, warmed>>
    BY <1>8 DEF detectorVars
  <2>2. DetectorTypes'
    BY <1>t, <2>1 DEF DetectorTypes, Keyed
  <2>3. (SavedTruly => SavedTruly') /\ (RestUntouched => RestUntouched') /\ (BatchOrder => BatchOrder')
    BY <2>1 DEF SavedTruly, RestUntouched, BatchOrder, WindowOf, Ids, Range
  <2> QED
    BY <2>1, <2>2, <2>3 DEF DetectorInv, Ids, Range
<1> QED
  BY <1>1, <1>2, <1>3, <1>4, <1>5, <1>6, <1>7, <1>8 DEF DetectorNext

LEMMA DetectorInvariant == DetectorSpec => []DetectorInv
  BY DetectorStarts, DetectorKeeps, PTL DEF DetectorSpec

\* rollback_on_error, for every number of buildings, every length of window and batch:
\* once it is through, each window that is there is the one the batch found, and what
\* is missing the batch had pushed out of the memory.
THEOREM RollbackPutsBack == DetectorSpec => []UndoneUnlessEvicted
<1>1. DetectorInv => UndoneUnlessEvicted
  BY DEF DetectorInv, UndoneUnlessEvicted, Windows
<1> QED
  BY <1>1, DetectorInvariant, PTL

\* _state_for, whatever was undone before: the buildings of the batch stand last, so
\* that the memory, which never grows past MAX_TRACKED_BUILDINGS, drops the others first.
THEOREM EvictsTheUntouched == DetectorSpec => []ScoredGoLast
<1>1. DetectorInv => ScoredGoLast
  <2> SUFFICES ASSUME DetectorInv PROVE ScoredGoLast
    OBVIOUS
  <2>1. Cardinality(Ids(state)) = Len(state)
    BY KeyedCounts DEF DetectorInv, DetectorTypes
  <2> QED
    BY <2>1 DEF DetectorInv, BatchOrder, ScoredGoLast
<1> QED
  BY <1>1, DetectorInvariant, PTL
=============================================================================

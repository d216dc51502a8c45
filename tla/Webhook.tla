------------------------------ MODULE Webhook ------------------------------
(***************************************************************************)
(* The notifier of gemp/ingest/webhook.py with a URL configured: the       *)
(* ingester hands notifications to a bounded queue, one worker thread      *)
(* posts them, and an orderly shutdown sends a stop mark down the same     *)
(* queue and waits for the worker.                                         *)
(***************************************************************************)
EXTENDS Integers, Sequences, FiniteSets

CONSTANTS
    QueueDepth,       \* QUEUE_DEPTH
    Severity,         \* SEVERITY_ORDER: the ranks a notification may have
    MinSeverity,      \* the configured rank
    MaxNotifications, \* bound: calls of notify
    MaxSurprises      \* bound: posts that raise what _post does not expect

ASSUME WebhookAssumption ==
    /\ QueueDepth \in Nat \ {0}
    /\ Severity \subseteq Nat /\ MinSeverity \in Nat
    /\ MaxNotifications \in Nat /\ MaxSurprises \in Nat

VARIABLES
    queue,    \* self._queue
    worker,   \* the worker thread: waiting, posting, returned, or ended by an exception
    caller,   \* the ingester's thread: running, in put(None), in join, or through
    tally,    \* the four counters
    handed,   \* history: calls of notify
    surprises \* history: unexpected exceptions

vars == <<queue, worker, caller, tally, handed, surprises>>

Note == "note"
StopMark == "stop"

\* notify: filtered, queued, or dropped; never waits.
Notify(severity) ==
    /\ caller = "running"
    /\ handed < MaxNotifications
    /\ handed' = handed + 1
    /\ CASE severity < MinSeverity ->
              tally' = [tally EXCEPT !.suppressed = @ + 1] /\ UNCHANGED queue
         [] severity >= MinSeverity /\ Len(queue) < QueueDepth ->
              queue' = Append(queue, Note) /\ UNCHANGED tally
         [] OTHER ->
              tally' = [tally EXCEPT !.dropped = @ + 1] /\ UNCHANGED queue
    /\ UNCHANGED <<worker, caller, surprises>>

\* stop: put(None) waits for room, then join waits for the worker or its timeout.
Stop ==
    /\ caller = "running"
    /\ caller' = "putting"
    /\ UNCHANGED <<queue, worker, tally, handed, surprises>>

\* Mutant: the stop mark overtakes what is queued.
PutStop_mutant ==
    /\ caller = "putting"
    /\ Len(queue) < QueueDepth
    /\ queue' = <<StopMark>> \o queue
    /\ caller' = "joining"
    /\ UNCHANGED <<worker, tally, handed, surprises>>

PutStop ==
    /\ caller = "putting"
    /\ Len(queue) < QueueDepth
    /\ queue' = Append(queue, StopMark)
    /\ caller' = "joining"
    /\ UNCHANGED <<worker, tally, handed, surprises>>

Joined ==
    /\ caller = "joining"
    /\ caller' = "through"
    /\ UNCHANGED <<queue, worker, tally, handed, surprises>>

----------------------------------------------------------------------------
(* The worker *)

\* _run: the next item, or the stop mark.
Get ==
    /\ worker = "waiting"
    /\ queue # <<>>
    /\ queue' = Tail(queue)
    /\ worker' = IF Head(queue) = StopMark THEN "returned" ELSE "posting"
    /\ UNCHANGED <<caller, tally, handed, surprises>>

PostSucceeds ==
    /\ worker = "posting"
    /\ tally' = [tally EXCEPT !.sent = @ + 1]
    /\ worker' = "waiting"
    /\ UNCHANGED <<queue, caller, handed, surprises>>

\* Mutant: a failed post is not counted.
PostFails_mutant ==
    /\ worker = "posting"
    /\ worker' = "waiting"
    /\ UNCHANGED <<queue, caller, tally, handed, surprises>>

\* Mutant: a failed post is counted and ends the loop.
PostFailsReturns_mutant ==
    /\ worker = "posting"
    /\ tally' = [tally EXCEPT !.failed = @ + 1]
    /\ worker' = "returned"
    /\ UNCHANGED <<queue, caller, handed, surprises>>

\* URLError, OSError or ValueError: counted, not retried.
PostFails ==
    /\ worker = "posting"
    /\ tally' = [tally EXCEPT !.failed = @ + 1]
    /\ worker' = "waiting"
    /\ UNCHANGED <<queue, caller, handed, surprises>>

\* urlopen lets http.client's own exceptions through (a status line it cannot parse is
\* none of the three): the worker thread ends.
PostRaises ==
    /\ worker = "posting"
    /\ surprises < MaxSurprises
    /\ surprises' = surprises + 1
    /\ worker' = "ended"
    /\ UNCHANGED <<queue, caller, tally, handed>>

----------------------------------------------------------------------------
Init ==
    /\ queue = <<>> /\ worker = "waiting" /\ caller = "running"
    /\ tally = [sent |-> 0, failed |-> 0, dropped |-> 0, suppressed |-> 0]
    /\ handed = 0 /\ surprises = 0

WorkerStep == Get \/ PostSucceeds \/ PostFails
CallerStep == PutStop \/ Joined

Next ==
    \/ \E s \in Severity : Notify(s)
    \/ Stop
    \/ CallerStep
    \/ WorkerStep \/ PostRaises

\* Threads that can run do: urlopen has a timeout, put waits only for room.
Spec == Init /\ [][Next]_vars /\ WF_vars(WorkerStep) /\ WF_vars(CallerStep)

----------------------------------------------------------------------------
(* Properties *)

Notes == Cardinality({ i \in DOMAIN queue : queue[i] = Note })

\* Handed over, and sent, failed, dropped, suppressed, queued or being posted.
EveryOutcomeCounted ==
    handed = tally.sent + tally.failed + tally.dropped + tally.suppressed
             + Notes + (IF worker = "posting" THEN 1 ELSE 0)

\* As long as the worker is alive no notification disappears without a number
\* attached to it, at whatever depth of the queue and whatever the endpoint answers.
CountedWhileAlive == worker # "ended" => EveryOutcomeCounted

\* The worker returns only when everything queued before the stop has been posted.
DrainedOnReturn == worker = "returned" => queue = <<>>

\* A shutdown gets through stop() unless the worker's thread has ended and left the
\* queue full.
StopReturns ==
    caller = "putting" ~>
        (caller = "through" \/ (worker = "ended" /\ Len(queue) = QueueDepth))
============================================================================

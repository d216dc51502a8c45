------------------------------- MODULE Ingest -------------------------------
(***************************************************************************)
(* The ingester of gemp/ingest/consumer.py: MQTT callbacks fill a bounded  *)
(* queue, one loop thread signs batches into the reading table and anchors *)
(* the chain heads, and the process may fail or be stopped at any point.   *)
(*                                                                         *)
(* Two threads run against one database: paho's network thread, which only *)
(* calls _on_message, and the loop thread, whose control state is `pc`.    *)
(* Everything in the process is lost when it goes down; the tables and the *)
(* anchor file are not.                                                    *)
(***************************************************************************)
EXTENDS Integrity

CONSTANTS
    Building,          \* building ids that appear in payloads
    InitialPortfolio,  \* the ones with a row in `building` when the system starts
    Source,            \* values of the `source` field
    Reading,           \* the well-formed payloads the broker may deliver
    Anomalous,         \* the readings the detector flags with a notified severity
    BatchRows,         \* settings.ingest_batch_rows
    MaxQueued,         \* MAX_QUEUED_READINGS
    CheckpointEvery,   \* CHECKPOINT_EVERY_S
    MaxArrivals,       \* bound: deliveries
    MaxMalformed,      \* bound: deliveries that do not parse
    MaxFailures,       \* bound: database or disk failures
    MaxRestarts,       \* bound: crashes and orderly stops
    MaxSeconds         \* bound: the clock

ASSUME IngestAssumption ==
    /\ InitialPortfolio \subseteq Building
    /\ Reading \subseteq [building_id : Building, ts : Nat, kw : Nat, source : Source]
    /\ Anomalous \subseteq Reading
    /\ BatchRows \in Nat \ {0}
    /\ MaxQueued \in Nat \ {0}
    /\ CheckpointEvery \in Nat
    /\ MaxArrivals \in Nat /\ MaxMalformed \in Nat /\ MaxFailures \in Nat
    /\ MaxRestarts \in Nat /\ MaxSeconds \in Nat

VARIABLES
    \* the database and the file beside it
    reading,       \* table reading: primary key (building_id, ts)
    anomaly,       \* table anomaly: the flagged (building_id, ts) pairs
    checkpoint,    \* table integrity_checkpoint: primary key (building_id, ts)
    portfolio,     \* ids with a row in table building
    anchor,        \* lines of the external anchor file
    \* the loop thread
    pc,            \* where it is
    closing,       \* how far an orderly shutdown has come
    failing,       \* write_failures > 0
    chains,        \* self.chains
    detector,      \* readings in the detector's rolling windows
    last_checkpoint,
    \* one call of flush / _write
    pending, attempt, todo, stored, staged, heads, dups, undo, known,
    \* one call of write_checkpoint
    unanchored,
    \* shared by the two threads
    queue, count,
    incoming,      \* the network thread inside _on_message: the reading not yet appended
    \* what the webhook was handed
    notified,
    \* the world
    now, failures, restarts,
    \* history: every delivery, how many came before this process started, and
    \* the heads it started from
    arrived, since, resumed

tables == <<reading, anomaly>>
marks  == <<checkpoint, anchor, unanchored>>
memory == <<chains, detector, last_checkpoint>>
call   == <<pending, attempt, todo, stored, staged, heads, dups, undo, known>>
mode   == <<closing, failing>>
inbox  == <<queue, count, incoming>>
world  == <<portfolio, now, restarts, arrived, since, resumed>>
vars == <<tables, marks, memory, call, mode, inbox, world, pc, notified, failures>>

----------------------------------------------------------------------------
(* Values *)

Canonical  == [building_id : Building, ts : Nat, kw : Nat, source : Source, seq : Nat]
Signature  == Seq(Canonical)
Row        == [building_id : Building, ts : Nat, kw : Nat, source : Source,
               seq : Nat, sig : Signature]
ChainState == [last_seq : Nat \cup {-1}, last_sig : Signature, last_ts : Nat \cup {-1}]
Checkpoint == [building_id : Building, ts : Nat, last_seq : Nat, head_sig : Signature]
AnchorLine == [building_id : Building, last_seq : Nat, head_sig : Signature]
Counters   == [written : Nat, duplicates : Nat, rejected : Nat,
               overflowed : Nat, malformed : Nat,
               \* history, not counters of the code: really discarded, and rejected
               \* although the building has been in the portfolio all along
               lost : Nat, misjudged : Nat]

Key(r)  == <<r.building_id, r.ts>>
Keys(S) == { Key(r) : r \in S }

\* ChainState(): no rows yet.  -1 stands for last_ts None, below every instant.
NoChain  == [last_seq |-> -1, last_sig |-> GENESIS, last_ts |-> -1]
NoChains == [b \in Building |-> NoChain]
NoCounts == [written |-> 0, duplicates |-> 0, rejected |-> 0,
             overflowed |-> 0, malformed |-> 0, lost |-> 0, misjudged |-> 0]

Up == pc \notin {"down", "dead"}

----------------------------------------------------------------------------
(* Helpers of the write path *)

\* Mutant: the chain is resumed from its first row.
StoredHead_mutant(b) ==
    LET mine == RowsOf(reading, b)
    IN  IF mine = {} THEN NoChain
        ELSE LET top == CHOOSE r \in mine : \A q \in mine : q.seq >= r.seq
             IN  [last_seq |-> top.seq, last_sig |-> top.sig, last_ts |-> top.ts]

\* load_chain_heads: for every building the stored row with the highest seq.
StoredHead(b) ==
    LET mine == RowsOf(reading, b)
    IN  IF mine = {} THEN NoChain
        ELSE LET top == CHOOSE r \in mine : \A q \in mine : q.seq <= r.seq
             IN  [last_seq |-> top.seq, last_sig |-> top.sig, last_ts |-> top.ts]

\* Mutant: the head's own number is used again.
SignedRow_mutant(r, head) ==
    LET row == [building_id |-> r.building_id, ts |-> r.ts, kw |-> r.kw,
                source |-> r.source, seq |-> head.last_seq]
    IN  [building_id |-> r.building_id, ts |-> r.ts, kw |-> r.kw, source |-> r.source,
         seq |-> head.last_seq, sig |-> sign(row, head.last_sig)]

\* {**reading, "seq": seq} and its signature.
SignedRow(r, head) ==
    LET row == [building_id |-> r.building_id, ts |-> r.ts, kw |-> r.kw,
                source |-> r.source, seq |-> head.last_seq + 1]
    IN  [building_id |-> r.building_id, ts |-> r.ts, kw |-> r.kw, source |-> r.source,
         seq |-> head.last_seq + 1, sig |-> sign(row, head.last_sig)]

HeadAt(row) == [last_seq |-> row.seq, last_sig |-> row.sig, last_ts |-> row.ts]

\* INSERT ... ON CONFLICT DO NOTHING on a table whose primary key is Key.
insert_ignore(table, rows) == table \cup { r \in rows : Key(r) \notin Keys(table) }

\* Mutants: the batch goes to the back of the queue, or is not put back.
RequeueBehind_mutant(batch, q) == q \o batch
RequeueNothing_mutant(batch, q) == q

\* deque(maxlen=MaxQueued).extendleft(reversed(batch)): a full deque discards from
\* the far end, which is where the newest readings are.
Requeue(batch, q) ==
    LET all == batch \o q
    IN  IF Len(all) <= MaxQueued THEN all ELSE SubSeq(all, 1, MaxQueued)

\* write_failures counts only what the main loop runs, not the shutdown sequence.
NoteSuccess == failing' = (failing /\ closing # "no")
NoteFailure == failing' = (failing \/ closing = "no")

\* The write-path variables between two calls of flush.
NoWrite ==
    /\ pending' = <<>> /\ attempt' = 1 /\ todo' = <<>> /\ stored' = {} /\ staged' = {}
    /\ heads' = NoChains /\ dups' = 0 /\ undo' = {} /\ known' = {}

----------------------------------------------------------------------------
(* The network thread *)

\* _on_message with a payload that parses: first the look at the length ...
OnMessage(r) ==
    /\ Up
    /\ incoming = <<>>
    /\ Len(arrived) < MaxArrivals
    /\ incoming' = <<r>>
    /\ count' = [count EXCEPT !.overflowed = IF Len(queue) = MaxQueued THEN @ + 1 ELSE @]
    /\ arrived' = Append(arrived, r)
    /\ UNCHANGED <<tables, marks, memory, call, mode, portfolio, pc, queue, notified, now,
                   failures, restarts, since, resumed>>

\* ... then the append, by which time the loop thread may have changed the length.  A
\* full deque drops its oldest entry.
AppendReading ==
    /\ incoming # <<>>
    /\ IF Len(queue) = MaxQueued
       THEN /\ queue' = Append(Tail(queue), incoming[1])
            /\ count' = [count EXCEPT !.lost = @ + 1]
       ELSE queue' = Append(queue, incoming[1]) /\ UNCHANGED count
    /\ incoming' = <<>>
    /\ UNCHANGED <<tables, marks, memory, call, mode, world, pc, notified, failures>>

\* _on_message with JSON that lacks a field: the full-queue count comes first.
OnMalformed ==
    /\ Up
    /\ incoming = <<>>
    /\ count.malformed < MaxMalformed
    /\ count' = [count EXCEPT !.malformed = @ + 1,
                              !.overflowed = IF Len(queue) = MaxQueued THEN @ + 1 ELSE @]
    /\ UNCHANGED <<tables, marks, memory, call, mode, world, pc, queue, incoming, notified,
                   failures>>

----------------------------------------------------------------------------
(* The loop thread: starting *)

\* load_chain_heads, warm_detector, connect.
Start ==
    /\ pc = "down"
    /\ chains' = [b \in Building |-> StoredHead(b)]
    /\ detector' = Keys(reading)
    /\ last_checkpoint' = now
    /\ pc' = "idle"
    /\ since' = Len(arrived)
    /\ resumed' = chains'
    /\ UNCHANGED <<tables, marks, call, mode, inbox, portfolio, notified, now, failures,
                   restarts, arrived>>

\* None of the three is wrapped: an exception ends the thread, not the process.
StartFails ==
    /\ pc = "down"
    /\ failures < MaxFailures
    /\ failures' = failures + 1
    /\ pc' = "dead"
    /\ UNCHANGED <<tables, marks, memory, call, mode, inbox, world, notified>>

----------------------------------------------------------------------------
(* The loop thread: flush and _write *)

\* flush on an empty queue: returns at once, and the loop clears write_failures.
FlushNothing ==
    /\ pc = "idle" /\ closing \in {"no", "flush"}
    /\ queue = <<>>
    /\ NoteSuccess
    /\ closing' = IF closing = "flush" THEN "checkpoint" ELSE closing
    /\ UNCHANGED <<tables, marks, memory, call, inbox, world, pc, notified, failures>>

\* The batch leaves the queue.
TakeBatch ==
    /\ pc = "idle" /\ closing \in {"no", "flush"}
    /\ queue # <<>>
    /\ LET n == IF Len(queue) < BatchRows THEN Len(queue) ELSE BatchRows
       IN  /\ pending' = SubSeq(queue, 1, n)
           /\ queue' = SubSeq(queue, n + 1, Len(queue))
    /\ attempt' = 1
    /\ pc' = "begin"
    /\ closing' = IF closing = "flush" THEN "checkpoint" ELSE closing
    /\ UNCHANGED <<tables, marks, memory, world, failing, todo, stored, staged, heads,
                   dups, undo, known, count, incoming, notified, failures>>

\* _already_stored: which (building_id, ts) of the batch the table holds.
already_stored(batch) == Keys(reading) \cap Keys({ batch[i] : i \in DOMAIN batch })

\* _write opens its transaction and asks which of the batch is stored already.
BeginWrite ==
    /\ pc = "begin"
    /\ todo' = pending
    /\ stored' = already_stored(pending)
    /\ staged' = {} /\ heads' = chains /\ dups' = 0
    /\ pc' = "sign"
    /\ UNCHANGED <<tables, marks, memory, mode, inbox, world, pending, attempt, undo,
                   known, notified, failures>>

\* Mutant: only the database is asked.
IsDuplicate_mutant(r) == Key(r) \in stored

\* Redelivered, out of order, or already on disk.
IsDuplicate(r) == r.ts <= heads[r.building_id].last_ts \/ Key(r) \in stored

\* One turn of the signing loop.
SignNext ==
    /\ pc = "sign"
    /\ todo # <<>>
    /\ LET r   == Head(todo)
           row == SignedRow(r, heads[r.building_id])
       IN  IF IsDuplicate(r)
           THEN /\ dups' = dups + 1
                /\ UNCHANGED <<staged, heads>>
           ELSE /\ staged' = staged \cup {row}
                /\ heads' = [heads EXCEPT ![r.building_id] = HeadAt(row)]
                /\ UNCHANGED dups
    /\ todo' = Tail(todo)
    /\ UNCHANGED <<tables, marks, memory, mode, inbox, world, pc, pending, attempt, stored,
                   undo, known, notified, failures>>

\* Nothing to insert.  On the second attempt flush returns before it counts.
WriteNothing ==
    /\ pc = "sign"
    /\ todo = <<>> /\ staged = {}
    /\ count' = [count EXCEPT !.duplicates = IF attempt = 1 THEN @ + dups ELSE @,
                              !.lost = IF attempt = 1 THEN @ ELSE @ + dups]
    /\ NoteSuccess
    /\ NoWrite
    /\ pc' = "idle"
    /\ UNCHANGED <<tables, marks, memory, world, closing, queue, incoming, notified,
                   failures>>

\* The (building_id, ts) of the anomalies among the rows.
Flagged(rows) == { Key(r) : r \in { q \in rows :
                     [building_id |-> q.building_id, ts |-> q.ts, kw |-> q.kw,
                      source |-> q.source] \in Anomalous } }

\* Scoring puts the batch into the detector's windows before the insert; the
\* rollback_on_error snapshot is what they held before.
ScoreBatch ==
    /\ pc = "sign"
    /\ todo = <<>> /\ staged # {}
    /\ undo' = detector
    /\ detector' = detector \cup Keys(staged)
    /\ pc' = "insert"
    /\ UNCHANGED <<tables, marks, mode, inbox, world, chains, last_checkpoint, pending,
                   attempt, todo, stored, staged, heads, dups, known, failures>>

\* Mutant: the webhook is told while the rows are still uncommitted.
Score_mutant == ScoreBatch /\ notified' = notified \cup Flagged(staged)

Score == ScoreBatch /\ UNCHANGED notified

\* rollback_on_error, and a mutant that keeps what was scored.
RolledBack_mutant == detector
RolledBack == IF pc = "insert" THEN undo ELSE detector

\* Every staged row has its building: the foreign key holds.
Accepted == \A r \in staged : r.building_id \in portfolio

\* The inserts succeed and the transaction commits.
Commit ==
    /\ pc = "insert"
    /\ Accepted
    /\ reading' = insert_ignore(reading, staged)
    /\ anomaly' = anomaly \cup Flagged(staged)
    /\ pc' = "apply"
    /\ UNCHANGED <<marks, memory, call, mode, inbox, world, notified, failures>>

\* The tail of flush: the counters, and the webhook after the commit.
FlushReturns ==
    /\ count' = [count EXCEPT !.duplicates = @ + dups, !.written = @ + Cardinality(staged)]
    /\ notified' = notified \cup Flagged(staged)

\* The commit has returned: the heads in memory advance, and flush goes on.
ApplyHeads ==
    /\ pc = "apply"
    /\ chains' = heads
    /\ FlushReturns
    /\ NoteSuccess
    /\ NoWrite
    /\ pc' = "idle"
    /\ UNCHANGED <<tables, marks, world, closing, detector, last_checkpoint, queue,
                   incoming, failures>>

\* Mutant: a refused batch is put back at the front like any other failure.
Refuse_mutant ==
    /\ pc = "insert"
    /\ ~Accepted
    /\ detector' = RolledBack
    /\ queue' = Requeue(pending, queue)
    /\ NoWrite
    /\ pc' = "idle"
    /\ UNCHANGED <<tables, marks, mode, world, chains, last_checkpoint, count, incoming,
                   notified, failures>>

\* A foreign key refuses the insert: IntegrityError, rollback, _write_without_unknown.
Refuse ==
    /\ pc = "insert"
    /\ ~Accepted
    /\ detector' = RolledBack
    /\ pc' = "isolate"
    /\ UNCHANGED <<tables, marks, call, mode, inbox, world, chains, last_checkpoint,
                   notified, failures>>

\* Which ids does the portfolio hold?
AskKnown(ids) ==
    /\ pc = "isolate"
    /\ known' = ids
    /\ todo' = pending /\ pending' = <<>>
    /\ staged' = {} /\ heads' = NoChains /\ dups' = 0 /\ stored' = {} /\ undo' = {}
    /\ pc' = "filter"
    /\ UNCHANGED <<tables, marks, memory, mode, inbox, world, attempt, notified>>

QueryKnown == AskKnown(portfolio) /\ UNCHANGED failures

\* The query fails and nothing is known: the whole batch will be dropped.
QueryFails == AskKnown({}) /\ failures < MaxFailures /\ failures' = failures + 1

\* The list comprehension that builds `usable`, and a mutant that reverses it.
Keep_mutant(usable, r) == <<r>> \o usable
Keep(usable, r) == Append(usable, r)

\* usable keeps the readings of known buildings, in order; the others are counted.
FilterNext ==
    /\ pc = "filter"
    /\ todo # <<>>
    /\ IF Head(todo).building_id \in known
       THEN pending' = Keep(pending, Head(todo)) /\ UNCHANGED count
       ELSE /\ count' = [count EXCEPT !.rejected = @ + 1,
                            !.misjudged = IF Head(todo).building_id \in InitialPortfolio
                                          THEN @ + 1 ELSE @]
            /\ UNCHANGED pending
    /\ todo' = Tail(todo)
    /\ UNCHANGED <<tables, marks, memory, mode, world, pc, attempt, stored, staged, heads,
                   dups, undo, known, queue, incoming, notified, failures>>

\* Nothing usable: flush returns.
DropBatch ==
    /\ pc = "filter"
    /\ todo = <<>> /\ pending = <<>>
    /\ NoteSuccess
    /\ NoWrite
    /\ pc' = "idle"
    /\ UNCHANGED <<tables, marks, memory, inbox, world, closing, notified, failures>>

\* _write(usable).  Known ids only grow, so it cannot be refused a second time.
Rewrite ==
    /\ pc = "filter"
    /\ todo = <<>> /\ pending # <<>>
    /\ attempt' = 2
    /\ pc' = "begin"
    /\ UNCHANGED <<tables, marks, memory, mode, inbox, world, pending, todo, stored,
                   staged, heads, dups, undo, known, notified, failures>>

\* History: how many readings an abandoned write discards - those a full deque drops
\* when the batch is put back, or the whole batch of a second attempt.
Discarded ==
    LET excess == Len(pending) + Len(queue) - MaxQueued
    IN  IF attempt = 2 THEN Len(pending) ELSE IF excess > 0 THEN excess ELSE 0

\* Any other exception out of _write.  flush puts the batch back, except on the
\* second attempt, which runs inside the handler of the first exception.
Abandon ==
    /\ detector' = RolledBack
    /\ queue' = IF attempt = 1 THEN Requeue(pending, queue) ELSE queue
    /\ count' = [count EXCEPT !.lost = @ + Discarded]
    /\ NoteFailure
    /\ NoWrite
    /\ pc' = "idle"
    /\ failures < MaxFailures
    /\ failures' = failures + 1

\* Mutant: the heads advance with the signing, whether or not the rows are stored.
WriteFails_mutant ==
    /\ pc \in {"sign", "insert"}
    /\ Abandon
    /\ chains' = heads
    /\ UNCHANGED <<tables, marks, world, closing, last_checkpoint, incoming, notified>>

WriteFails ==
    /\ pc \in {"begin", "sign", "insert"}
    /\ Abandon
    /\ UNCHANGED <<tables, marks, world, closing, chains, last_checkpoint, incoming,
                   notified>>

----------------------------------------------------------------------------
(* The loop thread: write_checkpoint *)

\* The timer has run out, or the shutdown sequence has come to its checkpoint.
CheckpointDue ==
    /\ pc = "idle"
    /\ \/ closing = "no" /\ now - last_checkpoint >= CheckpointEvery
       \/ closing = "checkpoint"

\* Mutant: the number of rows is recorded, not the last sequence.
CheckpointRecords_mutant ==
    { [building_id |-> b, ts |-> now, last_seq |-> chains[b].last_seq + 1,
       head_sig |-> chains[b].last_sig] :
      b \in { c \in Building : chains[c].last_seq >= 0 } }

\* One record per started chain, stamped with the whole second.
CheckpointRecords ==
    { [building_id |-> b, ts |-> now, last_seq |-> chains[b].last_seq,
       head_sig |-> chains[b].last_sig] :
      b \in { c \in Building : chains[c].last_seq >= 0 } }

AnchorLineOf(k) ==
    [building_id |-> k.building_id, last_seq |-> k.last_seq, head_sig |-> k.head_sig]

\* The heads go to the database ...
CheckpointDb ==
    /\ CheckpointDue
    /\ checkpoint' = insert_ignore(checkpoint, CheckpointRecords)
    /\ unanchored' = { AnchorLineOf(k) : k \in CheckpointRecords }
    /\ pc' = "anchor"
    /\ UNCHANGED <<tables, memory, call, mode, inbox, world, anchor, notified, failures>>

\* ... and only once that is committed to the file, one line after another.
AppendAnchor ==
    /\ pc = "anchor"
    /\ \E line \in unanchored :
          /\ anchor' = anchor \cup {line}
          /\ unanchored' = unanchored \ {line}
    /\ UNCHANGED <<tables, memory, call, mode, inbox, world, checkpoint, pc, notified,
                   failures>>

AfterCheckpoint == closing' = IF closing = "checkpoint" THEN "exit" ELSE closing

\* write_checkpoint returns; only then is the timer reset, to the instant at which the
\* loop had looked at its clock and found it run out.
CheckpointDone ==
    /\ pc = "anchor"
    /\ unanchored = {}
    /\ \/ /\ closing = "no"
          /\ \E t \in last_checkpoint + CheckpointEvery .. now : last_checkpoint' = t
       \/ closing # "no" /\ UNCHANGED last_checkpoint
    /\ AfterCheckpoint
    /\ pc' = "idle"
    /\ UNCHANGED <<tables, marks, call, inbox, world, failing, chains, detector, notified,
                   failures>>

\* The database refuses the heads, or the disk fails under the file.
CheckpointFails ==
    /\ CheckpointDue \/ pc = "anchor"
    /\ failures < MaxFailures
    /\ failures' = failures + 1
    /\ unanchored' = {}
    /\ NoteFailure
    /\ AfterCheckpoint
    /\ pc' = "idle"
    /\ UNCHANGED <<tables, memory, call, inbox, world, checkpoint, anchor, notified>>

----------------------------------------------------------------------------
(* Stopping, crashing, and the world *)

\* The process is gone, and with it everything it held in memory.
Forget ==
    /\ pc' = "down" /\ closing' = "no" /\ failing' = FALSE
    /\ chains' = NoChains /\ detector' = {} /\ last_checkpoint' = 0
    /\ NoWrite
    /\ unanchored' = {} /\ queue' = <<>> /\ count' = NoCounts /\ incoming' = <<>>

\* stop(): the loop ends, then one flush and one checkpoint, then the process exits.
Stop ==
    /\ pc = "idle" /\ closing = "no"
    /\ restarts < MaxRestarts
    /\ restarts' = restarts + 1
    /\ closing' = "flush"
    /\ UNCHANGED <<tables, marks, memory, call, inbox, portfolio, pc, failing, notified,
                   now, failures, arrived, since, resumed>>

\* loop_stop waits for a callback that is still running.
Exit ==
    /\ pc = "idle" /\ closing = "exit"
    /\ incoming = <<>>
    /\ Forget
    /\ UNCHANGED <<tables, world, checkpoint, anchor, notified, failures>>

Crash ==
    /\ pc # "down"
    /\ restarts < MaxRestarts
    /\ restarts' = restarts + 1
    /\ Forget
    /\ UNCHANGED <<tables, checkpoint, portfolio, anchor, notified, now, failures, arrived,
                   since, resumed>>

\* An operator adds the missing building row.
AddBuilding(b) ==
    /\ b \notin portfolio
    /\ portfolio' = portfolio \cup {b}
    /\ UNCHANGED <<tables, marks, memory, call, mode, inbox, pc, notified, now, failures,
                   restarts, arrived, since, resumed>>

Tick ==
    /\ now < MaxSeconds
    /\ now' = now + 1
    /\ UNCHANGED <<tables, marks, memory, call, mode, inbox, portfolio, pc, notified,
                   failures, restarts, arrived, since, resumed>>

----------------------------------------------------------------------------
Init ==
    /\ reading = {} /\ anomaly = {} /\ checkpoint = {} /\ portfolio = InitialPortfolio
    /\ anchor = {}
    /\ pc = "down" /\ closing = "no" /\ failing = FALSE
    /\ chains = NoChains /\ detector = {} /\ last_checkpoint = 0
    /\ pending = <<>> /\ attempt = 1 /\ todo = <<>> /\ stored = {} /\ staged = {}
    /\ heads = NoChains /\ dups = 0 /\ undo = {} /\ known = {}
    /\ unanchored = {} /\ queue = <<>> /\ count = NoCounts /\ incoming = <<>>
    /\ notified = {}
    /\ now = 0 /\ failures = 0 /\ restarts = 0
    /\ arrived = <<>> /\ since = 0 /\ resumed = NoChains

\* What the loop thread does by itself once it runs.
LoopStep ==
    \/ TakeBatch \/ FlushNothing \/ BeginWrite \/ SignNext \/ WriteNothing \/ Score
    \/ Commit \/ ApplyHeads \/ Refuse \/ QueryKnown \/ FilterNext \/ DropBatch \/ Rewrite
    \/ CheckpointDb \/ AppendAnchor \/ CheckpointDone
    \/ Exit

Failure == StartFails \/ WriteFails \/ QueryFails \/ CheckpointFails \/ Crash

Next ==
    \/ \E r \in Reading : OnMessage(r)
    \/ AppendReading
    \/ OnMalformed
    \/ Start
    \/ LoopStep
    \/ Failure
    \/ Stop
    \/ \E b \in Building : AddBuilding(b)
    \/ Tick

Spec == Init /\ [][Next]_vars

\* Both threads keep running and the process is restarted when it goes down; no
\* fairness on deliveries, failures, operators or the clock.
FairSpec == Spec /\ WF_vars(Start) /\ WF_vars(LoopStep) /\ WF_vars(AppendReading)

----------------------------------------------------------------------------
(* A commit whose acknowledgement is lost: the rows are stored, the client *)
(* sees an exception like any other, and flush puts the batch back.        *)

CommitUnacknowledged ==
    /\ pc = "insert"
    /\ Accepted
    /\ reading' = insert_ignore(reading, staged)
    /\ anomaly' = anomaly \cup Flagged(staged)
    /\ Abandon
    /\ UNCHANGED <<marks, world, closing, chains, last_checkpoint, incoming, notified>>

LossyNext == Next \/ CommitUnacknowledged
LossySpec == Init /\ [][LossyNext]_vars

----------------------------------------------------------------------------
(* Properties *)

Instants == Building \X Nat

TablesOK == reading \subseteq Row /\ anomaly \subseteq Instants
MarksOK ==
    /\ checkpoint \subseteq Checkpoint
    /\ anchor \subseteq AnchorLine /\ unanchored \subseteq AnchorLine
MemoryOK ==
    /\ chains \in [Building -> ChainState]
    /\ detector \subseteq Instants
    /\ last_checkpoint \in Nat
CallOK ==
    /\ pending \in Seq(Reading) /\ todo \in Seq(Reading)
    /\ attempt \in {1, 2} /\ dups \in Nat
    /\ stored \subseteq Instants /\ undo \subseteq Instants
    /\ staged \subseteq Row
    /\ heads \in [Building -> ChainState]
    /\ known \subseteq Building
ModeOK == closing \in {"no", "flush", "checkpoint", "exit"} /\ failing \in BOOLEAN
InboxOK == queue \in Seq(Reading) /\ count \in Counters /\ incoming \in Seq(Reading)
WorldOK ==
    /\ portfolio \subseteq Building
    /\ now \in Nat /\ restarts \in Nat /\ since \in Nat
    /\ arrived \in Seq(Reading)
    /\ resumed \in [Building -> ChainState]

\* Every variable holds a value of its kind; in particular the heads a restart reads
\* from the table and the rows the signing loop makes are well formed.
TypeOK ==
    /\ TablesOK /\ MarksOK /\ MemoryOK /\ CallOK /\ ModeOK /\ InboxOK /\ WorldOK
    /\ pc \in {"down", "dead", "idle", "begin", "sign", "insert", "apply", "isolate",
               "filter", "anchor"}
    /\ notified \subseteq Instants
    /\ failures \in Nat

\* Every building's stored rows form one intact chain: no crash, failed write, retry,
\* redelivery or unknown building in the batch leaves a gap, a fork or a row signed
\* against a row that is not stored (_write's reason for signing inside the
\* transaction and applying the heads after it).
ChainsIntact == \A b \in Building : IntactChain(RowsOf(reading, b))

\* Within a building sequence order is time order, although readings arrive late,
\* twice and in any order, and batches are put back and written again.
SeqFollowsTime ==
    \A r, q \in reading :
        r.building_id = q.building_id /\ r.seq < q.seq => r.ts < q.ts

HoldsHead(k) ==
    \E r \in reading : /\ r.building_id = k.building_id
                       /\ r.seq = k.last_seq /\ r.sig = k.head_sig

\* Every checkpoint, in the database and in the file, names a row that is stored with
\* that signature: heads are anchored only once the rows they describe are committed.
AnchorsHold == \A k \in checkpoint \cup anchor : HoldsHead(k)

\* The detector's windows hold exactly the stored readings whenever no batch is in
\* flight: a batch that was not stored has left no trace in them.
DetectorInStep == pc \in {"idle", "begin"} => detector = Keys(reading)

\* The webhook is only ever handed an anomaly that is stored.
NotifiedStored == notified \subseteq anomaly

InBatch == IF pc \in {"begin", "sign", "insert", "isolate", "apply"} THEN Len(pending)
           ELSE IF pc = "filter" THEN Len(pending) + Len(todo) ELSE 0

\* Deliveries to this process that it still holds, stored or counted.
Accounted ==
    Len(queue) + Len(incoming) + InBatch + count.written + count.duplicates + count.rejected

Delivered == Len(arrived) - since

\* Every delivery to this process is waiting, in the batch being written, stored, or in
\* the counter that says why it is not, and in one of these only - but for the ones that
\* are discarded.  No reading vanishes without a number while writes succeed and every
\* building is known: a batch put back meanwhile, or a second write that fails or finds
\* only duplicates, is what it takes for `overflowed` to miss one.
EveryReadingAccounted ==
    Up => /\ Delivered = Accounted + count.lost
          /\ count.lost > count.overflowed => failures > 0 \/ count.rejected > 0

\* Delivery i was newer than anything this process had for its building.
InOrder(i) ==
    /\ arrived[i].ts > resumed[arrived[i].building_id].last_ts
    /\ \A k \in since+1..i-1 : arrived[k].building_id = arrived[i].building_id
                                   => arrived[k].ts < arrived[i].ts

Discards == count.lost + count.misjudged > 0

\* A reading is never overtaken: if a later reading of its building is stored, a
\* reading that arrived in order before it is stored too, however many writes failed
\* and were retried in between - as long as this process discards none.
NoOvertake ==
    Up /\ ~Discards =>
        \A i, j \in since+1..Len(arrived) :
            (/\ i < j /\ InOrder(i)
             /\ arrived[i].building_id = arrived[j].building_id
             /\ arrived[i].building_id \in InitialPortfolio
             /\ arrived[i].ts < arrived[j].ts
             /\ Key(arrived[j]) \in Keys(reading))
                => Key(arrived[i]) \in Keys(reading)

\* A queued reading of a building in the portfolio reaches the table (or a newer one
\* of its building is there already) unless the process goes down or readings are
\* discarded first: no reading of an unknown building in front of it, and no failed
\* write, blocks it for ever.
ReadingReachesTable ==
    \A r \in Reading :
        (r.building_id \in InitialPortfolio /\ \E i \in DOMAIN queue : queue[i] = r)
            ~> (~Up \/ Discards \/ \E q \in RowsOf(reading, r.building_id) : q.ts >= r.ts)
============================================================================

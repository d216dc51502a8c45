---------------------------- MODULE IngestProofs ----------------------------
(***************************************************************************)
(* Theorems about Ingest for every set of buildings and readings, every    *)
(* batch and queue size and every number of failures and restarts, and     *)
(* about what others see of its stores: they implement ReadingLog, and a   *)
(* verification request beside the ingester never raises a false alarm.    *)
(***************************************************************************)
EXTENDS Verify, IngestRefinesLog, IngestInvariant, IntegrityProofs, SequenceTheorems,
        FiniteSetTheorems, TLAPS

----------------------------------------------------------------------------
(* The operators the actions are built from *)

\* The fixed-precision power of a signed payload is a natural number.
LEMMA RoundingType ==
    ASSUME NEW kw \in Nat
    PROVE  kw_text(kw) \in Nat
  BY EncodingAssumption DEF kw_text

\* The whole seconds of an instant are a natural number.
LEMMA InstantType ==
    ASSUME NEW ts \in Nat
    PROVE  epoch_seconds(ts) \in Nat
  BY EncodingAssumption DEF epoch_seconds

\* sign maps a row and a signature to a signature.
LEMMA SignType ==
    ASSUME NEW row, row.building_id \in Building, row.ts \in Nat, row.kw \in Nat,
           row.source \in Source, row.seq \in Nat,
           NEW prev \in Signature
    PROVE  sign(row, prev) \in Signature
<1>1. canonical(row) \in Canonical
  BY RoundingType, InstantType DEF canonical, Canonical
<1> QED
  BY <1>1 DEF sign, Signature

\* What the row signed for a reading is, field by field.
LEMMA SignedRowIs ==
    ASSUME NEW r \in Reading, NEW head \in ChainState
    PROVE  LET row == SignedRow(r, head)
           IN  /\ row \in Row
               /\ row.building_id = r.building_id /\ row.ts = r.ts
               /\ row.seq = head.last_seq + 1
               /\ row.sig = sign(row, head.last_sig)
               /\ HeadAt(row) \in ChainState
<1> DEFINE bare == [building_id |-> r.building_id, ts |-> r.ts, kw |-> r.kw,
                    source |-> r.source, seq |-> head.last_seq + 1]
           row == SignedRow(r, head)
<1>1. /\ r.building_id \in Building /\ r.ts \in Nat /\ r.kw \in Nat
      /\ r.source \in Source
  BY IngestAssumption
<1>2. head.last_seq + 1 \in Nat /\ head.last_sig \in Signature
  BY DEF ChainState
<1>3. sign(bare, head.last_sig) \in Signature
  BY <1>1, <1>2, SignType
<1>4. row = [building_id |-> r.building_id, ts |-> r.ts, kw |-> r.kw,
             source |-> r.source, seq |-> head.last_seq + 1,
             sig |-> sign(bare, head.last_sig)]
  BY DEF SignedRow
<1>5. row \in Row
  BY <1>1, <1>2, <1>3, <1>4 DEF Row
<1>6. canonical(row) = canonical(bare)
  BY <1>4 DEF canonical
<1>7. row.sig = sign(row, head.last_sig)
  BY <1>4, <1>6 DEF sign
<1>8. HeadAt(row) \in ChainState
  BY <1>5 DEF HeadAt, ChainState, Row
<1> QED
  BY <1>4, <1>5, <1>7, <1>8

\* The chain state of a building without rows is one.
LEMMA NoChainType == NoChain \in ChainState /\ NoChains \in [Building -> ChainState]
  BY DEF NoChain, NoChains, ChainState, GENESIS, Signature

\* Primary keys are pairs of a building and an instant.
LEMMA KeysType ==
    ASSUME NEW S, \A r \in S : r.building_id \in Building /\ r.ts \in Nat
    PROVE  Keys(S) \subseteq Instants
  BY DEF Keys, Key, Instants

\* The anomalies of a batch carry keys of its rows.
LEMMA FlaggedType ==
    ASSUME NEW S \in SUBSET Row
    PROVE  Flagged(S) \subseteq Keys(S) /\ Flagged(S) \subseteq Instants
<1>1. \A r \in S : r.building_id \in Building /\ r.ts \in Nat
  BY DEF Row
<1>2. Keys(S) \subseteq Instants
  BY <1>1, KeysType
<1>3. Flagged(S) \subseteq Keys(S)
  <2>1. SUFFICES ASSUME NEW k \in Flagged(S)
                 PROVE  k \in Keys(S)
    OBVIOUS
  <2>2. PICK r \in S : k = Key(r)
    BY DEF Flagged
  <2> QED
    BY <2>2 DEF Keys
<1> QED
  BY <1>2, <1>3

\* Putting a batch back leaves a queue of readings.
LEMMA RequeueType ==
    ASSUME NEW s \in Seq(Reading), NEW q \in Seq(Reading)
    PROVE  Requeue(s, q) \in Seq(Reading)
<1>1. s \o q \in Seq(Reading)
  OBVIOUS
<1> QED
  BY <1>1, IngestAssumption DEF Requeue

\* load_chain_heads, where every building with rows has a highest one: the head it
\* finds continues the stored chain.
LEMMA StoredHeadIs ==
    ASSUME TypeOK, HasTops, NEW b \in Building
    PROVE  StoredHead(b) \in ChainState /\ HeadOf(StoredHead(b), b, reading)
<1> DEFINE mine == RowsOf(reading, b)
<1>1. CASE mine = {}
  BY <1>1, NoChainType DEF StoredHead, HeadOf
<1>2. CASE mine # {}
  <2> DEFINE top == CHOOSE r \in mine : \A q \in mine : q.seq <= r.seq
  <2>1. top \in mine /\ \A q \in mine : q.seq <= top.seq
    BY <1>2 DEF HasTops, IsTop
  <2>2. StoredHead(b) = HeadAt(top)
    BY <1>2 DEF StoredHead, HeadAt
  <2>3. top \in Row
    BY <2>1 DEF RowsOf, TypeOK, TablesOK
  <2>4. HeadAt(top) \in ChainState
    BY <2>3 DEF HeadAt, ChainState, Row
  <2> QED
    BY <2>1, <2>2, <2>4 DEF HeadOf, IsTop
<1> QED
  BY <1>1, <1>2

----------------------------------------------------------------------------
(* Type correctness, one step per action.  Start needs a highest row to    *)
(* exist and ApplyHeads a finite batch, which is why the type invariant is *)
(* not inductive alone.                                                    *)


\* A group of variables that a step leaves alone keeps its type.
LEMMA Untouched ==
    /\ TablesOK /\ UNCHANGED tables => TablesOK'
    /\ MarksOK /\ UNCHANGED marks => MarksOK'
    /\ MemoryOK /\ UNCHANGED memory => MemoryOK'
    /\ CallOK /\ UNCHANGED call => CallOK'
    /\ ModeOK /\ UNCHANGED mode => ModeOK'
    /\ InboxOK /\ UNCHANGED inbox => InboxOK'
    /\ WorldOK /\ UNCHANGED world => WorldOK'
<1>1. TablesOK /\ UNCHANGED tables => TablesOK'
  BY DEF TablesOK, tables
<1>2. MarksOK /\ UNCHANGED marks => MarksOK'
  BY DEF MarksOK, marks
<1>3. MemoryOK /\ UNCHANGED memory => MemoryOK'
  BY DEF MemoryOK, memory
<1>4. CallOK /\ UNCHANGED call => CallOK'
  BY DEF CallOK, call
<1>5. ModeOK /\ UNCHANGED mode => ModeOK'
  BY DEF ModeOK, mode
<1>6. InboxOK /\ UNCHANGED inbox => InboxOK'
  BY DEF InboxOK, inbox
<1>7. WorldOK /\ UNCHANGED world => WorldOK'
  BY DEF WorldOK, world
<1> QED
  BY <1>1, <1>2, <1>3, <1>4, <1>5, <1>6, <1>7

\* Between two calls of flush, and after going down, the variables are well formed.
LEMMA NoWriteType ==
    NoWrite => CallOK'
<1> SUFFICES ASSUME NoWrite PROVE CallOK'
  OBVIOUS
<1>1. heads' \in [Building -> ChainState]
  BY NoChainType DEF NoWrite
<1> QED
  BY <1>1 DEF NoWrite, CallOK

\* write_failures is cleared or counted; either way the loop's mode is one.
LEMMA NotesType ==
    ASSUME closing' \in {"no", "flush", "checkpoint", "exit"}, failing \in BOOLEAN,
           NoteSuccess \/ NoteFailure
    PROVE  ModeOK'
<1>1. failing' \in BOOLEAN
  BY Zenon DEF NoteSuccess, NoteFailure
<1> QED
  BY <1>1 DEF ModeOK

\* What a process that went down leaves behind is the initial memory.
LEMMA ForgetType ==
    Forget => (/\ MemoryOK /\ CallOK /\ ModeOK /\ InboxOK
               /\ unanchored = {} /\ pc = "down")'
<1> SUFFICES ASSUME Forget
             PROVE  (/\ MemoryOK /\ CallOK /\ ModeOK /\ InboxOK
                     /\ unanchored = {} /\ pc = "down")'
  OBVIOUS
<1>1. MemoryOK'
  BY NoChainType DEF Forget, MemoryOK
<1>2. CallOK'
  BY NoWriteType DEF Forget
<1>3. ModeOK'
  BY DEF Forget, ModeOK
<1>4. count' \in Counters
  BY DEF Forget, NoCounts, Counters
<1>5. InboxOK'
  BY <1>4 DEF Forget, InboxOK
<1> QED
  BY <1>1, <1>2, <1>3, <1>5 DEF Forget

\* The initial state is well typed.
LEMMA InitType == Init => TypeOK
<1> SUFFICES ASSUME Init PROVE TypeOK
  OBVIOUS
<1>1. TablesOK /\ MarksOK
  BY DEF Init, TablesOK, MarksOK
<1>2. MemoryOK
  BY NoChainType DEF Init, MemoryOK
<1>3. CallOK
  BY NoChainType DEF Init, CallOK
<1>4. ModeOK
  BY DEF Init, ModeOK
<1>5. count \in Counters
  BY DEF Init, NoCounts, Counters
<1>6. InboxOK
  BY <1>5 DEF Init, InboxOK
<1>7. WorldOK
  BY NoChainType, IngestAssumption DEF Init, WorldOK
<1> QED
  BY <1>1, <1>2, <1>3, <1>4, <1>6, <1>7 DEF Init, TypeOK

\* Counting keeps the counters natural numbers.
LEMMA CountType ==
    ASSUME NEW c \in Counters, NEW m \in Nat, NEW n \in Nat, NEW flag
    PROVE  /\ [c EXCEPT !.overflowed = IF flag THEN @ + 1 ELSE @] \in Counters
           /\ [c EXCEPT !.lost = @ + m] \in Counters
           /\ [c EXCEPT !.rejected = @ + 1, !.misjudged = IF flag THEN @ + 1 ELSE @]
                \in Counters
           /\ [c EXCEPT !.duplicates = IF flag THEN @ + m ELSE @,
                         !.lost = IF flag THEN @ ELSE @ + m] \in Counters
           /\ [c EXCEPT !.malformed = @ + 1, !.overflowed = IF flag THEN @ + 1 ELSE @]
                \in Counters
           /\ [c EXCEPT !.duplicates = @ + m, !.written = @ + n] \in Counters
<1>1. [c EXCEPT !.overflowed = IF flag THEN @ + 1 ELSE @] \in Counters
  BY DEF Counters
<1>2. [c EXCEPT !.lost = @ + m] \in Counters
  BY DEF Counters
<1>3. \A i, j \in Nat : /\ [c EXCEPT !.malformed = i, !.overflowed = j] \in Counters
                        /\ [c EXCEPT !.duplicates = i, !.written = j] \in Counters
                        /\ [c EXCEPT !.duplicates = i, !.lost = j] \in Counters
                        /\ [c EXCEPT !.rejected = i, !.misjudged = j] \in Counters
  BY DEF Counters
<1>4. /\ c.malformed + 1 \in Nat /\ c.rejected + 1 \in Nat
      /\ (IF flag THEN c.overflowed + 1 ELSE c.overflowed) \in Nat
      /\ (IF flag THEN c.misjudged + 1 ELSE c.misjudged) \in Nat
      /\ (IF flag THEN c.duplicates + m ELSE c.duplicates) \in Nat
      /\ (IF flag THEN c.lost ELSE c.lost + m) \in Nat
      /\ c.duplicates + m \in Nat /\ c.written + n \in Nat
  BY DEF Counters
<1>5. [c EXCEPT !.malformed = @ + 1, !.overflowed = IF flag THEN @ + 1 ELSE @] \in Counters
  BY <1>3, <1>4
<1>6. [c EXCEPT !.duplicates = @ + m, !.written = @ + n] \in Counters
  BY <1>3, <1>4
<1>7. [c EXCEPT !.duplicates = IF flag THEN @ + m ELSE @,
                !.lost = IF flag THEN @ ELSE @ + m] \in Counters
  BY <1>3, <1>4
<1>8. [c EXCEPT !.rejected = @ + 1, !.misjudged = IF flag THEN @ + 1 ELSE @] \in Counters
  BY <1>3, <1>4
<1> QED
  BY <1>1, <1>2, <1>5, <1>6, <1>7, <1>8

\* What an abandoned write discards is a number of readings.
LEMMA DiscardedType ==
    ASSUME pending \in Seq(Reading), queue \in Seq(Reading)
    PROVE  Discarded \in Nat
  BY IngestAssumption DEF Discarded

\* Taking the first reading off a sequence of readings.
LEMMA TailType ==
    ASSUME NEW s \in Seq(Reading), s # <<>>
    PROVE  Head(s) \in Reading /\ Tail(s) \in Seq(Reading)
  OBVIOUS

\* The rows of one checkpoint.
LEMMA RecordsType ==
    ASSUME chains \in [Building -> ChainState], now \in Nat
    PROVE  /\ CheckpointRecords \subseteq Checkpoint
           /\ { AnchorLineOf(k) : k \in CheckpointRecords } \subseteq AnchorLine
<1>1. CheckpointRecords \subseteq Checkpoint
  BY DEF CheckpointRecords, Checkpoint, ChainState
<1> QED
  BY <1>1 DEF AnchorLineOf, AnchorLine, Checkpoint

----------------------------------------------------------------------------
(* Type correctness, one step per action.  Start needs a highest row to    *)
(* exist and ApplyHeads a finite batch, which is why the type invariant is *)
(* not inductive alone.                                                    *)

\* Every step of the ingester keeps the types.
LEMMA TypeStep ==
    TypeOK /\ HasTops /\ IsFiniteSet(staged) /\ [Next]_vars => TypeOK'
<1> SUFFICES ASSUME TypeOK, HasTops, IsFiniteSet(staged), [Next]_vars
             PROVE  TypeOK'
  OBVIOUS
<1>t. /\ TablesOK /\ MarksOK /\ MemoryOK /\ CallOK /\ ModeOK /\ InboxOK /\ WorldOK
      /\ pc \in {"down", "dead", "idle", "begin", "sign", "insert", "apply", "isolate",
                 "filter", "anchor"}
      /\ notified \subseteq Instants /\ failures \in Nat
  BY DEF TypeOK
<1>c. closing \in {"no", "flush", "checkpoint", "exit"} /\ failing \in BOOLEAN
  BY <1>t DEF ModeOK
<1>1. ASSUME NEW r \in Reading, OnMessage(r)
      PROVE  TypeOK'
  <2>1. count' \in Counters
    BY <1>t, <1>1, CountType DEF OnMessage, InboxOK
  <2>2. InboxOK'
    BY <1>t, <1>1, <2>1 DEF OnMessage, InboxOK
  <2>3. WorldOK'
    BY <1>t, <1>1 DEF OnMessage, WorldOK
  <2> QED
    BY <1>t, <1>1, <2>2, <2>3, Untouched DEF OnMessage, TypeOK
<1>1a. CASE AppendReading
  <2>1. incoming[1] \in Reading
    BY <1>t, <1>1a DEF AppendReading, InboxOK
  <2>2. queue' \in Seq(Reading)
    <3>1. CASE Len(queue) = MaxQueued
      <4>1. queue # <<>>
        BY <1>t, <3>1, IngestAssumption DEF InboxOK
      <4>2. Tail(queue) \in Seq(Reading)
        BY <1>t, <4>1, TailType DEF InboxOK
      <4> QED
        BY <1>1a, <2>1, <3>1, <4>2 DEF AppendReading
    <3>2. CASE Len(queue) # MaxQueued
      BY <1>t, <1>1a, <2>1, <3>2 DEF AppendReading, InboxOK
    <3> QED
      BY <3>1, <3>2
  <2>3. count' \in Counters
    <3>1. [count EXCEPT !.lost = @ + 1] \in Counters
      BY <1>t, CountType DEF InboxOK
    <3> QED
      BY <1>t, <1>1a, <3>1 DEF AppendReading, InboxOK
  <2>4. InboxOK'
    BY <1>t, <1>1a, <2>2, <2>3 DEF AppendReading, InboxOK
  <2> QED
    BY <1>t, <1>1a, <2>4, Untouched DEF AppendReading, TypeOK
<1>2. CASE OnMalformed
  <2>1. count' \in Counters
    BY <1>t, <1>2, CountType DEF OnMalformed, InboxOK
  <2>2. InboxOK'
    BY <1>t, <1>2, <2>1 DEF OnMalformed, InboxOK
  <2> QED
    BY <1>t, <1>2, <2>2, Untouched DEF OnMalformed, TypeOK
<1>3. CASE Start
  <2>1. chains' \in [Building -> ChainState]
    BY <1>3, StoredHeadIs DEF Start
  <2>2. detector' \subseteq Instants
    BY <1>t, <1>3, KeysType DEF Start, TablesOK, Row
  <2>3. MemoryOK'
    BY <1>t, <1>3, <2>1, <2>2 DEF Start, MemoryOK, WorldOK
  <2>4. WorldOK'
    BY <1>t, <1>3, <2>1 DEF Start, WorldOK
  <2> QED
    BY <1>t, <1>3, <2>3, <2>4, Untouched DEF Start, TypeOK
<1>4. CASE StartFails
  BY <1>t, <1>4, Untouched DEF StartFails, TypeOK
<1>5. CASE FlushNothing
  <2>1. closing' \in {"no", "flush", "checkpoint", "exit"}
    BY <1>c, <1>5 DEF FlushNothing
  <2>2. ModeOK'
    BY <1>c, <1>5, <2>1, NotesType DEF FlushNothing
  <2> QED
    BY <1>t, <1>5, <2>2, Untouched DEF FlushNothing, TypeOK
<1>6. CASE TakeBatch
  <2>1. closing' \in {"no", "flush", "checkpoint", "exit"}
    BY <1>c, <1>6 DEF TakeBatch
  <2>2. ModeOK'
    BY <1>c, <1>6, <2>1 DEF TakeBatch, ModeOK
  <2>3. pending' \in Seq(Reading) /\ queue' \in Seq(Reading)
    BY <1>t, <1>6, IngestAssumption DEF TakeBatch, InboxOK
  <2>4. CallOK'
    BY <1>t, <1>6, <2>3 DEF TakeBatch, CallOK
  <2>5. InboxOK'
    BY <1>t, <1>6, <2>3 DEF TakeBatch, InboxOK
  <2> QED
    BY <1>t, <1>6, <2>2, <2>4, <2>5, Untouched DEF TakeBatch, TypeOK
<1>7. CASE BeginWrite
  <2>1. stored' \subseteq Instants
    <3>1. Keys(reading) \subseteq Instants
      BY <1>t, KeysType DEF TablesOK, Row
    <3> QED
      BY <1>7, <3>1 DEF BeginWrite, already_stored
  <2>2. CallOK'
    BY <1>t, <1>7, <2>1 DEF BeginWrite, CallOK, MemoryOK
  <2> QED
    BY <1>t, <1>7, <2>2, Untouched DEF BeginWrite, TypeOK
<1>8. CASE SignNext
  <2> DEFINE r == Head(todo)
             row == SignedRow(r, heads[r.building_id])
  <2>1. r \in Reading /\ Tail(todo) \in Seq(Reading)
    BY <1>t, <1>8, TailType DEF SignNext, CallOK
  <2>2. r.building_id \in Building
    BY <2>1, IngestAssumption
  <2>3. row \in Row /\ HeadAt(row) \in ChainState
    BY <1>t, <2>1, <2>2, SignedRowIs DEF CallOK
  <2>4. CallOK'
    <3>1. CASE IsDuplicate(r)
      BY <1>t, <1>8, <2>1, <3>1 DEF SignNext, CallOK
    <3>2. CASE ~IsDuplicate(r)
      BY <1>t, <1>8, <2>1, <2>3, <3>2 DEF SignNext, CallOK
    <3> QED
      BY <3>1, <3>2
  <2> QED
    BY <1>t, <1>8, <2>4, Untouched DEF SignNext, TypeOK
<1>9. CASE WriteNothing
  <2>1. count' \in Counters
    BY <1>t, <1>9, CountType DEF WriteNothing, InboxOK, CallOK
  <2>2. InboxOK'
    BY <1>t, <1>9, <2>1 DEF WriteNothing, InboxOK
  <2>3. ModeOK'
    BY <1>c, <1>9, NotesType DEF WriteNothing
  <2> QED
    BY <1>t, <1>9, <2>2, <2>3, NoWriteType, Untouched DEF WriteNothing, TypeOK
<1>10. CASE Score
  <2>1. Keys(staged) \subseteq Instants
    BY <1>t, KeysType DEF CallOK, Row
  <2>2. MemoryOK'
    BY <1>t, <1>10, <2>1 DEF Score, ScoreBatch, MemoryOK
  <2>3. CallOK'
    BY <1>t, <1>10 DEF Score, ScoreBatch, CallOK, MemoryOK
  <2> QED
    BY <1>t, <1>10, <2>2, <2>3, Untouched DEF Score, ScoreBatch, TypeOK
<1>11. CASE Commit
  <2>1. Flagged(staged) \subseteq Instants
    BY <1>t, FlaggedType DEF CallOK
  <2>2. TablesOK'
    BY <1>t, <1>11, <2>1 DEF Commit, TablesOK, CallOK, insert_ignore
  <2> QED
    BY <1>t, <1>11, <2>2, Untouched DEF Commit, TypeOK
<1>12. CASE ApplyHeads
  <2>1. Flagged(staged) \subseteq Instants
    BY <1>t, FlaggedType DEF CallOK
  <2>2. Cardinality(staged) \in Nat
    BY FS_CardinalityType
  <2>3. count' \in Counters
    BY <1>t, <1>12, <2>2, CountType DEF ApplyHeads, FlushReturns, InboxOK, CallOK
  <2>4. InboxOK'
    BY <1>t, <1>12, <2>3 DEF ApplyHeads, FlushReturns, InboxOK
  <2>5. MemoryOK'
    BY <1>t, <1>12 DEF ApplyHeads, FlushReturns, MemoryOK, CallOK
  <2>6. ModeOK'
    BY <1>c, <1>12, NotesType DEF ApplyHeads, FlushReturns
  <2> QED
    BY <1>t, <1>12, <2>1, <2>4, <2>5, <2>6, NoWriteType, Untouched
    DEF ApplyHeads, FlushReturns, TypeOK
<1>13. CASE Refuse
  <2>1. MemoryOK'
    BY <1>t, <1>13 DEF Refuse, RolledBack, MemoryOK, CallOK
  <2> QED
    BY <1>t, <1>13, <2>1, Untouched DEF Refuse, TypeOK
<1>14. ASSUME NEW ids \in SUBSET Building, AskKnown(ids), failures' \in Nat
       PROVE  TypeOK'
  <2>1. CallOK'
    BY <1>t, <1>14, NoChainType DEF AskKnown, CallOK
  <2> QED
    BY <1>t, <1>14, <2>1, Untouched DEF AskKnown, TypeOK
<1>15. CASE QueryKnown
  BY <1>t, <1>14, <1>15 DEF QueryKnown, WorldOK
<1>16. CASE QueryFails
  BY <1>t, <1>14, <1>16 DEF QueryFails
<1>17. CASE FilterNext
  <2>1. Head(todo) \in Reading /\ Tail(todo) \in Seq(Reading)
    BY <1>t, <1>17, TailType DEF FilterNext, CallOK
  <2>2. pending' \in Seq(Reading)
    <3>1. Keep(pending, Head(todo)) \in Seq(Reading)
      BY <1>t, <2>1 DEF Keep, CallOK
    <3> QED
      BY <1>t, <1>17, <3>1 DEF FilterNext, CallOK
  <2>3. CallOK'
    BY <1>t, <1>17, <2>1, <2>2 DEF FilterNext, CallOK
  <2>4. count' \in Counters
    BY <1>t, <1>17, CountType DEF FilterNext, InboxOK
  <2>5. InboxOK'
    BY <1>t, <1>17, <2>4 DEF FilterNext, InboxOK
  <2> QED
    BY <1>t, <1>17, <2>3, <2>5, Untouched DEF FilterNext, TypeOK
<1>18. CASE DropBatch
  <2>1. ModeOK'
    BY <1>c, <1>18, NotesType DEF DropBatch
  <2> QED
    BY <1>t, <1>18, <2>1, NoWriteType, Untouched DEF DropBatch, TypeOK
<1>19. CASE Rewrite
  <2>1. CallOK'
    BY <1>t, <1>19 DEF Rewrite, CallOK
  <2> QED
    BY <1>t, <1>19, <2>1, Untouched DEF Rewrite, TypeOK
<1>20. CASE WriteFails
  <2>1. queue' \in Seq(Reading)
    BY <1>t, <1>20, RequeueType DEF WriteFails, Abandon, InboxOK, CallOK
  <2>1a. Discarded \in Nat
    BY <1>t, DiscardedType DEF InboxOK, CallOK
  <2>1b. count' \in Counters
    BY <1>t, <1>20, <2>1a, CountType DEF WriteFails, Abandon, InboxOK
  <2>2. InboxOK'
    BY <1>t, <1>20, <2>1, <2>1b DEF WriteFails, InboxOK
  <2>3. MemoryOK'
    BY <1>t, <1>20 DEF WriteFails, Abandon, RolledBack, MemoryOK, CallOK
  <2>4. ModeOK'
    BY <1>c, <1>20, NotesType DEF WriteFails, Abandon
  <2> QED
    BY <1>t, <1>20, <2>2, <2>3, <2>4, NoWriteType, Untouched DEF WriteFails, Abandon, TypeOK
<1>21. CASE CheckpointDb
  <2>1. MarksOK'
    BY <1>t, <1>21, RecordsType DEF CheckpointDb, MarksOK, MemoryOK, WorldOK, insert_ignore
  <2> QED
    BY <1>t, <1>21, <2>1, Untouched DEF CheckpointDb, TypeOK
<1>22. CASE AppendAnchor
  <2>1. MarksOK'
    BY <1>t, <1>22 DEF AppendAnchor, MarksOK
  <2> QED
    BY <1>t, <1>22, <2>1, Untouched DEF AppendAnchor, TypeOK
<1>23. CASE CheckpointDone
  <2>1. last_checkpoint' \in Nat
    BY <1>t, <1>23, IngestAssumption DEF CheckpointDone, MemoryOK, WorldOK
  <2>2. MemoryOK'
    BY <1>t, <1>23, <2>1 DEF CheckpointDone, MemoryOK
  <2>3. ModeOK'
    BY <1>c, <1>23 DEF CheckpointDone, AfterCheckpoint, ModeOK
  <2> QED
    BY <1>t, <1>23, <2>2, <2>3, Untouched DEF CheckpointDone, TypeOK
<1>24. CASE CheckpointFails
  <2>1. closing' \in {"no", "flush", "checkpoint", "exit"}
    BY <1>c, <1>24 DEF CheckpointFails, AfterCheckpoint
  <2>2. ModeOK'
    BY <1>c, <1>24, <2>1, NotesType DEF CheckpointFails
  <2>3. MarksOK'
    BY <1>t, <1>24 DEF CheckpointFails, MarksOK
  <2> QED
    BY <1>t, <1>24, <2>2, <2>3, Untouched DEF CheckpointFails, TypeOK
<1>25. CASE Stop
  <2>1. ModeOK'
    BY <1>c, <1>25 DEF Stop, ModeOK
  <2>2. WorldOK'
    BY <1>t, <1>25 DEF Stop, WorldOK
  <2> QED
    BY <1>t, <1>25, <2>1, <2>2, Untouched DEF Stop, TypeOK
<1>26. CASE Exit
  <2>1. MarksOK'
    BY <1>t, <1>26, ForgetType DEF Exit, MarksOK
  <2> QED
    BY <1>t, <1>26, <2>1, ForgetType, Untouched DEF Exit, TypeOK
<1>27. CASE Crash
  <2>1. MarksOK'
    BY <1>t, <1>27, ForgetType DEF Crash, MarksOK
  <2>2. WorldOK'
    BY <1>t, <1>27 DEF Crash, WorldOK
  <2> QED
    BY <1>t, <1>27, <2>1, <2>2, ForgetType, Untouched DEF Crash, TypeOK
<1>28. ASSUME NEW b \in Building, AddBuilding(b)
       PROVE  TypeOK'
  <2>1. WorldOK'
    BY <1>t, <1>28 DEF AddBuilding, WorldOK
  <2> QED
    BY <1>t, <1>28, <2>1, Untouched DEF AddBuilding, TypeOK
<1>29. CASE Tick
  <2>1. WorldOK'
    BY <1>t, <1>29 DEF Tick, WorldOK
  <2> QED
    BY <1>t, <1>29, <2>1, Untouched DEF Tick, TypeOK
<1>30. CASE UNCHANGED vars
  BY <1>t, <1>30, Untouched DEF vars, TypeOK
<1> QED
  BY <1>1, <1>1a, <1>2, <1>3, <1>4, <1>5, <1>6, <1>7, <1>8, <1>9, <1>10, <1>11, <1>12, <1>13,
     <1>15, <1>16, <1>17, <1>18, <1>19, <1>20, <1>21, <1>22, <1>23, <1>24, <1>25, <1>26,
     <1>27, <1>28, <1>29, <1>30 DEF Next, LoopStep, Failure

----------------------------------------------------------------------------
(* The chain: a row signed from the head of a chain continues it.          *)

\* Every row of the head's building lies at or before the head.
LEMMA HeadBounds ==
    ASSUME NEW S \in SUBSET Row, Chained(S), NEW b \in Building, NEW h \in ChainState,
           HeadOf(h, b, S), NEW q \in RowsOf(S, b)
    PROVE  q.seq <= h.last_seq /\ q.ts <= h.last_ts
<1>1. PICK t \in RowsOf(S, b) : IsTop(t, RowsOf(S, b)) /\ h = HeadAt(t)
  BY DEF HeadOf
<1>2. q.seq <= t.seq /\ h.last_seq = t.seq /\ h.last_ts = t.ts
  BY <1>1 DEF IsTop, HeadAt
<1>3. /\ q \in S /\ t \in S /\ q.building_id = t.building_id
      /\ q.seq \in Nat /\ t.seq \in Nat /\ q.ts \in Nat /\ t.ts \in Nat
  BY DEF RowsOf, Row
<1>4. CASE q.seq = t.seq
  BY <1>2, <1>3, <1>4 DEF Chained
<1>5. CASE q.seq < t.seq
  BY <1>2, <1>3, <1>5 DEF Chained
<1> QED
  BY <1>2, <1>3, <1>4, <1>5

\* A row stays linked when rows are added.
LEMMA LinkedGrows ==
    ASSUME NEW A, NEW B, A \subseteq B, NEW q, Linked(A, q)
    PROVE  Linked(B, q)
  BY DEF Linked

\* One turn of the signing loop: the new row extends its building's chain, becomes
\* its head, and leaves the other buildings' chains alone.
LEMMA SigningContinues ==
    ASSUME NEW S \in SUBSET Row, Chained(S), NEW r \in Reading, NEW h \in ChainState,
           HeadOf(h, r.building_id, S), ~(r.ts <= h.last_ts)
    PROVE  LET row == SignedRow(r, h)
               T   == S \cup {row}
           IN  /\ Chained(T)
               /\ HeadOf(HeadAt(row), r.building_id, T)
               /\ \A c \in Building : \A g : c # r.building_id /\ HeadOf(g, c, S)
                                               => HeadOf(g, c, T)
<1> DEFINE b   == r.building_id
           row == SignedRow(r, h)
           T   == S \cup {row}
<1>1. b \in Building /\ r.ts \in Nat
  BY IngestAssumption
<1>2. /\ row \in Row /\ row.building_id = b /\ row.ts = r.ts
      /\ row.seq = h.last_seq + 1 /\ row.sig = sign(row, h.last_sig)
  BY SignedRowIs
<1>3. h.last_seq \in Nat \cup {-1} /\ h.last_ts \in Nat \cup {-1}
  BY DEF ChainState
<1> HIDE DEF row
<1>4. \A q \in S : q.building_id = b => q.seq < row.seq /\ q.ts < row.ts
  <2>1. SUFFICES ASSUME NEW q \in S, q.building_id = b
                 PROVE  q.seq < row.seq /\ q.ts < row.ts
    OBVIOUS
  <2>2. q.seq <= h.last_seq /\ q.ts <= h.last_ts
    BY <1>1, <2>1, HeadBounds DEF RowsOf
  <2>3. q.seq \in Nat /\ q.ts \in Nat
    BY <2>1 DEF Row
  <2> QED
    BY <1>1, <1>2, <1>3, <2>2, <2>3
<1>5. \A q \in T : q.seq \in Nat /\ q.ts \in Nat
  BY <1>2 DEF Row
<1>6. Linked(RowsOf(T, b), row)
  <2>1. CASE RowsOf(S, b) = {} /\ h = NoChain
    BY <1>2, <2>1 DEF Linked, NoChain, GENESIS
  <2>2. ASSUME NEW t \in RowsOf(S, b), h = HeadAt(t)
        PROVE  Linked(RowsOf(T, b), row)
    <3>1. t \in RowsOf(T, b) /\ t.seq \in Nat
      BY <2>2 DEF RowsOf, Row
    <3>2. row.seq = t.seq + 1 /\ row.sig = sign(row, t.sig)
      BY <1>2, <2>2 DEF HeadAt
    <3> QED
      BY <3>1, <3>2 DEF Linked
  <2> QED
    BY <2>1, <2>2 DEF HeadOf
<1>7. \A q \in S : Linked(RowsOf(T, q.building_id), q)
  <2>1. SUFFICES ASSUME NEW q \in S
                 PROVE  Linked(RowsOf(T, q.building_id), q)
    OBVIOUS
  <2>2. Linked(RowsOf(S, q.building_id), q)
    BY DEF Chained
  <2>3. RowsOf(S, q.building_id) \subseteq RowsOf(T, q.building_id)
    BY DEF RowsOf
  <2> QED
    BY <2>2, <2>3, LinkedGrows
<1>8. \A q \in T : Linked(RowsOf(T, q.building_id), q)
  BY <1>2, <1>6, <1>7
<1>9. Chained(T)
  <2>1. \A p, q \in T : p.building_id = q.building_id /\ p.seq = q.seq => p = q
    BY <1>2, <1>4, <1>5 DEF Chained
  <2>2. \A p, q \in T : p.building_id = q.building_id /\ p.seq < q.seq => p.ts < q.ts
    BY <1>2, <1>4, <1>5 DEF Chained
  <2> QED
    BY <1>8, <2>1, <2>2 DEF Chained
<1>10. HeadOf(HeadAt(row), b, T)
  <2>1. row \in RowsOf(T, b)
    BY <1>2 DEF RowsOf
  <2>2. \A q \in RowsOf(T, b) : q.seq <= row.seq
    BY <1>4, <1>5 DEF RowsOf
  <2> QED
    BY <2>1, <2>2 DEF HeadOf, IsTop
<1>11. ASSUME NEW c \in Building, NEW g, c # b, HeadOf(g, c, S)
       PROVE  HeadOf(g, c, T)
  <2>1. RowsOf(T, c) = RowsOf(S, c)
    BY <1>2, <1>11 DEF RowsOf
  <2> QED
    BY <1>11, <2>1 DEF HeadOf
<1> QED
  BY <1>9, <1>10, <1>11 DEF row

\* A batch signed on top of the table conflicts with no stored row: the insert that
\* ignores conflicts stores all of it.
LEMMA NothingIgnored ==
    ASSUME TypeOK, Chained(reading \cup staged)
    PROVE  insert_ignore(reading, staged) = reading \cup staged
<1>1. SUFFICES ASSUME NEW r \in staged, Key(r) \in Keys(reading)
               PROVE  r \in reading
  BY DEF insert_ignore
<1>2. PICK q \in reading : Key(q) = Key(r)
  BY <1>1 DEF Keys
<1>3. q.building_id = r.building_id /\ q.ts = r.ts
  BY <1>2 DEF Key
<1>4. r.seq \in Nat /\ q.seq \in Nat /\ r.ts \in Nat /\ q.ts \in Nat
  BY DEF TypeOK, TablesOK, CallOK, Row
<1>5. r.seq = q.seq
  BY <1>3, <1>4 DEF Chained
<1> QED
  BY <1>3, <1>5 DEF Chained

----------------------------------------------------------------------------
(* The invariant of a write in flight is preserved.                        *)

\* Steps that touch neither rows nor heads.
LEMMA ChainStill ==
    ASSUME ChainInv, UNCHANGED <<reading, chains, staged, heads, pc>>
    PROVE  ChainInv'
  BY DEF ChainInv, Up, HasTops

\* Steps that leave a write, begin one or do not belong to one, with the table and
\* the heads in memory as they were.
LEMMA ChainQuiet ==
    ASSUME ChainInv, UNCHANGED reading, pc' \notin {"sign", "insert", "apply"},
           ~Up' \/ (Up /\ pc # "apply" /\ UNCHANGED chains)
    PROVE  ChainInv'
  BY DEF ChainInv, Up, HasTops

\* Every step keeps the stored and the staged chains and their heads together.
LEMMA ChainStep ==
    IInv /\ [Next]_vars => ChainInv'
<1> SUFFICES ASSUME TypeOK, ChainInv, [Next]_vars
             PROVE  ChainInv'
  BY DEF IInv, InFlightConsistent
<1> USE DEF tables, marks, memory, call, mode, inbox, world
<1>1. ASSUME NEW r \in Reading, OnMessage(r)
      PROVE  ChainInv'
  BY <1>1, ChainStill DEF OnMessage
<1>1a. CASE AppendReading
  BY <1>1a, ChainStill DEF AppendReading
<1>2. CASE OnMalformed
  BY <1>2, ChainStill DEF OnMalformed
<1>3. CASE Start
  <2>1. HeadsOf(chains', reading)
    BY <1>3, StoredHeadIs DEF Start, HeadsOf, ChainInv
  <2> QED
    BY <1>3, <2>1 DEF Start, ChainInv, Up, HasTops
<1>4. CASE StartFails
  BY <1>4, ChainQuiet DEF StartFails, Up
<1>5. CASE FlushNothing
  BY <1>5, ChainStill DEF FlushNothing
<1>6. CASE TakeBatch
  BY <1>6, ChainQuiet DEF TakeBatch, Up
<1>7. CASE BeginWrite
  <2>1. HeadsOf(chains, reading) /\ Chained(reading)
    BY <1>7 DEF BeginWrite, ChainInv, Up
  <2>2. reading' \cup staged' = reading /\ heads' = chains
    BY <1>7 DEF BeginWrite
  <2> QED
    BY <1>7, <2>1, <2>2 DEF BeginWrite, ChainInv, Up, HasTops
<1>8. CASE SignNext
  <2> DEFINE r == Head(todo)
             row == SignedRow(r, heads[r.building_id])
             S == reading \cup staged
  <2>1. r \in Reading
    BY <1>8, TailType DEF SignNext, TypeOK, CallOK
  <2>2. r.building_id \in Building
    BY <2>1, IngestAssumption
  <2>3. Chained(S) /\ HeadsOf(heads, S) /\ S \subseteq Row
    BY <1>8 DEF SignNext, ChainInv, TypeOK, TablesOK, CallOK
  <2>4. heads \in [Building -> ChainState]
    BY DEF TypeOK, CallOK
  <2>5. Chained(reading' \cup staged') /\ HeadsOf(heads', reading' \cup staged')
    <3>1. CASE IsDuplicate(r)
      BY <1>8, <2>3, <3>1 DEF SignNext
    <3>2. CASE ~IsDuplicate(r)
      <4>1. /\ ~(r.ts <= heads[r.building_id].last_ts)
            /\ HeadOf(heads[r.building_id], r.building_id, S)
            /\ heads[r.building_id] \in ChainState
        BY <2>2, <2>3, <2>4, <3>2 DEF IsDuplicate, HeadsOf
      <4>2. /\ Chained(S \cup {row})
            /\ HeadOf(HeadAt(row), r.building_id, S \cup {row})
            /\ \A c \in Building : \A g : c # r.building_id /\ HeadOf(g, c, S)
                                             => HeadOf(g, c, S \cup {row})
        BY <2>1, <2>3, <4>1, SigningContinues
      <4>3. /\ reading' \cup staged' = S \cup {row}
            /\ heads' = [heads EXCEPT ![r.building_id] = HeadAt(row)]
        BY <1>8, <3>2 DEF SignNext
      <4>4. HeadsOf(heads', S \cup {row})
        BY <2>2, <2>3, <2>4, <4>2, <4>3 DEF HeadsOf
      <4> QED
        BY <4>2, <4>3, <4>4
    <3> QED
      BY <3>1, <3>2
  <2> QED
    BY <1>8, <2>5 DEF SignNext, ChainInv, Up, HasTops
<1>9. CASE WriteNothing
  BY <1>9, ChainQuiet DEF WriteNothing, Up
<1>10. CASE Score
  BY <1>10 DEF Score, ScoreBatch, ChainInv, Up, HasTops
<1>11. CASE Commit
  <2>1. Chained(reading \cup staged) /\ HeadsOf(heads, reading \cup staged)
    BY <1>11 DEF Commit, ChainInv
  <2>2. reading' = reading \cup staged /\ heads' = heads /\ pc' = "apply"
    BY <1>11, <2>1, NothingIgnored DEF Commit
  <2>3. HasTops'
    BY <2>1, <2>2 DEF HasTops, HeadsOf, HeadOf
  <2> QED
    BY <2>1, <2>2, <2>3 DEF ChainInv
<1>12. CASE ApplyHeads
  BY <1>12 DEF ApplyHeads, FlushReturns, ChainInv, Up, HasTops
<1>13. CASE Refuse
  BY <1>13, ChainQuiet DEF Refuse, Up
<1>14. CASE QueryKnown \/ QueryFails
  BY <1>14, ChainQuiet DEF QueryKnown, QueryFails, AskKnown, Up
<1>15. CASE FilterNext
  BY <1>15, ChainStill DEF FilterNext
<1>16. CASE DropBatch
  BY <1>16, ChainQuiet DEF DropBatch, Up
<1>17. CASE Rewrite
  BY <1>17, ChainQuiet DEF Rewrite, Up
<1>18. CASE WriteFails
  BY <1>18, ChainQuiet DEF WriteFails, Abandon, Up
<1>19. CASE CheckpointDb
  BY <1>19, ChainQuiet DEF CheckpointDb, CheckpointDue, Up
<1>20. CASE AppendAnchor
  BY <1>20, ChainStill DEF AppendAnchor
<1>21. CASE CheckpointDone
  BY <1>21, ChainQuiet DEF CheckpointDone, Up
<1>22. CASE CheckpointFails
  BY <1>22, ChainQuiet DEF CheckpointFails, CheckpointDue, Up
<1>23. CASE Stop
  BY <1>23, ChainStill DEF Stop
<1>24. CASE Exit
  BY <1>24, ChainQuiet DEF Exit, Forget, Up
<1>25. CASE Crash
  BY <1>25, ChainQuiet DEF Crash, Forget, Up
<1>26. ASSUME NEW b \in Building, AddBuilding(b)
       PROVE  ChainInv'
  BY <1>26, ChainStill DEF AddBuilding
<1>27. CASE Tick
  BY <1>27, ChainStill DEF Tick
<1>28. CASE UNCHANGED vars
  BY <1>28, ChainStill DEF vars
<1> QED
  BY <1>1, <1>1a, <1>2, <1>3, <1>4, <1>5, <1>6, <1>7, <1>8, <1>9, <1>10, <1>11, <1>12, <1>13,
     <1>14, <1>15, <1>16, <1>17, <1>18, <1>19, <1>20, <1>21, <1>22, <1>23, <1>24, <1>25,
     <1>26, <1>27, <1>28 DEF Next, LoopStep, Failure

\* No step removes a row, and only write_checkpoint makes new marks.
LEMMA RowsStay ==
    ASSUME [Next]_vars
    PROVE  /\ reading \subseteq reading' /\ anomaly \subseteq anomaly'
           /\ \/ CheckpointDb
              \/ checkpoint' \cup anchor' \cup unanchored'
                     \subseteq checkpoint \cup anchor \cup unanchored
<1> USE DEF tables, marks
<1>1. CASE Commit
  BY <1>1 DEF Commit, insert_ignore
<1>2. CASE AppendAnchor
  BY <1>2 DEF AppendAnchor
<1>3. CASE CheckpointDb
  BY <1>3 DEF CheckpointDb
<1>4. CASE CheckpointFails
  BY <1>4 DEF CheckpointFails
<1>5. CASE Exit \/ Crash
  BY <1>5 DEF Exit, Crash, Forget
<1>6. CASE UNCHANGED <<tables, marks>>
  BY <1>6
<1>7. CASE \/ \E r \in Reading : OnMessage(r)
           \/ \E b \in Building : AddBuilding(b)
           \/ AppendReading \/ OnMalformed \/ Start \/ StartFails \/ Stop \/ Tick \/ UNCHANGED vars
  BY <1>6, <1>7 DEF OnMessage, AddBuilding, AppendReading, OnMalformed, Start, StartFails, Stop, Tick, vars
<1>8. CASE \/ TakeBatch \/ FlushNothing \/ BeginWrite \/ SignNext \/ WriteNothing \/ Score
           \/ ApplyHeads \/ Refuse
  BY <1>6, <1>8 DEF TakeBatch, FlushNothing, BeginWrite, SignNext, WriteNothing, Score,
                    ScoreBatch, ApplyHeads, FlushReturns, Refuse
<1>9. CASE \/ QueryKnown \/ QueryFails \/ FilterNext \/ DropBatch \/ Rewrite \/ WriteFails
           \/ CheckpointDone
  BY <1>6, <1>9 DEF QueryKnown, QueryFails, AskKnown, FilterNext, DropBatch, Rewrite,
                    WriteFails, CheckpointDone
<1> QED
  BY <1>1, <1>2, <1>3, <1>4, <1>5, <1>7, <1>8, <1>9 DEF Next, LoopStep, Failure

\* Every step keeps every mark, written or about to be, on a stored row.
LEMMA AnchorStep ==
    IInv /\ [Next]_vars => AnchorInv'
<1> SUFFICES ASSUME TypeOK, ChainInv, AnchorInv, [Next]_vars
             PROVE  AnchorInv'
  BY DEF IInv, InFlightConsistent
<1>1. ASSUME NEW k, HoldsHead(k)
      PROVE  HoldsHead(k)'
  BY <1>1, RowsStay DEF HoldsHead
<1>2. CASE CheckpointDb
  <2>1. ASSUME NEW b \in Building, chains[b].last_seq >= 0
        PROVE  \E r \in reading : /\ r.building_id = b /\ r.seq = chains[b].last_seq
                                  /\ r.sig = chains[b].last_sig
    <3>1. HeadOf(chains[b], b, reading)
      BY <1>2 DEF CheckpointDb, CheckpointDue, ChainInv, Up, HeadsOf
    <3>2. chains[b] # NoChain
      BY <2>1 DEF NoChain
    <3>3. PICK r \in RowsOf(reading, b) : chains[b] = HeadAt(r)
      BY <3>1, <3>2 DEF HeadOf
    <3> QED
      BY <3>3 DEF RowsOf, HeadAt
  <2>2. \A k \in CheckpointRecords : HoldsHead(k)
    BY <2>1 DEF CheckpointRecords, HoldsHead
  <2>3. \A k \in { AnchorLineOf(j) : j \in CheckpointRecords } : HoldsHead(k)
    BY <2>2 DEF AnchorLineOf, HoldsHead
  <2>4. \A k \in checkpoint' \cup anchor' \cup unanchored' : HoldsHead(k)
    BY <1>2, <2>2, <2>3 DEF CheckpointDb, AnchorInv, insert_ignore
  <2> QED
    BY <1>1, <2>4 DEF AnchorInv
<1>3. CASE checkpoint' \cup anchor' \cup unanchored'
               \subseteq checkpoint \cup anchor \cup unanchored
  BY <1>1, <1>3 DEF AnchorInv
<1> QED
  BY <1>2, <1>3, RowsStay

\* The keys of two sets of rows together.
LEMMA KeysUnion ==
    ASSUME NEW S, NEW T
    PROVE  Keys(S \cup T) = Keys(S) \cup Keys(T)
  BY DEF Keys

\* Steps outside the insert that leave the table and the detector alone.
LEMMA DetectorQuiet ==
    ASSUME DetectorInv, UNCHANGED reading, pc' # "insert",
           ~Up' \/ (Up /\ pc # "insert" /\ UNCHANGED detector)
    PROVE  DetectorInv'
  BY DEF DetectorInv, Up, Keys

\* Steps of other threads leave the detector's relation to the table alone.
LEMMA DetectorStill ==
    ASSUME DetectorInv, UNCHANGED <<reading, detector, undo, staged, pc>>
    PROVE  DetectorInv'
  BY DEF DetectorInv, Up, Keys

\* The snapshot that rollback_on_error puts back is the table.
LEMMA RollBackRestores ==
    ASSUME DetectorInv, Up
    PROVE  RolledBack = Keys(reading)
  BY DEF DetectorInv, RolledBack

\* Every step keeps the detector's windows and its rollback snapshot in step.
LEMMA DetectorStep ==
    IInv /\ [Next]_vars => DetectorInv'
<1> SUFFICES ASSUME TypeOK, ChainInv, DetectorInv, [Next]_vars
             PROVE  DetectorInv'
  BY DEF IInv, InFlightConsistent
<1> USE DEF tables, marks, memory, call, mode, inbox, world
<1>1. CASE \/ \E r \in Reading : OnMessage(r)
           \/ \E b \in Building : AddBuilding(b)
           \/ AppendReading \/ OnMalformed \/ FlushNothing \/ AppendAnchor \/ Stop \/ Tick \/ UNCHANGED vars
  BY <1>1, DetectorStill DEF OnMessage, AddBuilding, AppendReading, OnMalformed, FlushNothing,
                             AppendAnchor, Stop, Tick, vars
<1>2. CASE Start
  BY <1>2 DEF Start, DetectorInv, Keys
<1>3. CASE StartFails \/ Exit \/ Crash
  BY <1>3, DetectorQuiet DEF StartFails, Exit, Crash, Forget, Up
<1>4. CASE TakeBatch \/ BeginWrite \/ SignNext \/ WriteNothing \/ ApplyHeads
  BY <1>4, DetectorQuiet DEF TakeBatch, BeginWrite, SignNext, WriteNothing, ApplyHeads, Up
<1>5. CASE QueryKnown \/ QueryFails \/ FilterNext \/ DropBatch \/ Rewrite
  BY <1>5, DetectorQuiet DEF QueryKnown, QueryFails, AskKnown, FilterNext, DropBatch,
                             Rewrite, Up
<1>6. CASE CheckpointDb \/ CheckpointDone \/ CheckpointFails
  BY <1>6, DetectorQuiet DEF CheckpointDb, CheckpointDone, CheckpointFails, CheckpointDue, Up
<1>7. CASE Score
  BY <1>7 DEF Score, ScoreBatch, DetectorInv, Up, Keys
<1>8. CASE Commit
  <2>1. reading' = reading \cup staged
    BY <1>8, NothingIgnored DEF Commit, ChainInv
  <2>2. detector' = Keys(reading')
    BY <1>8, <2>1, KeysUnion DEF Commit, DetectorInv
  <2> QED
    BY <1>8, <2>2 DEF Commit, DetectorInv, Keys
<1>9. CASE Refuse
  BY <1>9, RollBackRestores DEF Refuse, DetectorInv, Up, Keys
<1>10. CASE WriteFails
  BY <1>10, RollBackRestores DEF WriteFails, Abandon, DetectorInv, Up, Keys
<1> QED
  BY <1>1, <1>2, <1>3, <1>4, <1>5, <1>6, <1>7, <1>8, <1>9, <1>10 DEF Next, LoopStep, Failure

\* Steps that neither tell the webhook anything nor commit a batch.
LEMMA NotifyQuiet ==
    ASSUME NotifyInv, UNCHANGED notified, anomaly \subseteq anomaly',
           pc' # "apply" \/ UNCHANGED <<pc, staged>>
    PROVE  NotifyInv'
<1>1. CASE pc' # "apply"
  BY <1>1 DEF NotifyInv
<1>2. CASE UNCHANGED <<pc, staged>>
  BY <1>2 DEF NotifyInv, Flagged, Key
<1> QED
  BY <1>1, <1>2

\* Every step keeps what the webhook was told among what is stored.
LEMMA NotifyStep ==
    IInv /\ [Next]_vars => NotifyInv'
<1> SUFFICES ASSUME NotifyInv, [Next]_vars
             PROVE  NotifyInv'
  BY DEF IInv, InFlightConsistent
<1> USE RowsStay DEF call
<1>1. CASE \/ \E r \in Reading : OnMessage(r)
           \/ \E b \in Building : AddBuilding(b)
           \/ AppendReading \/ OnMalformed \/ FlushNothing \/ AppendAnchor \/ Stop \/ Tick \/ UNCHANGED vars
  BY <1>1, NotifyQuiet DEF OnMessage, AddBuilding, AppendReading, OnMalformed, FlushNothing,
                           AppendAnchor, Stop, Tick, vars
<1>2. CASE Start \/ StartFails \/ Exit \/ Crash
  BY <1>2, NotifyQuiet DEF Start, StartFails, Exit, Crash, Forget
<1>3. CASE TakeBatch \/ BeginWrite \/ SignNext \/ WriteNothing \/ Score \/ Refuse
  BY <1>3, NotifyQuiet DEF TakeBatch, BeginWrite, SignNext, WriteNothing, Score,
                           ScoreBatch, Refuse
<1>4. CASE QueryKnown \/ QueryFails \/ FilterNext \/ DropBatch \/ Rewrite \/ WriteFails
  BY <1>4, NotifyQuiet DEF QueryKnown, QueryFails, AskKnown, FilterNext, DropBatch,
                           Rewrite, WriteFails, Abandon
<1>5. CASE CheckpointDb \/ CheckpointDone \/ CheckpointFails
  BY <1>5, NotifyQuiet DEF CheckpointDb, CheckpointDone, CheckpointFails
<1>6. CASE Commit
  <2>1. Flagged(staged) \subseteq anomaly' /\ staged' = staged /\ notified' = notified
    BY <1>6 DEF Commit
  <2> QED
    BY <2>1 DEF NotifyInv, Flagged, Key
<1>7. CASE ApplyHeads
  BY <1>7 DEF ApplyHeads, FlushReturns, NotifyInv, tables
<1> QED
  BY <1>1, <1>2, <1>3, <1>4, <1>5, <1>6, <1>7 DEF Next, LoopStep, Failure

\* A batch stays finite.
LEMMA FiniteStep ==
    IsFiniteSet(staged) /\ [Next]_vars => IsFiniteSet(staged')
<1> SUFFICES ASSUME IsFiniteSet(staged), [Next]_vars
             PROVE  IsFiniteSet(staged')
  OBVIOUS
<1> USE DEF call
<1>1. CASE staged' \in {staged, {}}
  BY <1>1, FS_EmptySet
<1>2. CASE SignNext
  BY <1>2, FS_AddElement DEF SignNext
<1>3. CASE \/ \E r \in Reading : OnMessage(r)
           \/ \E b \in Building : AddBuilding(b)
           \/ AppendReading \/ OnMalformed \/ Start \/ StartFails \/ Stop \/ Tick \/ UNCHANGED vars
           \/ Exit \/ Crash
  BY <1>1, <1>3 DEF OnMessage, AddBuilding, AppendReading, OnMalformed, Start, StartFails, Stop, Tick,
                    vars, Exit, Crash, Forget, NoWrite
<1>4. CASE \/ TakeBatch \/ FlushNothing \/ BeginWrite \/ WriteNothing \/ Score \/ Commit
           \/ ApplyHeads \/ Refuse
  BY <1>1, <1>4 DEF TakeBatch, FlushNothing, BeginWrite, WriteNothing, Score, ScoreBatch,
                    Commit, ApplyHeads, FlushReturns, Refuse, NoWrite
<1>5. CASE \/ QueryKnown \/ QueryFails \/ FilterNext \/ DropBatch \/ Rewrite \/ WriteFails
           \/ CheckpointDb \/ AppendAnchor \/ CheckpointDone \/ CheckpointFails
  BY <1>1, <1>5 DEF QueryKnown, QueryFails, AskKnown, FilterNext, DropBatch, Rewrite,
                    WriteFails, Abandon, NoWrite, CheckpointDb, AppendAnchor,
                    CheckpointDone, CheckpointFails
<1> QED
  BY <1>2, <1>3, <1>4, <1>5 DEF Next, LoopStep, Failure

----------------------------------------------------------------------------
(* The theorems *)

\* The invariant holds initially.
LEMMA InitInv == Init => IInv
<1> SUFFICES ASSUME Init PROVE IInv
  OBVIOUS
<1>1. ChainInv
  BY DEF Init, ChainInv, Chained, HasTops, RowsOf, Up
<1>2. AnchorInv /\ DetectorInv /\ NotifyInv
  BY DEF Init, AnchorInv, DetectorInv, NotifyInv, Up
<1>3. IsFiniteSet(staged)
  BY FS_EmptySet DEF Init
<1> QED
  BY <1>1, <1>2, <1>3, InitType DEF IInv, InFlightConsistent

\* The invariant is inductive.
LEMMA StepInv == IInv /\ [Next]_vars => IInv'
<1> SUFFICES ASSUME IInv, [Next]_vars PROVE IInv'
  OBVIOUS
<1>1. TypeOK /\ HasTops /\ IsFiniteSet(staged)
  BY DEF IInv, InFlightConsistent, ChainInv
<1>2. TypeOK' /\ IsFiniteSet(staged')
  BY <1>1, TypeStep, FiniteStep
<1>3. ChainInv' /\ AnchorInv' /\ DetectorInv' /\ NotifyInv'
  BY ChainStep, AnchorStep, DetectorStep, NotifyStep
<1> QED
  BY <1>2, <1>3 DEF IInv, InFlightConsistent

\* The type invariant and the consistency of a write in flight hold throughout: the
\* heads, the staged rows, the tables, the anchors and the detector fit together
\* whatever fails, in whatever order.
THEOREM InvariantHolds == Spec => []IInv
  BY InitInv, StepInv, PTL DEF Spec

\* Type correctness; with it, that a restart always finds a head to continue from.
THEOREM TypeCorrect == Spec => []TypeOK
<1>1. IInv => TypeOK
  BY DEF IInv
<1> QED
  BY <1>1, InvariantHolds, PTL

\* No sequence of crashes, failed writes, redeliveries and retries breaks a stored
\* chain, for any number of buildings and readings.
THEOREM ChainsStayIntact == Spec => []ChainsIntact
<1>1. IInv => ChainsIntact
  <2> SUFFICES ASSUME IInv, NEW b \in Building
               PROVE  IntactChain(RowsOf(reading, b))
    BY DEF ChainsIntact
  <2>1. Chained(reading) /\ reading \subseteq Row
    BY DEF IInv, InFlightConsistent, ChainInv, TypeOK, TablesOK
  <2>2. \A r, q \in RowsOf(reading, b) : r.seq = q.seq => r = q
    BY <2>1 DEF Chained, RowsOf
  <2>3. ASSUME NEW r \in RowsOf(reading, b)
        PROVE  r.seq >= 0 /\ Linked(RowsOf(reading, b), r)
    <3>1. r \in reading /\ r.building_id = b
      BY <2>3 DEF RowsOf
    <3>2. r.seq \in Nat
      BY <2>1, <3>1 DEF Row
    <3> QED
      BY <2>1, <3>1, <3>2 DEF Chained
  <2> QED
    BY <2>2, <2>3 DEF IntactChain
<1> QED
  BY <1>1, InvariantHolds, PTL

\* Sequence order is time order within every building.
THEOREM SequenceFollowsTime == Spec => []SeqFollowsTime
<1>1. IInv => SeqFollowsTime
  BY DEF IInv, InFlightConsistent, ChainInv, Chained, SeqFollowsTime
<1> QED
  BY <1>1, InvariantHolds, PTL

\* Every checkpoint and every anchored line names a stored row: an anchor never runs
\* ahead of the table, whichever of the three writes fails.
THEOREM AnchorsNameRows == Spec => []AnchorsHold
<1>1. IInv => AnchorsHold
  BY DEF IInv, InFlightConsistent, AnchorInv, AnchorsHold
<1> QED
  BY <1>1, InvariantHolds, PTL

\* Between batches the detector has seen exactly what is stored.
THEOREM DetectorStaysInStep == Spec => []DetectorInStep
<1>1. IInv => DetectorInStep
  BY DEF IInv, InFlightConsistent, DetectorInv, DetectorInStep, Up
<1> QED
  BY <1>1, InvariantHolds, PTL

\* No webhook is ever told of an anomaly that is not stored.
THEOREM NotifiedIsStored == Spec => []NotifiedStored
<1>1. IInv => NotifiedStored
  BY DEF IInv, InFlightConsistent, NotifyInv, NotifiedStored
<1> QED
  BY <1>1, InvariantHolds, PTL

----------------------------------------------------------------------------
(* Every reading delivered to the process is held or counted.              *)

\* The pieces of the account are numbers.
LEMMA PiecesType ==
    ASSUME TypeOK
    PROVE  /\ Len(queue) \in Nat /\ Len(incoming) \in Nat /\ Len(pending) \in Nat
           /\ Len(todo) \in Nat /\ Len(arrived) \in Nat /\ since \in Nat /\ dups \in Nat
           /\ InBatch \in Nat
           /\ count.written \in Nat /\ count.duplicates \in Nat /\ count.rejected \in Nat
           /\ count.lost \in Nat /\ count.overflowed \in Nat /\ MaxQueued \in Nat \ {0}
<1>1. /\ Len(queue) \in Nat /\ Len(incoming) \in Nat /\ Len(pending) \in Nat
      /\ Len(todo) \in Nat /\ Len(arrived) \in Nat /\ since \in Nat /\ dups \in Nat
  BY DEF TypeOK, CallOK, InboxOK, WorldOK
<1>2. /\ count.written \in Nat /\ count.duplicates \in Nat /\ count.rejected \in Nat
      /\ count.lost \in Nat /\ count.overflowed \in Nat
  BY DEF TypeOK, InboxOK, Counters
<1>3. InBatch \in Nat
  BY <1>1 DEF InBatch
<1> QED
  BY <1>1, <1>2, <1>3, IngestAssumption

\* Steps that leave the queue, the counters and the deliveries alone, and no reading of
\* the batch behind.
LEMMA CountQuiet ==
    ASSUME CountInv, UNCHANGED <<queue, incoming, count, arrived, since>>,
           Up, Up', InBatch' = InBatch, BatchInv'
    PROVE  CountInv'
  BY DEF CountInv, Delivered, Accounted

\* The batch, too, is left alone.
LEMMA CountStill ==
    ASSUME CountInv, UNCHANGED <<queue, incoming, count, arrived, since, pc>>,
           UNCHANGED <<pending, todo, dups, staged>>
    PROVE  CountInv'
  BY DEF CountInv, Delivered, Accounted, InBatch, BatchInv, Up

\* What was delivered, what is held and what is counted move together.
LEMMA CountMoves ==
    ASSUME TypeOK, TypeOK', CountInv, Up, Up', BatchInv',
           Len(incoming') <= 1, Len(queue') <= MaxQueued,
           (Len(arrived') - since') - (Len(arrived) - since)
              = (Len(queue') - Len(queue)) + (Len(incoming') - Len(incoming)) + (InBatch' - InBatch)
                + (count'.written - count.written) + (count'.duplicates - count.duplicates)
                + (count'.rejected - count.rejected) + (count'.lost - count.lost)
    PROVE  CountInv'
<1>1. /\ Len(queue) \in Nat /\ Len(incoming) \in Nat /\ Len(arrived) \in Nat /\ since \in Nat
      /\ InBatch \in Nat
      /\ count.written \in Nat /\ count.duplicates \in Nat /\ count.rejected \in Nat
      /\ count.lost \in Nat
  BY PiecesType
<1>2. Len(queue') \in Nat /\ Len(incoming') \in Nat /\ Len(arrived') \in Nat /\ since' \in Nat
  BY DEF TypeOK, InboxOK, WorldOK
<1>c. /\ count'.written \in Nat /\ count'.duplicates \in Nat /\ count'.rejected \in Nat
      /\ count'.lost \in Nat
  BY DEF TypeOK, InboxOK, Counters
<1>3. InBatch' \in Nat
  BY DEF InBatch, TypeOK, CallOK
<1>4. Len(arrived) - since = Len(queue) + Len(incoming) + InBatch + count.written
                             + count.duplicates + count.rejected + count.lost
  BY DEF CountInv, Delivered, Accounted
<1> DEFINE a == Len(arrived) - since
           q == Len(queue)
           i == Len(incoming)
           b == InBatch
           w == count.written
           d == count.duplicates
           r == count.rejected
           l == count.lost
           aa == Len(arrived') - since'
           qq == Len(queue')
           ii == Len(incoming')
           bb == InBatch'
           ww == count'.written
           dd == count'.duplicates
           rr == count'.rejected
           ll == count'.lost
<1>5. /\ a \in Int /\ q \in Int /\ i \in Int /\ b \in Int /\ w \in Int /\ d \in Int
      /\ r \in Int /\ l \in Int /\ aa \in Int /\ qq \in Int /\ ii \in Int /\ bb \in Int
      /\ ww \in Int /\ dd \in Int /\ rr \in Int /\ ll \in Int
  <2>1. q \in Int /\ i \in Int /\ b \in Int /\ w \in Int /\ d \in Int /\ r \in Int /\ l \in Int
    BY <1>1
  <2>2. qq \in Int /\ ii \in Int
    BY <1>2
  <2>3. ww \in Int /\ dd \in Int /\ rr \in Int /\ ll \in Int
    BY <1>c
  <2>4. bb \in Int
    BY <1>3
  <2>5. a \in Int
    BY <1>1
  <2>6. aa \in Int
    BY <1>2
  <2> QED
    BY <2>1, <2>2, <2>3, <2>4, <2>5, <2>6
<1>6. /\ a = q + i + b + w + d + r + l
      /\ aa - a = (qq - q) + (ii - i) + (bb - b) + (ww - w) + (dd - d) + (rr - r) + (ll - l)
  BY <1>4
<1>7. aa = qq + ii + bb + ww + dd + rr + ll
  <2> HIDE DEF a, q, i, b, w, d, r, l, aa, qq, ii, bb, ww, dd, rr, ll
  <2> QED
    BY <1>5, <1>6
<1> QED
  BY <1>7 DEF CountInv, Delivered, Accounted

\* The row of a turn of the signing loop is not among those of the turns before.
LEMMA SignedAnew ==
    ASSUME TypeOK, ChainInv, pc = "sign", NEW r \in Reading
    PROVE  SignedRow(r, heads[r.building_id]) \notin staged
<1> DEFINE b == r.building_id
           S == reading \cup staged
           row == SignedRow(r, heads[b])
<1>1. b \in Building
  BY IngestAssumption
<1>2. heads[b] \in ChainState /\ S \in SUBSET Row
  BY <1>1 DEF TypeOK, CallOK, TablesOK
<1>3. Chained(S) /\ HeadOf(heads[b], b, S)
  BY <1>1 DEF ChainInv, HeadsOf
<1>4. row.building_id = b /\ row.seq = heads[b].last_seq + 1
  BY <1>2, SignedRowIs
<1>5. heads[b].last_seq \in Int
  BY <1>2 DEF ChainState
<1>6. SUFFICES ASSUME row \in staged PROVE FALSE
  OBVIOUS
<1>7. row \in RowsOf(S, b)
  BY <1>4, <1>6 DEF RowsOf
<1> HIDE DEF row, S
<1>8. row.seq <= heads[b].last_seq
  BY <1>1, <1>2, <1>3, <1>7, HeadBounds
<1> QED
  BY <1>4, <1>5, <1>8

\* A batch put back in front of the queue loses what a full deque drops.
LEMMA RequeueLen ==
    ASSUME NEW s \in Seq(Reading), NEW q \in Seq(Reading)
    PROVE  /\ Len(Requeue(s, q)) <= MaxQueued
           /\ Len(s) + Len(q) <= MaxQueued => Len(Requeue(s, q)) = Len(s) + Len(q)
           /\ Len(s) + Len(q) > MaxQueued => Len(Requeue(s, q)) = MaxQueued
<1> DEFINE all == s \o q
<1>1. all \in Seq(Reading) /\ Len(all) = Len(s) + Len(q) /\ Len(all) \in Nat
  OBVIOUS
<1>2. MaxQueued \in Nat \ {0}
  BY IngestAssumption
<1>3. Requeue(s, q) = IF Len(all) <= MaxQueued THEN all ELSE SubSeq(all, 1, MaxQueued)
  BY DEF Requeue
<1> HIDE DEF all
<1>4. CASE Len(all) <= MaxQueued
  BY <1>1, <1>2, <1>3, <1>4
<1>5. CASE Len(all) > MaxQueued
  <2>1. Len(SubSeq(all, 1, MaxQueued)) = MaxQueued
    BY <1>1, <1>2, <1>5
  <2> QED
    BY <1>1, <1>2, <1>3, <1>5, <2>1
<1> QED
  BY <1>1, <1>2, <1>4, <1>5

LEMMA CountStep ==
    IInv /\ CountInv /\ [Next]_vars => CountInv'
<1> SUFFICES ASSUME IInv, CountInv, [Next]_vars
             PROVE  CountInv'
  OBVIOUS
<1>t. TypeOK /\ TypeOK' /\ ChainInv /\ IsFiniteSet(staged)
  BY StepInv DEF IInv, InFlightConsistent
<1>p. /\ Len(queue) \in Nat /\ Len(incoming) \in Nat /\ Len(pending) \in Nat
      /\ Len(todo) \in Nat /\ Len(arrived) \in Nat /\ since \in Nat /\ dups \in Nat
      /\ InBatch \in Nat
      /\ count.written \in Nat /\ count.duplicates \in Nat /\ count.rejected \in Nat
      /\ count.lost \in Nat /\ count.overflowed \in Nat /\ MaxQueued \in Nat \ {0}
  BY <1>t, PiecesType
<1>s. /\ queue \in Seq(Reading) /\ incoming \in Seq(Reading) /\ pending \in Seq(Reading)
      /\ todo \in Seq(Reading) /\ arrived \in Seq(Reading) /\ count \in Counters
  BY <1>t DEF TypeOK, CallOK, InboxOK, WorldOK
<1>i. /\ Len(incoming) <= 1 /\ Len(queue) <= MaxQueued
      /\ ~Up => queue = <<>> /\ incoming = <<>> /\ count = NoCounts
      /\ BatchInv
  BY DEF CountInv
<1> USE DEF tables, marks, memory, call, mode, inbox, world
<1>1. ASSUME NEW r \in Reading, OnMessage(r)
      PROVE  CountInv'
  <2>1. /\ Up /\ Up' /\ InBatch' = InBatch /\ BatchInv'
        /\ queue' = queue /\ incoming = <<>> /\ incoming' = <<r>> /\ since' = since
        /\ arrived' = Append(arrived, r)
    BY <1>1, <1>i DEF OnMessage, Up, InBatch, BatchInv
  <2>2. /\ count'.written = count.written /\ count'.duplicates = count.duplicates
        /\ count'.rejected = count.rejected /\ count'.lost = count.lost
    BY <1>1, <1>s DEF OnMessage, Counters
  <2>3. Len(arrived') = Len(arrived) + 1 /\ Len(incoming') = 1 /\ Len(incoming) = 0
    BY <1>s, <2>1
  <2> QED
    BY <1>t, <1>p, <1>i, <2>1, <2>2, <2>3, CountMoves
<1>1a. CASE AppendReading
  <2>0. /\ incoming # <<>> /\ incoming' = <<>> /\ UNCHANGED <<arrived, since, pc>>
        /\ UNCHANGED <<pending, todo, dups, staged>>
    BY <1>1a DEF AppendReading
  <2>1. Up /\ Up' /\ InBatch' = InBatch /\ BatchInv'
    BY <1>i, <2>0 DEF Up, InBatch, BatchInv
  <2>2. Len(incoming) = 1 /\ Len(incoming') = 0
    <3>1. Len(incoming) # 0
      BY <1>s, <2>0
    <3>2. Len(incoming') = 0
      BY <2>0
    <3>3. Len(incoming) \in Nat /\ Len(incoming) <= 1
      BY <1>i, <1>p
    <3>4. \A n \in Nat : n # 0 /\ n <= 1 => n = 1
      OBVIOUS
    <3>5. Len(incoming) = 1
      BY <3>1, <3>3, <3>4
    <3> QED
      BY <3>2, <3>5
  <2>3. /\ count'.written = count.written /\ count'.duplicates = count.duplicates
        /\ count'.rejected = count.rejected
    BY <1>1a, <1>s DEF AppendReading, Counters
  <2>4. CASE Len(queue) = MaxQueued
    <3>1. Len(queue') = Len(queue) /\ count'.lost = count.lost + 1
      BY <1>1a, <1>s, <1>p, <2>4 DEF AppendReading, Counters
    <3> QED
      BY <1>t, <1>p, <1>i, <2>0, <2>1, <2>2, <2>3, <3>1, CountMoves
  <2>5. CASE Len(queue) # MaxQueued
    <3>1. Len(queue') = Len(queue) + 1 /\ count'.lost = count.lost
      BY <1>1a, <1>s, <1>p, <2>5 DEF AppendReading
    <3> QED
      BY <1>t, <1>p, <1>i, <2>0, <2>1, <2>2, <2>3, <2>5, <3>1, CountMoves
  <2> QED
    BY <2>4, <2>5
<1>2. CASE OnMalformed
  <2>1. /\ Up /\ Up' /\ InBatch' = InBatch /\ BatchInv'
        /\ queue' = queue /\ incoming' = incoming /\ since' = since /\ arrived' = arrived
    BY <1>2, <1>i DEF OnMalformed, Up, InBatch, BatchInv
  <2>2. /\ count'.written = count.written /\ count'.duplicates = count.duplicates
        /\ count'.rejected = count.rejected /\ count'.lost = count.lost
    BY <1>2, <1>s DEF OnMalformed, Counters
  <2> QED
    BY <1>t, <1>p, <1>i, <2>1, <2>2, CountMoves
<1>3. CASE Start
  <2>1. /\ queue = <<>> /\ incoming = <<>> /\ count = NoCounts /\ UNCHANGED <<queue, incoming, count>>
        /\ pc' = "idle" /\ since' = Len(arrived) /\ arrived' = arrived
    BY <1>3, <1>i DEF Start, Up
  <2>2. /\ count.written = 0 /\ count.duplicates = 0 /\ count.rejected = 0 /\ count.lost = 0
    BY <2>1 DEF NoCounts
  <2>3. InBatch' = 0 /\ BatchInv'
    BY <2>1 DEF InBatch, BatchInv
  <2>4. Len(queue') = 0 /\ Len(incoming') = 0 /\ Len(arrived') - since' = 0
    BY <1>p, <2>1
  <2>5. Delivered' = Accounted' + count'.lost
    BY <2>1, <2>2, <2>3, <2>4 DEF Delivered, Accounted
  <2> QED
    BY <1>p, <2>1, <2>3, <2>4, <2>5 DEF CountInv, Up
<1>4. CASE StartFails
  BY <1>4, <1>i DEF StartFails, CountInv, Up, BatchInv
<1>5. CASE FlushNothing
  BY <1>5, CountStill DEF FlushNothing
<1>6. CASE TakeBatch
  <2> DEFINE n == IF Len(queue) < BatchRows THEN Len(queue) ELSE BatchRows
  <2>1. /\ queue # <<>> /\ pending' = SubSeq(queue, 1, n) /\ queue' = SubSeq(queue, n + 1, Len(queue))
        /\ pc = "idle" /\ pc' = "begin" /\ UNCHANGED <<incoming, count, arrived, since>>
    BY <1>6 DEF TakeBatch
  <2>2. n \in Nat /\ n <= Len(queue)
    BY <1>p, IngestAssumption
  <2> HIDE DEF n
  <2>3. Len(pending') = n /\ Len(queue') = Len(queue) - n
    BY <1>s, <1>p, <2>1, <2>2
  <2>4. Up /\ Up' /\ InBatch = 0 /\ InBatch' = n /\ BatchInv'
    BY <2>1, <2>3 DEF Up, InBatch, BatchInv
  <2>d. /\ (Len(arrived') - since') - (Len(arrived) - since) = 0
        /\ Len(queue') - Len(queue) = -n
        /\ Len(incoming') - Len(incoming) = 0
        /\ InBatch' - InBatch = n
    BY <1>p, <2>1, <2>2, <2>3, <2>4
  <2>c. /\ count'.written - count.written = 0
        /\ (count'.duplicates - count.duplicates) + (count'.lost - count.lost) = 0
        /\ count'.rejected - count.rejected = 0
        /\ count'.duplicates - count.duplicates \in Int /\ count'.lost - count.lost \in Int
    BY <1>p, <2>1
  <2>e. (Len(arrived') - since') - (Len(arrived) - since)
            = (Len(queue') - Len(queue)) + (Len(incoming') - Len(incoming)) + (InBatch' - InBatch)
              + (count'.written - count.written) + (count'.duplicates - count.duplicates)
              + (count'.rejected - count.rejected) + (count'.lost - count.lost)
    <3> DEFINE da == (Len(arrived') - since') - (Len(arrived) - since)
               dq == Len(queue') - Len(queue)
               di == Len(incoming') - Len(incoming)
               db == InBatch' - InBatch
               dw == count'.written - count.written
               dd == count'.duplicates - count.duplicates
               dr == count'.rejected - count.rejected
               dl == count'.lost - count.lost
    <3>1. da = 0 /\ di = 0 /\ dr = 0 /\ dq + db + dw + (dd + dl) = 0
      BY <2>2, <2>d, <2>c
    <3>2. dq \in Int /\ db \in Int /\ dw \in Int /\ dd \in Int /\ dl \in Int
      BY <2>2, <2>d, <2>c
    <3> HIDE DEF da, dq, di, db, dw, dd, dr, dl
    <3>3. da = dq + di + db + dw + dd + dr + dl
      BY <3>1, <3>2
    <3> QED
      BY <3>3 DEF da, dq, di, db, dw, dd, dr, dl
  <2>l. Len(queue') <= MaxQueued
    BY <1>p, <1>i, <2>2, <2>3
  <2> QED
    BY <1>t, <1>i, <2>1, <2>4, <2>e, <2>l, CountMoves
<1>7. CASE BeginWrite
  <2>1. /\ pc = "begin" /\ pc' = "sign" /\ todo' = pending /\ pending' = pending /\ dups' = 0 /\ staged' = {}
        /\ UNCHANGED <<queue, incoming, count, arrived, since>>
    BY <1>7 DEF BeginWrite
  <2>2. Up /\ Up' /\ InBatch' = InBatch
    BY <2>1 DEF Up, InBatch
  <2>3. Cardinality(staged') = 0
    BY <2>1, FS_EmptySet
  <2>4. BatchInv'
    BY <1>p, <2>1, <2>3 DEF BatchInv
  <2> QED
    BY <2>1, <2>2, <2>4, CountQuiet
<1>8. CASE SignNext
  <2> DEFINE r == Head(todo)
             row == SignedRow(r, heads[r.building_id])
  <2>1. /\ pc = "sign" /\ todo # <<>> /\ todo' = Tail(todo) /\ pc' = pc /\ pending' = pending
        /\ UNCHANGED <<queue, incoming, count, arrived, since>>
    BY <1>8 DEF SignNext
  <2>2. Up /\ Up' /\ InBatch' = InBatch
    BY <2>1 DEF Up, InBatch
  <2>3. Len(todo') = Len(todo) - 1
    BY <1>s, <1>p, <2>1
  <2>4. Cardinality(staged) \in Nat
    BY <1>t, FS_CardinalityType
  <2>5. Len(todo) + dups + Cardinality(staged) = Len(pending)
    BY <1>i, <2>1 DEF BatchInv
  <2>6. r \in Reading
    BY <1>s, <2>1, TailType
  <2>7. row \notin staged
    BY <1>t, <2>1, <2>6, SignedAnew
  <2>8. \/ dups' = dups + 1 /\ staged' = staged
        \/ dups' = dups /\ staged' = staged \cup {row}
    BY <1>8 DEF SignNext
  <2> HIDE DEF row, r
  <2>9. dups' \in Nat /\ Cardinality(staged') \in Nat
        /\ dups' + Cardinality(staged') = dups + Cardinality(staged) + 1
    <3>1. CASE dups' = dups + 1 /\ staged' = staged
      BY <1>p, <2>4, <3>1
    <3>2. CASE dups' = dups /\ staged' = staged \cup {row}
      <4>1. Cardinality(staged \cup {row}) = Cardinality(staged) + 1
        BY <1>t, <2>7, FS_AddElement
      <4>2. \A d, n \in Nat : d \in Nat /\ n + 1 \in Nat /\ d + (n + 1) = d + n + 1
        OBVIOUS
      <4>3. dups \in Nat
        BY <1>p
      <4>4. dups' = dups /\ Cardinality(staged') = Cardinality(staged) + 1
        BY <3>2, <4>1
      <4> QED
        BY <2>4, <4>2, <4>3, <4>4
    <3> QED
      BY <2>8, <3>1, <3>2
  <2>10. Len(todo') + dups' + Cardinality(staged') = Len(pending)
    <3> DEFINE l == Len(todo)
               ll == Len(todo')
               c == Cardinality(staged)
               cc == Cardinality(staged')
               m == Len(pending)
    <3>1. /\ l \in Nat /\ c \in Nat /\ cc \in Nat /\ m \in Nat /\ dups \in Nat /\ dups' \in Nat
          /\ ll = l - 1 /\ l + dups + c = m /\ dups' + cc = dups + c + 1
      BY <1>p, <2>3, <2>4, <2>5, <2>9
    <3> HIDE DEF l, ll, c, cc, m
    <3>a. \A x, y, z \in Int : x + y + z = x + (y + z)
      OBVIOUS
    <3>b. \A x, y, k \in Int : x + y = k => (x - 1) + (y + 1) = k
      OBVIOUS
    <3>2. ll \in Int /\ dups + c \in Int
      BY <3>1
    <3>3. l + (dups + c) = m /\ ll + dups' + cc = ll + (dups' + cc)
      BY <3>1, <3>2, <3>a
    <3>c. (l - 1) + ((dups + c) + 1) = m
      BY <3>1, <3>2, <3>3, <3>b
    <3>4. ll + dups' + cc = m
      BY <3>1, <3>3, <3>c
    <3> QED
      BY <3>4 DEF l, ll, c, cc, m
  <2>11. BatchInv'
    BY <2>1, <2>10 DEF BatchInv
  <2> QED
    BY <2>1, <2>2, <2>11, CountQuiet
<1>9. CASE WriteNothing
  <2>1. /\ pc = "sign" /\ todo = <<>> /\ staged = {} /\ pc' = "idle"
        /\ UNCHANGED <<queue, incoming, arrived, since>>
        /\ count' = [count EXCEPT !.duplicates = IF attempt = 1 THEN @ + dups ELSE @,
                                  !.lost = IF attempt = 1 THEN @ ELSE @ + dups]
    BY <1>9 DEF WriteNothing
  <2>2. Cardinality(staged) = 0 /\ Len(todo) = 0
    BY <2>1, FS_EmptySet
  <2>3. InBatch = dups
    BY <1>p, <1>i, <2>1, <2>2 DEF BatchInv, InBatch
  <2>4. Up /\ Up' /\ InBatch' = 0 /\ BatchInv'
    BY <2>1 DEF Up, InBatch, BatchInv
  <2>5. /\ count'.written = count.written /\ count'.rejected = count.rejected
        /\ \/ count'.duplicates = count.duplicates + dups /\ count'.lost = count.lost
           \/ count'.duplicates = count.duplicates /\ count'.lost = count.lost + dups
    BY <1>s, <2>1 DEF Counters
  <2>6. (count'.duplicates - count.duplicates) + (count'.lost - count.lost) = dups
        /\ count'.duplicates \in Nat /\ count'.lost \in Nat
    <3>1. dups \in Nat /\ count.duplicates \in Nat /\ count.lost \in Nat
      BY <1>p
    <3>2. \A n, k, d \in Nat : (n + d) - n + (k - k) = d /\ (n - n) + ((k + d) - k) = d
                             /\ n + d \in Nat
      OBVIOUS
    <3> QED
      BY <2>5, <3>1, <3>2
  <2>d. /\ (Len(arrived') - since') - (Len(arrived) - since) = 0
        /\ Len(queue') - Len(queue) = 0
        /\ Len(incoming') - Len(incoming) = 0
        /\ InBatch' - InBatch = -dups
    <3>1. Len(queue') = Len(queue) /\ Len(incoming') = Len(incoming) /\ Len(arrived') = Len(arrived)
          /\ since' = since
      BY <2>1
    <3>2. InBatch' - InBatch = -dups
      BY <1>p, <2>3, <2>4
    <3> QED
      BY <1>p, <3>1, <3>2
  <2>c. /\ count'.written - count.written = 0
        /\ (count'.duplicates - count.duplicates) + (count'.lost - count.lost) = dups
        /\ count'.rejected - count.rejected = 0
        /\ count'.duplicates - count.duplicates \in Int /\ count'.lost - count.lost \in Int
    <3>1. count'.written - count.written = 0 /\ count'.rejected - count.rejected = 0
      BY <1>p, <2>5
    <3>2. count'.duplicates - count.duplicates \in Int /\ count'.lost - count.lost \in Int
      <4>1. \A x, y \in Nat : x - y \in Int
        OBVIOUS
      <4>2. /\ count.duplicates \in Nat /\ count.lost \in Nat
            /\ count'.duplicates \in Nat /\ count'.lost \in Nat
        BY <1>p, <2>6
      <4> QED
        BY <4>1, <4>2
    <3> QED
      BY <2>6, <3>1, <3>2
  <2>e. (Len(arrived') - since') - (Len(arrived) - since)
            = (Len(queue') - Len(queue)) + (Len(incoming') - Len(incoming)) + (InBatch' - InBatch)
              + (count'.written - count.written) + (count'.duplicates - count.duplicates)
              + (count'.rejected - count.rejected) + (count'.lost - count.lost)
    <3> DEFINE da == (Len(arrived') - since') - (Len(arrived) - since)
               dq == Len(queue') - Len(queue)
               di == Len(incoming') - Len(incoming)
               db == InBatch' - InBatch
               dw == count'.written - count.written
               dd == count'.duplicates - count.duplicates
               dr == count'.rejected - count.rejected
               dl == count'.lost - count.lost
    <3>1. /\ da = 0 /\ dq = 0 /\ di = 0 /\ db = -dups
          /\ dw = 0 /\ dd + dl = dups /\ dr = 0
      BY <2>d, <2>c
    <3>2. dd \in Int /\ dl \in Int /\ dups \in Int
      BY <1>p, <2>c
    <3> HIDE DEF da, dq, di, db, dw, dd, dr, dl
    <3>3. da = dq + di + db + dw + dd + dr + dl
      BY <3>1, <3>2
    <3> QED
      BY <3>3 DEF da, dq, di, db, dw, dd, dr, dl
  <2> QED
    BY <1>t, <1>i, <2>1, <2>4, <2>e, CountMoves
<1>10. CASE Score
  <2>1. /\ pc = "sign" /\ pc' = "insert" /\ todo = <<>> /\ UNCHANGED <<pending, dups, staged, todo>>
        /\ UNCHANGED <<queue, incoming, count, arrived, since>>
    BY <1>10 DEF Score, ScoreBatch
  <2>2. Cardinality(staged) \in Nat /\ Len(todo) = 0
    BY <1>t, <2>1, FS_CardinalityType
  <2>3. Up /\ Up' /\ InBatch' = InBatch
    BY <2>1 DEF Up, InBatch
  <2>4. BatchInv'
    BY <1>i, <1>p, <2>1, <2>2 DEF BatchInv
  <2> QED
    BY <2>1, <2>3, <2>4, CountQuiet
<1>11. CASE Commit
  <2>1. /\ pc = "insert" /\ pc' = "apply" /\ UNCHANGED <<pending, dups, staged, todo>>
        /\ UNCHANGED <<queue, incoming, count, arrived, since>>
    BY <1>11 DEF Commit
  <2>2. Up /\ Up' /\ InBatch' = InBatch /\ BatchInv'
    BY <1>i, <2>1 DEF Up, InBatch, BatchInv
  <2> QED
    BY <2>1, <2>2, CountQuiet
<1>12. CASE ApplyHeads
  <2>1. /\ pc = "apply" /\ pc' = "idle" /\ UNCHANGED <<queue, incoming, arrived, since>>
        /\ count' = [count EXCEPT !.duplicates = @ + dups, !.written = @ + Cardinality(staged)]
    BY <1>12 DEF ApplyHeads, FlushReturns
  <2>2. Cardinality(staged) \in Nat
    BY <1>t, FS_CardinalityType
  <2>3. InBatch = dups + Cardinality(staged)
    BY <1>i, <2>1 DEF BatchInv, InBatch
  <2>4. Up /\ Up' /\ InBatch' = 0 /\ BatchInv'
    BY <2>1 DEF Up, InBatch, BatchInv
  <2>5. /\ count'.written = count.written + Cardinality(staged) /\ count'.rejected = count.rejected
        /\ count'.duplicates = count.duplicates + dups /\ count'.lost = count.lost
    BY <1>s, <2>1 DEF Counters
  <2> DEFINE c == Cardinality(staged)
  <2>n. c \in Nat
    BY <2>2
  <2> HIDE DEF c
  <2>d. /\ (Len(arrived') - since') - (Len(arrived) - since) = 0
        /\ Len(queue') - Len(queue) = 0
        /\ Len(incoming') - Len(incoming) = 0
        /\ InBatch' - InBatch = -(dups + c)
    BY <1>p, <2>1, <2>2, <2>3, <2>4 DEF c
  <2>c. /\ count'.written - count.written = c
        /\ (count'.duplicates - count.duplicates) + (count'.lost - count.lost) = dups
        /\ count'.rejected - count.rejected = 0
        /\ count'.duplicates - count.duplicates \in Int /\ count'.lost - count.lost \in Int
    <3>1. /\ count'.written = count.written + c /\ c \in Nat
      BY <2>2, <2>5 DEF c
    <3>2. /\ count'.written - count.written = c /\ count'.rejected - count.rejected = 0
          /\ count'.lost - count.lost = 0
      BY <1>p, <2>5, <3>1
    <3>3. count'.duplicates - count.duplicates = dups
      BY <1>p, <2>5
    <3> QED
      BY <1>p, <3>2, <3>3
  <2>e. (Len(arrived') - since') - (Len(arrived) - since)
            = (Len(queue') - Len(queue)) + (Len(incoming') - Len(incoming)) + (InBatch' - InBatch)
              + (count'.written - count.written) + (count'.duplicates - count.duplicates)
              + (count'.rejected - count.rejected) + (count'.lost - count.lost)
    <3> DEFINE da == (Len(arrived') - since') - (Len(arrived) - since)
               dq == Len(queue') - Len(queue)
               di == Len(incoming') - Len(incoming)
               db == InBatch' - InBatch
               dw == count'.written - count.written
               dd == count'.duplicates - count.duplicates
               dr == count'.rejected - count.rejected
               dl == count'.lost - count.lost
    <3>1. da = 0 /\ di = 0 /\ dr = 0 /\ dq + db + dw + (dd + dl) = 0
      <4>1. da = 0 /\ di = 0 /\ dr = 0 /\ dq = 0
        BY <2>d, <2>c
      <4>2. db = -(dups + c) /\ dw = c /\ dd + dl = dups
        BY <2>d, <2>c
      <4>3. \A x, y \in Int : 0 + (-(x + y)) + y + x = 0
        OBVIOUS
      <4> HIDE DEF da, dq, di, db, dw, dd, dr, dl
      <4> QED
        BY <1>p, <2>n, <4>1, <4>2, <4>3
    <3>2. dq \in Int /\ db \in Int /\ dw \in Int /\ dd \in Int /\ dl \in Int
      <4>1. dq = 0 /\ db = -(dups + c) /\ dw = c /\ dd \in Int /\ dl \in Int
        BY <2>d, <2>c
      <4> HIDE DEF dq, db, dw, dd, dl
      <4> QED
        BY <1>p, <2>n, <4>1
    <3> HIDE DEF da, dq, di, db, dw, dd, dr, dl
    <3>3. da = dq + di + db + dw + dd + dr + dl
      BY <3>1, <3>2
    <3> QED
      BY <3>3 DEF da, dq, di, db, dw, dd, dr, dl
  <2> QED
    BY <1>t, <1>i, <2>1, <2>4, <2>e, CountMoves
<1>13. CASE Refuse
  <2>1. /\ pc = "insert" /\ pc' = "isolate" /\ UNCHANGED <<pending, dups, staged, todo>>
        /\ UNCHANGED <<queue, incoming, count, arrived, since>>
    BY <1>13 DEF Refuse
  <2>2. Up /\ Up' /\ InBatch' = InBatch /\ BatchInv'
    BY <2>1 DEF Up, InBatch, BatchInv
  <2> QED
    BY <2>1, <2>2, CountQuiet
<1>14. CASE QueryKnown \/ QueryFails
  <2>1. /\ pc = "isolate" /\ pc' = "filter" /\ todo' = pending /\ pending' = <<>>
        /\ UNCHANGED <<queue, incoming, count, arrived, since>>
    BY <1>14 DEF QueryKnown, QueryFails, AskKnown
  <2>2. InBatch = Len(pending) /\ InBatch' = Len(pending)
    BY <1>p, <2>1 DEF InBatch
  <2>3. Up /\ Up' /\ BatchInv'
    BY <2>1 DEF Up, BatchInv
  <2> QED
    BY <2>1, <2>2, <2>3, CountQuiet
<1>15. CASE FilterNext
  <2>0. /\ pc = "filter" /\ pc' = pc /\ todo # <<>> /\ todo' = Tail(todo)
        /\ UNCHANGED <<queue, incoming, arrived, since>>
    BY <1>15 DEF FilterNext
  <2>1. Up /\ Up' /\ BatchInv'
    BY <2>0 DEF Up, BatchInv
  <2>2. Head(todo) \in Reading /\ Len(todo') = Len(todo) - 1
    BY <1>s, <1>p, <2>0
  <2>3. InBatch = Len(pending) + Len(todo) /\ InBatch' = Len(pending') + Len(todo')
    BY <2>0 DEF InBatch
  <2>4. CASE Head(todo).building_id \in known
    <3>1. Len(pending') = Len(pending) + 1 /\ count' = count
      BY <1>15, <1>s, <2>2, <2>4 DEF FilterNext, Keep
    <3>2. InBatch' = InBatch
      BY <1>p, <2>2, <2>3, <3>1
    <3> QED
      BY <2>0, <2>1, <3>1, <3>2, CountQuiet
  <2>5. CASE Head(todo).building_id \notin known
    <3>1. /\ pending' = pending
          /\ count' = [count EXCEPT !.rejected = @ + 1,
                            !.misjudged = IF Head(todo).building_id \in InitialPortfolio
                                          THEN @ + 1 ELSE @]
      BY <1>15, <2>5 DEF FilterNext
    <3>2. /\ count'.written = count.written /\ count'.rejected = count.rejected + 1
          /\ count'.duplicates = count.duplicates /\ count'.lost = count.lost
      BY <1>s, <3>1 DEF Counters
    <3>3. InBatch' = InBatch - 1
      BY <1>p, <2>2, <2>3, <3>1
    <3>4. /\ Len(queue') = Len(queue) /\ Len(incoming') = Len(incoming)
          /\ Len(arrived') = Len(arrived) /\ since' = since
      BY <2>0
    <3>5. \A a, n, q, i, b, w, d, j, l \in Nat :
             (a - n) - (a - n) = (q - q) + (i - i) + ((b - 1) - b) + (w - w) + (d - d)
                                 + ((j + 1) - j) + (l - l)
      OBVIOUS
    <3>6. (Len(arrived') - since') - (Len(arrived) - since)
              = (Len(queue') - Len(queue)) + (Len(incoming') - Len(incoming)) + (InBatch' - InBatch)
                + (count'.written - count.written) + (count'.duplicates - count.duplicates)
                + (count'.rejected - count.rejected) + (count'.lost - count.lost)
      BY <1>p, <3>2, <3>3, <3>4, <3>5
    <3> QED
      BY <1>t, <1>i, <2>1, <3>4, <3>6, CountMoves
  <2> QED
    BY <2>4, <2>5
<1>16. CASE DropBatch
  <2>1. /\ pc = "filter" /\ pc' = "idle" /\ todo = <<>> /\ pending = <<>>
        /\ UNCHANGED <<queue, incoming, count, arrived, since>>
    BY <1>16 DEF DropBatch
  <2>2. Up /\ Up' /\ InBatch = 0 /\ InBatch' = 0 /\ BatchInv'
    BY <2>1 DEF Up, InBatch, BatchInv
  <2> QED
    BY <2>1, <2>2, CountQuiet
<1>17. CASE Rewrite
  <2>1. /\ pc = "filter" /\ pc' = "begin" /\ todo = <<>> /\ UNCHANGED <<pending, todo>>
        /\ UNCHANGED <<queue, incoming, count, arrived, since>>
    BY <1>17 DEF Rewrite
  <2>2. Up /\ Up' /\ InBatch' = InBatch /\ BatchInv'
    BY <1>p, <2>1 DEF Up, InBatch, BatchInv
  <2> QED
    BY <2>1, <2>2, CountQuiet
<1>18. CASE WriteFails
  <2>1. /\ pc \in {"begin", "sign", "insert"} /\ pc' = "idle" /\ UNCHANGED <<incoming, arrived, since>>
        /\ queue' = IF attempt = 1 THEN Requeue(pending, queue) ELSE queue
        /\ count' = [count EXCEPT !.lost = @ + Discarded]
    BY <1>18 DEF WriteFails, Abandon
  <2>2. Up /\ Up' /\ InBatch = Len(pending) /\ InBatch' = 0 /\ BatchInv'
    BY <2>1 DEF Up, InBatch, BatchInv
  <2>3. Discarded \in Nat
    BY <1>s, DiscardedType
  <2>4. /\ count'.written = count.written /\ count'.rejected = count.rejected
        /\ count'.duplicates = count.duplicates /\ count'.lost = count.lost + Discarded
    BY <1>s, <2>1 DEF Counters
  <2>5. Len(queue') \in Nat /\ Len(queue') <= MaxQueued /\ Len(queue') + Discarded = Len(queue) + Len(pending)
    <3>1. CASE attempt = 1 /\ Len(pending) + Len(queue) <= MaxQueued
      <4>1. Discarded = 0
        BY <1>p, <3>1 DEF Discarded
      <4>2. Len(queue') = Len(pending) + Len(queue)
        BY <1>s, <2>1, <3>1, RequeueLen
      <4> QED
        BY <1>p, <3>1, <4>1, <4>2
    <3>2. CASE attempt = 1 /\ Len(pending) + Len(queue) > MaxQueued
      <4>1. Discarded = Len(pending) + Len(queue) - MaxQueued
        BY <1>p, <3>2 DEF Discarded
      <4>2. Len(queue') = MaxQueued
        BY <1>s, <2>1, <3>2, RequeueLen
      <4> QED
        BY <1>p, <3>2, <4>1, <4>2
    <3>3. CASE attempt = 2
      <4>1. Discarded = Len(pending) /\ queue' = queue
        BY <2>1, <3>3 DEF Discarded
      <4> QED
        BY <1>p, <1>i, <4>1
    <3> QED
      BY <1>t, <1>p, <3>1, <3>2, <3>3 DEF TypeOK, CallOK
  <2> HIDE DEF Discarded
  <2> DEFINE m == Len(pending)
             g == Discarded
  <2>n. m \in Nat /\ g \in Nat
    BY <1>p, <2>3
  <2>q. Len(queue') + g = Len(queue) + m
    BY <2>5
  <2>b. InBatch = m
    BY <2>2
  <2>k. count'.lost = count.lost + g
    BY <2>4
  <2> HIDE DEF m, g
  <2>d. /\ (Len(arrived') - since') - (Len(arrived) - since) = 0
        /\ Len(queue') - Len(queue) = m - g
        /\ Len(incoming') - Len(incoming) = 0
        /\ InBatch' - InBatch = -m
    <3>1. Len(incoming') = Len(incoming) /\ Len(arrived') = Len(arrived) /\ since' = since
      BY <2>1
    <3>2. InBatch' - InBatch = -m
      BY <2>2, <2>b, <2>n
    <3>3. Len(queue') - Len(queue) = m - g
      BY <1>p, <2>5, <2>n, <2>q
    <3> QED
      BY <1>p, <3>1, <3>2, <3>3
  <2>c. /\ count'.written - count.written = 0
        /\ (count'.duplicates - count.duplicates) + (count'.lost - count.lost) = g
        /\ count'.rejected - count.rejected = 0
        /\ count'.duplicates - count.duplicates \in Int /\ count'.lost - count.lost \in Int
    BY <1>p, <2>4, <2>n, <2>k
  <2>e. (Len(arrived') - since') - (Len(arrived) - since)
            = (Len(queue') - Len(queue)) + (Len(incoming') - Len(incoming)) + (InBatch' - InBatch)
              + (count'.written - count.written) + (count'.duplicates - count.duplicates)
              + (count'.rejected - count.rejected) + (count'.lost - count.lost)
    <3> DEFINE da == (Len(arrived') - since') - (Len(arrived) - since)
               dq == Len(queue') - Len(queue)
               di == Len(incoming') - Len(incoming)
               db == InBatch' - InBatch
               dw == count'.written - count.written
               dd == count'.duplicates - count.duplicates
               dr == count'.rejected - count.rejected
               dl == count'.lost - count.lost
    <3>1. da = 0 /\ di = 0 /\ dr = 0 /\ dq + db + dw + (dd + dl) = 0
      BY <2>n, <2>d, <2>c
    <3>2. dq \in Int /\ db \in Int /\ dw \in Int /\ dd \in Int /\ dl \in Int
      BY <2>n, <2>d, <2>c
    <3> HIDE DEF da, dq, di, db, dw, dd, dr, dl
    <3>3. da = dq + di + db + dw + dd + dr + dl
      BY <3>1, <3>2
    <3> QED
      BY <3>3 DEF da, dq, di, db, dw, dd, dr, dl
  <2> QED
    BY <1>t, <1>i, <2>1, <2>2, <2>5, <2>e, CountMoves
<1>19. CASE CheckpointDb \/ CheckpointDone \/ CheckpointFails
  <2>1. /\ pc \in {"idle", "anchor"} /\ pc' \in {"idle", "anchor"}
        /\ UNCHANGED <<queue, incoming, count, arrived, since>>
    BY <1>19 DEF CheckpointDb, CheckpointDone, CheckpointFails, CheckpointDue
  <2>2. Up /\ Up' /\ InBatch = 0 /\ InBatch' = 0 /\ BatchInv'
    BY <2>1 DEF Up, InBatch, BatchInv
  <2> QED
    BY <2>1, <2>2, CountQuiet
<1>20. CASE AppendAnchor
  BY <1>20, CountStill DEF AppendAnchor
<1>21. CASE Stop
  BY <1>21, CountStill DEF Stop
<1>22. CASE Exit \/ Crash
  <2>1. pc' = "down" /\ queue' = <<>> /\ incoming' = <<>> /\ count' = NoCounts
    BY <1>22 DEF Exit, Crash, Forget
  <2>2. Len(queue') = 0 /\ Len(incoming') = 0
    BY <2>1
  <2> QED
    BY <1>p, <2>1, <2>2 DEF CountInv, Up, BatchInv
<1>23. ASSUME NEW b \in Building, AddBuilding(b)
       PROVE  CountInv'
  BY <1>23, CountStill DEF AddBuilding
<1>24. CASE Tick
  BY <1>24, CountStill DEF Tick
<1>25. CASE UNCHANGED vars
  BY <1>25, CountStill DEF vars
<1> QED
  BY <1>1, <1>1a, <1>2, <1>3, <1>4, <1>5, <1>6, <1>7, <1>8, <1>9, <1>10, <1>11, <1>12, <1>13,
     <1>14, <1>15, <1>16, <1>17, <1>18, <1>19, <1>20, <1>21, <1>22, <1>23, <1>24, <1>25
     DEF Next, LoopStep, Failure

\* A step that leaves no batch in flight.
LEMMA RetryIdle ==
    ASSUME pc' \notin {"begin", "sign", "insert", "isolate", "filter"}
    PROVE  RetryInv'
  BY DEF RetryInv

\* A step of somebody else.
LEMMA RetryStill ==
    ASSUME RetryInv, UNCHANGED <<reading, chains, pending, todo, staged, stored, heads, pc, attempt>>,
           Blameless' => Blameless
    PROVE  RetryInv'
<1>1. SomeStorable(pending)' = SomeStorable(pending) /\ SomeStorable(todo)' = SomeStorable(todo)
  BY DEF SomeStorable, Storable
<1>2. SigningInv' = SigningInv
  BY <1>1 DEF SigningInv, already_stored
<1> QED
  BY <1>1, <1>2 DEF RetryInv

\* As long as nothing is staged, a turn of the signing loop passes over a reading exactly
\* if a write that begins now would not store it.
LEMMA FirstTurn ==
    ASSUME TypeOK, SigningInv, staged = {}, todo # <<>>
    PROVE  IsDuplicate(Head(todo)) <=> ~Storable(Head(todo))
<1> DEFINE r == Head(todo)
           b == r.building_id
<1>1. todo \in Seq(Reading) /\ r \in Reading /\ r = todo[1] /\ 1 \in DOMAIN todo
  BY DEF TypeOK, CallOK
<1>2. PICK j \in DOMAIN pending : pending[j] = r
  BY <1>1 DEF SigningInv
<1>3. Key(r) \in Keys({ pending[i] : i \in DOMAIN pending })
  BY <1>2 DEF Keys
<1>4. Key(r) \in stored <=> Key(r) \in Keys(reading)
  BY <1>3 DEF SigningInv, already_stored
<1>5. heads[b] = chains[b]
  BY DEF SigningInv
<1>6. r.ts \in Int /\ b \in Building
  BY <1>1, IngestAssumption
<1>7. chains[b].last_ts \in Int
  BY <1>6 DEF TypeOK, MemoryOK, ChainState
<1> HIDE DEF r
<1>8. r.ts <= chains[b].last_ts <=> ~(r.ts > chains[b].last_ts)
  BY <1>6, <1>7
<1>9. IsDuplicate(r) <=> ~Storable(r)
  BY <1>4, <1>5, <1>8 DEF IsDuplicate, Storable
<1> QED
  BY <1>9 DEF r

\* What a sequence holds is its first element or in the rest of it.
LEMMA HeadOrTail ==
    ASSUME NEW s \in Seq(Reading), s # <<>>
    PROVE  /\ SomeStorable(s) <=> Storable(Head(s)) \/ SomeStorable(Tail(s))
           /\ \A i \in DOMAIN Tail(s) : \E j \in DOMAIN s : s[j] = Tail(s)[i]
<1>1. Head(s) = s[1] /\ Len(s) \in Nat \ {0} /\ Len(Tail(s)) = Len(s) - 1
  OBVIOUS
<1>2. DOMAIN s = 1..Len(s) /\ DOMAIN Tail(s) = 1..(Len(s) - 1)
  BY <1>1
<1>3. \A i \in 1..(Len(s) - 1) : i + 1 \in 1..Len(s) /\ Tail(s)[i] = s[i + 1]
  BY <1>1
<1>4. \A j \in 1..Len(s) : j = 1 \/ (j - 1 \in 1..(Len(s) - 1) /\ Tail(s)[j - 1] = s[j])
  BY <1>1
<1>5. 1 \in 1..Len(s)
  BY <1>1
<1>6. SomeStorable(s) => Storable(Head(s)) \/ SomeStorable(Tail(s))
  BY <1>1, <1>2, <1>4 DEF SomeStorable
<1>7. Storable(Head(s)) => SomeStorable(s)
  BY <1>1, <1>2, <1>5 DEF SomeStorable
<1>8. SomeStorable(Tail(s)) => SomeStorable(s)
  BY <1>2, <1>3 DEF SomeStorable
<1> QED
  BY <1>2, <1>3, <1>6, <1>7, <1>8

\* A reading put at the end joins what the sequence holds.
LEMMA StorableAppend ==
    ASSUME NEW s \in Seq(Reading), NEW r \in Reading
    PROVE  SomeStorable(s) \/ Storable(r) => SomeStorable(Append(s, r))
<1>1. /\ DOMAIN s = 1..Len(s) /\ DOMAIN Append(s, r) = 1..(Len(s) + 1) /\ Len(s) \in Nat
      /\ \A i \in 1..Len(s) : Append(s, r)[i] = s[i]
      /\ Append(s, r)[Len(s) + 1] = r
  OBVIOUS
<1>2. Len(s) + 1 \in 1..(Len(s) + 1) /\ \A i \in 1..Len(s) : i \in 1..(Len(s) + 1)
  BY <1>1
<1> QED
  BY <1>1, <1>2 DEF SomeStorable

LEMMA RetryStep ==
    IInv /\ CountInv /\ RetryInv /\ [Next]_vars => RetryInv'
<1> SUFFICES ASSUME IInv, RetryInv, [Next]_vars
             PROVE  RetryInv'
  OBVIOUS
<1>t. TypeOK
  BY DEF IInv
<1>s. pending \in Seq(Reading) /\ todo \in Seq(Reading) /\ count \in Counters
      /\ count.rejected \in Nat /\ failures \in Nat
  BY <1>t DEF TypeOK, CallOK, InboxOK, Counters
<1> USE DEF tables, marks, memory, call, mode, inbox, world
<1>1. ASSUME NEW r \in Reading, OnMessage(r)
      PROVE  RetryInv'
  <2>1. UNCHANGED <<reading, chains, pending, todo, staged, stored, heads, pc, attempt, failures>>
        /\ count'.rejected = count.rejected
    BY <1>1, <1>s DEF OnMessage, Counters
  <2> QED
    BY <2>1, RetryStill DEF Blameless
<1>2. CASE AppendReading \/ OnMalformed
  <2>1. UNCHANGED <<reading, chains, pending, todo, staged, stored, heads, pc, attempt, failures>>
        /\ count'.rejected = count.rejected
    BY <1>2, <1>s DEF AppendReading, OnMalformed, Counters
  <2> QED
    BY <2>1, RetryStill DEF Blameless
<1>3. CASE Start \/ StartFails \/ WriteNothing \/ Commit \/ ApplyHeads \/ DropBatch \/ WriteFails
           \/ CheckpointDb \/ CheckpointDone \/ CheckpointFails \/ Exit \/ Crash
  <2>1. pc' \in {"idle", "dead", "apply", "anchor", "down"}
    BY <1>3 DEF Start, StartFails, WriteNothing, Commit, ApplyHeads, DropBatch, WriteFails,
                Abandon, CheckpointDb, CheckpointDone, CheckpointFails, Exit, Crash, Forget
  <2> QED
    BY <2>1, RetryIdle
<1>4. CASE FlushNothing \/ AppendAnchor \/ Stop \/ Tick \/ UNCHANGED vars
  <2>1. UNCHANGED <<reading, chains, pending, todo, staged, stored, heads, pc, attempt, failures, count>>
    BY <1>4 DEF FlushNothing, AppendAnchor, Stop, Tick, vars
  <2> QED
    BY <2>1, RetryStill DEF Blameless
<1>5. ASSUME NEW b \in Building, AddBuilding(b)
      PROVE  RetryInv'
  <2>1. UNCHANGED <<reading, chains, pending, todo, staged, stored, heads, pc, attempt, failures, count>>
    BY <1>5 DEF AddBuilding
  <2> QED
    BY <2>1, RetryStill DEF Blameless
<1>6. CASE TakeBatch
  BY <1>6 DEF TakeBatch, RetryInv
<1>7. CASE BeginWrite
  <2>1. /\ pc = "begin" /\ pc' = "sign" /\ todo' = pending /\ stored' = already_stored(pending)
        /\ staged' = {} /\ heads' = chains
        /\ UNCHANGED <<reading, chains, pending, attempt, failures, count>>
    BY <1>7 DEF BeginWrite
  <2>2. SomeStorable(todo)' = SomeStorable(pending)
    BY <2>1 DEF SomeStorable, Storable
  <2>3. stored' = already_stored(pending)'
    BY <2>1 DEF already_stored
  <2>4. SigningInv'
    BY <2>1, <2>3 DEF SigningInv
  <2>5. Blameless' /\ attempt' = 2 => SomeStorable(todo)'
    BY <2>1, <2>2 DEF Blameless, RetryInv
  <2> QED
    BY <2>1, <2>4, <2>5 DEF RetryInv
<1>8. CASE SignNext
  <2> DEFINE r == Head(todo)
  <2>1. /\ pc = "sign" /\ todo # <<>> /\ todo' = Tail(todo) /\ pc' = pc
        /\ UNCHANGED <<reading, chains, pending, attempt, stored, failures, count>>
    BY <1>8 DEF SignNext
  <2>2. \/ IsDuplicate(r) /\ staged' = staged /\ heads' = heads
        \/ ~IsDuplicate(r) /\ staged' # {}
    BY <1>8 DEF SignNext
  <2>3. SigningInv
    BY <2>1 DEF RetryInv
  <2>4. staged = {} => (IsDuplicate(r) <=> ~Storable(r))
    BY <1>t, <2>1, <2>3, FirstTurn
  <2>5. /\ SomeStorable(todo) <=> Storable(r) \/ SomeStorable(Tail(todo))
        /\ \A i \in DOMAIN Tail(todo) : \E j \in DOMAIN todo : todo[j] = Tail(todo)[i]
    BY <1>s, <2>1, HeadOrTail
  <2>6. 1 \in DOMAIN todo /\ todo[1] = r
    BY <1>s, <2>1
  <2>7. Storable(r) => SomeStorable(pending)
    BY <2>3, <2>6 DEF SigningInv, SomeStorable
  <2> HIDE DEF r
  <2>8. /\ SomeStorable(pending)' = SomeStorable(pending)
        /\ SomeStorable(todo)' = SomeStorable(Tail(todo))
        /\ already_stored(pending)' = already_stored(pending)
    BY <2>1 DEF SomeStorable, Storable, already_stored
  <2>9. \A i \in DOMAIN todo' : \E j \in DOMAIN pending : pending[j] = todo'[i]
    BY <2>1, <2>3, <2>5 DEF SigningInv
  <2>10. IF staged' = {} THEN heads' = chains ELSE SomeStorable(pending)
    BY <2>2, <2>3, <2>4, <2>7 DEF SigningInv
  <2>11. SigningInv'
    BY <2>1, <2>3, <2>8, <2>9, <2>10 DEF SigningInv
  <2>12. Blameless' /\ attempt' = 2 => staged # {} \/ SomeStorable(todo)
    BY <2>1 DEF Blameless, RetryInv
  <2>13. staged # {} \/ SomeStorable(todo) => staged' # {} \/ SomeStorable(todo)'
    BY <2>2, <2>4, <2>5, <2>8
  <2> QED
    BY <2>1, <2>11, <2>12, <2>13 DEF RetryInv
<1>9. CASE Score \/ Refuse
  <2>1. /\ pc \in {"sign", "insert"}
        /\ pc = "sign" => staged # {}
        /\ pc' \in {"insert", "isolate"} /\ UNCHANGED <<reading, chains, pending>>
    BY <1>9 DEF Score, ScoreBatch, Refuse
  <2>2. SomeStorable(pending)
    BY <2>1 DEF RetryInv, SigningInv
  <2>3. SomeStorable(pending)'
    BY <2>1, <2>2 DEF SomeStorable, Storable
  <2> QED
    BY <2>1, <2>3 DEF RetryInv
<1>10. CASE QueryKnown \/ QueryFails
  <2>1. /\ pc = "isolate" /\ pc' = "filter" /\ todo' = pending /\ UNCHANGED <<reading, chains>>
    BY <1>10 DEF QueryKnown, QueryFails, AskKnown
  <2>2. SomeStorable(todo)'
    BY <2>1 DEF RetryInv, SomeStorable, Storable
  <2> QED
    BY <2>1, <2>2 DEF RetryInv
<1>11. CASE FilterNext
  <2>1. /\ pc = "filter" /\ pc' = pc /\ todo # <<>> /\ todo' = Tail(todo)
        /\ UNCHANGED <<reading, chains, failures>>
    BY <1>11 DEF FilterNext
  <2>2. Head(todo) \in Reading
    BY <1>s, <2>1
  <2>3. CASE Head(todo).building_id \in known
    <3>1. pending' = Append(pending, Head(todo)) /\ count' = count
      BY <1>11, <2>3 DEF FilterNext, Keep
    <3>2. /\ SomeStorable(todo) => Storable(Head(todo)) \/ SomeStorable(Tail(todo))
          /\ SomeStorable(pending) \/ Storable(Head(todo)) => SomeStorable(Append(pending, Head(todo)))
      BY <1>s, <2>1, <2>2, HeadOrTail, StorableAppend
    <3>3. /\ SomeStorable(pending)' = SomeStorable(Append(pending, Head(todo)))
          /\ SomeStorable(todo)' = SomeStorable(Tail(todo))
      BY <2>1, <3>1 DEF SomeStorable, Storable
    <3>4. Blameless' => SomeStorable(pending) \/ SomeStorable(todo)
      BY <2>1, <3>1 DEF Blameless, RetryInv
    <3> QED
      BY <2>1, <3>2, <3>3, <3>4 DEF RetryInv
  <2>4. CASE Head(todo).building_id \notin known
    <3>1. count'.rejected = count.rejected + 1
      BY <1>11, <1>s, <2>4 DEF FilterNext, Counters
    <3>2. ~Blameless'
      BY <1>s, <3>1 DEF Blameless
    <3> QED
      BY <2>1, <3>2 DEF RetryInv
  <2> QED
    BY <2>3, <2>4
<1>12. CASE Rewrite
  <2>1. /\ pc = "filter" /\ pc' = "begin" /\ todo = <<>>
        /\ UNCHANGED <<reading, chains, pending, failures, count>>
    BY <1>12 DEF Rewrite
  <2>2. ~SomeStorable(todo)
    BY <2>1 DEF SomeStorable
  <2>3. Blameless' => SomeStorable(pending)'
    BY <2>1, <2>2 DEF Blameless, RetryInv, SomeStorable, Storable
  <2> QED
    BY <2>1, <2>3 DEF RetryInv
<1> QED
  BY <1>1, <1>2, <1>3, <1>4, <1>5, <1>6, <1>7, <1>8, <1>9, <1>10, <1>11, <1>12
     DEF Next, LoopStep, Failure

\* A step that neither moves the queue nor loses a reading.
LEMMA OverflowStill ==
    ASSUME OverflowInv, UNCHANGED <<queue, incoming>>, Blameless' => Blameless,
           count'.lost = count.lost, count'.overflowed = count.overflowed
    PROVE  OverflowInv'
  BY DEF OverflowInv

LEMMA OverflowStep ==
    IInv /\ AccountInv /\ [Next]_vars => OverflowInv'
<1> SUFFICES ASSUME IInv, AccountInv, [Next]_vars
             PROVE  OverflowInv'
  OBVIOUS
<1>t. TypeOK /\ OverflowInv /\ RetryInv
  BY DEF IInv, AccountInv
<1>p. /\ Len(queue) \in Nat /\ MaxQueued \in Nat \ {0}
      /\ count.lost \in Nat /\ count.overflowed \in Nat /\ count.rejected \in Nat
  BY <1>t, PiecesType
<1>s. queue \in Seq(Reading) /\ incoming \in Seq(Reading) /\ count \in Counters /\ failures \in Nat
  BY <1>t DEF TypeOK, InboxOK
<1>i. /\ Len(queue) <= MaxQueued
      /\ ~Up => incoming = <<>> /\ count = NoCounts
  BY DEF AccountInv, CountInv
<1>n. NoCounts.lost = 0 /\ NoCounts.overflowed = 0
  BY DEF NoCounts
<1> USE DEF tables, marks, memory, call, mode, inbox, world
<1>1. ASSUME NEW r \in Reading, OnMessage(r)
      PROVE  OverflowInv'
  <2>1. /\ count'.lost = count.lost /\ count'.rejected = count.rejected
        /\ count'.overflowed = IF Len(queue) = MaxQueued THEN count.overflowed + 1 ELSE count.overflowed
        /\ queue' = queue /\ failures' = failures
    BY <1>1, <1>s DEF OnMessage, Counters
  <2>2. Blameless' => count.lost <= count.overflowed
    BY <1>t, <2>1 DEF Blameless, OverflowInv
  <2> QED
    BY <1>p, <2>1, <2>2 DEF OverflowInv
<1>2. CASE AppendReading
  <2>1. incoming # <<>> /\ incoming' = <<>> /\ failures' = failures
    BY <1>2 DEF AppendReading
  <2>2. CASE Len(queue) = MaxQueued
    <3>1. /\ count'.lost = count.lost + 1 /\ count'.overflowed = count.overflowed
          /\ count'.rejected = count.rejected
      BY <1>2, <1>s, <2>2 DEF AppendReading, Counters
    <3>2. Blameless' => count.lost < count.overflowed
      BY <1>t, <2>1, <2>2, <3>1 DEF Blameless, OverflowInv
    <3>3. Blameless' => count'.lost <= count'.overflowed
      BY <1>p, <3>1, <3>2
    <3> QED
      BY <2>1, <3>3 DEF OverflowInv
  <2>3. CASE Len(queue) # MaxQueued
    <3>1. count' = count
      BY <1>2, <2>3 DEF AppendReading
    <3> QED
      BY <1>t, <2>1, <3>1 DEF OverflowInv, Blameless
  <2> QED
    BY <2>2, <2>3
<1>3. CASE OnMalformed
  <2>1. /\ count'.lost = count.lost /\ count'.rejected = count.rejected
        /\ count'.overflowed = IF Len(queue) = MaxQueued THEN count.overflowed + 1 ELSE count.overflowed
        /\ queue' = queue /\ failures' = failures /\ incoming' = incoming /\ incoming = <<>>
    BY <1>3, <1>s DEF OnMalformed, Counters
  <2>2. Blameless' => count.lost <= count.overflowed
    BY <1>t, <2>1 DEF Blameless, OverflowInv
  <2> QED
    BY <1>p, <2>1, <2>2 DEF OverflowInv
<1>4. CASE Start
  <2>1. incoming' = <<>> /\ count' = NoCounts
    BY <1>4, <1>i DEF Start, Up
  <2> QED
    BY <1>n, <2>1 DEF OverflowInv
<1>5. CASE StartFails \/ WriteFails \/ QueryFails \/ CheckpointFails
  <2>1. failures' = failures + 1
    BY <1>5 DEF StartFails, WriteFails, Abandon, QueryFails, CheckpointFails
  <2> QED
    BY <1>s, <2>1 DEF OverflowInv, Blameless
<1>6. CASE TakeBatch
  <2> DEFINE n == IF Len(queue) < BatchRows THEN Len(queue) ELSE BatchRows
  <2>1. /\ queue # <<>> /\ queue' = SubSeq(queue, n + 1, Len(queue))
        /\ count' = count /\ failures' = failures
    BY <1>6 DEF TakeBatch
  <2>2. Len(queue) # 0
    BY <1>s, <2>1
  <2>3. n \in Nat /\ n <= Len(queue) /\ n >= 1
    BY <1>p, <2>2, IngestAssumption
  <2> HIDE DEF n
  <2>4. Len(queue') = Len(queue) - n
    BY <1>s, <1>p, <2>1, <2>3
  <2>5. Len(queue') # MaxQueued
    BY <1>p, <1>i, <2>3, <2>4
  <2> QED
    BY <1>t, <2>1, <2>5 DEF OverflowInv, Blameless
<1>7. CASE WriteNothing
  <2>1. /\ pc = "sign" /\ todo = <<>> /\ staged = {}
        /\ UNCHANGED <<queue, incoming, failures>>
        /\ count' = [count EXCEPT !.duplicates = IF attempt = 1 THEN @ + dups ELSE @,
                                  !.lost = IF attempt = 1 THEN @ ELSE @ + dups]
    BY <1>7 DEF WriteNothing
  <2>2. /\ count'.overflowed = count.overflowed /\ count'.rejected = count.rejected
        /\ attempt = 1 => count'.lost = count.lost
    BY <1>s, <2>1 DEF Counters
  <2>3. ~SomeStorable(todo)
    BY <2>1 DEF SomeStorable
  <2>4. Blameless => attempt = 1
    BY <1>t, <2>1, <2>3 DEF RetryInv, TypeOK, CallOK
  <2>5. Blameless' => Blameless
    BY <2>1, <2>2 DEF Blameless
  <2> QED
    BY <1>t, <2>1, <2>2, <2>4, <2>5 DEF OverflowInv
<1>8. CASE ApplyHeads
  <2>1. /\ UNCHANGED <<queue, incoming, failures>>
        /\ count' = [count EXCEPT !.duplicates = @ + dups, !.written = @ + Cardinality(staged)]
    BY <1>8 DEF ApplyHeads, FlushReturns
  <2>2. /\ count'.overflowed = count.overflowed /\ count'.rejected = count.rejected
        /\ count'.lost = count.lost
    BY <1>s, <2>1 DEF Counters
  <2> QED
    BY <1>t, <2>1, <2>2, OverflowStill DEF Blameless
<1>9. CASE FilterNext
  <2>1. UNCHANGED <<queue, incoming, failures>>
    BY <1>9 DEF FilterNext
  <2>2. /\ count'.overflowed = count.overflowed /\ count'.lost = count.lost
        /\ count'.rejected \in {count.rejected, count.rejected + 1}
    BY <1>9, <1>s DEF FilterNext, Counters
  <2>3. Blameless' => Blameless
    BY <1>p, <2>1, <2>2 DEF Blameless
  <2> QED
    BY <1>t, <2>1, <2>2, <2>3, OverflowStill
<1>10. CASE \/ FlushNothing \/ BeginWrite \/ SignNext \/ Score \/ Commit \/ Refuse \/ QueryKnown
            \/ DropBatch \/ Rewrite \/ CheckpointDb \/ AppendAnchor \/ CheckpointDone \/ Stop
            \/ Tick \/ UNCHANGED vars
  <2>1. UNCHANGED <<queue, incoming, count, failures>>
    BY <1>10 DEF FlushNothing, BeginWrite, SignNext, Score, ScoreBatch, Commit, Refuse, QueryKnown,
                 AskKnown, DropBatch, Rewrite, CheckpointDb, AppendAnchor, CheckpointDone, Stop,
                 Tick, vars
  <2> QED
    BY <1>t, <2>1, OverflowStill DEF Blameless
<1>11. CASE Exit \/ Crash
  <2>1. incoming' = <<>> /\ count' = NoCounts
    BY <1>11 DEF Exit, Crash, Forget
  <2> QED
    BY <1>n, <2>1 DEF OverflowInv
<1>12. ASSUME NEW b \in Building, AddBuilding(b)
       PROVE  OverflowInv'
  <2>1. UNCHANGED <<queue, incoming, count, failures>>
    BY <1>12 DEF AddBuilding
  <2> QED
    BY <1>t, <2>1, OverflowStill DEF Blameless
<1> QED
  BY <1>1, <1>2, <1>3, <1>4, <1>5, <1>6, <1>7, <1>8, <1>9, <1>10, <1>11, <1>12
     DEF Next, LoopStep, Failure

LEMMA InitAccount == Init => AccountInv
<1> SUFFICES ASSUME Init PROVE AccountInv
  OBVIOUS
<1>1. pc = "down" /\ queue = <<>> /\ incoming = <<>> /\ count = NoCounts
  BY DEF Init
<1>2. Len(queue) = 0 /\ Len(incoming) = 0 /\ count.lost = 0 /\ count.overflowed = 0
  BY <1>1 DEF NoCounts
<1>3. CountInv
  BY <1>1, <1>2, IngestAssumption DEF CountInv, BatchInv, Up
<1>4. RetryInv
  BY <1>1 DEF RetryInv
<1>5. OverflowInv
  BY <1>1, <1>2 DEF OverflowInv
<1> QED
  BY <1>3, <1>4, <1>5 DEF AccountInv

\* Every delivery to the process is waiting, being written, stored, or in the counter that
\* says why not, and while writes succeed and every building is known nothing is discarded
\* that `overflowed` does not count: flush, _write, _write_without_unknown and _on_message
\* lose no reading silently, whatever the batch size, the queue length and the deliveries.
THEOREM ReadingsStayAccounted == Spec => []EveryReadingAccounted
<1>1. Init => IInv /\ AccountInv
  BY InitInv, InitAccount
<1>2. (IInv /\ AccountInv) /\ [Next]_vars => (IInv /\ AccountInv)'
  <2>1. IInv /\ AccountInv /\ [Next]_vars => CountInv' /\ RetryInv' /\ OverflowInv'
    BY CountStep, RetryStep, OverflowStep DEF AccountInv
  <2> QED
    BY <2>1, StepInv DEF AccountInv
<1>3. IInv /\ AccountInv => EveryReadingAccounted
  <2> SUFFICES ASSUME IInv, AccountInv, Up
               PROVE  /\ Delivered = Accounted + count.lost
                      /\ count.lost > count.overflowed => failures > 0 \/ count.rejected > 0
    BY DEF EveryReadingAccounted
  <2>1. Delivered = Accounted + count.lost
    BY DEF AccountInv, CountInv
  <2>2. failures \in Nat /\ count.rejected \in Nat /\ count.lost \in Nat /\ count.overflowed \in Nat
    BY PiecesType DEF IInv, TypeOK
  <2>3. Blameless => count.lost <= count.overflowed
    BY DEF AccountInv, OverflowInv
  <2>4. ~Blameless => failures > 0 \/ count.rejected > 0
    BY <2>2 DEF Blameless
  <2> QED
    BY <2>1, <2>2, <2>3, <2>4
<1> QED
  BY <1>1, <1>2, <1>3, PTL DEF Spec

----------------------------------------------------------------------------
(* The order in which readings are stored *)

\* Three sequences of readings joined one way or the other.
LEMMA JoinedAnyhow ==
    ASSUME NEW a \in Seq(Reading), NEW b \in Seq(Reading), NEW c \in Seq(Reading)
    PROVE  (a \o b) \o c = a \o (b \o c)
  BY ConcatAssociative

\* The line is a sequence of readings.
LEMMA LineType ==
    ASSUME TypeOK
    PROVE  /\ pending \in Seq(Reading) /\ todo \in Seq(Reading) /\ queue \in Seq(Reading)
           /\ incoming \in Seq(Reading) /\ arrived \in Seq(Reading) /\ since \in Nat
           /\ Batch \in Seq(Reading) /\ Line \in Seq(Reading) /\ Line = Batch \o (queue \o incoming)
<1>1. /\ pending \in Seq(Reading) /\ todo \in Seq(Reading) /\ queue \in Seq(Reading)
      /\ incoming \in Seq(Reading) /\ arrived \in Seq(Reading) /\ since \in Nat
  BY DEF TypeOK, CallOK, InboxOK, WorldOK
<1>2. pending \o todo \in Seq(Reading) /\ <<>> \in Seq(Reading)
  BY <1>1, ConcatProperties
<1>3. Batch \in Seq(Reading)
  BY <1>1, <1>2 DEF Batch
<1>4. Batch \o queue \in Seq(Reading)
  BY <1>1, <1>3, ConcatProperties
<1>5. Line \in Seq(Reading)
  BY <1>1, <1>4, ConcatProperties DEF Line
<1>6. Line = Batch \o (queue \o incoming)
  <2>1. (Batch \o queue) \o incoming = Batch \o (queue \o incoming)
    <3>1. queue \in Seq(Reading) /\ incoming \in Seq(Reading)
      BY <1>1
    <3> QED
      BY <1>3, <3>1, JoinedAnyhow
  <2> QED
    BY <2>1 DEF Line
<1> QED
  BY <1>1, <1>3, <1>5, <1>6

\* The queue's front and the rest, put together again.
LEMMA SplitSeq ==
    ASSUME NEW s \in Seq(Reading), NEW n \in Nat, n <= Len(s)
    PROVE  SubSeq(s, 1, n) \o SubSeq(s, n + 1, Len(s)) = s
<1>1. Len(s) \in Nat /\ 1 \in 1..Len(s) + 1 /\ n \in 1 - 1..Len(s) /\ Len(s) \in n..Len(s)
  OBVIOUS
<1>2. SubSeq(s, 1, n) \o SubSeq(s, n + 1, Len(s)) = SubSeq(s, 1, Len(s))
  BY <1>1, ConcatAdjacentSubSeq
<1> QED
  BY <1>2, SubSeqFull

\* _on_message and _write_without_unknown move a reading from one end to another.
LEMMA MovedAcross ==
    ASSUME NEW s \in Seq(Reading), NEW t \in Seq(Reading), t # <<>>
    PROVE  /\ Append(s, Head(t)) \o Tail(t) = s \o t
           /\ Append(s, Head(t)) = s \o <<Head(t)>>
           /\ t = <<Head(t)>> \o Tail(t)
<1>1. Head(t) \in Reading /\ Tail(t) \in Seq(Reading) /\ <<Head(t)>> \in Seq(Reading)
  OBVIOUS
<1>2. Append(s, Head(t)) = s \o <<Head(t)>>
  BY <1>1, AppendIsConcat
<1>3. t = <<Head(t)>> \o Tail(t)
  <2>1. Len(t) \in Nat /\ Len(t) # 0
    OBVIOUS
  <2>2. SubSeq(t, 1, Len(t)) = <<t[1]>> \o SubSeq(t, 1 + 1, Len(t))
    BY <2>1, SubSeqRecursiveFirst
  <2>3. SubSeq(t, 1, Len(t)) = t /\ Tail(t) = SubSeq(t, 2, Len(t)) /\ Head(t) = t[1]
    BY SubSeqFull, TailIsSubSeq
  <2> QED
    BY <2>2, <2>3
<1>4. (s \o <<Head(t)>>) \o Tail(t) = s \o (<<Head(t)>> \o Tail(t))
  BY <1>1, ConcatAssociative
<1> QED
  BY <1>2, <1>3, <1>4

LEMMA NoneDiscarded ==
    ASSUME TypeOK, ~Discards
    PROVE  count.lost = 0 /\ count.misjudged = 0
  BY PiecesType DEF Discards, TypeOK, InboxOK, Counters

\* Taking a batch, putting it back, asking for the known ids, keeping a reading: none of
\* these changes the line, as long as nothing is discarded.
LEMMA LineStays ==
    ASSUME TypeOK, TypeOK', CountInv, ~Discards, ~Discards',
           \/ TakeBatch \/ AppendReading \/ WriteFails \/ QueryKnown \/ QueryFails
           \/ FilterNext /\ Head(todo).building_id \in known
           \/ DropBatch \/ Rewrite
    PROVE  Line' = Line
<1>t. /\ pending \in Seq(Reading) /\ todo \in Seq(Reading) /\ queue \in Seq(Reading)
      /\ incoming \in Seq(Reading) /\ Batch \in Seq(Reading) /\ <<>> \in Seq(Reading)
      /\ Line = Batch \o (queue \o incoming) /\ queue \o incoming \in Seq(Reading)
  BY LineType, ConcatProperties
<1>p. /\ Line' = (Batch' \o queue') \o incoming' /\ Line = (Batch \o queue) \o incoming
  BY DEF Line
<1>c. count.lost = 0 /\ count'.lost = 0
  <2>1. count'.lost \in Nat /\ count'.misjudged \in Nat
    BY DEF TypeOK, InboxOK, Counters
  <2>2. count'.lost + count'.misjudged = 0
    BY <2>1 DEF Discards
  <2> QED
    BY <2>1, <2>2, NoneDiscarded
<1>1. CASE TakeBatch
  <2> DEFINE n == IF Len(queue) < BatchRows THEN Len(queue) ELSE BatchRows
  <2>1. /\ pc = "idle" /\ pc' = "begin" /\ incoming' = incoming
        /\ pending' = SubSeq(queue, 1, n) /\ queue' = SubSeq(queue, n + 1, Len(queue))
    BY <1>1 DEF TakeBatch
  <2>2. n \in Nat /\ n <= Len(queue)
    <3>1. Len(queue) \in Nat /\ BatchRows \in Nat
      BY <1>t, IngestAssumption
    <3> QED
      BY <3>1
  <2> HIDE DEF n
  <2>3. Batch = <<>> /\ Batch' = pending'
    BY <2>1 DEF Batch
  <2>4. Batch' \o queue' = queue
    BY <1>t, <2>1, <2>2, <2>3, SplitSeq
  <2>5. Batch \o queue = queue
    BY <1>t, <2>3, ConcatEmptySeq
  <2> QED
    BY <1>p, <2>1, <2>4, <2>5
<1>2. CASE AppendReading
  <2>1. /\ incoming # <<>> /\ incoming' = <<>> /\ UNCHANGED <<pc, pending, todo>>
        /\ Len(queue) # MaxQueued => queue' = Append(queue, incoming[1])
        /\ Len(queue) = MaxQueued => count' = [count EXCEPT !.lost = @ + 1]
    BY <1>2 DEF AppendReading, call
  <2>2. Len(queue) # MaxQueued
    <3>1. Len(queue) = MaxQueued => count'.lost = 1
      BY <1>c, <2>1 DEF TypeOK, InboxOK, Counters
    <3> QED
      BY <1>c, <3>1
  <2>3. incoming = <<incoming[1]>> /\ Head(incoming) = incoming[1] /\ incoming[1] \in Reading
    <3>1. Len(incoming) = 1
      <4>1. Len(incoming) \in Nat /\ Len(incoming) # 0 /\ Len(incoming) <= 1
        BY <1>t, <2>1 DEF CountInv
      <4> QED
        BY <4>1
    <3>2. incoming[1] \in Reading
      <4>1. incoming \in Seq(Reading) /\ 1 \in 1..Len(incoming)
        BY <1>t, <3>1
      <4> QED
        BY <4>1, ElementOfSeq
    <3>3. Head(incoming) = incoming[1]
      BY <1>t, <3>1
    <3>4. incoming = <<incoming[1]>>
      <4>1. <<incoming[1]>> \in Seq(Reading) /\ Len(<<incoming[1]>>) = 1
        BY <3>2
      <4>2. \A i \in 1..Len(incoming) : incoming[i] = <<incoming[1]>>[i]
        BY <3>1
      <4> QED
        BY <1>t, <3>1, <4>1, <4>2, SeqEqual
    <3> QED
      BY <3>2, <3>3, <3>4
  <2>4. queue' = queue \o incoming
    <3>1. queue' = Append(queue, incoming[1]) /\ incoming = <<incoming[1]>>
      BY <2>1, <2>2, <2>3
    <3>2. Append(queue, incoming[1]) = queue \o <<incoming[1]>>
      BY <1>t, <2>3, AppendIsConcat
    <3> QED
      BY <3>1, <3>2
  <2>5. Batch' = Batch
    BY <2>1 DEF Batch
  <2>6. Batch \o queue' \in Seq(Reading)
    BY <1>t, <2>4, ConcatProperties
  <2>7. (Batch \o queue') \o <<>> = Batch \o queue'
    BY <2>6, ConcatEmptySeq
  <2> QED
    BY <1>p, <1>t, <2>1, <2>4, <2>5, <2>7
<1>3. CASE WriteFails
  <2>1. /\ pc \in {"begin", "sign", "insert"} /\ pc' = "idle" /\ incoming' = incoming
        /\ queue' = IF attempt = 1 THEN Requeue(pending, queue) ELSE queue
        /\ count' = [count EXCEPT !.lost = @ + Discarded]
    BY <1>3 DEF WriteFails, Abandon
  <2>2. Batch = pending /\ Batch' = <<>>
    BY <2>1 DEF Batch
  <2>3. Discarded = 0
    <3>1. count'.lost = count.lost + Discarded
      BY <2>1 DEF TypeOK, InboxOK, Counters
    <3>2. Discarded \in Nat
      BY <1>t, DiscardedType
    <3> QED
      BY <1>c, <3>1, <3>2
  <2>4. queue' = pending \o queue
    <3>1. CASE attempt = 2
      <4>1. Len(pending) = 0
        BY <2>3, <3>1 DEF Discarded
      <4>2. pending = <<>>
        BY <1>t, <4>1
      <4> QED
        BY <1>t, <2>1, <3>1, <4>2, ConcatEmptySeq
    <3>2. CASE attempt = 1
      <4>1. Len(pending \o queue) = Len(pending) + Len(queue)
        BY <1>t, ConcatProperties
      <4>2. ~(Len(pending) + Len(queue) - MaxQueued > 0)
        BY <2>3, <3>2 DEF Discarded
      <4>3. Len(pending) \in Nat /\ Len(queue) \in Nat /\ MaxQueued \in Nat
        BY <1>t, IngestAssumption
      <4>4. Len(pending \o queue) <= MaxQueued
        BY <4>1, <4>2, <4>3
      <4> QED
        BY <2>1, <3>2, <4>4 DEF Requeue
    <3> QED
      BY <3>1, <3>2 DEF TypeOK, CallOK
  <2>5. pending \o queue \in Seq(Reading)
    BY <1>t, ConcatProperties
  <2>6. <<>> \o (pending \o queue) = pending \o queue
    BY <2>5, ConcatEmptySeq
  <2> QED
    BY <1>p, <2>1, <2>2, <2>4, <2>6
<1>4. CASE QueryKnown \/ QueryFails
  <2>1. /\ pc = "isolate" /\ pc' = "filter" /\ pending' = <<>> /\ todo' = pending
        /\ UNCHANGED <<queue, incoming>>
    BY <1>4 DEF QueryKnown, QueryFails, AskKnown, inbox
  <2>2. Batch = pending /\ Batch' = <<>> \o pending
    BY <2>1 DEF Batch
  <2>3. Batch' = Batch
    BY <1>t, <2>2, ConcatEmptySeq
  <2> QED
    BY <1>p, <2>1, <2>3
<1>5. CASE FilterNext /\ Head(todo).building_id \in known
  <2>1. /\ pc = "filter" /\ pc' = "filter" /\ todo # <<>> /\ todo' = Tail(todo)
        /\ pending' = Append(pending, Head(todo)) /\ UNCHANGED <<queue, incoming>>
    BY <1>5 DEF FilterNext, Keep
  <2>2. Batch = pending \o todo /\ Batch' = pending' \o todo'
    BY <2>1 DEF Batch
  <2>3. Batch' = Batch
    BY <1>t, <2>1, <2>2, MovedAcross
  <2> QED
    BY <1>p, <2>1, <2>3
<1>6. CASE DropBatch
  <2>1. /\ pc = "filter" /\ pc' = "idle" /\ todo = <<>> /\ pending = <<>>
        /\ UNCHANGED <<queue, incoming>>
    BY <1>6 DEF DropBatch, inbox
  <2>2. Batch = <<>> \o <<>> /\ Batch' = <<>>
    BY <2>1 DEF Batch
  <2>3. Batch' = Batch
    BY <1>t, <2>2, ConcatEmptySeq
  <2> QED
    BY <1>p, <2>1, <2>3
<1>7. CASE Rewrite
  <2>1. /\ pc = "filter" /\ pc' = "begin" /\ todo = <<>> /\ pending' = pending
        /\ UNCHANGED <<queue, incoming>>
    BY <1>7 DEF Rewrite, inbox
  <2>2. Batch = pending \o <<>> /\ Batch' = pending
    BY <2>1 DEF Batch
  <2>3. Batch' = Batch
    BY <1>t, <2>2, ConcatEmptySeq
  <2> QED
    BY <1>p, <2>1, <2>3
<1> QED
  BY <1>1, <1>2, <1>3, <1>4, <1>5, <1>6, <1>7

\* A step that leaves the line, the deliveries and the table alone.
LEMMA LineKept ==
    ASSUME NEW f, LineInv(f, Line), UNCHANGED <<arrived, since, resumed, reading>>,
           Line' = Line, SignedInv(f)'
    PROVE  LineInv(f, Line)'
<1>1. Here' = Here /\ Keys(reading)' = Keys(reading)
  BY DEF Here, Keys, Key
<1>2. Placed(f, Line)'
  BY <1>1 DEF LineInv, Placed
<1>3. \A k \in Here : InOrder(k)' <=> InOrder(k)
  BY DEF InOrder
<1>4. SettledInv(f, Line)'
  BY <1>1, <1>3 DEF LineInv, SettledInv, Key
<1>5. StoredInv(f, Line)'
  BY <1>1 DEF LineInv, StoredInv, Key
<1> QED
  BY <1>2, <1>4, <1>5 DEF LineInv

LEMMA TodoStep ==
    ASSUME IInv, TodoInv, [Next]_vars
    PROVE  TodoInv'
<1>t. /\ pending \in Seq(Reading) /\ todo \in Seq(Reading)
      /\ Len(pending) \in Nat /\ Len(todo) \in Nat /\ DOMAIN todo = 1..Len(todo)
  BY LineType DEF IInv
<1>1. CASE BeginWrite
  <2>1. /\ pc' = "sign" /\ pending' = pending /\ todo' = pending /\ staged' = {}
    BY <1>1 DEF BeginWrite
  <2>2. Done' = 0 /\ Len(todo') <= Len(pending') /\ DOMAIN todo' = 1..Len(pending)
    BY <1>t, <2>1 DEF Done
  <2>3. \A q \in DOMAIN todo' : Done' + q = q
    BY <2>2
  <2> QED
    BY <2>1, <2>2, <2>3 DEF TodoInv
<1>2. CASE SignNext
  <2> DEFINE row == SignedRow(Head(todo), heads[Head(todo).building_id])
  <2>1. /\ pc = "sign" /\ pc' = "sign" /\ todo # <<>> /\ todo' = Tail(todo) /\ pending' = pending
        /\ staged' = staged \/ staged' = staged \cup {row}
    BY <1>2 DEF SignNext
  <2>2. /\ Len(todo) <= Len(pending) /\ \A q \in DOMAIN todo : todo[q] = pending[Done + q]
        /\ \A r \in staged : \E p \in 1..Done : Key(pending[p]) = Key(r)
    BY <1>t, <2>1 DEF TodoInv
  <2>3. /\ Len(todo') = Len(todo) - 1 /\ Len(todo) # 0 /\ DOMAIN todo' = 1..(Len(todo) - 1)
        /\ \A q \in DOMAIN todo' : todo'[q] = todo[q + 1]
    BY <1>t, <2>1
  <2>4. Done \in Nat /\ Done' = Done + 1
    BY <1>t, <2>1, <2>2, <2>3 DEF Done
  <2>5. \A q \in DOMAIN todo' : todo'[q] = pending[Done' + q]
    <3> TAKE q \in DOMAIN todo'
    <3>1. q + 1 \in DOMAIN todo /\ Done + (q + 1) = (Done + 1) + q
      BY <1>t, <2>3, <2>4
    <3> QED
      BY <2>2, <2>3, <2>4, <3>1
  <2>6. Key(pending[Done + 1]) = Key(row)
    <3>1. Head(todo) = todo[1] /\ 1 \in DOMAIN todo
      BY <1>t, <2>3
    <3>2. Head(todo) = pending[Done + 1]
      BY <2>2, <3>1
    <3> QED
      BY <3>2 DEF SignedRow, Key
  <2> HIDE DEF row
  <2>7. \A r \in staged' : \E p \in 1..Done' : Key(pending'[p]) = Key(r)
    <3> TAKE r \in staged'
    <3>1. CASE r \in staged
      <4>1. PICK p \in 1..Done : Key(pending[p]) = Key(r)
        BY <2>2, <3>1
      <4>2. p \in 1..Done'
        BY <2>4
      <4> QED
        BY <2>1, <4>1, <4>2
    <3>2. CASE r = row
      <4>1. Done + 1 \in 1..Done'
        BY <2>4
      <4> QED
        BY <2>1, <2>6, <3>2, <4>1
    <3> QED
      BY <2>1, <3>1, <3>2
  <2>8. Len(todo') <= Len(pending')
    BY <1>t, <2>1, <2>2, <2>3
  <2>9. \A r \in staged' : \E p \in 1..Done' : Key(pending[p])' = Key(r)
    BY <2>7 DEF Key
  <2> QED
    BY <2>1, <2>5, <2>8, <2>9 DEF TodoInv, Key
<1>3. CASE Score
  <2>1. pc = "sign" /\ pc' = "insert" /\ todo = <<>> /\ UNCHANGED <<pending, todo, staged>>
    BY <1>3 DEF Score, ScoreBatch
  <2> QED
    BY <2>1 DEF TodoInv, Done, Key
<1>4. CASE UNCHANGED <<pc, pending, todo, staged>>
  BY <1>4 DEF TodoInv, Done, Key
<1>5. CASE pc' \notin {"sign", "insert"}
  BY <1>5 DEF TodoInv
<1>6. ASSUME NEW r \in Reading, OnMessage(r)
      PROVE  TodoInv'
  BY <1>4, <1>6 DEF OnMessage, call
<1>7. ASSUME NEW b \in Building, AddBuilding(b)
      PROVE  TodoInv'
  BY <1>4, <1>7 DEF AddBuilding, call
<1>8. CASE AppendReading \/ OnMalformed \/ Tick \/ UNCHANGED vars
  BY <1>4, <1>8 DEF AppendReading, OnMalformed, Tick, vars, call
<1>9. CASE
      \/ FlushNothing \/ TakeBatch \/ WriteNothing \/ Commit \/ ApplyHeads \/ Refuse \/ QueryKnown
      \/ FilterNext \/ DropBatch \/ Rewrite \/ CheckpointDb \/ AppendAnchor \/ CheckpointDone
      \/ Exit \/ Start \/ Failure \/ Stop
  BY <1>5, <1>9 DEF FlushNothing, TakeBatch, WriteNothing, Commit, ApplyHeads, Refuse, QueryKnown, QueryFails,
         AskKnown, FilterNext, DropBatch, Rewrite, CheckpointDb, CheckpointDue, AppendAnchor,
         CheckpointDone, Exit, Start, Failure, StartFails, WriteFails, Abandon, CheckpointFails,
         Crash, Forget, Stop
<1> QED
  BY <1>1, <1>2, <1>3, <1>4, <1>5, <1>6, <1>7, <1>8, <1>9 DEF Next, LoopStep

\* The readings in the batch and the deliveries they are.
LEMMA BatchPlaces ==
    ASSUME TypeOK, NEW f, Placed(f, Line), pc \in {"begin", "sign", "insert", "isolate"}
    PROVE  /\ Batch = pending /\ Len(Line) = Len(pending) + Len(queue \o incoming)
           /\ \A p \in 1..Len(pending) :
                 /\ p \in DOMAIN Line /\ f[p] \in Here /\ Line[p] = pending[p]
                 /\ pending[p] = arrived[f[p]]
<1>1. Batch = pending
  BY DEF Batch
<1>2. /\ pending \in Seq(Reading) /\ queue \in Seq(Reading) /\ incoming \in Seq(Reading)
      /\ Line = pending \o (queue \o incoming) /\ Line \in Seq(Reading)
  BY <1>1, LineType
<1>3. queue \o incoming \in Seq(Reading)
  BY <1>2, ConcatProperties
<1>4. /\ Len(Line) = Len(pending) + Len(queue \o incoming)
      /\ \A p \in 1..Len(pending) + Len(queue \o incoming) : p <= Len(pending) => Line[p] = pending[p]
  BY <1>2, <1>3, ConcatProperties
<1>5. Len(pending) \in Nat /\ Len(queue \o incoming) \in Nat /\ DOMAIN Line = 1..Len(Line)
  BY <1>2, <1>3
<1>6. \A p \in 1..Len(pending) : p \in DOMAIN Line /\ Line[p] = pending[p]
  BY <1>4, <1>5
<1> QED
  BY <1>1, <1>4, <1>6 DEF Placed

LEMMA ArrivedTypes ==
    ASSUME TypeOK
    PROVE  /\ \A k \in Here : /\ k \in Nat /\ k \in DOMAIN arrived /\ arrived[k].ts \in Nat
                              /\ arrived[k].building_id \in Building
           /\ \A r \in reading : r.ts \in Nat /\ r.building_id \in Building
           /\ \A b \in Building : resumed[b].last_ts \in Int /\ heads[b].last_ts \in Int
           /\ Len(arrived) \in Nat /\ since \in Nat /\ DOMAIN arrived = 1..Len(arrived)
<1>1. /\ arrived \in Seq(Reading) /\ since \in Nat /\ Len(arrived) \in Nat
      /\ DOMAIN arrived = 1..Len(arrived)
  BY LineType
<1>2. \A k \in Here : k \in Nat /\ k \in DOMAIN arrived
  BY <1>1 DEF Here
<1>3. \A k \in Here : arrived[k].ts \in Nat /\ arrived[k].building_id \in Building
  BY <1>1, <1>2, IngestAssumption
<1>4. \A r \in reading : r.ts \in Nat /\ r.building_id \in Building
  BY DEF TypeOK, TablesOK, Row
<1>5. \A b \in Building : resumed[b] \in ChainState /\ heads[b] \in ChainState
  BY DEF TypeOK, WorldOK, CallOK
<1>6. \A h \in ChainState : h.last_ts \in Int
  BY DEF ChainState
<1> QED
  BY <1>1, <1>2, <1>3, <1>4, <1>5, <1>6

\* A reading that arrived in order is newer than the head the signing loop has come to:
\* what that head stands on is older than this process or arrived earlier.
LEMMA StillNewer ==
    ASSUME IInv, TodoInv, pc = "sign", NEW f, LineInv(f, Line),
           Done + 1 <= Len(pending), NEW r, r = pending[Done + 1],
           r.building_id \in InitialPortfolio, InOrder(f[Done + 1])
    PROVE  r.ts > heads[r.building_id].last_ts
<1> DEFINE p == Done + 1
           b == r.building_id
<1>t. TypeOK /\ Placed(f, Line) /\ SettledInv(f, Line) /\ StoredInv(f, Line) /\ ChainInv
  BY DEF IInv, LineInv, InFlightConsistent
<1>n. Len(pending) \in Nat /\ Len(todo) \in Nat /\ Len(todo) <= Len(pending) /\ Done \in Nat
  BY <1>t, LineType DEF TodoInv, Done
<1>1. p \in 1..Len(pending)
  BY <1>n
<1>2. p \in DOMAIN Line /\ f[p] \in Here /\ Line[p] = r /\ r = arrived[f[p]]
  BY <1>1, <1>t, BatchPlaces
<1>3. r.ts \in Nat /\ b \in Building /\ f[p] \in Nat
  BY <1>2, <1>t, ArrivedTypes
<1>4. r.ts > resumed[b].last_ts
  BY <1>2 DEF InOrder
<1>5. ASSUME NEW k \in Here, k < f[p], arrived[k].building_id = b
      PROVE  arrived[k].ts < r.ts
  <2>1. k \in since + 1..f[p] - 1
    BY <1>3, <1>5, <1>t, ArrivedTypes DEF Here
  <2> QED
    BY <1>2, <1>5, <2>1 DEF InOrder
<1> HIDE DEF p
<1>6. HeadOf(heads[b], b, reading \cup staged)
  BY <1>3, <1>t DEF ChainInv, HeadsOf
<1>7. CASE heads[b] = NoChain
  BY <1>3, <1>7 DEF NoChain
<1>8. CASE \E x \in RowsOf(reading \cup staged, b) : heads[b] = HeadAt(x)
  <2>1. PICK x \in RowsOf(reading \cup staged, b) : heads[b] = HeadAt(x)
    BY <1>8
  <2>2. /\ x \in reading \/ x \in staged
        /\ x.building_id = b /\ heads[b].last_ts = x.ts
    BY <2>1 DEF RowsOf, HeadAt
  <2>3. CASE x \in reading
    <3>1. x.ts \in Nat /\ resumed[b].last_ts \in Int
      BY <1>3, <1>t, <2>3, ArrivedTypes
    <3>2. CASE x.ts <= resumed[b].last_ts
      BY <1>3, <1>4, <2>2, <3>1, <3>2
    <3>3. CASE \E k \in Here : Key(arrived[k]) = Key(x) /\ \A q \in DOMAIN Line : f[q] # k
      <4>1. PICK k \in Here : Key(arrived[k]) = Key(x) /\ \A q \in DOMAIN Line : f[q] # k
        BY <3>3
      <4>2. arrived[k].building_id = b /\ arrived[k].ts = x.ts
        BY <2>2, <4>1 DEF Key
      <4>3. k < f[p]
        BY <1>2, <1>t, <4>1, <4>2 DEF SettledInv
      <4>4. x.ts < r.ts
        BY <1>5, <4>2, <4>3
      <4> QED
        BY <1>3, <2>2, <3>1, <4>4
    <3> QED
      BY <1>t, <2>2, <2>3, <3>2, <3>3 DEF StoredInv
  <2>4. CASE x \in staged
    <3>1. PICK q \in 1..Done : Key(pending[q]) = Key(x)
      BY <2>4 DEF TodoInv
    <3>2. q \in 1..Len(pending) /\ q < p
      BY <1>n DEF p
    <3>3. q \in DOMAIN Line /\ f[q] \in Here /\ pending[q] = arrived[f[q]]
      BY <1>t, <3>2, BatchPlaces
    <3>4. f[q] < f[p]
      BY <1>2, <1>t, <3>2, <3>3 DEF Placed
    <3>5. arrived[f[q]].building_id = b /\ arrived[f[q]].ts = x.ts /\ arrived[f[q]].ts \in Nat
      BY <1>t, <2>2, <3>1, <3>3, ArrivedTypes DEF Key
    <3>6. x.ts < r.ts
      BY <1>5, <3>3, <3>4, <3>5
    <3> QED
      BY <1>3, <2>2, <3>5, <3>6
  <2> QED
    BY <2>2, <2>3, <2>4
<1> QED
  BY <1>6, <1>7, <1>8 DEF HeadOf

LEMMA SignOrder ==
    ASSUME IInv, AccountInv, TodoInv, NEW f, LineInv(f, Line), SignNext
    PROVE  SignedInv(f)'
<1> DEFINE r == Head(todo)
           row == SignedRow(r, heads[r.building_id])
<1>1. /\ pc = "sign" /\ pc' = "sign" /\ todo # <<>> /\ todo' = Tail(todo)
      /\ UNCHANGED <<pending, reading, arrived, since, resumed>>
      /\ ~IsDuplicate(r) => staged' = staged \cup {row}
      /\ staged \subseteq staged'
  BY DEF SignNext, tables, world
<1>t. TypeOK /\ SignedInv(f)
  BY DEF IInv, LineInv
<1>n. /\ Len(pending) \in Nat /\ Len(todo) \in Nat /\ Len(todo) <= Len(pending) /\ Len(todo) # 0
      /\ Done \in Nat /\ Done' = Done + 1 /\ Done + 1 <= Len(pending)
  <2>1. /\ Len(pending) \in Nat /\ Len(todo) \in Nat /\ Len(todo) # 0 /\ Len(todo') = Len(todo) - 1
    BY <1>1, <1>t, LineType
  <2>2. Len(todo) <= Len(pending)
    BY <1>1 DEF TodoInv
  <2> QED
    BY <1>1, <2>1, <2>2 DEF Done
<1>2. r = pending[Done + 1]
  <2>1. r = todo[1] /\ 1 \in DOMAIN todo
    BY <1>1, <1>t, LineType
  <2> QED
    BY <1>1, <2>1 DEF TodoInv
<1>3. Key(row) = Key(r)
  BY DEF SignedRow, Key
<1>4. ASSUME r.building_id \in InitialPortfolio, InOrder(f[Done + 1])
      PROVE  Key(r) \in Keys(reading \cup staged')
  <2>1. CASE ~IsDuplicate(r)
    <3> HIDE DEF row
    <3> QED
      BY <1>1, <1>3, <2>1 DEF Keys
  <2>2. CASE IsDuplicate(r)
    <3>1. r.ts > heads[r.building_id].last_ts
      BY <1>1, <1>2, <1>4, <1>n, StillNewer
    <3>2. r.ts \in Nat /\ heads[r.building_id].last_ts \in Int
      <4>1. r \in Reading
        BY <1>1, <1>t, LineType
      <4>2. r.ts \in Nat /\ r.building_id \in Building
        BY <4>1, IngestAssumption
      <4> QED
        BY <1>t, <4>2, ArrivedTypes
    <3>3. Key(r) \in stored
      BY <2>2, <3>1, <3>2 DEF IsDuplicate
    <3>4. stored = already_stored(pending)
      BY <1>1 DEF AccountInv, RetryInv, SigningInv
    <3>5. Key(r) \in Keys(reading)
      BY <3>3, <3>4 DEF already_stored
    <3> QED
      BY <3>5 DEF Keys
  <2> QED
    BY <2>1, <2>2
<1> HIDE DEF r, row
<1>5. ASSUME NEW p \in 1..Done + 1,
             pending[p].building_id \in InitialPortfolio, InOrder(f[p])
      PROVE  Key(pending[p]) \in Keys(reading \cup staged')
  <2>1. CASE p = Done + 1
    BY <1>2, <1>4, <1>5, <2>1
  <2>2. CASE p \in 1..Done
    <3>1. Key(pending[p]) \in Keys(reading \cup staged)
      BY <1>1, <1>5, <1>t, <2>2 DEF SignedInv
    <3> QED
      BY <1>1, <3>1 DEF Keys
  <2> QED
    BY <1>n, <2>1, <2>2
<1>6. \A k : InOrder(k)' <=> InOrder(k)
  BY <1>1 DEF InOrder
<1> QED
  BY <1>1, <1>5, <1>6, <1>n DEF SignedInv, Keys, Key

\* A delivery joins the line at its end.
LEMMA LineJoined ==
    ASSUME IInv, AccountInv, TodoInv, NEW f, LineInv(f, Line), NEW r \in Reading, OnMessage(r)
    PROVE  \E g \in [DOMAIN Line' -> Here'] : LineInv(g, Line)'
<1>1. /\ incoming = <<>> /\ incoming' = <<r>> /\ arrived' = Append(arrived, r)
      /\ UNCHANGED <<pc, pending, todo, staged, queue, reading, since, resumed>>
  BY DEF OnMessage, call, tables
<1>t. TypeOK /\ Placed(f, Line) /\ SettledInv(f, Line) /\ StoredInv(f, Line) /\ SignedInv(f)
  BY DEF IInv, LineInv
<1>a. /\ arrived \in Seq(Reading) /\ Len(arrived) \in Nat /\ since \in Nat
      /\ DOMAIN arrived = 1..Len(arrived) /\ Line \in Seq(Reading) /\ Len(Line) \in Nat
      /\ DOMAIN Line = 1..Len(Line)
  BY <1>t, LineType
<1>2. Line' = Append(Line, r)
  <2>1. Batch' = Batch
    BY <1>1 DEF Batch
  <2>2. Batch \o queue \in Seq(Reading)
    BY <1>t, LineType, ConcatProperties
  <2>3. Line = (Batch \o queue) \o <<>> /\ Line' = (Batch \o queue) \o <<r>>
    BY <1>1, <2>1 DEF Line
  <2>4. Line = Batch \o queue
    BY <2>2, <2>3, ConcatEmptySeq
  <2> QED
    BY <1>a, <2>3, <2>4, AppendIsConcat
<1> DEFINE n == Len(Line)
           m == Len(arrived)
           h == [p \in 1..n + 1 |-> IF p <= n THEN f[p] ELSE m + 1]
<1>g. PICK g : g = h
  OBVIOUS
<1>3. /\ DOMAIN Line' = 1..n + 1 /\ Line'[n + 1] = r
      /\ \A p \in 1..n : Line'[p] = Line[p]
  BY <1>2, <1>a
<1>4. /\ Len(arrived') = m + 1 /\ arrived'[m + 1] = r
      /\ \A k \in 1..m : arrived'[k] = arrived[k]
  BY <1>1, <1>a
<1>5. /\ Here' = since + 1..m + 1 /\ Here = since + 1..m
      /\ \A k \in Here' : k # m + 1 => k \in Here
      /\ \A k \in Here : k \in Here' /\ k \in 1..m /\ k < m + 1
  BY <1>1, <1>4, <1>a DEF Here
<1>s. m + 1 \in Here'
  <2>1. since <= m
    <3>1. Up /\ Delivered = Accounted + count.lost
      BY DEF OnMessage, AccountInv, CountInv
    <3>2. Delivered \in Nat
      <4>1. /\ Len(queue) \in Nat /\ Len(incoming) \in Nat /\ InBatch \in Nat
            /\ count.written \in Nat /\ count.duplicates \in Nat /\ count.rejected \in Nat
            /\ count.lost \in Nat
        BY <1>t, PiecesType
      <4>2. Accounted \in Nat
        BY <4>1 DEF Accounted
      <4> QED
        BY <3>1, <4>1, <4>2
    <3> QED
      BY <1>a, <3>2 DEF Delivered, m
  <2> QED
    BY <1>a, <1>5, <2>1
<1>6. /\ \A p \in 1..n : g[p] = f[p] /\ f[p] \in Here
      /\ g[n + 1] = m + 1 /\ DOMAIN g = 1..n + 1
      /\ \A p \in 1..n + 1 : p = n + 1 \/ p \in 1..n
  <2>1. n \in Nat /\ n + 1 \in 1..n + 1 /\ ~(n + 1 <= n)
    BY <1>a
  <2>2. \A p \in 1..n : p \in 1..n + 1 /\ p <= n /\ f[p] \in Here
    BY <1>a, <1>t DEF Placed
  <2>3. \A p \in 1..n + 1 : p = n + 1 \/ p \in 1..n
    BY <2>1
  <2> HIDE DEF n, m
  <2> QED
    BY <1>g, <2>1, <2>2, <2>3
<1>h. g \in [1..n + 1 -> {f[p] : p \in 1..n} \cup {m + 1}]
  BY <1>a, <1>g
<1> HIDE DEF h, n, m
<1>7. g \in [DOMAIN Line' -> Here']
  BY <1>3, <1>5, <1>6, <1>h, <1>s
<1>8. \A k \in Here : InOrder(k)' <=> InOrder(k)
  <2> TAKE k \in Here
  <2>1. \A l \in since + 1..k - 1 : l \in 1..m
    BY <1>5, <1>a DEF m
  <2>2. k \in 1..m
    BY <1>5
  <2> QED
    BY <1>1, <1>4, <2>1, <2>2 DEF InOrder
<1>9. Placed(g, Line)'
  <2>1. \A p \in DOMAIN Line' : Line'[p] = arrived'[g[p]]
    BY <1>3, <1>4, <1>5, <1>6, <1>a, <1>t DEF Placed, n
  <2>2. \A p, q \in DOMAIN Line' : p < q => g[p] < g[q]
    <3> TAKE p, q \in DOMAIN Line'
    <3> HAVE p < q
    <3>1. p \in 1..n
      BY <1>3, <1>6, <1>a DEF n
    <3>2. CASE q \in 1..n
      BY <1>6, <1>a, <1>t, <3>1, <3>2 DEF Placed, n
    <3>3. CASE q = n + 1
      BY <1>5, <1>6, <3>1, <3>3
    <3> QED
      BY <1>3, <1>6, <3>2, <3>3
  <2> QED
    BY <1>7, <2>1, <2>2 DEF Placed
<1>10. SettledInv(g, Line)'
  <2> SUFFICES ASSUME NEW k \in Here', \A p \in DOMAIN Line' : g[p] # k,
                      arrived'[k].building_id \in InitialPortfolio
               PROVE  /\ \A p \in DOMAIN Line' :
                            Line'[p].building_id = arrived'[k].building_id => k < g[p]
                      /\ InOrder(k)' => Key(arrived[k])' \in Keys(reading)'
    BY DEF SettledInv
  <2>1. k \in Here /\ arrived'[k] = arrived[k]
    BY <1>3, <1>4, <1>5, <1>6, <1>a DEF n
  <2>2. \A p \in DOMAIN Line : f[p] # k
    BY <1>3, <1>6, <1>a DEF n
  <2>3. /\ \A p \in DOMAIN Line : Line[p].building_id = arrived[k].building_id => k < f[p]
        /\ InOrder(k) => Key(arrived[k]) \in Keys(reading)
    BY <1>t, <2>1, <2>2 DEF SettledInv
  <2>4. \A p \in DOMAIN Line' : Line'[p].building_id = arrived'[k].building_id => k < g[p]
    <3> TAKE p \in DOMAIN Line'
    <3>1. CASE p = n + 1
      BY <1>5, <1>6, <2>1, <3>1
    <3>2. CASE p \in 1..n
      BY <1>3, <1>6, <1>a, <2>1, <2>3, <3>2 DEF n
    <3> QED
      BY <1>3, <1>6, <3>1, <3>2
  <2>5. Key(arrived[k])' = Key(arrived[k]) /\ Keys(reading)' = Keys(reading)
    BY <1>1, <2>1 DEF Key, Keys
  <2> QED
    BY <1>8, <2>1, <2>3, <2>4, <2>5
<1>11. StoredInv(g, Line)'
  <2> SUFFICES ASSUME NEW x \in reading, x.building_id \in InitialPortfolio,
                      ~(x.ts <= resumed[x.building_id].last_ts)
               PROVE  \E k \in Here' : /\ Key(arrived[k])' = Key(x)
                                       /\ \A p \in DOMAIN Line' : g[p] # k
    BY <1>1 DEF StoredInv, Key
  <2>1. PICK k \in Here : Key(arrived[k]) = Key(x) /\ \A p \in DOMAIN Line : f[p] # k
    BY <1>t DEF StoredInv
  <2>2. k \in Here' /\ arrived'[k] = arrived[k] /\ k < m + 1
    BY <1>4, <1>5
  <2>3. \A p \in DOMAIN Line' : g[p] # k
    BY <1>3, <1>5, <1>6, <1>a, <2>1, <2>2 DEF n, m
  <2> QED
    BY <2>1, <2>2, <2>3 DEF Key
<1>12. SignedInv(g)'
  <2> SUFFICES ASSUME pc \in {"sign", "insert"}, NEW p \in 1..Done,
                      pending[p].building_id \in InitialPortfolio, InOrder(g[p])'
               PROVE  Key(pending[p]) \in Keys(reading \cup staged)
    BY <1>1 DEF SignedInv, Done, Key, Keys
  <2>1. p \in 1..Len(pending)
    BY <1>t, LineType DEF Done, TodoInv
  <2>2. p \in DOMAIN Line
    BY <1>t, <2>1, BatchPlaces
  <2>3. g[p] = f[p] /\ f[p] \in Here
    BY <1>6, <1>a, <2>2 DEF n
  <2> QED
    BY <1>8, <1>t, <2>3 DEF SignedInv
<1> QED
  BY <1>7, <1>9, <1>10, <1>11, <1>12 DEF LineInv

\* The batch is through: it leaves the line at its front.
LEMMA LineSettled ==
    ASSUME IInv, TodoInv, NEW f, LineInv(f, Line),
           pc \in {"sign", "insert"}, todo = <<>>, pc' \in {"apply", "idle"},
           UNCHANGED <<queue, incoming, arrived, since, resumed>>,
           reading \subseteq reading', reading' \subseteq reading \cup staged,
           Keys(reading \cup staged) \subseteq Keys(reading)'
    PROVE  \E g \in [DOMAIN Line' -> Here'] : LineInv(g, Line)'
<1> DEFINE n == Len(pending)
           rest == queue \o incoming
           h == [p \in DOMAIN rest |-> f[p + n]]
<1>t. TypeOK /\ Placed(f, Line) /\ SettledInv(f, Line) /\ StoredInv(f, Line) /\ SignedInv(f)
  BY DEF IInv, LineInv
<1>a. /\ pending \in Seq(Reading) /\ rest \in Seq(Reading) /\ n \in Nat /\ Len(rest) \in Nat
      /\ DOMAIN rest = 1..Len(rest) /\ Line = pending \o rest
      /\ Line \in Seq(Reading) /\ DOMAIN Line = 1..Len(Line)
  <2>1. Batch = pending
    BY DEF Batch
  <2>2. rest \in Seq(Reading)
    BY <1>t, LineType, ConcatProperties
  <2> QED
    BY <1>t, <2>1, <2>2, LineType
<1>1. Line' = rest
  <2>1. Batch' = <<>>
    BY DEF Batch
  <2>2. queue \in Seq(Reading) /\ <<>> \o queue = queue
    BY <1>t, LineType, ConcatEmptySeq
  <2> QED
    BY <2>1, <2>2 DEF Line
<1>2. /\ Len(Line) = n + Len(rest)
      /\ \A p \in 1..n + Len(rest) : Line[p] = IF p <= n THEN pending[p] ELSE rest[p - n]
  BY <1>a, ConcatProperties
<1>3. Done = n /\ Here' = Here
  BY <1>a DEF Done, Here
<1> HIDE DEF n, rest
<1>4. \A p \in DOMAIN rest : p + n \in DOMAIN Line /\ Line[p + n] = rest[p]
  <2> TAKE p \in DOMAIN rest
  <2>1. p + n \in 1..n + Len(rest) /\ ~(p + n <= n) /\ (p + n) - n = p
    BY <1>a
  <2> QED
    BY <1>2, <1>a, <2>1
<1>g. PICK g : g = h
  OBVIOUS
<1>5. /\ g \in [DOMAIN rest -> Here] /\ \A p \in DOMAIN rest : g[p] = f[p + n]
  BY <1>4, <1>g, <1>t DEF Placed
<1> HIDE DEF h
<1>6. \A p \in DOMAIN rest, q \in 1..n : f[q] < g[p] /\ q \in DOMAIN Line /\ Line[q] = pending[q]
  <2> TAKE p \in DOMAIN rest, q \in 1..n
  <2>1. q < p + n /\ q \in DOMAIN Line /\ Line[q] = pending[q]
    BY <1>2, <1>a
  <2> QED
    BY <1>4, <1>5, <1>t, <2>1 DEF Placed
<1>7. \A k \in Here : (\A p \in DOMAIN rest : g[p] # k)
         => (\A p \in DOMAIN Line : f[p] # k) \/ \E q \in 1..n : f[q] = k
  <2> SUFFICES ASSUME NEW k \in Here, \A p \in DOMAIN rest : g[p] # k,
                      NEW q \in DOMAIN Line, f[q] = k
               PROVE  q \in 1..n
    OBVIOUS
  <2>1. q \notin 1..n => q - n \in DOMAIN rest /\ (q - n) + n = q
    BY <1>2, <1>a
  <2> QED
    BY <1>5, <2>1
<1>8. \A q \in 1..n : q \in DOMAIN Line /\ Line[q] = pending[q] /\ f[q] \in Here /\ pending[q] = arrived[f[q]]
  <2>1. \A q \in 1..n : q \in DOMAIN Line /\ Line[q] = pending[q]
    BY <1>2, <1>a
  <2> QED
    BY <1>t, <2>1 DEF Placed
<1>9. Placed(g, Line)'
  <2>1. \A p, q \in DOMAIN rest : p < q => g[p] < g[q]
    <3> TAKE p, q \in DOMAIN rest
    <3> HAVE p < q
    <3>1. p + n < q + n
      BY <1>a
    <3> QED
      BY <1>4, <1>5, <1>t, <3>1 DEF Placed
  <2>2. \A p \in DOMAIN rest : rest[p] = arrived[g[p]]
    BY <1>4, <1>5, <1>t DEF Placed
  <2> QED
    BY <1>1, <1>3, <1>5, <2>1, <2>2 DEF Placed
<1>10. \A k \in Here : InOrder(k)' <=> InOrder(k)
  BY DEF InOrder
<1>11. Keys(reading) \subseteq Keys(reading)'
  BY DEF Keys
<1>12. SettledInv(g, Line)'
  <2> SUFFICES ASSUME NEW k \in Here, \A p \in DOMAIN rest : g[p] # k,
                      arrived[k].building_id \in InitialPortfolio
               PROVE  /\ \A p \in DOMAIN rest :
                            rest[p].building_id = arrived[k].building_id => k < g[p]
                      /\ InOrder(k) => Key(arrived[k]) \in Keys(reading)'
    BY <1>1, <1>3, <1>10 DEF SettledInv, Key
  <2>1. CASE \A p \in DOMAIN Line : f[p] # k
    <3>1. /\ \A p \in DOMAIN Line : Line[p].building_id = arrived[k].building_id => k < f[p]
          /\ InOrder(k) => Key(arrived[k]) \in Keys(reading)
      BY <1>t, <2>1 DEF SettledInv
    <3> QED
      BY <1>4, <1>5, <1>11, <3>1
  <2>2. CASE \E q \in 1..n : f[q] = k
    <3>1. PICK q \in 1..n : f[q] = k
      BY <2>2
    <3>2. pending[q] = arrived[k]
      BY <1>8, <3>1
    <3>3. InOrder(k) => Key(arrived[k]) \in Keys(reading \cup staged)
      BY <1>3, <1>t, <3>1, <3>2 DEF SignedInv
    <3> QED
      BY <1>6, <3>1, <3>3
  <2> QED
    BY <1>7, <2>1, <2>2
<1>13. StoredInv(g, Line)'
  <2> SUFFICES ASSUME NEW x \in reading', x.building_id \in InitialPortfolio,
                      ~(x.ts <= resumed[x.building_id].last_ts)
               PROVE  \E k \in Here : Key(arrived[k]) = Key(x) /\ \A p \in DOMAIN rest : g[p] # k
    BY <1>1, <1>3 DEF StoredInv, Key
  <2>1. CASE x \in reading
    <3>1. PICK k \in Here : Key(arrived[k]) = Key(x) /\ \A p \in DOMAIN Line : f[p] # k
      BY <1>t, <2>1 DEF StoredInv
    <3> QED
      BY <1>4, <1>5, <3>1
  <2>2. CASE x \in staged
    <3>1. PICK q \in 1..n : Key(pending[q]) = Key(x)
      BY <1>3, <2>2 DEF TodoInv
    <3>2. f[q] \in Here /\ pending[q] = arrived[f[q]] /\ f[q] \in Nat
      BY <1>8, <1>t, ArrivedTypes
    <3>3. \A p \in DOMAIN rest : g[p] # f[q]
      <4> TAKE p \in DOMAIN rest
      <4>1. f[q] < g[p] /\ g[p] \in Nat
        BY <1>5, <1>6, <1>t, ArrivedTypes
      <4> QED
        BY <3>2, <4>1
    <3> QED
      BY <3>1, <3>2, <3>3
  <2> QED
    BY <2>1, <2>2
<1>14. SignedInv(g)'
  BY DEF SignedInv
<1> QED
  BY <1>1, <1>3, <1>5, <1>9, <1>12, <1>13, <1>14 DEF LineInv

\* A reading of an unknown building leaves the line from its middle.
LEMMA LineSkips ==
    ASSUME IInv, NEW f, LineInv(f, Line), ~Discards, ~Discards', TypeOK',
           FilterNext, Head(todo).building_id \notin known
    PROVE  \E g \in [DOMAIN Line' -> Here'] : LineInv(g, Line)'
<1>1. /\ pc = "filter" /\ pc' = "filter" /\ todo # <<>> /\ todo' = Tail(todo)
      /\ UNCHANGED <<pending, queue, incoming, arrived, since, resumed, reading>>
      /\ count' = [count EXCEPT !.rejected = @ + 1,
                      !.misjudged = IF Head(todo).building_id \in InitialPortfolio
                                    THEN @ + 1 ELSE @]
  BY DEF FilterNext, world, tables
<1>t. TypeOK /\ Placed(f, Line) /\ SettledInv(f, Line) /\ StoredInv(f, Line)
  BY DEF IInv, LineInv
<1>2. Head(todo).building_id \notin InitialPortfolio
  <2>1. count.misjudged = 0
    BY <1>t, NoneDiscarded
  <2>2. count'.lost \in Nat /\ count'.misjudged \in Nat
    BY DEF TypeOK, InboxOK, Counters
  <2>3. count'.misjudged = 0
    BY <2>2 DEF Discards
  <2>4. Head(todo).building_id \in InitialPortfolio => count'.misjudged = count.misjudged + 1
    BY <1>1, <1>t DEF TypeOK, InboxOK, Counters
  <2> QED
    BY <2>1, <2>3, <2>4
<1> DEFINE n == Len(pending)
           rest == queue \o incoming
           tail == Tail(todo) \o rest
           h == [p \in DOMAIN (pending \o tail) |-> f[IF p <= n THEN p ELSE p + 1]]
<1>s. /\ pending \in Seq(Reading) /\ todo \in Seq(Reading) /\ queue \in Seq(Reading)
      /\ incoming \in Seq(Reading) /\ n \in Nat /\ Tail(todo) \in Seq(Reading)
      /\ Head(todo) \in Reading /\ <<Head(todo)>> \in Seq(Reading) /\ Line \in Seq(Reading)
  BY <1>1, <1>t, LineType
<1>r. rest \in Seq(Reading)
  BY <1>s, ConcatProperties
<1>a. tail \in Seq(Reading) /\ Len(tail) \in Nat
  BY <1>r, <1>s, ConcatProperties
<1> HIDE DEF rest
<1>3. Line = pending \o (<<Head(todo)>> \o tail)
  <2>1. Line = (pending \o todo) \o rest
    BY <1>1, <1>t, LineType DEF Batch, rest
  <2>2. (pending \o todo) \o rest = pending \o (todo \o rest)
    <3>1. pending \in Seq(Reading) /\ todo \in Seq(Reading) /\ rest \in Seq(Reading)
      BY <1>r, <1>s
    <3> QED
      BY <3>1, JoinedAnyhow
  <2>3. todo = <<Head(todo)>> \o Tail(todo)
    BY <1>1, <1>s, MovedAcross
  <2>4. (<<Head(todo)>> \o Tail(todo)) \o rest = <<Head(todo)>> \o (Tail(todo) \o rest)
    <3>1. /\ <<Head(todo)>> \in Seq(Reading) /\ Tail(todo) \in Seq(Reading)
          /\ rest \in Seq(Reading)
      BY <1>r, <1>s
    <3> QED
      BY <3>1, JoinedAnyhow
  <2> QED
    BY <2>1, <2>2, <2>3, <2>4
<1>4. Line' = pending \o tail
  <2>1. Line' = ((pending \o Tail(todo)) \o queue) \o incoming
    BY <1>1 DEF Line, Batch
  <2>2. pending \o Tail(todo) \in Seq(Reading)
    BY <1>s, ConcatProperties
  <2>3. ((pending \o Tail(todo)) \o queue) \o incoming = (pending \o Tail(todo)) \o (queue \o incoming)
    BY <1>s, <2>2, JoinedAnyhow
  <2>4. (pending \o Tail(todo)) \o rest = pending \o (Tail(todo) \o rest)
    <3>1. pending \in Seq(Reading) /\ Tail(todo) \in Seq(Reading) /\ rest \in Seq(Reading)
      BY <1>r, <1>s
    <3> QED
      BY <3>1, JoinedAnyhow
  <2> QED
    BY <2>1, <2>3, <2>4 DEF rest
<1> HIDE DEF tail
<1>5. PICK line : line = pending \o tail
  OBVIOUS
<1>6. /\ line \in Seq(Reading) /\ Len(line) = n + Len(tail) /\ DOMAIN line = 1..n + Len(tail)
      /\ \A p \in 1..n + Len(tail) : line[p] = IF p <= n THEN pending[p] ELSE tail[p - n]
  BY <1>5, <1>a, <1>s, ConcatProperties
<1>7. /\ Len(<<Head(todo)>> \o tail) = 1 + Len(tail) /\ <<Head(todo)>> \o tail \in Seq(Reading)
      /\ \A q \in 1..1 + Len(tail) : (<<Head(todo)>> \o tail)[q] = IF q <= 1 THEN Head(todo) ELSE tail[q - 1]
  <2> DEFINE one == <<Head(todo)>>
  <2>1. one \in Seq(Reading) /\ Len(one) = 1 /\ one[1] = Head(todo)
    BY <1>s
  <2> HIDE DEF one
  <2>2. /\ one \o tail \in Seq(Reading) /\ Len(one \o tail) = 1 + Len(tail)
        /\ \A q \in 1..1 + Len(tail) : (one \o tail)[q] = IF q <= 1 THEN one[q] ELSE tail[q - 1]
    BY <1>a, <2>1, ConcatProperties
  <2>3. \A q \in 1..1 + Len(tail) : q <= 1 => one[q] = Head(todo)
    BY <1>a, <2>1
  <2> QED
    BY <2>2, <2>3 DEF one
<1>8. /\ Len(Line) = n + (1 + Len(tail)) /\ DOMAIN Line = 1..n + (1 + Len(tail))
      /\ \A p \in 1..n + (1 + Len(tail)) :
            Line[p] = IF p <= n THEN pending[p] ELSE (<<Head(todo)>> \o tail)[p - n]
  BY <1>3, <1>7, <1>s, ConcatProperties
<1> DEFINE at(p) == IF p <= n THEN p ELSE p + 1
<1>9. \A p \in DOMAIN line : at(p) \in DOMAIN Line /\ Line[at(p)] = line[p]
  <2> SUFFICES ASSUME NEW p \in 1..n + Len(tail) PROVE at(p) \in DOMAIN Line /\ Line[at(p)] = line[p]
    BY <1>6
  <2>1. CASE p <= n
    <3>1. p \in 1..n + (1 + Len(tail)) /\ at(p) = p
      BY <1>a, <1>s, <2>1
    <3> QED
      BY <1>6, <1>8, <2>1, <3>1
  <2>2. CASE ~(p <= n)
    <3>1. /\ p + 1 \in 1..n + (1 + Len(tail)) /\ ~(p + 1 <= n) /\ at(p) = p + 1
          /\ (p + 1) - n \in 1..1 + Len(tail) /\ ~((p + 1) - n <= 1)
          /\ ((p + 1) - n) - 1 = p - n
      BY <1>a, <1>s, <2>2
    <3>2. Line[p + 1] = (<<Head(todo)>> \o tail)[(p + 1) - n]
      BY <1>8, <3>1
    <3>3. (<<Head(todo)>> \o tail)[(p + 1) - n] = tail[p - n]
      BY <1>7, <3>1
    <3> QED
      BY <1>6, <1>8, <2>2, <3>1, <3>2, <3>3
  <2> QED
    BY <2>1, <2>2
<1>10. \A p, q \in DOMAIN line : p < q => at(p) < at(q)
  BY <1>6, <1>a, <1>s
<1>11. \A q \in DOMAIN Line : q = n + 1 \/ \E p \in DOMAIN line : at(p) = q
  <2> TAKE q \in DOMAIN Line
  <2>1. CASE q <= n
    <3>1. q \in DOMAIN line /\ at(q) = q
      BY <1>6, <1>8, <1>a, <1>s, <2>1
    <3> QED
      BY <3>1
  <2>2. CASE q > n + 1
    <3>1. q - 1 \in DOMAIN line /\ at(q - 1) = q
      BY <1>6, <1>8, <1>a, <1>s, <2>2
    <3> QED
      BY <3>1
  <2> QED
    BY <1>8, <1>a, <1>s, <2>1, <2>2
<1>12. Line[n + 1] = Head(todo) /\ n + 1 \in DOMAIN Line
  <2>1. /\ n + 1 \in 1..n + (1 + Len(tail)) /\ ~(n + 1 <= n) /\ (n + 1) - n = 1
        /\ 1 \in 1..1 + Len(tail)
    BY <1>a, <1>s
  <2> QED
    BY <1>7, <1>8, <2>1
<1>g. PICK g : g = [p \in DOMAIN line |-> f[at(p)]]
  OBVIOUS
<1>13. Here' = Here /\ Keys(reading)' = Keys(reading) /\ Line' = line
  BY <1>1, <1>4, <1>5 DEF Here, Keys, Key
<1>14. g \in [DOMAIN line -> Here] /\ \A p \in DOMAIN line : g[p] = f[at(p)]
  BY <1>9, <1>g, <1>t DEF Placed
<1> HIDE DEF n, at
<1>15. Placed(g, Line)'
  <2>1. \A p \in DOMAIN line : line[p] = arrived[g[p]]
    BY <1>9, <1>14, <1>t DEF Placed
  <2>2. \A p, q \in DOMAIN line : p < q => g[p] < g[q]
    BY <1>9, <1>10, <1>14, <1>t DEF Placed
  <2> QED
    BY <1>1, <1>13, <1>14, <2>1, <2>2 DEF Placed
<1>16. \A k \in Here : InOrder(k)' <=> InOrder(k)
  BY <1>1 DEF InOrder
<1>17. SettledInv(g, Line)'
  <2> SUFFICES ASSUME NEW k \in Here, \A p \in DOMAIN line : g[p] # k,
                      arrived[k].building_id \in InitialPortfolio
               PROVE  /\ \A p \in DOMAIN line :
                            line[p].building_id = arrived[k].building_id => k < g[p]
                      /\ InOrder(k) => Key(arrived[k]) \in Keys(reading)
    BY <1>1, <1>13, <1>16 DEF SettledInv, Key
  <2>1. \A q \in DOMAIN Line : f[q] # k
    <3> SUFFICES ASSUME NEW q \in DOMAIN Line, f[q] = k PROVE FALSE
      OBVIOUS
    <3>1. q = n + 1
      BY <1>11, <1>14
    <3>2. arrived[k] = Head(todo)
      BY <1>12, <1>t, <3>1 DEF Placed
    <3> QED
      BY <1>2, <3>2
  <2>2. /\ \A p \in DOMAIN Line : Line[p].building_id = arrived[k].building_id => k < f[p]
        /\ InOrder(k) => Key(arrived[k]) \in Keys(reading)
    BY <1>t, <2>1 DEF SettledInv
  <2> QED
    BY <1>9, <1>14, <2>2
<1>18. StoredInv(g, Line)'
  <2> SUFFICES ASSUME NEW x \in reading, x.building_id \in InitialPortfolio,
                      ~(x.ts <= resumed[x.building_id].last_ts)
               PROVE  \E k \in Here : Key(arrived[k]) = Key(x) /\ \A p \in DOMAIN line : g[p] # k
    BY <1>1, <1>13 DEF StoredInv, Key
  <2>1. PICK k \in Here : Key(arrived[k]) = Key(x) /\ \A p \in DOMAIN Line : f[p] # k
    BY <1>t DEF StoredInv
  <2> QED
    BY <1>9, <1>14, <2>1
<1>19. SignedInv(g)'
  BY <1>1 DEF SignedInv
<1> QED
  BY <1>13, <1>14, <1>15, <1>17, <1>18, <1>19 DEF LineInv

\* A restart begins an empty line behind everything that is stored.
LEMMA LineOpens ==
    ASSUME IInv, IInv', CountInv, Start
    PROVE  \E g \in [DOMAIN Line' -> Here'] : LineInv(g, Line)'
<1>1. /\ pc = "down" /\ pc' = "idle" /\ since' = Len(arrived) /\ resumed' = chains'
      /\ UNCHANGED <<reading, queue, incoming, arrived>>
  BY DEF Start, tables, inbox
<1>2. queue' = <<>> /\ incoming' = <<>>
  BY <1>1 DEF CountInv, Up
<1>3. Line' = <<>>
  <2>1. <<>> \in Seq(Reading)
    OBVIOUS
  <2>2. <<>> \o <<>> = <<>>
    BY <2>1, ConcatEmptySeq
  <2>3. Line' = (<<>> \o <<>>) \o <<>>
    BY <1>1, <1>2 DEF Line, Batch
  <2> QED
    BY <2>2, <2>3
<1>4. Here' = {}
  <2>1. Len(arrived) \in Nat
    BY PiecesType DEF IInv
  <2>2. Here' = Len(arrived) + 1..Len(arrived)
    BY <1>1 DEF Here
  <2> QED
    BY <2>1, <2>2
<1>5. DOMAIN Line' = {} /\ <<>> \in [DOMAIN Line' -> Here']
  BY <1>3, <1>4
<1>6. Placed(<<>>, Line)' /\ SettledInv(<<>>, Line)' /\ SignedInv(<<>>)'
  BY <1>1, <1>4, <1>5 DEF Placed, SettledInv, SignedInv
<1>7. ASSUME NEW x \in reading PROVE x.ts <= resumed'[x.building_id].last_ts
  <2>1. HeadsOf(chains, reading)' /\ Chained(reading)' /\ reading' \subseteq Row
    BY <1>1 DEF IInv, InFlightConsistent, ChainInv, Up, TypeOK, TablesOK
  <2>2. x \in reading' /\ x.building_id \in Building
    BY <1>1, <1>7, <2>1 DEF Row
  <2>3. PICK S, h : S = reading' /\ h = chains'[x.building_id]
    OBVIOUS
  <2>4. HeadOf(h, x.building_id, S) /\ Chained(S) /\ S \in SUBSET Row
    BY <2>1, <2>2, <2>3 DEF HeadsOf, HeadOf, Chained, RowsOf, IsTop, HeadAt, Linked
  <2>5. h \in ChainState
    BY <2>2, <2>3 DEF IInv, TypeOK, MemoryOK
  <2>6. x \in RowsOf(S, x.building_id)
    BY <2>2, <2>3 DEF RowsOf
  <2>7. x.ts <= h.last_ts
    BY <2>2, <2>4, <2>5, <2>6, HeadBounds
  <2> QED
    BY <1>1, <2>3, <2>7
<1>8. StoredInv(<<>>, Line)'
  BY <1>1, <1>7 DEF StoredInv
<1> QED
  BY <1>5, <1>6, <1>8 DEF LineInv

LEMMA OrderInit == Init => OrderInv
  BY DEF Init, OrderInv, TodoInv, Up

\* A process that discards nothing has discarded nothing.
LEMMA DiscardsStay ==
    ASSUME TypeOK, TypeOK', ~Discards', [Next]_vars, ~Exit, ~Crash
    PROVE  ~Discards
<1>c. /\ count \in Counters /\ count.lost \in Nat /\ count.misjudged \in Nat /\ dups \in Nat
      /\ Discarded \in Nat
  BY LineType, DiscardedType DEF TypeOK, InboxOK, Counters, CallOK
<1>d. count'.lost \in Nat /\ count'.misjudged \in Nat
  BY DEF TypeOK, InboxOK, Counters
<1>e. count'.lost = 0 /\ count'.misjudged = 0
  BY <1>d DEF Discards
<1>1. CASE count'.lost >= count.lost /\ count'.misjudged >= count.misjudged
  BY <1>1, <1>c, <1>e DEF Discards
<1>2. CASE count' = count
  BY <1>2, <1>e DEF Discards
<1>3. CASE WriteNothing
  <2>1. count' = [count EXCEPT !.duplicates = IF attempt = 1 THEN @ + dups ELSE @,
                               !.lost = IF attempt = 1 THEN @ ELSE @ + dups]
    BY <1>3 DEF WriteNothing
  <2>2. /\ count'.lost = IF attempt = 1 THEN count.lost ELSE count.lost + dups
        /\ count'.misjudged = count.misjudged
    BY <1>c, <2>1 DEF Counters
  <2> QED
    BY <1>1, <1>c, <2>2
<1>4. CASE ApplyHeads
  <2>1. count' = [count EXCEPT !.duplicates = @ + dups, !.written = @ + Cardinality(staged)]
    BY <1>4 DEF ApplyHeads, FlushReturns
  <2>2. count'.lost = count.lost /\ count'.misjudged = count.misjudged
    BY <1>c, <2>1 DEF Counters
  <2> QED
    BY <1>1, <1>c, <2>2
<1>5. CASE FilterNext
  <2>1. \/ count' = count
        \/ count' = [count EXCEPT !.rejected = @ + 1,
                        !.misjudged = IF Head(todo).building_id \in InitialPortfolio
                                      THEN @ + 1 ELSE @]
    BY <1>5 DEF FilterNext
  <2>2. /\ count'.lost = count.lost
        /\ count'.misjudged = count.misjudged \/ count'.misjudged = count.misjudged + 1
    BY <1>c, <2>1 DEF Counters
  <2> QED
    BY <1>1, <1>c, <2>2
<1>6. CASE WriteFails
  <2>1. count' = [count EXCEPT !.lost = @ + Discarded]
    BY <1>6 DEF WriteFails, Abandon
  <2>2. count'.lost = count.lost + Discarded /\ count'.misjudged = count.misjudged
    BY <1>c, <2>1 DEF Counters
  <2> QED
    BY <1>1, <1>c, <2>2
<1>7. CASE AppendReading \/ OnMalformed
  <2>1. \/ count' = count
        \/ count' = [count EXCEPT !.lost = @ + 1]
        \/ count' = [count EXCEPT !.malformed = @ + 1,
                        !.overflowed = IF Len(queue) = MaxQueued THEN @ + 1 ELSE @]
    BY <1>7 DEF AppendReading, OnMalformed
  <2>2. /\ count'.misjudged = count.misjudged
        /\ count'.lost = count.lost \/ count'.lost = count.lost + 1
    BY <1>c, <2>1 DEF Counters
  <2> QED
    BY <1>1, <1>c, <2>2
<1>8. ASSUME NEW r \in Reading, OnMessage(r)
      PROVE  ~Discards
  <2>1. count' = [count EXCEPT !.overflowed = IF Len(queue) = MaxQueued THEN @ + 1 ELSE @]
    BY <1>8 DEF OnMessage
  <2>2. count'.lost = count.lost /\ count'.misjudged = count.misjudged
    BY <1>c, <2>1 DEF Counters
  <2> QED
    BY <1>1, <1>c, <2>2
<1>9. ASSUME NEW b \in Building, AddBuilding(b)
      PROVE  ~Discards
  BY <1>2, <1>9 DEF AddBuilding, inbox
<1>10. CASE
       \/ FlushNothing \/ TakeBatch \/ BeginWrite \/ SignNext \/ Score \/ Commit \/ Refuse
       \/ QueryKnown \/ DropBatch \/ Rewrite \/ CheckpointDb \/ AppendAnchor \/ CheckpointDone
       \/ Start \/ StartFails \/ QueryFails \/ CheckpointFails \/ Stop \/ Tick \/ UNCHANGED vars
  <2>1. count' = count
    BY <1>10 DEF FlushNothing, TakeBatch, BeginWrite, SignNext, Score, ScoreBatch, Commit, Refuse,
       QueryKnown, AskKnown, DropBatch, Rewrite, CheckpointDb, AppendAnchor, CheckpointDone, Start,
       StartFails, QueryFails, CheckpointFails, Stop, Tick, vars, inbox
  <2> QED
    BY <1>2, <2>1
<1> QED
  BY <1>3, <1>4, <1>5, <1>6, <1>7, <1>8, <1>9, <1>10 DEF Next, LoopStep, Failure

LEMMA OrderStep ==
    ASSUME IInv, AccountInv, IInv', OrderInv, [Next]_vars
    PROVE  OrderInv'
<1>t. TypeOK /\ TypeOK' /\ CountInv /\ TodoInv
  BY DEF IInv, AccountInv, OrderInv
<1>o. TodoInv'
  BY <1>t, TodoStep
<1> SUFFICES ASSUME Up', ~Discards'
             PROVE  \E g \in [DOMAIN Line' -> Here'] : LineInv(g, Line)'
  BY <1>o DEF OrderInv
<1>1. CASE Start
  BY <1>1, <1>t, LineOpens
<1>2. CASE Exit \/ Crash \/ StartFails
  BY <1>2 DEF Exit, Crash, StartFails, Forget, Up
<1>3. CASE ~Start /\ ~Exit /\ ~Crash /\ ~StartFails
  <2>1. Up
    BY <1>3 DEF Up, Next, LoopStep, Failure, FlushNothing, WriteNothing, ApplyHeads, DropBatch,
       CheckpointDone, WriteFails, CheckpointFails, CheckpointDue, OnMessage, AppendReading,
       OnMalformed, Stop, AddBuilding, Tick, vars, TakeBatch, BeginWrite, SignNext, Score,
       ScoreBatch, Commit, Refuse, QueryKnown, QueryFails, AskKnown, FilterNext, Rewrite,
       CheckpointDb, AppendAnchor
  <2>2. ~Discards
    BY <1>3, <1>t, DiscardsStay
  <2>3. PICK f \in [DOMAIN Line -> Here] : LineInv(f, Line)
    BY <2>1, <2>2 DEF OrderInv
  <2>k. ASSUME UNCHANGED <<arrived, since, resumed, reading>>, Line' = Line, SignedInv(f)'
        PROVE  \E g \in [DOMAIN Line' -> Here'] : LineInv(g, Line)'
    <3>1. LineInv(f, Line)' /\ Here' = Here
      BY <2>3, <2>k, LineKept DEF Here
    <3> QED
      BY <2>3, <2>k, <3>1
  <2>s. ASSUME UNCHANGED <<pc, pending, todo, queue, incoming>> PROVE Line' = Line
    BY <2>s DEF Line, Batch
  <2>4. ASSUME NEW r \in Reading, OnMessage(r)
        PROVE  \E g \in [DOMAIN Line' -> Here'] : LineInv(g, Line)'
    BY <1>t, <2>3, <2>4, LineJoined
  <2>5. CASE WriteNothing \/ Commit
    <3>1. /\ pc \in {"sign", "insert"} /\ todo = <<>> /\ pc' \in {"apply", "idle"}
          /\ UNCHANGED <<queue, incoming, arrived, since, resumed>>
      BY <1>t, <2>5 DEF WriteNothing, Commit, TodoInv, inbox, world
    <3>2. reading' = reading \cup staged
      <4>1. CASE WriteNothing
        BY <4>1 DEF WriteNothing, tables
      <4>2. CASE Commit
        <5>1. Chained(reading \cup staged)
          BY <4>2 DEF Commit, IInv, InFlightConsistent, ChainInv
        <5> QED
          BY <1>t, <4>2, <5>1, NothingIgnored DEF Commit
      <4> QED
        BY <2>5, <4>1, <4>2
    <3>3. Keys(reading \cup staged) \subseteq Keys(reading)'
      BY <3>2 DEF Keys, Key
    <3> QED
      BY <1>t, <2>3, <3>1, <3>2, <3>3, LineSettled
  <2>6. CASE FilterNext
    <3>1. CASE Head(todo).building_id \in known
      <4>1. UNCHANGED <<arrived, since, resumed, reading>> /\ pc' = "filter"
        BY <2>6 DEF FilterNext, world, tables
      <4>2. Line' = Line
        BY <1>t, <2>2, <2>6, <3>1, LineStays
      <4>3. SignedInv(f)'
        BY <4>1 DEF SignedInv
      <4> QED
        BY <2>k, <4>1, <4>2, <4>3
    <3>2. CASE Head(todo).building_id \notin known
      BY <1>t, <2>2, <2>3, <2>6, <3>2, LineSkips
    <3> QED
      BY <3>1, <3>2
  <2>7. CASE SignNext
    <3>1. SignedInv(f)'
      BY <1>t, <2>3, <2>7, SignOrder
    <3>2. UNCHANGED <<arrived, since, resumed, reading, queue, incoming>> /\ Batch' = Batch
      BY <2>7 DEF SignNext, world, tables, inbox, Batch
    <3>3. Line' = Line
      BY <3>2 DEF Line
    <3> QED
      BY <2>k, <3>1, <3>2, <3>3
  <2>8. CASE BeginWrite
    <3>1. /\ UNCHANGED <<arrived, since, resumed, reading, queue, incoming>> /\ Batch' = Batch
          /\ todo' = pending /\ pending' = pending
      BY <2>8 DEF BeginWrite, world, tables, inbox, Batch
    <3>2. Line' = Line
      BY <3>1 DEF Line
    <3>3. Done' = 0
      <4>1. Len(pending) \in Nat
        BY <1>t, PiecesType
      <4> QED
        BY <3>1, <4>1 DEF Done
    <3>4. SignedInv(f)'
      BY <3>3 DEF SignedInv
    <3> QED
      BY <2>k, <3>1, <3>2, <3>4
  <2>9. CASE Score
    <3>1. /\ pc = "sign" /\ UNCHANGED <<arrived, since, resumed, reading, queue, incoming>>
          /\ UNCHANGED <<pending, todo, staged>> /\ Batch' = Batch
      BY <2>9 DEF Score, ScoreBatch, world, tables, inbox, Batch
    <3>2. Line' = Line
      BY <3>1 DEF Line
    <3>3. SignedInv(f)'
      BY <2>3, <3>1 DEF LineInv, SignedInv, Done, InOrder, Key, Keys
    <3> QED
      BY <2>k, <3>1, <3>2, <3>3
  <2>10. CASE AppendReading
    <3>1. /\ UNCHANGED <<arrived, since, resumed, reading>>
          /\ UNCHANGED <<pc, pending, todo, staged>>
      BY <2>10 DEF AppendReading, world, tables, call
    <3>2. Line' = Line
      BY <1>t, <2>2, <2>10, LineStays
    <3>3. SignedInv(f)'
      BY <2>3, <3>1 DEF LineInv, SignedInv, Done, InOrder, Key, Keys
    <3> QED
      BY <2>k, <3>1, <3>2, <3>3
  <2>11. CASE TakeBatch \/ WriteFails \/ QueryKnown \/ QueryFails \/ DropBatch \/ Rewrite
    <3>1. UNCHANGED <<arrived, since, resumed, reading>> /\ pc' \notin {"sign", "insert"}
      BY <2>11 DEF TakeBatch, WriteFails, Abandon, QueryKnown, QueryFails, AskKnown, DropBatch,
                   Rewrite, world, tables
    <3>2. Line' = Line
      BY <1>t, <2>2, <2>11, LineStays
    <3>3. SignedInv(f)'
      BY <3>1 DEF SignedInv
    <3> QED
      BY <2>k, <3>1, <3>2, <3>3
  <2>12. CASE
         \/ FlushNothing \/ ApplyHeads \/ Refuse \/ CheckpointDb \/ AppendAnchor \/ CheckpointDone
         \/ CheckpointFails \/ Stop
    <3>1. /\ UNCHANGED <<arrived, since, resumed, reading, queue, incoming>>
          /\ pc' \notin {"sign", "insert"} /\ Batch' = Batch
      BY <2>12 DEF FlushNothing, ApplyHeads, FlushReturns, Refuse, CheckpointDb, CheckpointDue,
                   AppendAnchor, CheckpointDone, CheckpointFails, Stop, world, tables, inbox, call,
                   Batch
    <3>2. Line' = Line
      BY <3>1 DEF Line
    <3>3. SignedInv(f)'
      BY <3>1 DEF SignedInv
    <3> QED
      BY <2>k, <3>1, <3>2, <3>3
  <2>13. CASE UNCHANGED <<arrived, since, resumed, reading, queue, incoming, pc, pending, todo, staged>>
    <3>1. SignedInv(f)'
      BY <2>3, <2>13 DEF LineInv, SignedInv, Done, InOrder, Key, Keys
    <3> QED
      BY <2>k, <2>s, <2>13, <3>1
  <2>14. CASE OnMalformed \/ Tick \/ UNCHANGED vars
    BY <2>13, <2>14 DEF OnMalformed, Tick, vars, world, tables, inbox, call
  <2>15. ASSUME NEW b \in Building, AddBuilding(b)
         PROVE  \E g \in [DOMAIN Line' -> Here'] : LineInv(g, Line)'
    BY <2>13, <2>15 DEF AddBuilding, world, tables, inbox, call
  <2> QED
    BY <1>3, <2>4, <2>5, <2>6, <2>7, <2>8, <2>9, <2>10, <2>11, <2>12, <2>14, <2>15
    DEF Next, LoopStep, Failure
<1> QED
  BY <1>1, <1>2, <1>3

\* flush, _write and _write_without_unknown: whatever fails and is put back, whichever
\* readings of other buildings are refused in between, a reading that arrived in order is
\* stored before any later one of its building, unless the process discards some.
THEOREM NoReadingOvertaken == Spec => []NoOvertake
<1>1. Init => IInv /\ AccountInv /\ OrderInv
  BY InitInv, InitAccount, OrderInit
<1>2. (IInv /\ AccountInv /\ OrderInv) /\ [Next]_vars => (IInv /\ AccountInv /\ OrderInv)'
  <2>1. IInv /\ AccountInv /\ [Next]_vars => CountInv' /\ RetryInv' /\ OverflowInv'
    BY CountStep, RetryStep, OverflowStep DEF AccountInv
  <2>2. IInv /\ [Next]_vars => IInv'
    BY StepInv
  <2>3. IInv /\ AccountInv /\ OrderInv /\ [Next]_vars => OrderInv'
    BY <2>2, OrderStep
  <2> QED
    BY <2>1, <2>2, <2>3 DEF AccountInv
<1>3. IInv /\ OrderInv => NoOvertake
  <2> SUFFICES ASSUME IInv, OrderInv, Up, ~Discards, NEW i \in Here, NEW j \in Here,
                      i < j, InOrder(i),
                      arrived[i].building_id = arrived[j].building_id,
                      arrived[i].building_id \in InitialPortfolio,
                      arrived[i].ts < arrived[j].ts, Key(arrived[j]) \in Keys(reading)
               PROVE  Key(arrived[i]) \in Keys(reading)
    BY DEF NoOvertake, Here
  <2>1. PICK f \in [DOMAIN Line -> Here] : LineInv(f, Line)
    BY DEF OrderInv
  <2>2. TypeOK /\ Placed(f, Line) /\ SettledInv(f, Line) /\ StoredInv(f, Line)
    BY <2>1 DEF IInv, LineInv
  <2>3. CASE \A p \in DOMAIN Line : f[p] # i
    BY <2>2, <2>3 DEF SettledInv
  <2>4. CASE \E p \in DOMAIN Line : f[p] = i
    <3>1. PICK p \in DOMAIN Line : f[p] = i
      BY <2>4
    <3>2. PICK x \in reading : Key(x) = Key(arrived[j])
      BY DEF Keys
    <3>3. x.building_id = arrived[i].building_id /\ x.ts = arrived[j].ts
      BY <3>2 DEF Key
    <3>4. /\ arrived[i].ts \in Nat /\ arrived[j].ts \in Nat /\ i \in Nat
          /\ arrived[i].building_id \in Building /\ resumed[arrived[i].building_id].last_ts \in Int
          /\ since \in Nat
      BY <2>2, ArrivedTypes
    <3>5. ~(x.ts <= resumed[x.building_id].last_ts)
      <4>1. arrived[i].ts > resumed[arrived[i].building_id].last_ts
        BY DEF InOrder
      <4> QED
        BY <3>3, <3>4, <4>1
    <3>6. PICK k \in Here : Key(arrived[k]) = Key(x) /\ \A q \in DOMAIN Line : f[q] # k
      BY <2>2, <3>3, <3>5 DEF StoredInv
    <3>7. arrived[k].building_id = arrived[i].building_id /\ arrived[k].ts = arrived[j].ts
      BY <3>3, <3>6 DEF Key
    <3>8. k < i
      BY <2>2, <3>1, <3>6, <3>7 DEF SettledInv, Placed
    <3>9. k \in since + 1..i - 1
      BY <2>2, <3>4, <3>8, ArrivedTypes DEF Here
    <3>10. arrived[k].ts < arrived[i].ts
      BY <3>7, <3>9 DEF InOrder
    <3> QED
      BY <3>4, <3>7, <3>10
  <2> QED
    BY <2>3, <2>4
<1> QED
  BY <1>1, <1>2, <1>3, PTL DEF Spec

----------------------------------------------------------------------------
(* The stores *)

\* What Ingest's own invariant does not need: the table is finite and holds delivered
\* payloads.
StoreInv ==
    /\ IInv
    /\ IsFiniteSet(reading)
    /\ \A r \in reading \cup staged : PayloadOf(r) \in Reading

LEMMA StoreInit == Init => StoreInv
  BY InitInv, FS_EmptySet DEF StoreInv, Init

\* The row signed for a reading carries that reading.
LEMMA PayloadSigned ==
    ASSUME NEW r \in Reading, NEW h PROVE PayloadOf(SignedRow(r, h)) = r
<1>1. r \in [building_id : Building, ts : Nat, kw : Nat, source : Source]
  BY IngestAssumption
<1> QED
  BY <1>1 DEF PayloadOf, SignedRow

\* Only the signing loop makes rows, and only the commit stores them.
LEMMA StoreStep == StoreInv /\ [Next]_vars => StoreInv'
<1> SUFFICES ASSUME StoreInv, [Next]_vars PROVE StoreInv'
  OBVIOUS
<1>t. TypeOK /\ IsFiniteSet(staged) /\ IsFiniteSet(reading)
  BY DEF StoreInv, IInv, InFlightConsistent
<1>i. IInv'
  BY StepInv DEF StoreInv
<1>p. \A r \in reading \cup staged : PayloadOf(r) \in Reading
  BY DEF StoreInv
<1> USE DEF tables, call
<1>1. CASE Commit
  <2>1. /\ reading' = reading \cup { r \in staged : Key(r) \notin Keys(reading) }
        /\ staged' = staged
    BY <1>1 DEF Commit, insert_ignore
  <2>2. IsFiniteSet({ r \in staged : Key(r) \notin Keys(reading) })
    BY <1>t, FS_Subset
  <2>3. IsFiniteSet(reading')
    BY <1>t, <2>1, <2>2, FS_Union
  <2>4. \A r \in reading' \cup staged' : PayloadOf(r) \in Reading
    BY <1>p, <2>1
  <2> QED
    BY <1>i, <2>3, <2>4 DEF StoreInv, PayloadOf
<1>2. CASE SignNext
  <2> DEFINE r == Head(todo)
             row == SignedRow(r, heads[r.building_id])
  <2>1. todo \in Seq(Reading) /\ todo # <<>>
    BY <1>t, <1>2 DEF TypeOK, CallOK, SignNext
  <2>2. r \in Reading
    BY <2>1, TailType
  <2>3. PayloadOf(row) \in Reading
    <3> HIDE DEF r
    <3> QED
      BY <2>2, PayloadSigned
  <2>4. reading' = reading /\ staged' \subseteq staged \cup {row}
    BY <1>2 DEF SignNext
  <2> HIDE DEF row
  <2>5. \A q \in reading' \cup staged' : PayloadOf(q) \in Reading
    BY <1>p, <2>3, <2>4
  <2> QED
    BY <1>i, <1>t, <2>4, <2>5 DEF StoreInv, PayloadOf
<1>3. CASE reading' = reading /\ staged' \in {staged, {}}
  BY <1>i, <1>t, <1>p, <1>3 DEF StoreInv, PayloadOf
<1>4. ASSUME ~Commit, ~SignNext PROVE reading' = reading /\ staged' \in {staged, {}}
  BY <1>4 DEF Next, vars, LoopStep, Failure, OnMessage, AppendReading, OnMalformed, Start,
              TakeBatch, FlushNothing, BeginWrite, WriteNothing, Score, ScoreBatch,
              ApplyHeads, Refuse, QueryKnown, AskKnown, FilterNext, DropBatch, Rewrite,
              CheckpointDb, AppendAnchor, CheckpointDone, Exit, StartFails, WriteFails,
              Abandon, QueryFails, CheckpointFails, Crash, Forget, Stop, AddBuilding, Tick,
              NoWrite
<1> QED
  BY <1>1, <1>2, <1>3, <1>4

\* The rows of a building are numbered and dated without a double.
LEMMA ChainedIsIntact ==
    ASSUME NEW S \in SUBSET Row, Chained(S), IsFiniteSet(S), NEW b
    PROVE  Keyed(RowsOf(S, b)) /\ IntactChain(RowsOf(S, b))
<1>1. \A r \in RowsOf(S, b) : r \in S /\ r.building_id = b /\ r.seq \in Nat /\ r.ts \in Nat
  BY DEF RowsOf, Row
<1>2. IsFiniteSet(RowsOf(S, b))
  BY FS_Subset DEF RowsOf
<1>3. ASSUME NEW r \in RowsOf(S, b), NEW q \in RowsOf(S, b), r.ts = q.ts PROVE r = q
  <2>1. ~(r.seq < q.seq) /\ ~(q.seq < r.seq)
    BY <1>1, <1>3 DEF Chained
  <2>2. r.seq = q.seq
    BY <1>1, <2>1
  <2> QED
    BY <1>1, <2>2 DEF Chained
<1>4. Keyed(RowsOf(S, b))
  BY <1>1, <1>2, <1>3 DEF Keyed
<1>5. \A r, q \in RowsOf(S, b) : r.seq = q.seq => r = q
  BY <1>1 DEF Chained
<1>6. ASSUME NEW r \in RowsOf(S, b) PROVE r.seq >= 0 /\ Linked(RowsOf(S, b), r)
  BY <1>1 DEF Chained
<1> QED
  BY <1>4, <1>5, <1>6 DEF IntactChain

LEMMA StoredIsIntact ==
    ASSUME StoreInv, NEW b
    PROVE  Keyed(RowsOf(reading, b)) /\ IntactChain(RowsOf(reading, b))
  BY ChainedIsIntact DEF StoreInv, IInv, InFlightConsistent, ChainInv, TypeOK, TablesOK

\* The newest anchored head of a building, where there is a bound on their numbers.
LEMMA LatestIs ==
    ASSUME NEW entries, NEW b, NEW bound \in Nat,
           NEW mine, mine = { e \in entries : e.building_id = b },
           \A e \in mine : e.last_seq \in Nat /\ e.last_seq <= bound
    PROVE  \/ mine = {} /\ latest_checkpoint(entries, b) = {}
           \/ \E e \in mine : /\ latest_checkpoint(entries, b) = {e}
                              /\ \A f \in mine : f.last_seq <= e.last_seq
<1> DEFINE top == CHOOSE e \in mine : \A f \in mine : f.last_seq <= e.last_seq
<1>1. CASE mine = {}
  BY <1>1 DEF latest_checkpoint
<1>2. CASE mine # {}
  <2> DEFINE S == { e.last_seq : e \in mine }
  <2>1. S \in SUBSET Nat /\ S # {} /\ \A n \in S : n <= bound
    BY <1>2
  <2> HIDE DEF S
  <2>2. PICK n \in S : \A m \in S : m <= n
    BY <2>1, GreatestNatural
  <2> USE DEF S
  <2>3. PICK e \in mine : e.last_seq = n
    BY <2>2
  <2>4. \A f \in mine : f.last_seq <= e.last_seq
    BY <2>2, <2>3
  <2>5. top \in mine /\ \A f \in mine : f.last_seq <= top.last_seq
    BY <2>4
  <2>6. latest_checkpoint(entries, b) = {top}
    BY <1>2 DEF latest_checkpoint
  <2> QED
    BY <2>5, <2>6
<1> QED
  BY <1>1, <1>2

----------------------------------------------------------------------------
(* The verification request *)

GoodJudgement(rows, cp) == ChainOk(rows, cp) = "true" /\ CheckpointOk(rows, cp) # "false"

\* What the request has read fits what is stored now: rows are never removed, so the head
\* it took from the anchor file is still a stored one.
SeenInv ==
    /\ vpc \in {"idle", "stored", "rows", "judge"}
    /\ target \in Building
    /\ vpc # "idle" => /\ seenAnchor \subseteq anchor
                       /\ \A e \in seenAnchor : e.building_id = target
    /\ vpc = "judge" => GoodJudgement(seenRows, seenAnchor)

VerifyInv == StoreInv /\ SeenInv /\ NoFalseAlarm

\* The newest line of the anchor file is one of its lines.
LEMMA LatestAnchor ==
    ASSUME StoreInv, NEW b \in Building
    PROVE  /\ latest_checkpoint(anchor, b) \subseteq anchor
           /\ \A e \in latest_checkpoint(anchor, b) : e.building_id = b
<1> DEFINE mine == { e \in anchor : e.building_id = b }
           rows == RowsOf(reading, b)
<1>0. /\ anchor \subseteq AnchorLine /\ reading \subseteq Row /\ HasTops
      /\ \A k \in anchor : HoldsHead(k)
  BY DEF StoreInv, IInv, InFlightConsistent, ChainInv, AnchorInv, TypeOK, MarksOK, TablesOK
<1>1. CASE mine = {}
  BY <1>1 DEF latest_checkpoint
<1>2. CASE mine # {}
  <2>1. \A e \in mine : e.last_seq \in Nat /\ \E r \in rows : r.seq = e.last_seq
    BY <1>0 DEF HoldsHead, RowsOf, AnchorLine
  <2>2. rows # {}
    BY <1>2, <2>1
  <2>3. PICK t \in rows : IsTop(t, rows)
    BY <1>0, <2>2 DEF HasTops
  <2>4. t.seq \in Nat /\ \A r \in rows : r.seq <= t.seq
    BY <1>0, <2>3 DEF IsTop, RowsOf, Row
  <2>5. \A e \in mine : e.last_seq <= t.seq
    BY <2>1, <2>4
  <2>6. \A e \in mine : e.last_seq \in Nat /\ e.last_seq <= t.seq
    BY <2>1, <2>5
  <2> HIDE DEF mine
  <2>7. \/ mine = {} /\ latest_checkpoint(anchor, b) = {}
        \/ \E e \in mine : latest_checkpoint(anchor, b) = {e}
    <3>1. mine = { e \in anchor : e.building_id = b }
      BY DEF mine
    <3> QED
      BY <2>4, <2>6, <3>1, LatestIs
  <2>8. \A e \in mine : e \in anchor /\ e.building_id = b
    BY DEF mine
  <2> QED
    BY <2>7, <2>8
<1> QED
  BY <1>1, <1>2

\* The rows as they are, judged against any stored head of the building: the walk passes
\* and the rows reach the head.
LEMMA UntouchedJudgesGood ==
    ASSUME StoreInv, NEW b \in Building, NEW cp \in SUBSET anchor,
           \A e \in cp : e.building_id = b
    PROVE  GoodJudgement(read_chain(reading, b), cp)
<1> DEFINE rows == RowsOf(reading, b)
           s == read_chain(reading, b)
           e == CHOOSE x \in cp : TRUE
<1>1. Keyed(rows) /\ IntactChain(rows)
  BY StoredIsIntact
<1>2. /\ s \in Seq(rows) /\ Len(s) \in Nat /\ DOMAIN s = 1..Len(s)
      /\ \A r \in rows : \E i \in DOMAIN s : s[i] = r
  BY <1>1, ReadChainSorts
<1>3. \A i \in DOMAIN s : s[i].seq = i - 1
  <2> SUFFICES ASSUME NEW i \in DOMAIN s PROVE s[i].seq = i - 1
    OBVIOUS
  <2> QED
    BY <1>1, IntactNumbering
<1>4. rows # {} => verify_chain(s, s[1].seq).ok
  BY <1>1, WalkDecidesIntact
<1> HIDE DEF s
<1>5. \A x \in cp : \E r \in rows : r.seq = x.last_seq /\ r.sig = x.head_sig
  BY DEF StoreInv, IInv, InFlightConsistent, AnchorInv, HoldsHead, RowsOf
<1>6. cp # {} => e \in cp
  OBVIOUS
<1> HIDE DEF e
<1>7. cp # {} => s # <<>> /\ verify_against_checkpoint(s, e.last_seq, e.head_sig)
  <2> SUFFICES ASSUME cp # {}
               PROVE  s # <<>> /\ verify_against_checkpoint(s, e.last_seq, e.head_sig)
    OBVIOUS
  <2>1. PICK r \in rows : r.seq = e.last_seq /\ r.sig = e.head_sig
    BY <1>5, <1>6
  <2>2. PICK i \in 1..Len(s) : s[i] = r
    BY <1>2
  <2> HIDE DEF rows
  <2>3. Len(s) \in 1..Len(s) /\ s # <<>>
    BY <1>2, <2>2
  <2>4. s[Len(s)].seq = Len(s) - 1 /\ e.last_seq = i - 1
    BY <1>2, <1>3, <2>1, <2>2, <2>3
  <2>5. s[Len(s)].seq >= e.last_seq
    <3>1. Len(s) - 1 >= i - 1
      BY <1>2, <2>2
    <3> QED
      BY <2>4, <3>1
  <2>6. s[Len(s)].seq = e.last_seq => s[Len(s)].sig = e.head_sig
    <3> SUFFICES ASSUME s[Len(s)].seq = e.last_seq PROVE s[Len(s)].sig = e.head_sig
      OBVIOUS
    <3>0. Len(s) - 1 = i - 1
      BY <2>4
    <3>1. Len(s) = i
      <4>1. \A x, y \in Nat : x - 1 = y - 1 => x = y
        OBVIOUS
      <4>2. Len(s) \in Nat /\ i \in Nat
        BY <1>2
      <4> QED
        BY <3>0, <4>1, <4>2
    <3> QED
      BY <2>1, <2>2, <3>1
  <2> QED
    BY <2>3, <2>5, <2>6 DEF verify_against_checkpoint
<1>8. CheckpointOk(s, cp) # "false"
  BY <1>7 DEF CheckpointOk, Truth, e
<1>9. ChainOk(s, cp) = "true"
  <2>1. CASE s = <<>>
    BY <1>7, <2>1 DEF ChainOk
  <2>2. CASE s # <<>>
    <3>1. rows # {}
      BY <1>2, <2>2
    <3> QED
      BY <1>4, <2>2, <3>1 DEF ChainOk, Truth
  <2> QED
    BY <2>1, <2>2
<1> QED
  BY <1>8, <1>9 DEF GoodJudgement, s

\* Rows and anchored lines are never removed.
LEMMA AnchorStays == [Next]_vars => anchor \subseteq anchor'
<1> SUFFICES ASSUME [Next]_vars PROVE anchor \subseteq anchor'
  OBVIOUS
<1> USE DEF marks
<1> QED
  BY DEF Next, vars, LoopStep, Failure, OnMessage, AppendReading, OnMalformed, Start,
         TakeBatch, FlushNothing, BeginWrite, SignNext, WriteNothing, Score, ScoreBatch,
         Commit, ApplyHeads, Refuse, QueryKnown, AskKnown, FilterNext, DropBatch, Rewrite,
         CheckpointDb, AppendAnchor, CheckpointDone, Exit, StartFails, WriteFails,
         QueryFails, CheckpointFails, Crash, Stop, AddBuilding, Tick

LEMMA VerifyInvInit == VerifyInit => VerifyInv
  BY StoreInit DEF VerifyInit, VerifyInv, SeenInv, NoFalseAlarm, NoReport

\* Every step of the ingester or of the request.
LEMMA VerifyInvStep == VerifyInv /\ [VerifyNext]_allVars => VerifyInv'
<1> SUFFICES ASSUME StoreInv, SeenInv, NoFalseAlarm, [VerifyNext]_allVars PROVE VerifyInv'
  BY DEF VerifyInv
<1>1. CASE [Next]_vars /\ UNCHANGED verifyVars
  <2>1. StoreInv' /\ anchor \subseteq anchor'
    BY <1>1, StoreStep, AnchorStays
  <2>2. UNCHANGED <<vpc, target, seenAnchor, seenRows, report>>
    BY <1>1 DEF verifyVars
  <2>3. SeenInv'
    BY <2>1, <2>2 DEF SeenInv, GoodJudgement, ChainOk, CheckpointOk
  <2> QED
    BY <2>1, <2>2, <2>3 DEF VerifyInv, NoFalseAlarm
<1>2. CASE UNCHANGED vars /\ ~UNCHANGED verifyVars
  <2>0. StoreInv' /\ anchor' = anchor
    BY <1>2, StoreStep DEF vars, marks
  <2>1. ASSUME NEW b \in Building, ReadAnchor(b) PROVE VerifyInv'
    BY <2>0, <2>1, LatestAnchor DEF ReadAnchor, VerifyInv, SeenInv, NoFalseAlarm
  <2>2. CASE ReadStored
    BY <2>0, <2>2 DEF ReadStored, VerifyInv, SeenInv, NoFalseAlarm
  <2>3. CASE ReadRows
    <3>1. seenAnchor \subseteq anchor /\ \A e \in seenAnchor : e.building_id = target
      BY <2>3 DEF ReadRows, SeenInv
    <3>2. target \in Building
      BY DEF SeenInv
    <3>3. GoodJudgement(read_chain(reading, target), seenAnchor)
      BY <3>1, <3>2, UntouchedJudgesGood
    <3> QED
      BY <2>0, <2>3, <3>1, <3>2, <3>3 DEF ReadRows, VerifyInv, SeenInv, NoFalseAlarm
  <2>4. CASE Respond
    <3>1. GoodJudgement(seenRows, seenAnchor) /\ target \in Building
      BY <2>4 DEF Respond, SeenInv
    <3>2. report' = Judge(seenAnchor, seenStored, seenRows) /\ vpc' = "idle" /\ target' = target
      BY <2>4 DEF Respond, EndRequest
    <3>3. /\ report'.chain_ok = ChainOk(seenRows, seenAnchor)
          /\ report'.checkpoint_ok = CheckpointOk(seenRows, seenAnchor)
      BY <3>2 DEF Judge
    <3> QED
      BY <2>0, <3>1, <3>2, <3>3 DEF VerifyInv, SeenInv, NoFalseAlarm, GoodJudgement
  <2> QED
    BY <1>2, <2>1, <2>2, <2>3, <2>4 DEF VerifyNext, allVars
<1>3. ([Next]_vars /\ UNCHANGED verifyVars) \/ UNCHANGED vars
  BY DEF VerifyNext, allVars, ReadAnchor, ReadStored, ReadRows, Respond, EndRequest
<1> QED
  BY <1>1, <1>2, <1>3

\* verify_building_chain, running beside the ingester, never reports a broken chain or a
\* truncated tail in data nobody touched, for any portfolio and any interleaving of its
\* three reads with stores, anchors, failures and restarts.
THEOREM NeverAFalseAlarm == VerifySpec => []NoFalseAlarm
<1>1. VerifySpec => []VerifyInv
  BY VerifyInvInit, VerifyInvStep, PTL DEF VerifySpec
<1>2. VerifyInv => NoFalseAlarm
  BY DEF VerifyInv
<1> QED
  BY <1>1, <1>2, PTL

----------------------------------------------------------------------------
(* The refinement: the tables and the anchor file as ReadingLog            *)

\* LogOf and AnchoredOf, of any table and any anchor file.
LogIn(table, b) == [ i \in 1..Cardinality(RowsOf(table, b)) |->
                       PayloadOf(CHOOSE r \in RowsOf(table, b) : r.seq = i - 1) ]

AnchoredIn(entries, b) == LET top == latest_checkpoint(entries, b)
                          IN  IF top = {} THEN 0 ELSE (CHOOSE e \in top : TRUE).last_seq + 1

\* The log of an intact table: entry i is the row numbered i - 1, and every row is in it.
LEMMA LogEntries ==
    ASSUME NEW table, NEW b, NEW rows, rows = RowsOf(table, b), Keyed(rows), IntactChain(rows),
           NEW n, n = Cardinality(rows)
    PROVE  /\ n \in Nat
           /\ Len(LogIn(table, b)) = n
           /\ \A r \in rows : /\ r.seq \in Nat /\ r.seq + 1 \in 1..n
                              /\ LogIn(table, b)[r.seq + 1] = PayloadOf(r)
           /\ \A i \in 1..n : \E r \in rows : r.seq = i - 1 /\ LogIn(table, b)[i] = PayloadOf(r)
<1> DEFINE s == read_chain(table, b)
           row(i) == CHOOSE r \in rows : r.seq = i - 1
<1>1. /\ s \in Seq(rows) /\ Len(s) = n /\ DOMAIN s = 1..Len(s)
      /\ \A r \in rows : \E i \in DOMAIN s : s[i] = r
  BY ReadChainSorts
<1>2. \A i \in DOMAIN s : s[i].seq = i - 1
  <2> SUFFICES ASSUME NEW i \in DOMAIN s PROVE s[i].seq = i - 1
    OBVIOUS
  <2> QED
    BY IntactNumbering
<1> HIDE DEF s
<1>3. n \in Nat
  BY <1>1
<1>4. \A i \in 1..n : s[i] \in rows /\ s[i].seq = i - 1
  <2>1. \A i \in 1..Len(s) : s[i] \in rows
    BY <1>1
  <2> QED
    BY <1>1, <1>2, <2>1
<1>5. \A i \in 1..n : row(i) \in rows /\ row(i).seq = i - 1
  <2> SUFFICES ASSUME NEW i \in 1..n PROVE row(i) \in rows /\ row(i).seq = i - 1
    OBVIOUS
  <2>1. \E r \in rows : r.seq = i - 1
    BY <1>4
  <2> QED
    BY <2>1
<1>6. LogIn(table, b) = [i \in 1..n |-> PayloadOf(row(i))]
  BY DEF LogIn
<1> HIDE DEF row
<1>7. Len(LogIn(table, b)) = n
  BY <1>3, <1>6
<1>8. \A i \in 1..n : LogIn(table, b)[i] = PayloadOf(row(i))
  BY <1>6
<1>9. \A i \in 1..n : \E r \in rows : r.seq = i - 1 /\ LogIn(table, b)[i] = PayloadOf(r)
  BY <1>5, <1>8
<1>10. ASSUME NEW r \in rows
       PROVE  /\ r.seq \in Nat /\ r.seq + 1 \in 1..n
              /\ LogIn(table, b)[r.seq + 1] = PayloadOf(r)
  <2>1. PICK i \in 1..n : s[i] = r
    BY <1>1
  <2>2. r.seq = i - 1
    BY <1>4, <2>1
  <2>3. r.seq \in Nat /\ r.seq + 1 = i
    BY <1>3, <2>2
  <2>4. row(i) = r
    BY <1>5, <2>2 DEF IntactChain
  <2> QED
    BY <1>8, <2>3, <2>4
<1> QED
  BY <1>3, <1>7, <1>9, <1>10

\* A table that keeps its rows continues every log.
LEMMA LogContinues ==
    ASSUME NEW S \in SUBSET Row, NEW T \in SUBSET Row, S \subseteq T,
           Chained(S), Chained(T), IsFiniteSet(S), IsFiniteSet(T),
           \A r \in T : PayloadOf(r) \in Reading, NEW b
    PROVE  Log!Continues(b, LogIn(S, b), LogIn(T, b))
<1> DEFINE rs == RowsOf(S, b)
           rt == RowsOf(T, b)
           n == Cardinality(rs)
           m == Cardinality(rt)
           old == LogIn(S, b)
           new == LogIn(T, b)
<1>1. Keyed(rs) /\ IntactChain(rs) /\ Keyed(rt) /\ IntactChain(rt)
  BY ChainedIsIntact
<1>2. rs \subseteq rt
  BY DEF RowsOf
<1>3. /\ n \in Nat /\ Len(old) = n
      /\ \A i \in 1..n : \E r \in rs : r.seq = i - 1 /\ old[i] = PayloadOf(r)
  BY <1>1, LogEntries
<1>4. /\ m \in Nat /\ Len(new) = m
      /\ \A r \in rt : r.seq \in Nat /\ r.seq + 1 \in 1..m /\ new[r.seq + 1] = PayloadOf(r)
      /\ \A i \in 1..m : \E r \in rt : r.seq = i - 1 /\ new[i] = PayloadOf(r)
  BY <1>1, LogEntries
<1>5. n <= m
  BY <1>1, <1>2, FS_Subset DEF Keyed
<1>6. \A r \in rt : PayloadOf(r) \in Reading /\ PayloadOf(r).building_id = b /\ PayloadOf(r).ts = r.ts
  BY DEF RowsOf, PayloadOf
<1>7. \A r, q \in rt : q.seq < r.seq => q.ts < r.ts
  BY DEF Chained, RowsOf
<1> HIDE DEF n, m, rs, rt, old, new
<1>8. ASSUME NEW i \in 1..n PROVE new[i] = old[i]
  <2>1. PICK r \in rs : r.seq = i - 1 /\ old[i] = PayloadOf(r)
    BY <1>3
  <2>2. r.seq + 1 = i
    BY <1>3, <2>1
  <2> QED
    BY <1>2, <1>4, <2>1, <2>2
<1>9. ASSUME NEW i \in n+1..m
      PROVE  /\ new[i] \in Reading /\ new[i].building_id = b
             /\ i > 1 => new[i-1].ts < new[i].ts
  <2>0. i \in 1..m
    BY <1>3, <1>4
  <2>1. PICK r \in rt : r.seq = i - 1 /\ new[i] = PayloadOf(r)
    BY <1>4, <2>0
  <2>2. ASSUME i > 1 PROVE new[i-1].ts < new[i].ts
    <3>1. i - 1 \in 1..m
      BY <1>4, <2>0, <2>2
    <3>2. PICK q \in rt : q.seq = (i - 1) - 1 /\ new[i-1] = PayloadOf(q)
      BY <1>4, <3>1
    <3>3. (i - 1) - 1 < i - 1
      BY <2>0
    <3>4. q.seq < r.seq
      BY <2>1, <3>2, <3>3
    <3> QED
      BY <1>6, <1>7, <2>1, <3>2, <3>4
  <2> QED
    BY <1>6, <2>1, <2>2
<1> QED
  BY <1>3, <1>4, <1>5, <1>8, <1>9 DEF Log!Continues, old, new

\* How far a building is anchored: up to its newest line, and never beyond its rows.
LEMMA AnchoredIs ==
    ASSUME NEW entries \in SUBSET AnchorLine, NEW table \in SUBSET Row, Chained(table),
           IsFiniteSet(table), NEW b,
           \A e \in entries : \E r \in table : /\ r.building_id = e.building_id
                                               /\ r.seq = e.last_seq
    PROVE  /\ AnchoredIn(entries, b) \in 0..Len(LogIn(table, b))
           /\ \A e \in entries : e.building_id = b => e.last_seq + 1 <= AnchoredIn(entries, b)
           /\ \/ AnchoredIn(entries, b) = 0
              \/ \E e \in entries : e.building_id = b /\ e.last_seq + 1 = AnchoredIn(entries, b)
<1> DEFINE rows == RowsOf(table, b)
           n == Cardinality(rows)
           mine == { e \in entries : e.building_id = b }
           top == latest_checkpoint(entries, b)
<1>1. Keyed(rows) /\ IntactChain(rows)
  BY ChainedIsIntact
<1>2. /\ n \in Nat /\ Len(LogIn(table, b)) = n
      /\ \A r \in rows : r.seq \in Nat /\ r.seq + 1 \in 1..n
  BY <1>1, LogEntries
<1>3. \A e \in mine : e.last_seq \in Nat /\ \E r \in rows : r.seq = e.last_seq
  BY DEF RowsOf, AnchorLine
<1> HIDE DEF rows, n
<1>4. \A e \in mine : e.last_seq \in Nat /\ e.last_seq + 1 \in 1..n
  BY <1>2, <1>3
<1>5. \A e \in mine : e.last_seq \in Nat /\ e.last_seq <= n
  BY <1>2, <1>4
<1>6. \/ mine = {} /\ top = {}
      \/ \E e \in mine : top = {e} /\ \A f \in mine : f.last_seq <= e.last_seq
  <2>1. mine = { e \in entries : e.building_id = b }
    OBVIOUS
  <2> HIDE DEF mine
  <2> QED
    BY <1>2, <1>5, <2>1, LatestIs
<1>7. CASE mine = {} /\ top = {}
  <2>1. AnchoredIn(entries, b) = 0
    BY <1>7 DEF AnchoredIn
  <2> QED
    BY <1>2, <1>7, <2>1
<1>8. ASSUME NEW e \in mine, top = {e}, \A f \in mine : f.last_seq <= e.last_seq
      PROVE  /\ AnchoredIn(entries, b) \in 0..n
             /\ \A f \in mine : f.last_seq + 1 <= AnchoredIn(entries, b)
             /\ AnchoredIn(entries, b) = e.last_seq + 1
  <2>1. AnchoredIn(entries, b) = e.last_seq + 1
    BY <1>8 DEF AnchoredIn
  <2>2. \A f \in mine : f.last_seq + 1 <= e.last_seq + 1
    BY <1>4, <1>8
  <2>3. e.last_seq + 1 \in 0..n
    BY <1>2, <1>4
  <2> QED
    BY <2>1, <2>2, <2>3
<1> QED
  BY <1>2, <1>6, <1>7, <1>8

\* The empty stores are the empty logs.
LEMMA RefineInit == Init => Log!Init
<1> SUFFICES ASSUME Init PROVE Log!Init
  OBVIOUS
<1>1. \A b \in Building : LogOf(b) = <<>>
  <2> SUFFICES ASSUME NEW b \in Building PROVE LogOf(b) = <<>>
    OBVIOUS
  <2>1. RowsOf(reading, b) = {}
    BY DEF Init, RowsOf
  <2>2. Cardinality(RowsOf(reading, b)) = 0
    BY <2>1, FS_EmptySet
  <2> QED
    BY <2>2 DEF LogOf
<1>2. \A b \in Building : AnchoredOf(b) = 0
  BY DEF Init, AnchoredOf, latest_checkpoint
<1> QED
  BY <1>1, <1>2 DEF Log!Init

\* The commit extends logs, the anchor file's lines anchor them, and every other step of
\* the ingester leaves both alone.
LEMMA RefineStep == StoreInv /\ StoreInv' /\ [Next]_vars => [Log!Next]_(Log!vars)
<1> SUFFICES ASSUME StoreInv, StoreInv', [Next]_vars PROVE [Log!Next]_(Log!vars)
  OBVIOUS
<1>s. /\ reading \in SUBSET Row /\ Chained(reading) /\ IsFiniteSet(reading)
      /\ anchor \in SUBSET AnchorLine
      /\ \A e \in anchor : \E r \in reading : /\ r.building_id = e.building_id
                                              /\ r.seq = e.last_seq
  BY DEF StoreInv, IInv, InFlightConsistent, ChainInv, AnchorInv, HoldsHead, TypeOK,
         TablesOK, MarksOK
<1>n. /\ reading' \in SUBSET Row /\ Chained(reading') /\ IsFiniteSet(reading')
      /\ anchor' \in SUBSET AnchorLine
      /\ \A e \in anchor' : \E r \in reading' : /\ r.building_id = e.building_id
                                                /\ r.seq = e.last_seq
      /\ \A r \in reading' : PayloadOf(r) \in Reading
  BY DEF StoreInv, IInv, InFlightConsistent, ChainInv, AnchorInv, HoldsHead, TypeOK,
         TablesOK, MarksOK, Chained, PayloadOf
<1>l. /\ \A b : LogOf(b) = LogIn(reading, b) /\ LogOf(b)' = LogIn(reading', b)
      /\ \A b : AnchoredOf(b) = AnchoredIn(anchor, b) /\ AnchoredOf(b)' = AnchoredIn(anchor', b)
  BY DEF LogOf, LogIn, AnchoredOf, AnchoredIn, PayloadOf
<1>1. CASE Commit
  <2>1. anchor' = anchor /\ reading \subseteq reading'
    BY <1>1, RowsStay DEF Commit, marks
  <2>2. \A b \in Building : Log!Continues(b, LogIn(reading, b), LogIn(reading', b))
    BY <1>s, <1>n, <2>1, LogContinues
  <2> QED
    BY <1>l, <2>1, <2>2 DEF Log!Next, Log!Extend
<1>2. CASE AppendAnchor
  <2>1. reading' = reading /\ anchor \subseteq anchor'
    BY <1>2 DEF AppendAnchor, tables
  <2>2. ASSUME NEW b \in Building
        PROVE  /\ AnchoredIn(anchor, b) <= AnchoredIn(anchor', b)
               /\ AnchoredIn(anchor', b) <= Len(LogIn(reading, b))
    <3>0. AnchoredIn(anchor, b) \in 0..Len(LogIn(reading, b))
      BY <1>s, AnchoredIs
    <3>1. \/ AnchoredIn(anchor, b) = 0
          \/ \E e \in anchor : e.building_id = b /\ e.last_seq + 1 = AnchoredIn(anchor, b)
      BY <1>s, AnchoredIs
    <3>2. /\ AnchoredIn(anchor', b) \in 0..Len(LogIn(reading, b))
          /\ \A e \in anchor' : e.building_id = b => e.last_seq + 1 <= AnchoredIn(anchor', b)
      BY <1>n, <2>1, AnchoredIs
    <3>3. CASE AnchoredIn(anchor, b) = 0
      BY <3>2, <3>3
    <3>4. CASE AnchoredIn(anchor, b) # 0
      BY <2>1, <3>1, <3>2, <3>4
    <3> QED
      BY <3>2, <3>3, <3>4
  <2> QED
    BY <1>l, <2>1, <2>2 DEF Log!Next, Log!Anchor
<1>3. CASE UNCHANGED <<reading, anchor>>
  BY <1>l, <1>3 DEF Log!vars
<1>4. ASSUME ~Commit, ~AppendAnchor PROVE UNCHANGED <<reading, anchor>>
  <2> USE DEF tables, marks
  <2> QED
    BY <1>4 DEF Next, vars, LoopStep, Failure, OnMessage, AppendReading, OnMalformed, Start,
                TakeBatch, FlushNothing, BeginWrite, SignNext, WriteNothing, Score,
                ScoreBatch, ApplyHeads, Refuse, QueryKnown, AskKnown, FilterNext, DropBatch,
                Rewrite, CheckpointDb, CheckpointDone, Exit, StartFails, WriteFails,
                QueryFails, CheckpointFails, Crash, Stop, AddBuilding, Tick
<1> QED
  BY <1>1, <1>2, <1>3, <1>4

\* The ingester implements ReadingLog: whatever fails, is retried or redelivered, the
\* table is one append-only log per building in time order, a transaction extends it, and
\* the anchor file names a prefix of it that never shrinks.
THEOREM IngestImplementsLog == Spec => ImplementsLog
<1>1. Spec => []StoreInv
  BY StoreInit, StoreStep, PTL DEF Spec
<1>2. Init => Log!Init
  BY RefineInit
<1>3. StoreInv /\ StoreInv' /\ [Next]_vars => [Log!Next]_(Log!vars)
  BY RefineStep
<1> QED
  BY <1>1, <1>2, <1>3, PTL DEF Spec, ImplementsLog, Log!Spec
=============================================================================

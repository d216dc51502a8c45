------------------------------ MODULE Detector ------------------------------
(***************************************************************************)
(* The memory of StreamingDetector (gemp/ingest/live_anomaly.py): a bounded *)
(* window per building, at most MaxTracked buildings kept in least-recently-*)
(* scored order, and the snapshot that undoes a batch which is not stored.  *)
(*                                                                         *)
(* A reading is its instant: what the scores themselves are is arithmetic   *)
(* over the window and plays no part in how the windows are kept.           *)
(***************************************************************************)
EXTENDS Integers, Sequences, FiniteSets, SequencesExt

CONSTANTS
    Building,
    MaxTracked,    \* MAX_TRACKED_BUILDINGS
    History,       \* HISTORY_READINGS
    MaxReadings    \* bound: readings scored

ASSUME DetectorAssumption ==
    /\ MaxTracked \in Nat \ {0} /\ History \in Nat \ {0} /\ MaxReadings \in Nat

VARIABLES
    state,    \* self.state, in dictionary order: a sequence of [id, window]
    saved,    \* self._saved, in its order too: [id, was]; `was` holds at most one window
    evicted,  \* self.evicted
    pc,       \* warming up, between batches, inside rollback_on_error, or in its handler
    clock,    \* the instant of the next reading
    before,   \* history: what the batch found, and the buildings it pushed out
    warmed    \* history: the buildings warm_from_db has come to

detectorVars == <<state, saved, evicted, pc, clock, before, warmed>>

----------------------------------------------------------------------------
Ids(s)       == { s[i].id : i \in DOMAIN s }
Place(s, b)  == CHOOSE i \in DOMAIN s : s[i].id = b

\* The window of b, if it has one, and what pop(b, None) leaves.
WindowOf(s, b) == { e.window : e \in { x \in Range(s) : x.id = b } }
Without(s, b)  == IF b \in Ids(s) THEN RemoveAt(s, Place(s, b)) ELSE s

\* BuildingState.remember on a full ring forgets its oldest reading.
remember(window, ts) ==
    LET full == Append(window, ts)
    IN  IF Len(full) > History THEN Tail(full) ELSE full

\* Mutant: a building that is scored keeps its place in the order.
state_for_mutant(s, b) ==
    IF b \in Ids(s) THEN s
    ELSE Append(IF Len(s) >= MaxTracked THEN Tail(s) ELSE s, [id |-> b, window |-> <<>>])

\* _state_for: the building moves to the end; a new one pushes the first out when the
\* dictionary is full.
state_for(s, b) ==
    IF b \in Ids(s)
    THEN Append(Without(s, b), s[Place(s, b)])
    ELSE Append(IF Len(s) >= MaxTracked THEN Tail(s) ELSE s, [id |-> b, window |-> <<>>])

Evicts(s, b) == b \notin Ids(s) /\ Len(s) >= MaxTracked

\* Mutant: every touch is saved, the later ones over the first.
remember_for_rollback_mutant(b) ==
    Append(Without(saved, b), [id |-> b, was |-> WindowOf(state, b)])

\* _remember_for_rollback: the first touch of a building in this batch.
remember_for_rollback(b) ==
    IF b \in Ids(saved) THEN saved
    ELSE Append(saved, [id |-> b, was |-> WindowOf(state, b)])

\* `state` after state_for and remember.
Scored(b) ==
    LET s == state_for(state, b)
    IN  [i \in DOMAIN s |-> IF s[i].id = b
                            THEN [s[i] EXCEPT !.window = remember(@, clock)] ELSE s[i]]

Touch(b) ==
    /\ clock < MaxReadings
    /\ clock' = clock + 1
    /\ state' = Scored(b)
    /\ evicted' = IF Evicts(state, b) THEN evicted + 1 ELSE evicted

----------------------------------------------------------------------------
\* warm_from_db: the same path without a snapshot, one building after another.
Warm(b) ==
    /\ pc = "warm"
    /\ b \in warmed => state[Len(state)].id = b
    /\ warmed' = warmed \cup {b}
    /\ Touch(b)
    /\ UNCHANGED <<saved, pc, before>>

WarmDone ==
    /\ pc = "warm"
    /\ pc' = "idle"
    /\ UNCHANGED <<state, saved, evicted, clock, before, warmed>>

\* rollback_on_error is entered.
Begin ==
    /\ pc = "idle"
    /\ saved' = <<>>
    /\ before' = [state |-> state, evicted |-> evicted, lost |-> {}]
    /\ pc' = "batch"
    /\ UNCHANGED <<state, evicted, clock, warmed>>

\* score: one reading of the batch.
Score(b) ==
    /\ pc = "batch"
    /\ saved' = remember_for_rollback(b)
    /\ Touch(b)
    /\ before' = [before EXCEPT !.lost = @ \cup (Ids(state) \ Ids(state'))]
    /\ UNCHANGED <<pc, warmed>>

Stored ==
    /\ pc = "batch"
    /\ pc' = "idle"
    /\ saved' = <<>>
    /\ UNCHANGED <<state, evicted, clock, before, warmed>>

\* Mutant: only the entries the batch created are undone.
PutBack_mutant(s, e) == IF e.was = {} THEN Without(s, e.id) ELSE s

\* self.state[b] = snapshot: in place where b is still there, at the end otherwise.
PutBack(s, e) ==
    IF e.was = {} THEN Without(s, e.id)
    ELSE LET entry == [id |-> e.id, window |-> CHOOSE w \in e.was : TRUE]
         IN  IF e.id \in Ids(s)
             THEN [i \in DOMAIN s |-> IF s[i].id = e.id THEN entry ELSE s[i]]
             ELSE Append(s, entry)

\* The batch is not stored: the handler of rollback_on_error is entered ...
NotStored ==
    /\ pc = "batch"
    /\ pc' = "undoing"
    /\ UNCHANGED <<state, saved, evicted, clock, before, warmed>>

\* ... puts back one window after another, in the order of their first touch ...
UndoNext ==
    /\ pc = "undoing"
    /\ saved # <<>>
    /\ state' = PutBack(state, Head(saved))
    /\ saved' = Tail(saved)
    /\ UNCHANGED <<evicted, pc, clock, before, warmed>>

\* ... and then the counters.
Undone ==
    /\ pc = "undoing"
    /\ saved = <<>>
    /\ evicted' = before.evicted
    /\ pc' = "undone"
    /\ UNCHANGED <<state, saved, clock, before, warmed>>

Resume ==
    /\ pc = "undone"
    /\ pc' = "idle"
    /\ UNCHANGED <<state, saved, evicted, clock, before, warmed>>

DetectorInit ==
    /\ state = <<>> /\ saved = <<>> /\ evicted = 0 /\ pc = "warm" /\ clock = 0
    /\ before = [state |-> <<>>, evicted |-> 0, lost |-> {}]
    /\ warmed = {}

DetectorNext ==
    \/ WarmDone \/ Begin \/ Stored \/ NotStored \/ UndoNext \/ Undone \/ Resume
    \/ \E b \in Building : Warm(b) \/ Score(b)

DetectorSpec == DetectorInit /\ [][DetectorNext]_detectorVars

----------------------------------------------------------------------------
(* Properties *)

Windows(s) == { <<e.id, e.window>> : e \in Range(s) }

\* A batch that was not stored has left every window as it found it; all that can be
\* missing are buildings it pushed out.
UndoneUnlessEvicted ==
    pc = "undone" => /\ Windows(state) \subseteq Windows(before.state)
                     /\ Ids(before.state) \ Ids(state) \subseteq before.lost
                     /\ evicted = before.evicted

\* "a real building that reports every fifteen minutes must never be dropped in favour
\* of junk that arrived once": whatever was undone before, the buildings this batch has
\* scored stand behind the ones it has not, so the latter are pushed out first; and
\* there is one window for a building and, but for the middle of an undoing, no more
\* than MaxTracked of them.
ScoredGoLast ==
    /\ pc = "batch" =>
          \A i, j \in DOMAIN state :
              i < j /\ state[i].id \in Ids(saved) => state[j].id \in Ids(saved)
    /\ Cardinality(Ids(state)) = Len(state)
    /\ pc # "undoing" => Len(state) <= MaxTracked
============================================================================

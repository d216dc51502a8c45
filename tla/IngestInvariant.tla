-------------------------- MODULE IngestInvariant --------------------------
(***************************************************************************)
(* The inductive invariant behind the safety properties of Ingest: what    *)
(* the loop thread's heads, its uncommitted rows and the tables have to do *)
(* with each other at every point of a write.                              *)
(***************************************************************************)
EXTENDS Ingest

\* S is a set of rows in which every building's rows are one chain in time order.
Chained(S) ==
    /\ \A r, q \in S : r.building_id = q.building_id /\ r.seq = q.seq => r = q
    /\ \A r, q \in S : r.building_id = q.building_id /\ r.seq < q.seq => r.ts < q.ts
    /\ \A r \in S : Linked(RowsOf(S, r.building_id), r)

IsTop(r, rows) == r \in rows /\ \A q \in rows : q.seq <= r.seq

\* The head h continues the chain of b in S.
HeadOf(h, b, S) ==
    \/ RowsOf(S, b) = {} /\ h = NoChain
    \/ \E r \in RowsOf(S, b) : IsTop(r, RowsOf(S, b)) /\ h = HeadAt(r)

HeadsOf(hs, S) == \A b \in Building : HeadOf(hs[b], b, S)

\* load_chain_heads finds a highest row wherever there are rows at all.
HasTops == \A b \in Building :
              RowsOf(reading, b) = {} \/ \E r \in RowsOf(reading, b) : IsTop(r, RowsOf(reading, b))

\* The heads in memory are the stored ones, except between the commit and the
\* assignment that follows it; the heads of the call belong to the table as it will
\* be once the staged rows are in it.
ChainInv ==
    /\ Chained(reading) /\ HasTops
    /\ Up /\ pc # "apply" => HeadsOf(chains, reading)
    /\ pc \in {"sign", "insert"} =>
          Chained(reading \cup staged) /\ HeadsOf(heads, reading \cup staged)
    /\ pc = "apply" => HeadsOf(heads, reading)

\* Heads waiting to be written to the anchor file are stored as well.
AnchorInv == \A k \in checkpoint \cup anchor \cup unanchored : HoldsHead(k)

\* Where the detector's windows stand while a batch is in flight.
DetectorInv ==
    /\ Up /\ pc # "insert" => detector = Keys(reading)
    /\ pc = "insert" => undo = Keys(reading) /\ detector = Keys(reading) \cup Keys(staged)

NotifyInv ==
    /\ notified \subseteq anomaly
    /\ pc = "apply" => Flagged(staged) \subseteq anomaly

\* The heads the process holds, the rows of the batch it is writing, the tables, the
\* anchors and the detector fit together at every point of a write, so that any
\* exception, crash or restart in between leaves a chain the next write continues.
InFlightConsistent ==
    ChainInv /\ AnchorInv /\ DetectorInv /\ NotifyInv /\ IsFiniteSet(staged)

IInv == TypeOK /\ InFlightConsistent

----------------------------------------------------------------------------
(* Where the readings delivered to this process are *)

\* While a batch is signed and written, each of its readings is still to be looked at,
\* a duplicate, or a row of its own.
BatchInv ==
    /\ pc = "sign" => Len(todo) + dups + Cardinality(staged) = Len(pending)
    /\ pc \in {"insert", "apply"} => dups + Cardinality(staged) = Len(pending)

CountInv ==
    /\ Len(incoming) <= 1 /\ Len(queue) <= MaxQueued
    /\ ~Up => queue = <<>> /\ incoming = <<>> /\ count = NoCounts
    /\ Up => Delivered = Accounted + count.lost
    /\ BatchInv

\* A write that begins with the heads and the rows as they are would store r.
Storable(r) == r.ts > chains[r.building_id].last_ts /\ Key(r) \notin Keys(reading)
SomeStorable(s) == \E i \in DOMAIN s : Storable(s[i])

\* What the first attempt staged is what makes the second one store something.
SigningInv ==
    /\ \A i \in DOMAIN todo : \E j \in DOMAIN pending : pending[j] = todo[i]
    /\ stored = already_stored(pending)
    /\ IF staged = {} THEN heads = chains ELSE SomeStorable(pending)

Blameless == failures = 0 /\ count.rejected = 0

RetryInv ==
    /\ pc = "sign" => SigningInv
    /\ pc \in {"insert", "isolate"} => SomeStorable(pending)
    /\ Blameless =>
          /\ pc = "filter" => SomeStorable(pending) \/ SomeStorable(todo)
          /\ pc = "begin" /\ attempt = 2 => SomeStorable(pending)
          /\ pc = "sign" /\ attempt = 2 => staged # {} \/ SomeStorable(todo)

\* A queue that is full when a reading is appended was full when its length was looked at.
OverflowInv ==
    Blameless => /\ count.lost <= count.overflowed
                 /\ incoming # <<>> /\ Len(queue) = MaxQueued => count.lost < count.overflowed

AccountInv == CountInv /\ RetryInv /\ OverflowInv

----------------------------------------------------------------------------
(* The line in which the readings delivered to this process stand *)

\* Those not settled yet: the batch, until it is stored, found to be duplicates or
\* filtered, then the queue, then the one the network thread holds.
Batch == IF pc \in {"begin", "sign", "insert", "isolate"} THEN pending
         ELSE IF pc = "filter" THEN pending \o todo ELSE <<>>
Line == Batch \o queue \o incoming

\* How many of the batch the signing loop has come past; the rest is still in `todo`,
\* and the staged rows are of those.
Done == Len(pending) - Len(todo)
TodoInv ==
    /\ pc \in {"sign", "insert"} =>
          /\ Len(todo) <= Len(pending)
          /\ \A q \in DOMAIN todo : todo[q] = pending[Done + q]
          /\ \A r \in staged : \E p \in 1..Done : Key(pending[p]) = Key(r)
    /\ pc = "insert" => todo = <<>>

\* The deliveries to this process.
Here == since + 1 .. Len(arrived)

\* f says which delivery each reading in the line is: they stand in order of arrival.
Placed(f, line) ==
    /\ f \in [DOMAIN line -> Here]
    /\ \A p \in DOMAIN line : line[p] = arrived[f[p]]
    /\ \A p, q \in DOMAIN line : p < q => f[p] < f[q]

\* A delivery of a building in the portfolio that is no longer in the line came before
\* those that are, and is stored if it arrived in order.
SettledInv(f, line) ==
    \A k \in Here :
        /\ \A p \in DOMAIN line : f[p] # k
        /\ arrived[k].building_id \in InitialPortfolio
        => /\ \A p \in DOMAIN line : line[p].building_id = arrived[k].building_id => k < f[p]
           /\ InOrder(k) => Key(arrived[k]) \in Keys(reading)

\* What is stored was there when the process started or is no longer in the line.
StoredInv(f, line) ==
    \A r \in reading :
        r.building_id \in InitialPortfolio =>
            \/ r.ts <= resumed[r.building_id].last_ts
            \/ \E k \in Here : Key(arrived[k]) = Key(r) /\ \A p \in DOMAIN line : f[p] # k

\* What the signing loop has come past is stored or staged if it arrived in order.
SignedInv(f) ==
    pc \in {"sign", "insert"} =>
        \A p \in 1..Done :
            pending[p].building_id \in InitialPortfolio /\ InOrder(f[p])
                => Key(pending[p]) \in Keys(reading \cup staged)

LineInv(f, line) ==
    Placed(f, line) /\ SettledInv(f, line) /\ StoredInv(f, line) /\ SignedInv(f)

OrderInv ==
    /\ TodoInv
    /\ Up /\ ~Discards => \E f \in [DOMAIN Line -> Here] : LineInv(f, Line)
=============================================================================

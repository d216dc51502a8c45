-------------------------- MODULE IngestRefinesLog --------------------------
(***************************************************************************)
(* Ingest implements ReadingLog: a building's log is its rows in sequence  *)
(* order, its anchored length is one more than the newest anchored seq.    *)
(***************************************************************************)
EXTENDS Ingest

PayloadOf(row) == [building_id |-> row.building_id, ts |-> row.ts, kw |-> row.kw,
                   source |-> row.source]

LogOf(b) == [ i \in 1..Cardinality(RowsOf(reading, b)) |->
                PayloadOf(CHOOSE r \in RowsOf(reading, b) : r.seq = i - 1) ]

AnchoredOf(b) == LET top == latest_checkpoint(anchor, b)
                 IN  IF top = {} THEN 0 ELSE (CHOOSE e \in top : TRUE).last_seq + 1

Log == INSTANCE ReadingLog WITH
          log <- [b \in Building |-> LogOf(b)],
          anchored <- [b \in Building |-> AnchoredOf(b)]

\* The ingester's tables and anchor file behave as one append-only, time-ordered log
\* per building whose anchored prefix is always there, across retries, crashes and
\* restarts.
ImplementsLog == Log!Spec
============================================================================

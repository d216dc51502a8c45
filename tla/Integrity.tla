----------------------------- MODULE Integrity -----------------------------
(***************************************************************************)
(* The per-building hash chain of gemp/ingest/integrity.py and the newest- *)
(* entry scan of gemp/ingest/anchor.py, as pure operators.                 *)
(*                                                                         *)
(* HMAC-SHA256 under one key is idealised as an injective function: a      *)
(* signature IS the list of canonical encodings it commits to, so two      *)
(* signatures are equal exactly when the two signed histories are equal.   *)
(* The encoding itself is not the identity: whole seconds, fixed precision.*)
(***************************************************************************)
EXTENDS Integers, Sequences, FiniteSets

CONSTANTS
    TicksPerSecond,   \* instants are counted in ticks; this many make a second
    KwUnit            \* power is counted in units; this many make 10^-KW_PRECISION kW

ASSUME EncodingAssumption ==
    /\ TicksPerSecond \in Nat \ {0}
    /\ KwUnit \in Nat \ {0}

GENESIS == <<>>

\* int(as_utc(ts).timestamp()): the sub-second part of the instant is dropped.
epoch_seconds(ts) == ts \div TicksPerSecond

\* f"{kw:.4f}": rounded to the nearest multiple of 10^-KW_PRECISION.
kw_text(kw) == (2 * kw + KwUnit) \div (2 * KwUnit)

\* The five signed fields.
canonical(row) ==
    [ building_id |-> row.building_id,
      ts          |-> epoch_seconds(row.ts),
      kw          |-> kw_text(row.kw),
      source      |-> row.source,
      seq         |-> row.seq ]

sign(row, prev_sig) == Append(prev_sig, canonical(row))

----------------------------------------------------------------------------
(* The walk.  `rows` is a sequence of stored rows in sequence order.       *)

\* What the walk carries into row i: the stored signature of the row before it
\* and the sequence number it expects.
PrevSig(rows, i) == IF i = 1 THEN GENESIS ELSE rows[i-1].sig
ExpectedSeq(rows, i, first) == IF i = 1 THEN first ELSE rows[i-1].seq + 1

\* What is wrong with row i, given that every row before it passed.
BreakReason(rows, i, first) ==
    LET expected == ExpectedSeq(rows, i, first)
    IN  CASE rows[i].seq > expected -> "deleted"
          [] rows[i].seq < expected -> "reordered"
          [] rows[i].seq = expected /\ rows[i].sig # sign(rows[i], PrevSig(rows, i))
                 -> "modified"
          [] OTHER -> "none"

\* Mutant: the walk stops before the last row.
verify_chain_mutant(rows, expect_first_seq) ==
    [ok |-> \A i \in 1..Len(rows)-1 : BreakReason(rows, i, expect_first_seq) = "none",
     rows_checked |-> Len(rows), index |-> 0, reason |-> "none"]

\* verify_chain stops at the first break and reports it.
verify_chain(rows, expect_first_seq) ==
    LET broken == { i \in DOMAIN rows : BreakReason(rows, i, expect_first_seq) # "none" }
        first  == CHOOSE i \in broken : \A j \in broken : i <= j
    IN  IF broken = {}
        THEN [ok |-> TRUE, rows_checked |-> Len(rows), index |-> 0, reason |-> "none"]
        ELSE [ok |-> FALSE, rows_checked |-> first - 1, index |-> first,
              reason |-> BreakReason(rows, first, expect_first_seq)]

\* Mutant: off by one, a tail one row short of the anchor passes.
verify_against_checkpoint_mutant(rows, checkpoint_seq, checkpoint_sig) ==
    IF rows = <<>> THEN checkpoint_seq < 0 ELSE rows[Len(rows)].seq >= checkpoint_seq - 1

\* The anchor claims sequence N; a table that stops before N has lost its tail.
verify_against_checkpoint(rows, checkpoint_seq, checkpoint_sig) ==
    IF rows = <<>>
    THEN checkpoint_seq < 0
    ELSE LET last == rows[Len(rows)]
         IN  /\ last.seq >= checkpoint_seq
             /\ last.seq = checkpoint_seq => last.sig = checkpoint_sig

----------------------------------------------------------------------------
(* Reading the stores.  The reading table and the anchor file are sets of  *)
(* records; these are the queries the verifier puts to them.               *)

RowsOf(table, b) == { r \in table : r.building_id = b }

\* SELECT ... ORDER BY seq.  Rows that share a seq come in an order the query
\* leaves open; ts breaks the tie here.
read_chain(table, b) ==
    LET rows == RowsOf(table, b)
        Before(q, r) == q.seq < r.seq \/ (q.seq = r.seq /\ q.ts < r.ts)
    IN  [ i \in 1..Cardinality(rows) |->
            CHOOSE r \in rows : Cardinality({ q \in rows : Before(q, r) }) = i - 1 ]

\* The entry of a building with the highest last_seq, as a set of at most one.
latest_checkpoint(entries, b) ==
    LET mine == { e \in entries : e.building_id = b }
    IN  IF mine = {} THEN {}
        ELSE { CHOOSE e \in mine : \A f \in mine : f.last_seq <= e.last_seq }

----------------------------------------------------------------------------
(* What an intact chain is, said of the set of rows and not of a walk:     *)
(* every sequence number is held once, numbering starts at zero with a     *)
(* row signed from GENESIS, and every other row is signed from the row     *)
(* numbered one less.                                                      *)

Linked(rows, r) ==
    IF r.seq = 0
    THEN r.sig = sign(r, GENESIS)
    ELSE \E p \in rows : p.seq = r.seq - 1 /\ r.sig = sign(r, p.sig)

IntactChain(rows) ==
    /\ \A r, q \in rows : r.seq = q.seq => r = q
    /\ \A r \in rows : r.seq >= 0 /\ Linked(rows, r)
============================================================================

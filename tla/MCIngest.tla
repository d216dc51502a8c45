------------------------------ MODULE MCIngest ------------------------------
(***************************************************************************)
(* Small instances of Ingest.  Instants are in ticks of half a second and  *)
(* powers in half units of the fourth decimal, so that two readings of a   *)
(* building fall into the same second and the encoding really loses bits.  *)
(***************************************************************************)
EXTENDS IngestRefinesLog, IngestInvariant

At(b, ts) == [building_id |-> b, ts |-> ts, kw |-> ts, source |-> "sim"]

\* Two readings of a building in the same second and one in the next.
Hall == { At("hall", t) : t \in {2, 3, 4} }
\* A building the portfolio may lack.
Shed == { At("shed", 2) }

HallOnly == Hall
HallAndShed == { At("hall", 2), At("hall", 3) } \cup Shed
FirstHall == { At("hall", 2) }
============================================================================

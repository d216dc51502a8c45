------------------------------ MODULE MCVerify ------------------------------
(* Small instances of the verify endpoint beside the ingester.             *)
EXTENDS Verify

\* Two readings of one building, in one second.
TwoReadings == { [building_id |-> "hall", ts |-> t, kw |-> t, source |-> "sim"] :
                 t \in {2, 3} }
============================================================================

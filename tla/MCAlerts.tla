------------------------------ MODULE MCAlerts ------------------------------
(* Instances of Alerts for TLC. *)
EXTENDS Alerts

MCBuildings == <<"b1", "b2">>

Kinds == {"start", "outage", "probe", "fault", "end", "restart", "ack", "refit", "die",
          "refresh"}
Zero  == [f \in Kinds |-> 0]

\* Each budget bounds one kind of scenario; TLC explores all of them.
MCBudgets ==
    { \* runs end and begin again while others ask for /health and the database is away
      [Zero EXCEPT !.start = 2, !.end = 1, !.outage = 1, !.probe = 1],
      [Zero EXCEPT !.start = 2, !.end = 1, !.restart = 1],
      \* the same with faults
      [Zero EXCEPT !.start = 1, !.outage = 1, !.probe = 1, !.fault = 1],
      [Zero EXCEPT !.start = 2, !.end = 1, !.fault = 1],
      \* refits, one that dies and one beside it, while faults arrive
      [Zero EXCEPT !.start = 1, !.fault = 1, !.refit = 2, !.die = 1],
      [Zero EXCEPT !.start = 1, !.fault = 1, !.refit = 1, !.ack = 1, !.refresh = 1] }
============================================================================

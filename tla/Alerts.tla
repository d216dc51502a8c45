------------------------------- MODULE Alerts -------------------------------
(***************************************************************************)
(* The anomaly table beside the stream of module Station: the ingester     *)
(* inserts an alert with the reading it flags, operators acknowledge       *)
(* alerts, and a refit (gemp/ml/jobs.py), nightly or as an                 *)
(* administrator's job or both at once, replaces the alerts of building    *)
(* after building by its own.                                              *)
(*                                                                         *)
(* A faulty reading is one both detectors flag.  The live detector names   *)
(* the reading, the refit the hour it lies in.                             *)
(***************************************************************************)
EXTENDS Station

CONSTANTS
    Refit,       \* processes that may refit: the scheduler's, the job's
    PerHour      \* readings in an hour

ASSUME AlertsAssumption == PerHour \in Nat \ {0}

VARIABLES
    alerts,      \* table anomaly: [b, ts, acked], unique in b and ts
    hourly,      \* view reading_hourly: the readings it has been computed from
    forecast,    \* table forecast: per building how far the data went it was fitted to
    refit,       \* the refits
    dropped      \* history: readings whose alert a refit deleted and will not put back

alertVars == <<alerts, hourly, forecast, refit, dropped>>
allVars   == <<vars, alertVars>>

hour(t) == ((t - 1) \div PerHour) * PerHour + 1
NoRefit == [pc |-> "idle"]
AlertsOf(b) == { a \in alerts : a.b = b }
FaultyOf(b, rows) == { r \in rows : r.b = b /\ r.faulty }

\* Rows that are there already are skipped, acknowledged or not.
insert_ignore(rows) ==
    alerts \cup { r \in rows : ~\E a \in alerts : a.b = r.b /\ a.ts = r.ts }

Alert(b, t) == [b |-> b, ts |-> t, acked |-> FALSE]

\* The ingester's transaction: the reading and its alert.
StoreReading ==
    /\ Store
    /\ alerts' = LET r == Head(flight)
                 IN  IF r.faulty /\ ~Late(r) THEN insert_ignore({Alert(r.b, r.ts)}) ELSE alerts
    /\ UNCHANGED <<hourly, forecast, refit, dropped>>

----------------------------------------------------------------------------
(* Operators *)

\* Rows that change are counted: an alert that is in that state already is left alone.
acknowledge_anomalies(rows, value) ==
    (alerts \ rows) \cup { [a EXCEPT !.acked = value] : a \in rows }

\* The rows the selectors name: ids alone can name any of them, all_open names all.
Acknowledge(rows, value) ==
    /\ Spend("ack")
    /\ alerts' = acknowledge_anomalies(rows, value)
    /\ UNCHANGED <<wall, clamped, stored, flight, sim, truth, health_state, gone,
                   hourly, forecast, refit, dropped>>

\* A single one; 404 if it is closed or no longer there.
AcknowledgeOne(a) ==
    /\ Spend("ack") /\ ~a.acked
    /\ alerts' = acknowledge_anomalies({a}, TRUE)
    /\ UNCHANGED <<wall, clamped, stored, flight, sim, truth, health_state, gone,
                   hourly, forecast, refit, dropped>>

----------------------------------------------------------------------------
(* run_nightly *)

\* The database brings the hourly view up to date, now and then.
RefreshHourly ==
    /\ Spend("refresh") /\ hourly' = stored
    /\ UNCHANGED <<wall, clamped, stored, flight, sim, truth, health_state, gone,
                   alerts, forecast, refit, dropped>>

\* Every building's series is read at once, from the view as it is or, if there is none,
\* from the table; without readings there is nothing to do.
load_hourly_all == {hourly, stored} \ {{}}
RefitLoad(n) ==
    /\ refit[n] = NoRefit /\ Spend("refit")
    /\ \E rows \in load_hourly_all :
          refit' = [refit EXCEPT ![n] = [pc |-> "fit", series |-> rows, pos |-> 1]]
    /\ UNCHANGED <<wall, clamped, stored, flight, sim, truth, health_state, gone,
                   alerts, hourly, forecast, dropped>>

Current(n) == Buildings[refit[n].pos]
Advanced(n) == IF refit[n].pos = Len(Buildings) THEN NoRefit
               ELSE [refit[n] EXCEPT !.pc = "fit", !.pos = @ + 1]

\* No rows, or a series that is too short to fit: the building is passed over.
RefitSkip(n) ==
    /\ refit[n].pc = "fit"
    /\ \A r \in refit[n].series : r.b = Current(n) => r.ts <= PerHour
    /\ refit' = [refit EXCEPT ![n] = Advanced(n)]
    /\ UNCHANGED <<vars, alerts, hourly, forecast, dropped>>

\* _store_forecast: deleted and inserted in one transaction.
RefitForecast(n) ==
    /\ refit[n].pc = "fit"
    /\ \E r \in refit[n].series : r.b = Current(n) /\ r.ts > PerHour
    /\ forecast' = [forecast EXCEPT ![Current(n)] =
                        Max({ r.ts : r \in { s \in refit[n].series : s.b = Current(n) } })]
    /\ refit' = [refit EXCEPT ![n].pc = "delete"]
    /\ UNCHANGED <<vars, alerts, hourly, dropped>>

\* Mutant: the alerts of every building are deleted.
Replaced_mutant(b) == {}

Replaced(b) == alerts \ AlertsOf(b)

\* _store_anomalies, first transaction ...
RefitDelete(n) ==
    /\ refit[n].pc = "delete"
    /\ alerts' = Replaced(Current(n))
    /\ dropped' = dropped \cup (FaultyOf(Current(n), stored) \ refit[n].series)
    /\ refit' = [refit EXCEPT ![n].pc = "insert"]
    /\ UNCHANGED <<vars, hourly, forecast>>

\* ... and the second.  Every alert is open again.
RefitInsert(n) ==
    /\ refit[n].pc = "insert"
    /\ alerts' = insert_ignore({ Alert(r.b, hour(r.ts)) : r \in FaultyOf(Current(n), refit[n].series) })
    /\ dropped' = dropped \ FaultyOf(Current(n), refit[n].series)
    /\ refit' = [refit EXCEPT ![n] = Advanced(n)]
    /\ UNCHANGED <<vars, hourly, forecast>>

\* An exception, a job that runs into its time limit, or the end of the process.
RefitDies(n) ==
    /\ refit[n] # NoRefit /\ Spend("die")
    /\ dropped' = IF refit[n].pc = "insert" THEN dropped \cup FaultyOf(Current(n), refit[n].series)
                                            ELSE dropped
    /\ refit' = [refit EXCEPT ![n] = NoRefit]
    /\ UNCHANGED <<wall, clamped, stored, flight, sim, truth, health_state, gone,
                   alerts, hourly, forecast>>

\* A seed ends with a refresh of the view, which may fail.
refresh_hourly == {stored, {}}

AlertsInit ==
    /\ Init
    /\ hourly \in refresh_hourly
    /\ alerts = {} /\ dropped = {}
    /\ forecast = [b \in Building |-> 0]
    /\ refit = [n \in Refit |-> NoRefit]

AlertsNext ==
    \/ (SimNext \/ HealthNext \/ EndNext \/ Tick) /\ UNCHANGED alertVars
    \/ StoreReading \/ RefreshHourly
    \/ \E rows \in SUBSET alerts, value \in BOOLEAN : Acknowledge(rows, value)
    \/ \E a \in alerts : AcknowledgeOne(a)
    \/ \E n \in Refit : \/ RefitLoad(n) \/ RefitSkip(n) \/ RefitForecast(n)
                        \/ RefitDelete(n) \/ RefitInsert(n) \/ RefitDies(n)

AlertsSpec == AlertsInit /\ [][AlertsNext]_allVars

----------------------------------------------------------------------------
(* Properties *)

Alerted(r) == \E a \in AlertsOf(r.b) : a.ts \in {r.ts, hour(r.ts)}

\* A faulty reading has its alert, acknowledged or not, except while a refit that knows
\* it is between deleting and inserting, or if a refit that did not know it, having
\* loaded the data earlier or from a view that lags, deleted its alert, or one died
\* before putting it back.  The next refit that knows it and inserts repairs that.
FaultsAlerted ==
    \A r \in stored : r.faulty =>
        \/ Alerted(r)
        \/ r \in dropped
        \/ \E n \in Refit : refit[n].pc = "insert" /\ r.b = Current(n) /\ r \in refit[n].series
============================================================================

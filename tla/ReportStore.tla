---------------------------- MODULE ReportStore ----------------------------
(***************************************************************************)
(* What the database promises the sessions, with no SQL, no file lock, no  *)
(* statement buffer, no threads and no crashes: reports are only ever      *)
(* added, each one to its own device; what is acknowledged is stored by    *)
(* then; and each known device shows a report of its own, or none yet.     *)
(***************************************************************************)
CONSTANTS
  Dev, Key,
  Readings,   \* Readings[d]: the samples device d may report
  Zero,       \* what a device that has reported nothing shows
  NoRow       \* absence of a report, or of the device

VARIABLES
  reports,    \* the reports of each device, by key
  shown,      \* what each device shows, NoRow for a device that is not known
  promised    \* the (device, key) that have been acknowledged

storeVars == <<reports, shown, promised>>

Init ==
  /\ reports = [d \in Dev |-> [k \in Key |-> NoRow]]
  /\ shown = [d \in Dev |-> NoRow]
  /\ promised = {}

\* a device comes online
Register(d) ==
  /\ shown' = [shown EXCEPT ![d] = Zero]
  /\ UNCHANGED <<reports, promised>>

Store(d, k, v) ==
  /\ reports' = [reports EXCEPT ![d][k] = v]
  /\ UNCHANGED <<shown, promised>>

\* the report is shown, if the device is known, and acknowledged
Finish(d, k, v) ==
  /\ reports[d][k] # NoRow
  /\ shown' = [shown EXCEPT ![d] = IF @ = NoRow THEN NoRow ELSE v]
  /\ promised' = promised \cup {<<d, k>>}
  /\ UNCHANGED reports

\* the report is acknowledged although showing it has failed
Acknowledge(d, k) ==
  /\ reports[d][k] # NoRow
  /\ promised' = promised \cup {<<d, k>>}
  /\ UNCHANGED <<reports, shown>>

Next ==
  \E d \in Dev :
    \/ Register(d)
    \/ \E k \in Key :
         \/ Acknowledge(d, k)
         \/ \E v \in Readings[d] : Store(d, k, v) \/ Finish(d, k, v)

Spec == Init /\ [][Next]_storeVars
=============================================================================

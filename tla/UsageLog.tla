------------------------------ MODULE UsageLog ------------------------------
(***************************************************************************)
(* What the usage tables promise to whoever reads them, without the        *)
(* transactions: the requests row and the usage_records row of a request   *)
(* appear together and stay, and Record reports success only of rows that  *)
(* are there.                                                              *)
(***************************************************************************)
CONSTANTS Requests

VARIABLES
    requests,   \* the request ids with a committed row in requests
    usage,      \* the request ids with a committed row in usage_records
    report      \* report[r]: what Record returned: "none", "ok" or "failed"

logVars == <<requests, usage, report>>

LogInit == requests = {} /\ usage = {} /\ report = [r \in Requests |-> "none"]

\* Both rows become visible; the caller learns of it, or is told of a failure
\* before or although the rows land (COMMIT timed out), or never hears.
Land(r) ==
    /\ r \notin requests /\ report[r] # "ok"
    /\ requests' = requests \cup {r} /\ usage' = usage \cup {r}
    /\ \/ report[r] = "none" /\ report' = [report EXCEPT ![r] = "ok"]
       \/ UNCHANGED report

\* Record fails.
Refuse(r) ==
    /\ report[r] = "none"
    /\ report' = [report EXCEPT ![r] = "failed"]
    /\ UNCHANGED <<requests, usage>>

LogNext == \E r \in Requests : Land(r) \/ Refuse(r)

LogSpec == LogInit /\ [][LogNext]_logVars
=============================================================================

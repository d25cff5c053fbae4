------------------------------ MODULE MCStatus ------------------------------
(* The instance of StatusConditions for TLC.                               *)
EXTENDS StatusConditions

PoolReport(types, t) == [x \in PoolTypes |-> [status |-> x \in types, text |-> t]]

MCPoolReports == {PoolReport({"NodeDegraded"}, "why"), PoolReport({"RenderDegraded"}, "why"),
                  PoolReport({"NodeDegraded"}, NoText), PoolReport({}, NoText)}

Applied(s, t)  == [type |-> "Applied", status |-> s, text |-> t]
Degraded(s, t) == [type |-> "Degraded", status |-> s, text |-> t]

\* Both orders, a node that is degraded although the profile is applied, and
\* texts that are missing.
MCTunedReports ==
    {Healthy, <<Applied(FALSE, "no"), Degraded(TRUE, "error")>>,
     <<Degraded(TRUE, "error"), Applied(FALSE, "no")>>,
     <<Degraded(TRUE, "error"), Applied(FALSE, NoText)>>,
     <<Applied(TRUE, "applied"), Degraded(TRUE, "warning")>>}
=============================================================================

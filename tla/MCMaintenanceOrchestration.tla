----------------------- MODULE MCMaintenanceOrchestration -----------------------
(* Two hosts and two observations. A planner leaves room for one of them, or   *)
(* for none, and names a task about the first itself: a run may have two tasks *)
(* about one observation, with different results.                              *)
EXTENDS MaintenanceOrchestration
CONSTANTS h1, h2, none, annotate, validate, failed
TwoHosts == {h1, h2}
TwoObservations == {1, 2}
TwoPlanned == {annotate, validate}
TwoReports == {"passed", failed}
OneFailure == {failed}
Annotate == [id |-> annotate, after |-> {}, budget |-> 1, about |-> none]
Validate == [id |-> validate, after |-> {annotate}, budget |-> 0, about |-> 1]
Recheck == [id |-> validate, after |-> {}, budget |-> 0, about |-> 1]
FewPlans == {<<Recheck>>, <<Annotate, Validate>>}
=================================================================================

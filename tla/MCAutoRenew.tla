------------------------------ MODULE MCAutoRenew ------------------------------
(* Instances of AutoRenew: each scenario gives one or two hazards their room.  *)
EXTENDS AutoRenew

ProcsMC == {"c1", "c2", "u"}
CyclesMC == {"c1", "c2"}
RequestsMC == {"u"}

Base == [crew |-> {"c1"}, requests |-> 0, toggles |-> 0, giveups |-> 0,
         faults |-> 0, crashes |-> 0, refuses |-> FALSE]
Overlapping == [Base EXCEPT !.crew = CyclesMC, !.faults = 1]
LostAnswers == [Base EXCEPT !.faults = 2]
Restart     == [Base EXCEPT !.crashes = 1, !.faults = 1]
ByHand      == [Base EXCEPT !.requests = 1]
Consent     == [Base EXCEPT !.toggles = 2, !.faults = 1]
GivenUp     == [Base EXCEPT !.giveups = 1, !.crashes = 1]
Refused     == [Base EXCEPT !.refuses = TRUE]
ScenariosMC == {Overlapping, LostAnswers, Restart, ByHand, Consent, GivenUp, Refused}
=============================================================================

---------------------------- MODULE MCProfileSync ----------------------------
(* Small instances of ProfileSync for TLC. *)
EXTENDS ProfileSync, TLC

Scenario(s, r, d, o, t, e, f, c) ==
    [start |-> s, renews |-> r, removals |-> d, disables |-> o, ends |-> t, events |-> e,
     faults |-> f, deaths |-> c]

\* A renewal and a deletion while the profile is being created.
Provisioning == Scenario("new", 2, 1, 0, FALSE, 0, 0, 0)

\* The process dies while it is created and deleted.
Restart == Scenario("new", 0, 1, 0, FALSE, 0, 0, 1)

\* The panel fails, answers late or not at all; the queue too.
Outage == Scenario("new", 1, 0, 0, FALSE, 0, 2, 0)

\* The subscription ends before its profile is there.
TooLate == Scenario("new", 1, 0, 0, TRUE, 0, 0, 0)

\* The panel lost the profile; the subscription is renewed, or deleted.
LostProfile == Scenario("lost", 1, 1, 0, FALSE, 0, 0, 0)

\* A renewal, old news from the panel, the end of the term.
OldNews == Scenario("linked", 1, 0, 0, TRUE, 1, 0, 0)

\* Switched off and renewed, with a deletion and a failure.
SwitchedOff == Scenario("linked", 1, 1, 1, FALSE, 0, 0, 0)

\* A deletion that fails.
Removal == Scenario("linked", 0, 1, 0, FALSE, 0, 2, 1)

SyncScenarios ==
    {Provisioning, Restart, Outage, TooLate, LostProfile, OldNews, SwitchedOff, Removal}
=============================================================================

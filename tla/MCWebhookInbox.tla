------------------------------ MODULE MCWebhookInbox ------------------------------
(* Small instances of WebhookInbox for TLC. *)
EXTENDS WebhookInbox, TLC

Scenario(r, o, d, f, a, q, w, y) ==
    [reordered |-> r, alone |-> o,
     bound |-> ("deliveries" :> d) @@ ("failedRuns" :> f) @@ ("badAdds" :> a)
                 @@ ("lostRequests" :> q) @@ ("lostWorkers" :> w) @@ ("replays" :> y)]

\* Statuses in order, repeated; two runs that fail and a worker that dies.
InOrderDeliveries == Scenario(FALSE, TRUE, 4, 2, 0, 0, 1, 0)

\* The same with jobs that run side by side, when none fails.
Parallel == Scenario(FALSE, FALSE, 4, 0, 0, 0, 1, 0)

\* Any order: requests and workers that die, a queue that fails, replays.
Crashes == Scenario(TRUE, TRUE, 2, 3, 0, 1, 1, 0)
Replays == Scenario(TRUE, TRUE, 2, 3, 1, 0, 0, 1)

InboxScenarios == {InOrderDeliveries, Parallel, Crashes, Replays}
=============================================================================

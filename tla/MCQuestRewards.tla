---------------------------- MODULE MCQuestRewards ----------------------------
(* Small instances of QuestRewards for TLC. *)
EXTENDS QuestRewards, TLC

CONSTANTS u1, u2, c1, c2

Blank == [c \in Codes |-> NoCode]

Scenario(t, r, f, b, h, s, x, c) ==
    [type |-> t, reward |-> r, fallback |-> f, budget |-> b, hopeless |-> h, codes |-> Blank,
     starts |-> s, faults |-> x, crashes |-> c]

\* Membership lapses and is checked again while the reward, a code, is claimed.
Channel == Scenario("CHANNEL", "PROMOCODE", "MINT_PROMOCODE", 1, {}, 3, 0, 0)

\* Two users and one reward, claimed twice, with a crash.
LastReward == Scenario("INVITE", "POINTS", "MINT_PROMOCODE", 1, {}, 6, 0, 1)

\* A trial in a transaction of its own, which fails, answers late or dies.
TrialReward == Scenario("PARTNER", "DAYS", "GRANT_TRIAL", 2, {}, 4, 1, 1)

\* One user can never be paid; the other's request died.
Hopeless == Scenario("LINK", "DAYS", "GRANT_TRIAL", 2, {u1}, 5, 0, 1)

\* No quest, but the operator's codes: one of one use, one without a limit.
OperatorCodes ==
    [Scenario("LINK", "POINTS", "MINT_PROMOCODE", 0, {}, 0, 0, 0)
        EXCEPT !.codes = [c \in Codes |-> NewCode(IF c = c1 THEN 1 ELSE Unlimited, FALSE)]]

QuestScenarios == {Channel, LastReward, TrialReward, Hopeless, OperatorCodes}
=============================================================================

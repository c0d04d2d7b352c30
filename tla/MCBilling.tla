------------------------------ MODULE MCBilling ------------------------------
(* Billing on small instances: one user, two calls in flight.  A scenario   *)
(* is drawn at the start; the .cfg of each run picks the set of scenarios.  *)
EXTENDS Billing, TLC

Symmetry == Permutations(Handlers) \cup Permutations(Tariffs)

Scenario(profile, endpoints, requests, faults, periods) ==
    [profile |-> profile, endpoints |-> endpoints, requests |-> requests,
     faults |-> faults, periods |-> periods]

Paying == Scenario("trial", {"validate", "secret"}, 2, 1, 0)

SigningUp ==
    {Scenario("trial", {"validate", "subscribe", "setTrial", "initialize"}, 2, 1, 0),
     Scenario("new", {"validate", "subscribe", "setTrial", "initialize"}, 2, 0, 0),
     Scenario("new", {"validate", "initialize"}, 2, 1, 0)}

Changes == {"subscribe", "cancelNext", "unsubscribe", "renovate", "setTrial"}

Subscribing ==
    {Scenario("trial", Changes \cup {"switch"}, 2, 1, 0),
     Scenario("active", Changes \cup {"switch"}, 2, 1, 0),
     Scenario("lapsed", Changes \cup {"switch"}, 2, 0, 0),
     Scenario("lapsed", Changes, 2, 1, 0)}

RequestScenarios == {Paying} \cup SigningUp \cup Subscribing

RepairScenarios == {Scenario("active", {"switch", "cron"}, 1, 2, 1),
                    Scenario("trial", {"secret", "cron"}, 1, 1, 0),
                    Scenario("trial", {"validate"}, 2, 1, 0)}

SettlementScenarios == {Scenario("active", {"subscribe", "renovate"}, 2, 1, 1)}

NoCardScenarios == {Scenario("trial", {"subscribe"}, 1, 0, 0)}

UnsubscribedScenarios == {Scenario("active", {"unsubscribe", "subscribe"}, 2, 0, 0)}

SwitchScenarios == {Scenario("active", {"switch"}, 1, 0, 0)}
=============================================================================

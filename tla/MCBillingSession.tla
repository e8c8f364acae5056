--------------------------- MODULE MCBillingSession ---------------------------
(***************************************************************************)
(* Instances of BillingSession for TLC.                                    *)
(***************************************************************************)
EXTENDS BillingSession, TLC

CONSTANTS r1, r2

P(kind, pref, quota, playground, unlimited) ==
    [kind |-> kind, pref |-> pref, quota |-> quota,
     playground |-> playground, unlimited |-> unlimited]

PairProfiles ==
    {P("sync", "wallet_first", 2, FALSE, FALSE),
     P("task", "subscription_first", 1, FALSE, TRUE)}

AllProfiles ==
    [kind : Kind, pref : Preference, quota : {0, 2},
     playground : BOOLEAN, unlimited : BOOLEAN]

TrustProfiles == {P("sync", "wallet_only", 2, FALSE, TRUE)}

SubscriptionProfiles == {P("sync", "subscription_only", 1, FALSE, FALSE)}

RequestSymmetry == Permutations(Requests)
===============================================================================

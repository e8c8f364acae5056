--------------------------- MODULE BillingContract ----------------------------
(***************************************************************************)
(* What relay/common/billing.go (BillingSettler) promises of a billing     *)
(* session, seen from the payer: quota is held for an open request; the    *)
(* session gets one verdict; a settled request keeps its charge, a         *)
(* refunded one only gives back, and nothing but a fee is added later.     *)
(***************************************************************************)
EXTENDS Integers

CONSTANT Requests

VARIABLES
    verdict,   \* the verdict on the request's session
    held       \* what the payer is out of pocket for the request

ContractInit ==
    /\ verdict = [r \in Requests |-> "open"]
    /\ held = [r \in Requests |-> 0]

\* Only what is held for r changes, to a natural number.
HeldChanges(r) == held'[r] \in Nat /\ held' = [held EXCEPT ![r] = held'[r]]

\* Pre-consumption, its roll-back, and Reserve, while the session is open
Hold(r) ==
    /\ verdict[r] = "open"
    /\ HeldChanges(r)
    /\ UNCHANGED verdict

\* Settle replaces what is held by the actual cost
Charge(r) ==
    /\ verdict[r] = "open"
    /\ verdict' = [verdict EXCEPT ![r] = "settled"]
    /\ HeldChanges(r)

\* Refund decides; the quota comes back later
Abandon(r) ==
    /\ verdict[r] = "open"
    /\ verdict' = [verdict EXCEPT ![r] = "refunded"]
    /\ UNCHANGED held

GiveBack(r) ==
    /\ verdict[r] = "refunded"
    /\ HeldChanges(r) /\ held'[r] < held[r]
    /\ UNCHANGED verdict

AddFee(r) ==
    /\ HeldChanges(r) /\ held'[r] > held[r]
    /\ UNCHANGED verdict

ContractNext ==
    \E r \in Requests :
        Hold(r) \/ Charge(r) \/ Abandon(r) \/ GiveBack(r) \/ AddFee(r)

ContractSpec == ContractInit /\ [][ContractNext]_<<verdict, held>>
===============================================================================

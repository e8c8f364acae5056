---------------------------- MODULE BillingSession ----------------------------
(***************************************************************************)
(* The life of one user's requests in the billing core of the gateway:     *)
(* NewBillingSession (choice of payer, trust bypass, token and funding     *)
(* pre-debit, roll-back and fall-back), Reserve, Settle, the asynchronous  *)
(* Refund, the settlement of billable errors and the violation fee.        *)
(* Sources: service/billing_session.go,                                    *)
(* service/funding_source.go, service/billing.go, service/quota.go,        *)
(* service/relay_error_billing.go, service/violation_fee.go and the two    *)
(* callers in controller/relay.go, of which RelayTask may start over with  *)
(* NewBillingSession after a rejection.  Realtime connections, which also  *)
(* charge while they last, are left out.                                   *)
(*                                                                         *)
(* Every call into the database is one step, so the steps of concurrent    *)
(* requests, of a request and of its own refund goroutine interleave       *)
(* between any two calls.  A transaction on the row of a subscription is   *)
(* one step only where the database serialises it (RowLocks): it reads the *)
(* row, computes, and saves it, and gorm 1.25 ignores the query option by  *)
(* which the code asks for a lock.                                         *)
(***************************************************************************)
EXTENDS Integers, FiniteSets

CONSTANTS
    Requests,       \* the requests of the user
    Profiles,       \* what a request may look like, see Profile
    WalletStart,    \* users.quota before the first request
    TokenStart,     \* tokens.remain_quota before the first request
    SubTotal,       \* user_subscriptions.amount_total (amount_used starts at 0)
    TrustQuota,     \* common.GetTrustQuota(), 0 switches the bypass off
    Actuals,        \* what a request may turn out to cost
    ReserveTargets, \* targets Reserve may be called with
    Fees,           \* violation fees; 0 is an error that is no violation
    Outcomes,       \* how a database write may end, see Outcome
    RetryTimes,     \* how often RelayTask may try again (common.RetryTimes)
    RowLocks,       \* the database serialises the transactions on a row
    Limited,        \* the plan has rolling limits or a list of models
    MaxCrashes      \* how often the process may die (0 or 1)

(***************************************************************************)
(* A write is applied and acknowledged ("ok"), not applied ("fail"), or    *)
(* applied although the caller sees an error, as when the connection       *)
(* breaks after the commit ("lost").                                       *)
(***************************************************************************)
Outcome == {"ok", "fail", "lost"}

Preference == {"subscription_only", "wallet_only", "wallet_first",
               "subscription_first"}

\* "sync" requests go through controller.Relay, "task" through RelayTask
Kind == {"sync", "task"}

Profile ==
    [kind: Kind, pref: Preference, quota: Nat,
     playground: BOOLEAN, unlimited: BOOLEAN]

ASSUME ConstantsAssumption ==
    /\ Profiles \subseteq Profile
    /\ WalletStart \in Nat /\ TokenStart \in Nat /\ SubTotal \in Nat \ {0}
    /\ TrustQuota \in Nat
    /\ Actuals \subseteq Nat /\ ReserveTargets \subseteq Nat
    /\ Fees \subseteq Nat /\ 0 \in Fees
    /\ Outcomes \subseteq Outcome /\ "ok" \in Outcomes
    /\ MaxCrashes \in Nat /\ RetryTimes \in Nat
    /\ RowLocks \in BOOLEAN /\ Limited \in BOOLEAN

VARIABLES
    pc,        \* where the goroutine that serves the request stands
    rpc,       \* where the request's refund goroutine stands
    req,       \* the profile of the request
    seen,      \* token quota read at authentication ("token_quota")
    retry,     \* how often RelayTask has started over
    sess,      \* the BillingSession of the request
    mark,      \* ContextKeyBillableRelayErrorMode; "none" is also audio without usage
    actual,    \* the quota the request is settled for
    fee,       \* the violation fee of the request
    record,    \* its row of subscription_pre_consume_records
    attempt,   \* tries of refundWithRetry made
    balance,   \* users.quota, tokens.remain_quota, amount_total - amount_used
    active,    \* the subscription is active
    crashes,   \* how often the process has died
    rowRead,   \* what an open transaction has read of the subscription's row
    taken,     \* history: what each account lost to the request
    trouble    \* history: a write of the request did not end "ok"

request   == <<req, seen, retry>>
refunding == <<rpc, attempt>>
verdict   == <<mark, actual, fee>>
rows      == <<balance, taken, trouble>>
env       == <<active, crashes>>
world     == <<active, crashes, rowRead>>

vars == <<pc, rpc, req, seen, retry, sess, mark, actual, fee, record, attempt,
          balance, active, crashes, rowRead, taken, trouble>>

Account == {"wallet", "token", "sub"}

PreConsumeStep == {"hasSub", "wallet", "tokenCheck", "tokenDebit",
                   "fundingDebit", "tokenRollback"}
ReserveStep    == {"reserveFunding", "reserveCheck", "reserveDebit",
                   "reserveRollback"}
FinalStep      == {"settle", "settleToken", "fail", "fee", "feeToken"}
Location       == {"idle", "relay", "end", "rejected", "crashed"}
                    \cup PreConsumeStep \cup ReserveStep \cup FinalStep
RefundLocation == {"none", "funding", "extra", "token", "done", "crashed"}

\* The goroutines of a request: the one that serves it and that of Refund
Goroutine == {"serve", "refund"}

\* No transaction of the goroutine is open.
NoRow == - 1

(***************************************************************************)
(* The fields of BillingSession and, as consumed, WalletFunding.consumed   *)
(* or SubscriptionFunding.preConsumed.  delta is the local variable of     *)
(* Reserve; insufficient is the error code preConsume is about to return.  *)
(***************************************************************************)
Session ==
    [source: {"none", "wallet", "sub"}, preConsumedQuota: Nat,
     tokenConsumed: Nat, consumed: Nat, extraReserved: Nat, delta: Nat,
     trusted: BOOLEAN, fundingSettled: BOOLEAN, settled: BOOLEAN,
     refunded: BOOLEAN, insufficient: BOOLEAN]

NewSession(source) ==
    [source |-> source, preConsumedQuota |-> 0, tokenConsumed |-> 0,
     consumed |-> 0, extraReserved |-> 0, delta |-> 0, trusted |-> FALSE,
     fundingSettled |-> FALSE, settled |-> FALSE, refunded |-> FALSE,
     insufficient |-> FALSE]

NoSession == NewSession("none")

TrustedSession == [NewSession("wallet") EXCEPT !.trusted = TRUE]

NoProfile == [kind |-> "sync", pref |-> "wallet_only", quota |-> 0,
              playground |-> FALSE, unlimited |-> FALSE]

-------------------------------------------------------------------------------
(***************************************************************************)
(* Database writes.                                                        *)
(***************************************************************************)

\* What goroutine g of r finds in account a: users and tokens are updated by one
\* statement, a subscription is saved as its transaction has read it.
Found(r, g, a) ==
    IF a = "sub" /\ rowRead[r][g] # NoRow THEN rowRead[r][g] ELSE balance[a]

\* What an account holds after n is debited.  amount_used never drops below 0.
Debited(r, g, a, n) ==
    IF a = "sub" /\ Found(r, g, a) - n > SubTotal THEN SubTotal
                                                  ELSE Found(r, g, a) - n

\* IncreaseUserQuota, DecreaseTokenQuota, PostConsumeUserSubscriptionDelta... on
\* account a by goroutine g of request r, ending with outcome o; n < 0 is a credit.
Apply(r, g, a, n, o) ==
    /\ balance' = IF o = "fail" THEN balance
                                ELSE [balance EXCEPT ![a] = Debited(r, g, a, n)]
    /\ taken' = IF o = "fail" THEN taken
                              ELSE [taken EXCEPT ![r][a] = @ + n]

Report(r, o) ==
    trouble' = IF o = "ok" THEN trouble ELSE [trouble EXCEPT ![r] = TRUE]

Post(r, g, a, n, o) == Apply(r, g, a, n, o) /\ Report(r, o)

NoPost == UNCHANGED rows

\* The transaction of g ends, whatever came of it.
EndRow(r, g) == rowRead' = [rowRead EXCEPT ![r][g] = NoRow]

\* Mutant: the limit is checked one too late.
RefusesLate(r, a, n) == a = "sub" /\ n > 0 /\ Found(r, "serve", a) + 1 < n

\* The subscription refuses to go over its total; the wallet has no floor.
Refuses(r, a, n) == a = "sub" /\ n > 0 /\ Found(r, "serve", a) < n

\* It may also refuse because of its rolling limits.
MayRefuse(r, a, n) == Refuses(r, a, n) \/ (Limited /\ a = "sub" /\ n > 0)

Goto(r, l) == pc' = [pc EXCEPT ![r] = l]

-------------------------------------------------------------------------------
(***************************************************************************)
(* NewBillingSession and preConsume.                                       *)
(***************************************************************************)
Init ==
    /\ pc = [r \in Requests |-> "idle"]
    /\ rpc = [r \in Requests |-> "none"]
    /\ req = [r \in Requests |-> NoProfile]
    /\ seen = [r \in Requests |-> 0]
    /\ sess = [r \in Requests |-> NoSession]
    /\ mark = [r \in Requests |-> "none"]
    /\ actual = [r \in Requests |-> 0]
    /\ fee = [r \in Requests |-> 0]
    /\ record = [r \in Requests |-> "none"]
    /\ attempt = [r \in Requests |-> 0]
    /\ balance = [a \in Account |-> CASE a = "wallet" -> WalletStart
                                      [] a = "token"  -> TokenStart
                                      [] a = "sub"    -> SubTotal]
    /\ active \in BOOLEAN
    /\ crashes = 0
    /\ retry = [r \in Requests |-> 0]
    /\ rowRead = [r \in Requests |-> [g \in Goroutine |-> NoRow]]
    /\ taken = [r \in Requests |-> [a \in Account |-> 0]]
    /\ trouble = [r \in Requests |-> FALSE]

\* What the funding source pre-consumes: SubscriptionFunding.amount is at least
\* 1, WalletFunding takes the estimate.
Amount(r) ==
    IF sess[r].source = "sub" /\ req[r].quota = 0 THEN 1 ELSE req[r].quota

\* The argument of preConsume, charged to the token and kept as
\* preConsumedQuota: subConsume for a subscription, so the two agree.
Effective(r) == Amount(r)

\* shouldTrust, for userQuota q in the wallet; a subscription is never trusted.
ShouldTrust(r, q) ==
    /\ req[r].kind # "task"
    /\ TrustQuota > 0
    /\ req[r].unlimited \/ seen[r] > TrustQuota
    /\ q > TrustQuota

TrySubscription(r) ==
    /\ sess' = [sess EXCEPT ![r] = NewSession("sub")]
    /\ Goto(r, "tokenCheck")

Reject(r) ==
    /\ sess' = [sess EXCEPT ![r] = NoSession]
    /\ Goto(r, "rejected")

\* NewBillingSession by the user's preference
NewBillingSession(r, pref) ==
    CASE pref = "subscription_only"  -> TrySubscription(r)
      [] pref = "subscription_first" -> Goto(r, "hasSub") /\ UNCHANGED sess
      [] OTHER                       -> Goto(r, "wallet") /\ UNCHANGED sess

Begin(r, p) ==
    /\ pc[r] = "idle"
    /\ p.unlimited \/ p.playground \/ balance["token"] > 0
    /\ req' = [req EXCEPT ![r] = p]
    /\ seen' = [seen EXCEPT ![r] = balance["token"]]
    /\ NewBillingSession(r, p.pref)
    /\ UNCHANGED <<refunding, retry, verdict, record, rows, world>>

\* The loop of RelayTask is not at its end.
MayRetry(r) == req[r].kind = "task" /\ retry[r] < RetryTimes

\* RelayTask tries the next channel after PreConsumeBilling returned an error:
\* TaskErrorFromAPIError drops "skip retry", shouldRetryTaskRelay lets 403 and 500
\* pass, and RelayTaskSubmit pre-consumes again as long as info.Billing is nil.
RetryTask(r) ==
    /\ pc[r] = "rejected"
    /\ MayRetry(r)
    /\ retry' = [retry EXCEPT ![r] = @ + 1]
    /\ NewBillingSession(r, req[r].pref)
    /\ UNCHANGED <<refunding, req, seen, verdict, record, rows, world>>

\* HasActiveUserSubscription
HasSubscription(r) ==
    /\ pc[r] = "hasSub"
    /\ IF active THEN TrySubscription(r)
                 ELSE Goto(r, "wallet") /\ UNCHANGED sess
    /\ UNCHANGED <<refunding, request, verdict, record, rows, world>>

TryWallet(r) ==
    /\ pc[r] = "wallet"
    /\ LET q == balance["wallet"]
           trust == ShouldTrust(r, q)
       IN  IF q <= 0 \/ q < req[r].quota
           THEN IF req[r].pref = "wallet_first" THEN TrySubscription(r)
                                                ELSE Reject(r)
           ELSE /\ sess' = [sess EXCEPT ![r] =
                              IF trust THEN TrustedSession ELSE NewSession("wallet")]
                /\ Goto(r, IF trust \/ req[r].quota = 0 THEN "relay"
                                                        ELSE "tokenCheck")
    /\ UNCHANGED <<refunding, request, verdict, record, rows, world>>

\* A failed read ends the request before anything was written for it, or
\* (reading the token) after nothing but an earlier roll-back.
QueryFails(r) ==
    /\ pc[r] \in {"hasSub", "wallet", "tokenCheck"}
    /\ ~ (pc[r] = "tokenCheck" /\ req[r].playground)
    /\ "fail" \in Outcomes
    /\ Reject(r)
    /\ UNCHANGED <<refunding, request, verdict, record, rows, world>>

\* PreConsumeTokenQuota up to its read of the token
TokenCheck(r) ==
    /\ pc[r] = "tokenCheck"
    /\ \/ /\ req[r].playground
          /\ sess' = [sess EXCEPT ![r].tokenConsumed = Effective(r)]
          /\ Goto(r, "fundingDebit")
       \/ /\ ~ req[r].playground
          /\ IF req[r].unlimited \/ balance["token"] >= Effective(r)
             THEN Goto(r, "tokenDebit") /\ UNCHANGED sess
             ELSE Reject(r)
    /\ UNCHANGED <<refunding, request, verdict, record, rows, world>>

TokenDebit(r) ==
    /\ pc[r] = "tokenDebit"
    /\ \E o \in Outcomes :
          /\ Post(r, "serve", "token", Effective(r), o)
          /\ IF o = "ok"
             THEN /\ sess' = [sess EXCEPT ![r].tokenConsumed = Effective(r)]
                  /\ Goto(r, "fundingDebit")
             ELSE Reject(r)
    /\ UNCHANGED <<refunding, request, verdict, record, world>>

\* PreConsumeUserSubscription finds no active subscription with enough left (one
\* it has read as active counts); a plan may exclude the model or limit its use,
\* and a failed read of the candidates is reported as "no active subscription" too.
SubscriptionRefuses(r) ==
    \/ ~ active /\ rowRead[r]["serve"] = NoRow
    \/ Refuses(r, "sub", Amount(r))

\* The pre-debit of the payer is acknowledged.
PreConsumed(r) ==
    /\ sess' = [sess EXCEPT ![r].consumed = Amount(r),
                            ![r].preConsumedQuota = Effective(r)]
    /\ Goto(r, "relay")

\* funding.PreConsume
FundingDebit(r) ==
    /\ pc[r] = "fundingDebit"
    /\ record[r] # "consumed" \/ sess[r].source = "wallet"
    /\ \/ /\ sess[r].source = "sub"
          /\ SubscriptionRefuses(r) \/ Limited \/ "fail" \in Outcomes
          /\ sess' = [sess EXCEPT ![r].insufficient = TRUE]
          /\ Goto(r, "tokenRollback")
          /\ UNCHANGED record
          /\ NoPost
       \/ /\ sess[r].source = "sub" => ~ SubscriptionRefuses(r)
          /\ \E o \in Outcomes :
                /\ Post(r, "serve", sess[r].source, Amount(r), o)
                /\ record' = IF sess[r].source = "sub" /\ o # "fail"
                             THEN [record EXCEPT ![r] = "consumed"] ELSE record
                /\ IF o = "ok" THEN PreConsumed(r)
                               ELSE Goto(r, "tokenRollback") /\ UNCHANGED sess
    /\ EndRow(r, "serve")
    /\ UNCHANGED <<refunding, request, verdict, env>>

\* PreConsumeUserSubscription finds the record of an earlier try of the request,
\* whose acknowledgement was lost, and takes it for its own.
FoundRecord(r) ==
    /\ pc[r] = "fundingDebit"
    /\ record[r] = "consumed" /\ sess[r].source = "sub"
    /\ \/ PreConsumed(r)
       \/ /\ "fail" \in Outcomes
          /\ Goto(r, "tokenRollback")
          /\ UNCHANGED sess
    /\ UNCHANGED <<refunding, request, verdict, record, rows, world>>

\* Mutant: the fall-back starts over instead of turning to the wallet.
AfterRollbackRetries(r) ==
    IF sess[r].insufficient /\ req[r].pref = "subscription_first"
    THEN "hasSub" ELSE "rejected"

\* NewBillingSession falls back on the wallet only for "insufficient" errors.
AfterRollback(r) ==
    IF sess[r].insufficient /\ req[r].pref = "subscription_first"
    THEN "wallet" ELSE "rejected"

\* The roll-back of the token in preConsume
TokenRollback(r) ==
    /\ pc[r] = "tokenRollback"
    /\ \/ /\ req[r].playground
          /\ NoPost
       \/ /\ ~ req[r].playground
          /\ \E o \in Outcomes : Post(r, "serve", "token", - sess[r].tokenConsumed, o)
    /\ sess' = [sess EXCEPT ![r] = NoSession]
    /\ Goto(r, AfterRollback(r))
    /\ UNCHANGED <<refunding, request, verdict, record, world>>

-------------------------------------------------------------------------------
(***************************************************************************)
(* The relay loop, Reserve and Settle.                                     *)
(***************************************************************************)

\* An attempt is answered; PostTextConsumeQuota or RelayTask settles for q.
AttemptSucceeds(r, q) ==
    /\ pc[r] = "relay"
    /\ actual' = [actual EXCEPT ![r] = q]
    /\ Goto(r, "settle")
    /\ UNCHANGED <<refunding, request, sess, mark, fee, record, rows, world>>

\* An attempt fails and is retried, or was the last one.  MarkRelayErrorBillable
\* may have been called, and a later call with the audio mode may take back what an
\* earlier one marked; the violation fee f is that of the last error.
AttemptFails(r, m, last, f) ==
    /\ pc[r] = "relay"
    /\ req[r].kind = "task" => m = "none" /\ f = 0
    /\ ~ last => f = 0
    /\ mark' = [mark EXCEPT ![r] = m]
    /\ fee' = [fee EXCEPT ![r] = f]
    /\ Goto(r, IF last THEN "fail" ELSE "relay")
    /\ UNCHANGED <<refunding, request, sess, actual, record, rows, world>>

\* Bound: a session gets to the database in Reserve at most once (delta is 0
\* until then); no caller in the repository calls it more often.
Reserve(r, target) ==
    /\ pc[r] = "relay"
    /\ sess[r].delta = 0
    /\ ~ sess[r].settled /\ ~ sess[r].refunded /\ ~ sess[r].trusted
    /\ target > sess[r].preConsumedQuota
    /\ sess' = [sess EXCEPT ![r].delta = target - sess[r].preConsumedQuota]
    /\ Goto(r, "reserveFunding")
    /\ UNCHANGED <<refunding, request, verdict, record, rows, world>>

\* The session after the reservation of delta from funding and token
Reserved(s) ==
    [s EXCEPT !.preConsumedQuota = @ + s.delta, !.tokenConsumed = @ + s.delta,
              !.extraReserved = @ + s.delta]

FundingMovedTwice(s, n) ==
    IF s.source = "wallet"
    THEN [s EXCEPT !.consumed = @ + (IF n < 0 THEN 2 * n ELSE n)] ELSE s

\* WalletFunding.consumed follows the reservation, SubscriptionFunding keeps
\* what PreConsume took (extraReserved is refunded on its own).
FundingMoved(s, n) ==
    IF s.source = "wallet" THEN [s EXCEPT !.consumed = @ + n] ELSE s

ReserveFunding(r) ==
    /\ pc[r] = "reserveFunding"
    /\ \/ /\ MayRefuse(r, sess[r].source, sess[r].delta)
          /\ Goto(r, "relay")
          /\ UNCHANGED sess
          /\ NoPost
       \/ /\ ~ Refuses(r, sess[r].source, sess[r].delta)
          /\ \E o \in Outcomes :
                /\ Post(r, "serve", sess[r].source, sess[r].delta, o)
                /\ LET moved == FundingMoved(sess[r], sess[r].delta)
                   IN  IF o = "ok"
                       THEN IF req[r].playground
                            THEN /\ sess' = [sess EXCEPT ![r] = Reserved(moved)]
                                 /\ Goto(r, "relay")
                            ELSE /\ sess' = [sess EXCEPT ![r] = moved]
                                 /\ Goto(r, "reserveCheck")
                       ELSE Goto(r, "relay") /\ UNCHANGED sess
    /\ EndRow(r, "serve")
    /\ UNCHANGED <<refunding, request, verdict, record, env>>

ReserveCheck(r) ==
    /\ pc[r] = "reserveCheck"
    /\ \/ /\ req[r].unlimited \/ balance["token"] >= sess[r].delta
          /\ Goto(r, "reserveDebit")
       \/ /\ \/ ~ req[r].unlimited /\ balance["token"] < sess[r].delta
             \/ "fail" \in Outcomes
          /\ Goto(r, "reserveRollback")
    /\ UNCHANGED <<refunding, request, sess, verdict, record, rows, world>>

ReserveDebit(r) ==
    /\ pc[r] = "reserveDebit"
    /\ \E o \in Outcomes :
          /\ Post(r, "serve", "token", sess[r].delta, o)
          /\ IF o = "ok"
             THEN /\ sess' = [sess EXCEPT ![r] = Reserved(@)]
                  /\ Goto(r, "relay")
             ELSE Goto(r, "reserveRollback") /\ UNCHANGED sess
    /\ UNCHANGED <<refunding, request, verdict, record, world>>

\* rollbackFundingReserve
ReserveRollback(r) ==
    /\ pc[r] = "reserveRollback"
    /\ \E o \in Outcomes :
          /\ Post(r, "serve", sess[r].source, - sess[r].delta, o)
          /\ sess' = [sess EXCEPT ![r] =
                        IF o = "ok" THEN FundingMoved(@, - sess[r].delta) ELSE @]
    /\ Goto(r, "relay")
    /\ EndRow(r, "serve")
    /\ UNCHANGED <<refunding, request, verdict, record, env>>

\* Mutant: what was pre-consumed is not taken off.
SettleDeltaInFull(r) == actual[r]

SettleDelta(r) == actual[r] - sess[r].preConsumedQuota

\* A request that ends in an error still goes through the violation fee.
Leave(r) == Goto(r, IF fee[r] > 0 THEN "fee" ELSE "end")

\* Settle up to its call of funding.Settle.  A session whose funding could not
\* be adjusted stays open; the callers only log the error.
SettleFunding(r) ==
    /\ pc[r] = "settle"
    /\ LET d == SettleDelta(r) IN
       \/ /\ d = 0 \/ sess[r].settled
          /\ sess' = [sess EXCEPT ![r].settled = TRUE]
          /\ Leave(r)
          /\ NoPost
       \/ /\ d # 0 /\ ~ sess[r].settled
          /\ MayRefuse(r, sess[r].source, d)
          /\ Leave(r)
          /\ UNCHANGED sess
          /\ NoPost
       \/ /\ d # 0 /\ ~ sess[r].settled
          /\ ~ Refuses(r, sess[r].source, d)
          /\ \E o \in Outcomes :
                /\ Post(r, "serve", sess[r].source, d, o)
                /\ IF o = "ok"
                   THEN IF req[r].playground
                        THEN /\ sess' = [sess EXCEPT ![r].fundingSettled = TRUE,
                                                     ![r].settled = TRUE]
                             /\ Leave(r)
                        ELSE /\ sess' = [sess EXCEPT ![r].fundingSettled = TRUE]
                             /\ Goto(r, "settleToken")
                   ELSE Leave(r) /\ UNCHANGED sess
    /\ EndRow(r, "serve")
    /\ UNCHANGED <<refunding, request, verdict, record, env>>

\* Mutant: the token pays the full cost on top of what it pre-paid.
SettleTokenInFull(r) ==
    /\ pc[r] = "settleToken"
    /\ \E o \in Outcomes : Post(r, "serve", "token", actual[r], o)
    /\ sess' = [sess EXCEPT ![r].settled = TRUE]
    /\ Leave(r)
    /\ UNCHANGED <<refunding, request, verdict, record, world>>

SettleToken(r) ==
    /\ pc[r] = "settleToken"
    /\ \E o \in Outcomes : Post(r, "serve", "token", SettleDelta(r), o)
    /\ sess' = [sess EXCEPT ![r].settled = TRUE]
    /\ Leave(r)
    /\ UNCHANGED <<refunding, request, verdict, record, world>>

-------------------------------------------------------------------------------
(***************************************************************************)
(* The error path: TrySettleRelayErrorBilling, Refund, the violation fee.  *)
(***************************************************************************)

NeedsRefund(s) ==
    /\ ~ s.settled /\ ~ s.refunded /\ ~ s.fundingSettled
    /\ s.tokenConsumed > 0 \/ (s.source = "sub" /\ s.consumed > 0)

\* Mutant: the refund of a subscription forgets what Reserve added.
AfterFundingToken(r) == "token"

\* Where the refund goroutine goes when its funding leg is done
AfterFunding(r) ==
    IF sess[r].source = "sub" /\ sess[r].extraReserved > 0 THEN "extra"
                                                            ELSE "token"

TrySettles(r) ==
    req[r].kind = "sync" /\ NeedsRefund(sess[r]) /\ mark[r] = "billable"

\* Mutant: the deferred function refunds before it tries to settle.
SettleErrorAfterRefund(r, q) ==
    /\ pc[r] = "fail"
    /\ TrySettles(r)
    /\ actual' = [actual EXCEPT ![r] = q]
    /\ sess' = [sess EXCEPT ![r].refunded = TRUE]
    /\ rpc' = [rpc EXCEPT ![r] = "funding"]
    /\ Goto(r, "settle")
    /\ UNCHANGED <<attempt, request, mark, fee, record, rows, world>>

\* The deferred function of Relay and of RelayTask
SettleError(r, q) ==
    /\ pc[r] = "fail"
    /\ TrySettles(r)
    /\ actual' = [actual EXCEPT ![r] = q]
    /\ Goto(r, "settle")
    /\ UNCHANGED <<refunding, request, sess, mark, fee, record, rows, world>>

Refund(r) ==
    /\ pc[r] = "fail"
    /\ ~ TrySettles(r)
    /\ IF NeedsRefund(sess[r])
       THEN /\ sess' = [sess EXCEPT ![r].refunded = TRUE]
            /\ rpc' = [rpc EXCEPT ![r] = "funding"]
       ELSE UNCHANGED <<sess, rpc>>
    /\ Leave(r)
    /\ UNCHANGED <<request, verdict, record, attempt, rows, world>>

\* Mutant: the fee is always taken from the wallet.
BillingSourceWallet(r) == "wallet"

\* RelayInfo.BillingSource, set by syncRelayInfo
BillingSource(r) == sess[r].source

\* ChargeViolationFeeIfNeeded: PostConsumeQuota on the funding, then the token
FeeFunding(r) ==
    /\ pc[r] = "fee"
    /\ \/ /\ MayRefuse(r, BillingSource(r), fee[r])
          /\ fee' = [fee EXCEPT ![r] = 0]
          /\ Goto(r, "end")
          /\ NoPost
       \/ /\ ~ Refuses(r, BillingSource(r), fee[r])
          /\ \E o \in Outcomes :
                /\ Post(r, "serve", BillingSource(r), fee[r], o)
                /\ Goto(r, IF o = "ok" /\ ~ req[r].playground THEN "feeToken"
                                                              ELSE "end")
          /\ UNCHANGED fee
    /\ EndRow(r, "serve")
    /\ UNCHANGED <<refunding, request, sess, mark, actual, record, env>>

FeeToken(r) ==
    /\ pc[r] = "feeToken"
    /\ \E o \in Outcomes : Post(r, "serve", "token", fee[r], o)
    /\ Goto(r, "end")
    /\ UNCHANGED <<refunding, request, sess, verdict, record, world>>

\* WalletFunding.Refund: never retried
RefundWallet(r) ==
    /\ rpc[r] = "funding"
    /\ sess[r].source = "wallet"
    /\ \E o \in Outcomes : Post(r, "refund", "wallet", - sess[r].consumed, o)
    /\ rpc' = [rpc EXCEPT ![r] = "token"]
    /\ UNCHANGED <<pc, request, sess, verdict, record, attempt, world>>

\* Mutant: the retry counter wraps before it reaches the limit.
NextAttemptWraps(n) == (n + 1) % 2

\* refundWithRetry
MaxAttempts == 3
NextAttempt(n) == n + 1
GivesUp(r) == NextAttempt(attempt[r]) = MaxAttempts

\* Mutant: a refunded record is refunded again.
RefundDueAgain(r) == sess[r].consumed

\* RefundSubscriptionPreConsume gives back what its record says, once.
RefundDue(r) == IF record[r] = "consumed" THEN sess[r].consumed ELSE 0

\* SubscriptionFunding.Refund: refundWithRetry(RefundSubscriptionPreConsume)
RefundSubscription(r) ==
    /\ rpc[r] = "funding"
    /\ sess[r].source = "sub"
    /\ \E o \in Outcomes :
          /\ Apply(r, "refund", "sub", - RefundDue(r), o)
          /\ Report(r, IF GivesUp(r) THEN o ELSE "ok")
          /\ record' = IF o = "fail" THEN record
                                    ELSE [record EXCEPT ![r] = "refunded"]
          /\ IF o = "ok" \/ GivesUp(r)
             THEN rpc' = [rpc EXCEPT ![r] = AfterFunding(r)] /\ UNCHANGED attempt
             ELSE attempt' = [attempt EXCEPT ![r] = NextAttempt(@)] /\ UNCHANGED rpc
    /\ EndRow(r, "refund")
    /\ UNCHANGED <<pc, request, sess, verdict, env>>

RefundExtra(r) ==
    /\ rpc[r] = "extra"
    /\ \E o \in Outcomes : Post(r, "refund", "sub", - sess[r].extraReserved, o)
    /\ rpc' = [rpc EXCEPT ![r] = "token"]
    /\ EndRow(r, "refund")
    /\ UNCHANGED <<pc, request, sess, verdict, record, attempt, env>>

RefundToken(r) ==
    /\ rpc[r] = "token"
    /\ \/ /\ req[r].playground \/ sess[r].tokenConsumed = 0
          /\ NoPost
       \/ /\ ~ req[r].playground /\ sess[r].tokenConsumed > 0
          /\ \E o \in Outcomes : Post(r, "refund", "token", - sess[r].tokenConsumed, o)
    /\ rpc' = [rpc EXCEPT ![r] = "done"]
    /\ UNCHANGED <<pc, request, sess, verdict, record, attempt, world>>

\* The next call of goroutine g is a transaction on the subscription's row.
AtRow(r, g) ==
    /\ sess[r].source = "sub"
    /\ \/ g = "refund" /\ rpc[r] = "extra"
       \/ g = "refund" /\ rpc[r] = "funding" /\ RefundDue(r) > 0
       \/ g = "serve" /\ pc[r] \in {"reserveFunding", "reserveRollback", "fee"}
       \/ g = "serve" /\ pc[r] = "settle" /\ SettleDelta(r) # 0
       \/ g = "serve" /\ pc[r] = "fundingDebit" /\ active /\ record[r] # "consumed"

\* Where nothing locks the row, other goroutines may write it after a transaction
\* has read it; what the transaction saves is computed from what it has read.
ReadRow(r, g) ==
    /\ ~ RowLocks
    /\ AtRow(r, g)
    /\ rowRead[r][g] = NoRow
    /\ rowRead' = [rowRead EXCEPT ![r][g] = balance["sub"]]
    /\ UNCHANGED <<pc, refunding, request, sess, verdict, record, rows, env>>

-------------------------------------------------------------------------------
(***************************************************************************)
(* The environment: the subscription expires, the process dies.            *)
(***************************************************************************)
Expire ==
    /\ active
    /\ active' = FALSE
    /\ UNCHANGED <<pc, refunding, request, sess, verdict, record, rows, crashes, rowRead>>

\* Sessions and refund goroutines live in memory only.
Crash ==
    /\ crashes < MaxCrashes
    /\ crashes' = crashes + 1
    /\ pc' = [r \in Requests |-> IF \/ pc[r] \in {"idle", "end"}
                                    \/ pc[r] = "rejected" /\ ~ MayRetry(r)
                                 THEN pc[r] ELSE "crashed"]
    /\ rpc' = [r \in Requests |-> IF rpc[r] \in {"none", "done"}
                                  THEN rpc[r] ELSE "crashed"]
    /\ rowRead' = [r \in Requests |-> [g \in Goroutine |-> NoRow]]
    /\ UNCHANGED <<request, sess, verdict, record, attempt, rows, active>>

PreConsume(r) ==
    \/ HasSubscription(r) \/ TryWallet(r) \/ QueryFails(r)
    \/ TokenCheck(r) \/ TokenDebit(r) \/ FundingDebit(r) \/ FoundRecord(r)
    \/ TokenRollback(r)

Relay(r) ==
    \/ \E q \in Actuals : AttemptSucceeds(r, q)
    \/ \E m \in {"none", "billable"}, last \in BOOLEAN, f \in Fees :
          AttemptFails(r, m, last, f)
    \/ \E t \in ReserveTargets : Reserve(r, t)

ReserveSteps(r) ==
    ReserveFunding(r) \/ ReserveCheck(r) \/ ReserveDebit(r) \/ ReserveRollback(r)

Finish(r) ==
    \/ SettleFunding(r) \/ SettleToken(r)
    \/ (\E q \in Actuals : SettleError(r, q)) \/ Refund(r)
    \/ FeeFunding(r) \/ FeeToken(r)

RefundGoroutine(r) ==
    RefundWallet(r) \/ RefundSubscription(r) \/ RefundExtra(r) \/ RefundToken(r)

Next ==
    \/ \E r \in Requests :
          \/ \E p \in Profiles : Begin(r, p)
          \/ RetryTask(r) \/ \E g \in Goroutine : ReadRow(r, g)
          \/ PreConsume(r) \/ Relay(r) \/ ReserveSteps(r) \/ Finish(r)
          \/ RefundGoroutine(r)
    \/ Expire
    \/ Crash

Spec == Init /\ [][Next]_vars

(***************************************************************************)
(* The Go scheduler runs every ready goroutine and a database call returns *)
(* (with whatever outcome).  Nothing makes an upstream answer or a client  *)
(* send a request, so Begin and Relay carry no fairness; nor does          *)
(* RetryTask, which the error's status or a failed getChannel rules out.   *)
(***************************************************************************)
Fairness ==
    \A r \in Requests :
        /\ WF_vars(PreConsume(r))
        /\ WF_vars(ReserveSteps(r))
        /\ WF_vars(Finish(r))
        /\ WF_vars(RefundGoroutine(r))

FairSpec == Spec /\ Fairness

-------------------------------------------------------------------------------
(***************************************************************************)
(* Properties.                                                             *)
(***************************************************************************)

\* Every variable stays in its domain; amounts the session keeps are natural
\* numbers, which the subtractions of Reserve's roll-back could break.
TypeOK ==
    /\ pc \in [Requests -> Location]
    /\ rpc \in [Requests -> RefundLocation]
    /\ req \in [Requests -> Profile]
    /\ seen \in [Requests -> Int]
    /\ retry \in [Requests -> 0 .. RetryTimes]
    /\ sess \in [Requests -> Session]
    /\ mark \in [Requests -> {"none", "billable"}]
    /\ actual \in [Requests -> Nat]
    /\ fee \in [Requests -> Nat]
    /\ record \in [Requests -> {"none", "consumed", "refunded"}]
    /\ attempt \in [Requests -> 0 .. MaxAttempts - 1]
    /\ balance \in [Account -> Int]
    /\ active \in BOOLEAN
    /\ crashes \in 0 .. MaxCrashes
    /\ rowRead \in [Requests -> [Goroutine -> Int]]
    /\ taken \in [Requests -> [Account -> Int]]
    /\ trouble \in [Requests -> BOOLEAN]

\* What the payer lost to a request, wallet and subscription together
Paid(r) == taken[r]["wallet"] + taken[r]["sub"]

Finished(r) == pc[r] \in {"end", "rejected"} /\ rpc[r] \in {"none", "done"}

\* What a finished request should have cost: the actual quota when it was
\* settled, nothing when it was refunded or rejected, what had been pre-consumed
\* when the subscription refused the settlement, and the violation fee on top.
Owed(r) ==
    LET s == sess[r] IN
    fee[r] + (CASE s.settled  -> actual[r]
                [] s.refunded -> 0
                [] OTHER      -> s.preConsumedQuota)

\* Whatever the interleaving, the fall-backs, the roll-backs and the order of
\* the refund goroutine and the violation fee, a request none of whose writes
\* failed costs the payer exactly what it owes: Settle, Refund and preConsume
\* of billing_session.go neither lose nor repeat a debit.
ChargedExactly ==
    \A r \in Requests : Finished(r) /\ ~ trouble[r] => Paid(r) = Owed(r)

\* The token is charged what the payer is charged (nothing in the playground):
\* the two legs that preConsume, Reserve, Settle, Refund and PostConsumeQuota
\* commit one after the other end up equal.
TokenFollowsPayer ==
    \A r \in Requests : Finished(r) /\ ~ trouble[r] =>
        taken[r]["token"] = IF req[r].playground THEN 0 ELSE Paid(r)

\* No account ever gets back more than the request took from it, whatever
\* write fails, is lost or is retried, and wherever the process dies
\* (refundWithRetry against RefundSubscriptionPreConsume, Settle against Refund).
NoOverRefund == \A r \in Requests, a \in Account : taken[r][a] >= 0

\* The fall-backs of NewBillingSession leave a request with one payer: it holds
\* quota of the wallet and of the subscription at the same time only if a write for
\* it went wrong and RelayTask then started over, as PreConsumeBilling does not
\* know that the debit it saw fail was made.
OnePayer ==
    \A r \in Requests :
        taken[r]["wallet"] # 0 /\ taken[r]["sub"] # 0 => trouble[r] /\ retry[r] > 0

\* A session is settled or refunded, never both, and Refund never starts once
\* funding.Settle has been committed (fundingSettled, billing_session.go:32).
SettledOrRefunded ==
    \A r \in Requests :
        ~ (sess[r].refunded /\ (sess[r].settled \/ sess[r].fundingSettled))

\* The sum of what the requests took from a; it counts every unit of quota with the
\* request that took it.
SumTaken(a) == Cardinality(UNION {{r} \X (1 .. taken[r][a]) : r \in Requests})

\* subscription.go: postConsumeUserSubscriptionDeltaTx and the refund of a record
\* "update subscription used amount by delta".  amount_used of the subscription is
\* the sum of what the requests took and stays within amount_total, and the clamp
\* at 0 never hides a refund that was too large.  It holds where the database
\* serialises the transactions (RowLocks); elsewhere updates are lost.
SubscriptionBooks ==
    /\ \A r \in Requests : taken[r]["sub"] >= 0
    /\ balance["sub"] = SubTotal - SumTaken("sub")
    /\ balance["sub"] >= 0

\* A pre-consumed request that fails gets everything back or is settled: from
\* the deferred function of Relay on, the request and its refund goroutine come
\* to an end.
ErrorsResolved ==
    \A r \in Requests :
        pc[r] = "fail" ~> (Finished(r) \/ pc[r] = "crashed" \/ rpc[r] = "crashed")

\* NewBillingSession comes to an end: the fall-backs between subscription and
\* wallet cannot go round in circles.
PreConsumeEnds ==
    \A r \in Requests :
        pc[r] \in PreConsumeStep ~> pc[r] \in {"relay", "rejected", "crashed"}

\* relay_error_billing.go:17-19: a failed request whose upstream attempt did
\* billable work "should still be billed once after the retry chain finishes".
BillableErrorIsBilled ==
    \A r \in Requests :
        pc[r] = "end" /\ rpc[r] \in {"none", "done"} /\ mark[r] = "billable"
          /\ ~ trouble[r] => sess[r].settled

\* The contract of BillingSettler: the verdict of a session, and what its payer
\* is out of pocket, mapped to BillingContract.
Verdict(s) ==
    CASE s.settled \/ s.fundingSettled -> "settled"
      [] s.refunded                    -> "refunded"
      [] OTHER                         -> "open"

Contract == INSTANCE BillingContract
    WITH verdict <- [r \in Requests |-> Verdict(sess[r])],
         held    <- [r \in Requests |-> Paid(r)]

\* A session keeps the contract of BillingSettler: one verdict, after "settled"
\* only a fee is added, after "refunded" quota only comes back, and never more
\* than was held.
KeepsContract == Contract!ContractSpec
===============================================================================

------------------------ MODULE BillingContractProofs -------------------------
(***************************************************************************)
(* BillingSession implements BillingContract, the abstract specification   *)
(* of relay/common/billing.go: every step of a request, of its refund      *)
(* goroutine and of the environment is a step of the contract or a         *)
(* stutter.                                                                *)
(***************************************************************************)
EXTENDS BillingLedgerProofs

USE DEF Fresh, Opening, Moved, Pending, Closing, Late, InFlight, NoVerdict,
        ReserveStep, request, refunding, verdict, rows, env, world, NoPost

\* The session has no verdict yet.
Open == Fresh \cup Opening \cup Pending

\* The variables of the contract, as KeepsContract maps them
Verdicts == [r \in Requests |-> Verdict(sess[r])]
Held     == [r \in Requests |-> Paid(r)]

\* What the contract allows a step of r to do to its verdict and to what its
\* payer is out of pocket.
Allowed(r) ==
    LET v == Verdict(sess[r])
        w == Verdict(sess'[r])
    IN  \/ v = w /\ Paid(r)' = Paid(r)
        \/ v = "open" /\ w \in {"open", "settled"}
        \/ v = "open" /\ w = "refunded" /\ Paid(r)' = Paid(r)
        \/ v = "refunded" /\ w = v /\ Paid(r)' <= Paid(r)
        \/ w = v /\ Paid(r)' >= Paid(r)

-------------------------------------------------------------------------------
(***************************************************************************)
(* The refinement mapping.                                                 *)
(***************************************************************************)

\* What a payer is out of pocket is a natural number.
LEMMA PaidLemma ==
    ASSUME NEW t \in [Account -> Int], \A a \in Account : t[a] >= 0
    PROVE  t["wallet"] + t["sub"] \in Nat
<1>1. t["wallet"] \in Int /\ t["sub"] \in Int /\ t["wallet"] >= 0 /\ t["sub"] >= 0
  BY DEF Account
<1> QED BY <1>1

\* The verdict on a session follows from where its request stands.
LEMMA VerdictLemma ==
    ASSUME NEW p, NEW g, NEW q, NEW s \in Session, Control(p, g, q, s)
    PROVE  /\ p \in Open => Verdict(s) = "open"
           /\ p = "settleToken" => Verdict(s) = "settled"
           /\ g # "none" => Verdict(s) = "refunded"
           /\ Verdict(s) \in {"open", "settled", "refunded"}
           /\ Verdict(s) = "refunded" <=> s.refunded
<1>1. /\ s.settled \in BOOLEAN /\ s.refunded \in BOOLEAN /\ s.fundingSettled \in BOOLEAN
  BY DEF Session
<1>2. CASE p \in Fresh
  BY <1>2 DEF Control, Verdict, NoSession, NewSession, Open
<1>3. CASE p \notin Fresh
  BY <1>1, <1>3 DEF Control, Verdict, Open
<1> QED BY <1>2, <1>3

\* The two in a state that satisfies the invariant, and after a step to one.
LEMMA Mapped ==
    ASSUME IInv, NEW r \in Requests
    PROVE  /\ Paid(r) \in Nat
           /\ pc[r] \in Open => Verdict(sess[r]) = "open"
           /\ pc[r] = "settleToken" => Verdict(sess[r]) = "settled"
           /\ rpc[r] # "none" => Verdict(sess[r]) = "refunded"
<1>1. /\ Control(pc[r], rpc[r], req[r], sess[r]) /\ sess[r] \in Session
      /\ taken[r] \in [Account -> Int] /\ \A a \in Account : taken[r][a] >= 0
  BY DEF IInv, RInv, RequestInv, TypeOK
<1> QED BY <1>1, VerdictLemma, PaidLemma DEF Paid

LEMMA MappedNext ==
    ASSUME IInv', NEW r \in Requests
    PROVE  /\ Paid(r)' \in Nat
           /\ pc'[r] \in Open => Verdict(sess'[r]) = "open"
           /\ Verdict(sess'[r]) \in {"open", "settled", "refunded"}
           /\ Verdict(sess'[r]) = "refunded" <=> sess'[r].refunded
<1>1. /\ Control(pc'[r], rpc'[r], req'[r], sess'[r]) /\ sess'[r] \in Session
      /\ taken'[r] \in [Account -> Int] /\ \A a \in Account : taken'[r][a] >= 0
  BY DEF IInv, RInv, RequestInv, TypeOK
<1> QED BY <1>1, VerdictLemma, PaidLemma DEF Paid

\* A step of r that does what the contract allows is a step of the contract.
LEMMA AllowedStep ==
    ASSUME IInv, IInv', NEW r \in Requests, Local(r), Allowed(r)
    PROVE  [Contract!ContractNext]_<<Verdicts, Held>>
<1>1. Paid(r) \in Nat /\ Paid(r)' \in Nat
  BY Mapped, MappedNext
<1>2. /\ Verdicts' = [q \in Requests |-> Verdict(sess'[q])]
      /\ Verdicts = [q \in Requests |-> Verdict(sess[q])]
      /\ \A q \in Requests \ {r} : Verdict(sess'[q]) = Verdict(sess[q])
  BY DEF Local, Verdicts, Verdict
<1>a. /\ Verdicts' = [Verdicts EXCEPT ![r] = Verdict(sess'[r])]
      /\ Verdicts[r] = Verdict(sess[r])
  BY <1>2
<1>b. /\ Held' = [Held EXCEPT ![r] = Paid(r)']
      /\ Held[r] = Paid(r) /\ Held'[r] = Paid(r)'
  BY DEF Local, Held, Paid
<1>3. Contract!HeldChanges(r)
  BY <1>1, <1>b DEF Contract!HeldChanges, Held
<1>4. CASE Verdict(sess[r]) = Verdict(sess'[r]) /\ Paid(r)' = Paid(r)
  <2>1. Verdicts' = Verdicts /\ Held' = Held
    BY <1>a, <1>b, <1>4 DEF Verdicts, Held
  <2> QED BY <2>1
<1>5. CASE Verdict(sess[r]) = "open" /\ Verdict(sess'[r]) = "open"
  BY <1>a, <1>b, <1>3, <1>5 DEF Contract!ContractNext, Contract!Hold, Verdicts, Held
<1>6. CASE Verdict(sess[r]) = "open" /\ Verdict(sess'[r]) = "settled"
  BY <1>a, <1>b, <1>3, <1>6 DEF Contract!ContractNext, Contract!Charge, Verdicts, Held
<1>7. CASE Verdict(sess[r]) = "open" /\ Verdict(sess'[r]) = "refunded" /\ Paid(r)' = Paid(r)
  BY <1>a, <1>b, <1>3, <1>7 DEF Contract!ContractNext, Contract!Abandon, Verdicts, Held
<1>8. CASE Verdict(sess[r]) = "refunded" /\ Verdict(sess'[r]) = "refunded"
           /\ Paid(r)' < Paid(r)
  BY <1>a, <1>b, <1>3, <1>8 DEF Contract!ContractNext, Contract!GiveBack, Verdicts, Held
<1>9. CASE Verdict(sess'[r]) = Verdict(sess[r]) /\ Paid(r)' > Paid(r)
  BY <1>a, <1>b, <1>3, <1>9 DEF Contract!ContractNext, Contract!AddFee, Verdicts, Held
<1> QED BY <1>1, <1>4, <1>5, <1>6, <1>7, <1>8, <1>9 DEF Allowed

-------------------------------------------------------------------------------
(***************************************************************************)
(* What each group of steps does, in terms of the contract.                *)
(***************************************************************************)

\* While the session is open, a step that leaves it open is allowed.
LEMMA OpenAllowed ==
    ASSUME IInv, IInv', NEW r \in Requests, pc[r] \in Open, pc'[r] \in Open
    PROVE  Allowed(r)
<1>1. Verdict(sess[r]) = "open" /\ Verdict(sess'[r]) = "open"
  BY Mapped, MappedNext
<1> QED BY <1>1 DEF Allowed

\* NewBillingSession, the relay loop and Reserve stay in front of any verdict.
LEMMA OpenSteps ==
    ASSUME IInv, NEW r \in Requests,
           \/ \E p \in Profiles : Begin(r, p)
           \/ RetryTask(r) \/ PreConsume(r) \/ Relay(r) \/ ReserveSteps(r)
           \/ \E q \in Actuals : SettleError(r, q)
    PROVE  pc[r] \in Open /\ pc'[r] \in Open
<1>0. pc \in [Requests -> Location]
  BY DEF IInv, TypeOK
<1>1. ASSUME NEW l \in Open, Goto(r, l)
      PROVE  pc'[r] \in Open
  BY <1>0, <1>1 DEF Goto
<1>2. CASE (\E p \in Profiles : Begin(r, p)) \/ RetryTask(r)
  BY <1>1, <1>2 DEF Begin, RetryTask, NewBillingSession, TrySubscription, Open
<1>3. CASE HasSubscription(r) \/ TryWallet(r) \/ QueryFails(r) \/ TokenCheck(r)
  BY <1>1, <1>3 DEF HasSubscription, TryWallet, QueryFails, TokenCheck, TrySubscription,
     Reject, Open
<1>4. CASE TokenDebit(r) \/ FundingDebit(r) \/ FoundRecord(r) \/ TokenRollback(r)
  BY <1>1, <1>4 DEF TokenDebit, FundingDebit, FoundRecord, PreConsumed, TokenRollback,
     AfterRollback, Reject, Open
<1>5. CASE Relay(r)
  BY <1>1, <1>5 DEF Relay, AttemptSucceeds, AttemptFails, Reserve, Open
<1>6. CASE ReserveSteps(r)
  BY <1>1, <1>6 DEF ReserveSteps, ReserveFunding, ReserveCheck, ReserveDebit,
     ReserveRollback, Open
<1>7. CASE \E q \in Actuals : SettleError(r, q)
  BY <1>1, <1>7 DEF SettleError, Open
<1> QED BY <1>2, <1>3, <1>4, <1>5, <1>6, <1>7 DEF PreConsume

\* Settle charges the payer or leaves the session open; it never abandons it.
LEMMA SettleFundingAllowed ==
    ASSUME IInv, IInv', NEW r \in Requests, SettleFunding(r)
    PROVE  Allowed(r)
<1>0. /\ TypeOK /\ pc[r] = "settle" /\ ~ sess[r].refunded /\ sess[r] \in Session
      /\ Verdict(sess[r]) = "open"
  BY Unfold, Mapped DEF SettleFunding, RequestInv, Control, Open
<1>1. ~ sess'[r].refunded
  <2>1. CASE UNCHANGED sess
    BY <1>0, <2>1
  <2>2. CASE sess' = [sess EXCEPT ![r].settled = TRUE]
    BY <1>0, <2>2 DEF TypeOK, Session
  <2>3. CASE sess' = [sess EXCEPT ![r].fundingSettled = TRUE]
    BY <1>0, <2>3 DEF TypeOK, Session
  <2>4. CASE sess' = [sess EXCEPT ![r].fundingSettled = TRUE, ![r].settled = TRUE]
    <3>1. sess' = [sess EXCEPT ![r] = [sess[r] EXCEPT !.fundingSettled = TRUE,
                                                      !.settled = TRUE]]
      BY <1>0, <2>4 DEF TypeOK
    <3> QED BY <1>0, <3>1 DEF TypeOK, Session
  <2> QED BY <2>1, <2>2, <2>3, <2>4 DEF SettleFunding
<1>2. Verdict(sess'[r]) \in {"open", "settled"}
  BY <1>1, MappedNext
<1> QED BY <1>0, <1>2 DEF Allowed

\* The token leg of Settle and the violation fee take nothing back.
LEMMA ClosingAllowed ==
    ASSUME IInv, IInv', LInv, NEW r \in Requests,
           SettleToken(r) \/ Refund(r) \/ FeeFunding(r) \/ FeeToken(r)
    PROVE  Allowed(r)
<1>0. /\ TypeOK /\ taken[r] \in [Account -> Int] /\ "token" \in Account
      /\ {"wallet", "sub"} \subseteq Account
      /\ taken[r]["wallet"] \in Int /\ taken[r]["sub"] \in Int
  BY Unfold DEF Account
<1>1. CASE SettleToken(r)
  <2>1. PICK o \in Outcomes : Post(r, "serve", "token", SettleDelta(r), o)
    BY <1>1 DEF SettleToken
  <2>2. SettleDelta(r) \in Int
    BY Unfold DEF SettleDelta, Session
  <2>a. taken'[r] = After(taken[r], "token", SettleDelta(r), o)
    BY <1>0, <2>1, <2>2, PostAt
  <2>3. Paid(r)' = Paid(r)
    BY <1>0, <2>a DEF Paid, After, Account
  <2>4. Verdict(sess[r]) = "settled"
    BY <1>1, Mapped DEF SettleToken
  <2>5. sess'[r] = [sess[r] EXCEPT !.settled = TRUE]
    BY <1>0, <1>1 DEF SettleToken, TypeOK
  <2>6. Verdict(sess'[r]) = "settled"
    <3>1. sess[r] \in Session /\ ~ sess[r].refunded
      BY <1>1, Unfold DEF SettleToken, RequestInv, Control
    <3>2. sess'[r].settled = TRUE /\ sess'[r].refunded = FALSE
      BY <2>5, <3>1 DEF Session
    <3> QED BY <3>2 DEF Verdict
  <2> QED BY <2>3, <2>4, <2>6 DEF Allowed
<1>2. CASE Refund(r)
  <2>1. Verdict(sess[r]) = "open"
    BY <1>2, Mapped DEF Refund, Open
  <2>2. Paid(r)' = Paid(r)
    BY <1>2 DEF Refund, Paid
  <2>3. Verdict(sess'[r]) \in {"open", "settled", "refunded"}
    BY MappedNext
  <2> QED BY <2>1, <2>2, <2>3 DEF Allowed
<1>3. CASE FeeFunding(r)
  <2>1. UNCHANGED sess
    BY <1>3 DEF FeeFunding
  <2>2. CASE NoPost
    BY <2>1, <2>2 DEF Allowed, Paid
  <2>3. ASSUME NEW o \in Outcomes, Post(r, "serve", BillingSource(r), fee[r], o)
        PROVE  Allowed(r)
    <3>1. BillingSource(r) \in {"wallet", "sub"} /\ fee[r] \in Nat
      BY <1>3, Unfold, Account1 DEF FeeFunding, BillingSource, Control, Session
    <3>2. taken'[r] = After(taken[r], BillingSource(r), fee[r], o)
      BY <1>0, <2>3, <3>1, PostAt
    <3>3. Paid(r)' >= Paid(r)
      BY <1>0, <3>1, <3>2 DEF Paid, After, Account
    <3> QED BY <2>1, <3>3 DEF Allowed
  <2> QED BY <1>3, <2>2, <2>3 DEF FeeFunding
<1>4. CASE FeeToken(r)
  <2>1. UNCHANGED sess /\ fee[r] \in Int
    BY <1>4, Unfold DEF FeeToken
  <2>2. PICK o \in Outcomes : Post(r, "serve", "token", fee[r], o)
    BY <1>4 DEF FeeToken
  <2>a. taken'[r] = After(taken[r], "token", fee[r], o)
    BY <1>0, <2>1, <2>2, PostAt
  <2>3. Paid(r)' = Paid(r)
    BY <1>0, <2>a DEF Paid, After, Account
  <2> QED BY <2>1, <2>3 DEF Allowed
<1> QED BY <1>1, <1>2, <1>3, <1>4

\* The refund goroutine works on a refunded session and only gives back.
LEMMA RefundAllowed ==
    ASSUME IInv, NEW r \in Requests, RefundGoroutine(r)
    PROVE  Allowed(r)
<1>0. /\ TypeOK /\ taken[r] \in [Account -> Int] /\ "token" \in Account
      /\ {"wallet", "sub"} \subseteq Account /\ sess[r] \in Session
      /\ taken[r]["wallet"] \in Int /\ taken[r]["sub"] \in Int
  BY Unfold DEF Account
<1>1. /\ UNCHANGED sess /\ rpc[r] # "none"
  BY DEF RefundGoroutine, RefundWallet, RefundSubscription, RefundExtra, RefundToken
<1>2. Verdict(sess[r]) = "refunded" /\ Verdict(sess'[r]) = "refunded"
  BY <1>1, Mapped
<1>3. ASSUME NEW a \in Account, NEW n \in Nat, NEW o \in Outcomes,
             taken'[r] = After(taken[r], a, - n, o)
      PROVE  Paid(r)' <= Paid(r)
  BY <1>0, <1>3 DEF Paid, After, Account
<1>4. Paid(r)' <= Paid(r)
  <2>1. CASE RefundWallet(r)
    <3>1. PICK o \in Outcomes : Post(r, "refund", "wallet", - sess[r].consumed, o)
      BY <2>1 DEF RefundWallet
    <3>2. sess[r].consumed \in Nat /\ - sess[r].consumed \in Int
      BY <1>0 DEF Session
    <3> QED BY <1>0, <1>3, <3>1, <3>2, PostAt
  <2>2. CASE RefundSubscription(r)
    <3>1. PICK o \in Outcomes : Apply(r, "refund", "sub", - RefundDue(r), o)
      BY <2>2 DEF RefundSubscription
    <3>2. RefundDue(r) \in Nat
      BY <1>0 DEF RefundDue, Session
    <3>3. taken'[r] = After(taken[r], "sub", - RefundDue(r), o)
      BY <1>0, <3>1 DEF Apply, After, TypeOK
    <3> QED BY <1>0, <1>3, <3>2, <3>3
  <2>3. CASE RefundExtra(r)
    <3>1. PICK o \in Outcomes : Post(r, "refund", "sub", - sess[r].extraReserved, o)
      BY <2>3 DEF RefundExtra
    <3>2. sess[r].extraReserved \in Nat /\ - sess[r].extraReserved \in Int
      BY <1>0 DEF Session
    <3> QED BY <1>0, <1>3, <3>1, <3>2, PostAt
  <2>4. CASE RefundToken(r)
    <3>1. CASE NoPost
      BY <1>0, <3>1 DEF Paid
    <3>2. ASSUME NEW o \in Outcomes, Post(r, "refund", "token", - sess[r].tokenConsumed, o)
          PROVE  Paid(r)' <= Paid(r)
      <4>1. sess[r].tokenConsumed \in Nat /\ - sess[r].tokenConsumed \in Int
        BY <1>0 DEF Session
      <4> QED BY <1>0, <1>3, <3>2, <4>1, PostAt
    <3> QED BY <2>4, <3>1, <3>2 DEF RefundToken
  <2> QED BY <2>1, <2>2, <2>3, <2>4 DEF RefundGoroutine
<1> QED BY <1>2, <1>4 DEF Allowed

-------------------------------------------------------------------------------
(***************************************************************************)
(* The refinement.                                                         *)
(***************************************************************************)

\* A step of a request leaves the others alone.
LEMMA LocalSteps ==
    ASSUME IInv, LInv, NEW r \in Requests,
           \/ \E p \in Profiles : Begin(r, p)
           \/ RetryTask(r) \/ PreConsume(r) \/ Relay(r) \/ ReserveSteps(r) \/ Finish(r)
           \/ RefundGoroutine(r)
    PROVE  Local(r)
<1>1. CASE (\E p \in Profiles : Begin(r, p)) \/ RetryTask(r)
  BY <1>1, BeginLedger, RetryTaskLedger DEF Kept
<1>2. CASE PreConsume(r)
  BY <1>2, HasSubscriptionLedger, TryWalletLedger, QueryFailsLedger, TokenCheckLedger,
     TokenDebitLedger, FundingDebitLedger, FoundRecordLedger, TokenRollbackLedger
     DEF PreConsume, Kept
<1>3. CASE Relay(r)
  BY <1>3, AttemptSucceedsLedger, AttemptFailsLedger, ReserveLedger DEF Relay, Kept
<1>4. CASE ReserveSteps(r)
  BY <1>4, ReserveFundingLedger, ReserveCheckLedger, ReserveDebitLedger,
     ReserveRollbackLedger DEF ReserveSteps, Kept
<1>5. CASE Finish(r)
  BY <1>5, SettleFundingLedger, SettleTokenLedger, SettleErrorLedger, RefundLedger,
     FeeFundingLedger, FeeTokenLedger DEF Finish, Kept
<1>6. CASE RefundGoroutine(r)
  BY <1>6, RefundWalletLedger, RefundSubscriptionLedger, RefundExtraLedger,
     RefundTokenLedger DEF RefundGoroutine, Kept
<1> QED BY <1>1, <1>2, <1>3, <1>4, <1>5, <1>6

\* A new request is open and nothing is held for it.
LEMMA InitContract ==
    Init => Contract!ContractInit
<1> SUFFICES ASSUME Init
             PROVE  Contract!ContractInit
  OBVIOUS
<1>1. ASSUME NEW r \in Requests
      PROVE  Verdict(sess[r]) = "open" /\ Paid(r) = 0
  BY DEF Init, Verdict, NoSession, NewSession, Paid, Account
<1> QED BY <1>1 DEF Contract!ContractInit

\* Every step is a step of the contract or leaves verdicts and amounts alone.
LEMMA NextContract ==
    ASSUME IInv, IInv', LInv, [Next]_vars
    PROVE  [Contract!ContractNext]_<<Verdicts, Held>>
<1>1. CASE UNCHANGED <<sess, taken>>
  BY <1>1 DEF Verdicts, Held, Paid, Verdict
<1>2. ASSUME NEW r \in Requests,
             \/ \E p \in Profiles : Begin(r, p)
             \/ RetryTask(r) \/ PreConsume(r) \/ Relay(r) \/ ReserveSteps(r) \/ Finish(r)
             \/ RefundGoroutine(r)
      PROVE  Allowed(r) /\ Local(r)
  <2>1. Local(r)
    BY <1>2, LocalSteps
  <2>2. CASE \/ \E p \in Profiles : Begin(r, p)
             \/ RetryTask(r) \/ PreConsume(r) \/ Relay(r) \/ ReserveSteps(r)
             \/ \E q \in Actuals : SettleError(r, q)
    BY <2>1, <2>2, OpenSteps, OpenAllowed
  <2>3. CASE Finish(r)
    BY <2>1, <2>2, <2>3, SettleFundingAllowed, ClosingAllowed DEF Finish
  <2> QED BY <1>2, <2>1, <2>2, <2>3, RefundAllowed
<1>3. CASE Expire \/ Crash
  BY <1>1, <1>3 DEF Expire, Crash
<1>4. CASE UNCHANGED vars \/ \E r \in Requests, g \in Goroutine : ReadRow(r, g)
  BY <1>1, <1>4 DEF vars, ReadRow
<1> QED BY <1>2, <1>3, <1>4, AllowedStep DEF Next

\* A billing session keeps the contract of BillingSettler, for any number of
\* concurrent requests, any amounts and any pattern of failing or lost writes,
\* retries and crashes: one verdict, after "settled" only a fee is added, after
\* "refunded" quota only comes back, never more than was held.
THEOREM ImplementsContract ==
    ASSUME ReserveSafe
    PROVE  Spec => KeepsContract
<1>1. IInv /\ (IInv /\ LInv)' /\ LInv /\ [Next]_vars
        => [Contract!ContractNext]_<<Verdicts, Held>>
  BY NextContract
<1> QED BY <1>1, InitContract, LedgerInvariance, PTL
       DEF Spec, KeepsContract, Contract!ContractSpec, Verdicts, Held
===============================================================================

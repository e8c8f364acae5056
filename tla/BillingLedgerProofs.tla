------------------------- MODULE BillingLedgerProofs --------------------------
(***************************************************************************)
(* What a request costs, and whom: proofs about BillingSession that follow *)
(* every debit from the pre-consumption to the end of the refund.          *)
(***************************************************************************)
EXTENDS BillingSessionProofs, FiniteSetTheorems

\* The request has a session the funding may have been debited for.
Late == Pending \cup {"settleToken"} \cup Closing

\* No write to the funding has been made, or none has reached it.
Untouched == {"idle", "hasSub", "wallet", "tokenCheck", "tokenDebit", "fundingDebit"}

OtherPayer(a) == IF a = "wallet" THEN "sub" ELSE "wallet"

\* RelayTask has started over after a write for the request went wrong.
Again(r) == trouble[r] /\ retry[r] > 0

\* A refusal is noted by the payer's pre-debit only, and the refund goroutine runs
\* when the request is being left.
Stages(p, g, s) ==
    /\ p \in {"tokenCheck", "tokenDebit", "fundingDebit"} => ~ s.insufficient
    /\ g \in {"funding", "extra", "token"} => p \in Closing

(***************************************************************************)
(* Only one of wallet and subscription is debited: the fall-back of        *)
(* NewBillingSession is taken when the first payer refused, before any     *)
(* write.  Nothing is assumed of the outcomes of the writes.               *)
(***************************************************************************)
OneSource(p, s, t) ==
    /\ t["wallet"] = 0 \/ t["sub"] = 0
    /\ p \in Untouched => t["wallet"] = 0 /\ t["sub"] = 0
    /\ p = "tokenRollback" /\ s.insufficient => t["wallet"] = 0 /\ t["sub"] = 0
    /\ p \in {"tokenRollback"} \cup Late => t[OtherPayer(s.source)] = 0

(***************************************************************************)
(* The books of a request whose writes all ended "ok": what its payer and  *)
(* its token are out of pocket at every location of the request and of its *)
(* refund goroutine.                                                       *)
(***************************************************************************)
FundingDue(p, g, s, e, x) ==
    CASE s.refunded /\ g = "funding" ->
            IF s.source = "wallet" THEN s.consumed
            ELSE s.extraReserved + (IF e = "consumed" THEN s.consumed ELSE 0)
      [] s.refunded /\ g = "extra"     -> s.extraReserved
      [] s.refunded /\ g \notin {"funding", "extra"} -> 0
      [] ~ s.refunded /\ (s.settled \/ s.fundingSettled) -> x
      [] OTHER -> s.preConsumedQuota + InFlight(p, s)

TokenDue(g, s, x) ==
    CASE s.refunded                -> IF g = "done" THEN 0 ELSE s.tokenConsumed
      [] ~ s.refunded /\ s.settled -> x
      [] OTHER                     -> s.preConsumedQuota

\* The part of the violation fee that has been taken from the payer and from
\* the token
FeePaid(p, f) == IF p \in {"feeToken", "end"} THEN f ELSE 0
TokenFeePaid(p, f) == IF p = "end" THEN f ELSE 0

Exact(p, g, q, s, e, t, x, f) ==
    /\ p \in Fresh \cup Opening =>
          /\ t["wallet"] = 0 /\ t["sub"] = 0
          /\ t["token"] = IF ~ q.playground /\ p \in {"fundingDebit", "tokenRollback"}
                          THEN s.tokenConsumed ELSE 0
    /\ p \in Fresh \cup Opening \cup {"relay"} \cup ReserveStep => f = 0
    /\ p \in Late =>
          /\ t[s.source] = FundingDue(p, g, s, e, x) + FeePaid(p, f)
          /\ t["token"] = IF q.playground THEN 0
                          ELSE TokenDue(g, s, x) + TokenFeePaid(p, f)
          /\ s.refunded => g # "none"
    /\ p \in Pending => IF s.source = "wallet"
                        THEN s.consumed = s.preConsumedQuota + InFlight(p, s)
                        ELSE e = "consumed"
    /\ p \in Closing => (s.fundingSettled => s.settled)

Clean(r) == ~ trouble[r] /\ rpc[r] # "crashed"

Source(r) ==
    /\ Stages(pc[r], rpc[r], sess[r])
    /\ ~ Again(r) => OneSource(pc[r], sess[r], taken[r])

Books(r) == Clean(r) => Exact(pc[r], rpc[r], req[r], sess[r], record[r], taken[r],
                              actual[r], fee[r])

LInv == \A r \in Requests : Source(r) /\ Books(r)

-------------------------------------------------------------------------------
(***************************************************************************)
(* A step of one request.                                                  *)
(***************************************************************************)

USE DEF Fresh, Opening, Moved, Pending, Closing, Late, InFlight, NoVerdict,
        ReserveStep, Untouched, OtherPayer, FeePaid, TokenFeePaid, request, refunding,
        verdict, rows, env, world, NoPost, Again, Stages

\* The step leaves the other requests alone.
Local(r) ==
    \A q \in Requests \ {r} :
        /\ pc'[q] = pc[q] /\ rpc'[q] = rpc[q] /\ req'[q] = req[q] /\ retry'[q] = retry[q]
        /\ sess'[q] = sess[q] /\ record'[q] = record[q] /\ taken'[q] = taken[q]
        /\ actual'[q] = actual[q] /\ fee'[q] = fee[q] /\ trouble'[q] = trouble[q]

\* The step keeps the invariant.
Kept(r) == Local(r) /\ Source(r)' /\ Books(r)'

\* What the invariants say of one request, with the types of its state.
LEMMA Account1 ==
    ASSUME IInv, LInv, NEW r \in Requests
    PROVE  /\ pc[r] \in Location /\ rpc[r] \in RefundLocation
           /\ sess[r] \in Session /\ req[r] \in Profile
           /\ taken[r] \in [Account -> Int] /\ taken[r]["wallet"] \in Int
           /\ taken[r]["sub"] \in Int /\ taken[r]["token"] \in Int
           /\ actual[r] \in Nat /\ fee[r] \in Nat
           /\ Control(pc[r], rpc[r], req[r], sess[r])
           /\ SubHeld(pc[r], rpc[r], req[r], sess[r], record[r], taken[r])
           /\ Stages(pc[r], rpc[r], sess[r])
           /\ ~ Again(r) => OneSource(pc[r], sess[r], taken[r])
           /\ Clean(r) => Exact(pc[r], rpc[r], req[r], sess[r], record[r], taken[r],
                                actual[r], fee[r])
<1>1. /\ taken[r] \in [Account -> Int] /\ "wallet" \in Account /\ "sub" \in Account
      /\ "token" \in Account /\ rpc[r] \in RefundLocation
  BY DEF IInv, TypeOK, Account
<1>2. Source(r) /\ Books(r)
  BY DEF LInv
<1> QED BY <1>1, <1>2, Unfold DEF RequestInv, Source, Books

\* A write of n on account a, seen from the request.
LEMMA PostAt ==
    ASSUME TypeOK, NEW r \in Requests, NEW g \in {"serve", "refund"}, NEW a \in Account,
           NEW n \in Int, NEW o \in Outcomes, Post(r, g, a, n, o)
    PROVE  /\ taken'[r] = After(taken[r], a, n, o)
           /\ (o = "ok" /\ trouble'[r] = trouble[r]) \/ (o # "ok" /\ trouble'[r])
           /\ \A q \in Requests \ {r} : taken'[q] = taken[q] /\ trouble'[q] = trouble[q]
<1>1. taken' = [taken EXCEPT ![r] = After(taken[r], a, n, o)]
  BY PostLemma DEF Goroutine
<1>2. taken \in [Requests -> [Account -> Int]] /\ trouble \in [Requests -> BOOLEAN]
  BY DEF TypeOK
<1>3. /\ (o = "ok" /\ trouble'[r] = trouble[r]) \/ (o # "ok" /\ trouble'[r])
      /\ \A q \in Requests \ {r} : trouble'[q] = trouble[q]
  BY <1>2 DEF Post, Report
<1> QED BY <1>1, <1>2, <1>3

\* A step of r whose part of the invariant holds afterwards preserves it.
LEMMA OneLedger ==
    ASSUME LInv, NEW r \in Requests, Kept(r)
    PROVE  LInv'
BY DEF Kept, LInv, Local, Source, Books, Clean

-------------------------------------------------------------------------------
(***************************************************************************)
(* One lemma per action: NewBillingSession and preConsume.                 *)
(***************************************************************************)

\* A request that has been charged nothing is given a session, or none.
LEMMA OpenLedger ==
    ASSUME IInv, LInv, NEW r \in Requests, pc[r] \in {"idle", "hasSub", "wallet"},
           UNCHANGED <<rpc, retry, record, actual, fee, taken, trouble>>,
           \/ pc'[r] = "tokenCheck" /\ sess'[r] = NewSession("sub")
           \/ pc'[r] = "tokenCheck" /\ sess'[r] = NewSession("wallet")
           \/ pc'[r] = "relay" /\ sess'[r] = NewSession("wallet")
           \/ pc'[r] = "relay" /\ sess'[r] = TrustedSession
           \/ pc'[r] \in {"hasSub", "wallet", "rejected"} /\ sess'[r] = NoSession
    PROVE  Source(r)' /\ Books(r)'
<1>0. /\ rpc[r] = "none"
      /\ ~ Again(r) => taken[r]["wallet"] = 0 /\ taken[r]["sub"] = 0
      /\ Clean(r) => /\ taken[r]["wallet"] = 0 /\ taken[r]["sub"] = 0
                     /\ fee[r] = 0 /\ taken[r]["token"] = 0
  BY Account1 DEF Control, OneSource, Exact
<1>1. Source(r)'
  BY <1>0 DEF Source, OneSource, NewSession, TrustedSession, NoSession
<1>2. ASSUME Clean(r)'
      PROVE  Exact(pc'[r], rpc[r], req'[r], sess'[r], record[r], taken[r], actual[r],
                   fee[r])
  <2>1. /\ taken[r]["wallet"] = 0 /\ taken[r]["sub"] = 0
        /\ fee[r] = 0 /\ taken[r]["token"] = 0
    BY <1>0, <1>2 DEF Clean
  <2> QED BY <1>0, <2>1 DEF Exact, FundingDue, TokenDue, NewSession, TrustedSession,
             NoSession
<1> QED BY <1>1, <1>2 DEF Books

\* What NewBillingSession begins with.
LEMMA ChoiceLedger ==
    ASSUME TypeOK, NEW r \in Requests, sess[r] = NoSession, NEW pref,
           NewBillingSession(r, pref)
    PROVE  /\ \A q \in Requests \ {r} : pc'[q] = pc[q] /\ sess'[q] = sess[q]
           /\ \/ pc'[r] = "tokenCheck" /\ sess'[r] = NewSession("sub")
              \/ pc'[r] \in {"hasSub", "wallet"} /\ sess'[r] = NoSession
<1>1. CASE TrySubscription(r)
  BY <1>1 DEF TrySubscription, Goto, TypeOK
<1>2. ASSUME NEW l \in {"hasSub", "wallet"}, Goto(r, l), UNCHANGED sess
      PROVE  /\ \A q \in Requests \ {r} : pc'[q] = pc[q] /\ sess'[q] = sess[q]
             /\ pc'[r] \in {"hasSub", "wallet"} /\ sess'[r] = NoSession
  BY <1>2 DEF Goto, TypeOK
<1> QED BY <1>1, <1>2 DEF NewBillingSession

LEMMA BeginLedger ==
    ASSUME IInv, LInv, NEW r \in Requests, NEW p \in Profiles, Begin(r, p)
    PROVE  Kept(r)
<1>0. TypeOK /\ pc[r] = "idle" /\ sess[r] = NoSession
      /\ UNCHANGED <<rpc, retry, record, actual, fee, taken, trouble>>
      /\ req' = [req EXCEPT ![r] = p]
  BY Unfold, FreshLemma DEF Begin
<1>1. /\ \A q \in Requests \ {r} : pc'[q] = pc[q] /\ sess'[q] = sess[q]
      /\ \/ pc'[r] = "tokenCheck" /\ sess'[r] = NewSession("sub")
         \/ pc'[r] \in {"hasSub", "wallet", "rejected"} /\ sess'[r] = NoSession
  BY <1>0, ChoiceLedger DEF Begin
<1>2. Local(r)
  BY <1>0, <1>1 DEF Local, TypeOK
<1>3. Source(r)' /\ Books(r)'
  BY <1>0, <1>1, OpenLedger
<1> QED BY <1>2, <1>3 DEF Kept

\* RelayTask starts over: a request without trouble has been charged nothing.
LEMMA RetryTaskLedger ==
    ASSUME IInv, LInv, NEW r \in Requests, RetryTask(r)
    PROVE  Kept(r)
<1>0. /\ TypeOK /\ pc[r] = "rejected" /\ sess[r] = NoSession /\ rpc[r] = "none"
      /\ UNCHANGED <<rpc, req, record, actual, fee, taken, trouble>>
      /\ retry' = [retry EXCEPT ![r] = @ + 1]
  BY Unfold, FreshLemma, Account1 DEF RetryTask, Control
<1>1. /\ \A q \in Requests \ {r} : pc'[q] = pc[q] /\ sess'[q] = sess[q]
      /\ \/ pc'[r] = "tokenCheck" /\ sess'[r] = NewSession("sub")
         \/ pc'[r] \in {"hasSub", "wallet"} /\ sess'[r] = NoSession
  BY <1>0, ChoiceLedger DEF RetryTask
<1>2. Local(r) /\ retry'[r] > 0
  BY <1>0, <1>1, ConstantsAssumption DEF Local, TypeOK
<1>3. CASE trouble[r]
  BY <1>0, <1>1, <1>2, <1>3 DEF Kept, Source, Books, Clean, NewSession, NoSession
<1>4. CASE ~ trouble[r]
  <2>1. /\ taken[r]["wallet"] = 0 /\ taken[r]["sub"] = 0 /\ taken[r]["token"] = 0
        /\ fee[r] = 0
    BY <1>0, <1>4, Account1 DEF Clean, Exact
  <2>2. Source(r)'
    BY <1>0, <1>1, <2>1 DEF Source, OneSource, NewSession, NoSession
  <2>3. Exact(pc'[r], rpc[r], req[r], sess'[r], record[r], taken[r], actual[r], fee[r])
    BY <1>0, <1>1, <2>1 DEF Exact, NewSession, NoSession
  <2> QED BY <1>0, <1>2, <2>2, <2>3 DEF Kept, Books
<1> QED BY <1>3, <1>4

LEMMA HasSubscriptionLedger ==
    ASSUME IInv, LInv, NEW r \in Requests, HasSubscription(r)
    PROVE  Kept(r)
<1>0. TypeOK /\ pc[r] = "hasSub" /\ sess[r] = NoSession
      /\ UNCHANGED <<rpc, req, retry, record, actual, fee, taken, trouble>>
  BY Unfold, FreshLemma DEF HasSubscription
<1>1. /\ \A q \in Requests \ {r} : pc'[q] = pc[q] /\ sess'[q] = sess[q]
      /\ \/ pc'[r] = "tokenCheck" /\ sess'[r] = NewSession("sub")
         \/ pc'[r] \in {"hasSub", "wallet", "rejected"} /\ sess'[r] = NoSession
  BY <1>0 DEF HasSubscription, TrySubscription, Goto, TypeOK
<1>2. Local(r)
  BY <1>0, <1>1 DEF Local
<1>3. Source(r)' /\ Books(r)'
  BY <1>0, <1>1, OpenLedger
<1> QED BY <1>2, <1>3 DEF Kept

LEMMA TryWalletLedger ==
    ASSUME IInv, LInv, NEW r \in Requests, TryWallet(r)
    PROVE  Kept(r)
<1>0. TypeOK /\ pc[r] = "wallet" /\ sess[r] = NoSession
      /\ UNCHANGED <<rpc, req, retry, record, actual, fee, taken, trouble>>
  BY Unfold, FreshLemma DEF TryWallet
<1>1. PICK l \in {"tokenCheck", "relay", "rejected"},
           s \in {NewSession("sub"), NewSession("wallet"), TrustedSession, NoSession} :
        /\ sess' = [sess EXCEPT ![r] = s] /\ pc' = [pc EXCEPT ![r] = l]
        /\ \/ l = "tokenCheck" /\ s = NewSession("sub")
           \/ l = "tokenCheck" /\ s = NewSession("wallet")
           \/ l = "relay" /\ s = NewSession("wallet")
           \/ l = "relay" /\ s = TrustedSession
           \/ l = "rejected" /\ s = NoSession
  BY <1>0 DEF TryWallet, TrySubscription, Reject, Goto
<1>2. Local(r) /\ pc'[r] = l /\ sess'[r] = s
  BY <1>0, <1>1 DEF Local, TypeOK
<1>3. Source(r)' /\ Books(r)'
  BY <1>0, <1>1, <1>2, OpenLedger
<1> QED BY <1>2, <1>3 DEF Kept

\* A rejected request that held nothing is done with.
LEMMA QueryFailsLedger ==
    ASSUME IInv, LInv, NEW r \in Requests, QueryFails(r)
    PROVE  Kept(r)
<1>0. TypeOK /\ pc[r] \in {"hasSub", "wallet", "tokenCheck"}
      /\ UNCHANGED <<rpc, req, retry, record, actual, fee, taken, trouble>>
  BY Unfold DEF QueryFails
<1>1. Local(r) /\ pc'[r] = "rejected" /\ sess'[r] = NoSession
  BY <1>0 DEF QueryFails, Reject, Goto, Local, TypeOK
<1>2. Source(r)'
  BY <1>0, <1>1, Account1 DEF Source, OneSource, Control
<1>3. Books(r)'
  BY <1>0, <1>1, Account1 DEF Books, Clean, Exact
<1> QED BY <1>1, <1>2, <1>3 DEF Kept

LEMMA TokenCheckLedger ==
    ASSUME IInv, LInv, NEW r \in Requests, TokenCheck(r)
    PROVE  Kept(r)
<1>0. TypeOK /\ pc[r] = "tokenCheck"
      /\ UNCHANGED <<rpc, req, retry, record, actual, fee, taken, trouble>>
  BY Unfold DEF TokenCheck
<1>1. CASE /\ req[r].playground
           /\ sess' = [sess EXCEPT ![r].tokenConsumed = Effective(r)]
           /\ Goto(r, "fundingDebit")
  <2>1. /\ Local(r) /\ pc'[r] = "fundingDebit"
        /\ sess'[r] = [sess[r] EXCEPT !.tokenConsumed = Effective(r)]
    BY <1>0, <1>1 DEF Local, TypeOK, Goto
  <2>2. Source(r)'
    BY <1>0, <2>1, Account1 DEF Source, OneSource, Control, Session
  <2>3. Books(r)'
    BY <1>0, <1>1, <2>1, Account1 DEF Books, Clean, Exact
  <2> QED BY <2>1, <2>2, <2>3 DEF Kept
<1>2. CASE Goto(r, "tokenDebit") /\ UNCHANGED sess
  <2>1. Local(r) /\ pc'[r] = "tokenDebit" /\ sess'[r] = sess[r]
    BY <1>0, <1>2 DEF Local, TypeOK, Goto
  <2>2. Source(r)'
    BY <1>0, <2>1, Account1 DEF Source, OneSource, Control
  <2>3. Books(r)'
    BY <1>0, <2>1, Account1 DEF Books, Clean, Exact
  <2> QED BY <2>1, <2>2, <2>3 DEF Kept
<1>3. CASE Reject(r)
  <2>1. Local(r) /\ pc'[r] = "rejected" /\ sess'[r] = NoSession
    BY <1>0, <1>3 DEF Reject, Goto, Local, TypeOK
  <2>2. Source(r)'
    BY <1>0, <2>1, Account1 DEF Source, OneSource, Control
  <2>3. Books(r)'
    BY <1>0, <2>1, Account1 DEF Books, Clean, Exact
  <2> QED BY <2>1, <2>2, <2>3 DEF Kept
<1> QED BY <1>1, <1>2, <1>3 DEF TokenCheck

LEMMA TokenDebitLedger ==
    ASSUME IInv, LInv, NEW r \in Requests, TokenDebit(r)
    PROVE  Kept(r)
<1>0. TypeOK /\ pc[r] = "tokenDebit" /\ UNCHANGED <<rpc, req, retry, record, actual, fee>>
      /\ Effective(r) \in Nat /\ "token" \in Account
  BY Unfold, EffectiveLemma DEF TokenDebit, Account
<1>1. PICK o \in Outcomes :
         /\ Post(r, "serve", "token", Effective(r), o)
         /\ IF o = "ok"
            THEN /\ sess' = [sess EXCEPT ![r].tokenConsumed = Effective(r)]
                 /\ Goto(r, "fundingDebit")
            ELSE Reject(r)
  BY DEF TokenDebit
<1>2. /\ taken'[r] = After(taken[r], "token", Effective(r), o)
      /\ (o = "ok" /\ trouble'[r] = trouble[r]) \/ (o # "ok" /\ trouble'[r])
      /\ \A q \in Requests \ {r} : taken'[q] = taken[q] /\ trouble'[q] = trouble[q]
  BY <1>0, <1>1, PostAt
<1>3. Local(r)
  BY <1>0, <1>1, <1>2 DEF Local, TypeOK, Goto, Reject
<1>4. CASE o = "ok"
  <2>1. pc'[r] = "fundingDebit" /\ sess'[r] = [sess[r] EXCEPT !.tokenConsumed = Effective(r)]
    BY <1>0, <1>1, <1>4 DEF TypeOK, Goto
  <2>2. Source(r)'
    BY <1>0, <1>2, <2>1, Account1 DEF Source, OneSource, Control, Session, After, Account
  <2>3. Books(r)'
    BY <1>0, <1>2, <1>4, <2>1, Account1 DEF Books, Clean, Exact, Control, Session, After, Account
  <2> QED BY <1>3, <2>2, <2>3 DEF Kept
<1>5. CASE o # "ok"
  <2>1. pc'[r] = "rejected" /\ sess'[r] = NoSession
    BY <1>0, <1>1, <1>5 DEF TypeOK, Goto, Reject
  <2>2. Source(r)'
    BY <1>0, <1>2, <2>1, Account1 DEF Source, OneSource, Control, After, Account
  <2> QED BY <1>2, <1>3, <1>5, <2>2 DEF Kept, Books, Clean
<1> QED BY <1>4, <1>5

\* funding.PreConsume
LEMMA FundingDebitLedger ==
    ASSUME IInv, LInv, NEW r \in Requests, FundingDebit(r)
    PROVE  Kept(r)
<1>0. /\ pc[r] = "fundingDebit" /\ UNCHANGED <<rpc, req, retry, actual, fee>>
      /\ Amount(r) \in Nat /\ Effective(r) = Amount(r)
      /\ Amount(r) = (IF sess[r].source = "sub" /\ req[r].quota = 0 THEN 1 ELSE req[r].quota)
      /\ TypeOK
  BY Unfold DEF FundingDebit, Amount, Effective, Profile
<1>1. CASE /\ sess' = [sess EXCEPT ![r].insufficient = TRUE]
           /\ Goto(r, "tokenRollback")
           /\ UNCHANGED record
           /\ NoPost
  <2>1. /\ Local(r) /\ pc'[r] = "tokenRollback"
        /\ sess'[r] = [sess[r] EXCEPT !.insufficient = TRUE]
    BY <1>0, <1>1 DEF TypeOK, Local, Goto
  <2>2. Source(r)'
    BY <1>0, <1>1, <2>1, Account1 DEF Source, OneSource, Session, Control
  <2>3. Books(r)'
    BY <1>0, <1>1, <2>1, Account1 DEF Books, Clean, Exact, Session
  <2> QED BY <2>1, <2>2, <2>3 DEF Kept
<1>2. ASSUME NEW o \in Outcomes, Post(r, "serve", sess[r].source, Amount(r), o),
             record' = (IF sess[r].source = "sub" /\ o # "fail"
                        THEN [record EXCEPT ![r] = "consumed"] ELSE record),
             IF o = "ok"
             THEN /\ sess' = [sess EXCEPT ![r].consumed = Amount(r),
                                          ![r].preConsumedQuota = Effective(r)]
                  /\ Goto(r, "relay")
             ELSE Goto(r, "tokenRollback") /\ UNCHANGED sess
      PROVE  Kept(r)
  <2>1. sess[r].source \in Account /\ sess[r].source \in {"wallet", "sub"}
    BY <1>0, Account1 DEF Control, Session, Account
  <2>2. /\ taken'[r] = After(taken[r], sess[r].source, Amount(r), o)
        /\ (o = "ok" /\ trouble'[r] = trouble[r]) \/ (o # "ok" /\ trouble'[r])
        /\ \A q \in Requests \ {r} : taken'[q] = taken[q] /\ trouble'[q] = trouble[q]
    BY <1>0, <1>2, <2>1, PostAt
  <2>3. Local(r)
    BY <1>0, <1>2, <2>2 DEF TypeOK, Local, Goto
  <2>4. CASE o = "ok"
    <3>0. sess' = [sess EXCEPT ![r] = [sess[r] EXCEPT !.consumed = Amount(r),
                                                      !.preConsumedQuota = Amount(r)]]
      BY <1>0, <1>2, <2>4 DEF TypeOK
    <3>1. /\ pc'[r] = "relay" /\ (sess[r].source = "sub" => record'[r] = "consumed")
          /\ sess'[r] = [sess[r] EXCEPT !.consumed = Amount(r), !.preConsumedQuota = Amount(r)]
      BY <1>0, <1>2, <2>4, <3>0 DEF TypeOK, Goto
    <3>2. Source(r)'
      BY <1>0, <2>1, <2>2, <2>4, <3>1, Account1
         DEF Source, OneSource, Session, Control, After, Account
    <3>3. Books(r)'
      BY <1>0, <2>1, <2>2, <2>4, <3>1, Account1
         DEF Books, Clean, Exact, Control, Session, After, Account, FundingDue, TokenDue
    <3> QED BY <2>3, <3>2, <3>3 DEF Kept
  <2>5. CASE o # "ok"
    <3>1. pc'[r] = "tokenRollback" /\ sess'[r] = sess[r]
      BY <1>0, <1>2, <2>5 DEF TypeOK, Goto
    <3>2. Source(r)'
      BY <1>0, <2>1, <2>2, <3>1, Account1
         DEF Source, OneSource, Session, Control, After, Account
    <3> QED BY <2>2, <2>3, <2>5, <3>2 DEF Kept, Books, Clean
  <2> QED BY <2>4, <2>5
<1> QED BY <1>1, <1>2 DEF FundingDebit, PreConsumed

\* A record is only found after a try whose write went wrong.
LEMMA FoundRecordLedger ==
    ASSUME IInv, LInv, NEW r \in Requests, FoundRecord(r)
    PROVE  Kept(r)
<1>0. /\ TypeOK /\ pc[r] = "fundingDebit" /\ record[r] = "consumed"
      /\ pc'[r] \in {"relay", "tokenRollback"}
      /\ UNCHANGED <<rpc, req, retry, record, actual, fee, taken, trouble>>
  BY Unfold DEF FoundRecord, PreConsumed, Goto, TypeOK
<1>1. Again(r) /\ trouble[r]
  BY <1>0, Account1 DEF OneSource, SubHeld
<1>2. Local(r)
  BY <1>0 DEF FoundRecord, PreConsumed, Goto, Local, TypeOK
<1>3. Source(r)' /\ Books(r)'
  BY <1>0, <1>1, Account1 DEF Source, Books, Clean, Control
<1> QED BY <1>2, <1>3 DEF Kept

\* The roll-back of the token: the wallet is only turned to when nothing was taken.
LEMMA TokenRollbackLedger ==
    ASSUME IInv, LInv, NEW r \in Requests, TokenRollback(r)
    PROVE  Kept(r)
<1>0. /\ TypeOK /\ pc[r] = "tokenRollback" /\ UNCHANGED <<rpc, req, retry, record, actual, fee>>
      /\ - sess[r].tokenConsumed \in Int /\ "token" \in Account
      /\ sess[r].tokenConsumed \in Nat
  BY Unfold DEF TokenRollback, Account, Session
<1>1. /\ sess'[r] = NoSession /\ pc'[r] \in {"wallet", "rejected"}
      /\ pc'[r] = "wallet" => sess[r].insufficient
      /\ \A q \in Requests \ {r} : pc'[q] = pc[q] /\ sess'[q] = sess[q]
  BY <1>0 DEF TokenRollback, Goto, AfterRollback, TypeOK
<1>2. CASE req[r].playground /\ NoPost
  <2>1. Local(r)
    BY <1>0, <1>1, <1>2 DEF Local
  <2>2. Source(r)'
    BY <1>0, <1>1, <1>2, Account1 DEF Source, OneSource, Control
  <2>3. Books(r)'
    BY <1>0, <1>1, <1>2, Account1 DEF Books, Clean, Exact
  <2> QED BY <2>1, <2>2, <2>3 DEF Kept
<1>3. ASSUME NEW o \in Outcomes, Post(r, "serve", "token", - sess[r].tokenConsumed, o),
             ~ req[r].playground
      PROVE  Kept(r)
  <2>1. /\ taken'[r] = After(taken[r], "token", - sess[r].tokenConsumed, o)
        /\ (o = "ok" /\ trouble'[r] = trouble[r]) \/ (o # "ok" /\ trouble'[r])
        /\ \A q \in Requests \ {r} : taken'[q] = taken[q] /\ trouble'[q] = trouble[q]
    BY <1>0, <1>3, PostAt
  <2>2. Local(r)
    BY <1>0, <1>1, <2>1 DEF Local
  <2>3. Source(r)'
    BY <1>0, <1>1, <2>1, Account1 DEF Source, OneSource, Control, After, Account
  <2>4. Books(r)'
    BY <1>0, <1>1, <1>3, <2>1, Account1 DEF Books, Clean, Exact, After, Account
  <2> QED BY <2>2, <2>3, <2>4 DEF Kept
<1> QED BY <1>2, <1>3 DEF TokenRollback

-------------------------------------------------------------------------------
(***************************************************************************)
(* The relay loop, Reserve and Settle.                                     *)
(***************************************************************************)

LEMMA AttemptSucceedsLedger ==
    ASSUME IInv, LInv, NEW r \in Requests, NEW q \in Actuals, AttemptSucceeds(r, q)
    PROVE  Kept(r)
<1>0. TypeOK /\ pc[r] = "relay"
      /\ UNCHANGED <<rpc, req, retry, sess, record, fee, taken, trouble>>
  BY Unfold DEF AttemptSucceeds
<1>1. Local(r) /\ pc'[r] = "settle"
  BY <1>0 DEF AttemptSucceeds, Local, TypeOK, Goto
<1>2. Source(r)'
  BY <1>0, <1>1, Account1 DEF Source, OneSource
<1>3. Books(r)'
  BY <1>0, <1>1, Account1 DEF Books, Clean, Exact, Control, FundingDue, TokenDue
<1> QED BY <1>1, <1>2, <1>3 DEF Kept

LEMMA AttemptFailsLedger ==
    ASSUME IInv, LInv, NEW r \in Requests, NEW m, NEW last \in BOOLEAN, NEW f \in Fees,
           AttemptFails(r, m, last, f)
    PROVE  Kept(r)
<1>0. TypeOK /\ pc[r] = "relay"
      /\ UNCHANGED <<rpc, req, retry, sess, record, actual, taken, trouble>>
  BY Unfold DEF AttemptFails
<1>1. /\ Local(r) /\ pc'[r] \in {"fail", "relay"} /\ (pc'[r] = "relay" => fee'[r] = 0)
  BY <1>0 DEF AttemptFails, Local, TypeOK, Goto
<1>2. Source(r)'
  BY <1>0, <1>1, Account1 DEF Source, OneSource
<1>3. Books(r)'
  BY <1>0, <1>1, Account1 DEF Books, Clean, Exact, Control, FundingDue, TokenDue
<1> QED BY <1>1, <1>2, <1>3 DEF Kept

LEMMA ReserveLedger ==
    ASSUME IInv, LInv, NEW r \in Requests, NEW target \in ReserveTargets,
           Reserve(r, target)
    PROVE  Kept(r)
<1>0. TypeOK /\ pc[r] = "relay"
      /\ UNCHANGED <<rpc, req, retry, record, actual, fee, taken, trouble>>
  BY Unfold DEF Reserve
<1>1. /\ Local(r) /\ pc'[r] = "reserveFunding"
      /\ sess'[r] = [sess[r] EXCEPT !.delta = target - sess[r].preConsumedQuota]
  BY <1>0 DEF Reserve, Local, TypeOK, Goto
<1>2. Source(r)'
  BY <1>0, <1>1, Account1 DEF Source, OneSource, Session
<1>3. Books(r)'
  BY <1>0, <1>1, Account1 DEF Books, Clean, Exact, Control, FundingDue, TokenDue, Session
<1> QED BY <1>1, <1>2, <1>3 DEF Kept

\* The funding leg of Reserve: delta is in flight until the token has paid too.
LEMMA ReserveFundingLedger ==
    ASSUME IInv, LInv, NEW r \in Requests, ReserveFunding(r)
    PROVE  Kept(r)
<1>0. /\ TypeOK /\ pc[r] = "reserveFunding" /\ UNCHANGED <<rpc, req, retry, record, actual, fee>>
      /\ sess[r].source \in {"wallet", "sub"} /\ sess[r].source \in Account
      /\ sess[r].delta \in Nat
  BY Unfold, Account1 DEF ReserveFunding, Account, Control, Session
<1>1. CASE Goto(r, "relay") /\ UNCHANGED sess /\ NoPost
  <2>1. Local(r) /\ pc'[r] = "relay"
    BY <1>0, <1>1 DEF Local, TypeOK, Goto
  <2>2. Source(r)'
    BY <1>0, <1>1, <2>1, Account1 DEF Source, OneSource
  <2>3. Books(r)'
    BY <1>0, <1>1, <2>1, Account1 DEF Books, Clean, Exact, Control, FundingDue, TokenDue
  <2> QED BY <2>1, <2>2, <2>3 DEF Kept
<1> DEFINE moved == FundingMoved(sess[r], sess[r].delta)
<1>2. ASSUME NEW o \in Outcomes, Post(r, "serve", sess[r].source, sess[r].delta, o),
             IF o = "ok"
             THEN IF req[r].playground
                  THEN /\ sess' = [sess EXCEPT ![r] = Reserved(moved)]
                       /\ Goto(r, "relay")
                  ELSE /\ sess' = [sess EXCEPT ![r] = moved]
                       /\ Goto(r, "reserveCheck")
             ELSE Goto(r, "relay") /\ UNCHANGED sess
      PROVE  Kept(r)
  <2>1. /\ taken'[r] = After(taken[r], sess[r].source, sess[r].delta, o)
        /\ (o = "ok" /\ trouble'[r] = trouble[r]) \/ (o # "ok" /\ trouble'[r])
        /\ \A q \in Requests \ {r} : taken'[q] = taken[q] /\ trouble'[q] = trouble[q]
    BY <1>0, <1>2, PostAt
  <2>2. Local(r)
    BY <1>0, <1>2, <2>1 DEF Local, TypeOK, Goto
  <2>3. CASE o = "ok" /\ req[r].playground
    <3>1. pc'[r] = "relay" /\ sess'[r] = Reserved(moved)
      BY <1>0, <1>2, <2>3 DEF TypeOK, Goto
    <3>2. Source(r)'
      BY <1>0, <2>1, <3>1, Account1
         DEF Source, OneSource, Session, Reserved, FundingMoved, After, Account
    <3>3. Books(r)'
      BY <1>0, <2>1, <2>3, <3>1, Account1
         DEF Books, Clean, Exact, Control, FundingDue, TokenDue, Session, Reserved,
             FundingMoved, After, Account
    <3> QED BY <2>2, <3>2, <3>3 DEF Kept
  <2>4. CASE o = "ok" /\ ~ req[r].playground
    <3>1. pc'[r] = "reserveCheck" /\ sess'[r] = moved
      BY <1>0, <1>2, <2>4 DEF TypeOK, Goto
    <3>2. Source(r)'
      BY <1>0, <2>1, <3>1, Account1
         DEF Source, OneSource, Session, FundingMoved, After, Account
    <3>3. Books(r)'
      BY <1>0, <2>1, <2>4, <3>1, Account1
         DEF Books, Clean, Exact, Control, FundingDue, TokenDue, Session, FundingMoved,
             After, Account
    <3> QED BY <2>2, <3>2, <3>3 DEF Kept
  <2>5. CASE o # "ok"
    <3>1. pc'[r] = "relay" /\ sess'[r] = sess[r]
      BY <1>0, <1>2, <2>5 DEF TypeOK, Goto
    <3>2. Source(r)'
      BY <1>0, <2>1, <3>1, Account1 DEF Source, OneSource, After, Account
    <3> QED BY <2>1, <2>2, <2>5, <3>2 DEF Kept, Books, Clean
  <2> QED BY <2>3, <2>4, <2>5
<1> QED BY <1>1, <1>2 DEF ReserveFunding

LEMMA ReserveCheckLedger ==
    ASSUME IInv, LInv, NEW r \in Requests, ReserveCheck(r)
    PROVE  Kept(r)
<1>0. TypeOK /\ pc[r] = "reserveCheck"
      /\ UNCHANGED <<rpc, req, retry, sess, record, actual, fee, taken, trouble>>
  BY Unfold DEF ReserveCheck
<1>1. Local(r) /\ pc'[r] \in {"reserveDebit", "reserveRollback"}
  BY <1>0 DEF ReserveCheck, Local, TypeOK, Goto
<1>2. Source(r)'
  BY <1>0, <1>1, Account1 DEF Source, OneSource
<1>3. Books(r)'
  BY <1>0, <1>1, Account1 DEF Books, Clean, Exact, Control, FundingDue, TokenDue
<1> QED BY <1>1, <1>2, <1>3 DEF Kept

LEMMA ReserveDebitLedger ==
    ASSUME IInv, LInv, NEW r \in Requests, ReserveDebit(r)
    PROVE  Kept(r)
<1>0. /\ TypeOK /\ pc[r] = "reserveDebit" /\ UNCHANGED <<rpc, req, retry, record, actual, fee>>
      /\ sess[r].delta \in Nat /\ "token" \in Account
      /\ sess[r].source \in {"wallet", "sub"}
  BY Unfold, Account1 DEF ReserveDebit, Account, Control, Session
<1>1. PICK o \in Outcomes :
         /\ Post(r, "serve", "token", sess[r].delta, o)
         /\ IF o = "ok"
            THEN /\ sess' = [sess EXCEPT ![r] = Reserved(sess[r])]
                 /\ Goto(r, "relay")
            ELSE Goto(r, "reserveRollback") /\ UNCHANGED sess
  BY DEF ReserveDebit
<1>2. /\ taken'[r] = After(taken[r], "token", sess[r].delta, o)
      /\ (o = "ok" /\ trouble'[r] = trouble[r]) \/ (o # "ok" /\ trouble'[r])
      /\ \A q \in Requests \ {r} : taken'[q] = taken[q] /\ trouble'[q] = trouble[q]
  BY <1>0, <1>1, PostAt
<1>3. Local(r)
  BY <1>0, <1>1, <1>2 DEF Local, TypeOK, Goto
<1>4. CASE o = "ok"
  <2>1. pc'[r] = "relay" /\ sess'[r] = Reserved(sess[r])
    BY <1>0, <1>1, <1>4 DEF TypeOK, Goto
  <2>2. Source(r)'
    BY <1>0, <1>2, <2>1, Account1 DEF Source, OneSource, Session, Reserved, After, Account
  <2>3. Books(r)'
    BY <1>0, <1>2, <1>4, <2>1, Account1
       DEF Books, Clean, Exact, Control, FundingDue, TokenDue, Session, Reserved, After,
           Account
  <2> QED BY <1>3, <2>2, <2>3 DEF Kept
<1>5. CASE o # "ok"
  <2>1. pc'[r] = "reserveRollback" /\ sess'[r] = sess[r]
    BY <1>0, <1>1, <1>5 DEF TypeOK, Goto
  <2>2. Source(r)'
    BY <1>0, <1>2, <2>1, Account1 DEF Source, OneSource, After, Account
  <2> QED BY <1>2, <1>3, <1>5, <2>2 DEF Kept, Books, Clean
<1> QED BY <1>4, <1>5

LEMMA ReserveRollbackLedger ==
    ASSUME IInv, LInv, NEW r \in Requests, ReserveRollback(r)
    PROVE  Kept(r)
<1>0. /\ TypeOK /\ pc[r] = "reserveRollback" /\ UNCHANGED <<rpc, req, retry, record, actual, fee>>
      /\ sess[r].source \in {"wallet", "sub"} /\ sess[r].source \in Account
      /\ sess[r].delta \in Nat /\ - sess[r].delta \in Int
  BY Unfold, Account1 DEF ReserveRollback, Account, Control, Session
<1>1. PICK o \in Outcomes :
         /\ Post(r, "serve", sess[r].source, - sess[r].delta, o)
         /\ sess' = [sess EXCEPT ![r] =
                       IF o = "ok" THEN FundingMoved(sess[r], - sess[r].delta)
                                   ELSE sess[r]]
  BY DEF ReserveRollback
<1>2. /\ taken'[r] = After(taken[r], sess[r].source, - sess[r].delta, o)
      /\ (o = "ok" /\ trouble'[r] = trouble[r]) \/ (o # "ok" /\ trouble'[r])
      /\ \A q \in Requests \ {r} : taken'[q] = taken[q] /\ trouble'[q] = trouble[q]
  BY <1>0, <1>1, PostAt
<1>3. Local(r) /\ pc'[r] = "relay"
      /\ sess'[r] = IF o = "ok" THEN FundingMoved(sess[r], - sess[r].delta) ELSE sess[r]
  BY <1>0, <1>1, <1>2 DEF ReserveRollback, Local, TypeOK, Goto
<1>4. CASE o = "ok"
  <2>1. Source(r)'
    BY <1>0, <1>2, <1>3, <1>4, Account1
       DEF Source, OneSource, Session, FundingMoved, After, Account
  <2>2. Books(r)'
    BY <1>0, <1>2, <1>3, <1>4, Account1
       DEF Books, Clean, Exact, Control, FundingDue, TokenDue, Session, FundingMoved,
           After, Account
  <2> QED BY <1>3, <2>1, <2>2 DEF Kept
<1>5. CASE o # "ok"
  <2>1. Source(r)'
    BY <1>0, <1>2, <1>3, <1>5, Account1 DEF Source, OneSource, After, Account
  <2> QED BY <1>2, <1>3, <1>5, <2>1 DEF Kept, Books, Clean
<1> QED BY <1>4, <1>5

\* Where a request goes when its session is done with
LEMMA LeaveAt ==
    ASSUME TypeOK, NEW r \in Requests, Leave(r)
    PROVE  /\ pc'[r] = IF fee[r] > 0 THEN "fee" ELSE "end"
           /\ fee[r] \in Nat
           /\ \A q \in Requests \ {r} : pc'[q] = pc[q]
BY DEF TypeOK, Leave, Goto

\* Settle: the payer is moved to the actual cost, then the token.
LEMMA SettleFundingLedger ==
    ASSUME IInv, LInv, NEW r \in Requests, SettleFunding(r)
    PROVE  Kept(r)
<1>0. /\ TypeOK /\ pc[r] = "settle" /\ UNCHANGED <<rpc, req, retry, record, actual, fee>>
      /\ sess[r].source \in {"wallet", "sub"} /\ sess[r].source \in Account
      /\ SettleDelta(r) \in Int /\ ~ sess[r].settled
      /\ SettleDelta(r) = actual[r] - sess[r].preConsumedQuota
      /\ sess[r].preConsumedQuota \in Nat
  BY Unfold, Account1 DEF SettleFunding, SettleDelta, Account, Control, Session
<1>1. CASE /\ SettleDelta(r) = 0
           /\ sess' = [sess EXCEPT ![r].settled = TRUE]
           /\ Leave(r)
           /\ NoPost
  <2>1. Local(r) /\ sess'[r] = [sess[r] EXCEPT !.settled = TRUE]
    BY <1>0, <1>1, LeaveAt DEF Local, TypeOK
  <2>2. Source(r)'
    BY <1>0, <1>1, <2>1, LeaveAt, Account1 DEF Source, OneSource, Session
  <2>3. Books(r)'
    <3>1. SUFFICES ASSUME Clean(r)
                   PROVE  Exact(pc'[r], rpc[r], req[r], sess'[r], record[r], taken[r],
                                actual[r], fee[r])
      BY <1>0, <1>1 DEF Books, Clean
    <3>2. /\ taken[r][sess[r].source] = actual[r]
          /\ taken[r]["token"] = IF req[r].playground THEN 0 ELSE actual[r]
          /\ ~ sess[r].refunded
      BY <1>0, <1>1, <3>1, Account1 DEF Exact, Control, FundingDue, TokenDue
    <3>3. /\ sess'[r].source = sess[r].source /\ ~ sess'[r].refunded /\ sess'[r].settled
          /\ actual[r] \in Nat
          /\ pc'[r] \in {"fee", "end"} /\ (pc'[r] = "end" => fee[r] = 0)
      BY <1>0, <1>1, <2>1, <3>2, LeaveAt, Account1 DEF Session
    <3> QED BY <1>0, <3>2, <3>3 DEF Exact, FundingDue, TokenDue
  <2> QED BY <2>1, <2>2, <2>3 DEF Kept
<1>2. CASE Leave(r) /\ UNCHANGED sess /\ NoPost
  <2>1. Local(r)
    BY <1>0, <1>2, LeaveAt DEF Local
  <2>2. Source(r)'
    BY <1>0, <1>2, LeaveAt, Account1 DEF Source, OneSource
  <2>3. Books(r)'
    BY <1>0, <1>2, LeaveAt, Account1
       DEF Books, Clean, Exact, Control, FundingDue, TokenDue
  <2> QED BY <2>1, <2>2, <2>3 DEF Kept
<1>3. ASSUME NEW o \in Outcomes, Post(r, "serve", sess[r].source, SettleDelta(r), o),
             IF o = "ok"
             THEN IF req[r].playground
                  THEN /\ sess' = [sess EXCEPT ![r].fundingSettled = TRUE,
                                               ![r].settled = TRUE]
                       /\ Leave(r)
                  ELSE /\ sess' = [sess EXCEPT ![r].fundingSettled = TRUE]
                       /\ Goto(r, "settleToken")
             ELSE Leave(r) /\ UNCHANGED sess
      PROVE  Kept(r)
  <2>1. /\ taken'[r] = After(taken[r], sess[r].source, SettleDelta(r), o)
        /\ (o = "ok" /\ trouble'[r] = trouble[r]) \/ (o # "ok" /\ trouble'[r])
        /\ \A q \in Requests \ {r} : taken'[q] = taken[q] /\ trouble'[q] = trouble[q]
    BY <1>0, <1>3, PostAt
  <2>2. CASE o = "ok" /\ req[r].playground
    <3>1. sess' = [sess EXCEPT ![r] = [sess[r] EXCEPT !.fundingSettled = TRUE,
                                                      !.settled = TRUE]]
      BY <1>0, <1>3, <2>2 DEF TypeOK
    <3>2. Local(r) /\ Leave(r)
          /\ sess'[r] = [sess[r] EXCEPT !.fundingSettled = TRUE, !.settled = TRUE]
      BY <1>0, <1>3, <2>1, <2>2, <3>1, LeaveAt DEF Local, TypeOK
    <3>3. Source(r)'
      BY <1>0, <2>1, <3>2, LeaveAt, Account1 DEF Source, OneSource, Session, After, Account
    <3>4. Books(r)'
      BY <1>0, <2>1, <2>2, <3>2, LeaveAt, Account1
         DEF Books, Clean, Exact, Control, FundingDue, TokenDue, Session, After, Account
    <3> QED BY <3>2, <3>3, <3>4 DEF Kept
  <2>3. CASE o = "ok" /\ ~ req[r].playground
    <3>1. /\ Local(r) /\ pc'[r] = "settleToken"
          /\ sess'[r] = [sess[r] EXCEPT !.fundingSettled = TRUE]
      BY <1>0, <1>3, <2>1, <2>3 DEF Local, TypeOK, Goto
    <3>2. Source(r)'
      BY <1>0, <2>1, <3>1, Account1 DEF Source, OneSource, Session, After, Account
    <3>3. Books(r)'
      BY <1>0, <2>1, <2>3, <3>1, Account1
         DEF Books, Clean, Exact, Control, FundingDue, TokenDue, Session, After, Account
    <3> QED BY <3>1, <3>2, <3>3 DEF Kept
  <2>4. CASE o # "ok"
    <3>1. Local(r) /\ Leave(r) /\ sess'[r] = sess[r]
      BY <1>0, <1>3, <2>1, <2>4, LeaveAt DEF Local
    <3>2. Source(r)'
      BY <1>0, <2>1, <3>1, LeaveAt, Account1 DEF Source, OneSource, After, Account
    <3> QED BY <2>1, <2>4, <3>1, <3>2 DEF Kept, Books, Clean
  <2> QED BY <2>2, <2>3, <2>4
<1> QED BY <1>0, <1>1, <1>2, <1>3 DEF SettleFunding

LEMMA SettleTokenLedger ==
    ASSUME IInv, LInv, NEW r \in Requests, SettleToken(r)
    PROVE  Kept(r)
<1>0. /\ TypeOK /\ pc[r] = "settleToken" /\ UNCHANGED <<rpc, req, retry, record, actual, fee>>
      /\ "token" \in Account /\ SettleDelta(r) \in Int
      /\ SettleDelta(r) = actual[r] - sess[r].preConsumedQuota
      /\ sess[r].preConsumedQuota \in Nat /\ sess[r].source \in {"wallet", "sub"}
  BY Unfold, Account1 DEF SettleToken, SettleDelta, Account, Control, Session
<1>1. PICK o \in Outcomes : Post(r, "serve", "token", SettleDelta(r), o)
  BY DEF SettleToken
<1>2. /\ taken'[r] = After(taken[r], "token", SettleDelta(r), o)
      /\ (o = "ok" /\ trouble'[r] = trouble[r]) \/ (o # "ok" /\ trouble'[r])
      /\ \A q \in Requests \ {r} : taken'[q] = taken[q] /\ trouble'[q] = trouble[q]
  BY <1>0, <1>1, PostAt
<1>3. Local(r) /\ Leave(r) /\ sess'[r] = [sess[r] EXCEPT !.settled = TRUE]
  BY <1>0, <1>2, LeaveAt DEF SettleToken, Local, TypeOK
<1>4. Source(r)'
  <2>1. /\ sess'[r].source = sess[r].source /\ pc'[r] \in {"fee", "end"}
        /\ taken'[r]["wallet"] = taken[r]["wallet"] /\ taken'[r]["sub"] = taken[r]["sub"]
    BY <1>0, <1>2, <1>3, LeaveAt, Account1 DEF Session, After, Account
  <2> QED BY <1>0, <1>2, <2>1, Account1 DEF Source, OneSource
<1>5. Books(r)'
  <2>1. SUFFICES ASSUME Clean(r), o = "ok"
                 PROVE  Exact(pc'[r], rpc[r], req[r], sess'[r], record[r], taken'[r],
                              actual[r], fee[r])
    BY <1>0, <1>2 DEF Books, Clean
  <2>2. /\ taken[r][sess[r].source] = actual[r] /\ ~ sess[r].refunded
        /\ taken[r]["token"] = IF req[r].playground THEN 0 ELSE sess[r].preConsumedQuota
        /\ ~ req[r].playground /\ actual[r] \in Nat
    BY <1>0, <2>1, Account1 DEF Exact, Control, FundingDue, TokenDue
  <2>3. /\ taken'[r][sess[r].source] = actual[r] /\ taken'[r]["token"] = actual[r]
    BY <1>0, <1>2, <2>1, <2>2, Account1 DEF After, Account
  <2>4. /\ sess'[r].source = sess[r].source /\ ~ sess'[r].refunded /\ sess'[r].settled
        /\ pc'[r] \in {"fee", "end"} /\ (pc'[r] = "end" => fee[r] = 0)
    BY <1>0, <1>3, <2>2, LeaveAt, Account1 DEF Session
  <2> QED BY <1>0, <2>2, <2>3, <2>4 DEF Exact, FundingDue, TokenDue
<1> QED BY <1>3, <1>4, <1>5 DEF Kept

-------------------------------------------------------------------------------
(***************************************************************************)
(* The error path and the refund goroutine.                                *)
(***************************************************************************)

LEMMA SettleErrorLedger ==
    ASSUME IInv, LInv, NEW r \in Requests, NEW q \in Actuals, SettleError(r, q)
    PROVE  Kept(r)
<1>0. TypeOK /\ pc[r] = "fail"
      /\ UNCHANGED <<rpc, req, retry, sess, record, fee, taken, trouble>>
  BY Unfold DEF SettleError
<1>1. Local(r) /\ pc'[r] = "settle"
  BY <1>0 DEF SettleError, Local, TypeOK, Goto
<1>2. Source(r)'
  BY <1>0, <1>1, Account1 DEF Source, OneSource
<1>3. Books(r)'
  BY <1>0, <1>1, Account1 DEF Books, Clean, Exact, Control, FundingDue, TokenDue
<1> QED BY <1>1, <1>2, <1>3 DEF Kept

\* Refund hands what the session holds to the goroutine.
LEMMA RefundLedger ==
    ASSUME IInv, LInv, NEW r \in Requests, Refund(r)
    PROVE  Kept(r)
<1>0. /\ TypeOK /\ pc[r] = "fail" /\ Leave(r)
      /\ UNCHANGED <<req, retry, record, actual, fee, taken, trouble>>
      /\ sess[r].source \in {"wallet", "sub"}
  BY Unfold, Account1 DEF Refund, Control, Session
<1>1. CASE /\ sess' = [sess EXCEPT ![r].refunded = TRUE]
           /\ rpc' = [rpc EXCEPT ![r] = "funding"]
  <2>1. /\ Local(r) /\ rpc'[r] = "funding"
        /\ sess'[r] = [sess[r] EXCEPT !.refunded = TRUE]
    BY <1>0, <1>1, LeaveAt DEF Local, TypeOK
  <2>2. Source(r)'
    BY <1>0, <2>1, LeaveAt, Account1 DEF Source, OneSource, Session
  <2>3. Books(r)'
    <3>1. SUFFICES ASSUME Clean(r)
                   PROVE  Exact(pc'[r], "funding", req[r], sess'[r], record[r], taken[r],
                                actual[r], fee[r])
      BY <1>0, <2>1, Account1 DEF Books, Clean, Control
    <3>2. /\ taken[r][sess[r].source] = sess[r].preConsumedQuota
          /\ taken[r]["token"] = IF req[r].playground THEN 0 ELSE sess[r].tokenConsumed
          /\ IF sess[r].source = "wallet" THEN sess[r].consumed = sess[r].preConsumedQuota
             ELSE /\ record[r] = "consumed"
                  /\ sess[r].preConsumedQuota = sess[r].consumed + sess[r].extraReserved
          /\ ~ sess[r].fundingSettled
      BY <1>0, <3>1, Account1 DEF Exact, Control, FundingDue, TokenDue, SubHeld, Session
    <3> QED BY <1>0, <2>1, <3>2, LeaveAt, Account1
            DEF Exact, FundingDue, TokenDue, Session
  <2> QED BY <2>1, <2>2, <2>3 DEF Kept
<1>2. CASE UNCHANGED <<sess, rpc>>
  <2>1. Local(r)
    BY <1>0, <1>2, LeaveAt DEF Local
  <2>2. Source(r)'
    BY <1>0, <1>2, LeaveAt, Account1 DEF Source, OneSource
  <2>3. Books(r)'
    BY <1>0, <1>2, LeaveAt, Account1
       DEF Books, Clean, Exact, Control, FundingDue, TokenDue
  <2> QED BY <2>1, <2>2, <2>3 DEF Kept
<1> QED BY <1>1, <1>2 DEF Refund

LEMMA FeeFundingLedger ==
    ASSUME IInv, LInv, NEW r \in Requests, FeeFunding(r)
    PROVE  Kept(r)
<1>0. /\ TypeOK /\ pc[r] = "fee" /\ UNCHANGED <<rpc, req, retry, sess, record, actual>>
      /\ sess[r].source \in {"wallet", "sub"} /\ sess[r].source \in Account
      /\ BillingSource(r) = sess[r].source /\ fee[r] \in Nat
  BY Unfold, Account1 DEF FeeFunding, BillingSource, Account, Control, Session
<1>1. CASE fee' = [fee EXCEPT ![r] = 0] /\ Goto(r, "end") /\ NoPost
  <2>1. Local(r) /\ pc'[r] = "end" /\ fee'[r] = 0
    BY <1>0, <1>1 DEF Local, TypeOK, Goto
  <2>2. Source(r)'
    BY <1>0, <1>1, <2>1, Account1 DEF Source, OneSource
  <2>3. Books(r)'
    BY <1>0, <1>1, <2>1, Account1
       DEF Books, Clean, Exact, Control, FundingDue, TokenDue, Session
  <2> QED BY <2>1, <2>2, <2>3 DEF Kept
<1>2. ASSUME NEW o \in Outcomes, Post(r, "serve", BillingSource(r), fee[r], o), UNCHANGED fee,
             Goto(r, IF o = "ok" /\ ~ req[r].playground THEN "feeToken" ELSE "end")
      PROVE  Kept(r)
  <2>1. /\ taken'[r] = After(taken[r], sess[r].source, fee[r], o)
        /\ (o = "ok" /\ trouble'[r] = trouble[r]) \/ (o # "ok" /\ trouble'[r])
        /\ \A q \in Requests \ {r} : taken'[q] = taken[q] /\ trouble'[q] = trouble[q]
    BY <1>0, <1>2, PostAt
  <2>2. /\ Local(r)
        /\ pc'[r] = IF o = "ok" /\ ~ req[r].playground THEN "feeToken" ELSE "end"
    BY <1>0, <1>2, <2>1 DEF Local, TypeOK, Goto
  <2>3. Source(r)'
    BY <1>0, <2>1, <2>2, Account1 DEF Source, OneSource, Session, After, Account
  <2>4. Books(r)'
    <3>1. SUFFICES ASSUME Clean(r), o = "ok"
                   PROVE  Exact(pc'[r], rpc[r], req[r], sess[r], record[r], taken'[r],
                                actual[r], fee[r])
      BY <1>0, <1>2, <2>1 DEF Books, Clean
    <3> DEFINE due == FundingDue("fee", rpc[r], sess[r], record[r], actual[r])
               tok == TokenDue(rpc[r], sess[r], actual[r])
    <3>2. /\ taken[r][sess[r].source] = due
          /\ taken[r]["token"] = IF req[r].playground THEN 0 ELSE tok
          /\ sess[r].refunded => rpc[r] # "none"
          /\ sess[r].fundingSettled => sess[r].settled
          /\ due \in Int /\ tok \in Int
      BY <1>0, <3>1, Account1 DEF Exact, Session, FundingDue, TokenDue
    <3>3. FundingDue(pc'[r], rpc[r], sess[r], record[r], actual[r]) = due
      BY <1>0, <2>2 DEF FundingDue
    <3>4. /\ taken'[r][sess[r].source] = due + fee[r]
          /\ taken'[r]["token"] = taken[r]["token"]
      BY <1>0, <2>1, <3>1, <3>2, Account1 DEF After, Account
    <3> HIDE DEF due, tok
    <3> QED BY <1>0, <2>2, <3>1, <3>2, <3>3, <3>4 DEF Exact, tok
  <2> QED BY <2>2, <2>3, <2>4 DEF Kept
<1> QED BY <1>1, <1>2 DEF FeeFunding

LEMMA FeeTokenLedger ==
    ASSUME IInv, LInv, NEW r \in Requests, FeeToken(r)
    PROVE  Kept(r)
<1>0. /\ TypeOK /\ pc[r] = "feeToken" /\ UNCHANGED <<rpc, req, retry, sess, record, actual, fee>>
      /\ "token" \in Account /\ fee[r] \in Nat /\ sess[r].source \in {"wallet", "sub"}
      /\ ~ req[r].playground
  BY Unfold, Account1 DEF FeeToken, Account, Control, Session
<1>1. PICK o \in Outcomes : Post(r, "serve", "token", fee[r], o)
  BY DEF FeeToken
<1>2. /\ taken'[r] = After(taken[r], "token", fee[r], o)
      /\ (o = "ok" /\ trouble'[r] = trouble[r]) \/ (o # "ok" /\ trouble'[r])
      /\ \A q \in Requests \ {r} : taken'[q] = taken[q] /\ trouble'[q] = trouble[q]
  BY <1>0, <1>1, PostAt
<1>3. Local(r) /\ pc'[r] = "end"
  BY <1>0, <1>2 DEF FeeToken, Local, TypeOK, Goto
<1>4. Source(r)'
  BY <1>0, <1>2, <1>3, Account1 DEF Source, OneSource, Session, After, Account
<1>5. Books(r)'
  <2>1. SUFFICES ASSUME Clean(r), o = "ok"
                 PROVE  Exact("end", rpc[r], req[r], sess[r], record[r], taken'[r],
                              actual[r], fee[r])
    BY <1>0, <1>2, <1>3 DEF Books, Clean
  <2> DEFINE due == FundingDue("end", rpc[r], sess[r], record[r], actual[r])
             tok == TokenDue(rpc[r], sess[r], actual[r])
  <2>2. due = FundingDue("feeToken", rpc[r], sess[r], record[r], actual[r])
    BY DEF FundingDue
  <2>3. /\ taken[r][sess[r].source] = due + fee[r]
        /\ taken[r]["token"] = tok /\ tok \in Int
        /\ sess[r].refunded => rpc[r] # "none"
        /\ sess[r].fundingSettled => sess[r].settled
    BY <1>0, <2>1, <2>2, Account1 DEF Exact, Session, TokenDue
  <2>4. /\ taken'[r][sess[r].source] = due + fee[r]
        /\ taken'[r]["token"] = tok + fee[r]
    BY <1>0, <1>2, <2>1, <2>3, Account1 DEF After, Account
  <2> QED BY <1>0, <2>3, <2>4 DEF Exact
<1> QED BY <1>3, <1>4, <1>5 DEF Kept

\* WalletFunding.Refund
LEMMA RefundWalletLedger ==
    ASSUME IInv, LInv, NEW r \in Requests, RefundWallet(r)
    PROVE  Kept(r)
<1>0. /\ TypeOK /\ rpc[r] = "funding" /\ sess[r].source = "wallet"
      /\ UNCHANGED <<pc, req, retry, sess, record, actual, fee>>
      /\ "wallet" \in Account /\ - sess[r].consumed \in Int /\ sess[r].consumed \in Nat
      /\ sess[r].refunded /\ pc[r] \in Closing
  BY Unfold, Account1 DEF RefundWallet, Account, Control, Session, OneSource
<1>1. PICK o \in Outcomes : Post(r, "refund", "wallet", - sess[r].consumed, o)
  BY DEF RefundWallet
<1>2. /\ taken'[r] = After(taken[r], "wallet", - sess[r].consumed, o)
      /\ (o = "ok" /\ trouble'[r] = trouble[r]) \/ (o # "ok" /\ trouble'[r])
      /\ \A q \in Requests \ {r} : taken'[q] = taken[q] /\ trouble'[q] = trouble[q]
  BY <1>0, <1>1, PostAt
<1>3. Local(r) /\ rpc'[r] = "token"
  BY <1>0, <1>2 DEF RefundWallet, Local, TypeOK
<1>4. Source(r)'
  BY <1>0, <1>2, <1>3, Account1 DEF Source, OneSource, After, Account
<1>5. Books(r)'
  <2>1. SUFFICES ASSUME Clean(r), o = "ok"
                 PROVE  Exact(pc[r], "token", req[r], sess[r], record[r], taken'[r],
                              actual[r], fee[r])
    BY <1>0, <1>2, <1>3 DEF Books, Clean
  <2>2. /\ taken[r]["wallet"] = sess[r].consumed + FeePaid(pc[r], fee[r])
        /\ taken[r]["token"] = IF req[r].playground THEN 0
                               ELSE sess[r].tokenConsumed + TokenFeePaid(pc[r], fee[r])
        /\ sess[r].fundingSettled => sess[r].settled
    BY <1>0, <2>1, Account1 DEF Exact, FundingDue, TokenDue
  <2>3. /\ taken'[r]["wallet"] = FeePaid(pc[r], fee[r])
        /\ taken'[r]["token"] = taken[r]["token"] /\ FeePaid(pc[r], fee[r]) \in Int
    BY <1>0, <1>2, <2>1, <2>2, Account1 DEF After, Account
  <2>4. /\ FundingDue(pc[r], "token", sess[r], record[r], actual[r]) = 0
        /\ TokenDue("token", sess[r], actual[r]) = sess[r].tokenConsumed
    BY <1>0 DEF FundingDue, TokenDue
  <2> QED BY <1>0, <2>2, <2>3, <2>4 DEF Exact
<1> QED BY <1>3, <1>4, <1>5 DEF Kept

\* RefundSubscriptionPreConsume and its retries: the record tells a try whose
\* acknowledgement was lost from one that was not applied.
LEMMA RefundSubscriptionLedger ==
    ASSUME IInv, LInv, NEW r \in Requests, RefundSubscription(r)
    PROVE  Kept(r)
<1>0. /\ TypeOK /\ rpc[r] = "funding" /\ sess[r].source = "sub"
      /\ UNCHANGED <<pc, req, retry, sess, actual, fee>>
      /\ RefundDue(r) = (IF record[r] = "consumed" THEN sess[r].consumed ELSE 0)
      /\ RefundDue(r) \in Nat /\ - RefundDue(r) \in Int
      /\ AfterFunding(r) = IF sess[r].extraReserved > 0 THEN "extra" ELSE "token"
      /\ sess[r].refunded /\ pc[r] \in Closing
      /\ sess[r].extraReserved \in Nat /\ sess[r].consumed \in Nat
  BY Unfold, Account1 DEF RefundSubscription, RefundDue, AfterFunding, Session, Control,
     OneSource
<1>1. PICK o \in Outcomes :
        /\ Apply(r, "refund", "sub", - RefundDue(r), o)
        /\ Report(r, IF GivesUp(r) THEN o ELSE "ok")
        /\ record' = IF o = "fail" THEN record
                                  ELSE [record EXCEPT ![r] = "refunded"]
        /\ IF o = "ok" \/ GivesUp(r)
           THEN rpc' = [rpc EXCEPT ![r] = AfterFunding(r)] /\ UNCHANGED attempt
           ELSE attempt' = [attempt EXCEPT ![r] = NextAttempt(attempt[r])]
                /\ UNCHANGED rpc
  BY DEF RefundSubscription
<1>2. /\ taken'[r] = After(taken[r], "sub", - RefundDue(r), o)
      /\ \A q \in Requests \ {r} : taken'[q] = taken[q]
  BY <1>0, <1>1 DEF Apply, After, TypeOK, Account
<1>3. /\ IF GivesUp(r) /\ o # "ok" THEN trouble'[r] ELSE trouble'[r] = trouble[r]
      /\ \A q \in Requests \ {r} : trouble'[q] = trouble[q]
  BY <1>0, <1>1 DEF Report, TypeOK
<1>4. /\ Local(r) /\ record'[r] = (IF o = "fail" THEN record[r] ELSE "refunded")
      /\ rpc'[r] = IF o = "ok" \/ GivesUp(r) THEN AfterFunding(r) ELSE "funding"
  BY <1>0, <1>1, <1>2, <1>3 DEF Local, TypeOK
<1>5. Source(r)'
  BY <1>0, <1>2, <1>3, <1>4, Account1 DEF Source, OneSource, After, Account
<1>6. Books(r)'
  <2>1. SUFFICES ASSUME Clean(r), o = "ok" \/ ~ GivesUp(r)
                 PROVE  Exact(pc[r], rpc'[r], req[r], sess[r], record'[r], taken'[r],
                              actual[r], fee[r])
    BY <1>0, <1>3 DEF Books, Clean
  <2>2. /\ taken[r]["sub"] = sess[r].extraReserved + RefundDue(r) + FeePaid(pc[r], fee[r])
        /\ taken[r]["token"] = IF req[r].playground THEN 0
                               ELSE sess[r].tokenConsumed + TokenFeePaid(pc[r], fee[r])
        /\ sess[r].fundingSettled => sess[r].settled
    BY <1>0, <2>1, Account1 DEF Exact, FundingDue, TokenDue
  <2>3. FeePaid(pc[r], fee[r]) \in Int
    BY Account1
  <2>4. CASE o = "fail"
    <3>1. taken'[r] = taken[r] /\ rpc'[r] = "funding" /\ record'[r] = record[r]
      BY <1>2, <1>4, <2>1, <2>4 DEF After
    <3> QED BY <1>0, <2>1, <3>1, Account1
  <2>5. CASE o # "fail"
    <3>1. /\ taken'[r]["sub"] = sess[r].extraReserved + FeePaid(pc[r], fee[r])
          /\ taken'[r]["token"] = taken[r]["token"]
          /\ record'[r] = "refunded" /\ rpc'[r] \in {"funding", "extra", "token"}
          /\ rpc'[r] = "token" => sess[r].extraReserved = 0
      BY <1>0, <1>2, <1>4, <2>1, <2>2, <2>3, <2>5, Account1 DEF After, Account
    <3>2. /\ FundingDue(pc[r], rpc'[r], sess[r], "refunded", actual[r])
                = sess[r].extraReserved
          /\ TokenDue(rpc'[r], sess[r], actual[r]) = sess[r].tokenConsumed
      BY <1>0, <3>1 DEF FundingDue, TokenDue
    <3> QED BY <1>0, <2>2, <3>1, <3>2 DEF Exact
  <2> QED BY <2>4, <2>5
<1> QED BY <1>4, <1>5, <1>6 DEF Kept

LEMMA RefundExtraLedger ==
    ASSUME IInv, LInv, NEW r \in Requests, RefundExtra(r)
    PROVE  Kept(r)
<1>0. /\ TypeOK /\ rpc[r] = "extra" /\ sess[r].source = "sub"
      /\ UNCHANGED <<pc, req, retry, sess, record, actual, fee>>
      /\ "sub" \in Account /\ - sess[r].extraReserved \in Int
      /\ sess[r].extraReserved \in Nat
      /\ sess[r].refunded /\ pc[r] \in Closing
  BY Unfold, Account1 DEF RefundExtra, Account, Control, Session, OneSource
<1>1. PICK o \in Outcomes : Post(r, "refund", "sub", - sess[r].extraReserved, o)
  BY DEF RefundExtra
<1>2. /\ taken'[r] = After(taken[r], "sub", - sess[r].extraReserved, o)
      /\ (o = "ok" /\ trouble'[r] = trouble[r]) \/ (o # "ok" /\ trouble'[r])
      /\ \A q \in Requests \ {r} : taken'[q] = taken[q] /\ trouble'[q] = trouble[q]
  BY <1>0, <1>1, PostAt
<1>3. Local(r) /\ rpc'[r] = "token"
  BY <1>0, <1>2 DEF RefundExtra, Local, TypeOK
<1>4. Source(r)'
  BY <1>0, <1>2, <1>3, Account1 DEF Source, OneSource, After, Account
<1>5. Books(r)'
  <2>1. SUFFICES ASSUME Clean(r), o = "ok"
                 PROVE  Exact(pc[r], "token", req[r], sess[r], record[r], taken'[r],
                              actual[r], fee[r])
    BY <1>0, <1>2, <1>3 DEF Books, Clean
  <2>2. /\ taken[r]["sub"] = sess[r].extraReserved + FeePaid(pc[r], fee[r])
        /\ taken[r]["token"] = IF req[r].playground THEN 0
                               ELSE sess[r].tokenConsumed + TokenFeePaid(pc[r], fee[r])
        /\ sess[r].fundingSettled => sess[r].settled
    BY <1>0, <2>1, Account1 DEF Exact, FundingDue, TokenDue
  <2>3. /\ taken'[r]["sub"] = FeePaid(pc[r], fee[r])
        /\ taken'[r]["token"] = taken[r]["token"] /\ FeePaid(pc[r], fee[r]) \in Int
    BY <1>0, <1>2, <2>1, <2>2, Account1 DEF After, Account
  <2>4. /\ FundingDue(pc[r], "token", sess[r], record[r], actual[r]) = 0
        /\ TokenDue("token", sess[r], actual[r]) = sess[r].tokenConsumed
    BY <1>0 DEF FundingDue, TokenDue
  <2> QED BY <1>0, <2>2, <2>3, <2>4 DEF Exact
<1> QED BY <1>3, <1>4, <1>5 DEF Kept

LEMMA RefundTokenLedger ==
    ASSUME IInv, LInv, NEW r \in Requests, RefundToken(r)
    PROVE  Kept(r)
<1>0. /\ TypeOK /\ rpc[r] = "token" /\ UNCHANGED <<pc, req, retry, sess, record, actual, fee>>
      /\ "token" \in Account /\ - sess[r].tokenConsumed \in Int
      /\ sess[r].tokenConsumed \in Nat /\ sess[r].source \in {"wallet", "sub"}
      /\ sess[r].refunded /\ pc[r] \in Closing
      /\ rpc' = [rpc EXCEPT ![r] = "done"]
  BY Unfold, Account1 DEF RefundToken, Account, Control, Session, OneSource
<1>a. /\ FundingDue(pc[r], "done", sess[r], record[r], actual[r]) = 0
      /\ TokenDue("done", sess[r], actual[r]) = 0
  BY <1>0 DEF FundingDue, TokenDue
<1>b. ASSUME Clean(r)
      PROVE  /\ taken[r][sess[r].source] = FeePaid(pc[r], fee[r])
             /\ taken[r]["token"] = IF req[r].playground THEN 0
                                    ELSE sess[r].tokenConsumed + TokenFeePaid(pc[r], fee[r])
             /\ sess[r].fundingSettled => sess[r].settled
             /\ FeePaid(pc[r], fee[r]) \in Int /\ TokenFeePaid(pc[r], fee[r]) \in Int
  BY <1>0, <1>b, Account1 DEF Exact, FundingDue, TokenDue
<1>1. CASE (req[r].playground \/ sess[r].tokenConsumed = 0) /\ NoPost
  <2>1. Local(r) /\ rpc'[r] = "done"
    BY <1>0, <1>1 DEF Local, TypeOK
  <2>2. Source(r)'
    BY <1>0, <1>1, <2>1, Account1 DEF Source, OneSource
  <2>3. Books(r)'
    <3>1. SUFFICES ASSUME Clean(r)
                   PROVE  Exact(pc[r], "done", req[r], sess[r], record[r], taken[r],
                                actual[r], fee[r])
      BY <1>0, <1>1, <2>1 DEF Books, Clean
    <3> QED BY <1>0, <1>a, <1>b, <1>1, <3>1, SMTT(60) DEF Exact
  <2> QED BY <2>1, <2>2, <2>3 DEF Kept
<1>2. ASSUME NEW o \in Outcomes, ~ req[r].playground,
             Post(r, "refund", "token", - sess[r].tokenConsumed, o)
      PROVE  Kept(r)
  <2>1. /\ taken'[r] = After(taken[r], "token", - sess[r].tokenConsumed, o)
        /\ (o = "ok" /\ trouble'[r] = trouble[r]) \/ (o # "ok" /\ trouble'[r])
        /\ \A q \in Requests \ {r} : taken'[q] = taken[q] /\ trouble'[q] = trouble[q]
    BY <1>0, <1>2, PostAt
  <2>2. Local(r) /\ rpc'[r] = "done"
    BY <1>0, <2>1 DEF Local, TypeOK
  <2>3. Source(r)'
    BY <1>0, <2>1, <2>2, Account1 DEF Source, OneSource, After, Account
  <2>4. Books(r)'
    <3>1. SUFFICES ASSUME Clean(r), o = "ok"
                   PROVE  Exact(pc[r], "done", req[r], sess[r], record[r], taken'[r],
                                actual[r], fee[r])
      BY <1>0, <2>1, <2>2 DEF Books, Clean
    <3>2. /\ taken'[r][sess[r].source] = taken[r][sess[r].source]
          /\ taken'[r]["token"] = TokenFeePaid(pc[r], fee[r])
      BY <1>0, <1>b, <1>2, <2>1, <3>1, Account1 DEF After, Account
    <3> QED BY <1>0, <1>a, <1>b, <1>2, <3>1, <3>2 DEF Exact
  <2> QED BY <2>2, <2>3, <2>4 DEF Kept
<1> QED BY <1>1, <1>2 DEF RefundToken

-------------------------------------------------------------------------------
(***************************************************************************)
(* The theorems.                                                           *)
(***************************************************************************)

\* A crash ends requests and refunds wherever they stand: what was taken stays
\* taken, from the one payer it was taken from.
LEMMA CrashLedger ==
    ASSUME IInv, LInv, Crash
    PROVE  LInv'
<1>1. ASSUME NEW r \in Requests
      PROVE  Source(r)' /\ Books(r)'
  <2>1. /\ \/ pc'[r] = pc[r] /\ pc[r] \in {"idle", "end", "rejected"}
           \/ pc'[r] = "crashed"
        /\ \/ rpc'[r] = rpc[r] /\ rpc[r] \in {"none", "done"}
           \/ rpc'[r] = "crashed"
        /\ UNCHANGED <<req, retry, sess, record, taken, actual, fee, trouble>>
    BY DEF Crash
  <2>2. Source(r)'
    BY <2>1, Account1 DEF Source, OneSource
  <2>3. Books(r)'
    BY <2>1, Account1 DEF Books, Clean, Exact, FundingDue, TokenDue
  <2> QED BY <2>2, <2>3
<1> QED BY <1>1 DEF LInv

\* A new request has been charged nothing.
LEMMA InitLedger ==
    Init => LInv
<1> SUFFICES ASSUME Init, NEW r \in Requests
             PROVE  Source(r) /\ Books(r)
  BY DEF LInv
<1>1. /\ pc[r] = "idle" /\ rpc[r] = "none" /\ fee[r] = 0
      /\ taken[r]["wallet"] = 0 /\ taken[r]["sub"] = 0 /\ taken[r]["token"] = 0
  BY DEF Init, Account
<1> QED BY <1>1 DEF Source, OneSource, Books, Exact

\* Every step of the billing core keeps the books.
LEMMA NextLedger ==
    ASSUME IInv, LInv, [Next]_vars
    PROVE  LInv'
<1>1. CASE UNCHANGED vars
  BY <1>1 DEF vars, LInv, Source, Books, Clean
<1>2. ASSUME NEW r \in Requests, PreConsume(r)
      PROVE  Kept(r)
  BY <1>2, HasSubscriptionLedger, TryWalletLedger, QueryFailsLedger, TokenCheckLedger,
     TokenDebitLedger, FundingDebitLedger, FoundRecordLedger, TokenRollbackLedger
     DEF PreConsume
<1>3. ASSUME NEW r \in Requests, Relay(r)
      PROVE  Kept(r)
  BY <1>3, AttemptSucceedsLedger, AttemptFailsLedger, ReserveLedger DEF Relay
<1>4. ASSUME NEW r \in Requests, ReserveSteps(r)
      PROVE  Kept(r)
  BY <1>4, ReserveFundingLedger, ReserveCheckLedger, ReserveDebitLedger,
     ReserveRollbackLedger DEF ReserveSteps
<1>5. ASSUME NEW r \in Requests, Finish(r)
      PROVE  Kept(r)
  BY <1>5, SettleFundingLedger, SettleTokenLedger, SettleErrorLedger, RefundLedger,
     FeeFundingLedger, FeeTokenLedger DEF Finish
<1>6. ASSUME NEW r \in Requests, RefundGoroutine(r)
      PROVE  Kept(r)
  BY <1>6, RefundWalletLedger, RefundSubscriptionLedger, RefundExtraLedger,
     RefundTokenLedger DEF RefundGoroutine
<1>7. CASE Expire
  BY <1>7 DEF Expire, LInv, Source, Books, Clean
<1>8. ASSUME NEW r \in Requests, NEW g \in Goroutine, ReadRow(r, g)
      PROVE  LInv'
  BY <1>8 DEF ReadRow, LInv, Source, Books, Clean
<1> QED BY <1>1, <1>2, <1>3, <1>4, <1>5, <1>6, <1>7, <1>8, BeginLedger, RetryTaskLedger,
           CrashLedger, OneLedger DEF Next

\* The books of every request are kept in every reachable state: those of a request
\* without trouble to the unit, and as long as RelayTask has not started over after a
\* write went wrong, with one payer.
THEOREM LedgerInvariance ==
    ASSUME ReserveSafe
    PROVE  Spec => [](IInv /\ LInv)
<1>1. Init => IInv /\ LInv
  BY InitIInv, InitLedger
<1>2. IInv /\ LInv /\ [Next]_vars => (IInv /\ LInv)'
  BY NextIInv, NextLedger
<1> QED BY <1>1, <1>2, PTL DEF Spec

\* Quota of the wallet and of the subscription is taken for one request only when
\* RelayTask started over after a write of the request went wrong: within one call
\* of NewBillingSession the fall-backs keep to one payer, whatever writes fail, get
\* lost or are cut off by a crash, and so do the retries of a request without trouble.
THEOREM OnePayerAlways ==
    ASSUME ReserveSafe
    PROVE  Spec => []OnePayer
<1>1. IInv /\ LInv => OnePayer
  BY DEF LInv, Source, OneSource, OnePayer
<1> QED BY <1>1, LedgerInvariance, PTL

\* What the books say of a request that is finished: the payer has lost what is
\* owed, the other payer nothing, the token as much as the payer.
LEMMA FinishedBooks ==
    ASSUME IInv, LInv, NEW r \in Requests, Finished(r), ~ trouble[r]
    PROVE  /\ Paid(r) = Owed(r)
           /\ taken[r]["token"] = IF req[r].playground THEN 0 ELSE Paid(r)
<1>0. /\ rpc[r] \in {"none", "done"} /\ pc[r] \in {"end", "rejected"}
      /\ Exact(pc[r], rpc[r], req[r], sess[r], record[r], taken[r], actual[r], fee[r])
  BY Account1 DEF Finished, Clean
<1>1. CASE pc[r] = "rejected"
  <2>1. sess[r] = NoSession
    BY <1>1, Account1 DEF Control
  <2>2. /\ taken[r]["wallet"] = 0 /\ taken[r]["sub"] = 0 /\ taken[r]["token"] = 0
        /\ fee[r] = 0
    BY <1>0, <1>1 DEF Exact
  <2> QED BY <2>1, <2>2 DEF Paid, Owed, NoSession, NewSession
<1>2. CASE pc[r] = "end"
  <2>0. /\ sess[r].source \in {"wallet", "sub"} /\ sess[r].preConsumedQuota \in Nat
        /\ actual[r] \in Nat /\ fee[r] \in Nat
    BY <1>2, Account1 DEF Control, Session
  <2>1. taken[r]["wallet"] + taken[r]["sub"] = taken[r][sess[r].source]
    BY <1>2, <2>0, Account1 DEF OneSource
  <2>2. /\ taken[r][sess[r].source]
             = FundingDue("end", rpc[r], sess[r], record[r], actual[r]) + fee[r]
        /\ taken[r]["token"] = IF req[r].playground THEN 0
                               ELSE TokenDue(rpc[r], sess[r], actual[r]) + fee[r]
        /\ sess[r].refunded => rpc[r] = "done" /\ ~ sess[r].settled
        /\ sess[r].fundingSettled => sess[r].settled
    BY <1>0, <1>2, Account1 DEF Exact, Control
  <2>3. /\ FundingDue("end", rpc[r], sess[r], record[r], actual[r])
             = TokenDue(rpc[r], sess[r], actual[r])
        /\ FundingDue("end", rpc[r], sess[r], record[r], actual[r])
             = CASE sess[r].settled  -> actual[r]
                 [] sess[r].refunded -> 0
                 [] OTHER            -> sess[r].preConsumedQuota
    BY <1>0, <2>0, <2>2 DEF FundingDue, TokenDue
  <2>4. FundingDue("end", rpc[r], sess[r], record[r], actual[r]) \in Nat
    BY <2>0, <2>3
  <2> QED BY <2>0, <2>1, <2>2, <2>3, <2>4 DEF Paid, Owed
<1> QED BY <1>0, <1>1, <1>2

\* A finished request none of whose writes failed has cost its payer exactly
\* what it owes: the actual quota, nothing, or what was pre-consumed when the
\* subscription refused the settlement, and the violation fee.  For any number
\* of requests, any amounts and any interleaving with the refund goroutines.
THEOREM ExactCharge ==
    ASSUME ReserveSafe
    PROVE  Spec => []ChargedExactly
<1>1. IInv /\ LInv => ChargedExactly
  BY FinishedBooks DEF ChargedExactly
<1> QED BY <1>1, LedgerInvariance, PTL

\* The token of such a request has been charged what the payer was charged, and
\* nothing in the playground.
THEOREM TokenMatchesPayer ==
    ASSUME ReserveSafe
    PROVE  Spec => []TokenFollowsPayer
<1>1. IInv /\ LInv => TokenFollowsPayer
  BY FinishedBooks DEF TokenFollowsPayer
<1> QED BY <1>1, LedgerInvariance, PTL

-------------------------------------------------------------------------------
(***************************************************************************)
(* The books of the subscription: where the database serialises its        *)
(* transactions, what it has left is its total less what all requests have *)
(* taken, and the clamp of amount_used at 0 is never met.                  *)
(***************************************************************************)
WithinTotal == balance["sub"] \in 0 .. SubTotal

\* What the open transactions have read of the row
RowsWithin ==
    \A r \in Requests, g \in Goroutine : rowRead[r][g] \in {NoRow} \cup 0 .. SubTotal

\* No transaction is open between two steps.
NoRowOpen == \A r \in Requests, g \in Goroutine : rowRead[r][g] = NoRow

\* A step of r writes to no account or makes one write, which the subscription does
\* not refuse.
Posts(r) ==
    \/ UNCHANGED <<balance, taken>>
    \/ \E g \in Goroutine, a \in Account, n \in Int, o \in Outcome :
          Apply(r, g, a, n, o) /\ (n <= 0 \/ (g = "serve" /\ ~ Refuses(r, a, n)))

\* Steps that debit: each asks the subscription first.
LEMMA DebitsPost ==
    ASSUME IInv, NEW r \in Requests,
           \/ TokenDebit(r) \/ FundingDebit(r) \/ ReserveFunding(r) \/ ReserveDebit(r)
           \/ SettleFunding(r) \/ SettleToken(r) \/ FeeFunding(r) \/ FeeToken(r)
    PROVE  Posts(r)
<1>0. /\ TypeOK /\ sess[r] \in Session /\ fee[r] \in Nat /\ actual[r] \in Nat
      /\ "token" \in Account /\ Amount(r) \in Nat /\ Effective(r) \in Nat
      /\ sess[r].delta \in Nat /\ SettleDelta(r) \in Int
      /\ Control(pc[r], rpc[r], req[r], sess[r]) /\ Outcomes \subseteq Outcome
      /\ "serve" \in Goroutine
  BY Unfold, EffectiveLemma, ConstantsAssumption
     DEF Account, Session, SettleDelta, RequestInv, Goroutine
<1>1. CASE NoPost
  BY <1>1 DEF Posts
<1>2. ASSUME NEW n \in Int, NEW o \in Outcomes, Post(r, "serve", "token", n, o)
      PROVE  Posts(r)
  <2>1. ~ Refuses(r, "token", n)
    BY DEF Refuses
  <2> QED BY <1>0, <1>2, <2>1 DEF Post, Posts
<1>3. CASE TokenDebit(r) \/ ReserveDebit(r) \/ SettleToken(r) \/ FeeToken(r)
  BY <1>0, <1>2, <1>3 DEF TokenDebit, ReserveDebit, SettleToken, FeeToken
<1>4. ASSUME pc[r] \in {"fundingDebit", "reserveFunding", "settle", "fee"},
             NEW n \in Int, NEW o \in Outcomes, Post(r, "serve", sess[r].source, n, o),
             ~ Refuses(r, sess[r].source, n)
      PROVE  Posts(r)
  <2>1. sess[r].source \in Account
    BY <1>0, <1>4 DEF Control, Session, Account
  <2> QED BY <1>0, <1>4, <2>1 DEF Post, Posts
<1>5. CASE FundingDebit(r)
  <2>1. ASSUME sess[r].source = "sub" => ~ SubscriptionRefuses(r)
        PROVE  ~ Refuses(r, sess[r].source, Amount(r))
    BY <2>1 DEF SubscriptionRefuses, Refuses
  <2> QED BY <1>0, <1>1, <1>4, <1>5, <2>1 DEF FundingDebit
<1>6. CASE ReserveFunding(r)
  BY <1>0, <1>1, <1>4, <1>6 DEF ReserveFunding
<1>7. CASE SettleFunding(r)
  BY <1>0, <1>1, <1>4, <1>7 DEF SettleFunding
<1>8. CASE FeeFunding(r)
  BY <1>0, <1>1, <1>4, <1>8 DEF FeeFunding, BillingSource
<1> QED BY <1>3, <1>5, <1>6, <1>7, <1>8

\* Steps that give back.
LEMMA CreditsPost ==
    ASSUME IInv, NEW r \in Requests,
           TokenRollback(r) \/ ReserveRollback(r) \/ RefundGoroutine(r)
    PROVE  Posts(r)
<1>0. /\ TypeOK /\ sess[r] \in Session /\ {"token", "wallet", "sub"} \subseteq Account
      /\ sess[r].delta \in Nat /\ sess[r].tokenConsumed \in Nat
      /\ sess[r].consumed \in Nat /\ sess[r].extraReserved \in Nat
      /\ RefundDue(r) \in Nat /\ Goroutine = {"serve", "refund"}
      /\ Control(pc[r], rpc[r], req[r], sess[r]) /\ Outcomes \subseteq Outcome
  BY Unfold, ConstantsAssumption DEF Account, Session, RefundDue, RequestInv,
     Goroutine
<1>1. CASE NoPost
  BY <1>1 DEF Posts
<1>2. ASSUME NEW g \in Goroutine, NEW a \in Account, NEW n \in Nat, NEW o \in Outcomes,
             Apply(r, g, a, - n, o)
      PROVE  Posts(r)
  <2>1. - n \in Int /\ - n <= 0
    OBVIOUS
  <2> QED BY <1>0, <1>2, <2>1 DEF Posts
<1>3. CASE TokenRollback(r)
  BY <1>0, <1>1, <1>2, <1>3 DEF TokenRollback, Post
<1>4. CASE ReserveRollback(r)
  <2>1. sess[r].source \in Account
    BY <1>0, <1>4 DEF ReserveRollback, Control, Session, Account
  <2> QED BY <1>0, <1>2, <1>4, <2>1 DEF ReserveRollback, Post
<1>5. CASE RefundGoroutine(r)
  <2>1. CASE RefundWallet(r)
    BY <1>0, <1>2, <2>1 DEF RefundWallet, Post
  <2>2. CASE RefundSubscription(r)
    BY <1>0, <1>2, <2>2 DEF RefundSubscription
  <2>3. CASE RefundExtra(r)
    BY <1>0, <1>2, <2>3 DEF RefundExtra, Post
  <2>4. CASE RefundToken(r)
    BY <1>0, <1>1, <1>2, <2>4 DEF RefundToken, Post
  <2> QED BY <1>5, <2>1, <2>2, <2>3, <2>4 DEF RefundGoroutine
<1> QED BY <1>3, <1>4, <1>5

\* Every step of the system is one of these.
LEMMA StepPosts ==
    ASSUME IInv, [Next]_vars
    PROVE  UNCHANGED <<balance, taken>> \/ \E r \in Requests : Posts(r)
<1>1. CASE UNCHANGED vars \/ Expire \/ Crash
  BY <1>1 DEF vars, Expire, Crash
<1>2. ASSUME NEW r \in Requests,
             \/ \E p \in Profiles : Begin(r, p)
             \/ RetryTask(r) \/ \E g \in Goroutine : ReadRow(r, g)
             \/ HasSubscription(r) \/ TryWallet(r) \/ QueryFails(r) \/ TokenCheck(r)
             \/ FoundRecord(r) \/ Relay(r) \/ ReserveCheck(r) \/ Refund(r)
             \/ \E q \in Actuals : SettleError(r, q)
      PROVE  UNCHANGED <<balance, taken>>
  BY <1>2 DEF Begin, RetryTask, ReadRow, FoundRecord, HasSubscription, TryWallet, QueryFails, TokenCheck, Relay,
     AttemptSucceeds, AttemptFails, Reserve, ReserveCheck, Refund, SettleError
<1>3. ASSUME NEW r \in Requests,
             \/ \E p \in Profiles : Begin(r, p)
             \/ RetryTask(r) \/ \E g \in Goroutine : ReadRow(r, g)
             \/ PreConsume(r) \/ Relay(r) \/ ReserveSteps(r) \/ Finish(r)
             \/ RefundGoroutine(r)
      PROVE  UNCHANGED <<balance, taken>> \/ Posts(r)
  BY <1>2, <1>3, DebitsPost, CreditsPost DEF PreConsume, ReserveSteps, Finish
<1> QED BY <1>1, <1>3 DEF Next

\* A write the subscription does not refuse, and any credit, keeps it within its total.
LEMMA PostWithin ==
    ASSUME TypeOK, WithinTotal, RowsWithin, NEW r \in Requests, NEW g \in Goroutine,
           NEW a \in Account, NEW n \in Int, NEW o,
           Apply(r, g, a, n, o), n <= 0 \/ (g = "serve" /\ ~ Refuses(r, a, n))
    PROVE  WithinTotal'
<1>1. balance \in [Account -> Int] /\ "sub" \in Account /\ SubTotal \in Nat
  BY ConstantsAssumption DEF TypeOK, Account
<1>2. CASE o = "fail" \/ a # "sub"
  BY <1>1, <1>2 DEF Apply, WithinTotal
<1>3. CASE o # "fail" /\ a = "sub"
  <2> DEFINE found == Found(r, g, "sub")
  <2>1. balance'["sub"] = IF found - n > SubTotal THEN SubTotal ELSE found - n
    BY <1>1, <1>3 DEF Apply, Debited
  <2>2. found \in Int /\ 0 <= found /\ found <= SubTotal
    BY <1>1 DEF WithinTotal, RowsWithin, Found
  <2>3. n <= 0 \/ n <= found
    BY <1>3, <2>2 DEF Refuses
  <2> HIDE DEF found
  <2> QED BY <1>1, <2>1, <2>2, <2>3 DEF WithinTotal
<1> QED BY <1>2, <1>3

\* What a step does to the open transactions.
LEMMA StepRow ==
    ASSUME [Next]_vars
    PROVE  \/ UNCHANGED rowRead \/ Crash
           \/ \E r \in Requests, g \in Goroutine : EndRow(r, g) \/ ReadRow(r, g)
<1>0. Goroutine = {"serve", "refund"}
  BY DEF Goroutine
<1>1. ASSUME NEW r \in Requests,
             \/ \E p \in Profiles : Begin(r, p)
             \/ RetryTask(r) \/ PreConsume(r) \/ Relay(r) \/ ReserveSteps(r) \/ Finish(r)
             \/ RefundGoroutine(r)
      PROVE  UNCHANGED rowRead \/ \E g \in Goroutine : EndRow(r, g)
  BY <1>0, <1>1 DEF Begin, RetryTask, PreConsume, HasSubscription, TryWallet, QueryFails,
     TokenCheck, TokenDebit, FundingDebit, FoundRecord, TokenRollback, Relay,
     AttemptSucceeds, AttemptFails, Reserve, ReserveSteps, ReserveFunding, ReserveCheck,
     ReserveDebit, ReserveRollback, Finish, SettleFunding, SettleToken, SettleError,
     Refund, FeeFunding, FeeToken, RefundGoroutine, RefundWallet, RefundSubscription,
     RefundExtra, RefundToken
<1> QED BY <1>1 DEF Next, Expire, vars

\* A transaction has read a value the subscription had.
LEMMA StepRows ==
    ASSUME IInv, WithinTotal, RowsWithin, [Next]_vars
    PROVE  RowsWithin'
<1>1. CASE UNCHANGED rowRead
  BY <1>1 DEF RowsWithin
<1>2. ASSUME NEW r \in Requests, NEW g \in Goroutine, EndRow(r, g) \/ ReadRow(r, g)
      PROVE  RowsWithin'
  <2>1. PICK x \in {NoRow} \cup 0 .. SubTotal : rowRead' = [rowRead EXCEPT ![r][g] = x]
    BY <1>2 DEF EndRow, ReadRow, WithinTotal
  <2>2. rowRead \in [Requests -> [Goroutine -> Int]]
    BY DEF IInv, TypeOK
  <2> QED BY <2>1, <2>2 DEF RowsWithin
<1>3. CASE Crash
  BY <1>3 DEF Crash, RowsWithin
<1> QED BY <1>1, <1>2, <1>3, StepRow

\* amount_used of the subscription stays between 0 and amount_total under any
\* number of concurrent requests, failures and crashes, even where nothing locks
\* its row: a transaction saves what it has checked against the value it has read,
\* and credits are clamped.
THEOREM SubscriptionWithinTotal ==
    ASSUME ReserveSafe
    PROVE  Spec => []WithinTotal
<1>1. Init => WithinTotal /\ RowsWithin
  BY ConstantsAssumption DEF Init, WithinTotal, RowsWithin, Account
<1>2. IInv /\ WithinTotal /\ RowsWithin /\ [Next]_vars => (WithinTotal /\ RowsWithin)'
  <2> SUFFICES ASSUME IInv, WithinTotal, RowsWithin, [Next]_vars
               PROVE  WithinTotal'
    BY StepRows
  <2>1. CASE UNCHANGED balance
    BY <2>1 DEF WithinTotal
  <2>2. ASSUME NEW r \in Requests, Posts(r)
        PROVE  WithinTotal'
    BY <2>1, <2>2, PostWithin DEF Posts, IInv
  <2> QED BY <2>1, <2>2, StepPosts
<1> QED BY <1>1, <1>2, Invariance, PTL DEF Spec

\* The units of quota requests have taken from the subscription, as SumTaken counts them,
\* and those of the requests other than r.
Units(t) == UNION {{r} \X (1 .. t[r]["sub"]) : r \in Requests}
UnitsBut(t, r) == UNION {{q} \X (1 .. t[q]["sub"]) : q \in Requests \ {r}}

SubBooks ==
    /\ IsFiniteSet(Units(taken))
    /\ balance["sub"] = SubTotal - Cardinality(Units(taken))

\* The units of one request are as many as it has taken.
LEMMA UnitsSplit ==
    ASSUME NEW t, NEW r \in Requests, NEW n \in Nat, t[r]["sub"] = n,
           IsFiniteSet(UnitsBut(t, r))
    PROVE  /\ IsFiniteSet(Units(t))
           /\ Cardinality(Units(t)) = Cardinality(UnitsBut(t, r)) + n
<1> DEFINE A == UnitsBut(t, r)
<1> DEFINE B == {r} \X (1 .. n)
<1>1. Units(t) = A \cup B
  BY DEF Units, UnitsBut
<1>2. A \cap B = {}
  BY DEF UnitsBut
<1>3. IsFiniteSet(1 .. n) /\ Cardinality(1 .. n) = n
  BY FS_Interval
<1>4. IsFiniteSet({r}) /\ Cardinality({r}) = 1
  BY FS_Singleton
<1>5. IsFiniteSet(B) /\ Cardinality(B) = n
  BY <1>3, <1>4, FS_Product
<1>6. IsFiniteSet(A) /\ Cardinality(A) \in Nat /\ Cardinality({}) = 0
  BY FS_CardinalityType, FS_EmptySet
<1> HIDE DEF A, B
<1>7. /\ IsFiniteSet(A \cup B)
      /\ Cardinality(A \cup B) = Cardinality(A) + Cardinality(B) - Cardinality(A \cap B)
  BY <1>5, <1>6, FS_Union
<1>8. Cardinality(A \cap B) = 0
  BY <1>2, <1>6
<1>9. Cardinality(A \cup B) = Cardinality(A) + n
  BY <1>5, <1>6, <1>7, <1>8, SMT
<1> QED BY <1>1, <1>7, <1>9 DEF A

\* A write that is applied changes the units by its amount, and the balance with them.
LEMMA PostBooks ==
    ASSUME TypeOK, SubBooks, NoRowOpen, NEW r \in Requests, NEW g \in Goroutine,
           NEW a \in Account, NEW n \in Int, NEW o,
           Apply(r, g, a, n, o), taken[r]["sub"] >= 0, taken'[r]["sub"] >= 0
    PROVE  SubBooks'
<1>1. /\ balance \in [Account -> Int] /\ "sub" \in Account /\ SubTotal \in Nat
      /\ taken \in [Requests -> [Account -> Int]]
  BY ConstantsAssumption DEF TypeOK, Account
<1>2. CASE o = "fail" \/ a # "sub"
  <2>1. balance'["sub"] = balance["sub"] /\ \A q \in Requests : taken'[q]["sub"] = taken[q]["sub"]
    BY <1>1, <1>2 DEF Apply
  <2>2. Units(taken') = Units(taken)
    BY <2>1 DEF Units
  <2> QED BY <2>1, <2>2 DEF SubBooks
<1>3. CASE o # "fail" /\ a = "sub"
  <2>1. /\ balance'["sub"] = Debited(r, g, "sub", n)
        /\ taken'[r]["sub"] = taken[r]["sub"] + n
        /\ \A q \in Requests \ {r} : taken'[q]["sub"] = taken[q]["sub"]
    BY <1>1, <1>3 DEF Apply
  <2>2. UnitsBut(taken', r) = UnitsBut(taken, r)
    BY <2>1 DEF UnitsBut
  <2>3. taken[r]["sub"] \in Nat /\ taken'[r]["sub"] \in Nat
    BY <1>1, <2>1
  <2>4. IsFiniteSet(UnitsBut(taken, r))
    <3>1. UnitsBut(taken, r) \in SUBSET Units(taken)
      BY DEF Units, UnitsBut
    <3> QED BY <3>1, FS_Subset DEF SubBooks
  <2>5. Cardinality(UnitsBut(taken, r)) \in Nat
    BY <2>4, FS_CardinalityType
  <2>6. Cardinality(Units(taken)) = Cardinality(UnitsBut(taken, r)) + taken[r]["sub"]
    BY <2>3, <2>4, UnitsSplit
  <2>7. /\ IsFiniteSet(Units(taken'))
        /\ Cardinality(Units(taken')) = Cardinality(UnitsBut(taken, r)) + taken'[r]["sub"]
    BY <2>2, <2>3, <2>4, UnitsSplit
  <2>8. balance["sub"] - n <= SubTotal
    BY <1>1, <2>1, <2>3, <2>5, <2>6 DEF SubBooks
  <2>9. balance'["sub"] = balance["sub"] - n
    BY <1>1, <2>1, <2>8 DEF Debited, Found, NoRowOpen
  <2> QED BY <1>1, <2>1, <2>3, <2>5, <2>6, <2>7, <2>9 DEF SubBooks
<1> QED BY <1>2, <1>3

\* Where the transactions on a subscription's row are serial no step leaves one open.
LEMMA StepNoRow ==
    ASSUME RowLocks, IInv, NoRowOpen, [Next]_vars
    PROVE  NoRowOpen'
<1>1. CASE UNCHANGED rowRead
  BY <1>1 DEF NoRowOpen
<1>2. ASSUME NEW r \in Requests, NEW g \in Goroutine, EndRow(r, g)
      PROVE  NoRowOpen'
  BY <1>2 DEF EndRow, NoRowOpen, IInv, TypeOK
<1>3. CASE Crash
  BY <1>3 DEF Crash, NoRowOpen
<1> QED BY <1>1, <1>2, <1>3, StepRow DEF ReadRow

\* Where the database serialises the transactions on a row (RowLocks, as SQLite does;
\* MySQL and PostgreSQL do not, as the lock the code asks for is not taken), what the
\* subscription has left is its total less the sum of what its requests have taken,
\* under any interleaving of those transactions, with lost acknowledgements, repeated
\* refunds and crashes: the clamp of amount_used at 0
\* (postConsumeUserSubscriptionDeltaTx) hides nothing.
THEOREM SubscriptionBooksKept ==
    ASSUME ReserveSafe, RowLocks
    PROVE  Spec => []SubscriptionBooks
<1>1. Init => SubBooks /\ NoRowOpen
  <2> SUFFICES ASSUME Init PROVE SubBooks
    BY DEF Init, NoRowOpen
  <2>1. "sub" \in Account /\ SubTotal \in Nat
    BY ConstantsAssumption DEF Account
  <2>2. balance["sub"] = SubTotal
    BY <2>1 DEF Init
  <2>3. \A r \in Requests : taken[r]["sub"] = 0
    BY <2>1 DEF Init
  <2>4. Units(taken) = {}
    BY <2>3 DEF Units
  <2> QED BY <2>1, <2>2, <2>4, FS_EmptySet DEF SubBooks
<1>2. IInv /\ IInv' /\ SubBooks /\ NoRowOpen /\ [Next]_vars => (SubBooks /\ NoRowOpen)'
  <2> SUFFICES ASSUME IInv, IInv', SubBooks, NoRowOpen, [Next]_vars
               PROVE  SubBooks'
    BY StepNoRow
  <2>1. CASE UNCHANGED <<balance, taken>>
    BY <2>1 DEF SubBooks, Units
  <2>2. ASSUME NEW r \in Requests, Posts(r)
        PROVE  SubBooks'
    <3>1. taken[r]["sub"] >= 0 /\ taken'[r]["sub"] >= 0
      BY DEF IInv, RInv, RequestInv, Account
    <3> QED BY <2>1, <2>2, <3>1, PostBooks DEF Posts, IInv
  <2> QED BY <2>1, <2>2, StepPosts
<1>3. IInv /\ WithinTotal /\ SubBooks => SubscriptionBooks
  <2> SUFFICES ASSUME IInv, WithinTotal, SubBooks
               PROVE  SubscriptionBooks
    OBVIOUS
  <2>1. \A r \in Requests : taken[r]["sub"] >= 0
    BY DEF IInv, RInv, RequestInv, Account
  <2>2. SumTaken("sub") = Cardinality(Units(taken))
    BY DEF SumTaken, Units
  <2>3. balance["sub"] >= 0
    BY ConstantsAssumption DEF WithinTotal
  <2> QED BY <2>1, <2>2, <2>3 DEF SubscriptionBooks, SubBooks
<1> QED BY <1>1, <1>2, <1>3, Invariance, SubscriptionWithinTotal, PTL DEF Spec

===============================================================================

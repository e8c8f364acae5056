------------------------- MODULE BillingSessionProofs -------------------------
(***************************************************************************)
(* Proofs about BillingSession for every set of requests, every amount and *)
(* every failure pattern.                                                  *)
(***************************************************************************)
EXTENDS BillingSession, TLAPS

(***************************************************************************)
(* The stages of a request.                                                *)
(***************************************************************************)
Fresh    == {"idle", "hasSub", "wallet", "rejected"}
Opening  == {"tokenCheck", "tokenDebit", "fundingDebit", "tokenRollback"}
Moved    == {"reserveCheck", "reserveDebit", "reserveRollback"}
Pending  == {"relay", "reserveFunding", "settle", "fail"} \cup Moved
Closing  == {"fee", "feeToken", "end"}

\* What Reserve has debited from the funding and not yet booked
InFlight(p, s) == IF p \in Moved THEN s.delta ELSE 0

(***************************************************************************)
(* Inductive invariant of one request, over its location p, the location g *)
(* of its refund goroutine, its profile q, its session s, its record e and *)
(* what it has taken t.                                                    *)
(***************************************************************************)
NoVerdict(s) == ~ s.settled /\ ~ s.refunded /\ ~ s.fundingSettled

Control(p, g, q, s) ==
    /\ p \in Fresh => s = NoSession /\ g = "none"
    /\ p \in Opening => /\ s.source # "none" /\ NoVerdict(s) /\ g = "none"
                        /\ s.preConsumedQuota = 0 /\ s.consumed = 0
                        /\ s.extraReserved = 0 /\ s.delta = 0
    /\ p \in {"tokenCheck", "tokenDebit"} => s.tokenConsumed = 0
    /\ p \in {"fundingDebit", "tokenRollback"} =>
          s.tokenConsumed = IF s.source = "sub" /\ q.quota = 0 THEN 1 ELSE q.quota
    /\ p \in Pending => /\ s.source # "none" /\ NoVerdict(s) /\ g = "none"
                        /\ s.tokenConsumed = s.preConsumedQuota
    /\ p \in ReserveStep => "lost" \notin Outcomes
    /\ p = "settleToken" => /\ s.source # "none" /\ g = "none"
                            /\ s.fundingSettled /\ ~ s.settled /\ ~ s.refunded
                            /\ s.tokenConsumed = s.preConsumedQuota
    /\ p \in {"tokenDebit", "reserveCheck", "reserveDebit", "reserveRollback",
              "settleToken", "feeToken"} => ~ q.playground
    /\ p \in Closing => s.source # "none"
    /\ s.refunded => ~ s.settled /\ ~ s.fundingSettled /\ p \in Closing \cup {"crashed"}
    /\ g # "none" => s.refunded
    /\ g = "extra" => s.source = "sub"
    /\ g # "none" => s.source # "none"

TokenHeld(p, g, q, s, t) ==
    ~ q.playground /\ (\/ p \in Opening \cup Pending \cup {"settleToken"}
                       \/ g \in {"funding", "extra", "token"})
      => t["token"] >= s.tokenConsumed

WalletHeld(p, g, s, t) ==
    s.source = "wallet" =>
      /\ p \in Pending \/ g = "funding" => t["wallet"] >= s.consumed
      /\ p \in Pending => s.consumed >= s.preConsumedQuota + InFlight(p, s)

SubHeld(p, g, q, s, e, t) ==
    /\ s.source = "sub" =>
          /\ p \in Pending => /\ s.preConsumedQuota = s.consumed + s.extraReserved
                              /\ t["sub"] >= s.preConsumedQuota + InFlight(p, s)
          /\ g = "funding" =>
                t["sub"] >= s.extraReserved + (IF e = "consumed" THEN s.consumed ELSE 0)
          /\ g = "extra" => t["sub"] >= s.extraReserved
    /\ p = "idle" => e = "none"
    /\ p \in Fresh \cup Opening /\ e = "consumed" => t["sub"] >= 1 /\ t["sub"] >= q.quota

RequestInv(p, g, q, s, e, t) ==
    /\ Control(p, g, q, s)
    /\ TokenHeld(p, g, q, s, t)
    /\ WalletHeld(p, g, s, t)
    /\ SubHeld(p, g, q, s, e, t)
    /\ \A a \in Account : t[a] >= 0

RInv(r) == RequestInv(pc[r], rpc[r], req[r], sess[r], record[r], taken[r])

IInv == TypeOK /\ \A r \in Requests : RInv(r)

\* Hypothesis of the theorems: an acknowledgement may get lost only where
\* Reserve is not used (its wallet roll-back cannot tell a lost one from a
\* failed one).
ReserveSafe == "lost" \in Outcomes => ReserveTargets = {}

-------------------------------------------------------------------------------
(***************************************************************************)
(* What the helpers do to the variables.                                   *)
(***************************************************************************)

USE DEF request, refunding, verdict, rows, env, world, NoPost

\* What r has taken after a write of n on account a that ends with o
After(t, a, n, o) == IF o = "fail" THEN t ELSE [t EXCEPT ![a] = @ + n]

\* TypeOK without the variables a step of one request replaces
RestOK ==
    /\ rpc \in [Requests -> RefundLocation]
    /\ req \in [Requests -> Profile]
    /\ seen \in [Requests -> Int]
    /\ retry \in [Requests -> 0 .. RetryTimes]
    /\ mark \in [Requests -> {"none", "billable"}]
    /\ actual \in [Requests -> Nat]
    /\ fee \in [Requests -> Nat]
    /\ record \in [Requests -> {"none", "consumed", "refunded"}]
    /\ attempt \in [Requests -> 0 .. MaxAttempts - 1]
    /\ balance \in [Account -> Int]
    /\ active \in BOOLEAN
    /\ crashes \in 0 .. MaxCrashes
    /\ rowRead \in [Requests -> [Goroutine -> Int]]
    /\ trouble \in [Requests -> BOOLEAN]

\* The other requests keep their refund goroutine, profile and record.
Others(r) ==
    \A q \in Requests \ {r} :
        rpc'[q] = rpc[q] /\ req'[q] = req[q] /\ record'[q] = record[q]

\* What the invariant says of one request, with the types of its state.
LEMMA Unfold ==
    ASSUME IInv, NEW r \in Requests
    PROVE  /\ TypeOK /\ RestOK
           /\ RequestInv(pc[r], rpc[r], req[r], sess[r], record[r], taken[r])
           /\ pc[r] \in Location /\ sess[r] \in Session /\ req[r] \in Profile
           /\ taken[r] \in [Account -> Int]
           /\ actual[r] \in Nat /\ fee[r] \in Nat
BY DEF IInv, RInv, TypeOK, RestOK

\* A database write of r on account a keeps the rows in their domain and
\* changes nothing but what r has taken from a.
LEMMA PostLemma ==
    ASSUME TypeOK, NEW r \in Requests, NEW g \in Goroutine, NEW a \in Account,
           NEW n \in Int, NEW o \in Outcomes, Post(r, g, a, n, o)
    PROVE  /\ balance' \in [Account -> Int]
           /\ trouble' \in [Requests -> BOOLEAN]
           /\ After(taken[r], a, n, o) \in [Account -> Int]
           /\ taken' = [taken EXCEPT ![r] = After(taken[r], a, n, o)]
<1>1. /\ balance' \in [Account -> Int]
      /\ trouble' \in [Requests -> BOOLEAN]
  BY ConstantsAssumption DEF TypeOK, Post, Apply, Report, Debited, Found
<1>2. After(taken[r], a, n, o) \in [Account -> Int]
  BY DEF TypeOK, After
<1>3. taken' = [taken EXCEPT ![r] = After(taken[r], a, n, o)]
  BY DEF TypeOK, Post, Apply, After
<1> QED BY <1>1, <1>2, <1>3

\* The end of a transaction keeps what the others have read.
LEMMA EndRowLemma ==
    ASSUME TypeOK, NEW r \in Requests, NEW g \in Goroutine, EndRow(r, g)
    PROVE  rowRead' \in [Requests -> [Goroutine -> Int]]
BY DEF TypeOK, EndRow, NoRow

\* What is left alone can be seen as replaced by itself.
LEMMA SameLemma ==
    ASSUME TypeOK, NEW r \in Requests
    PROVE  /\ sess = [sess EXCEPT ![r] = sess[r]]
           /\ taken = [taken EXCEPT ![r] = taken[r]]
           /\ pc = [pc EXCEPT ![r] = pc[r]]
BY DEF TypeOK

\* A step of r preserves the invariant when the session s, the location l and
\* the amounts t it leaves behind satisfy the part of the invariant about r.
LEMMA OneRequest ==
    ASSUME IInv, NEW r \in Requests, NEW s \in Session, NEW l \in Location,
           NEW t \in [Account -> Int],
           sess' = [sess EXCEPT ![r] = s], pc' = [pc EXCEPT ![r] = l],
           taken' = [taken EXCEPT ![r] = t], RestOK', Others(r),
           RequestInv(l, rpc'[r], req'[r], s, record'[r], t)
    PROVE  IInv'
<1>1. /\ sess' \in [Requests -> Session] /\ pc' \in [Requests -> Location]
      /\ taken' \in [Requests -> [Account -> Int]]
      /\ sess'[r] = s /\ pc'[r] = l /\ taken'[r] = t
      /\ \A q \in Requests \ {r} :
            sess'[q] = sess[q] /\ pc'[q] = pc[q] /\ taken'[q] = taken[q]
  BY DEF IInv, TypeOK
<1>2. TypeOK'
  BY <1>1 DEF TypeOK, RestOK
<1>3. \A q \in Requests : RInv(q)'
  BY <1>1 DEF IInv, RInv, Others
<1> QED BY <1>2, <1>3 DEF IInv

\* A step of r that leaves the rows of the database alone.
LEMMA QuietStep ==
    ASSUME IInv, NEW r \in Requests, NEW s \in Session, NEW l \in Location,
           sess' = [sess EXCEPT ![r] = s], Goto(r, l), RestOK',
           UNCHANGED <<rpc, req, record, taken>>,
           RequestInv(l, rpc[r], req[r], s, record[r], taken[r])
    PROVE  IInv'
<1>1. taken' = [taken EXCEPT ![r] = taken[r]] /\ taken[r] \in [Account -> Int]
  BY Unfold, SameLemma
<1>2. Others(r) /\ rpc'[r] = rpc[r] /\ req'[r] = req[r] /\ record'[r] = record[r]
  BY DEF Others
<1> QED BY <1>1, <1>2, OneRequest DEF Goto

\* A step of r that writes n on account a, the rest being left alone.
LEMMA PostStep ==
    ASSUME IInv, NEW r \in Requests, NEW s \in Session, NEW l \in Location,
           NEW a \in Account, NEW n \in Int, NEW o \in Outcomes,
           Post(r, "serve", a, n, o), sess' = [sess EXCEPT ![r] = s], Goto(r, l),
           UNCHANGED <<refunding, request, verdict, record, env>>,
           UNCHANGED rowRead \/ EndRow(r, "serve"),
           RequestInv(l, rpc[r], req[r], s, record[r], After(taken[r], a, n, o))
    PROVE  IInv'
<1>1. /\ balance' \in [Account -> Int] /\ trouble' \in [Requests -> BOOLEAN]
      /\ After(taken[r], a, n, o) \in [Account -> Int]
      /\ taken' = [taken EXCEPT ![r] = After(taken[r], a, n, o)]
  BY Unfold, PostLemma DEF Goroutine
<1>2. Others(r) /\ rpc'[r] = rpc[r] /\ req'[r] = req[r] /\ record'[r] = record[r]
  BY DEF Others
<1>3. rowRead' \in [Requests -> [Goroutine -> Int]]
  BY Unfold, EndRowLemma DEF TypeOK, Goroutine
<1>4. RestOK'
  BY <1>1, <1>3, Unfold DEF RestOK
<1> QED BY <1>1, <1>2, <1>4, OneRequest DEF Goto

\* A new session is a session.
LEMMA NewSessionLemma ==
    /\ NewSession("sub") \in Session /\ NewSession("wallet") \in Session
    /\ NoSession \in Session /\ TrustedSession \in Session
BY DEF NewSession, NoSession, TrustedSession, Session

\* A session stays a session when one of its amounts is replaced by another.
LEMMA FieldLemma ==
    ASSUME NEW s \in Session, NEW n \in Nat
    PROVE  /\ [s EXCEPT !.tokenConsumed = n] \in Session
           /\ [s EXCEPT !.consumed = n] \in Session
           /\ [s EXCEPT !.preConsumedQuota = n] \in Session
           /\ [s EXCEPT !.extraReserved = n] \in Session
           /\ [s EXCEPT !.delta = n] \in Session
<1>1. [s EXCEPT !.tokenConsumed = n] \in Session  BY DEF Session
<1>2. [s EXCEPT !.consumed = n] \in Session  BY DEF Session
<1>3. [s EXCEPT !.preConsumedQuota = n] \in Session  BY DEF Session
<1>4. [s EXCEPT !.extraReserved = n] \in Session  BY DEF Session
<1>5. [s EXCEPT !.delta = n] \in Session  BY DEF Session
<1> QED BY <1>1, <1>2, <1>3, <1>4, <1>5

\* The same for its flags.
LEMMA FlagLemma ==
    ASSUME NEW s \in Session
    PROVE  /\ [s EXCEPT !.insufficient = TRUE] \in Session
           /\ [s EXCEPT !.settled = TRUE] \in Session
           /\ [s EXCEPT !.fundingSettled = TRUE] \in Session
           /\ [s EXCEPT !.fundingSettled = TRUE, !.settled = TRUE] \in Session
           /\ [s EXCEPT !.refunded = TRUE] \in Session
<1>1. [s EXCEPT !.insufficient = TRUE] \in Session  BY DEF Session
<1>2. [s EXCEPT !.settled = TRUE] \in Session  BY DEF Session
<1>3. [s EXCEPT !.fundingSettled = TRUE] \in Session  BY DEF Session
<1>4. [s EXCEPT !.fundingSettled = TRUE, !.settled = TRUE] \in Session  BY DEF Session
<1>5. [s EXCEPT !.refunded = TRUE] \in Session  BY DEF Session
<1> QED BY <1>1, <1>2, <1>3, <1>4, <1>5

\* What Reserve books keeps a session a session.
LEMMA ReservedLemma ==
    ASSUME NEW s \in Session
    PROVE  Reserved(s) \in Session
<1>1. s.delta \in Nat /\ s.preConsumedQuota + s.delta \in Nat
      /\ s.tokenConsumed + s.delta \in Nat /\ s.extraReserved + s.delta \in Nat
  BY DEF Session
<1> DEFINE s1 == [s EXCEPT !.preConsumedQuota = s.preConsumedQuota + s.delta]
           s2 == [s1 EXCEPT !.tokenConsumed = s.tokenConsumed + s.delta]
           s3 == [s2 EXCEPT !.extraReserved = s.extraReserved + s.delta]
<1>2. s1 \in Session  BY <1>1, FieldLemma
<1>3. s2 \in Session  BY <1>1, <1>2, FieldLemma
<1>4. s3 \in Session  BY <1>1, <1>3, FieldLemma
<1>5. Reserved(s) = s3  BY DEF Reserved
<1> QED BY <1>4, <1>5

-------------------------------------------------------------------------------
(***************************************************************************)
(* One lemma per action: the invariant is preserved.                       *)
(***************************************************************************)

\* A request without a session may be given one that holds nothing.
LEMMA OpenLemma ==
    ASSUME NEW p \in Fresh, NEW g, NEW q \in Profile, NEW q2 \in Profile, NEW e,
           NEW t \in [Account -> Int], RequestInv(p, g, q, NoSession, e, t),
           p = "idle" \/ q2 = q
    PROVE  /\ RequestInv("tokenCheck", g, q2, NewSession("sub"), e, t)
           /\ RequestInv("tokenCheck", g, q2, NewSession("wallet"), e, t)
           /\ RequestInv("relay", g, q2, NewSession("wallet"), e, t)
           /\ RequestInv("relay", g, q2, TrustedSession, e, t)
           /\ \A l \in Fresh \ {"idle"} : RequestInv(l, g, q2, NoSession, e, t)
<1>0. g = "none" /\ \A a \in Account : t[a] >= 0 /\ t[a] \in Int
  BY DEF RequestInv, Control, TokenHeld, WalletHeld, SubHeld, Fresh, Opening,
     Moved, Pending, Closing, InFlight, NoVerdict, ReserveStep
<1>1. RequestInv("tokenCheck", g, q2, NewSession("sub"), e, t)
  BY <1>0 DEF NewSession, Account, RequestInv, Control, TokenHeld, WalletHeld, SubHeld, Fresh, Opening,
     Moved, Pending, Closing, InFlight, NoVerdict, ReserveStep
<1>2. RequestInv("tokenCheck", g, q2, NewSession("wallet"), e, t)
  BY <1>0 DEF NewSession, Account, RequestInv, Control, TokenHeld, WalletHeld, SubHeld, Fresh, Opening,
     Moved, Pending, Closing, InFlight, NoVerdict, ReserveStep
<1>3. RequestInv("relay", g, q2, NewSession("wallet"), e, t)
  BY <1>0 DEF NewSession, Account, RequestInv, Control, TokenHeld, WalletHeld, SubHeld, Fresh, Opening,
     Moved, Pending, Closing, InFlight, NoVerdict, ReserveStep
<1>4. RequestInv("relay", g, q2, TrustedSession, e, t)
  BY <1>0 DEF TrustedSession, NewSession, Account, RequestInv, Control, TokenHeld, WalletHeld, SubHeld, Fresh, Opening,
     Moved, Pending, Closing, InFlight, NoVerdict, ReserveStep
<1>5. \A l \in Fresh \ {"idle"} : RequestInv(l, g, q2, NoSession, e, t)
  BY <1>0 DEF NoSession, NewSession, Account, RequestInv, Control, TokenHeld, WalletHeld, SubHeld, Fresh, Opening,
     Moved, Pending, Closing, InFlight, NoVerdict, ReserveStep
<1> QED BY <1>1, <1>2, <1>3, <1>4, <1>5

\* A request that holds no session keeps none while NewBillingSession runs.
LEMMA FreshLemma ==
    ASSUME IInv, NEW r \in Requests, pc[r] \in Fresh
    PROVE  sess[r] = NoSession
BY Unfold DEF RequestInv, Control

\* Begin leaves r without a session or with one for the subscription.
LEMMA BeginStep ==
    ASSUME IInv, NEW r \in Requests, NEW p \in Profiles, Begin(r, p)
    PROVE  IInv'
<1>0. /\ TypeOK /\ RestOK /\ taken[r] \in [Account -> Int] /\ req[r] \in Profile
      /\ p \in Profile /\ sess[r] = NoSession /\ pc[r] \in Fresh /\ pc[r] = "idle"
      /\ RequestInv(pc[r], rpc[r], req[r], NoSession, record[r], taken[r])
  BY Unfold, FreshLemma, ConstantsAssumption DEF Begin, Fresh
<1>1. req' = [req EXCEPT ![r] = p] /\ RestOK' /\ Others(r)
      /\ rpc'[r] = rpc[r] /\ req'[r] = p /\ record'[r] = record[r]
  BY <1>0 DEF Begin, RestOK, Others, Account
<1>2. taken' = [taken EXCEPT ![r] = taken[r]]
  BY <1>0, SameLemma DEF Begin
<1>3. CASE TrySubscription(r)
  <2>1. sess' = [sess EXCEPT ![r] = NewSession("sub")]
        /\ pc' = [pc EXCEPT ![r] = "tokenCheck"] /\ "tokenCheck" \in Location
    BY <1>3 DEF TrySubscription, Goto, Location, PreConsumeStep
  <2>2. RequestInv("tokenCheck", rpc[r], p, NewSession("sub"), record[r], taken[r])
    BY <1>0, OpenLemma
  <2>3. RequestInv("tokenCheck", rpc'[r], req'[r], NewSession("sub"), record'[r], taken[r])
    BY <1>1, <2>2
  <2> QED BY <1>0, <1>1, <1>2, <2>1, <2>3, NewSessionLemma, OneRequest
<1>4. ASSUME NEW l \in {"hasSub", "wallet"}, Goto(r, l), UNCHANGED sess
      PROVE  IInv'
  <2>1. sess' = [sess EXCEPT ![r] = NoSession]
        /\ pc' = [pc EXCEPT ![r] = l] /\ l \in Location /\ l \in Fresh \ {"idle"}
    BY <1>0, <1>4, SameLemma DEF Goto, Location, PreConsumeStep, Fresh
  <2>2. RequestInv(l, rpc[r], p, NoSession, record[r], taken[r])
    BY <1>0, <2>1, OpenLemma
  <2>3. RequestInv(l, rpc'[r], req'[r], NoSession, record'[r], taken[r])
    BY <1>1, <2>2
  <2> QED BY <1>0, <1>1, <1>2, <2>1, <2>3, NewSessionLemma, OneRequest
<1> QED BY <1>3, <1>4 DEF Begin, NewBillingSession

\* RelayTask starts over with a request that holds no session.
LEMMA RetryTaskStep ==
    ASSUME IInv, NEW r \in Requests, RetryTask(r)
    PROVE  IInv'
<1>0. /\ TypeOK /\ taken[r] \in [Account -> Int] /\ req[r] \in Profile
      /\ sess[r] = NoSession /\ pc[r] \in Fresh
      /\ RequestInv(pc[r], rpc[r], req[r], NoSession, record[r], taken[r])
      /\ UNCHANGED <<rpc, req, record, taken>>
      /\ {"tokenCheck", "hasSub", "wallet"} \subseteq Location
  BY Unfold, FreshLemma DEF RetryTask, Fresh, Location, PreConsumeStep
<1>1. RestOK'
  <2>1. retry' \in [Requests -> 0 .. RetryTimes]
    BY <1>0, ConstantsAssumption DEF RetryTask, MayRetry, TypeOK
  <2> QED BY <2>1, Unfold DEF RetryTask, RestOK
<1>2. CASE TrySubscription(r)
  BY <1>0, <1>1, <1>2, OpenLemma, NewSessionLemma, QuietStep DEF TrySubscription
<1>3. ASSUME NEW l \in {"hasSub", "wallet"}, Goto(r, l), UNCHANGED sess
      PROVE  IInv'
  <2>1. sess' = [sess EXCEPT ![r] = NoSession] /\ l \in Location /\ l \in Fresh \ {"idle"}
    BY <1>0, <1>3, SameLemma DEF Fresh
  <2>2. RequestInv(l, rpc[r], req[r], NoSession, record[r], taken[r])
    BY <1>0, <2>1, OpenLemma
  <2> QED BY <1>0, <1>1, <1>3, <2>1, <2>2, NewSessionLemma, QuietStep
<1> QED BY <1>2, <1>3 DEF RetryTask, NewBillingSession

\* A transaction that reads a row changes nothing else.
LEMMA ReadRowStep ==
    ASSUME IInv, NEW r \in Requests, NEW g \in Goroutine, ReadRow(r, g)
    PROVE  IInv'
<1>1. TypeOK /\ rowRead' \in [Requests -> [Goroutine -> Int]]
  BY Unfold DEF ReadRow, TypeOK, Account
<1> QED BY <1>1 DEF ReadRow, IInv, TypeOK, RInv

\* Steps that open or drop the session of a request that holds nothing.
LEMMA OpenStep ==
    ASSUME IInv, NEW r \in Requests, pc[r] \in Fresh, RestOK',
           UNCHANGED <<rpc, req, record, taken>>,
           \/ TrySubscription(r)
           \/ Reject(r)
           \/ Goto(r, "wallet") /\ UNCHANGED sess
           \/ \E s \in {NewSession("wallet"), TrustedSession} :
                 sess' = [sess EXCEPT ![r] = s] /\ Goto(r, "relay")
           \/ sess' = [sess EXCEPT ![r] = NewSession("wallet")] /\ Goto(r, "tokenCheck")
    PROVE  IInv'
<1>0. /\ TypeOK /\ taken[r] \in [Account -> Int] /\ req[r] \in Profile
      /\ sess[r] = NoSession
      /\ RequestInv(pc[r], rpc[r], req[r], NoSession, record[r], taken[r])
  BY Unfold, FreshLemma
<1>1. {"tokenCheck", "rejected", "wallet", "relay"} \subseteq Location
  BY DEF Location, PreConsumeStep
<1>2. CASE TrySubscription(r)
  BY <1>0, <1>1, <1>2, OpenLemma, NewSessionLemma, QuietStep DEF TrySubscription
<1>3. CASE Reject(r)
  <2>1. RequestInv("rejected", rpc[r], req[r], NoSession, record[r], taken[r])
    BY <1>0, OpenLemma DEF Fresh
  <2> QED BY <1>0, <1>1, <1>3, <2>1, NewSessionLemma, QuietStep DEF Reject
<1>4. CASE Goto(r, "wallet") /\ UNCHANGED sess
  <2>1. RequestInv("wallet", rpc[r], req[r], NoSession, record[r], taken[r])
    BY <1>0, OpenLemma DEF Fresh
  <2>2. sess' = [sess EXCEPT ![r] = NoSession]
    BY <1>0, <1>4, SameLemma
  <2> QED BY <1>0, <1>1, <1>4, <2>1, <2>2, NewSessionLemma, QuietStep
<1>5. CASE \E s \in {NewSession("wallet"), TrustedSession} :
              sess' = [sess EXCEPT ![r] = s] /\ Goto(r, "relay")
  <2>1. PICK s \in {NewSession("wallet"), TrustedSession} :
              sess' = [sess EXCEPT ![r] = s] /\ Goto(r, "relay")
    BY <1>5
  <2>2. s \in Session /\ RequestInv("relay", rpc[r], req[r], s, record[r], taken[r])
    BY <1>0, OpenLemma, NewSessionLemma
  <2> QED BY <1>1, <2>1, <2>2, QuietStep
<1>6. CASE sess' = [sess EXCEPT ![r] = NewSession("wallet")] /\ Goto(r, "tokenCheck")
  BY <1>0, <1>1, <1>6, OpenLemma, NewSessionLemma, QuietStep
<1> QED BY <1>2, <1>3, <1>4, <1>5, <1>6

\* The lookup of a subscription
LEMMA HasSubscriptionStep ==
    ASSUME IInv, NEW r \in Requests, HasSubscription(r)
    PROVE  IInv'
<1>1. RestOK' /\ pc[r] \in Fresh
  BY Unfold DEF HasSubscription, RestOK, Fresh
<1> QED BY <1>1, OpenStep DEF HasSubscription

\* The wallet, with the trust bypass
LEMMA TryWalletStep ==
    ASSUME IInv, NEW r \in Requests, TryWallet(r)
    PROVE  IInv'
<1>1. RestOK' /\ pc[r] \in Fresh
  BY Unfold DEF TryWallet, RestOK, Fresh
<1>2. \/ TrySubscription(r)
      \/ Reject(r)
      \/ \E s \in {NewSession("wallet"), TrustedSession} :
            sess' = [sess EXCEPT ![r] = s] /\ Goto(r, "relay")
      \/ sess' = [sess EXCEPT ![r] = NewSession("wallet")] /\ Goto(r, "tokenCheck")
  BY DEF TryWallet
<1> QED BY <1>1, <1>2, OpenStep DEF TryWallet

\* A request whose session holds nothing the payer lost is turned away.
LEMMA RejectStep ==
    ASSUME IInv, NEW r \in Requests, pc[r] \in Fresh \cup Opening, RestOK',
           UNCHANGED <<rpc, req, record, taken>>, Reject(r)
    PROVE  IInv'
<1>1. RequestInv("rejected", rpc[r], req[r], NoSession, record[r], taken[r])
  BY Unfold DEF NoSession, NewSession, Account, RequestInv, Control, TokenHeld, WalletHeld, SubHeld, Fresh, Opening,
     Moved, Pending, Closing, InFlight, NoVerdict, ReserveStep
<1> QED BY <1>1, NewSessionLemma, QuietStep DEF Reject, Location

\* A failed read
LEMMA QueryFailsStep ==
    ASSUME IInv, NEW r \in Requests, QueryFails(r)
    PROVE  IInv'
<1>1. RestOK' /\ pc[r] \in Fresh \cup Opening
  BY Unfold DEF QueryFails, RestOK, Fresh, Opening
<1> QED BY <1>1, RejectStep DEF QueryFails

\* The amount both legs of the pre-debit take
LEMMA EffectiveLemma ==
    ASSUME IInv, NEW r \in Requests
    PROVE  /\ Effective(r) \in Nat /\ Amount(r) = Effective(r)
           /\ Effective(r) = IF sess[r].source = "sub" /\ req[r].quota = 0
                             THEN 1 ELSE req[r].quota
BY Unfold DEF Effective, Amount, Profile

\* The check of the token books the pre-debit in the playground only.
LEMMA TokenCheckStep ==
    ASSUME IInv, NEW r \in Requests, TokenCheck(r)
    PROVE  IInv'
<1>0. /\ RestOK' /\ UNCHANGED <<rpc, req, record, taken>>
      /\ pc[r] = "tokenCheck" /\ pc[r] \in Fresh \cup Opening
      /\ {"fundingDebit", "tokenDebit"} \subseteq Location
  BY Unfold DEF TokenCheck, RestOK, Fresh, Opening, Location, PreConsumeStep
<1>1. CASE /\ req[r].playground
           /\ sess' = [sess EXCEPT ![r].tokenConsumed = Effective(r)]
           /\ Goto(r, "fundingDebit")
  <2> DEFINE s == [sess[r] EXCEPT !.tokenConsumed = Effective(r)]
  <2>1. s \in Session /\ sess' = [sess EXCEPT ![r] = s]
    BY <1>1, Unfold, EffectiveLemma, FieldLemma
  <2>2. RequestInv("fundingDebit", rpc[r], req[r], s, record[r], taken[r])
    BY <1>0, <1>1, Unfold, EffectiveLemma DEF Session, Account, RequestInv, Control, TokenHeld, WalletHeld, SubHeld, Fresh, Opening,
     Moved, Pending, Closing, InFlight, NoVerdict, ReserveStep
  <2> QED BY <1>0, <1>1, <2>1, <2>2, QuietStep
<1>2. CASE ~ req[r].playground /\ Goto(r, "tokenDebit") /\ UNCHANGED sess
  <2>1. RequestInv("tokenDebit", rpc[r], req[r], sess[r], record[r], taken[r])
    BY <1>0, <1>2, Unfold DEF Session, Account, RequestInv, Control, TokenHeld, WalletHeld, SubHeld, Fresh, Opening,
     Moved, Pending, Closing, InFlight, NoVerdict, ReserveStep
  <2>2. sess' = [sess EXCEPT ![r] = sess[r]] /\ sess[r] \in Session
    BY <1>2, Unfold, SameLemma
  <2> QED BY <1>0, <1>2, <2>1, <2>2, QuietStep
<1>3. CASE Reject(r)
  BY <1>0, <1>3, RejectStep
<1> QED BY <1>1, <1>2, <1>3 DEF TokenCheck

\* The pre-debit of the token is booked when it is acknowledged.
LEMMA TokenDebitStep ==
    ASSUME IInv, NEW r \in Requests, TokenDebit(r)
    PROVE  IInv'
<1>0. /\ UNCHANGED <<refunding, request, verdict, record, world>>
      /\ pc[r] = "tokenDebit" /\ "token" \in Account
      /\ {"fundingDebit", "rejected"} \subseteq Location
      /\ Effective(r) \in Int
  BY EffectiveLemma DEF TokenDebit, Location, PreConsumeStep, Account
<1>1. PICK o \in Outcomes :
        /\ Post(r, "serve", "token", Effective(r), o)
        /\ IF o = "ok"
           THEN /\ sess' = [sess EXCEPT ![r].tokenConsumed = Effective(r)]
                /\ Goto(r, "fundingDebit")
           ELSE Reject(r)
  BY DEF TokenDebit
<1> DEFINE t == After(taken[r], "token", Effective(r), o)
<1>2. CASE o = "ok"
  <2> DEFINE s == [sess[r] EXCEPT !.tokenConsumed = Effective(r)]
  <2>1. s \in Session /\ sess' = [sess EXCEPT ![r] = s]
    BY <1>1, <1>2, Unfold, EffectiveLemma, FieldLemma
  <2>2. RequestInv("fundingDebit", rpc[r], req[r], s, record[r], t)
    BY <1>0, <1>2, Unfold, EffectiveLemma DEF After, Session, Account, RequestInv, Control, TokenHeld, WalletHeld, SubHeld, Fresh, Opening,
     Moved, Pending, Closing, InFlight, NoVerdict, ReserveStep
  <2> QED BY <1>0, <1>1, <1>2, <2>1, <2>2, PostStep
<1>3. CASE o # "ok"
  <2>1. RequestInv("rejected", rpc[r], req[r], NoSession, record[r], t)
    BY <1>0, Unfold, EffectiveLemma DEF After, NoSession, NewSession, Account, RequestInv, Control, TokenHeld, WalletHeld, SubHeld, Fresh, Opening,
     Moved, Pending, Closing, InFlight, NoVerdict, ReserveStep
  <2> QED BY <1>0, <1>1, <1>3, <2>1, NewSessionLemma, PostStep DEF Reject
<1> QED BY <1>2, <1>3

\* The pre-debit of the payer; a subscription also gets its record.
LEMMA FundingDebitStep ==
    ASSUME IInv, NEW r \in Requests, FundingDebit(r)
    PROVE  IInv'
<1>0. /\ UNCHANGED <<refunding, request, verdict, env>>
      /\ EndRow(r, "serve") /\ rowRead' \in [Requests -> [Goroutine -> Int]]
      /\ pc[r] = "fundingDebit"
      /\ {"relay", "tokenRollback"} \subseteq Location
      /\ sess[r].source \in {"wallet", "sub"} /\ sess[r].source \in Account
      /\ Amount(r) \in Int
  BY Unfold, EndRowLemma, EffectiveLemma DEF Goroutine, FundingDebit, Location, PreConsumeStep, Account,
     RequestInv, Control, Opening, Session
<1>1. CASE /\ sess' = [sess EXCEPT ![r].insufficient = TRUE]
           /\ Goto(r, "tokenRollback")
           /\ UNCHANGED record
           /\ NoPost
  <2> DEFINE s == [sess[r] EXCEPT !.insufficient = TRUE]
  <2>1. s \in Session /\ sess' = [sess EXCEPT ![r] = s]
    BY <1>1, Unfold, FlagLemma
  <2>2. RequestInv("tokenRollback", rpc[r], req[r], s, record[r], taken[r])
    BY <1>0, Unfold DEF Session, Account, RequestInv, Control, TokenHeld, WalletHeld, SubHeld, Fresh, Opening,
     Moved, Pending, Closing, InFlight, NoVerdict, ReserveStep
  <2>3. RestOK'
    BY <1>0, <1>1, Unfold DEF RestOK
  <2> QED BY <1>0, <1>1, <2>1, <2>2, <2>3, QuietStep
<1>2. ASSUME NEW o \in Outcomes,
             Post(r, "serve", sess[r].source, Amount(r), o),
             record' = IF sess[r].source = "sub" /\ o # "fail"
                       THEN [record EXCEPT ![r] = "consumed"] ELSE record,
             IF o = "ok"
             THEN /\ sess' = [sess EXCEPT ![r].consumed = Amount(r),
                                          ![r].preConsumedQuota = Effective(r)]
                  /\ Goto(r, "relay")
             ELSE Goto(r, "tokenRollback") /\ UNCHANGED sess
      PROVE  IInv'
  <2> DEFINE t == After(taken[r], sess[r].source, Amount(r), o)
  <2>1. /\ balance' \in [Account -> Int] /\ trouble' \in [Requests -> BOOLEAN]
        /\ t \in [Account -> Int] /\ taken' = [taken EXCEPT ![r] = t]
    BY <1>0, <1>2, Unfold, PostLemma DEF Goroutine
  <2>2. RestOK' /\ Others(r) /\ rpc'[r] = rpc[r] /\ req'[r] = req[r]
    BY <1>0, <1>2, <2>1, Unfold DEF RestOK, Others
  <2>3. CASE o = "ok"
    <3> DEFINE s == [sess[r] EXCEPT !.consumed = Amount(r),
                                    !.preConsumedQuota = Effective(r)]
    <3>1. s \in Session
      <4>1. [sess[r] EXCEPT !.consumed = Amount(r)] \in Session
        BY Unfold, EffectiveLemma, FieldLemma
      <4>2. s = [[sess[r] EXCEPT !.consumed = Amount(r)]
                    EXCEPT !.preConsumedQuota = Effective(r)]
        OBVIOUS
      <4> QED BY <4>1, <4>2, EffectiveLemma, FieldLemma
    <3>2. sess' = [sess EXCEPT ![r] = s] /\ pc' = [pc EXCEPT ![r] = "relay"]
      BY <1>2, <2>3, Unfold DEF TypeOK, Goto
    <3>3. RequestInv("relay", rpc[r], req[r], s, record'[r], t)
      BY <1>0, <2>3, Unfold, EffectiveLemma DEF After, Session, Account, RequestInv, Control, TokenHeld, WalletHeld, SubHeld, Fresh, Opening,
     Moved, Pending, Closing, InFlight, NoVerdict, ReserveStep
    <3> QED BY <1>0, <2>1, <2>2, <3>1, <3>2, <3>3, OneRequest
  <2>4. CASE o # "ok"
    <3>1. sess' = [sess EXCEPT ![r] = sess[r]] /\ pc' = [pc EXCEPT ![r] = "tokenRollback"]
      BY <1>2, <2>4, Unfold, SameLemma DEF Goto
    <3>a. record'[r] = "consumed" => record[r] = "consumed" \/ (sess[r].source = "sub" /\ o # "fail")
      BY <1>2, Unfold DEF TypeOK
    <3>2. RequestInv("tokenRollback", rpc[r], req[r], sess[r], record'[r], t)
      BY <1>0, <2>4, <3>a, Unfold, EffectiveLemma DEF After, Session, Account, RequestInv, Control, TokenHeld, WalletHeld, SubHeld, Fresh, Opening,
     Moved, Pending, Closing, InFlight, NoVerdict, ReserveStep
    <3> QED BY <1>0, <2>1, <2>2, <3>1, <3>2, Unfold, OneRequest
  <2> QED BY <2>3, <2>4
<1> QED BY <1>1, <1>2 DEF FundingDebit, PreConsumed

\* A record found in place of a pre-debit stands for quota that was taken.
LEMMA FoundRecordStep ==
    ASSUME IInv, NEW r \in Requests, FoundRecord(r)
    PROVE  IInv'
<1>0. /\ RestOK' /\ UNCHANGED <<rpc, req, record, taken>>
      /\ pc[r] = "fundingDebit" /\ record[r] = "consumed" /\ sess[r].source = "sub"
      /\ {"relay", "tokenRollback"} \subseteq Location
  BY Unfold DEF FoundRecord, RestOK, Location, PreConsumeStep
<1>1. CASE PreConsumed(r)
  <2> DEFINE s == [sess[r] EXCEPT !.consumed = Amount(r),
                                  !.preConsumedQuota = Effective(r)]
  <2>1. s \in Session
    <3>1. [sess[r] EXCEPT !.consumed = Amount(r)] \in Session
      BY Unfold, EffectiveLemma, FieldLemma
    <3>2. s = [[sess[r] EXCEPT !.consumed = Amount(r)]
                  EXCEPT !.preConsumedQuota = Effective(r)]
      OBVIOUS
    <3> QED BY <3>1, <3>2, EffectiveLemma, FieldLemma
  <2>2. sess' = [sess EXCEPT ![r] = s] /\ Goto(r, "relay")
    BY <1>1, Unfold DEF PreConsumed, TypeOK
  <2>3. RequestInv("relay", rpc[r], req[r], s, record[r], taken[r])
    BY <1>0, Unfold, EffectiveLemma DEF Session, Account, RequestInv, Control, TokenHeld, WalletHeld, SubHeld, Fresh, Opening,
     Moved, Pending, Closing, InFlight, NoVerdict, ReserveStep
  <2> QED BY <1>0, <2>1, <2>2, <2>3, QuietStep
<1>2. CASE Goto(r, "tokenRollback") /\ UNCHANGED sess
  <2>1. RequestInv("tokenRollback", rpc[r], req[r], sess[r], record[r], taken[r])
    BY <1>0, Unfold DEF Session, Account, RequestInv, Control, TokenHeld, WalletHeld, SubHeld, Fresh, Opening,
     Moved, Pending, Closing, InFlight, NoVerdict, ReserveStep
  <2>2. sess' = [sess EXCEPT ![r] = sess[r]] /\ sess[r] \in Session
    BY <1>2, Unfold, SameLemma
  <2> QED BY <1>0, <1>2, <2>1, <2>2, QuietStep
<1> QED BY <1>1, <1>2 DEF FoundRecord

\* The roll-back of the token gives back no more than the pre-debit took.
LEMMA TokenRollbackStep ==
    ASSUME IInv, NEW r \in Requests, TokenRollback(r)
    PROVE  IInv'
<1>0. /\ UNCHANGED <<refunding, request, verdict, record, world>>
      /\ pc[r] = "tokenRollback" /\ "token" \in Account
      /\ AfterRollback(r) \in {"wallet", "rejected"} /\ AfterRollback(r) \in Location
      /\ - sess[r].tokenConsumed \in Int
      /\ sess' = [sess EXCEPT ![r] = NoSession] /\ Goto(r, AfterRollback(r))
  BY Unfold DEF TokenRollback, AfterRollback, Location, PreConsumeStep, Account, Session
<1>1. CASE req[r].playground /\ NoPost
  <2>1. RequestInv(AfterRollback(r), rpc[r], req[r], NoSession, record[r], taken[r])
    BY <1>0, Unfold DEF NoSession, NewSession, Account, RequestInv, Control, TokenHeld, WalletHeld, SubHeld, Fresh, Opening,
     Moved, Pending, Closing, InFlight, NoVerdict, ReserveStep
  <2>2. RestOK'
    BY <1>0, <1>1, Unfold DEF RestOK
  <2> QED BY <1>0, <1>1, <2>1, <2>2, NewSessionLemma, QuietStep
<1>2. ASSUME NEW o \in Outcomes, ~ req[r].playground,
             Post(r, "serve", "token", - sess[r].tokenConsumed, o)
      PROVE  IInv'
  <2>1. RequestInv(AfterRollback(r), rpc[r], req[r], NoSession, record[r],
                   After(taken[r], "token", - sess[r].tokenConsumed, o))
    BY <1>0, <1>2, Unfold DEF After, NoSession, NewSession, Session, Account, RequestInv, Control, TokenHeld, WalletHeld, SubHeld, Fresh, Opening,
     Moved, Pending, Closing, InFlight, NoVerdict, ReserveStep
  <2> QED BY <1>0, <1>2, <2>1, NewSessionLemma, PostStep
<1> QED BY <1>1, <1>2 DEF TokenRollback

\* A pending session stays as it is while its request moves on.
LEMMA PendingLemma ==
    ASSUME NEW g, NEW q \in Profile, NEW s \in Session, NEW e,
           NEW t \in [Account -> Int], RequestInv("relay", g, q, s, e, t)
    PROVE  \A l \in {"relay", "settle", "fail"} : RequestInv(l, g, q, s, e, t)
BY DEF Session, Profile, Account, RequestInv, Control, TokenHeld, WalletHeld, SubHeld, Fresh, Opening,
     Moved, Pending, Closing, InFlight, NoVerdict, ReserveStep

\* An attempt that succeeds
LEMMA AttemptSucceedsStep ==
    ASSUME IInv, NEW r \in Requests, NEW q \in Actuals, AttemptSucceeds(r, q)
    PROVE  IInv'
<1>1. RestOK'
  BY Unfold, ConstantsAssumption DEF AttemptSucceeds, RestOK
<1>2. RequestInv("settle", rpc[r], req[r], sess[r], record[r], taken[r])
  BY Unfold, PendingLemma DEF AttemptSucceeds
<1>3. sess' = [sess EXCEPT ![r] = sess[r]] /\ Goto(r, "settle") /\ "settle" \in Location
      /\ UNCHANGED <<rpc, req, record, taken>>
  BY Unfold, SameLemma DEF AttemptSucceeds, Location, FinalStep
<1> QED BY <1>1, <1>2, <1>3, Unfold, QuietStep

\* An attempt that fails
LEMMA AttemptFailsStep ==
    ASSUME IInv, NEW r \in Requests, NEW m \in {"none", "billable"},
           NEW last \in BOOLEAN, NEW f \in Fees, AttemptFails(r, m, last, f)
    PROVE  IInv'
<1>1. RestOK'
  BY Unfold, ConstantsAssumption DEF AttemptFails, RestOK
<1>2. PICK l \in {"fail", "relay"} : Goto(r, l)
  BY DEF AttemptFails
<1>3. RequestInv(l, rpc[r], req[r], sess[r], record[r], taken[r])
  BY Unfold, PendingLemma DEF AttemptFails
<1>4. sess' = [sess EXCEPT ![r] = sess[r]] /\ l \in Location
      /\ UNCHANGED <<rpc, req, record, taken>>
  BY Unfold, SameLemma DEF AttemptFails, Location, FinalStep
<1> QED BY <1>1, <1>2, <1>3, <1>4, Unfold, QuietStep

\* Reserve is entered; this is where the hypothesis ReserveSafe is needed.
LEMMA EnterReserve ==
    ASSUME ReserveSafe, IInv, NEW r \in Requests, NEW k \in ReserveTargets, Reserve(r, k)
    PROVE  IInv'
<1>0. /\ RestOK' /\ k \in Nat /\ "lost" \notin Outcomes /\ pc[r] = "relay"
      /\ k - sess[r].preConsumedQuota \in Nat
      /\ Goto(r, "reserveFunding") /\ "reserveFunding" \in Location
      /\ UNCHANGED <<rpc, req, record, taken>>
  BY Unfold, ConstantsAssumption DEF Reserve, RestOK, ReserveSafe, Session,
     Location, ReserveStep
<1> DEFINE s == [sess[r] EXCEPT !.delta = k - sess[r].preConsumedQuota]
<1>1. s \in Session /\ sess' = [sess EXCEPT ![r] = s]
  BY <1>0, Unfold, FieldLemma DEF Reserve
<1>2. RequestInv("reserveFunding", rpc[r], req[r], s, record[r], taken[r])
  BY <1>0, Unfold DEF Session, Account, RequestInv, Control, TokenHeld, WalletHeld, SubHeld, Fresh, Opening,
     Moved, Pending, Closing, InFlight, NoVerdict, ReserveStep
<1> QED BY <1>0, <1>1, <1>2, QuietStep

\* What FundingMoved does to a session in the middle of Reserve.
LEMMA MovedLemma ==
    ASSUME NEW s \in Session, NEW n \in Int, s.consumed + n >= 0
    PROVE  FundingMoved(s, n) \in Session
<1>1. CASE s.source = "wallet"
  <2>1. s.consumed + n \in Nat
    BY DEF Session
  <2>2. FundingMoved(s, n) = [s EXCEPT !.consumed = s.consumed + n]
    BY <1>1 DEF FundingMoved
  <2> QED BY <2>1, <2>2, FieldLemma
<1>2. CASE s.source # "wallet"
  BY <1>2 DEF FundingMoved
<1> QED BY <1>1, <1>2

\* The funding leg of Reserve
LEMMA ReserveFundingStep ==
    ASSUME IInv, NEW r \in Requests, ReserveFunding(r)
    PROVE  IInv'
<1>0. /\ UNCHANGED <<refunding, request, verdict, record, env>>
      /\ EndRow(r, "serve") /\ rowRead' \in [Requests -> [Goroutine -> Int]]
      /\ pc[r] = "reserveFunding" /\ "lost" \notin Outcomes
      /\ {"relay", "reserveCheck"} \subseteq Location
      /\ sess[r].source \in {"wallet", "sub"} /\ sess[r].source \in Account
      /\ sess[r].delta \in Nat /\ sess[r].delta \in Int /\ sess[r].consumed \in Nat
  BY Unfold, EndRowLemma DEF Goroutine, ReserveFunding, Location, ReserveStep, Account, RequestInv, Control,
     Pending, Session
<1>1. CASE Goto(r, "relay") /\ UNCHANGED sess /\ NoPost
  <2>1. RequestInv("relay", rpc[r], req[r], sess[r], record[r], taken[r])
    BY <1>0, Unfold DEF Session, Account, RequestInv, Control, TokenHeld, WalletHeld, SubHeld, Fresh, Opening,
     Moved, Pending, Closing, InFlight, NoVerdict, ReserveStep
  <2>2. RestOK' /\ sess' = [sess EXCEPT ![r] = sess[r]]
    BY <1>0, <1>1, Unfold, SameLemma DEF RestOK
  <2> QED BY <1>0, <1>1, <2>1, <2>2, Unfold, QuietStep
<1> DEFINE moved == FundingMoved(sess[r], sess[r].delta)
<1>2. ASSUME NEW o \in Outcomes, Post(r, "serve", sess[r].source, sess[r].delta, o),
             IF o = "ok"
             THEN IF req[r].playground
                  THEN /\ sess' = [sess EXCEPT ![r] = Reserved(moved)]
                       /\ Goto(r, "relay")
                  ELSE /\ sess' = [sess EXCEPT ![r] = moved]
                       /\ Goto(r, "reserveCheck")
             ELSE Goto(r, "relay") /\ UNCHANGED sess
      PROVE  IInv'
  <2> DEFINE t == After(taken[r], sess[r].source, sess[r].delta, o)
  <2>1. moved \in Session
    BY <1>0, Unfold, MovedLemma
  <2>2. CASE o = "ok" /\ req[r].playground
    <3>1. RequestInv("relay", rpc[r], req[r], Reserved(moved), record[r], t)
      BY <1>0, <2>2, Unfold DEF Reserved, FundingMoved, After, Session, Account, RequestInv, Control, TokenHeld, WalletHeld, SubHeld, Fresh, Opening,
     Moved, Pending, Closing, InFlight, NoVerdict, ReserveStep
    <3> QED BY <1>0, <1>2, <2>1, <2>2, <3>1, ReservedLemma, PostStep
  <2>3. CASE o = "ok" /\ ~ req[r].playground
    <3>1. RequestInv("reserveCheck", rpc[r], req[r], moved, record[r], t)
      BY <1>0, <2>3, Unfold DEF FundingMoved, After, Session, Account, RequestInv, Control, TokenHeld, WalletHeld, SubHeld, Fresh, Opening,
     Moved, Pending, Closing, InFlight, NoVerdict, ReserveStep
    <3> QED BY <1>0, <1>2, <2>1, <2>3, <3>1, PostStep
  <2>4. CASE o # "ok"
    <3>1. t = taken[r]
      BY <1>0, <2>4, ConstantsAssumption DEF After, Outcome
    <3>2. RequestInv("relay", rpc[r], req[r], sess[r], record[r], t)
      BY <1>0, <3>1, Unfold DEF Session, Account, RequestInv, Control, TokenHeld, WalletHeld, SubHeld, Fresh, Opening,
     Moved, Pending, Closing, InFlight, NoVerdict, ReserveStep
    <3>3. sess' = [sess EXCEPT ![r] = sess[r]]
      BY <1>2, <2>4, Unfold, SameLemma
    <3> QED BY <1>0, <1>2, <2>4, <3>2, <3>3, Unfold, PostStep
  <2> QED BY <2>2, <2>3, <2>4
<1> QED BY <1>1, <1>2 DEF ReserveFunding

\* The check of the token in Reserve
LEMMA ReserveCheckStep ==
    ASSUME IInv, NEW r \in Requests, ReserveCheck(r)
    PROVE  IInv'
<1>1. PICK l \in {"reserveDebit", "reserveRollback"} : Goto(r, l)
  BY DEF ReserveCheck
<1>2. /\ RestOK' /\ sess' = [sess EXCEPT ![r] = sess[r]] /\ l \in Location
      /\ UNCHANGED <<rpc, req, record, taken>> /\ pc[r] = "reserveCheck"
  BY Unfold, SameLemma DEF ReserveCheck, RestOK, Location, ReserveStep
<1>3. RequestInv(l, rpc[r], req[r], sess[r], record[r], taken[r])
  BY <1>2, Unfold DEF Session, Account, RequestInv, Control, TokenHeld, WalletHeld, SubHeld, Fresh, Opening,
     Moved, Pending, Closing, InFlight, NoVerdict, ReserveStep
<1> QED BY <1>1, <1>2, <1>3, Unfold, QuietStep

\* The token leg of Reserve
LEMMA ReserveDebitStep ==
    ASSUME IInv, NEW r \in Requests, ReserveDebit(r)
    PROVE  IInv'
<1>0. /\ UNCHANGED <<refunding, request, verdict, record, world>>
      /\ pc[r] = "reserveDebit" /\ "token" \in Account
      /\ {"relay", "reserveRollback"} \subseteq Location
      /\ sess[r].delta \in Nat /\ sess[r].delta \in Int
  BY Unfold DEF ReserveDebit, Location, ReserveStep, Account, Session
<1>1. PICK o \in Outcomes :
        /\ Post(r, "serve", "token", sess[r].delta, o)
        /\ IF o = "ok"
           THEN /\ sess' = [sess EXCEPT ![r] = Reserved(sess[r])]
                /\ Goto(r, "relay")
           ELSE Goto(r, "reserveRollback") /\ UNCHANGED sess
  BY DEF ReserveDebit
<1> DEFINE t == After(taken[r], "token", sess[r].delta, o)
<1>2. CASE o = "ok"
  <2>1. RequestInv("relay", rpc[r], req[r], Reserved(sess[r]), record[r], t)
    BY <1>0, <1>2, Unfold DEF Reserved, After, Session, Account, RequestInv, Control, TokenHeld, WalletHeld, SubHeld, Fresh, Opening,
     Moved, Pending, Closing, InFlight, NoVerdict, ReserveStep
  <2> QED BY <1>0, <1>1, <1>2, <2>1, Unfold, ReservedLemma, PostStep
<1>3. CASE o # "ok"
  <2>1. RequestInv("reserveRollback", rpc[r], req[r], sess[r], record[r], t)
    BY <1>0, <1>3, Unfold DEF After, Session, Account, RequestInv, Control, TokenHeld, WalletHeld, SubHeld, Fresh, Opening,
     Moved, Pending, Closing, InFlight, NoVerdict, ReserveStep
  <2>2. sess' = [sess EXCEPT ![r] = sess[r]]
    BY <1>1, <1>3, Unfold, SameLemma
  <2> QED BY <1>0, <1>1, <1>3, <2>1, <2>2, Unfold, PostStep
<1> QED BY <1>2, <1>3

\* The roll-back of the funding leg: consumed follows what is given back.
LEMMA ReserveRollbackStep ==
    ASSUME IInv, NEW r \in Requests, ReserveRollback(r)
    PROVE  IInv'
<1>0. /\ UNCHANGED <<refunding, request, verdict, record, env>>
      /\ EndRow(r, "serve") /\ rowRead' \in [Requests -> [Goroutine -> Int]]
      /\ pc[r] = "reserveRollback" /\ "lost" \notin Outcomes
      /\ Goto(r, "relay") /\ "relay" \in Location
      /\ sess[r].source \in {"wallet", "sub"} /\ sess[r].source \in Account
      /\ sess[r].delta \in Nat /\ - sess[r].delta \in Int
  BY Unfold, EndRowLemma DEF Goroutine, ReserveRollback, Location, ReserveStep, Account, RequestInv, Control,
     Pending, Moved, Session
<1>1. PICK o \in Outcomes :
        /\ Post(r, "serve", sess[r].source, - sess[r].delta, o)
        /\ sess' = [sess EXCEPT ![r] = IF o = "ok"
                                       THEN FundingMoved(sess[r], - sess[r].delta)
                                       ELSE sess[r]]
  BY DEF ReserveRollback
<1> DEFINE t == After(taken[r], sess[r].source, - sess[r].delta, o)
<1>2. CASE o = "ok"
  <2> DEFINE s == FundingMoved(sess[r], - sess[r].delta)
  <2>1. s \in Session
    <3>1. CASE sess[r].source = "wallet"
      <4>1. sess[r].consumed + (- sess[r].delta) >= 0
        BY <1>0, <3>1, Unfold DEF Session, RequestInv, Control, TokenHeld, WalletHeld, SubHeld, Fresh, Opening,
     Moved, Pending, Closing, InFlight, NoVerdict, ReserveStep
      <4> QED BY <1>0, <4>1, Unfold, MovedLemma
    <3>2. CASE sess[r].source # "wallet"
      BY <3>2, Unfold DEF FundingMoved
    <3> QED BY <3>1, <3>2
  <2>2. RequestInv("relay", rpc[r], req[r], s, record[r], t)
    BY <1>0, <1>2, Unfold DEF FundingMoved, After, Session, Account, RequestInv, Control, TokenHeld, WalletHeld, SubHeld, Fresh, Opening,
     Moved, Pending, Closing, InFlight, NoVerdict, ReserveStep
  <2> QED BY <1>0, <1>1, <1>2, <2>1, <2>2, PostStep
<1>3. CASE o # "ok"
  <2>1. t = taken[r]
    BY <1>0, <1>3, ConstantsAssumption DEF After, Outcome
  <2>2. RequestInv("relay", rpc[r], req[r], sess[r], record[r], t)
    BY <1>0, <2>1, Unfold DEF Session, Account, RequestInv, Control, TokenHeld, WalletHeld, SubHeld, Fresh, Opening,
     Moved, Pending, Closing, InFlight, NoVerdict, ReserveStep
  <2> QED BY <1>0, <1>1, <1>3, <2>2, Unfold, PostStep
<1> QED BY <1>2, <1>3

\* Leave moves a request to the fee or to the end.
LEMMA LeaveLemma ==
    ASSUME NEW r \in Requests, Leave(r)
    PROVE  \E l \in {"fee", "end"} : l \in Location /\ Goto(r, l)
BY DEF Leave, Location, FinalStep

\* Settle up to funding.Settle: the delta never gives back more than was taken.
LEMMA SettleFundingStep ==
    ASSUME IInv, NEW r \in Requests, SettleFunding(r)
    PROVE  IInv'
<1>0. /\ UNCHANGED <<refunding, request, verdict, record, env>>
      /\ EndRow(r, "serve") /\ rowRead' \in [Requests -> [Goroutine -> Int]]
      /\ pc[r] = "settle" /\ "settleToken" \in Location
      /\ sess[r].source \in {"wallet", "sub"} /\ sess[r].source \in Account
      /\ SettleDelta(r) \in Int
      /\ SettleDelta(r) = actual[r] - sess[r].preConsumedQuota
  BY Unfold, EndRowLemma DEF Goroutine, SettleFunding, SettleDelta, Location, FinalStep, Account, RequestInv,
     Control, Pending, Session
<1>1. CASE /\ sess' = [sess EXCEPT ![r].settled = TRUE]
           /\ Leave(r)
           /\ NoPost
  <2> DEFINE s == [sess[r] EXCEPT !.settled = TRUE]
  <2>1. s \in Session /\ sess' = [sess EXCEPT ![r] = s]
    BY <1>1, Unfold, FlagLemma
  <2>2. PICK l \in {"fee", "end"} : l \in Location /\ Goto(r, l)
    BY <1>1, LeaveLemma
  <2>3. RequestInv(l, rpc[r], req[r], s, record[r], taken[r])
    BY <1>0, Unfold DEF Session, Account, RequestInv, Control, TokenHeld, WalletHeld, SubHeld, Fresh, Opening,
     Moved, Pending, Closing, InFlight, NoVerdict, ReserveStep
  <2>4. RestOK'
    BY <1>0, <1>1, Unfold DEF RestOK
  <2> QED BY <1>0, <1>1, <2>1, <2>2, <2>3, <2>4, QuietStep
<1>2. CASE Leave(r) /\ UNCHANGED sess /\ NoPost
  <2>1. PICK l \in {"fee", "end"} : l \in Location /\ Goto(r, l)
    BY <1>2, LeaveLemma
  <2>2. RequestInv(l, rpc[r], req[r], sess[r], record[r], taken[r])
    BY <1>0, Unfold DEF Session, Account, RequestInv, Control, TokenHeld, WalletHeld, SubHeld, Fresh, Opening,
     Moved, Pending, Closing, InFlight, NoVerdict, ReserveStep
  <2>3. RestOK' /\ sess' = [sess EXCEPT ![r] = sess[r]]
    BY <1>0, <1>2, Unfold, SameLemma DEF RestOK
  <2> QED BY <1>0, <1>2, <2>1, <2>2, <2>3, Unfold, QuietStep
<1>3. ASSUME NEW o \in Outcomes, Post(r, "serve", sess[r].source, SettleDelta(r), o),
             IF o = "ok"
             THEN IF req[r].playground
                  THEN /\ sess' = [sess EXCEPT ![r].fundingSettled = TRUE,
                                               ![r].settled = TRUE]
                       /\ Leave(r)
                  ELSE /\ sess' = [sess EXCEPT ![r].fundingSettled = TRUE]
                       /\ Goto(r, "settleToken")
             ELSE Leave(r) /\ UNCHANGED sess
      PROVE  IInv'
  <2> DEFINE t == After(taken[r], sess[r].source, SettleDelta(r), o)
  <2>1. CASE o = "ok" /\ req[r].playground
    <3> DEFINE s == [sess[r] EXCEPT !.fundingSettled = TRUE, !.settled = TRUE]
    <3>1. s \in Session
      BY Unfold, FlagLemma
    <3>2. sess' = [sess EXCEPT ![r] = s]
      BY <1>3, <2>1, Unfold DEF TypeOK
    <3>3. PICK l \in {"fee", "end"} : l \in Location /\ Goto(r, l)
      BY <1>3, <2>1, LeaveLemma
    <3>4. RequestInv(l, rpc[r], req[r], s, record[r], t)
      BY <1>0, <2>1, Unfold DEF After, Session, Account, RequestInv, Control, TokenHeld, WalletHeld, SubHeld, Fresh, Opening,
     Moved, Pending, Closing, InFlight, NoVerdict, ReserveStep
    <3> QED BY <1>0, <1>3, <3>1, <3>2, <3>3, <3>4, PostStep
  <2>2. CASE o = "ok" /\ ~ req[r].playground
    <3> DEFINE s == [sess[r] EXCEPT !.fundingSettled = TRUE]
    <3>1. s \in Session /\ sess' = [sess EXCEPT ![r] = s]
      BY <1>3, <2>2, Unfold, FlagLemma
    <3>2. RequestInv("settleToken", rpc[r], req[r], s, record[r], t)
      BY <1>0, <2>2, Unfold DEF After, Session, Account, RequestInv, Control, TokenHeld, WalletHeld, SubHeld, Fresh, Opening,
     Moved, Pending, Closing, InFlight, NoVerdict, ReserveStep
    <3> QED BY <1>0, <1>3, <2>2, <3>1, <3>2, PostStep
  <2>3. CASE o # "ok"
    <3>1. PICK l \in {"fee", "end"} : l \in Location /\ Goto(r, l)
      BY <1>3, <2>3, LeaveLemma
    <3>2. RequestInv(l, rpc[r], req[r], sess[r], record[r], t)
      BY <1>0, <2>3, Unfold DEF After, Session, Account, RequestInv, Control, TokenHeld, WalletHeld, SubHeld, Fresh, Opening,
     Moved, Pending, Closing, InFlight, NoVerdict, ReserveStep
    <3>3. sess' = [sess EXCEPT ![r] = sess[r]]
      BY <1>3, <2>3, Unfold, SameLemma
    <3> QED BY <1>0, <1>3, <3>1, <3>2, <3>3, Unfold, PostStep
  <2> QED BY <2>1, <2>2, <2>3
<1> QED BY <1>1, <1>2, <1>3 DEF SettleFunding

\* The token leg of Settle
LEMMA SettleTokenStep ==
    ASSUME IInv, NEW r \in Requests, SettleToken(r)
    PROVE  IInv'
<1>0. /\ UNCHANGED <<refunding, request, verdict, record, world>>
      /\ pc[r] = "settleToken" /\ "token" \in Account /\ SettleDelta(r) \in Int
      /\ SettleDelta(r) = actual[r] - sess[r].preConsumedQuota
  BY Unfold DEF SettleToken, SettleDelta, Account, Session
<1>1. PICK o \in Outcomes : Post(r, "serve", "token", SettleDelta(r), o)
  BY DEF SettleToken
<1> DEFINE s == [sess[r] EXCEPT !.settled = TRUE]
           t == After(taken[r], "token", SettleDelta(r), o)
<1>2. s \in Session /\ sess' = [sess EXCEPT ![r] = s]
  BY Unfold, FlagLemma DEF SettleToken
<1>3. PICK l \in {"fee", "end"} : l \in Location /\ Goto(r, l)
  BY LeaveLemma DEF SettleToken
<1>4. RequestInv(l, rpc[r], req[r], s, record[r], t)
  BY <1>0, Unfold DEF After, Session, Account, RequestInv, Control, TokenHeld, WalletHeld, SubHeld, Fresh, Opening,
     Moved, Pending, Closing, InFlight, NoVerdict, ReserveStep
<1> QED BY <1>0, <1>1, <1>2, <1>3, <1>4, PostStep

\* The settlement of a billable error
LEMMA SettleErrorStep ==
    ASSUME IInv, NEW r \in Requests, NEW q \in Actuals, SettleError(r, q)
    PROVE  IInv'
<1>1. RestOK'
  BY Unfold, ConstantsAssumption DEF SettleError, RestOK
<1>2. RequestInv("settle", rpc[r], req[r], sess[r], record[r], taken[r])
  BY Unfold DEF SettleError, Session, Account, RequestInv, Control, TokenHeld, WalletHeld, SubHeld, Fresh, Opening,
     Moved, Pending, Closing, InFlight, NoVerdict, ReserveStep
<1>3. sess' = [sess EXCEPT ![r] = sess[r]] /\ Goto(r, "settle") /\ "settle" \in Location
      /\ UNCHANGED <<rpc, req, record, taken>>
  BY Unfold, SameLemma DEF SettleError, Location, FinalStep
<1> QED BY <1>1, <1>2, <1>3, Unfold, QuietStep

\* Refund marks the session and starts the goroutine, or does nothing.
LEMMA RefundStep ==
    ASSUME IInv, NEW r \in Requests, Refund(r)
    PROVE  IInv'
<1>0. /\ pc[r] = "fail" /\ UNCHANGED <<request, verdict, record, attempt, rows, world>>
      /\ taken' = [taken EXCEPT ![r] = taken[r]] /\ taken[r] \in [Account -> Int]
  BY Unfold, SameLemma DEF Refund
<1>1. PICK l \in {"fee", "end"} : l \in Location /\ Goto(r, l)
  BY LeaveLemma DEF Refund
<1>2. CASE /\ sess' = [sess EXCEPT ![r].refunded = TRUE]
           /\ rpc' = [rpc EXCEPT ![r] = "funding"]
  <2> DEFINE s == [sess[r] EXCEPT !.refunded = TRUE]
  <2>1. s \in Session /\ sess' = [sess EXCEPT ![r] = s]
    BY <1>2, Unfold, FlagLemma
  <2>2. RestOK' /\ Others(r) /\ rpc'[r] = "funding" /\ req'[r] = req[r]
        /\ record'[r] = record[r]
    BY <1>0, <1>2, Unfold DEF RestOK, Others, RefundLocation
  <2>3. RequestInv(l, "funding", req[r], s, record[r], taken[r])
    BY <1>0, Unfold DEF Session, Account, RequestInv, Control, TokenHeld, WalletHeld, SubHeld, Fresh, Opening,
     Moved, Pending, Closing, InFlight, NoVerdict, ReserveStep
  <2> QED BY <1>0, <1>1, <2>1, <2>2, <2>3, OneRequest DEF Goto
<1>3. CASE UNCHANGED <<sess, rpc>>
  <2>1. RequestInv(l, rpc[r], req[r], sess[r], record[r], taken[r])
    BY <1>0, Unfold DEF Session, Account, RequestInv, Control, TokenHeld, WalletHeld, SubHeld, Fresh, Opening,
     Moved, Pending, Closing, InFlight, NoVerdict, ReserveStep
  <2>2. RestOK' /\ sess' = [sess EXCEPT ![r] = sess[r]]
    BY <1>0, <1>3, Unfold, SameLemma DEF RestOK
  <2> QED BY <1>0, <1>1, <1>3, <2>1, <2>2, Unfold, QuietStep
<1> QED BY <1>2, <1>3 DEF Refund

\* The violation fee, charged to the payer
LEMMA FeeFundingStep ==
    ASSUME IInv, NEW r \in Requests, FeeFunding(r)
    PROVE  IInv'
<1>0. /\ UNCHANGED <<refunding, request, sess, mark, actual, record, env>>
      /\ EndRow(r, "serve") /\ rowRead' \in [Requests -> [Goroutine -> Int]]
      /\ pc[r] = "fee" /\ {"end", "feeToken"} \subseteq Location
      /\ BillingSource(r) \in {"wallet", "sub"} /\ BillingSource(r) \in Account
      /\ BillingSource(r) = sess[r].source
      /\ fee[r] \in Nat /\ fee[r] \in Int /\ sess[r] \in Session
      /\ sess' = [sess EXCEPT ![r] = sess[r]]
  BY Unfold, EndRowLemma, SameLemma DEF Goroutine, FeeFunding, BillingSource, Location, FinalStep, Account,
     RequestInv, Control, Closing, Session
<1>1. CASE fee' = [fee EXCEPT ![r] = 0] /\ Goto(r, "end") /\ NoPost
  <2>1. RequestInv("end", rpc[r], req[r], sess[r], record[r], taken[r])
    BY <1>0, Unfold DEF Session, Account, RequestInv, Control, TokenHeld, WalletHeld, SubHeld, Fresh, Opening,
     Moved, Pending, Closing, InFlight, NoVerdict, ReserveStep
  <2>2. RestOK'
    BY <1>0, <1>1, Unfold DEF RestOK
  <2> QED BY <1>0, <1>1, <2>1, <2>2, QuietStep
<1>2. ASSUME NEW o \in Outcomes, Post(r, "serve", BillingSource(r), fee[r], o), UNCHANGED fee,
             Goto(r, IF o = "ok" /\ ~ req[r].playground THEN "feeToken" ELSE "end")
      PROVE  IInv'
  <2>1. PICK l \in {"end", "feeToken"} :
            Goto(r, l) /\ (l = "feeToken" => ~ req[r].playground)
    BY <1>2
  <2>2. RequestInv(l, rpc[r], req[r], sess[r], record[r],
                   After(taken[r], BillingSource(r), fee[r], o))
    BY <1>0, <2>1, Unfold DEF After, Session, Account, RequestInv, Control, TokenHeld, WalletHeld, SubHeld, Fresh, Opening,
     Moved, Pending, Closing, InFlight, NoVerdict, ReserveStep
  <2> QED BY <1>0, <1>2, <2>1, <2>2, PostStep
<1> QED BY <1>1, <1>2 DEF FeeFunding

\* The violation fee, charged to the token
LEMMA FeeTokenStep ==
    ASSUME IInv, NEW r \in Requests, FeeToken(r)
    PROVE  IInv'
<1>0. /\ UNCHANGED <<refunding, request, verdict, record, world>>
      /\ pc[r] = "feeToken" /\ "end" \in Location /\ "token" \in Account
      /\ fee[r] \in Nat /\ fee[r] \in Int /\ sess[r] \in Session /\ Goto(r, "end")
      /\ sess' = [sess EXCEPT ![r] = sess[r]]
  BY Unfold, SameLemma DEF FeeToken, Location, Account
<1>1. PICK o \in Outcomes : Post(r, "serve", "token", fee[r], o)
  BY DEF FeeToken
<1>2. RequestInv("end", rpc[r], req[r], sess[r], record[r],
                 After(taken[r], "token", fee[r], o))
  BY <1>0, Unfold DEF After, Session, Account, RequestInv, Control, TokenHeld, WalletHeld, SubHeld, Fresh, Opening,
     Moved, Pending, Closing, InFlight, NoVerdict, ReserveStep
<1> QED BY <1>0, <1>1, <1>2, PostStep

\* A step of the refund goroutine that writes n on account a and moves on to g.
LEMMA RefundPost ==
    ASSUME IInv, NEW r \in Requests, NEW g \in RefundLocation,
           NEW a \in Account, NEW n \in Int, NEW o \in Outcomes, Post(r, "refund", a, n, o),
           rpc' = [rpc EXCEPT ![r] = g],
           UNCHANGED <<pc, request, sess, verdict, record, attempt, env>>,
           UNCHANGED rowRead \/ EndRow(r, "refund"),
           RequestInv(pc[r], g, req[r], sess[r], record[r], After(taken[r], a, n, o))
    PROVE  IInv'
<1> DEFINE t == After(taken[r], a, n, o)
<1>1. /\ balance' \in [Account -> Int] /\ trouble' \in [Requests -> BOOLEAN]
      /\ t \in [Account -> Int] /\ taken' = [taken EXCEPT ![r] = t]
  BY Unfold, PostLemma DEF Goroutine
<1>a. rowRead' \in [Requests -> [Goroutine -> Int]]
  BY Unfold, EndRowLemma DEF TypeOK, Goroutine
<1>2. /\ RestOK' /\ Others(r) /\ rpc'[r] = g /\ req'[r] = req[r]
      /\ record'[r] = record[r]
  BY <1>1, <1>a, Unfold DEF RestOK, Others
<1>3. sess' = [sess EXCEPT ![r] = sess[r]] /\ pc' = [pc EXCEPT ![r] = pc[r]]
  BY Unfold, SameLemma
<1>4. RequestInv(pc[r], rpc'[r], req'[r], sess[r], record'[r], t)
  BY <1>2
<1> QED BY <1>1, <1>2, <1>3, <1>4, Unfold, OneRequest

\* The refund of the wallet gives back consumed, which was taken.
LEMMA RefundWalletStep ==
    ASSUME IInv, NEW r \in Requests, RefundWallet(r)
    PROVE  IInv'
<1>0. /\ UNCHANGED <<pc, request, sess, verdict, record, attempt, world>>
      /\ rpc[r] = "funding" /\ rpc' = [rpc EXCEPT ![r] = "token"]
      /\ "token" \in RefundLocation /\ "wallet" \in Account
      /\ - sess[r].consumed \in Int /\ sess[r].source = "wallet"
  BY Unfold DEF RefundWallet, RefundLocation, Account, Session
<1>1. PICK o \in Outcomes : Post(r, "refund", "wallet", - sess[r].consumed, o)
  BY DEF RefundWallet
<1>2. RequestInv(pc[r], "token", req[r], sess[r], record[r],
                 After(taken[r], "wallet", - sess[r].consumed, o))
  BY <1>0, Unfold DEF After, Session, Account, RequestInv, Control, TokenHeld, WalletHeld, SubHeld, Fresh, Opening,
     Moved, Pending, Closing, InFlight, NoVerdict, ReserveStep
<1> QED BY <1>0, <1>1, <1>2, RefundPost

\* The refund of a subscription: its record makes a retry harmless.
LEMMA RefundSubscriptionStep ==
    ASSUME IInv, NEW r \in Requests, RefundSubscription(r)
    PROVE  IInv'
<1>0. /\ UNCHANGED <<pc, request, sess, verdict, env>>
      /\ EndRow(r, "refund") /\ rowRead' \in [Requests -> [Goroutine -> Int]]
      /\ rpc[r] = "funding" /\ sess[r].source = "sub"
      /\ RefundDue(r) = (IF record[r] = "consumed" THEN sess[r].consumed ELSE 0)
      /\ RefundDue(r) \in Nat /\ - RefundDue(r) \in Int
      /\ AfterFunding(r) \in {"extra", "token"}
  BY Unfold, EndRowLemma DEF Goroutine, RefundSubscription, RefundDue, AfterFunding, Session
<1>1. PICK o \in Outcomes :
        /\ Apply(r, "refund", "sub", - RefundDue(r), o)
        /\ Report(r, IF GivesUp(r) THEN o ELSE "ok")
        /\ record' = IF o = "fail" THEN record
                                  ELSE [record EXCEPT ![r] = "refunded"]
        /\ IF o = "ok" \/ GivesUp(r)
           THEN rpc' = [rpc EXCEPT ![r] = AfterFunding(r)] /\ UNCHANGED attempt
           ELSE attempt' = [attempt EXCEPT ![r] = NextAttempt(attempt[r])]
                /\ UNCHANGED rpc
  BY DEF RefundSubscription
<1> DEFINE t == After(taken[r], "sub", - RefundDue(r), o)
<1>2. /\ balance' \in [Account -> Int] /\ trouble' \in [Requests -> BOOLEAN]
  BY <1>0, <1>1, Unfold, ConstantsAssumption DEF RestOK, Apply, Report, Debited, Found, Goroutine, Account
<1>3. t \in [Account -> Int] /\ taken' = [taken EXCEPT ![r] = t]
  <2>1. "sub" \in Account
    BY DEF Account
  <2>2. t \in [Account -> Int]
    BY <1>0, <2>1, Unfold DEF After
  <2>3. taken' = [taken EXCEPT ![r] = t]
    BY <1>1, Unfold DEF TypeOK, Apply, After
  <2> QED BY <2>2, <2>3
<1>4. attempt' \in [Requests -> 0 .. MaxAttempts - 1]
  BY <1>1, Unfold DEF RestOK, GivesUp, NextAttempt, MaxAttempts
<1>5. rpc' \in [Requests -> RefundLocation]
  BY <1>0, <1>1, Unfold DEF RestOK, RefundLocation
<1>6. RestOK'
  BY <1>0, <1>1, <1>2, <1>4, <1>5, Unfold DEF RestOK
<1>7. /\ Others(r) /\ req'[r] = req[r]
      /\ rpc'[r] \in {"funding", "extra", "token"} /\ (o = "ok" => rpc'[r] # "funding")
      /\ record'[r] = IF o = "fail" THEN record[r] ELSE "refunded"
  BY <1>0, <1>1, Unfold DEF RestOK, Others
<1>8. sess' = [sess EXCEPT ![r] = sess[r]] /\ pc' = [pc EXCEPT ![r] = pc[r]]
  BY <1>0, Unfold, SameLemma
<1>9. RequestInv(pc[r], rpc'[r], req'[r], sess[r], record'[r], t)
  BY <1>0, <1>7, Unfold DEF After, Session, Account, RequestInv, Control, TokenHeld, WalletHeld, SubHeld, Fresh, Opening,
     Moved, Pending, Closing, InFlight, NoVerdict, ReserveStep
<1> QED BY <1>3, <1>6, <1>7, <1>8, <1>9, Unfold, OneRequest

\* The refund of what Reserve added to a subscription
LEMMA RefundExtraStep ==
    ASSUME IInv, NEW r \in Requests, RefundExtra(r)
    PROVE  IInv'
<1>0. /\ UNCHANGED <<pc, request, sess, verdict, record, attempt, env>>
      /\ EndRow(r, "refund") /\ rowRead' \in [Requests -> [Goroutine -> Int]]
      /\ rpc[r] = "extra" /\ rpc' = [rpc EXCEPT ![r] = "token"]
      /\ "token" \in RefundLocation /\ "sub" \in Account
      /\ - sess[r].extraReserved \in Int
  BY Unfold, EndRowLemma DEF Goroutine, RefundExtra, RefundLocation, Account, Session
<1>1. PICK o \in Outcomes : Post(r, "refund", "sub", - sess[r].extraReserved, o)
  BY DEF RefundExtra
<1>2. RequestInv(pc[r], "token", req[r], sess[r], record[r],
                 After(taken[r], "sub", - sess[r].extraReserved, o))
  BY <1>0, Unfold DEF After, Session, Account, RequestInv, Control, TokenHeld, WalletHeld, SubHeld, Fresh, Opening,
     Moved, Pending, Closing, InFlight, NoVerdict, ReserveStep
<1> QED BY <1>0, <1>1, <1>2, RefundPost

\* The refund of the token
LEMMA RefundTokenStep ==
    ASSUME IInv, NEW r \in Requests, RefundToken(r)
    PROVE  IInv'
<1>0. /\ UNCHANGED <<pc, request, sess, verdict, record, attempt, world>>
      /\ rpc[r] = "token" /\ rpc' = [rpc EXCEPT ![r] = "done"]
      /\ "done" \in RefundLocation /\ "token" \in Account
      /\ - sess[r].tokenConsumed \in Int
  BY Unfold DEF RefundToken, RefundLocation, Account, Session
<1>1. CASE NoPost
  <2>1. RequestInv(pc[r], "done", req[r], sess[r], record[r], taken[r])
    BY <1>0, Unfold DEF Session, Account, RequestInv, Control, TokenHeld, WalletHeld, SubHeld, Fresh, Opening,
     Moved, Pending, Closing, InFlight, NoVerdict, ReserveStep
  <2>2. /\ RestOK' /\ Others(r) /\ rpc'[r] = "done" /\ req'[r] = req[r]
        /\ record'[r] = record[r]
    BY <1>0, <1>1, Unfold DEF RestOK, Others
  <2>3. sess' = [sess EXCEPT ![r] = sess[r]] /\ pc' = [pc EXCEPT ![r] = pc[r]]
        /\ taken' = [taken EXCEPT ![r] = taken[r]]
    BY <1>0, <1>1, Unfold, SameLemma
  <2>4. RequestInv(pc[r], rpc'[r], req'[r], sess[r], record'[r], taken[r])
    BY <2>1, <2>2
  <2> QED BY <2>2, <2>3, <2>4, Unfold, OneRequest
<1>2. ASSUME NEW o \in Outcomes, ~ req[r].playground,
             Post(r, "refund", "token", - sess[r].tokenConsumed, o)
      PROVE  IInv'
  <2>1. RequestInv(pc[r], "done", req[r], sess[r], record[r],
                   After(taken[r], "token", - sess[r].tokenConsumed, o))
    BY <1>0, <1>2, Unfold DEF After, Session, Account, RequestInv, Control, TokenHeld, WalletHeld, SubHeld, Fresh, Opening,
     Moved, Pending, Closing, InFlight, NoVerdict, ReserveStep
  <2> QED BY <1>0, <1>2, <2>1, RefundPost
<1> QED BY <1>1, <1>2 DEF RefundToken

\* The expiry of the subscription touches no request.
LEMMA ExpireStep ==
    ASSUME IInv, Expire
    PROVE  IInv'
BY DEF IInv, TypeOK, RInv, Expire

\* A crash ends goroutines wherever they stand; what they held stays taken.
LEMMA CrashStep ==
    ASSUME IInv, Crash
    PROVE  IInv'
<1>1. /\ pc' \in [Requests -> Location] /\ rpc' \in [Requests -> RefundLocation]
      /\ crashes' \in 0 .. MaxCrashes
      /\ rowRead' \in [Requests -> [Goroutine -> Int]]
  BY ConstantsAssumption DEF IInv, TypeOK, Crash, Location, RefundLocation,
     NoRow
<1>2. TypeOK'
  BY <1>1 DEF IInv, TypeOK, Crash
<1>3. ASSUME NEW r \in Requests
      PROVE  RInv(r)'
  <2>1. /\ \/ pc'[r] = pc[r] /\ pc[r] \in {"idle", "end", "rejected"}
           \/ pc'[r] = "crashed"
        /\ \/ rpc'[r] = rpc[r] /\ rpc[r] \in {"none", "done"}
           \/ rpc'[r] = "crashed" /\ rpc[r] # "none"
        /\ req'[r] = req[r] /\ sess'[r] = sess[r] /\ record'[r] = record[r]
        /\ taken'[r] = taken[r]
    BY DEF Crash
  <2>2. RequestInv(pc'[r], rpc'[r], req[r], sess[r], record[r], taken[r])
    BY <2>1, Unfold DEF Session, Account, RequestInv, Control, TokenHeld, WalletHeld, SubHeld, Fresh, Opening,
     Moved, Pending, Closing, InFlight, NoVerdict, ReserveStep
  <2> QED BY <2>1, <2>2 DEF RInv
<1> QED BY <1>2, <1>3 DEF IInv

-------------------------------------------------------------------------------
(***************************************************************************)
(* The theorems.                                                           *)
(***************************************************************************)

\* The initial states satisfy the invariant.
LEMMA InitIInv ==
    Init => IInv
<1> SUFFICES ASSUME Init PROVE IInv
  OBVIOUS
<1>1. /\ NoProfile \in Profile /\ NoSession \in Session
      /\ balance \in [Account -> Int]
  BY NewSessionLemma, ConstantsAssumption DEF Init, NoProfile, Profile, Kind, Preference,
     Account
<1>2. TypeOK
  <2>1. /\ "idle" \in Location /\ "none" \in RefundLocation
        /\ 0 \in 0 .. MaxAttempts - 1 /\ 0 \in 0 .. MaxCrashes
    BY ConstantsAssumption DEF Location, RefundLocation, MaxAttempts
  <2>2. /\ pc \in [Requests -> Location] /\ rpc \in [Requests -> RefundLocation]
        /\ req \in [Requests -> Profile] /\ sess \in [Requests -> Session]
        /\ attempt \in [Requests -> 0 .. MaxAttempts - 1] /\ crashes \in 0 .. MaxCrashes
        /\ seen \in [Requests -> Int] /\ actual \in [Requests -> Nat]
        /\ retry \in [Requests -> 0 .. RetryTimes]
        /\ rowRead \in [Requests -> [Goroutine -> Int]]
        /\ fee \in [Requests -> Nat] /\ taken \in [Requests -> [Account -> Int]]
    BY <1>1, <2>1, ConstantsAssumption DEF Init, NoRow
  <2>3. /\ mark \in [Requests -> {"none", "billable"}]
        /\ record \in [Requests -> {"none", "consumed", "refunded"}]
        /\ active \in BOOLEAN /\ trouble \in [Requests -> BOOLEAN]
    BY DEF Init
  <2> QED BY <1>1, <2>2, <2>3 DEF TypeOK
<1>3. ASSUME NEW r \in Requests
      PROVE  RInv(r)
  BY <1>3 DEF Init, RInv, NoSession, NewSession, NoProfile, Account, RequestInv, Control, TokenHeld, WalletHeld, SubHeld, Fresh, Opening,
     Moved, Pending, Closing, InFlight, NoVerdict, ReserveStep
<1> QED BY <1>2, <1>3 DEF IInv

\* Every step of the billing core preserves the invariant.
LEMMA NextIInv ==
    ASSUME ReserveSafe, IInv, [Next]_vars
    PROVE  IInv'
<1>1. CASE UNCHANGED vars
  BY <1>1 DEF vars, IInv, TypeOK, RInv
<1>2. ASSUME NEW r \in Requests, PreConsume(r)
      PROVE  IInv'
  BY <1>2, HasSubscriptionStep, TryWalletStep, QueryFailsStep, TokenCheckStep,
     TokenDebitStep, FundingDebitStep, FoundRecordStep, TokenRollbackStep DEF PreConsume
<1>3. ASSUME NEW r \in Requests, Relay(r)
      PROVE  IInv'
  BY <1>3, AttemptSucceedsStep, AttemptFailsStep, EnterReserve DEF Relay
<1>4. ASSUME NEW r \in Requests, ReserveSteps(r)
      PROVE  IInv'
  BY <1>4, ReserveFundingStep, ReserveCheckStep, ReserveDebitStep, ReserveRollbackStep
     DEF ReserveSteps
<1>5. ASSUME NEW r \in Requests, Finish(r)
      PROVE  IInv'
  BY <1>5, SettleFundingStep, SettleTokenStep, SettleErrorStep, RefundStep,
     FeeFundingStep, FeeTokenStep DEF Finish
<1>6. ASSUME NEW r \in Requests, RefundGoroutine(r)
      PROVE  IInv'
  BY <1>6, RefundWalletStep, RefundSubscriptionStep, RefundExtraStep, RefundTokenStep
     DEF RefundGoroutine
<1> QED BY <1>1, <1>2, <1>3, <1>4, <1>5, <1>6, BeginStep, RetryTaskStep, ReadRowStep, ExpireStep,
           CrashStep DEF Next

\* The inductive invariant holds in every reachable state.
THEOREM Invariance ==
    ASSUME ReserveSafe
    PROVE  Spec => []IInv
<1>1. IInv /\ [Next]_vars => IInv'
  BY NextIInv
<1> QED BY InitIInv, <1>1, PTL DEF Spec

\* Every variable of the billing core stays in its domain: in particular no
\* amount a BillingSession keeps ever becomes negative, whatever roll-backs,
\* failures and crashes happen.
THEOREM TypeCorrect ==
    ASSUME ReserveSafe
    PROVE  Spec => []TypeOK
<1>1. IInv => TypeOK
  BY DEF IInv
<1> QED BY <1>1, Invariance, PTL

\* No account gets back more than a request took from it, for any number of
\* concurrent requests, any amounts, any pattern of failing or lost writes,
\* retries and crashes.
THEOREM NeverOverRefunds ==
    ASSUME ReserveSafe
    PROVE  Spec => []NoOverRefund
<1>1. IInv => NoOverRefund
  BY DEF IInv, RInv, RequestInv, NoOverRefund
<1> QED BY <1>1, Invariance, PTL

\* No session is both refunded and settled, nor refunded once funding.Settle
\* has been committed.
THEOREM OneVerdict ==
    ASSUME ReserveSafe
    PROVE  Spec => []SettledOrRefunded
<1>1. IInv => SettledOrRefunded
  BY DEF IInv, RInv, RequestInv, Control, SettledOrRefunded
<1> QED BY <1>1, Invariance, PTL

===============================================================================

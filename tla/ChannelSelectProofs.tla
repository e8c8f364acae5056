-------------------------- MODULE ChannelSelectProofs --------------------------
(***************************************************************************)
(* Proofs about ChannelSelect for every set of channels, requests and      *)
(* groups, every number of retries and any number of tests and events: the *)
(* two maps of the channel cache agree, the search of a request comes to   *)
(* an end, and it leaves none of the user's groups out.                    *)
(***************************************************************************)
EXTENDS ChannelSelect, WellOrdering, TLAPS

\* A table of rows has an entry for every channel and for nothing else.
Table(f) == f = [c \in Channels |-> f[c]]

\* ListedEnabled speaks of idm alone; a rebuild puts rows there that were read
\* from db and kept in fresh, so all of them have to be tables.
CacheInv ==
    /\ Table(db) /\ Table(idm)
    /\ \A s \in Syncers : fresh[s] # NoRows => Table(fresh[s])
    /\ fresh = [s \in Syncers |-> fresh[s]]
    /\ ListedEnabled

\* A step that leaves the database, the cache and the rebuilds alone keeps the
\* invariant.
LEMMA Elsewhere ==
    ASSUME CacheInv, UNCHANGED <<db, cache, fresh>>
    PROVE  CacheInv'
BY DEF CacheInv, cache, Table, ListedEnabled, Enabled

\* A write to the database gives a table again.
LEMMA RowWrite ==
    ASSUME NEW c, NEW s, CacheInv, db' = [db EXCEPT ![c] = s], UNCHANGED cache,
           UNCHANGED fresh
    PROVE  CacheInv'
BY DEF CacheInv, cache, Table, ListedEnabled, Enabled

\* Every step of a request leaves them alone.
LEMMA ServeStep ==
    ASSUME NEW r \in Requests, CacheInv, Serve(r)
    PROVE  CacheInv'
<1>1. UNCHANGED <<db, cache, fresh>>
  BY DEF Serve, Distribute, Retry, Succeed, Prefer, Refuse, Fail
<1> QED BY <1>1, Elsewhere

\* CacheUpdateChannelStatus takes a channel off the lists in the same critical
\* section in which it changes its status.
LEMMA UpdateCacheStep ==
    ASSUME CacheInv, UpdateCache
    PROVE  CacheInv'
<1>1. /\ UNCHANGED <<db, fresh>>
      /\ idm' = [idm EXCEPT ![job.ch] = IF @ = Missing THEN @ ELSE job.status]
      /\ listed' = ListedAfter(job.ch, job.status)
  BY DEF UpdateCache
<1>2. Table(db)' /\ Table(idm)' /\ (\A s \in Syncers : fresh[s] # NoRows => Table(fresh[s]))'
        /\ (fresh = [s \in Syncers |-> fresh[s]])'
  BY <1>1 DEF CacheInv, Table, NoRows
<1>3. ASSUME NEW c \in listed' PROVE c \in Channels /\ idm'[c] = "enabled"
  <2>1. c \in listed /\ c \in Channels /\ idm[c] = "enabled"
    BY <1>1, <1>3 DEF CacheInv, ListedEnabled, Enabled, ListedAfter
  <2>2. CASE c = job.ch
    <3>1. job.status = "enabled"
      BY <1>1, <1>3, <2>2 DEF ListedAfter
    <3> QED BY <1>1, <2>1, <2>2, <3>1 DEF CacheInv, Table, Missing
  <2>3. CASE c # job.ch
    BY <1>1, <2>1, <2>3 DEF CacheInv, Table
  <2> QED BY <2>1, <2>2, <2>3
<1>4. ListedEnabled'
  BY <1>3 DEF ListedEnabled, Enabled
<1> QED BY <1>2, <1>4 DEF CacheInv

LEMMA UpdateStep ==
    ASSUME CacheInv, Update
    PROVE  CacheInv'
<1>1. CASE \E j \in queue : Lock(j)
  BY <1>1, Elsewhere DEF Lock
<1>2. CASE UpdateCache
  BY <1>2, UpdateCacheStep
<1>3. CASE UpdateRead
  BY <1>3, Elsewhere DEF UpdateRead
<1>4. CASE \E ok \in BOOLEAN : UpdateSave(ok)
  <2>1. UNCHANGED <<cache, fresh>> /\ (\/ UNCHANGED db
                                      \/ db' = [db EXCEPT ![job.ch] = job.status])
    BY <1>4 DEF UpdateSave
  <2> QED BY <2>1, Elsewhere, RowWrite
<1> QED BY <1>1, <1>2, <1>3, <1>4 DEF Update

\* A rebuild swaps both maps at once, from the same rows.
LEMMA SyncStep ==
    ASSUME NEW s \in Syncers, CacheInv,
           SyncRead(s) \/ SyncFails(s) \/ SyncSwap(s) \/ SyncPanics(s)
    PROVE  CacheInv'
<1>1. CASE SyncRead(s)
  <2>1. /\ UNCHANGED <<db, idm, listed>>
        /\ fresh' = [fresh EXCEPT ![s] = db]
    BY <1>1 DEF SyncRead, cache
  <2> QED BY <2>1 DEF CacheInv, Table, ListedEnabled, Enabled
<1>2. CASE SyncFails(s)
  <2>1. /\ UNCHANGED <<db, idm, listed>>
        /\ fresh' = [fresh EXCEPT ![s] = [c \in Channels |-> Missing]]
    BY <1>2 DEF SyncFails, cache
  <2> QED BY <2>1 DEF CacheInv, Table, ListedEnabled, Enabled
<1>3. CASE SyncSwap(s)
  <2>1. /\ UNCHANGED db
        /\ fresh[s] # NoRows /\ idm' = fresh[s] /\ listed' = Enabled(fresh[s])
        /\ fresh' = [fresh EXCEPT ![s] = NoRows]
    BY <1>3 DEF SyncSwap, Rebuilt
  <2> QED BY <2>1 DEF CacheInv, Table, ListedEnabled, Enabled, NoRows
<1>4. CASE SyncPanics(s)
  <2>1. CASE Restart
    BY <1>4, <2>1 DEF SyncPanics, Restart, CacheInv, Table, ListedEnabled, Enabled, NoRows
  <2>2. CASE fresh' = [fresh EXCEPT ![s] = NoRows] /\ UNCHANGED cache
    BY <1>4, <2>2 DEF SyncPanics, CacheInv, cache, Table, ListedEnabled, Enabled, NoRows
  <2> QED BY <1>4, <2>1, <2>2 DEF SyncPanics
<1> QED BY <1>1, <1>2, <1>3, <1>4

LEMMA CacheInit == Init => CacheInv
BY DEF Init, CacheInv, Table, ListedEnabled, NoRows, Enabled

LEMMA CacheNext == CacheInv /\ [Next]_vars => CacheInv'
<1> SUFFICES ASSUME CacheInv, [Next]_vars PROVE CacheInv'
  OBVIOUS
<1>1. CASE UNCHANGED vars
  BY <1>1, Elsewhere DEF vars, cache
<1>2. ASSUME NEW r \in Requests, Serve(r) PROVE CacheInv'
  BY <1>2, ServeStep
<1>3. ASSUME NEW r \in Requests, NEW a \in Asks, Arrive(r, a) PROVE CacheInv'
  BY <1>3, Elsewhere DEF Arrive
<1>4. CASE Update
  BY <1>4, UpdateStep
<1>5. ASSUME NEW s \in Syncers, SyncRead(s) \/ SyncFails(s) \/ SyncSwap(s) \/ SyncPanics(s)
      PROVE  CacheInv'
  BY <1>5, SyncStep
<1>6. CASE TestStart
  BY <1>6, Elsewhere DEF TestStart
<1>7. ASSUME NEW c \in Channels, NEW passes \in BOOLEAN, Test(c, passes)
      PROVE  CacheInv'
  BY <1>7, Elsewhere DEF Test
<1>8. ASSUME NEW c \in Channels, NEW s \in Status, Administer(c, s)
      PROVE  CacheInv'
  <2>1. db' = [db EXCEPT ![c] = s] /\ UNCHANGED cache /\ UNCHANGED fresh
    BY <1>8 DEF Administer
  <2> QED BY <2>1, RowWrite
<1> QED BY <1>1, <1>2, <1>3, <1>4, <1>5, <1>6, <1>7, <1>8 DEF Next

\* Whatever rebuilds, status updates, tests and writes run into each other, a
\* channel that is offered to requests is in channelsIDM and enabled there.
THEOREM CacheConsistent == Spec => []ListedEnabled
<1>1. Init => CacheInv
  BY CacheInit
<1>2. CacheInv /\ [Next]_vars => CacheInv'
  BY CacheNext
<1>3. CacheInv => ListedEnabled
  BY DEF CacheInv
<1> QED BY <1>1, <1>2, <1>3, PTL DEF Spec

-------------------------------------------------------------------------------
(***************************************************************************)
(* Types, groups and the number of attempts.  TypeOK is not inductive: the *)
(* channel of an attempt that fails goes into the queue, and the one of    *)
(* the job that holds the lock into the maps.                              *)
(***************************************************************************)
Row == Status \cup {Missing}

CacheType ==
    /\ db \in [Channels -> Status] /\ idm \in [Channels -> Row]
    /\ listed \subseteq Channels
    /\ fresh \in [Syncers -> [Channels -> Row] \cup {NoRows}]

JobType ==
    /\ queue \subseteq [ch: Channels, status: Status]
    /\ job \in [ch: Channels \cup {NoChannel}, status: Status,
                step: {"none", "cache", "read", "save"}]
    /\ job.step # "none" => job.ch \in Channels

TestType ==
    /\ test \in [Channels -> Status \cup {NotTested}]
    /\ tests \in 0 .. MaxTests

EventsType == events \in 0 .. MaxEvents

Ask      == [group: Groups \cup {AutoGroup}, cross: BOOLEAN]
Counter  == [n: 0 .. RetryTimes, reset: BOOLEAN]
Choice   == Channels \cup {NoChannel}
Position == {"idle", "distribute", "attempt", "retry", "done"}

RequestType ==
    /\ pc \in [Requests -> Position]
    /\ ask \in [Requests -> Ask]
    /\ retry \in [Requests -> Counter]
    /\ index \in [Requests -> 0 .. NumGroups + 1]
    /\ choice \in [Requests -> Choice]
    /\ tries \in [Requests -> Nat]
    /\ seen \in [Requests -> SUBSET Groups]

\* The attempts that fit in the groups before the one the search starts from
Before(i) == (IF i = 0 THEN 0 ELSE i - 1) * (RetryTimes + 1)

(***************************************************************************)
(* How many attempts, l, a request at position p has made, from what it    *)
(* asks, its retry counter v and its group index i: the groups it has left *)
(* account for RetryTimes + 1 each, the counter for the rest.  A counter   *)
(* that is to be reset belongs to a group that has been left already.      *)
(***************************************************************************)
Budget(p, a, v, i, l) ==
    /\ p \in {"idle", "distribute", "done"} => v = NoRetry /\ i = 0 /\ l = 0
    /\ p = "retry" => ~ v.reset
    /\ v.reset => v.n = 0
    /\ IF a.group = AutoGroup
       THEN /\ l <= (RetryTimes + 1) * NumGroups
            /\ p = "retry" => l <= Before(i) + v.n
            /\ p = "attempt" => l <= Before(i) + (IF v.reset THEN 0 ELSE v.n + 1)
       ELSE /\ ~ v.reset
            /\ p = "retry" => l <= v.n
            /\ p = "attempt" => l <= v.n + 1

\* A request that makes an attempt has a channel.
Chosen(p, x) == p = "attempt" => x \in Channels

\* The search has been in every group before the one it starts from.
Looked(a, i, gs) == a.group = AutoGroup => \A g \in Groups : g < i => g \in gs

RequestInv ==
    \A r \in Requests :
        /\ Budget(pc[r], ask[r], retry[r], index[r], tries[r])
        /\ Chosen(pc[r], choice[r])
        /\ Looked(ask[r], index[r], seen[r])

SelectInv ==
    CacheType /\ JobType /\ TestType /\ EventsType /\ RequestType /\ RequestInv

\* The parts of TypeOK are what it says.
LEMMA SelectTypes == SelectInv => TypeOK
BY DEF SelectInv, CacheType, JobType, TestType, EventsType, RequestType, TypeOK, Row, Ask,
   Counter, Choice, Position

-------------------------------------------------------------------------------
(***************************************************************************)
(* The search for a channel.                                               *)
(***************************************************************************)

\* What Min returns.
LEMMA MinLemma ==
    ASSUME NEW S, S \subseteq Nat, S # {}
    PROVE  Min(S) \in S /\ \A y \in S : Min(S) <= y
BY NatMinimum DEF Min

\* A channel that is drawn is one of the list it is drawn from.
LEMMA CandidatesLemma ==
    ASSUME NEW g, NEW n
    PROVE  Candidates(g, n) \subseteq InGroup(g)
BY DEF Candidates, Drawn

\* The search has ended in group g with channel c.
Found(r, n, keeps, c, g) ==
    /\ c \in listed /\ g \in GroupsOf[c] /\ g \in Groups
    /\ \/ /\ ask[r].group # AutoGroup /\ ask[r].group = g /\ UNCHANGED <<index, retry>>
          /\ Attempt(r, c, {g})
       \/ /\ ask[r].group = AutoGroup /\ Attempt(r, c, StartIndex(r) .. g)
          /\ StartIndex(r) <= g
          /\ \/ /\ g = StartIndex(r) => n >= RetryTimes
                /\ g > StartIndex(r) => RetryTimes = 0
                /\ index' = [index EXCEPT ![r] = g + 1]
                /\ retry' = IF keeps THEN [retry EXCEPT ![r] = [n |-> 0, reset |-> TRUE]]
                                     ELSE retry
             \/ /\ index' = [index EXCEPT ![r] = g]
                /\ retry' = IF keeps
                            THEN [retry EXCEPT ![r] =
                                    [retry[r] EXCEPT !.n = IF g > StartIndex(r) THEN 0
                                                           ELSE retry[r].n]]
                            ELSE retry

LEMMA FindLemma ==
    ASSUME CacheType, RequestType, NEW r \in Requests, NEW n \in Nat, NEW keeps \in BOOLEAN,
           Find(r, n, keeps)
    PROVE  Ended(r) \/ \E c \in Channels, g \in Groups : Found(r, n, keeps, c, g)
<1>0. /\ listed \subseteq Channels /\ NumGroups \in Nat /\ RetryTimes \in Nat
      /\ ask[r] \in Ask /\ index[r] \in 0 .. NumGroups + 1
      /\ StartIndex(r) \in Nat /\ StartIndex(r) >= 1
  BY SelectConstants DEF CacheType, RequestType, StartIndex
<1>1. CASE ask[r].group # AutoGroup
  <2>1. FindIn(r, ask[r].group, n) /\ ask[r].group \in Groups
    BY <1>0, <1>1 DEF Find, Ask
  <2>2. CASE InGroup(ask[r].group) = {}
    BY <2>1, <2>2 DEF FindIn
  <2>3. CASE InGroup(ask[r].group) # {}
    <3>1. PICK c \in Candidates(ask[r].group, n) : Attempt(r, c, {ask[r].group})
      BY <2>1, <2>3 DEF FindIn
    <3>2. c \in listed /\ ask[r].group \in GroupsOf[c] /\ c \in Channels
      BY <1>0, <3>1, CandidatesLemma DEF InGroup
    <3>3. UNCHANGED <<index, retry>>
      BY <2>1, <2>3 DEF FindIn
    <3> QED BY <1>1, <2>1, <3>1, <3>2, <3>3 DEF Found
  <2> QED BY <2>2, <2>3
<1>2. CASE ask[r].group = AutoGroup
  <2> DEFINE start == StartIndex(r)
             open == {j \in start .. NumGroups : InGroup(j) # {}}
             i == Min(open)
             k == IF i > start THEN 0 ELSE n
  <2>1. FindAuto(r, n, keeps)
    BY <1>2 DEF Find
  <2>2. CASE open = {}
    BY <2>1, <2>2 DEF FindAuto
  <2>3. CASE open # {}
    <3>1. i \in open
      <4>1. open \subseteq Nat
        BY <1>0
      <4> HIDE DEF open
      <4> QED BY <2>3, <4>1, MinLemma
    <3>2. i \in Groups /\ start <= i
      BY <1>0, <3>1 DEF Groups
    <3>3. PICK c \in Candidates(i, k) : Attempt(r, c, start .. i)
      BY <2>1, <2>3 DEF FindAuto
    <3>4. c \in listed /\ i \in GroupsOf[c] /\ c \in Channels
      BY <1>0, <3>3, CandidatesLemma DEF InGroup
    <3>5. IF UsedUp(r, k)
          THEN /\ index' = [index EXCEPT ![r] = NextIndex(i)]
               /\ retry' = IF keeps THEN [retry EXCEPT ![r] = [n |-> 0, reset |-> TRUE]]
                                    ELSE retry
          ELSE /\ index' = [index EXCEPT ![r] = i]
               /\ retry' = IF keeps
                           THEN [retry EXCEPT ![r] =
                                   [retry[r] EXCEPT !.n = IF i > start THEN 0
                                                          ELSE retry[r].n]]
                           ELSE retry
      BY <2>1, <2>3 DEF FindAuto
    <3>6. /\ UsedUp(r, k) => /\ i = start => n >= RetryTimes
                             /\ i > start => RetryTimes = 0
          /\ NextIndex(i) = i + 1
      BY <1>0, <3>2 DEF UsedUp, NextIndex, Groups
    <3>7. Found(r, n, keeps, c, i)
      <4> HIDE DEF i, k, start
      <4>1. CASE UsedUp(r, k)
        BY <1>2, <3>2, <3>3, <3>4, <3>5, <3>6, <4>1 DEF Found, start
      <4>2. CASE ~ UsedUp(r, k)
        BY <1>2, <3>2, <3>3, <3>4, <3>5, <3>6, <4>2 DEF Found, start
      <4> QED BY <4>1, <4>2
    <3> QED BY <3>2, <3>4, <3>7
  <2> QED BY <2>2, <2>3
<1> QED BY <1>1, <1>2

-------------------------------------------------------------------------------
(***************************************************************************)
(* Steps of a request.                                                     *)
(***************************************************************************)

\* The step leaves the other requests alone.
OthersWait(r) ==
    \A q \in Requests \ {r} :
        /\ pc'[q] = pc[q] /\ ask'[q] = ask[q] /\ retry'[q] = retry[q]
        /\ index'[q] = index[q] /\ choice'[q] = choice[q] /\ tries'[q] = tries[q]
        /\ seen'[q] = seen[q]

\* The request r satisfies the invariant after the step.
Holds(r) ==
    /\ RequestType' /\ OthersWait(r)
    /\ Budget(pc'[r], ask'[r], retry'[r], index'[r], tries'[r])
    /\ Chosen(pc'[r], choice'[r])
    /\ Looked(ask'[r], index'[r], seen'[r])

LEMMA RequestStep ==
    ASSUME RequestInv, NEW r \in Requests, Holds(r)
    PROVE  RequestType' /\ RequestInv'
<1>1. ASSUME NEW q \in Requests
      PROVE  (Budget(pc[q], ask[q], retry[q], index[q], tries[q])
                /\ Chosen(pc[q], choice[q]) /\ Looked(ask[q], index[q], seen[q]))'
  <2>1. CASE q = r
    BY <2>1 DEF Holds
  <2>2. CASE q # r
    BY <2>2 DEF Holds, OthersWait, RequestInv
  <2> QED BY <2>1, <2>2
<1> QED BY <1>1 DEF RequestInv, Holds

\* The types of what belongs to one request.
LEMMA OneType ==
    ASSUME RequestType, NEW r \in Requests
    PROVE  /\ pc[r] \in Position /\ ask[r] \in Ask /\ retry[r] \in Counter
           /\ index[r] \in 0 .. NumGroups + 1 /\ choice[r] \in Choice
           /\ tries[r] \in Nat /\ seen[r] \in SUBSET Groups
           /\ retry[r].n \in 0 .. RetryTimes /\ retry[r].reset \in BOOLEAN
           /\ NumGroups \in Nat /\ NumGroups >= 1 /\ RetryTimes \in Nat
BY SelectConstants DEF RequestType, Counter

\* A request that ends leaves nothing behind.
LEMMA EndedHolds ==
    ASSUME RequestType, NEW r \in Requests, Ended(r)
    PROVE  Holds(r)
<1>1. /\ "done" \in Position /\ NoAsk \in Ask /\ NoRetry \in Counter
      /\ 0 \in 0 .. NumGroups + 1 /\ NoChannel \in Choice
  BY SelectConstants DEF Position, NoAsk, Ask, NoRetry, Counter, Choice
<1>2. RequestType' /\ OthersWait(r)
  BY <1>1 DEF RequestType, Ended, OthersWait
<1>3. /\ pc'[r] = "done" /\ ask'[r] = NoAsk /\ retry'[r] = NoRetry /\ index'[r] = 0
      /\ tries'[r] = 0
  BY DEF RequestType, Ended
<1>4. 0 <= (RetryTimes + 1) * NumGroups
  BY SelectConstants
<1>5. Budget(pc'[r], ask'[r], retry'[r], index'[r], tries'[r])
  BY <1>1, <1>3, <1>4 DEF Budget, NoAsk, NoRetry
<1>6. Looked(ask'[r], index'[r], seen'[r])
  BY <1>3, SelectConstants DEF Looked, Groups
<1> QED BY <1>2, <1>3, <1>5, <1>6 DEF Holds, Chosen

\* What an attempt adds to the request.
LEMMA AttemptLemma ==
    ASSUME RequestType, NEW r \in Requests, NEW c \in Channels, NEW gs \in SUBSET Groups,
           Attempt(r, c, gs)
    PROVE  /\ pc' \in [Requests -> Position] /\ ask' \in [Requests -> Ask]
           /\ choice' \in [Requests -> Choice] /\ tries' \in [Requests -> Nat]
           /\ seen' \in [Requests -> SUBSET Groups]
           /\ pc'[r] = "attempt" /\ ask'[r] = ask[r]
           /\ tries'[r] = tries[r] + 1 /\ seen'[r] = seen[r] \cup gs
           /\ Chosen(pc'[r], choice'[r])
           /\ \A q \in Requests \ {r} :
                 /\ pc'[q] = pc[q] /\ ask'[q] = ask[q] /\ seen'[q] = seen[q]
                 /\ choice'[q] = choice[q] /\ tries'[q] = tries[q]
BY DEF RequestType, Attempt, Chosen, Choice, Position

\* The budget of the groups before a later one holds one more group.
LEMMA BeforeLemma ==
    ASSUME NEW i \in Nat, NEW j \in Nat, 1 <= i
    PROVE  /\ Before(i) \in Nat /\ Before(0) = 0 /\ Before(1) = 0
           /\ i < j => Before(i) + RetryTimes + 1 <= Before(j)
           /\ Before(i + 1) = Before(i) + RetryTimes + 1
           /\ i <= NumGroups => Before(i) + RetryTimes + 1 <= (RetryTimes + 1) * NumGroups
<1>1. RetryTimes \in Nat /\ NumGroups \in Nat
  BY SelectConstants
<1> DEFINE R == RetryTimes + 1
<1>2. R \in Nat /\ R >= 1
  BY <1>1
<1> HIDE DEF R
<1>3. ASSUME NEW a \in Nat, NEW b \in Nat, a <= b
      PROVE  a * R <= b * R /\ a * R \in Nat
  <2>1. (b - a) * R >= 0
    BY <1>2, <1>3
  <2>2. (b - a) * R = b * R - a * R
    BY <1>2
  <2> QED BY <1>2, <2>1, <2>2
<1>4. i * R = (i - 1) * R + R
  BY <1>2
<1>5. Before(i) = (i - 1) * R /\ Before(0) = 0 /\ Before(1) = 0
      /\ Before(i + 1) = i * R
  BY <1>2 DEF Before, R
<1>6. i < j => Before(i) + R <= Before(j)
  <2>1. SUFFICES ASSUME i < j PROVE Before(i) + R <= Before(j)
    OBVIOUS
  <2>2. Before(j) = (j - 1) * R /\ j - 1 \in Nat /\ i <= j - 1
    BY <2>1 DEF Before, R
  <2> QED BY <1>3, <1>4, <1>5, <2>2
<1>7. i <= NumGroups => Before(i) + R <= R * NumGroups
  <2>1. SUFFICES ASSUME i <= NumGroups PROVE Before(i) + R <= R * NumGroups
    OBVIOUS
  <2>2. R * NumGroups = NumGroups * R
    BY <1>1, <1>2
  <2> QED BY <1>1, <1>3, <1>4, <1>5, <2>1, <2>2
<1>8. Before(i) \in Nat
  <2>1. i - 1 \in Nat /\ i - 1 <= i
    OBVIOUS
  <2> QED BY <1>3, <1>5, <2>1
<1> QED BY <1>1, <1>4, <1>5, <1>6, <1>7, <1>8 DEF R

\* The search adds an attempt that fits in the budget, for a request that has
\* made fewer than those of the groups before its own and of its counter n.
LEMMA FoundHolds ==
    ASSUME CacheType, RequestType, NEW r \in Requests, NEW n \in Nat, NEW keeps \in BOOLEAN,
           NEW c \in Channels, NEW g \in Groups, Found(r, n, keeps, c, g),
           Looked(ask[r], index[r], seen[r]),
           n = retry[r].n, ~ retry[r].reset,
           IF ask[r].group = AutoGroup THEN tries[r] <= Before(index[r]) + n
                                       ELSE tries[r] <= n,
           ~ keeps => tries[r] = 0
    PROVE  Holds(r)
<1>0. /\ ask[r] \in Ask /\ retry[r] \in Counter /\ index[r] \in 0 .. NumGroups + 1
      /\ tries[r] \in Nat /\ n <= RetryTimes /\ NumGroups \in Nat /\ RetryTimes \in Nat
      /\ g \in Nat /\ 1 <= g /\ g <= NumGroups
  BY OneType DEF Groups
<1> DEFINE gs == IF ask[r].group = AutoGroup THEN StartIndex(r) .. g ELSE {g}
<1>1. /\ Attempt(r, c, gs) /\ gs \subseteq Groups
      /\ StartIndex(r) \in Nat /\ StartIndex(r) >= 1
  BY <1>0 DEF Found, StartIndex, Groups
<1>2. /\ pc' \in [Requests -> Position] /\ ask' \in [Requests -> Ask]
      /\ choice' \in [Requests -> Choice] /\ tries' \in [Requests -> Nat]
      /\ seen' \in [Requests -> SUBSET Groups]
      /\ pc'[r] = "attempt" /\ ask'[r] = ask[r]
      /\ tries'[r] = tries[r] + 1 /\ seen'[r] = seen[r] \cup gs
      /\ Chosen(pc'[r], choice'[r])
      /\ \A q \in Requests \ {r} :
            /\ pc'[q] = pc[q] /\ ask'[q] = ask[q] /\ seen'[q] = seen[q]
            /\ choice'[q] = choice[q] /\ tries'[q] = tries[q]
  <2> HIDE DEF gs
  <2> QED BY <1>1, AttemptLemma
<1>3. ASSUME NEW v \in Counter, NEW i \in 0 .. NumGroups + 1,
             retry' = [retry EXCEPT ![r] = v], index' = [index EXCEPT ![r] = i],
             ask[r].group = AutoGroup => i <= g + 1,
             Budget("attempt", ask[r], v, i, tries[r] + 1)
      PROVE  Holds(r)
  <2>1. /\ retry' \in [Requests -> Counter] /\ index' \in [Requests -> 0 .. NumGroups + 1]
        /\ retry'[r] = v /\ index'[r] = i
        /\ \A q \in Requests \ {r} : retry'[q] = retry[q] /\ index'[q] = index[q]
    BY <1>3 DEF RequestType
  <2>2. ASSUME ask[r].group = AutoGroup, NEW h \in Groups, h < i PROVE h \in seen[r] \cup gs
    <3>1. h \in Nat /\ 1 <= h /\ h <= g /\ i \in Nat
      BY <1>0, <1>3, <2>2 DEF Groups
    <3>2. CASE h >= StartIndex(r)
      BY <1>1, <2>2, <3>1, <3>2
    <3>3. CASE h < StartIndex(r)
      BY <1>0, <1>1, <2>2, <3>1, <3>3 DEF Looked, StartIndex
    <3> QED BY <1>1, <3>1, <3>2, <3>3
  <2>3. Looked(ask'[r], index'[r], seen'[r])
    BY <1>2, <2>1, <2>2 DEF Looked
  <2> HIDE DEF gs
  <2> QED BY <1>2, <1>3, <2>1, <2>3 DEF Holds, RequestType, OthersWait
<1>4. CASE ask[r].group # AutoGroup
  <2>1. retry' = [retry EXCEPT ![r] = retry[r]] /\ index' = [index EXCEPT ![r] = index[r]]
    BY <1>4 DEF Found, RequestType
  <2>2. Budget("attempt", ask[r], retry[r], index[r], tries[r] + 1)
    BY <1>0, <1>4 DEF Budget
  <2> QED BY <1>0, <1>3, <1>4, <2>1, <2>2
<1>5. CASE ask[r].group = AutoGroup
  <2> DEFINE start == StartIndex(r)
             L == tries[r]
  <2>1. /\ start \in Nat /\ 1 <= start /\ start <= g /\ Before(index[r]) = Before(start)
    BY <1>0, <1>5 DEF StartIndex, Found, Before
  <2>2. /\ Before(start) \in Nat /\ Before(g) \in Nat
        /\ start < g => Before(start) + RetryTimes + 1 <= Before(g)
        /\ Before(g + 1) = Before(g) + RetryTimes + 1
        /\ Before(g) + RetryTimes + 1 <= (RetryTimes + 1) * NumGroups
    BY <1>0, <2>1, BeforeLemma
  <2>3. L + 1 <= Before(start) + n + 1 /\ L \in Nat
    <3>1. L <= Before(start) + n /\ L \in Nat
      BY <1>0, <1>5, <2>1
    <3> HIDE DEF L, start
    <3> QED BY <2>2, <3>1
  <2> DEFINE total == (RetryTimes + 1) * NumGroups
  <2>4. L + 1 <= Before(g) + RetryTimes + 1 /\ L + 1 <= total
        /\ (start < g => L + 1 <= Before(g))
        /\ (start = g => L + 1 <= Before(g) + n + 1)
    <3>0. total \in Nat /\ Before(g) + RetryTimes + 1 <= total
      BY <1>0, <2>2
    <3> HIDE DEF start, L, total
    <3>3. start < g => Before(start) + RetryTimes + 1 <= Before(g)
      BY <2>2
    <3>4. Before(start) \in Nat /\ Before(g) \in Nat
      BY <2>2
    <3>5. n <= RetryTimes /\ RetryTimes \in Nat
      BY <1>0
    <3>1. CASE start < g
      <4>1. L + 1 <= Before(g) /\ ~ (start = g)
        BY <1>0, <2>1, <2>3, <3>1, <3>3, <3>4, <3>5
      <4> QED BY <2>3, <3>0, <3>4, <3>5, <4>1
    <3>2. CASE start = g
      <4>1. L + 1 <= Before(g) + n + 1 /\ ~ (start < g)
        BY <2>1, <2>3, <3>2, <3>4
      <4>2. L + 1 <= Before(g) + RetryTimes + 1
        BY <2>3, <3>4, <3>5, <4>1
      <4> QED BY <2>3, <3>0, <3>4, <3>5, <4>1, <4>2
    <3> QED BY <1>0, <2>1, <3>1, <3>2
  <2>5. CASE /\ index' = [index EXCEPT ![r] = g + 1]
             /\ retry' = IF keeps THEN [retry EXCEPT ![r] = [n |-> 0, reset |-> TRUE]]
                                  ELSE retry
    <3>0. g + 1 \in 0 .. NumGroups + 1 /\ g + 1 <= g + 1
      BY <1>0
    <3>1. CASE keeps
      <4>1. [n |-> 0, reset |-> TRUE] \in Counter
        BY <1>0 DEF Counter
      <4>2. Budget("attempt", ask[r], [n |-> 0, reset |-> TRUE], g + 1, L + 1)
        BY <1>0, <1>5, <2>2, <2>4 DEF Budget
      <4> QED BY <1>3, <2>5, <3>0, <3>1, <4>1, <4>2
    <3>2. CASE ~ keeps
      <4>1. retry' = [retry EXCEPT ![r] = retry[r]] /\ L = 0
        BY <2>5, <3>2 DEF RequestType
      <4>2. Budget("attempt", ask[r], retry[r], g + 1, L + 1)
        BY <1>0, <1>5, <2>2, <2>4, <4>1 DEF Budget, Counter
      <4> QED BY <1>0, <1>3, <2>5, <3>0, <4>1, <4>2
    <3> QED BY <3>1, <3>2
  <2>6. CASE /\ index' = [index EXCEPT ![r] = g]
             /\ retry' = IF keeps
                         THEN [retry EXCEPT ![r] =
                                 [retry[r] EXCEPT !.n = IF g > StartIndex(r) THEN 0
                                                        ELSE retry[r].n]]
                         ELSE retry
    <3>0. g \in 0 .. NumGroups + 1 /\ g <= g + 1
      BY <1>0
    <3>1. CASE keeps
      <4> DEFINE m == IF g > start THEN 0 ELSE n
                 v == [retry[r] EXCEPT !.n = m]
      <4>0. n <= RetryTimes /\ RetryTimes \in Nat /\ g \in Nat /\ start \in Nat
            /\ start <= g /\ Before(g) \in Nat /\ L \in Nat
        BY <1>0, <2>1, <2>2, <2>3
      <4>1. m \in 0 .. RetryTimes /\ L + 1 <= Before(g) + m + 1
        <5> HIDE DEF L, start
        <5>1. CASE start < g
          <6>1. L + 1 <= Before(g) /\ m = 0
            BY <2>4, <4>0, <5>1
          <6> QED BY <4>0, <6>1
        <5>2. CASE start = g
          <6>1. L + 1 <= Before(g) + n + 1 /\ m = n
            BY <2>4, <4>0, <5>2
          <6> QED BY <4>0, <6>1
        <5> QED BY <4>0, <5>1, <5>2
      <4> HIDE DEF m
      <4>2. v \in Counter /\ v.n = m /\ ~ v.reset
        BY <1>0, <4>1 DEF Counter
      <4> HIDE DEF v
      <4>3. Budget("attempt", ask[r], v, g, L + 1)
        <5>1. L + 1 <= total /\ L + 1 <= Before(g) + (IF v.reset THEN 0 ELSE v.n + 1)
          BY <1>0, <2>2, <2>4, <4>1, <4>2
        <5> HIDE DEF L
        <5> QED BY <1>5, <4>2, <5>1 DEF Budget
      <4>4. retry' = [retry EXCEPT ![r] = v]
        BY <2>6, <3>1 DEF v, m
      <4> QED BY <1>3, <2>6, <3>0, <4>2, <4>3, <4>4
    <3>2. CASE ~ keeps
      <4>1. retry' = [retry EXCEPT ![r] = retry[r]] /\ L = 0
        BY <2>6, <3>2 DEF RequestType
      <4>2. Budget("attempt", ask[r], retry[r], g, L + 1)
        BY <1>0, <1>5, <2>2, <2>4, <4>1 DEF Budget, Counter
      <4> QED BY <1>0, <1>3, <2>6, <3>0, <4>1, <4>2
    <3> QED BY <3>1, <3>2
  <2> QED BY <1>5, <2>5, <2>6 DEF Found
<1> QED BY <1>4, <1>5

\* A request that has arrived has made no attempt yet.
LEMMA StandsStill ==
    ASSUME RequestType, RequestInv, NEW r \in Requests,
           pc[r] \in {"idle", "distribute"}
    PROVE  /\ retry[r] = NoRetry /\ retry[r].n = 0 /\ ~ retry[r].reset
           /\ index[r] = 0 /\ tries[r] = 0 /\ Before(index[r]) = 0
<1>1. retry[r] = NoRetry /\ index[r] = 0 /\ tries[r] = 0
  BY DEF RequestInv, Budget
<1> QED BY <1>1, SelectConstants DEF NoRetry, Before

LEMMA ArriveHolds ==
    ASSUME RequestType, RequestInv, NEW r \in Requests, NEW a \in Asks, Arrive(r, a)
    PROVE  Holds(r)
<1>1. a \in Ask /\ "distribute" \in Position /\ pc[r] = "idle"
      /\ 0 <= (RetryTimes + 1) * NumGroups
  BY SelectConstants DEF Ask, Position, Arrive
<1>2. RequestType' /\ OthersWait(r)
  BY <1>1 DEF Arrive, RequestType, OthersWait
<1>3. /\ pc'[r] = "distribute" /\ ask'[r] = a
      /\ UNCHANGED <<retry, index, tries, seen>>
  BY DEF Arrive, RequestType
<1>4. Budget(pc'[r], ask'[r], retry'[r], index'[r], tries'[r])
  BY <1>1, <1>3, StandsStill DEF Budget
<1>5. Looked(ask'[r], index'[r], seen'[r])
  BY <1>1, <1>3, StandsStill, SelectConstants DEF Looked, Groups
<1> QED BY <1>2, <1>3, <1>4, <1>5 DEF Holds, Chosen

LEMMA DistributeHolds ==
    ASSUME CacheType, RequestType, RequestInv, NEW r \in Requests, Distribute(r)
    PROVE  Holds(r)
<1>1. Find(r, 0, FALSE) /\ pc[r] = "distribute"
  BY DEF Distribute
<1>2. Ended(r) \/ \E c \in Channels, g \in Groups : Found(r, 0, FALSE, c, g)
  BY <1>1, FindLemma
<1>3. /\ 0 = retry[r].n /\ ~ retry[r].reset /\ tries[r] = 0
      /\ IF ask[r].group = AutoGroup THEN tries[r] <= Before(index[r]) + 0
                                     ELSE tries[r] <= 0
  BY <1>1, StandsStill
<1> QED BY <1>2, <1>3, EndedHolds, FoundHolds DEF RequestInv

LEMMA PreferHolds ==
    ASSUME CacheType, RequestType, RequestInv, NEW r \in Requests, NEW c \in Channels,
           Prefer(r, c)
    PROVE  Holds(r)
<1>1. Attempt(r, c, {}) /\ pc[r] = "distribute" /\ UNCHANGED <<retry, index>>
  BY DEF Prefer
<1>6. /\ pc' \in [Requests -> Position] /\ ask' \in [Requests -> Ask]
      /\ choice' \in [Requests -> Choice] /\ tries' \in [Requests -> Nat]
      /\ seen' \in [Requests -> SUBSET Groups]
      /\ pc'[r] = "attempt" /\ ask'[r] = ask[r]
      /\ tries'[r] = tries[r] + 1 /\ seen'[r] = seen[r] \cup {}
      /\ Chosen(pc'[r], choice'[r])
      /\ \A q \in Requests \ {r} :
            /\ pc'[q] = pc[q] /\ ask'[q] = ask[q] /\ seen'[q] = seen[q]
            /\ choice'[q] = choice[q] /\ tries'[q] = tries[q]
  BY <1>1, AttemptLemma
<1>7. RequestType' /\ OthersWait(r)
  BY <1>1, <1>6 DEF RequestType, OthersWait
<1>8. 1 <= (RetryTimes + 1) * NumGroups
  <2>1. Before(1) + RetryTimes + 1 <= (RetryTimes + 1) * NumGroups /\ Before(1) = 0
    BY BeforeLemma, SelectConstants
  <2> QED BY <2>1, SelectConstants
<1>9. Budget(pc'[r], ask'[r], retry'[r], index'[r], tries'[r])
  BY <1>1, <1>6, <1>8, StandsStill DEF Budget
<1>10. Looked(ask'[r], index'[r], seen'[r])
  BY <1>1, <1>6 DEF RequestInv, Looked
<1> QED BY <1>6, <1>7, <1>9, <1>10 DEF Holds

\* A failed attempt is counted, unless the counter was to be reset.
LEMMA FailHolds ==
    ASSUME RequestType, RequestInv, NEW r \in Requests, NEW error, NEW disable \in BOOLEAN,
           Fail(r, error, disable)
    PROVE  Holds(r)
<1> DEFINE v == Increased(retry[r])
<1>1. CASE Ended(r)
  BY <1>1, EndedHolds
<1>2. CASE /\ v.n <= RetryTimes
           /\ retry' = [retry EXCEPT ![r] = v]
           /\ pc' = [pc EXCEPT ![r] = "retry"]
           /\ choice' = [choice EXCEPT ![r] = NoChannel]
           /\ UNCHANGED <<ask, index, tries, seen>>
  <2>0. /\ pc[r] = "attempt" /\ retry[r] \in Counter /\ retry[r].n \in Nat
        /\ retry[r].reset \in BOOLEAN /\ tries[r] \in Nat
        /\ Budget("attempt", ask[r], retry[r], index[r], tries[r])
        /\ RetryTimes \in Nat /\ NumGroups \in Nat
    BY OneType DEF Fail, RequestInv
  <2>1. /\ v \in Counter /\ ~ v.reset
        /\ v.n = IF retry[r].reset THEN retry[r].n ELSE retry[r].n + 1
    <3>1. CASE retry[r].reset
      BY <1>2, <2>0, <3>1 DEF Increased, Counter
    <3>2. CASE ~ retry[r].reset
      BY <1>2, <2>0, <3>2 DEF Increased, Counter
    <3> QED BY <3>1, <3>2
  <2> HIDE DEF v
  <2>2. "retry" \in Position /\ NoChannel \in Choice
    BY DEF Position, Choice
  <2>3. RequestType' /\ OthersWait(r)
    BY <1>2, <2>1, <2>2 DEF RequestType, OthersWait
  <2>4. pc'[r] = "retry" /\ retry'[r] = v
    BY <1>2 DEF RequestType
  <2>5. Budget("retry", ask[r], v, index[r], tries[r])
    BY <2>0, <2>1 DEF Budget
  <2> QED BY <1>2, <2>3, <2>4, <2>5 DEF Holds, Chosen, RequestInv
<1> QED BY <1>1, <1>2 DEF Fail

LEMMA RetryHolds ==
    ASSUME CacheType, RequestType, RequestInv, NEW r \in Requests, Retry(r)
    PROVE  Holds(r)
<1>0. Find(r, retry[r].n, TRUE) /\ pc[r] = "retry"
  BY DEF Retry
<1>1. retry[r].n \in Nat
  BY OneType
<1>4. Budget("retry", ask[r], retry[r], index[r], tries[r])
  BY <1>0 DEF RequestInv
<1>2. Ended(r) \/ \E c \in Channels, g \in Groups : Found(r, retry[r].n, TRUE, c, g)
  BY <1>0, <1>1, FindLemma
<1>3. /\ ~ retry[r].reset
      /\ IF ask[r].group = AutoGroup THEN tries[r] <= Before(index[r]) + retry[r].n
                                     ELSE tries[r] <= retry[r].n
  BY <1>0, <1>4 DEF Budget
<1> QED BY <1>1, <1>2, <1>3, EndedHolds, FoundHolds DEF RequestInv

LEMMA ServeHolds ==
    ASSUME CacheType, RequestType, RequestInv, NEW r \in Requests, Serve(r)
    PROVE  Holds(r)
<1>1. CASE Distribute(r)
  BY <1>1, DistributeHolds
<1>2. CASE Retry(r)
  BY <1>2, RetryHolds
<1>3. CASE Succeed(r)
  BY <1>3, EndedHolds DEF Succeed
<1>4. ASSUME NEW c \in Channels, Prefer(r, c) PROVE Holds(r)
  BY <1>4, PreferHolds
<1>5. ASSUME NEW c \in Channels, Refuse(r, c) PROVE Holds(r)
  BY <1>5, EndedHolds DEF Refuse
<1>6. ASSUME NEW error, NEW disable \in BOOLEAN, Fail(r, error, disable) PROVE Holds(r)
  BY <1>6, FailHolds
<1> QED BY <1>1, <1>2, <1>3, <1>4, <1>5, <1>6 DEF Serve

\* What a request does to the rest of the state: the channel of an attempt that
\* fails may be put into the queue.
LEMMA ServeElsewhere ==
    ASSUME JobType, RequestInv, NEW r \in Requests, Serve(r)
    PROVE  UNCHANGED <<db, cache, fresh, testing, events>> /\ JobType'
<1>1. UNCHANGED <<db, cache, fresh, testing, events, job>>
  BY DEF Serve, Distribute, Retry, Succeed, Prefer, Refuse, Fail, updating
<1>2. ASSUME NEW error, NEW disable \in BOOLEAN, Fail(r, error, disable)
      PROVE  queue' \subseteq [ch: Channels, status: Status]
  <2>1. pc[r] = "attempt"
    BY <1>2 DEF Fail
  <2>2. choice[r] \in Channels
    BY <2>1 DEF RequestInv, Chosen
  <2>3. [ch |-> choice[r], status |-> "auto"] \in [ch: Channels, status: Status]
    BY <2>2 DEF Status
  <2>4. queue' = queue \/ queue' = queue \cup {[ch |-> choice[r], status |-> "auto"]}
    BY <1>2 DEF Fail
  <2> QED BY <2>3, <2>4 DEF JobType
<1>3. queue' \subseteq [ch: Channels, status: Status]
  BY <1>2 DEF Serve, Distribute, Retry, Succeed, Prefer, Refuse, updating, JobType
<1> QED BY <1>1, <1>3 DEF JobType

-------------------------------------------------------------------------------
(***************************************************************************)
(* Steps of the others.                                                    *)
(***************************************************************************)

\* They leave the requests alone.
LEMMA RequestsWait ==
    ASSUME RequestType, RequestInv, UNCHANGED requests
    PROVE  RequestType' /\ RequestInv'
BY DEF requests, RequestType, RequestInv

LEMMA LockTypes ==
    ASSUME JobType, NEW j \in queue, Lock(j)
    PROVE  JobType'
<1>1. /\ j.ch \in Channels /\ j.status \in Status
      /\ queue' \subseteq queue
      /\ job' = NoJob \/ job' = [ch |-> j.ch, status |-> j.status, step |-> "cache"]
  BY DEF Lock, JobType
<1>2. CASE job' = NoJob
  BY <1>1, <1>2 DEF JobType, NoJob, Status
<1>3. CASE job' = [ch |-> j.ch, status |-> j.status, step |-> "cache"]
  BY <1>1, <1>3 DEF JobType
<1> QED BY <1>1, <1>2, <1>3

LEMMA UpdateCacheTypes ==
    ASSUME CacheType, JobType, UpdateCache
    PROVE  CacheType' /\ JobType'
<1>1. /\ job.step = "cache" /\ job.ch \in Channels /\ job.status \in Status
      /\ job' = [job EXCEPT !.step = "read"] /\ UNCHANGED <<db, fresh, queue>>
      /\ idm' = [idm EXCEPT ![job.ch] = IF idm[job.ch] = Missing THEN idm[job.ch]
                                        ELSE job.status]
      /\ listed' \subseteq listed
  BY DEF JobType, UpdateCache, ListedAfter
<1>2. idm' \in [Channels -> Row]
  BY <1>1 DEF CacheType, Row
<1>3. JobType'
  BY <1>1 DEF JobType
<1> QED BY <1>1, <1>2, <1>3 DEF CacheType

LEMMA UpdateTypes ==
    ASSUME CacheType, JobType, Update
    PROVE  CacheType' /\ JobType' /\ UNCHANGED <<testing, events, requests>>
<1>0. UNCHANGED <<testing, events, requests>>
  BY DEF Update, Lock, UpdateCache, UpdateRead, UpdateSave
<1>1. ASSUME NEW j \in queue, Lock(j) PROVE CacheType' /\ JobType'
  BY <1>1, LockTypes DEF Lock, CacheType, cache
<1>2. CASE UpdateCache
  BY <1>0, <1>2, UpdateCacheTypes
<1>3. CASE UpdateRead
  <2>1. UNCHANGED <<db, cache, fresh, queue>> /\ job.ch \in Channels
        /\ (job' = NoJob \/ job' = [job EXCEPT !.step = "save"])
    BY <1>3 DEF UpdateRead, JobType
  <2>2. CacheType'
    BY <2>1 DEF CacheType, cache
  <2>3. CASE job' = NoJob
    BY <1>0, <2>1, <2>2, <2>3 DEF JobType, NoJob, Status
  <2>4. CASE job' = [job EXCEPT !.step = "save"]
    BY <1>0, <2>1, <2>2, <2>4 DEF JobType
  <2> QED BY <2>1, <2>3, <2>4
<1>4. ASSUME NEW ok \in BOOLEAN, UpdateSave(ok) PROVE CacheType' /\ JobType'
  <2>1. /\ UNCHANGED <<cache, fresh, queue>> /\ job' = NoJob
        /\ job.ch \in Channels /\ job.status \in Status
        /\ db' = db \/ db' = [db EXCEPT ![job.ch] = job.status]
    BY <1>4 DEF UpdateSave, JobType
  <2>2. CacheType'
    BY <2>1 DEF CacheType, cache
  <2>3. JobType'
    BY <2>1 DEF JobType, NoJob, Status
  <2> QED BY <2>2, <2>3
<1> QED BY <1>0, <1>1, <1>2, <1>3, <1>4 DEF Update

LEMMA SyncTypes ==
    ASSUME CacheType, EventsType, NEW s \in Syncers,
           SyncRead(s) \/ SyncFails(s) \/ SyncSwap(s)
    PROVE  CacheType' /\ EventsType' /\ UNCHANGED <<updating, testing, requests>>
<1>1. CASE SyncRead(s)
  <2>1. /\ UNCHANGED <<db, idm, listed, events, updating, testing, requests>>
        /\ fresh' = [fresh EXCEPT ![s] = db]
    BY <1>1 DEF SyncRead, cache
  <2>2. db \in [Channels -> Row]
    BY DEF CacheType, Row
  <2> QED BY <2>1, <2>2 DEF CacheType, EventsType
<1>2. CASE SyncFails(s)
  <2>1. /\ UNCHANGED <<db, idm, listed, updating, testing, requests>>
        /\ fresh' = [fresh EXCEPT ![s] = [c \in Channels |-> Missing]]
        /\ events < MaxEvents /\ events' = events + 1
    BY <1>2 DEF SyncFails, cache
  <2>2. [c \in Channels |-> Missing] \in [Channels -> Row]
    BY DEF Row
  <2>3. EventsType'
    BY <2>1, SelectConstants DEF EventsType
  <2> QED BY <2>1, <2>2, <2>3 DEF CacheType
<1>3. CASE SyncSwap(s)
  <2>1. /\ UNCHANGED <<db, events, updating, testing, requests>>
        /\ fresh[s] # NoRows /\ idm' = fresh[s] /\ listed' = Enabled(fresh[s])
        /\ fresh' = [fresh EXCEPT ![s] = NoRows]
    BY <1>3 DEF SyncSwap, Rebuilt
  <2>2. idm' \in [Channels -> Row] /\ listed' \subseteq Channels
    BY <2>1 DEF CacheType, Enabled
  <2> QED BY <2>1, <2>2 DEF CacheType, EventsType
<1> QED BY <1>1, <1>2, <1>3

\* A panic costs one event; the process starts again with nothing under way, or the
\* rebuild alone is given up.
LEMMA PanicTypes ==
    ASSUME SelectInv, NEW s \in Syncers, SyncPanics(s)
    PROVE  SelectInv'
<1>0. CacheType /\ JobType /\ TestType /\ EventsType /\ RequestType /\ RequestInv
  BY DEF SelectInv
<1>1. EventsType' /\ tests' = tests /\ db' = db
  BY <1>0, SelectConstants DEF SyncPanics, EventsType
<1>2. CASE Restart
  <2>1. CacheType'
    BY <1>0, <1>1, <1>2 DEF Restart, CacheType, Row, Enabled
  <2>2. JobType' /\ TestType'
    BY <1>0, <1>1, <1>2 DEF Restart, JobType, TestType, NoJob, Status
  <2>3. /\ NoAsk \in Ask /\ NoRetry \in Counter /\ 0 \in 0 .. NumGroups + 1
        /\ NoChannel \in Choice /\ "idle" \in Position
        /\ 0 <= (RetryTimes + 1) * NumGroups
    BY SelectConstants DEF Position, NoAsk, Ask, NoRetry, Counter, Choice
  <2>4. RequestType'
    BY <1>2, <2>3 DEF Restart, RequestType
  <2>5. ASSUME NEW r \in Requests
        PROVE  /\ Budget(pc'[r], ask'[r], retry'[r], index'[r], tries'[r])
               /\ Chosen(pc'[r], choice'[r]) /\ Looked(ask'[r], index'[r], seen'[r])
    <3>1. /\ pc'[r] = "idle" /\ ask'[r] = NoAsk /\ retry'[r] = NoRetry /\ index'[r] = 0
          /\ tries'[r] = 0
      BY <1>2 DEF Restart
    <3> QED BY <2>3, <3>1, SelectConstants DEF Budget, Chosen, Looked, Groups, NoAsk, NoRetry
  <2>6. RequestInv'
    BY <2>5 DEF RequestInv
  <2> QED BY <1>1, <2>1, <2>2, <2>4, <2>6 DEF SelectInv
<1>3. CASE /\ fresh' = [fresh EXCEPT ![s] = NoRows]
           /\ UNCHANGED <<cache, updating, test, requests>>
  <2>1. CacheType' /\ JobType' /\ TestType'
    BY <1>0, <1>1, <1>3 DEF CacheType, cache, JobType, updating, TestType
  <2> QED BY <1>0, <1>1, <1>3, <2>1, RequestsWait DEF SelectInv
<1> QED BY <1>2, <1>3 DEF SyncPanics

LEMMA TestStartTypes ==
    ASSUME CacheType, TestType, TestStart
    PROVE  TestType'
<1>1. /\ tests < MaxTests /\ tests' = tests + 1
      /\ test' = [c \in Channels |-> IF db[c] = "manual" THEN NotTested ELSE db[c]]
  BY DEF TestStart
<1>2. test' \in [Channels -> Status \cup {NotTested}]
  BY <1>1 DEF CacheType
<1> QED BY <1>1, <1>2, SelectConstants DEF TestType

LEMMA TestTypes ==
    ASSUME JobType, TestType, NEW c \in Channels, NEW passes \in BOOLEAN, Test(c, passes)
    PROVE  TestType' /\ JobType'
<1>1. /\ test' = [test EXCEPT ![c] = NotTested] /\ UNCHANGED <<tests, job>>
      /\ queue' \subseteq queue \cup {[ch |-> c, status |-> "auto"],
                                      [ch |-> c, status |-> "enabled"]}
  BY DEF Test
<1>2. TestType'
  BY <1>1 DEF TestType
<1>3. JobType'
  BY <1>1 DEF JobType, Status
<1> QED BY <1>2, <1>3

LEMMA AdministerTypes ==
    ASSUME CacheType, EventsType, NEW c \in Channels, NEW s \in Status, Administer(c, s)
    PROVE  CacheType' /\ EventsType'
<1>1. /\ UNCHANGED <<idm, listed, fresh>> /\ db' = [db EXCEPT ![c] = s]
      /\ events < MaxEvents /\ events' = events + 1
  BY DEF Administer, cache
<1>2. CacheType'
  BY <1>1 DEF CacheType
<1>3. EventsType'
  BY <1>1, SelectConstants DEF EventsType
<1> QED BY <1>2, <1>3

-------------------------------------------------------------------------------

LEMMA SelectInit == Init => SelectInv
<1> SUFFICES ASSUME Init PROVE SelectInv
  OBVIOUS
<1>1. CacheType
  BY SelectConstants DEF Init, CacheType, Row, Enabled
<1>2. JobType /\ TestType /\ EventsType
  BY SelectConstants DEF Init, JobType, NoJob, Status, TestType, EventsType
<1>3. /\ NoAsk \in Ask /\ NoRetry \in Counter /\ 0 \in 0 .. NumGroups + 1
      /\ NoChannel \in Choice /\ "idle" \in Position
      /\ 0 <= (RetryTimes + 1) * NumGroups
  BY SelectConstants DEF Position, NoAsk, Ask, NoRetry, Counter, Choice
<1>4. RequestType
  BY <1>3 DEF Init, RequestType
<1>5. ASSUME NEW r \in Requests
      PROVE  Budget(pc[r], ask[r], retry[r], index[r], tries[r])
               /\ Chosen(pc[r], choice[r]) /\ Looked(ask[r], index[r], seen[r])
  <2>1. /\ pc[r] = "idle" /\ ask[r] = NoAsk /\ retry[r] = NoRetry /\ index[r] = 0
        /\ tries[r] = 0
    BY <1>5 DEF Init
  <2> QED BY <1>3, <2>1, SelectConstants DEF Budget, Chosen, Looked, Groups, NoAsk, NoRetry
<1> QED BY <1>1, <1>2, <1>4, <1>5 DEF SelectInv, RequestInv

LEMMA SelectNext == SelectInv /\ [Next]_vars => SelectInv'
<1> SUFFICES ASSUME SelectInv, [Next]_vars PROVE SelectInv'
  OBVIOUS
<1>0. CacheType /\ JobType /\ TestType /\ EventsType /\ RequestType /\ RequestInv
  BY DEF SelectInv
<1>1. /\ UNCHANGED <<db, cache, fresh>> => CacheType'
      /\ UNCHANGED updating => JobType'
      /\ UNCHANGED testing => TestType'
      /\ UNCHANGED events => EventsType'
      /\ UNCHANGED requests => RequestType' /\ RequestInv'
  BY <1>0, RequestsWait
     DEF CacheType, cache, JobType, updating, TestType, testing, EventsType
<1>2. CASE UNCHANGED vars
  <2>1. UNCHANGED <<db, cache, fresh, updating, testing, events, requests>>
    BY <1>2 DEF vars, cache, updating, testing, requests
  <2> QED BY <1>1, <2>1 DEF SelectInv
<1>3. ASSUME NEW r \in Requests, Serve(r) PROVE SelectInv'
  <2>1. RequestType' /\ RequestInv'
    BY <1>0, <1>3, ServeHolds, RequestStep
  <2>2. UNCHANGED <<db, cache, fresh, testing, events>> /\ JobType'
    BY <1>0, <1>3, ServeElsewhere
  <2> QED BY <1>1, <2>1, <2>2 DEF SelectInv
<1>4. ASSUME NEW r \in Requests, NEW a \in Asks, Arrive(r, a) PROVE SelectInv'
  <2>1. RequestType' /\ RequestInv'
    BY <1>0, <1>4, ArriveHolds, RequestStep
  <2>2. UNCHANGED <<db, cache, fresh, updating, testing, events>>
    BY <1>4 DEF Arrive
  <2> QED BY <1>1, <2>1, <2>2 DEF SelectInv
<1>5. CASE Update
  BY <1>0, <1>1, <1>5, UpdateTypes DEF SelectInv
<1>6. ASSUME NEW s \in Syncers, SyncRead(s) \/ SyncFails(s) \/ SyncSwap(s) \/ SyncPanics(s)
      PROVE  SelectInv'
  BY <1>0, <1>1, <1>6, SyncTypes, PanicTypes DEF SelectInv
<1>7. CASE TestStart
  <2>1. UNCHANGED <<db, cache, fresh, updating, events, requests>>
    BY <1>7 DEF TestStart
  <2> QED BY <1>0, <1>1, <1>7, <2>1, TestStartTypes DEF SelectInv
<1>8. ASSUME NEW c \in Channels, NEW passes \in BOOLEAN, Test(c, passes)
      PROVE  SelectInv'
  <2>1. UNCHANGED <<db, cache, fresh, events, requests>>
    BY <1>8 DEF Test
  <2> QED BY <1>0, <1>1, <1>8, <2>1, TestTypes DEF SelectInv
<1>9. ASSUME NEW c \in Channels, NEW s \in Status, Administer(c, s)
      PROVE  SelectInv'
  <2>1. UNCHANGED <<updating, testing, requests>>
    BY <1>9 DEF Administer
  <2> QED BY <1>0, <1>1, <1>9, <2>1, AdministerTypes DEF SelectInv
<1> QED BY <1>2, <1>3, <1>4, <1>5, <1>6, <1>7, <1>8, <1>9 DEF Next

LEMMA SelectInvariance == Spec => []SelectInv
<1> QED BY SelectInit, SelectNext, PTL DEF Spec

\* Every variable of the channel selection stays in its domain: in particular the
\* group index never leaves 0 .. NumGroups + 1 and the retry counter never
\* exceeds RetryTimes, over any number of groups and retries.
THEOREM SelectTypeCorrect == Spec => []TypeOK
<1> QED BY SelectInvariance, SelectTypes, PTL

\* The loop of Relay ends, although every change of group sets its counter back:
\* a request makes at most RetryTimes + 1 attempts for each group it may use.
THEOREM AttemptsAreBounded == Spec => []AttemptsBounded
<1>1. SelectInv => AttemptsBounded
  <2> SUFFICES ASSUME SelectInv, NEW r \in Requests
               PROVE  tries[r] <= (RetryTimes + 1)
                         * (IF ask[r].group = AutoGroup THEN NumGroups ELSE 1)
    BY DEF AttemptsBounded
  <2>1. RequestType /\ Budget(pc[r], ask[r], retry[r], index[r], tries[r])
    BY DEF SelectInv, RequestInv
  <2>2. CASE ask[r].group = AutoGroup
    BY <2>1, <2>2 DEF Budget
  <2>3. CASE ask[r].group # AutoGroup
    <3>1. /\ pc[r] \in Position /\ tries[r] \in Nat /\ RetryTimes \in Nat
          /\ retry[r].n \in 0 .. RetryTimes
      BY <2>1, OneType
    <3>2. tries[r] <= retry[r].n + 1
      BY <2>1, <2>3, <3>1 DEF Budget, Position
    <3> QED BY <2>3, <3>1, <3>2
  <2> QED BY <2>2, <2>3
<1> QED BY <1>1, SelectInvariance, PTL

\* Only a retry that finds no channel goes from "retry" to "done".
LEMMA GivesUp ==
    ASSUME SelectInv, [Next]_vars, NEW r \in Requests, pc[r] = "retry", pc'[r] = "done"
    PROVE  Retry(r)
<1>0. RequestType /\ pc \in [Requests -> Position]
  BY DEF SelectInv, RequestType
<1>1. ASSUME NEW q \in Requests, Serve(q) PROVE Retry(r)
  <2>1. Holds(q)
    BY <1>1, ServeHolds DEF SelectInv
  <2>2. q = r
    BY <2>1 DEF Holds, OthersWait
  <2> QED BY <1>1, <2>2 DEF Serve, Distribute, Succeed, Prefer, Refuse, Fail
<1>2. ASSUME NEW q \in Requests, NEW a \in Asks, Arrive(q, a) PROVE FALSE
  BY <1>0, <1>2 DEF Arrive
<1>3. ASSUME NEW s \in Syncers, SyncPanics(s) PROVE FALSE
  BY <1>3 DEF SyncPanics, Restart, requests
<1>4. ASSUME UNCHANGED requests PROVE FALSE
  BY <1>4 DEF requests
<1>5. CASE UNCHANGED vars
  BY <1>4, <1>5 DEF vars, requests
<1>6. ASSUME NEW s \in Syncers, SyncRead(s) \/ SyncFails(s) \/ SyncSwap(s) PROVE FALSE
  BY <1>4, <1>6 DEF SyncRead, SyncFails, SyncSwap
<1>7. CASE Update
  BY <1>4, <1>7, UpdateTypes DEF SelectInv
<1>8. ASSUME NEW c \in Channels,
             (\E passes \in BOOLEAN : Test(c, passes)) \/ (\E s \in Status : Administer(c, s))
      PROVE  FALSE
  BY <1>4, <1>8 DEF Test, Administer
<1>9. CASE TestStart
  BY <1>4, <1>9 DEF TestStart
<1> QED BY <1>1, <1>2, <1>3, <1>5, <1>6, <1>7, <1>8, <1>9 DEF Next

\* A search for a channel ends without one only if no usable group is left out.
LEMMA EndLooked ==
    ASSUME SelectInv, NEW r \in Requests, Retry(r), pc'[r] = "done"
    PROVE  \A g \in Usable(r) : InGroup(g) = {} \/ g \in seen[r]
<1>0. /\ RequestType /\ ask[r] \in Ask /\ index[r] \in 0 .. NumGroups + 1
      /\ NumGroups \in Nat /\ Looked(ask[r], index[r], seen[r])
      /\ Find(r, retry[r].n, TRUE) /\ pc \in [Requests -> Position]
  BY OneType DEF SelectInv, RequestInv, RequestType, Retry
<1>1. ASSUME NEW c, NEW gs PROVE ~ Attempt(r, c, gs)
  BY <1>0 DEF Attempt
<1>2. CASE ask[r].group # AutoGroup
  BY <1>0, <1>1, <1>2 DEF Find, FindIn, Usable
<1>3. CASE ask[r].group = AutoGroup
  <2>1. {i \in StartIndex(r) .. NumGroups : InGroup(i) # {}} = {}
    BY <1>0, <1>1, <1>3 DEF Find, FindAuto
  <2>2. ASSUME NEW g \in Groups PROVE InGroup(g) = {} \/ g \in seen[r]
    <3>1. g \in Nat /\ 1 <= g /\ g <= NumGroups /\ StartIndex(r) \in Nat
      BY <1>0, <2>2 DEF Groups, StartIndex
    <3>2. CASE g < index[r]
      BY <1>0, <1>3, <2>2, <3>2 DEF Looked
    <3>3. CASE ~ g < index[r]
      <4>1. g \in StartIndex(r) .. NumGroups
        BY <1>0, <3>1, <3>3 DEF StartIndex
      <4> QED BY <2>1, <4>1
    <3> QED BY <3>2, <3>3
  <2> QED BY <1>3, <2>2 DEF Usable
<1> QED BY <1>2, <1>3

\* However the groups of the user fill and empty between the attempts of a request,
\* the search of CacheGetRandomSatisfiedChannel leaves none of them out before it gives
\* up, for every number of groups and retries.
THEOREM GroupsAllSearched == Spec => NoGroupOverlooked
<1>1. SelectInv /\ [Next]_vars =>
        [\A r \in Requests :
            pc[r] = "retry" /\ pc'[r] = "done" =>
                \A g \in Usable(r) : InGroup(g) = {} \/ g \in seen[r]]_vars
  BY GivesUp, EndLooked
<1> QED BY <1>1, SelectInvariance, PTL DEF Spec, NoGroupOverlooked
===============================================================================

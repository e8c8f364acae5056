----------------------------- MODULE ChannelSelect -----------------------------
(***************************************************************************)
(* How a request finds its channel and tries others, and how channels are  *)
(* taken out of service: Distribute and the retry loop of Relay with       *)
(* CacheGetRandomSatisfiedChannel over the auto groups, the channel cache  *)
(* with its periodic rebuild, UpdateChannelStatus with its two callers     *)
(* (the error path of a request and the channel test) and administrators.  *)
(*                                                                         *)
(* One node with the memory cache enabled, one model; every channel serves *)
(* it and has a single key.  Another node is a writer of the database.     *)
(***************************************************************************)
EXTENDS Integers, Sequences, FiniteSetsExt

CONSTANTS
    Requests,
    Asks,       \* what may arrive: a token group and CrossGroupRetry of the token
    Channels,
    NumGroups,  \* the auto groups of the user are 1 .. NumGroups, in this order
    GroupsOf,   \* the groups of each channel
    Priority,   \* channels.priority
    Weight,     \* channels.weight
    RetryTimes, \* common.RetryTimes
    Syncers,    \* the goroutines that may run InitChannelCache at a time: the loop
                \* of SyncChannelCache and handlers of administrators
    Timer,      \* the one of SyncChannelCache
    InitStatus, \* the statuses a channel may have at start
    MaxEvents,  \* bound: writes of administrators and other nodes, failed queries
    MaxTests    \* bound: rounds of testAllChannels

Groups == 1 .. NumGroups
AutoGroup == 0   \* the token group "auto"
Status == {"enabled", "manual", "auto"}
Missing == "missing"   \* no row

ASSUME SelectConstants ==
    /\ NumGroups \in Nat \ {0} /\ RetryTimes \in Nat
    /\ GroupsOf \in [Channels -> SUBSET Groups]
    /\ Priority \in [Channels -> Int] /\ Weight \in [Channels -> Nat]
    /\ InitStatus \subseteq Status /\ Timer \in Syncers
    /\ Asks \subseteq [group: Groups \cup {AutoGroup}, cross: BOOLEAN]
    /\ MaxEvents \in Nat /\ MaxTests \in Nat

VARIABLES
    db,      \* channels.status in the database
    idm,     \* channelsIDM: the status of each channel in the cache
    listed,  \* the channels in the lists of group2model2channels
    fresh,   \* the rows each rebuild has read and not yet swapped in
    queue,   \* the calls of UpdateChannelStatus that wait for channelStatusLock
    job,     \* the call that holds the lock
    test,    \* the statuses testAllChannels has read, for the channels to test
    tests,   \* how many rounds it has made
    events,  \* how many of these events there were
    pc,      \* where each request stands
    ask,     \* its token group and whether it may retry across groups
    retry,   \* RetryParam.Retry and resetNextTry
    index,   \* ContextKeyAutoGroupIndex; 0 until it is set
    choice,  \* the channel it uses
    tries,   \* history: how many attempts it has made
    seen     \* history: the groups its search has looked into

cache    == <<idm, listed>>
updating == <<queue, job>>
testing  == <<test, tests>>
requests == <<pc, ask, retry, index, choice, tries, seen>>
vars     == <<db, idm, listed, fresh, queue, job, test, tests, events,
              pc, ask, retry, index, choice, tries, seen>>

NoChannel == 0
NoJob     == [ch |-> NoChannel, status |-> "enabled", step |-> "none"]
NoAsk     == [group |-> AutoGroup, cross |-> FALSE]
NoRetry   == [n |-> 0, reset |-> FALSE]
NotTested == "none"
NoRows    == <<>>   \* no rebuild is under way

Enabled(st) == {c \in Channels : st[c] = "enabled"}

Init ==
    /\ db \in [Channels -> InitStatus]
    /\ idm = db
    /\ listed = Enabled(db)
    /\ fresh = [s \in Syncers |-> NoRows]
    /\ queue = {} /\ job = NoJob
    /\ test = [c \in Channels |-> NotTested]
    /\ tests = 0 /\ events = 0
    /\ pc = [r \in Requests |-> "idle"]
    /\ ask = [r \in Requests |-> NoAsk]
    /\ retry = [r \in Requests |-> NoRetry]
    /\ index = [r \in Requests |-> 0]
    /\ choice = [r \in Requests |-> NoChannel]
    /\ tries = [r \in Requests |-> 0]
    /\ seen = [r \in Requests |-> {}]

-------------------------------------------------------------------------------
(***************************************************************************)
(* GetRandomSatisfiedChannel                                               *)
(***************************************************************************)

\* The list of group g
InGroup(g) == {c \in listed : g \in GroupsOf[c]}

\* The n-th highest of the priorities in cs, the lowest if there are fewer
NthPriority(cs, n) ==
    LET ps == {Priority[c] : c \in cs}
        k  == IF n >= Cardinality(ps) THEN Cardinality(ps) - 1 ELSE n
    IN  CHOOSE p \in ps : Cardinality({q \in ps : q > p}) = k

\* What the weighted draw may return: a channel without weight only when none
\* of its priority has any
Drawn(cs) ==
    LET heavy == {c \in cs : Weight[c] > 0} IN IF heavy = {} THEN cs ELSE heavy

Candidates(g, n) ==
    LET cs == InGroup(g)
    IN  IF Cardinality(cs) <= 1 THEN cs
        ELSE Drawn({c \in cs : Priority[c] = NthPriority(cs, n)})

\* The request ends and its context goes with it.
Ended(r) ==
    /\ pc' = [pc EXCEPT ![r] = "done"]
    /\ ask' = [ask EXCEPT ![r] = NoAsk]
    /\ retry' = [retry EXCEPT ![r] = NoRetry]
    /\ index' = [index EXCEPT ![r] = 0]
    /\ choice' = [choice EXCEPT ![r] = NoChannel]
    /\ tries' = [tries EXCEPT ![r] = 0]
    /\ seen' = [seen EXCEPT ![r] = {}]

\* It has found c after a look into the groups gs and makes an attempt.
Attempt(r, c, gs) ==
    /\ pc' = [pc EXCEPT ![r] = "attempt"]
    /\ choice' = [choice EXCEPT ![r] = c]
    /\ tries' = [tries EXCEPT ![r] = @ + 1]
    /\ seen' = [seen EXCEPT ![r] = @ \cup gs]
    /\ UNCHANGED ask

-------------------------------------------------------------------------------
(***************************************************************************)
(* CacheGetRandomSatisfiedChannel                                          *)
(***************************************************************************)

\* startGroupIndex
StartIndex(r) == IF index[r] = 0 THEN 1 ELSE index[r]

\* Mutant: a group whose retries are used up is not left.
NextIndexStays(i) == i

\* Mutant: the index is counted on once too often.
NextIndexSkips(i) == i + 2

\* The index stored when group i is left for the next one
NextIndex(i) == i + 1

\* Whether group i is left after an attempt with priorityRetry n
UsedUp(r, n) == ask[r].cross /\ n >= RetryTimes

\* r uses a channel of the first group from StartIndex on that has one, or ends
\* without.  n is its retry counter; the loop of Relay keeps what becomes of the
\* counter, Distribute drops it with the RetryParam it has made up.
FindAuto(r, n, keeps) ==
    LET start == StartIndex(r)
        open  == {i \in start .. NumGroups : InGroup(i) # {}}
        i     == Min(open)
        k     == IF i > start THEN 0 ELSE n
        Store(v) == retry' = IF keeps THEN [retry EXCEPT ![r] = v] ELSE retry
    IN  IF open = {} THEN Ended(r)
        ELSE /\ \E c \in Candidates(i, k) : Attempt(r, c, start .. i)
             /\ IF UsedUp(r, k)
                THEN /\ index' = [index EXCEPT ![r] = NextIndex(i)]
                     /\ Store([n |-> 0, reset |-> TRUE])
                ELSE /\ index' = [index EXCEPT ![r] = i]
                     /\ Store([retry[r] EXCEPT !.n = IF i > start THEN 0 ELSE @])

\* A token of one group: only the priority changes.
FindIn(r, g, n) ==
    IF InGroup(g) = {} THEN Ended(r)
    ELSE /\ \E c \in Candidates(g, n) : Attempt(r, c, {g})
         /\ UNCHANGED <<index, retry>>

Find(r, n, keeps) ==
    IF ask[r].group = AutoGroup THEN FindAuto(r, n, keeps)
                                ELSE FindIn(r, ask[r].group, n)

-------------------------------------------------------------------------------
(***************************************************************************)
(* Distribute and the loop of Relay                                        *)
(***************************************************************************)
Arrive(r, a) ==
    /\ pc[r] = "idle"
    /\ ask' = [ask EXCEPT ![r] = a]
    /\ pc' = [pc EXCEPT ![r] = "distribute"]
    /\ UNCHANGED <<db, cache, fresh, updating, testing, events, retry, index,
                   choice, tries, seen>>

Distribute(r) ==
    /\ pc[r] = "distribute"
    /\ Find(r, 0, FALSE)
    /\ UNCHANGED <<db, cache, fresh, updating, testing, events>>

\* GetPreferredChannelByAffinity names an enabled channel; the group index is
\* not set then.
Prefer(r, c) ==
    /\ pc[r] = "distribute"
    /\ idm[c] = "enabled"
    /\ \E g \in GroupsOf[c] : c \in InGroup(g) /\ ask[r].group \in {AutoGroup, g}
    /\ Attempt(r, c, {})
    /\ UNCHANGED <<db, cache, fresh, updating, testing, events, retry, index>>

\* It names one that is disabled, and its rule allows no other.
Refuse(r, c) ==
    /\ pc[r] = "distribute"
    /\ idm[c] \in {"manual", "auto"}
    /\ Ended(r)
    /\ UNCHANGED <<db, cache, fresh, updating, testing, events>>

Succeed(r) ==
    /\ pc[r] = "attempt"
    /\ Ended(r)
    /\ UNCHANGED <<db, cache, fresh, updating, testing, events>>

\* shouldRetry: an error of the channel is always retried, any other one only
\* if its kind allows it and retries are left.
ShouldRetry(r, error) ==
    \/ error = "channel"
    \/ error = "retryable" /\ retry[r].n < RetryTimes

\* RetryParam.IncreaseRetry
Increased(v) == IF v.reset THEN [v EXCEPT !.reset = FALSE] ELSE [v EXCEPT !.n = @ + 1]

\* The attempt fails; processChannelError may start DisableChannel, which it
\* always does for an error of the channel.
Fail(r, error, disable) ==
    /\ pc[r] = "attempt"
    /\ error = "channel" => disable
    /\ queue' = IF disable THEN queue \cup {[ch |-> choice[r], status |-> "auto"]}
                           ELSE queue
    /\ LET v == Increased(retry[r])
       IN  IF ShouldRetry(r, error) /\ v.n <= RetryTimes
           THEN /\ retry' = [retry EXCEPT ![r] = v]
                /\ pc' = [pc EXCEPT ![r] = "retry"]
                /\ choice' = [choice EXCEPT ![r] = NoChannel]
                /\ UNCHANGED <<ask, index, tries, seen>>
           ELSE Ended(r)
    /\ UNCHANGED <<db, cache, fresh, job, testing, events>>

\* getChannel
Retry(r) ==
    /\ pc[r] = "retry"
    /\ Find(r, retry[r].n, TRUE)
    /\ UNCHANGED <<db, cache, fresh, updating, testing, events>>

-------------------------------------------------------------------------------
(***************************************************************************)
(* UpdateChannelStatus, under channelStatusLock                            *)
(***************************************************************************)

\* The call ends at once if the cache has no such channel or shows the wanted status.
Lock(j) ==
    /\ job = NoJob
    /\ j \in queue
    /\ queue' = queue \ {j}
    /\ job' = IF idm[j.ch] \in {j.status, Missing} THEN NoJob
              ELSE [ch |-> j.ch, status |-> j.status, step |-> "cache"]
    /\ UNCHANGED <<db, cache, fresh, testing, events, requests>>

\* Mutant: a channel that is disabled stays in the lists.
ListedAfterKeeps(c, s) == listed

\* The lists after CacheUpdateChannelStatus: a channel that is enabled is not
\* put back before the next rebuild.
ListedAfter(c, s) == IF s = "enabled" THEN listed ELSE listed \ {c}

UpdateCache ==
    /\ job.step = "cache"
    /\ idm' = [idm EXCEPT ![job.ch] = IF @ = Missing THEN @ ELSE job.status]
    /\ listed' = ListedAfter(job.ch, job.status)
    /\ job' = [job EXCEPT !.step = "read"]
    /\ UNCHANGED <<db, fresh, queue, testing, events, requests>>

UpdateRead ==
    /\ job.step = "read"
    /\ job' = IF db[job.ch] = job.status THEN NoJob ELSE [job EXCEPT !.step = "save"]
    /\ UNCHANGED <<db, cache, fresh, queue, testing, events, requests>>

\* The row that was read is saved with the new status, or the database fails.
UpdateSave(ok) ==
    /\ job.step = "save"
    /\ db' = IF ok THEN [db EXCEPT ![job.ch] = job.status] ELSE db
    /\ job' = NoJob
    /\ UNCHANGED <<cache, fresh, queue, testing, events, requests>>

-------------------------------------------------------------------------------
(***************************************************************************)
(* InitChannelCache: channels and abilities are read, then the new maps    *)
(* are swapped in.  The abilities give the names of the groups only.       *)
(***************************************************************************)
SyncRead(s) ==
    /\ fresh[s] = NoRows
    /\ fresh' = [fresh EXCEPT ![s] = db]
    /\ UNCHANGED <<db, cache, updating, testing, events, requests>>

\* The error of the query for the channels is not looked at: there are no rows.
SyncFails(s) ==
    /\ fresh[s] = NoRows
    /\ events < MaxEvents
    /\ fresh' = [fresh EXCEPT ![s] = [c \in Channels |-> Missing]]
    /\ events' = events + 1
    /\ UNCHANGED <<db, cache, updating, testing, requests>>

\* The process starts: the first InitChannelCache has run, whatever was under way is
\* gone.
Restart ==
    /\ idm' = db /\ listed' = Enabled(db)
    /\ fresh' = [t \in Syncers |-> NoRows]
    /\ queue' = {} /\ job' = NoJob
    /\ test' = [c \in Channels |-> NotTested]
    /\ pc' = [r \in Requests |-> "idle"]
    /\ ask' = [r \in Requests |-> NoAsk]
    /\ retry' = [r \in Requests |-> NoRetry]
    /\ index' = [r \in Requests |-> 0]
    /\ choice' = [r \in Requests |-> NoChannel]
    /\ tries' = [r \in Requests |-> 0]
    /\ seen' = [r \in Requests |-> {}]

\* Mutant: the lists are not rebuilt.
RebuiltKeeps(st) == listed

\* The lists of a rebuild from the rows st
Rebuilt(st) == Enabled(st)

SyncSwap(s) ==
    /\ fresh[s] # NoRows
    /\ idm' = fresh[s]
    /\ listed' = Rebuilt(fresh[s])
    /\ fresh' = [fresh EXCEPT ![s] = NoRows]
    /\ UNCHANGED <<db, updating, testing, events, requests>>

\* The query for the abilities fails, nor is that looked at: there is no map to put
\* an enabled channel into, and the assignment panics.  A handler is recovered; the
\* goroutine of SyncChannelCache is not, so the process ends and is started again.
SyncPanics(s) ==
    /\ fresh[s] # NoRows
    /\ Enabled(fresh[s]) # {}
    /\ events < MaxEvents
    /\ events' = events + 1
    /\ IF s = Timer THEN Restart
       ELSE /\ fresh' = [fresh EXCEPT ![s] = NoRows]
            /\ UNCHANGED <<cache, updating, test, requests>>
    /\ UNCHANGED <<db, tests>>

-------------------------------------------------------------------------------
(***************************************************************************)
(* testAllChannels, administrators and other nodes                         *)
(***************************************************************************)
TestStart ==
    /\ tests < MaxTests
    /\ \A c \in Channels : test[c] = NotTested
    /\ test' = [c \in Channels |-> IF db[c] = "manual" THEN NotTested ELSE db[c]]
    /\ tests' = tests + 1
    /\ UNCHANGED <<db, cache, fresh, updating, events, requests>>

\* EnableChannel runs in the goroutine of the test, DisableChannel in its own.
TestWaits == (\E c \in Channels : [ch |-> c, status |-> "enabled"] \in queue)
               \/ (job # NoJob /\ job.status = "enabled")

Test(c, passes) ==
    /\ test[c] # NotTested
    /\ \A d \in Channels : test[d] # NotTested => Priority[d] <= Priority[c]
    /\ ~ TestWaits
    /\ test' = [test EXCEPT ![c] = NotTested]
    /\ queue' = queue \cup
          (CASE test[c] = "enabled" /\ ~ passes -> {[ch |-> c, status |-> "auto"]}
             [] test[c] = "auto" /\ passes      -> {[ch |-> c, status |-> "enabled"]}
             [] OTHER                           -> {})
    /\ UNCHANGED <<db, cache, fresh, job, tests, events, requests>>

\* An administrator, of this or of another node, changes the status of a channel,
\* or another node its own UpdateChannelStatus; this node learns of it from a
\* rebuild.  A handler of this node starts one: see Syncers.
Administer(c, s) ==
    /\ events < MaxEvents
    /\ s # db[c]
    /\ db' = [db EXCEPT ![c] = s]
    /\ events' = events + 1
    /\ UNCHANGED <<cache, fresh, updating, testing, requests>>

Serve(r) ==
    \/ Distribute(r) \/ Retry(r) \/ Succeed(r)
    \/ \E c \in Channels : Prefer(r, c) \/ Refuse(r, c)
    \/ \E error \in {"channel", "retryable", "final"}, disable \in BOOLEAN :
          Fail(r, error, disable)

Update ==
    (\E j \in queue : Lock(j)) \/ UpdateCache \/ UpdateRead
      \/ \E ok \in BOOLEAN : UpdateSave(ok)

Next ==
    \/ \E r \in Requests :
          Serve(r) \/ \E a \in Asks : Arrive(r, a)
    \/ Update
    \/ \E s \in Syncers : SyncRead(s) \/ SyncFails(s) \/ SyncSwap(s) \/ SyncPanics(s)
    \/ TestStart
    \/ \E c \in Channels :
          \/ \E passes \in BOOLEAN : Test(c, passes)
          \/ \E s \in Status : Administer(c, s)

Spec == Init /\ [][Next]_vars

(***************************************************************************)
(* SyncChannelCache is an endless loop and a rebuild, an update and a test *)
(* that have begun come to an end.  Nothing makes a test round begin, a    *)
(* request arrive or an upstream answer.                                   *)
(***************************************************************************)
FairSpec ==
    /\ Spec
    /\ WF_vars(SyncRead(Timer) \/ SyncFails(Timer))
    /\ \A s \in Syncers : WF_vars(SyncSwap(s))
    /\ WF_vars(Update)

-------------------------------------------------------------------------------
(***************************************************************************)
(* Properties.                                                             *)
(***************************************************************************)

\* Every variable stays in its domain.
TypeOK ==
    /\ db \in [Channels -> Status] /\ idm \in [Channels -> Status \cup {Missing}]
    /\ listed \subseteq Channels
    /\ fresh \in [Syncers -> [Channels -> Status \cup {Missing}] \cup {NoRows}]
    /\ queue \subseteq [ch: Channels, status: Status]
    /\ job \in [ch: Channels \cup {NoChannel}, status: Status,
                step: {"none", "cache", "read", "save"}]
    /\ test \in [Channels -> Status \cup {NotTested}]
    /\ tests \in 0 .. MaxTests /\ events \in 0 .. MaxEvents
    /\ pc \in [Requests -> {"idle", "distribute", "attempt", "retry", "done"}]
    /\ ask \in [Requests -> [group: Groups \cup {AutoGroup}, cross: BOOLEAN]]
    /\ retry \in [Requests -> [n: 0 .. RetryTimes, reset: BOOLEAN]]
    /\ index \in [Requests -> 0 .. NumGroups + 1]
    /\ choice \in [Requests -> Channels \cup {NoChannel}]
    /\ tries \in [Requests -> Nat]
    /\ seen \in [Requests -> SUBSET Groups]

\* The two maps of the cache agree, whichever rebuilds and status updates run
\* into each other: a channel that is offered to requests
\* (group2model2channels) is in channelsIDM and enabled there, so that the
\* consistency error of GetRandomSatisfiedChannel never occurs.
ListedEnabled == listed \subseteq Enabled(idm)

\* The retry counter is set back to 0 on every change of group (SetRetry(0),
\* ResetRetryNextTry in channel_select.go), and yet the loop of Relay ends: a
\* request makes at most RetryTimes + 1 attempts per group.
AttemptsBounded ==
    \A r \in Requests :
        tries[r] <=
            (RetryTimes + 1) * (IF ask[r].group = AutoGroup THEN NumGroups ELSE 1)

\* The groups a request may use
Usable(r) == IF ask[r].group = AutoGroup THEN Groups ELSE {ask[r].group}

\* A retry gives up for want of a channel only when none of the user's groups is left
\* out: each of them has no channel now, or the search has been there before.  The
\* index in the context is moved on in three places (channel_select.go:124, 144, 152),
\* the first search has a counter of its own that is thrown away, and groups lose
\* their channels between two attempts.
NoGroupOverlooked ==
    [][\A r \in Requests :
          pc[r] = "retry" /\ pc'[r] = "done" =>
              \A g \in Usable(r) : InGroup(g) = {} \/ g \in seen[r]]_vars

\* Once nobody changes a status any more, the cache agrees with the database
\* for good, in spite of failed saves, of a rebuild that swaps in rows read
\* before an update and of one that could not read any.
CacheConverges == <>[](idm = db /\ listed = Enabled(db))
===============================================================================

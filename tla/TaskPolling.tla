------------------------------ MODULE TaskPolling ------------------------------
(***************************************************************************)
(* Asynchronous tasks after their submission: the insertion at the end of  *)
(* controller.RelayTask, TaskPollingLoop with its timeout sweeper, the     *)
(* video and Suno pollers, the bulk failures, the settlement and refund of *)
(* service/task_billing.go, and the realtime fetch of relay/relay_task.go  *)
(* by which a user's query of a Gemini or Vertex task updates its row.     *)
(* Every node whose NODE_TYPE is not "slave" runs the loop, so there are   *)
(* several pollers; a step is one call of the database or of the upstream. *)
(***************************************************************************)
EXTENDS Integers, FiniteSets

CONSTANTS
    Tasks,         \* tasks.id of the tasks, from 1
    PlatformOf,    \* the platform of each task, each with one channel
    Pollers,       \* the nodes that run TaskPollingLoop
    Fetchers,      \* the users' queries that may run at a time
    Quotas,        \* result.Quota of a submission
    Finals,        \* quota computed on completion; 0 keeps the pre-debit
    SubmitTimes,   \* tasks.submit_time, seconds since 1970
    ItemTimes,     \* submit times a Suno item may carry; 0 is an item without one
    HasIds,        \* whether a row may lack its ids (FALSE: one of an earlier version)
    Answers,       \* what the upstream may say of a task, see Answer
    Glitches,      \* the upstream may answer a poller with an error object
    Outcomes,      \* how a database write may end, see Outcome
    SweepEnabled,  \* constant.TaskTimeoutMinutes > 0
    SettleMayFail, \* SettleBilling may fail for another quota than pre-debited
    ChannelsGo,    \* a channel may be deleted
    StrayItems,    \* the upstream may list a task it was not asked for
    QueryLimit,    \* constant.TaskQueryLimit
    MaxCrashes     \* how often a node may die

Platform == {"video", "gemini", "suno"}
Terminal == {"SUCCESS", "FAILURE"}

\* NOT_START stands for the status a row is inserted with, IN_PROGRESS for every
\* later one that is not terminal; "absent" is a task that was not submitted,
\* "lost" one that was charged but whose insertion failed.
Status == {"absent", "lost", "NOT_START", "IN_PROGRESS"} \cup Terminal

\* complete is progress = "100%", failReason says that there is one.
Answer == [status: {"IN_PROGRESS"} \cup Terminal, failReason: BOOLEAN,
           complete: BOOLEAN]

\* A write is applied and acknowledged, not applied, or applied although the
\* caller sees an error.
Outcome == {"ok", "fail", "lost"}

\* legacyTaskCutoff of sweepTimedOutTasks
LegacyCutoff == 1740182400

ASSUME TaskConstants ==
    /\ Tasks \subseteq Nat \ {0} /\ PlatformOf \in [Tasks -> Platform]
    /\ Quotas \subseteq Nat /\ Finals \subseteq Nat /\ 0 \in Finals
    /\ SubmitTimes \subseteq Nat \ {0} /\ ItemTimes \subseteq Nat
    /\ HasIds \subseteq BOOLEAN
    /\ Answers \subseteq Answer
    /\ Outcomes \subseteq Outcome /\ "ok" \in Outcomes
    /\ {SweepEnabled, SettleMayFail, ChannelsGo, StrayItems, Glitches} \subseteq BOOLEAN
    /\ QueryLimit \in Nat \ {0} /\ MaxCrashes \in Nat
    /\ Pollers \cap Fetchers = {}

VARIABLES
    row,      \* the row of each task
    taken,    \* history: what payer and token lost to each task
    trouble,  \* history: a write for the task did not end "ok"
    aged,     \* the tasks submitted more than TaskTimeoutMinutes ago
    channels, \* the platforms whose channel exists
    up,       \* the status of each task at the upstream
    pc,       \* where each poller and each fetcher stands
    mem,      \* the rows it has read, with the changes it made
    todo,     \* the tasks of its list it has still to deal with
    group,    \* the platform it deals with
    cur,      \* the task it deals with
    snap,     \* the status that task had when it was read
    due,      \* the quota it is about to move (negative for a refund)
    back,     \* where it goes on when the quota is moved
    reopened, \* history: the tasks a user's query has opened again
    crashes

rows  == <<row, taken, trouble>>
world == <<aged, channels, up, reopened, crashes>>
cursor == <<group, cur, snap, due, back>>
local == <<pc, mem, todo, cursor>>
vars  == <<row, taken, trouble, aged, channels, up, pc, mem, todo, group, cur,
           snap, due, back, reopened, crashes>>

Leg == {"funding", "token"}
Row == [status: Status, complete: BOOLEAN, failReason: BOOLEAN, quota: Nat,
        submitTime: Nat, hasId: BOOLEAN]

Absent == [status |-> "absent", complete |-> FALSE, failReason |-> FALSE,
           quota |-> 0, submitTime |-> 0, hasId |-> FALSE]

Actors == Pollers \cup Fetchers
None   == "none"
NoTask == 0

\* Mutant: the query misses the status a row is inserted with.
UnfinishedStarted == {t \in Tasks : row[t].status = "IN_PROGRESS" /\ ~ row[t].complete}

\* Mutant: the query asks for the status only.
UnfinishedAnyProgress ==
    {t \in Tasks : row[t].status \notin Terminal \cup {"absent", "lost"}}

\* GetAllUnFinishSyncTasks and GetTimedOutUnfinishedTasks
Unfinished ==
    {t \in Tasks : /\ row[t].status \notin Terminal \cup {"absent", "lost"}
                   /\ ~ row[t].complete}

\* The first QueryLimit of them by id
Listed == {t \in Unfinished : Cardinality({u \in Unfinished : u < t}) < QueryLimit}

\* Its limit of 100 rows is above Cardinality(Tasks).
TimedOut == Unfinished \cap aged

Legacy(r) == r.submitTime > 0 /\ r.submitTime < LegacyCutoff

\* Mutant: the comparison with the status that was read is left out.
WinsAlways(t, from) == TRUE

\* The WHERE clause of Task.UpdateWithStatus
Wins(t, from) == row[t].status = from

-------------------------------------------------------------------------------
Init ==
    /\ row = [t \in Tasks |-> Absent]
    /\ taken = [t \in Tasks |-> [l \in Leg |-> 0]]
    /\ trouble = [t \in Tasks |-> FALSE]
    /\ aged = {}
    /\ channels = Platform
    /\ up = [t \in Tasks |-> "IN_PROGRESS"]
    /\ pc = [a \in Actors |-> "sleep"]
    /\ mem = [a \in Actors |-> [t \in Tasks |-> Absent]]
    /\ todo = [a \in Actors |-> {}]
    /\ group = [a \in Actors |-> None]
    /\ cur = [a \in Actors |-> NoTask]
    /\ snap = [a \in Actors |-> "absent"]
    /\ due = [a \in Actors |-> 0]
    /\ back = [a \in Actors |-> None]
    /\ reopened = {}
    /\ crashes = 0

\* The end of RelayTask: SettleBilling (a failure is only logged), InitTask and
\* Insert (a failure is only logged).
Submit(t, pre, q, time, id, o) ==
    /\ row[t].status = "absent"
    /\ pre # q => SettleMayFail
    /\ taken' = [taken EXCEPT ![t] = [l \in Leg |-> pre]]
    /\ row' = [row EXCEPT ![t] =
                 [status |-> IF o = "fail" THEN "lost" ELSE "NOT_START",
                  complete |-> FALSE, failReason |-> FALSE, quota |-> q,
                  submitTime |-> time, hasId |-> id]]
    /\ UNCHANGED <<trouble, world, local>>

\* Time passes; that a task which has ended is old is of no use to anybody.
Age(t) ==
    /\ row[t].status \notin Terminal \cup {"absent", "lost"}
    /\ t \notin aged
    /\ aged' = aged \cup {t}
    /\ UNCHANGED <<rows, channels, up, reopened, crashes, local>>

DeleteChannel(pl) ==
    /\ ChannelsGo
    /\ pl \in channels
    /\ channels' = channels \ {pl}
    /\ UNCHANGED <<rows, aged, up, reopened, crashes, local>>

\* The upstream comes to an end with the task.
Upstream(t, s) ==
    /\ up[t] = "IN_PROGRESS"
    /\ row[t].status # "absent"
    /\ up' = [up EXCEPT ![t] = s]
    /\ UNCHANGED <<rows, aged, channels, reopened, crashes, local>>

\* a may be the answer for t; updateVideoSingleTask takes an error object other
\* than 429 for a failure of the task.
Says(t, a) == a.status = up[t] \/ (Glitches /\ a.status = "FAILURE")

-------------------------------------------------------------------------------
(***************************************************************************)
(* sweepTimedOutTasks                                                      *)
(***************************************************************************)

\* p reads the rows of ts; whatever it knew before is gone.
Read(p, ts) ==
    /\ todo' = [todo EXCEPT ![p] = ts]
    /\ mem' = [mem EXCEPT ![p] = [t \in Tasks |-> IF t \in ts THEN row[t] ELSE Absent]]
    /\ group' = [group EXCEPT ![p] = None]
    /\ cur' = [cur EXCEPT ![p] = NoTask]
    /\ snap' = [snap EXCEPT ![p] = "absent"]
    /\ due' = [due EXCEPT ![p] = 0]
    /\ back' = [back EXCEPT ![p] = None]

Sweep(p) ==
    /\ pc[p] = "sleep"
    /\ SweepEnabled
    /\ Read(p, TimedOut)
    /\ pc' = [pc EXCEPT ![p] = "sweep"]
    /\ UNCHANGED <<rows, world>>

\* Task.UpdateWithStatus, also when nothing has changed: the row of t becomes v if its
\* status is still `from'; the outcome o tells whether the caller learns that it won.
UpdateWithStatus(t, from, v, o) ==
    /\ row' = IF Wins(t, from) /\ o # "fail" THEN [row EXCEPT ![t] = v] ELSE row
    /\ trouble' = [trouble EXCEPT ![t] = @ \/ o # "ok"]
    /\ UNCHANGED taken

\* p bills n for t and goes on at `next', or is done with t at once.
Bill(p, t, n, next) ==
    /\ cur' = [cur EXCEPT ![p] = t]
    /\ due' = [due EXCEPT ![p] = n]
    /\ back' = [back EXCEPT ![p] = next]
    /\ IF n = 0
       THEN /\ pc' = [pc EXCEPT ![p] = next]
            /\ todo' = [todo EXCEPT ![p] = @ \ {t}]
       ELSE /\ pc' = [pc EXCEPT ![p] = "funding"]
            /\ UNCHANGED todo

SweepTask(p, t) ==
    /\ pc[p] = "sweep"
    /\ t \in todo[p]
    /\ LET old == mem[p][t]
           new == [old EXCEPT !.status = "FAILURE", !.complete = TRUE, !.failReason = TRUE]
       IN  \E o \in Outcomes :
              /\ UpdateWithStatus(t, old.status, new, o)
              /\ Bill(p, t, IF Wins(t, old.status) /\ o = "ok" /\ ~ Legacy(old)
                            THEN - old.quota ELSE 0, "sweep")
    /\ UNCHANGED <<world, mem, group, snap>>

-------------------------------------------------------------------------------
(***************************************************************************)
(* TaskPollingLoop and DispatchPlatformUpdate                              *)
(***************************************************************************)
List(p) ==
    /\ \/ pc[p] = "sleep" /\ ~ SweepEnabled
       \/ pc[p] = "sweep" /\ todo[p] = {}
    /\ Read(p, Listed)
    /\ pc' = [pc EXCEPT ![p] = IF Listed = {} THEN "sleep" ELSE "dispatch"]
    /\ UNCHANGED <<rows, world>>

\* TaskBulkUpdateByID: no guard, no refund; an error is only logged.
BulkFailure(ts, reason, o) ==
    /\ row' = [t \in Tasks |->
                 IF t \in ts /\ o # "fail"
                 THEN [row[t] EXCEPT !.status = "FAILURE", !.complete = TRUE,
                                     !.failReason = @ \/ reason]
                 ELSE row[t]]
    /\ trouble' = [t \in Tasks |-> trouble[t] \/ (t \in ts /\ o # "ok")]
    /\ UNCHANGED taken

Group(p, pl) == {t \in todo[p] : PlatformOf[t] = pl}

\* The tasks of a platform: those without upstream id are failed in bulk, then
\* the channel of the others is looked up.
Dispatch(p, pl) ==
    /\ pc[p] = "dispatch"
    /\ Group(p, pl) # {}
    /\ LET nulls == {t \in Group(p, pl) : ~ mem[p][t].hasId}
       IN  /\ \E o \in Outcomes : BulkFailure(nulls, FALSE, o)
           /\ todo' = [todo EXCEPT ![p] = @ \ nulls]
    /\ group' = [group EXCEPT ![p] = pl]
    /\ pc' = [pc EXCEPT ![p] = IF pl \in channels THEN "fetch" ELSE "noChannel"]
    /\ UNCHANGED <<world, mem, cur, snap, due, back>>

NoChannel(p) ==
    /\ pc[p] = "noChannel"
    /\ \E o \in Outcomes : BulkFailure(Group(p, group[p]), TRUE, o)
    /\ todo' = [todo EXCEPT ![p] = @ \ Group(p, group[p])]
    /\ pc' = [pc EXCEPT ![p] = "fetch"]
    /\ UNCHANGED <<world, mem, cursor>>

\* Mutant: the end of the platform map is not noticed.
GroupDoneStays(p) ==
    /\ pc[p] = "fetch"
    /\ Group(p, group[p]) = {}
    /\ pc' = [pc EXCEPT ![p] = "dispatch"]
    /\ UNCHANGED <<rows, world, mem, todo, cursor>>

\* The tasks of the platform are dealt with: on to the next, or to the end of the
\* round.
GroupDone(p) ==
    /\ pc[p] = "fetch"
    /\ Group(p, group[p]) = {}
    /\ IF todo[p] = {}
       THEN pc' = [pc EXCEPT ![p] = "sleep"] /\ Read(p, {})
       ELSE pc' = [pc EXCEPT ![p] = "dispatch"] /\ UNCHANGED <<mem, todo, cursor>>
    /\ UNCHANGED <<rows, world>>

\* No usable answer (an error, 429, an unknown status), or an item of Suno that
\* taskNeedsUpdate finds unchanged: the task is left for the next round.
FetchFails(p, t) ==
    /\ pc[p] = "fetch"
    /\ t \in Group(p, group[p])
    /\ todo' = [todo EXCEPT ![p] = @ \ {t}]
    /\ UNCHANGED <<rows, world, pc, mem, cursor>>

\* updateSunoTasks looks up an item it does not know: taskNeedsUpdate
\* dereferences nil and the goroutine of the loop ends.
StrayItem(p) ==
    /\ pc[p] = "fetch"
    /\ group[p] = "suno"
    /\ StrayItems
    /\ pc' = [pc EXCEPT ![p] = "dead"]
    /\ Read(p, {})
    /\ UNCHANGED <<rows, world>>

\* Mutant: a status the switch does not know is stored.
VideoUpdatedUnchecked(r, a) ==
    [r EXCEPT !.status = IF a.status = "IN_PROGRESS" THEN "UNKNOWN" ELSE a.status,
              !.complete = a.complete]

\* The task after a video answer
VideoUpdated(r, a) ==
    [r EXCEPT !.status = a.status,
              !.complete = a.status = "FAILURE" \/ a.complete,
              !.failReason = IF a.status = "FAILURE" THEN a.failReason ELSE @]

\* The task after a Suno item with submit time `time'
SunoUpdated(r, a, time) ==
    [r EXCEPT !.status = a.status,
              !.failReason = @ \/ a.failReason,
              !.submitTime = IF time # 0 THEN time ELSE @,
              !.complete = @ \/ a.failReason \/ a.status \in Terminal]

\* updateVideoSingleTask up to its write; f is what settleTaskBillingOnComplete
\* will settle for (0: the pre-debit is kept).
FetchVideo(p, t, a, f) ==
    /\ pc[p] = "fetch"
    /\ group[p] # "suno"
    /\ t \in Group(p, group[p])
    /\ Says(t, a)
    /\ a.status # "SUCCESS" => f = 0
    /\ mem' = [mem EXCEPT ![p][t] = VideoUpdated(@, a)]
    /\ snap' = [snap EXCEPT ![p] = mem[p][t].status]
    /\ cur' = [cur EXCEPT ![p] = t]
    /\ due' = [due EXCEPT ![p] = CASE a.status = "FAILURE" -> - mem[p][t].quota
                                   [] f > 0                -> f - mem[p][t].quota
                                   [] OTHER                -> 0]
    /\ pc' = [pc EXCEPT ![p] = "write"]
    /\ UNCHANGED <<rows, world, todo, group, back>>

\* updateVideoSingleTask from its write on: only the winner of a terminal
\* transition bills.
WriteVideo(p) ==
    /\ pc[p] = "write"
    /\ group[p] # "suno"
    /\ LET t == cur[p]
           done == mem[p][t].status \in Terminal
       IN  \E o \in Outcomes :
              /\ UpdateWithStatus(t, snap[p], mem[p][t], o)
              /\ Bill(p, t, IF done /\ Wins(t, snap[p]) /\ o = "ok" THEN due[p] ELSE 0,
                      "fetch")
    /\ UNCHANGED <<world, mem, group, snap>>

\* updateSunoTasks for one item, up to RefundTaskQuota
FetchSuno(p, t, a, time) ==
    /\ pc[p] = "fetch"
    /\ group[p] = "suno"
    /\ t \in Group(p, "suno")
    /\ a.status = up[t]
    /\ mem' = [mem EXCEPT ![p][t] = SunoUpdated(@, a, time)]
    /\ cur' = [cur EXCEPT ![p] = t]
    /\ back' = [back EXCEPT ![p] = "write"]
    /\ LET n == IF a.failReason \/ a.status = "FAILURE" THEN mem[p][t].quota ELSE 0
       IN  /\ due' = [due EXCEPT ![p] = - n]
           /\ pc' = [pc EXCEPT ![p] = IF n = 0 THEN "write" ELSE "funding"]
    /\ UNCHANGED <<rows, world, todo, group, snap>>

\* task.Update(): Save without a guard, after the refund.  A submit time taken from
\* the item starts the time the sweeper leaves the task anew.
SaveSuno(p) ==
    /\ pc[p] = "write"
    /\ group[p] = "suno"
    /\ LET t == cur[p]
       IN  /\ \E o \in Outcomes :
                 /\ row' = IF o = "fail" THEN row ELSE [row EXCEPT ![t] = mem[p][t]]
                 /\ trouble' = [trouble EXCEPT ![t] = @ \/ o # "ok"]
           /\ aged' = IF row'[t].submitTime = row[t].submitTime THEN aged ELSE aged \ {t}
           /\ todo' = [todo EXCEPT ![p] = @ \ {t}]
    /\ pc' = [pc EXCEPT ![p] = "fetch"]
    /\ UNCHANGED <<taken, channels, up, reopened, crashes, mem, cursor>>

-------------------------------------------------------------------------------
(***************************************************************************)
(* RefundTaskQuota and RecalculateTaskQuota: the funding, then the token.  *)
(***************************************************************************)

Move(t, leg, n, o) ==
    /\ taken' = IF o = "fail" THEN taken ELSE [taken EXCEPT ![t][leg] = @ + n]
    /\ trouble' = [trouble EXCEPT ![t] = @ \/ o # "ok"]
    /\ UNCHANGED row

\* The billing returns to its caller.
Return(p) ==
    /\ pc' = [pc EXCEPT ![p] = back[p]]
    /\ todo' = [todo EXCEPT ![p] = IF back[p] = "write" THEN @ ELSE @ \ {cur[p]}]

\* taskAdjustFunding; after an error the token is left alone.
AdjustFunding(p) ==
    /\ pc[p] = "funding"
    /\ \E o \in Outcomes :
          /\ Move(cur[p], "funding", due[p], o)
          /\ IF o = "ok" THEN pc' = [pc EXCEPT ![p] = "token"] /\ UNCHANGED todo
                         ELSE Return(p)
    /\ UNCHANGED <<world, mem, cursor>>

\* taskAdjustTokenQuota; an error is only logged.
AdjustToken(p) ==
    /\ pc[p] = "token"
    /\ \E o \in Outcomes : Move(cur[p], "token", due[p], o)
    /\ Return(p)
    /\ UNCHANGED <<world, mem, cursor>>

-------------------------------------------------------------------------------
(***************************************************************************)
(* tryRealtimeFetch: a user's query of a Gemini or Vertex task             *)
(***************************************************************************)

\* Bound: a task is opened again once, after which it is not queried any more.
Query(f, t, a) ==
    /\ pc[f] = "sleep"
    /\ t \notin reopened
    /\ PlatformOf[t] = "gemini"
    /\ "gemini" \in channels
    /\ row[t].status \notin {"absent", "lost"}
    /\ a.status = up[t]
    /\ cur' = [cur EXCEPT ![f] = t]
    /\ snap' = [snap EXCEPT ![f] = row[t].status]
    /\ mem' = [mem EXCEPT ![f][t] = [row[t] EXCEPT !.status = a.status,
                                                   !.complete = a.complete]]
    /\ pc' = [pc EXCEPT ![f] = "query"]
    /\ UNCHANGED <<rows, world, todo, group, due, back>>

\* The status is written, nobody bills.  An upstream that is still at work opens a
\* task again that the sweeper has ended.
QueryWrite(f) ==
    /\ pc[f] = "query"
    /\ LET t == cur[f]
       IN  /\ \E o \in Outcomes : UpdateWithStatus(t, snap[f], mem[f][t], o)
           /\ reopened' = IF row[t].status \in Terminal /\ row'[t].status \notin Terminal
                          THEN reopened \cup {t} ELSE reopened
    /\ mem' = [mem EXCEPT ![f] = [t \in Tasks |-> Absent]]
    /\ cur' = [cur EXCEPT ![f] = NoTask]
    /\ snap' = [snap EXCEPT ![f] = "absent"]
    /\ pc' = [pc EXCEPT ![f] = "sleep"]
    /\ UNCHANGED <<aged, channels, up, crashes, todo, group, due, back>>

\* A node dies and starts again; what it had read is gone.
Crash(p) ==
    /\ crashes < MaxCrashes
    /\ pc[p] # "sleep"
    /\ crashes' = crashes + 1
    /\ pc' = [pc EXCEPT ![p] = "sleep"]
    /\ trouble' = [t \in Tasks |-> trouble[t] \/ t = cur[p]]
    /\ UNCHANGED <<row, taken, aged, channels, up, reopened, mem, todo, cursor>>

Poll(p) ==
    \/ Sweep(p) \/ List(p) \/ NoChannel(p) \/ GroupDone(p)
    \/ \E t \in Tasks : SweepTask(p, t) \/ FetchFails(p, t)
    \/ \E pl \in Platform : Dispatch(p, pl)
    \/ \E t \in Tasks, a \in Answers, f \in Finals : FetchVideo(p, t, a, f)
    \/ \E t \in Tasks, a \in Answers, time \in ItemTimes : FetchSuno(p, t, a, time)
    \/ WriteVideo(p) \/ SaveSuno(p) \/ AdjustFunding(p) \/ AdjustToken(p)

Next ==
    \/ \E t \in Tasks, pre, q \in Quotas, time \in SubmitTimes, id \in HasIds,
          o \in Outcomes : Submit(t, pre, q, time, id, o)
    \/ \E t \in Tasks : Age(t) \/ \E s \in Terminal : Upstream(t, s)
    \/ \E t \in Tasks : DeleteChannel(PlatformOf[t])
    \/ \E p \in Pollers : Poll(p) \/ StrayItem(p) \/ Crash(p)
    \/ \E f \in Fetchers : QueryWrite(f) \/ \E t \in Tasks, a \in Answers : Query(f, t, a)

Spec == Init /\ [][Next]_vars

(***************************************************************************)
(* Every node's loop goes on (the scheduler runs its goroutine, calls      *)
(* return) and time passes.  Nothing makes an upstream finish a task, a    *)
(* user submit or query one, or an administrator delete a channel.         *)
(***************************************************************************)
FairSpec ==
    /\ Spec
    /\ \A p \in Pollers : WF_vars(Poll(p))
    /\ \A t \in Tasks : WF_vars(Age(t))

-------------------------------------------------------------------------------
(***************************************************************************)
(* Properties.                                                             *)
(***************************************************************************)

\* Every variable stays in its domain.
TypeOK ==
    /\ row \in [Tasks -> Row]
    /\ taken \in [Tasks -> [Leg -> Int]]
    /\ trouble \in [Tasks -> BOOLEAN]
    /\ aged \subseteq Tasks /\ channels \subseteq Platform
    /\ up \in [Tasks -> {"IN_PROGRESS"} \cup Terminal]
    /\ pc \in [Actors -> {"sleep", "sweep", "dispatch", "noChannel", "fetch", "write",
                          "funding", "token", "query", "dead"}]
    /\ mem \in [Actors -> [Tasks -> Row]]
    /\ todo \in [Actors -> SUBSET Tasks]
    /\ group \in [Actors -> Platform \cup {None}]
    /\ cur \in [Actors -> Tasks \cup {NoTask}]
    /\ snap \in [Actors -> Status]
    /\ due \in [Actors -> Int]
    /\ back \in [Actors -> {None, "sweep", "fetch", "write"}]
    /\ reopened \subseteq Tasks
    /\ crashes \in 0 .. MaxCrashes

\* Nobody is in the middle of billing t; updateSunoTasks bills before it writes.
Settled(t) ==
    \A p \in Actors : \/ pc[p] \in {"funding", "token"}
                      \/ pc[p] = "write" /\ group[p] = "suno"
                     => cur[p] # t

\* task_billing.go:150-151: when a task fails, the pre-debited quota "is given
\* back to the user" - and no more than that, however many nodes, sweepers and
\* pollers see it fail, and whichever of them die on the way.  Nothing is claimed for
\* a task that a query (relay_task.go:476-477) opened again after it had ended: when
\* it had been refunded, its next failure refunds it once more.
NeverOverRefunded == \A t \in Tasks \ reopened, l \in Leg : taken[t][l] >= 0

\* A failed task; updateSunoTasks takes any item with a reason for a failure.
Failed(t) == row[t].status = "FAILURE" \/ (PlatformOf[t] = "suno" /\ row[t].failReason)

\* A task is billed by exactly one of the actors that may end it: a failed task
\* has cost nothing, a completed one its pre-debit or what the completion was
\* settled for, an unfinished one its pre-debit, and the token paid what the
\* payer paid.
BilledOnce ==
    \A t \in Tasks : Settled(t) /\ ~ trouble[t] =>
        LET r == row[t]
            n == taken[t]["funding"]
        IN  /\ taken[t]["token"] = n
            /\ IF Failed(t) THEN n = 0 \/ (Legacy(r) /\ n = r.quota)
               ELSE n = r.quota \/ (r.status = "SUCCESS" /\ n \in Finals \ {0})

\* The user of a failed task gets the pre-debited quota back
\* (task_billing.go:150-151), legacy tasks excepted.
FailedTaskRefunded ==
    \A t \in Tasks :
        Settled(t) /\ ~ trouble[t] /\ row[t].status = "FAILURE" /\ ~ Legacy(row[t])
          => taken[t]["funding"] = 0

\* A task that came to an end is never opened again: the guard of
\* UpdateWithStatus keeps a poller with an old copy from writing it back.
TerminalStays ==
    [][\A t \in Tasks :
          row[t].status \in Terminal => row'[t].status = row[t].status]_vars

\* The row is at 100% with a status that is not terminal, as an answer "in progress,
\* 100%" or a Suno item with a reason and no failure leaves it: neither of the two
\* queries of model/task.go selects it, so it never ends.
Forgotten(t) == row[t].complete /\ row[t].status \notin Terminal

\* A poller's loop has died of an item nobody asked for, on the last node.
NobodyPolls == \A p \in Pollers : pc[p] = "dead"

\* Every inserted task comes to an end or is forgotten at 100%, as long as some loop
\* lives: what the pollers do not finish, because the upstream never answers, the
\* channel is gone or the task is never among the first TaskQueryLimit, the sweeper
\* does, though the upstream may have put the submit time off (task_polling.go:231).
TaskEnds ==
    \A t \in Tasks :
        row[t].status = "NOT_START"
          ~> (row[t].status \in Terminal \/ Forgotten(t) \/ NobodyPolls)

\* task_polling.go:90: the loop "checks the unfinished tasks every 15 seconds": it
\* comes back to its sleep from every task and every answer, until an item nobody
\* asked for ends it.
KeepsPolling == \A p \in Pollers : []<>(pc[p] \in {"sleep", "dead"})
===============================================================================

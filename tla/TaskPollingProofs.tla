-------------------------- MODULE TaskPollingProofs --------------------------
(***************************************************************************)
(* Proofs about TaskPolling for any number of tasks, nodes and queries: a  *)
(* task of a platform whose writes carry the guard of UpdateWithStatus is  *)
(* billed by one actor at most, is never refunded more than it cost, and   *)
(* stays ended.  Suno rows are saved without the guard, and a user's query *)
(* may open a Gemini row again, so nothing is claimed for those; they may  *)
(* be in the system next to the guarded ones.                              *)
(***************************************************************************)
EXTENDS TaskPolling, TLAPS

Live == {"NOT_START", "IN_PROGRESS"}
Billing == {"funding", "token"}
Busy == {"sweep", "dispatch", "noChannel", "fetch", "write"} \cup Billing

\* Every write of the row of t compares its status, and nobody but a poller
\* writes it.
Guarded(t) ==
    \/ PlatformOf[t] = "video"
    \/ PlatformOf[t] = "gemini" /\ Fetchers = {}

\* No task is failed in bulk: every row has its ids, no channel goes.
NoBulkFailure == HasIds \subseteq {TRUE} /\ ~ ChannelsGo

\* What no update of a row changes
SameTask(r, s) ==
    /\ r.quota = s.quota /\ r.submitTime = s.submitTime /\ r.hasId = s.hasId

Exists(t) == row[t].status \in Live \cup Terminal

\* p won the right to bill t and has not finished.
Owner(p, t) == pc[p] \in Billing /\ cur[p] = t

\* n is what the end of a task with status s and quota q moves.
DueFor(s, q, n) ==
    \/ s = "FAILURE" /\ n = -q
    \/ s = "SUCCESS" /\ \E f \in Finals \ {0} : n = f - q

\* What a task has cost once it is billed
Cost(r, n) ==
    IF r.status = "FAILURE" THEN n = 0 \/ (Legacy(r) /\ n = r.quota)
    ELSE n = r.quota \/ (r.status = "SUCCESS" /\ n \in Finals \ {0})

\* Quota moves only between the winning write of the row and the end of the
\* winner's billing, one leg after the other.
OwnerInv(p, t) ==
    Owner(p, t) =>
        /\ row[t].status \in Terminal
        /\ due[p] >= - row[t].quota
        /\ ~ SettleMayFail =>
              /\ taken[t]["token"] = row[t].quota
              /\ taken[t]["funding"] = row[t].quota + (IF pc[p] = "token" THEN due[p] ELSE 0)
        /\ back[p] \in {"sweep", "fetch"}
        /\ NoBulkFailure => DueFor(row[t].status, row[t].quota, due[p])

TaskInv(t) ==
    /\ ~ SettleMayFail /\ row[t].status \notin Terminal =>
          \A l \in Leg : taken[t][l] = row[t].quota
    /\ ~ SettleMayFail => \A l \in Leg : taken[t][l] >= 0
    /\ \A p, q \in Actors : Owner(p, t) /\ Owner(q, t) => p = q
    /\ ~ SettleMayFail /\ NoBulkFailure /\ row[t].status \in Terminal /\ ~ trouble[t]
         /\ (\A p \in Actors : ~ Owner(p, t)) =>
            taken[t]["token"] = taken[t]["funding"] /\ Cost(row[t], taken[t]["funding"])
    /\ NoBulkFailure /\ Exists(t) => row[t].hasId

\* The copy of t that p holds: as old as the list of p, and ended only while p
\* itself ends it.
CopyInv(p, t) ==
    /\ pc[p] \in Busy /\ t \in todo[p] =>
          /\ Exists(t) /\ SameTask(mem[p][t], row[t])
          /\ (pc[p] \in {"write"} \cup Billing => cur[p] # t) => mem[p][t].status \in Live
    /\ pc[p] = "write" /\ cur[p] = t =>
          /\ t \in todo[p] /\ group[p] = PlatformOf[t]
          /\ snap[p] \in Live /\ mem[p][t].status \in Live \cup Terminal
          /\ due[p] >= - mem[p][t].quota
          /\ mem[p][t].status \in Terminal /\ due[p] # 0 =>
                DueFor(mem[p][t].status, mem[p][t].quota, due[p])
          /\ mem[p][t].status = "FAILURE" => due[p] = - mem[p][t].quota
    /\ pc[p] = "query" /\ cur[p] = t => p \in Fetchers /\ PlatformOf[t] = "gemini"

\* Where each kind of actor may be
PlaceInv ==
    /\ \A p \in Actors :
          /\ pc[p] \in Billing => back[p] \in {"sweep", "fetch", "write"}
          /\ pc[p] \in {"write", "query"} \cup Billing => cur[p] \in Tasks
    /\ \A f \in Fetchers : pc[f] \in {"sleep", "query"}
    /\ ~ ChannelsGo => channels = Platform /\ \A p \in Actors : pc[p] # "noChannel"

\* The domains in parts, so that a step proves only what it changes.
RowsType == /\ row \in [Tasks -> Row] /\ taken \in [Tasks -> [Leg -> Int]]
            /\ trouble \in [Tasks -> BOOLEAN]
WorldType == /\ aged \subseteq Tasks /\ channels \subseteq Platform
             /\ up \in [Tasks -> {"IN_PROGRESS"} \cup Terminal]
             /\ reopened \subseteq Tasks /\ crashes \in 0 .. MaxCrashes
MemType == mem \in [Actors -> [Tasks -> Row]]
CursorType == /\ todo \in [Actors -> SUBSET Tasks]
              /\ group \in [Actors -> Platform \cup {None}]
              /\ cur \in [Actors -> Tasks \cup {NoTask}]
              /\ snap \in [Actors -> Status]
              /\ due \in [Actors -> Int]
              /\ back \in [Actors -> {None, "sweep", "fetch", "write"}]
PlaceType == pc \in [Actors -> {"sleep", "query", "dead"} \cup Busy]

TypeInv == RowsType /\ WorldType /\ MemType /\ CursorType /\ PlaceType /\ PlaceInv

BillInv ==
    \A t \in Tasks : Guarded(t) =>
        TaskInv(t) /\ \A p \in Actors : OwnerInv(p, t) /\ CopyInv(p, t)

-------------------------------------------------------------------------------
(***************************************************************************)
(* Type correctness.                                                       *)
(***************************************************************************)
USE DEF rows, world, cursor, local

LEMMA TypeParts == TypeInv => TypeOK
BY DEF TypeInv, TypeOK, RowsType, WorldType, MemType, CursorType, PlaceType, Busy, Billing

LEMMA ActorsLemma == Pollers \subseteq Actors /\ Fetchers \subseteq Actors
BY DEF Actors

\* A task with another status is a task.
LEMMA RowLemma ==
    ASSUME NEW r \in Row, NEW s \in Status, NEW c \in BOOLEAN, NEW f \in BOOLEAN
    PROVE  /\ [r EXCEPT !.status = s, !.complete = c, !.failReason = f] \in Row
           /\ [r EXCEPT !.status = s, !.complete = c] \in Row
           /\ [r EXCEPT !.status = s, !.failReason = f, !.complete = c] \in Row
BY DEF Row

LEMMA FieldLemma ==
    ASSUME NEW r \in Row
    PROVE  /\ r.status \in Status /\ r.complete \in BOOLEAN /\ r.failReason \in BOOLEAN
           /\ r.quota \in Nat /\ r.quota \in Int /\ -r.quota \in Int
           /\ r.submitTime \in Nat /\ r.hasId \in BOOLEAN
BY DEF Row

LEMMA StatusLemma == Terminal \subseteq Status /\ Live \subseteq Status
BY DEF Terminal, Live, Status

LEMMA AnswerLemma ==
    ASSUME NEW a \in Answer
    PROVE  a.status \in Status /\ a.complete \in BOOLEAN /\ a.failReason \in BOOLEAN
BY DEF Answer, Status, Terminal

\* What a copy becomes with an answer keeps quota, time and ids.
LEMMA VideoLemma ==
    ASSUME NEW r \in Row, NEW a \in Answer
    PROVE  /\ VideoUpdated(r, a) \in Row
           /\ VideoUpdated(r, a).status = a.status /\ SameTask(VideoUpdated(r, a), r)
<1>1. CASE a.status = "FAILURE"
  BY <1>1, AnswerLemma DEF VideoUpdated, Row, SameTask
<1>2. CASE a.status # "FAILURE" /\ a.complete = TRUE
  BY <1>2, AnswerLemma DEF VideoUpdated, Row, SameTask
<1>3. CASE a.status # "FAILURE" /\ a.complete = FALSE
  BY <1>3, AnswerLemma DEF VideoUpdated, Row, SameTask
<1> QED BY <1>1, <1>2, <1>3, AnswerLemma

LEMMA SunoLemma ==
    ASSUME NEW r \in Row, NEW a \in Answer, NEW time \in ItemTimes
    PROVE  SunoUpdated(r, a, time) \in Row
<1>1. (r.failReason \/ a.failReason) \in BOOLEAN
        /\ (r.complete \/ a.failReason \/ a.status \in Terminal) \in BOOLEAN
  OBVIOUS
<1>2. (IF time # 0 THEN time ELSE r.submitTime) \in Nat /\ a.status \in Status
  BY TaskConstants, FieldLemma, AnswerLemma
<1> QED BY <1>1, <1>2 DEF SunoUpdated, Row

LEMMA AbsentLemma == Absent \in Row
BY DEF Absent, Row, Status

\* A guarded write keeps the rows in their domains.
LEMMA UpdateType ==
    ASSUME RowsType, NEW t, NEW from, NEW v \in Row, NEW o, UpdateWithStatus(t, from, v, o)
    PROVE  RowsType'
BY DEF RowsType, UpdateWithStatus

\* So does a failure in bulk.
LEMMA BulkType ==
    ASSUME RowsType, NEW ts, NEW reason \in BOOLEAN, NEW o, BulkFailure(ts, reason, o)
    PROVE  RowsType'
<1>1. \A t \in Tasks : [row[t] EXCEPT !.status = "FAILURE", !.complete = TRUE,
                                     !.failReason = @ \/ reason] \in Row
  BY RowLemma DEF RowsType, Status, Terminal
<1> QED BY <1>1 DEF RowsType, BulkFailure

LEMMA SubmitType ==
    ASSUME TypeInv, NEW t \in Tasks, NEW pre \in Quotas, NEW q \in Quotas,
           NEW time \in SubmitTimes, NEW id \in HasIds, NEW o \in Outcomes,
           Submit(t, pre, q, time, id, o)
    PROVE  TypeInv'
<1> DEFINE new == [status |-> IF o = "fail" THEN "lost" ELSE "NOT_START",
                   complete |-> FALSE, failReason |-> FALSE, quota |-> q,
                   submitTime |-> time, hasId |-> id]
<1>0. pre \in Nat /\ q \in Nat /\ time \in Nat /\ id \in BOOLEAN
  BY TaskConstants
<1>1. new \in Row /\ pre \in Int
  BY <1>0 DEF Row, Status
<1>2. RowsType'
  BY <1>1 DEF TypeInv, RowsType, Submit
<1> QED BY <1>2 DEF TypeInv, WorldType, MemType, CursorType, PlaceType, PlaceInv, Submit

LEMMA AgeType ==
    ASSUME TypeInv, NEW t \in Tasks, Age(t)
    PROVE  TypeInv'
BY DEF TypeInv, RowsType, WorldType, MemType, CursorType, PlaceType, PlaceInv, Age

LEMMA UpstreamType ==
    ASSUME TypeInv, NEW t \in Tasks, NEW s \in Terminal, Upstream(t, s)
    PROVE  TypeInv'
BY DEF TypeInv, RowsType, WorldType, MemType, CursorType, PlaceType, PlaceInv, Upstream

LEMMA DeleteChannelType ==
    ASSUME TypeInv, NEW pl \in Platform, DeleteChannel(pl)
    PROVE  TypeInv'
<1>1. ~ ChannelsGo => FALSE
  BY DEF DeleteChannel
<1>2. WorldType' /\ PlaceInv'
  BY <1>1 DEF TypeInv, WorldType, PlaceInv, DeleteChannel
<1> QED BY <1>2 DEF TypeInv, RowsType, MemType, CursorType, PlaceType, DeleteChannel

\* The list of p is read again.
LEMMA ReadType ==
    ASSUME TypeInv, NEW p \in Actors, NEW ts \in SUBSET Tasks, Read(p, ts)
    PROVE  MemType' /\ CursorType'
<1>1. [t \in Tasks |-> IF t \in ts THEN row[t] ELSE Absent] \in [Tasks -> Row]
  BY AbsentLemma DEF TypeInv, RowsType
<1>2. MemType'
  BY <1>1 DEF TypeInv, MemType, Read
<1>3. CursorType'
  BY DEF TypeInv, CursorType, Read, Status, NoTask, None
<1> QED BY <1>2, <1>3

LEMMA SweepType ==
    ASSUME TypeInv, NEW p \in Pollers, Sweep(p)
    PROVE  TypeInv'
<1>1. TimedOut \in SUBSET Tasks
  BY DEF TimedOut, Unfinished
<1>2. MemType' /\ CursorType'
  BY <1>1, ReadType, ActorsLemma DEF Sweep
<1>3. PlaceType' /\ PlaceInv'
  BY TaskConstants, ActorsLemma
  DEF TypeInv, PlaceType, PlaceInv, CursorType, Sweep, Read, Busy, Billing
<1> QED BY <1>2, <1>3 DEF TypeInv, RowsType, WorldType, Sweep

LEMMA ListType ==
    ASSUME TypeInv, NEW p \in Pollers, List(p)
    PROVE  TypeInv'
<1>1. Listed \in SUBSET Tasks
  BY DEF Listed, Unfinished
<1>2. MemType' /\ CursorType'
  BY <1>1, ReadType, ActorsLemma DEF List
<1>3. PlaceType' /\ PlaceInv'
  BY TaskConstants, ActorsLemma
  DEF TypeInv, PlaceType, PlaceInv, CursorType, List, Read, Busy, Billing
<1> QED BY <1>2, <1>3 DEF TypeInv, RowsType, WorldType, List

\* A billing starts or is skipped.
LEMMA BillType ==
    ASSUME TypeInv, NEW p \in Pollers, NEW t \in Tasks, NEW n \in Int,
           NEW next \in {"sweep", "fetch"}, Bill(p, t, n, next),
           UNCHANGED <<world, mem, group, snap>>
    PROVE  WorldType' /\ MemType' /\ CursorType' /\ PlaceType' /\ PlaceInv'
<1>1. CursorType'
  BY ActorsLemma DEF TypeInv, CursorType, Bill
<1>2. PlaceType'
  BY ActorsLemma DEF TypeInv, PlaceType, Bill, Busy, Billing
<1>3. PlaceInv'
  BY TaskConstants, ActorsLemma
  DEF TypeInv, PlaceType, PlaceInv, CursorType, Bill, Busy, Billing
<1> QED BY <1>1, <1>2, <1>3 DEF TypeInv, WorldType, MemType

LEMMA SweepTaskType ==
    ASSUME TypeInv, NEW p \in Pollers, NEW t \in Tasks, SweepTask(p, t)
    PROVE  TypeInv'
<1> DEFINE old == mem[p][t]
           new == [old EXCEPT !.status = "FAILURE", !.complete = TRUE, !.failReason = TRUE]
<1>0. old \in Row
  BY ActorsLemma DEF TypeInv, MemType
<1>1. new \in Row /\ - old.quota \in Int
  BY <1>0, RowLemma, FieldLemma, StatusLemma DEF Terminal
<1>2. PICK o \in Outcomes :
        /\ UpdateWithStatus(t, old.status, new, o)
        /\ Bill(p, t, IF Wins(t, old.status) /\ o = "ok" /\ ~ Legacy(old)
                      THEN - old.quota ELSE 0, "sweep")
  BY DEF SweepTask
<1>3. RowsType'
  BY <1>1, <1>2, UpdateType DEF TypeInv
<1> QED BY <1>1, <1>2, <1>3, BillType DEF TypeInv, SweepTask

LEMMA DispatchType ==
    ASSUME TypeInv, NEW p \in Pollers, NEW pl \in Platform, Dispatch(p, pl)
    PROVE  TypeInv'
<1>1. RowsType'
  BY BulkType DEF TypeInv, Dispatch
<1>2. CursorType'
  BY ActorsLemma DEF TypeInv, CursorType, Dispatch
<1>3. PlaceType'
  BY ActorsLemma DEF TypeInv, PlaceType, Dispatch, Busy
<1>4. PlaceInv'
  BY ActorsLemma, TaskConstants DEF TypeInv, PlaceType, PlaceInv, Dispatch, Billing
<1> QED BY <1>1, <1>2, <1>3, <1>4 DEF TypeInv, WorldType, MemType, Dispatch

LEMMA NoChannelType ==
    ASSUME TypeInv, NEW p \in Pollers, NoChannel(p)
    PROVE  TypeInv'
<1>1. RowsType'
  BY BulkType DEF TypeInv, NoChannel
<1>2. CursorType'
  BY ActorsLemma DEF TypeInv, CursorType, NoChannel
<1>3. PlaceType' /\ PlaceInv'
  BY ActorsLemma, TaskConstants DEF TypeInv, PlaceType, PlaceInv, NoChannel, Busy, Billing
<1> QED BY <1>1, <1>2, <1>3 DEF TypeInv, WorldType, MemType, NoChannel

\* A step that only leaves a task for later, or ends a round.
LEMMA LeaveType ==
    ASSUME TypeInv, NEW p \in Pollers,
           GroupDone(p) \/ (\E t \in Tasks : FetchFails(p, t)) \/ StrayItem(p)
    PROVE  TypeInv'
<1>1. RowsType' /\ WorldType'
  BY DEF TypeInv, RowsType, WorldType, GroupDone, FetchFails, StrayItem
<1>2. MemType' /\ CursorType'
  <2>1. CASE Read(p, {})
    BY <2>1, ReadType, ActorsLemma
  <2>2. CASE UNCHANGED <<mem, todo, cursor>>
    BY <2>2 DEF TypeInv, MemType, CursorType
  <2>3. CASE \E t \in Tasks : FetchFails(p, t)
    BY <2>3, ActorsLemma DEF TypeInv, MemType, CursorType, FetchFails
  <2> QED BY <2>1, <2>2, <2>3 DEF GroupDone, StrayItem
<1>3. PlaceType'
  BY ActorsLemma DEF TypeInv, PlaceType, GroupDone, FetchFails, StrayItem, Busy
<1>4. PlaceInv'
  BY ActorsLemma, TaskConstants
  DEF TypeInv, PlaceType, PlaceInv, CursorType, GroupDone, FetchFails, StrayItem, Read,
      Billing
<1> QED BY <1>1, <1>2, <1>3, <1>4 DEF TypeInv

LEMMA FetchVideoType ==
    ASSUME TypeInv, NEW p \in Pollers, NEW t \in Tasks, NEW a \in Answers, NEW f \in Finals,
           FetchVideo(p, t, a, f)
    PROVE  TypeInv'
<1>0. mem[p][t] \in Row /\ f \in Int /\ a \in Answer
  BY ActorsLemma, TaskConstants DEF TypeInv, MemType
<1>1. VideoUpdated(mem[p][t], a) \in Row /\ mem[p][t].status \in Status
        /\ mem[p][t].quota \in Int
  BY <1>0, VideoLemma, FieldLemma
<1>2. MemType'
  BY <1>1, ActorsLemma DEF TypeInv, MemType, FetchVideo
<1>3. CursorType'
  BY <1>0, <1>1, ActorsLemma DEF TypeInv, CursorType, FetchVideo
<1>4. PlaceType' /\ PlaceInv'
  BY ActorsLemma, TaskConstants
  DEF TypeInv, PlaceType, PlaceInv, CursorType, FetchVideo, Busy, Billing
<1> QED BY <1>2, <1>3, <1>4 DEF TypeInv, RowsType, WorldType, FetchVideo

LEMMA WriteVideoType ==
    ASSUME TypeInv, NEW p \in Pollers, WriteVideo(p)
    PROVE  TypeInv'
<1> DEFINE t == cur[p]
           done == mem[p][t].status \in Terminal
<1>1. t \in Tasks /\ mem[p][t] \in Row /\ due[p] \in Int
  BY ActorsLemma DEF TypeInv, MemType, CursorType, PlaceInv, WriteVideo
<1>2. PICK o \in Outcomes :
        /\ UpdateWithStatus(t, snap[p], mem[p][t], o)
        /\ Bill(p, t, IF done /\ Wins(t, snap[p]) /\ o = "ok" THEN due[p] ELSE 0, "fetch")
  BY DEF WriteVideo
<1>3. RowsType'
  BY <1>1, <1>2, UpdateType DEF TypeInv
<1> QED BY <1>1, <1>2, <1>3, BillType DEF TypeInv, WriteVideo

LEMMA FetchSunoType ==
    ASSUME TypeInv, NEW p \in Pollers, NEW t \in Tasks, NEW a \in Answers,
           NEW time \in ItemTimes, FetchSuno(p, t, a, time)
    PROVE  TypeInv'
<1>1. mem[p][t] \in Row /\ a \in Answer
  BY ActorsLemma, TaskConstants DEF TypeInv, MemType
<1>2. SunoUpdated(mem[p][t], a, time) \in Row /\ mem[p][t].quota \in Int
  BY <1>1, SunoLemma DEF Row
<1>3. MemType'
  BY <1>2, ActorsLemma DEF TypeInv, MemType, FetchSuno
<1>4. CursorType'
  BY <1>2, ActorsLemma DEF TypeInv, CursorType, FetchSuno
<1>5. PlaceType' /\ PlaceInv'
  BY ActorsLemma, TaskConstants
  DEF TypeInv, PlaceType, PlaceInv, CursorType, FetchSuno, Busy, Billing
<1> QED BY <1>3, <1>4, <1>5 DEF TypeInv, RowsType, WorldType, FetchSuno

LEMMA SaveSunoType ==
    ASSUME TypeInv, NEW p \in Pollers, SaveSuno(p)
    PROVE  TypeInv'
<1>1. cur[p] \in Tasks /\ mem[p][cur[p]] \in Row
  BY ActorsLemma DEF TypeInv, MemType, PlaceInv, SaveSuno
<1>2. RowsType'
  BY <1>1 DEF TypeInv, RowsType, SaveSuno
<1>3. CursorType'
  BY ActorsLemma DEF TypeInv, CursorType, SaveSuno
<1>4. PlaceType' /\ PlaceInv'
  BY ActorsLemma, TaskConstants DEF TypeInv, PlaceType, PlaceInv, SaveSuno, Busy, Billing
<1>5. WorldType'
  BY DEF TypeInv, WorldType, SaveSuno
<1> QED BY <1>2, <1>3, <1>4, <1>5 DEF TypeInv, MemType, SaveSuno

\* One leg of a billing, and the return to the caller after the last.
LEMMA AdjustType ==
    ASSUME TypeInv, NEW p \in Pollers, pc[p] \in Billing, NEW l \in Leg, NEW o,
           Move(cur[p], l, due[p], o), UNCHANGED <<world, mem, cursor>>,
           \/ pc' = [pc EXCEPT ![p] = "token"] /\ UNCHANGED todo
           \/ Return(p)
    PROVE  TypeInv'
<1>1. cur[p] \in Tasks /\ due[p] \in Int /\ back[p] \in {"sweep", "fetch", "write"}
  BY ActorsLemma DEF TypeInv, CursorType, PlaceInv, Billing
<1>2. RowsType'
  BY <1>1 DEF TypeInv, RowsType, Move
<1>3. CursorType'
  BY ActorsLemma DEF TypeInv, CursorType, Return
<1>4. PlaceType'
  BY <1>1, ActorsLemma DEF TypeInv, PlaceType, Return, Busy, Billing
<1>5. PlaceInv'
  BY <1>1, ActorsLemma, TaskConstants DEF TypeInv, PlaceType, PlaceInv, Return, Billing
<1> QED BY <1>2, <1>3, <1>4, <1>5 DEF TypeInv, WorldType, MemType

LEMMA QueryType ==
    ASSUME TypeInv, NEW f \in Fetchers, NEW t \in Tasks, NEW a \in Answers, Query(f, t, a)
    PROVE  TypeInv'
<1> DEFINE new == [row[t] EXCEPT !.status = a.status, !.complete = a.complete]
<1>1. row[t] \in Row /\ a \in Answer
  BY TaskConstants DEF TypeInv, RowsType
<1>2. new \in Row /\ row[t].status \in Status
  BY <1>1 DEF Answer, Row, Status, Terminal
<1>3. MemType'
  BY <1>2, ActorsLemma DEF TypeInv, MemType, Query
<1>4. CursorType'
  BY <1>2, ActorsLemma DEF TypeInv, CursorType, Query
<1>5. PlaceType' /\ PlaceInv'
  BY ActorsLemma, TaskConstants
  DEF TypeInv, PlaceType, PlaceInv, CursorType, Query, Busy, Billing
<1> QED BY <1>3, <1>4, <1>5 DEF TypeInv, RowsType, WorldType, Query

LEMMA QueryWriteType ==
    ASSUME TypeInv, NEW f \in Fetchers, QueryWrite(f)
    PROVE  TypeInv'
<1>1. cur[f] \in Tasks /\ mem[f][cur[f]] \in Row
  BY ActorsLemma DEF TypeInv, MemType, PlaceInv, QueryWrite
<1>2. RowsType'
  BY <1>1, UpdateType DEF TypeInv, QueryWrite
<1>3. PlaceType' /\ PlaceInv'
  BY ActorsLemma, TaskConstants DEF TypeInv, PlaceType, PlaceInv, QueryWrite, Busy, Billing
<1>4. WorldType'
  BY <1>1 DEF TypeInv, WorldType, QueryWrite
<1>5. MemType' /\ CursorType'
  BY AbsentLemma, ActorsLemma DEF TypeInv, MemType, CursorType, QueryWrite, NoTask, Status
<1> QED BY <1>2, <1>3, <1>4, <1>5 DEF TypeInv

LEMMA CrashType ==
    ASSUME TypeInv, NEW p \in Pollers, Crash(p)
    PROVE  TypeInv'
<1>1. RowsType'
  BY DEF TypeInv, RowsType, Crash
<1>2. WorldType'
  BY TaskConstants DEF TypeInv, WorldType, Crash
<1>3. PlaceType' /\ PlaceInv'
  BY ActorsLemma, TaskConstants DEF TypeInv, PlaceType, PlaceInv, Crash, Busy, Billing
<1> QED BY <1>1, <1>2, <1>3 DEF TypeInv, MemType, CursorType, Crash

LEMMA InitType == Init => TypeInv
<1> SUFFICES ASSUME Init PROVE TypeInv
  OBVIOUS
<1>1. RowsType /\ MemType
  BY AbsentLemma DEF Init, RowsType, MemType
<1>2. WorldType /\ CursorType
  BY TaskConstants DEF Init, WorldType, CursorType, Status, NoTask, None
<1>3. PlaceType /\ PlaceInv
  BY DEF Init, PlaceType, PlaceInv, Billing, Actors
<1> QED BY <1>1, <1>2, <1>3 DEF TypeInv

LEMMA NextType == TypeInv /\ [Next]_vars => TypeInv'
<1> SUFFICES ASSUME TypeInv, [Next]_vars PROVE TypeInv'
  OBVIOUS
<1>1. CASE UNCHANGED vars
  BY <1>1 DEF vars, TypeInv, RowsType, WorldType, MemType, CursorType, PlaceType, PlaceInv
<1>2. ASSUME NEW p \in Pollers, Poll(p) PROVE TypeInv'
  <2>1. CASE AdjustFunding(p)
    BY <2>1, AdjustType DEF AdjustFunding, Billing, Leg
  <2>2. CASE AdjustToken(p)
    BY <2>2, AdjustType DEF AdjustToken, Billing, Leg
  <2> QED
    BY <1>2, <2>1, <2>2, SweepType, ListType, NoChannelType, LeaveType, SweepTaskType,
       DispatchType, FetchVideoType, FetchSunoType, WriteVideoType, SaveSunoType,
       TaskConstants
    DEF Poll
<1>3. ASSUME NEW p \in Pollers, StrayItem(p) \/ Crash(p) PROVE TypeInv'
  BY <1>3, LeaveType, CrashType
<1>4. ASSUME NEW t \in Tasks, DeleteChannel(PlatformOf[t]) PROVE TypeInv'
  BY <1>4, DeleteChannelType, TaskConstants
<1>5. CASE Next
  BY <1>2, <1>3, <1>4, <1>5, SubmitType, AgeType, UpstreamType, QueryType,
     QueryWriteType DEF Next
<1> QED BY <1>1, <1>5

\* Every variable stays in its domain, whatever the tasks, nodes and queries.
THEOREM TypeCorrect == Spec => []TypeOK
<1>1. Init => TypeInv
  BY InitType
<1>2. TypeInv /\ [Next]_vars => TypeInv'
  BY NextType
<1> QED BY <1>1, <1>2, TypeParts, PTL DEF Spec

-------------------------------------------------------------------------------
(***************************************************************************)
(* Billing.  A step changes one actor and at most one guarded task, except *)
(* for the failures in bulk.                                               *)
(***************************************************************************)

SameActor(q) ==
    /\ pc'[q] = pc[q] /\ mem'[q] = mem[q] /\ todo'[q] = todo[q] /\ group'[q] = group[q]
    /\ cur'[q] = cur[q] /\ snap'[q] = snap[q] /\ due'[q] = due[q] /\ back'[q] = back[q]

\* A row that is there stays there, and stays the row of the same task.
StableRow(t) ==
    Exists(t) => row'[t].status \in Live \cup Terminal /\ SameTask(row'[t], row[t])

LEMMA CopyFrame ==
    ASSUME NEW q, NEW t, CopyInv(q, t), SameActor(q), StableRow(t)
    PROVE  CopyInv(q, t)'
BY DEF CopyInv, SameActor, StableRow, SameTask, Exists

\* A task that a step does not touch.
LEMMA TaskFrame ==
    ASSUME NEW t, TaskInv(t), \A q \in Actors : OwnerInv(q, t),
           row'[t] = row[t], taken'[t] = taken[t], trouble[t] => trouble'[t],
           \A q \in Actors : Owner(q, t)' <=> Owner(q, t),
           \A q \in Actors : Owner(q, t) =>
               pc'[q] = pc[q] /\ due'[q] = due[q] /\ back'[q] = back[q]
    PROVE  StableRow(t) /\ TaskInv(t)' /\ \A q \in Actors : OwnerInv(q, t)'
<1>1. TaskInv(t)'
  BY DEF TaskInv, Exists
<1>2. ASSUME NEW q \in Actors PROVE OwnerInv(q, t)'
  BY <1>2 DEF OwnerInv
<1>3. StableRow(t)
  BY DEF StableRow, Exists, SameTask
<1> QED BY <1>1, <1>2, <1>3

\* A step of p keeps the invariant if it does for the tasks and the copies of p.
LEMMA OneActor ==
    ASSUME BillInv, NEW p \in Actors, \A q \in Actors \ {p} : SameActor(q),
           \A t \in Tasks : Guarded(t) =>
               StableRow(t) /\ TaskInv(t)' /\ CopyInv(p, t)' /\ \A q \in Actors : OwnerInv(q, t)'
    PROVE  BillInv'
<1>1. ASSUME NEW t \in Tasks, Guarded(t), NEW q \in Actors PROVE CopyInv(q, t)'
  BY <1>1, CopyFrame DEF BillInv
<1> QED BY <1>1 DEF BillInv, Guarded

\* No billing gives back more than the task cost.
LEMMA DueLemma ==
    ASSUME NEW s, NEW q \in Nat, NEW n \in Int, DueFor(s, q, n)
    PROVE  s \in Terminal /\ n >= -q
BY TaskConstants DEF DueFor, Terminal

\* What is due makes the task cost what it should.
LEMMA CostLemma ==
    ASSUME NEW r \in Row, NEW n \in Int, DueFor(r.status, r.quota, n)
    PROVE  Cost(r, r.quota + n)
<1>1. r.quota \in Nat
  BY FieldLemma
<1>2. CASE r.status = "FAILURE" /\ n = - r.quota
  BY <1>1, <1>2 DEF Cost
<1>3. CASE r.status = "SUCCESS" /\ \E f \in Finals \ {0} : n = f - r.quota
  <2>1. PICK f \in Finals \ {0} : n = f - r.quota
    BY <1>3
  <2>2. r.quota + n = f
    BY <1>1, <2>1, TaskConstants
  <2> QED BY <1>3, <2>2 DEF Cost
<1> QED BY <1>2, <1>3 DEF DueFor

\* Nobody is billing a task that goes on.
LEMMA NoOwner ==
    ASSUME BillInv, NEW t \in Tasks, Guarded(t), row[t].status \in Live
    PROVE  /\ \A q \in Actors : ~ Owner(q, t)
           /\ ~ SettleMayFail => \A l \in Leg : taken[t][l] = row[t].quota
BY DEF BillInv, OwnerInv, TaskInv, Live, Terminal

\* The guarded write of u and the billing that follows it: v may replace a row
\* that goes on, and what is billed is what v calls for.
LEMMA EndLemma ==
    ASSUME TypeInv, BillInv, NEW p \in Pollers, pc[p] \notin Billing,
           NEW u \in Tasks, NEW from \in Live, NEW v \in Row, NEW o, NEW n \in Int,
           NEW next \in {"sweep", "fetch"},
           UpdateWithStatus(u, from, v, o), Bill(p, u, n, next),
           v.status \in Live \cup Terminal, SameTask(v, row[u]),
           n # 0 => Wins(u, from) /\ o = "ok" /\ DueFor(v.status, v.quota, n),
           Wins(u, from) /\ o = "ok" /\ n = 0 /\ v.status \in Terminal => Cost(v, v.quota),
           NEW t \in Tasks, Guarded(t)
    PROVE  StableRow(t) /\ TaskInv(t)' /\ \A q \in Actors : OwnerInv(q, t)'
<1>0. p \in Actors /\ row[t] \in Row /\ row[t].quota \in Nat /\ taken[t] \in [Leg -> Int]
        /\ trouble[t] \in BOOLEAN /\ taken'[t] = taken[t]
  BY ActorsLemma, FieldLemma DEF TypeInv, RowsType, UpdateWithStatus
<1>1. \A q \in Actors \ {p} : (Owner(q, t)' <=> Owner(q, t))
        /\ pc'[q] = pc[q] /\ due'[q] = due[q] /\ back'[q] = back[q]
  BY DEF TypeInv, CursorType, PlaceType, Bill, Owner
<1>2. ~ Owner(p, t) /\ (Owner(p, t)' <=> t = u /\ n # 0)
  BY <1>0 DEF TypeInv, CursorType, PlaceType, Bill, Owner, Billing
<1>3. TaskInv(t) /\ \A q \in Actors : OwnerInv(q, t)
  BY DEF BillInv
<1>4. trouble[t] => trouble'[t]
  BY <1>0 DEF TypeInv, RowsType, UpdateWithStatus
<1>5. CASE t # u \/ ~ Wins(u, from) \/ o = "fail"
  <2>1. row'[t] = row[t] /\ ~ Owner(p, t)'
    BY <1>2, <1>5 DEF UpdateWithStatus, TypeInv, RowsType
  <2> QED BY <1>0, <1>1, <1>2, <1>3, <1>4, <2>1, TaskFrame
<1>6. CASE t = u /\ Wins(u, from) /\ o # "fail"
  <2>1. row'[t] = v /\ row[t].status \in Live /\ (trouble'[t] <=> trouble[t] \/ o # "ok")
    BY <1>6 DEF UpdateWithStatus, TypeInv, RowsType, Wins
  <2>2. /\ \A q \in Actors : ~ Owner(q, t)
        /\ ~ SettleMayFail => \A l \in Leg : taken[t][l] = v.quota
    BY <1>6, <2>1, NoOwner DEF SameTask
  <2>3. StableRow(t)
    BY <1>6, <2>1 DEF StableRow
  <2>4. ASSUME NEW q \in Actors PROVE OwnerInv(q, t)'
    <3> SUFFICES ASSUME Owner(q, t)' PROVE OwnerInv(q, t)'
      BY DEF OwnerInv
    <3>1. q = p /\ n # 0
      BY <1>1, <1>2, <2>2
    <3>2. pc'[p] = "funding" /\ due'[p] = n /\ back'[p] = next
      BY <1>0, <3>1 DEF Bill, TypeInv, CursorType, PlaceType
    <3>3. DueFor(v.status, v.quota, n) /\ v.status \in Terminal /\ n >= - v.quota
      BY <3>1, FieldLemma, DueLemma
    <3>4. ASSUME ~ SettleMayFail
          PROVE  taken'[t]["token"] = v.quota /\ taken'[t]["funding"] = v.quota + 0
      BY <1>0, <2>2, <3>4, FieldLemma DEF Leg
    <3> QED BY <2>1, <3>1, <3>2, <3>3, <3>4 DEF OwnerInv
  <2>5. TaskInv(t)'
    <3>1. ASSUME v.status \in Terminal, ~ trouble'[t], \A q \in Actors : ~ Owner(q, t)'
          PROVE  Cost(v, v.quota)
      BY <1>0, <1>2, <1>6, <2>1, <3>1
    <3>2. \A q, r \in Actors : Owner(q, t)' /\ Owner(r, t)' => q = r
      BY <1>1, <1>2, <2>2
    <3>3. v.hasId = row[t].hasId /\ v.quota \in Nat /\ Exists(t)
      BY <1>6, <2>1, FieldLemma DEF SameTask, Exists
    <3> QED BY <1>0, <1>3, <2>1, <2>2, <3>1, <3>2, <3>3 DEF TaskInv, Leg
  <2> QED BY <2>3, <2>4, <2>5
<1> QED BY <1>5, <1>6

\* A step of p that touches no guarded task.
LEMMA QuietStep ==
    ASSUME BillInv, NEW p \in Actors, \A q \in Actors \ {p} : SameActor(q),
           \A t \in Tasks : Guarded(t) =>
               /\ row'[t] = row[t] /\ taken'[t] = taken[t] /\ (trouble[t] => trouble'[t])
               /\ ~ Owner(p, t) /\ ~ Owner(p, t)' /\ CopyInv(p, t)'
    PROVE  BillInv'
<1>1. ASSUME NEW t \in Tasks, Guarded(t)
      PROVE  StableRow(t) /\ TaskInv(t)' /\ \A q \in Actors : OwnerInv(q, t)'
  <2>1. \A q \in Actors : Owner(q, t)' <=> Owner(q, t)
    BY <1>1 DEF SameActor, Owner
  <2>2. \A q \in Actors : Owner(q, t) =>
               pc'[q] = pc[q] /\ due'[q] = due[q] /\ back'[q] = back[q]
    BY <1>1 DEF SameActor
  <2> QED BY <1>1, <2>1, <2>2, TaskFrame DEF BillInv
<1> QED BY <1>1, OneActor

\* A list is read: the copies are the rows.
LEMMA ReadStep ==
    ASSUME TypeInv, BillInv, NEW p \in Pollers, NEW ts \in SUBSET Unfinished, Read(p, ts),
           pc[p] \notin Billing, NEW next \in {"sweep", "dispatch", "sleep", "dead"},
           pc' = [pc EXCEPT ![p] = next], UNCHANGED rows
    PROVE  BillInv'
<1>1. p \in Actors /\ \A q \in Actors \ {p} : SameActor(q)
  BY ActorsLemma DEF TypeInv, MemType, CursorType, PlaceType, Read, SameActor
<1>2. pc'[p] = next /\ todo'[p] = ts
  BY <1>1 DEF TypeInv, CursorType, PlaceType, Read
<1>3. ASSUME NEW t \in Tasks PROVE ~ Owner(p, t) /\ ~ Owner(p, t)' /\ CopyInv(p, t)'
  <2>1. t \in ts => mem'[p][t] = row[t] /\ row[t].status \in Live
    BY <1>1, FieldLemma DEF TypeInv, MemType, RowsType, Read, Unfinished, Status, Live, Terminal
  <2>2. ~ Owner(p, t) /\ ~ Owner(p, t)'
    BY <1>2 DEF Owner, Billing
  <2>3. CopyInv(p, t)'
    BY <1>2, <2>1 DEF CopyInv, Exists, SameTask
  <2> QED BY <2>2, <2>3
<1> QED BY <1>1, <1>3, QuietStep

LEMMA SweepStep ==
    ASSUME TypeInv, BillInv, NEW p \in Pollers, Sweep(p)
    PROVE  BillInv'
<1>1. TimedOut \in SUBSET Unfinished
  BY DEF TimedOut
<1> QED BY <1>1, ReadStep DEF Sweep, Billing

LEMMA ListStep ==
    ASSUME TypeInv, BillInv, NEW p \in Pollers, List(p)
    PROVE  BillInv'
<1>1. Listed \in SUBSET Unfinished
  BY DEF Listed
<1>2. pc[p] \notin Billing
  BY DEF List, Billing
<1>3. CASE Listed = {}
  BY <1>1, <1>2, <1>3, ReadStep DEF List
<1>4. CASE Listed # {}
  BY <1>1, <1>2, <1>4, ReadStep DEF List
<1> QED BY <1>3, <1>4

\* After a write, p is done with u or bills it; its other copies are as before.
LEMMA BillCopies ==
    ASSUME TypeInv, BillInv, NEW p \in Pollers, NEW u \in Tasks, NEW n,
           NEW next \in {"sweep", "fetch"}, Bill(p, u, n, next), UNCHANGED <<mem, group, snap>>,
           pc[p] \in {"sweep", "fetch", "write"}, pc[p] = "write" => cur[p] = u,
           NEW t \in Tasks, Guarded(t), StableRow(t)
    PROVE  CopyInv(p, t)'
<1>1. pc'[p] \in {next, "funding"} /\ cur'[p] = u
        /\ ((todo'[p] = todo[p] /\ pc'[p] = "funding") \/ todo'[p] = todo[p] \ {u})
  BY ActorsLemma DEF TypeInv, CursorType, PlaceType, Bill
<1>2. CopyInv(p, t)
  BY ActorsLemma DEF BillInv
<1> QED BY <1>1, <1>2 DEF CopyInv, Busy, Billing, Exists, SameTask, StableRow

LEMMA SweepTaskStep ==
    ASSUME TypeInv, BillInv, NEW p \in Pollers, NEW u \in Tasks, Guarded(u), SweepTask(p, u)
    PROVE  BillInv'
<1> DEFINE old == mem[p][u]
           new == [old EXCEPT !.status = "FAILURE", !.complete = TRUE, !.failReason = TRUE]
           n(o) == IF Wins(u, old.status) /\ o = "ok" /\ ~ Legacy(old) THEN - old.quota ELSE 0
<1>1. PICK o \in Outcomes :
        UpdateWithStatus(u, old.status, new, o) /\ Bill(p, u, n(o), "sweep")
  BY DEF SweepTask
<1>2. p \in Actors /\ pc[p] = "sweep" /\ u \in todo[p] /\ UNCHANGED <<mem, group, snap>>
  BY ActorsLemma DEF SweepTask
<1>3. old \in Row /\ old.status \in Live /\ SameTask(old, row[u])
  BY <1>2 DEF TypeInv, MemType, BillInv, CopyInv, Busy, Billing
<1>4. new \in Row /\ new.status = "FAILURE" /\ SameTask(new, old)
        /\ new.quota = old.quota /\ new.submitTime = old.submitTime
  BY <1>3, StatusLemma DEF Row, Terminal, SameTask
<1>5. SameTask(new, row[u]) /\ old.quota \in Nat /\ n(o) \in Int
  BY <1>3, <1>4, FieldLemma DEF SameTask
<1>6. n(o) # 0 => Wins(u, old.status) /\ o = "ok" /\ DueFor(new.status, new.quota, n(o))
  BY <1>4 DEF DueFor
<1>7. Wins(u, old.status) /\ o = "ok" /\ n(o) = 0 => Cost(new, new.quota)
  <2>1. Legacy(old) = Legacy(new)
    BY <1>4 DEF Legacy
  <2> QED BY <1>4, <1>5, <2>1 DEF Cost
<1> HIDE DEF old, new, n
<1>8. \A q \in Actors \ {p} : SameActor(q)
  BY <1>1, <1>2 DEF TypeInv, MemType, CursorType, PlaceType, Bill, SameActor
<1>9. ASSUME NEW t \in Tasks, Guarded(t)
      PROVE  StableRow(t) /\ TaskInv(t)' /\ CopyInv(p, t)' /\ \A q \in Actors : OwnerInv(q, t)'
  <2>1. StableRow(t) /\ TaskInv(t)' /\ \A q \in Actors : OwnerInv(q, t)'
    BY <1>1, <1>2, <1>3, <1>4, <1>5, <1>6, <1>7, <1>9, EndLemma DEF Billing, Terminal
  <2>2. CopyInv(p, t)'
    BY <1>1, <1>2, <1>9, <2>1, BillCopies
  <2> QED BY <2>1, <2>2
<1> QED BY <1>2, <1>8, <1>9, OneActor

\* The same write and billing for a task that is not guarded.
LEMMA OtherStep ==
    ASSUME TypeInv, BillInv, NEW p \in Pollers, NEW u \in Tasks, ~ Guarded(u),
           NEW from, NEW v, NEW o, NEW n, NEW next \in {"sweep", "fetch"},
           UpdateWithStatus(u, from, v, o), Bill(p, u, n, next), UNCHANGED <<mem, group, snap>>,
           pc[p] \in {"sweep", "fetch", "write"}, pc[p] = "write" => cur[p] = u
    PROVE  BillInv'
<1>1. p \in Actors /\ \A q \in Actors \ {p} : SameActor(q)
  BY ActorsLemma DEF TypeInv, MemType, CursorType, PlaceType, Bill, SameActor
<1>2. ASSUME NEW t \in Tasks, Guarded(t)
      PROVE  /\ row'[t] = row[t] /\ taken'[t] = taken[t] /\ (trouble[t] => trouble'[t])
             /\ ~ Owner(p, t) /\ ~ Owner(p, t)' /\ CopyInv(p, t)'
  <2>1. t # u
    BY <1>2
  <2>2. row'[t] = row[t] /\ taken'[t] = taken[t] /\ (trouble[t] => trouble'[t])
    BY <2>1 DEF UpdateWithStatus, TypeInv, RowsType
  <2>3. ~ Owner(p, t) /\ ~ Owner(p, t)'
    BY <1>1, <2>1 DEF Owner, Billing, TypeInv, CursorType, PlaceType, Bill
  <2>4. StableRow(t)
    BY <2>2 DEF StableRow, Exists, SameTask
  <2>5. CopyInv(p, t)'
    BY <1>2, <2>4, BillCopies
  <2> QED BY <2>2, <2>3, <2>5
<1> QED BY <1>1, <1>2, QuietStep

\* Failures in bulk: the row of a task ends without a guard, nobody is billed.
LEMMA BulkLemma ==
    ASSUME TypeInv, BillInv, NEW ts, NEW reason \in BOOLEAN, NEW o, BulkFailure(ts, reason, o),
           NEW t \in Tasks, Guarded(t), t \in ts => Exists(t) /\ ~ NoBulkFailure,
           \A q \in Actors : Owner(q, t)' <=> Owner(q, t),
           \A q \in Actors : Owner(q, t) =>
               pc'[q] = pc[q] /\ due'[q] = due[q] /\ back'[q] = back[q]
    PROVE  StableRow(t) /\ TaskInv(t)' /\ \A q \in Actors : OwnerInv(q, t)'
<1>1. TaskInv(t) /\ \A q \in Actors : OwnerInv(q, t)
  BY DEF BillInv
<1>2. taken'[t] = taken[t] /\ (trouble[t] => trouble'[t])
  BY DEF BulkFailure, TypeInv, RowsType
<1>3. CASE t \notin ts \/ o = "fail"
  <2>1. row'[t] = row[t]
    BY <1>3 DEF BulkFailure, TypeInv, RowsType
  <2> QED BY <1>1, <1>2, <2>1, TaskFrame
<1>4. CASE t \in ts /\ o # "fail"
  <2>1. row'[t] = [row[t] EXCEPT !.status = "FAILURE", !.complete = TRUE,
                                 !.failReason = @ \/ reason] /\ row[t] \in Row
    BY <1>4 DEF BulkFailure, TypeInv, RowsType
  <2>2. row'[t].status = "FAILURE" /\ row'[t].quota = row[t].quota /\ SameTask(row'[t], row[t])
    BY <2>1 DEF Row, SameTask
  <2>3. ~ NoBulkFailure /\ Exists(t)
    BY <1>4
  <2>4. StableRow(t)
    BY <2>2 DEF StableRow, Terminal
  <2>5. ASSUME NEW q \in Actors PROVE OwnerInv(q, t)'
    <3> SUFFICES ASSUME Owner(q, t)' PROVE OwnerInv(q, t)'
      BY DEF OwnerInv
    <3>1. /\ Owner(q, t) /\ OwnerInv(q, t)
          /\ pc'[q] = pc[q] /\ due'[q] = due[q] /\ back'[q] = back[q]
      BY <1>1, <2>5
    <3> QED BY <1>2, <2>2, <2>3, <3>1 DEF OwnerInv, Terminal, NoBulkFailure
  <2>6. TaskInv(t)'
    BY <1>1, <1>2, <2>2, <2>3 DEF TaskInv, Terminal, NoBulkFailure
  <2> QED BY <2>4, <2>5, <2>6
<1> QED BY <1>3, <1>4

LEMMA DispatchStep ==
    ASSUME TypeInv, BillInv, NEW p \in Pollers, NEW pl \in Platform, Dispatch(p, pl)
    PROVE  BillInv'
<1> DEFINE nulls == {t \in Group(p, pl) : ~ mem[p][t].hasId}
<1>1. PICK o \in Outcomes : BulkFailure(nulls, FALSE, o)
  BY DEF Dispatch
<1>2. p \in Actors /\ \A q \in Actors \ {p} : SameActor(q)
  BY ActorsLemma DEF TypeInv, MemType, CursorType, PlaceType, Dispatch, SameActor
<1>3. /\ pc[p] = "dispatch" /\ pc'[p] \in {"fetch", "noChannel"}
      /\ todo'[p] \subseteq todo[p] /\ mem' = mem
  BY <1>2 DEF TypeInv, CursorType, PlaceType, Dispatch
<1>4. ASSUME NEW t \in Tasks, Guarded(t)
      PROVE  StableRow(t) /\ TaskInv(t)' /\ CopyInv(p, t)' /\ \A q \in Actors : OwnerInv(q, t)'
  <2>1. CopyInv(p, t)
    BY <1>2, <1>4 DEF BillInv
  <2>2. t \in nulls => Exists(t) /\ ~ NoBulkFailure
    BY <1>3, <1>4, <2>1 DEF CopyInv, Busy, Group, BillInv, TaskInv, SameTask
  <2>3. \A q \in Actors : (Owner(q, t)' <=> Owner(q, t))
          /\ (Owner(q, t) => pc'[q] = pc[q] /\ due'[q] = due[q] /\ back'[q] = back[q])
    BY <1>2, <1>3 DEF SameActor, Owner, Billing
  <2>4. StableRow(t) /\ TaskInv(t)' /\ \A q \in Actors : OwnerInv(q, t)'
    <3> HIDE DEF nulls
    <3> QED BY <1>1, <1>4, <2>2, <2>3, BulkLemma
  <2>5. CopyInv(p, t)'
    BY <1>3, <2>1, <2>4 DEF CopyInv, StableRow, Exists, SameTask, Busy, Billing
  <2> QED BY <2>4, <2>5
<1> QED BY <1>2, <1>4, OneActor

LEMMA NoChannelStep ==
    ASSUME TypeInv, BillInv, NEW p \in Pollers, NoChannel(p)
    PROVE  BillInv'
<1>1. PICK o \in Outcomes : BulkFailure(Group(p, group[p]), TRUE, o)
  BY DEF NoChannel
<1>2. p \in Actors /\ \A q \in Actors \ {p} : SameActor(q)
  BY ActorsLemma DEF TypeInv, MemType, CursorType, PlaceType, NoChannel, SameActor
<1>3. /\ pc[p] = "noChannel" /\ pc'[p] = "fetch"
      /\ todo'[p] \subseteq todo[p] /\ mem' = mem /\ ~ NoBulkFailure
  BY <1>2, TaskConstants DEF TypeInv, CursorType, PlaceType, PlaceInv, NoChannel, NoBulkFailure
<1>4. ASSUME NEW t \in Tasks, Guarded(t)
      PROVE  StableRow(t) /\ TaskInv(t)' /\ CopyInv(p, t)' /\ \A q \in Actors : OwnerInv(q, t)'
  <2>1. CopyInv(p, t)
    BY <1>2, <1>4 DEF BillInv
  <2>2. t \in Group(p, group[p]) => Exists(t) /\ ~ NoBulkFailure
    BY <1>3, <2>1 DEF CopyInv, Busy, Group
  <2>3. \A q \in Actors : (Owner(q, t)' <=> Owner(q, t))
          /\ (Owner(q, t) => pc'[q] = pc[q] /\ due'[q] = due[q] /\ back'[q] = back[q])
    BY <1>2, <1>3 DEF SameActor, Owner, Billing
  <2>4. StableRow(t) /\ TaskInv(t)' /\ \A q \in Actors : OwnerInv(q, t)'
    BY <1>1, <1>4, <2>2, <2>3, BulkLemma
  <2>5. CopyInv(p, t)'
    BY <1>3, <2>1, <2>4 DEF CopyInv, StableRow, Exists, SameTask, Busy, Billing
  <2> QED BY <2>4, <2>5
<1> QED BY <1>2, <1>4, OneActor

\* A task is left for the next round, or a round ends.
LEMMA LeaveStep ==
    ASSUME TypeInv, BillInv, NEW p \in Pollers,
           GroupDone(p) \/ (\E t \in Tasks : FetchFails(p, t)) \/ StrayItem(p)
    PROVE  BillInv'
<1>0. pc[p] = "fetch" /\ UNCHANGED rows
  BY DEF GroupDone, FetchFails, StrayItem
<1>1. CASE \/ pc' = [pc EXCEPT ![p] = "sleep"] /\ Read(p, {})
           \/ pc' = [pc EXCEPT ![p] = "dead"] /\ Read(p, {})
  BY <1>0, <1>1, ReadStep DEF Billing
<1>2. CASE \/ pc' = [pc EXCEPT ![p] = "dispatch"] /\ UNCHANGED <<mem, todo, cursor>>
           \/ \E t \in Tasks : FetchFails(p, t)
  <2>1. p \in Actors /\ \A q \in Actors \ {p} : SameActor(q)
    BY <1>2, ActorsLemma
    DEF TypeInv, MemType, CursorType, PlaceType, FetchFails, SameActor
  <2>2. /\ pc'[p] \in {"dispatch", "fetch"} /\ todo'[p] \subseteq todo[p] /\ mem' = mem
    BY <1>0, <1>2, <2>1 DEF TypeInv, CursorType, PlaceType, FetchFails
  <2>3. ASSUME NEW t \in Tasks, Guarded(t)
        PROVE  ~ Owner(p, t) /\ ~ Owner(p, t)' /\ CopyInv(p, t)'
    <3>1. CopyInv(p, t)
      BY <2>1, <2>3 DEF BillInv
    <3> QED BY <1>0, <2>2, <3>1 DEF Owner, Billing, CopyInv, Exists, SameTask, Busy
  <2> QED BY <1>0, <2>1, <2>3, QuietStep
<1> QED BY <1>1, <1>2 DEF GroupDone, StrayItem

\* A poller learns how a task stands: only its copy changes.
LEMMA FetchVideoStep ==
    ASSUME TypeInv, BillInv, NEW p \in Pollers, NEW u \in Tasks, NEW a \in Answers,
           NEW f \in Finals, FetchVideo(p, u, a, f)
    PROVE  BillInv'
<1> DEFINE old == mem[p][u]
           new == VideoUpdated(old, a)
<1>1. p \in Actors /\ \A q \in Actors \ {p} : SameActor(q)
  BY ActorsLemma DEF TypeInv, MemType, CursorType, PlaceType, FetchVideo, SameActor
<1>2. /\ pc[p] = "fetch" /\ pc'[p] = "write" /\ cur'[p] = u /\ todo' = todo /\ group' = group
      /\ u \in todo[p] /\ group[p] = PlatformOf[u] /\ snap'[p] = old.status /\ UNCHANGED rows
      /\ (a.status # "SUCCESS" => f = 0)
  BY <1>1 DEF TypeInv, CursorType, PlaceType, FetchVideo, Group
<1>3. old \in Row /\ a \in Answer /\ f \in Nat /\ old.quota \in Nat
  BY <1>1, FieldLemma, TaskConstants DEF TypeInv, MemType
<1>4. new \in Row /\ new.status = a.status /\ SameTask(new, old)
  BY <1>3, VideoLemma
<1>5. mem'[p][u] = new /\ \A t \in Tasks \ {u} : mem'[p][t] = mem[p][t]
  BY <1>1 DEF TypeInv, MemType, FetchVideo
<1>6. due'[p] = CASE a.status = "FAILURE" -> - old.quota
                  [] f > 0                -> f - old.quota
                  [] OTHER                -> 0
  BY <1>1 DEF TypeInv, CursorType, FetchVideo
<1>7. /\ due'[p] >= - old.quota
      /\ a.status \in Terminal /\ due'[p] # 0 => DueFor(a.status, old.quota, due'[p])
      /\ a.status = "FAILURE" => due'[p] = - old.quota
  <2>1. CASE a.status = "FAILURE"
    BY <1>2, <1>3, <1>6, <2>1 DEF DueFor
  <2>2. CASE a.status # "FAILURE" /\ f > 0
    BY <1>2, <1>3, <1>6, <2>2 DEF DueFor
  <2>3. CASE a.status # "FAILURE" /\ ~ f > 0
    BY <1>2, <1>3, <1>6, <2>3
  <2> QED BY <2>1, <2>2, <2>3
<1> HIDE DEF new
<1>8. ASSUME NEW t \in Tasks, Guarded(t)
      PROVE  ~ Owner(p, t) /\ ~ Owner(p, t)' /\ CopyInv(p, t)'
  <2>1. CopyInv(p, t)
    BY <1>1, <1>8 DEF BillInv
  <2>2. ~ Owner(p, t) /\ ~ Owner(p, t)'
    BY <1>2 DEF Owner, Billing
  <2>3. t \in todo[p] =>
          Exists(t) /\ SameTask(mem[p][t], row[t]) /\ mem[p][t].status \in Live
    BY <1>2, <2>1 DEF CopyInv, Busy, Billing
  <2>4. CASE t = u
    <3>1. Exists(t)' /\ SameTask(mem'[p][t], row'[t]) /\ mem'[p][t].quota = old.quota
      BY <1>2, <1>4, <1>5, <2>3, <2>4 DEF Exists, SameTask
    <3>2. mem'[p][t].status = a.status /\ a.status \in Live \cup Terminal /\ old.status \in Live
      BY <1>2, <1>3, <1>4, <1>5, <2>3, <2>4 DEF Answer, Live
    <3> QED BY <1>2, <2>2, <1>7, <2>4, <3>1, <3>2 DEF CopyInv, Exists, SameTask, Billing
  <2>5. CASE t # u
    <3>1. mem'[p][t] = mem[p][t]
      BY <1>5, <2>5
    <3> QED BY <1>2, <2>2, <2>3, <2>5, <3>1 DEF CopyInv, Exists, SameTask, Billing
  <2> QED BY <2>2, <2>4, <2>5
<1> QED BY <1>1, <1>2, <1>8, QuietStep

\* Its write, and the billing of the winner.
LEMMA WriteVideoStep ==
    ASSUME TypeInv, BillInv, NEW p \in Pollers, WriteVideo(p)
    PROVE  BillInv'
<1> DEFINE u == cur[p]
           v == mem[p][u]
           n(o) == IF v.status \in Terminal /\ Wins(u, snap[p]) /\ o = "ok" THEN due[p] ELSE 0
<1>1. PICK o \in Outcomes :
        UpdateWithStatus(u, snap[p], v, o) /\ Bill(p, u, n(o), "fetch")
  BY DEF WriteVideo
<1>2. /\ p \in Actors /\ pc[p] = "write" /\ u \in Tasks /\ v \in Row /\ due[p] \in Int
      /\ n(o) \in Int /\ UNCHANGED <<mem, group, snap>> /\ v.quota \in Nat
  BY ActorsLemma, FieldLemma DEF WriteVideo, TypeInv, PlaceInv, MemType, CursorType
<1>3. CASE ~ Guarded(u)
  <2> HIDE DEF v, u, n
  <2> QED BY <1>1, <1>2, <1>3, OtherStep DEF u
<1>4. CASE Guarded(u)
  <2>1. CopyInv(p, u)
    BY <1>2, <1>4 DEF BillInv
  <2>2. /\ snap[p] \in Live /\ SameTask(v, row[u])
        /\ v.status \in Terminal /\ due[p] # 0 => DueFor(v.status, v.quota, due[p])
        /\ v.status = "FAILURE" => due[p] = - v.quota
        /\ v.status \in Live \cup Terminal
    BY <1>2, <2>1 DEF CopyInv, Busy
  <2>3. n(o) # 0 => Wins(u, snap[p]) /\ o = "ok" /\ DueFor(v.status, v.quota, n(o))
    BY <2>2
  <2>4. Wins(u, snap[p]) /\ o = "ok" /\ n(o) = 0 /\ v.status \in Terminal => Cost(v, v.quota)
    BY <1>2, <2>2 DEF Cost, Terminal
  <2>5. \A q \in Actors \ {p} : SameActor(q)
    BY <1>1, <1>2 DEF TypeInv, MemType, CursorType, PlaceType, Bill, SameActor
  <2> HIDE DEF v, u, n
  <2>6. ASSUME NEW t \in Tasks, Guarded(t)
        PROVE  StableRow(t) /\ TaskInv(t)' /\ CopyInv(p, t)' /\ \A q \in Actors : OwnerInv(q, t)'
    <3>1. StableRow(t) /\ TaskInv(t)' /\ \A q \in Actors : OwnerInv(q, t)'
      BY <1>1, <1>2, <2>2, <2>3, <2>4, <2>6, EndLemma DEF Billing
    <3>2. CopyInv(p, t)'
      BY <1>1, <1>2, <2>6, <3>1, BillCopies DEF u
    <3> QED BY <3>1, <3>2
  <2> QED BY <1>2, <2>5, <2>6, OneActor
<1> QED BY <1>3, <1>4

\* A step on the copy of a Suno task, which is not guarded.
LEMMA FetchSunoStep ==
    ASSUME TypeInv, BillInv, NEW p \in Pollers, NEW u \in Tasks, NEW a \in Answers,
           NEW time \in ItemTimes, FetchSuno(p, u, a, time)
    PROVE  BillInv'
<1>1. p \in Actors /\ \A q \in Actors \ {p} : SameActor(q)
  BY ActorsLemma DEF TypeInv, MemType, CursorType, PlaceType, FetchSuno, SameActor
<1>2. /\ pc[p] = "fetch" /\ pc'[p] \in {"write", "funding"} /\ cur'[p] = u
      /\ todo' = todo /\ PlatformOf[u] = "suno" /\ UNCHANGED rows
      /\ \A t \in Tasks \ {u} : mem'[p][t] = mem[p][t]
  BY <1>1 DEF TypeInv, MemType, CursorType, PlaceType, FetchSuno, Group
<1>3. ASSUME NEW t \in Tasks, Guarded(t)
      PROVE  ~ Owner(p, t) /\ ~ Owner(p, t)' /\ CopyInv(p, t)'
  <2>1. CopyInv(p, t)
    BY <1>1, <1>3 DEF BillInv
  <2>2. t # u
    BY <1>2, <1>3 DEF Guarded
  <2>3. mem'[p][t] = mem[p][t]
    BY <1>2, <2>2
  <2> QED BY <1>2, <2>1, <2>2, <2>3 DEF Owner, Billing, CopyInv, Exists, SameTask, Busy
<1> QED BY <1>1, <1>2, <1>3, QuietStep

LEMMA SaveSunoStep ==
    ASSUME TypeInv, BillInv, NEW p \in Pollers, SaveSuno(p)
    PROVE  BillInv'
<1>1. p \in Actors /\ \A q \in Actors \ {p} : SameActor(q)
  BY ActorsLemma DEF TypeInv, MemType, CursorType, PlaceType, SaveSuno, SameActor
<1>2. /\ pc[p] = "write" /\ pc'[p] = "fetch" /\ cur[p] \in Tasks
      /\ todo'[p] \subseteq todo[p] \ {cur[p]} /\ mem' = mem /\ group[p] = "suno"
  BY <1>1 DEF TypeInv, CursorType, PlaceType, PlaceInv, SaveSuno
<1>3. ASSUME NEW t \in Tasks, Guarded(t)
      PROVE  /\ row'[t] = row[t] /\ taken'[t] = taken[t] /\ (trouble[t] => trouble'[t])
             /\ ~ Owner(p, t) /\ ~ Owner(p, t)' /\ CopyInv(p, t)'
  <2>1. CopyInv(p, t)
    BY <1>1, <1>3 DEF BillInv
  <2>2. t # cur[p]
    BY <1>2, <1>3, <2>1 DEF CopyInv, Guarded
  <2>3. row'[t] = row[t] /\ taken'[t] = taken[t] /\ (trouble[t] => trouble'[t])
    BY <1>2, <2>2 DEF SaveSuno, TypeInv, RowsType
  <2>4. CopyInv(p, t)'
    BY <1>2, <2>1, <2>2, <2>3 DEF CopyInv, Exists, SameTask, Busy, Billing
  <2> QED BY <1>2, <2>3, <2>4 DEF Owner, Billing
<1> QED BY <1>1, <1>3, QuietStep

\* A user's query reads and writes rows that are not guarded.
LEMMA QueryStep ==
    ASSUME TypeInv, BillInv, NEW f \in Fetchers, NEW u \in Tasks, NEW a \in Answers,
           Query(f, u, a)
    PROVE  BillInv'
<1>1. f \in Actors /\ \A q \in Actors \ {f} : SameActor(q)
  BY ActorsLemma DEF TypeInv, MemType, CursorType, PlaceType, Query, SameActor
<1>2. /\ pc[f] = "sleep" /\ pc'[f] = "query" /\ cur'[f] = u /\ PlatformOf[u] = "gemini"
      /\ UNCHANGED rows
  BY <1>1 DEF TypeInv, CursorType, PlaceType, Query
<1>3. ASSUME NEW t \in Tasks PROVE ~ Owner(f, t) /\ ~ Owner(f, t)' /\ CopyInv(f, t)'
  BY <1>2 DEF Owner, Billing, CopyInv, Busy
<1> QED BY <1>1, <1>2, <1>3, QuietStep

LEMMA QueryWriteStep ==
    ASSUME TypeInv, BillInv, NEW f \in Fetchers, QueryWrite(f)
    PROVE  BillInv'
<1>1. f \in Actors /\ \A q \in Actors \ {f} : SameActor(q)
  BY ActorsLemma DEF TypeInv, MemType, CursorType, PlaceType, QueryWrite, SameActor
<1>2. pc[f] = "query" /\ pc'[f] = "sleep" /\ cur[f] \in Tasks
  BY <1>1 DEF TypeInv, PlaceType, PlaceInv, QueryWrite
<1>3. ASSUME NEW t \in Tasks, Guarded(t)
      PROVE  /\ row'[t] = row[t] /\ taken'[t] = taken[t] /\ (trouble[t] => trouble'[t])
             /\ ~ Owner(f, t) /\ ~ Owner(f, t)' /\ CopyInv(f, t)'
  <2>1. t # cur[f]
    BY <1>1, <1>2, <1>3 DEF BillInv, CopyInv, Guarded
  <2>2. row'[t] = row[t] /\ taken'[t] = taken[t] /\ (trouble[t] => trouble'[t])
    BY <2>1 DEF QueryWrite, UpdateWithStatus, TypeInv, RowsType
  <2> QED BY <1>2, <2>2 DEF Owner, Billing, CopyInv, Busy
<1> QED BY <1>1, <1>3, QuietStep

\* The winner moves one leg; the payer first, and the token only after it.
LEMMA AdjustStep ==
    ASSUME TypeInv, BillInv, NEW p \in Pollers, pc[p] \in Billing, NEW o,
           Move(cur[p], pc[p], due[p], o), UNCHANGED <<mem, cursor>>,
           \/ pc[p] = "funding" /\ o = "ok" /\ pc' = [pc EXCEPT ![p] = "token"] /\ todo' = todo
           \/ (pc[p] = "funding" => o # "ok") /\ Return(p)
    PROVE  BillInv'
<1> DEFINE u == cur[p]
<1>1. p \in Actors /\ u \in Tasks /\ due[p] \in Int
        /\ \A q \in Actors \ {p} : SameActor(q)
  BY ActorsLemma DEF TypeInv, PlaceInv, MemType, CursorType, PlaceType, Return, SameActor
<1>2. \/ pc'[p] = "token" /\ todo' = todo /\ pc[p] = "funding" /\ o = "ok"
      \/ /\ pc'[p] = back[p] /\ back[p] \in {"sweep", "fetch"} /\ todo'[p] = todo[p] \ {u}
         /\ (pc[p] = "funding" => o # "ok")
      \/ pc'[p] = "write" /\ back[p] = "write" /\ todo'[p] = todo[p]
  BY <1>1 DEF TypeInv, PlaceInv, CursorType, PlaceType, Return
<1>3. ASSUME NEW t \in Tasks, Guarded(t), t # u
      PROVE  StableRow(t) /\ TaskInv(t)' /\ CopyInv(p, t)' /\ \A q \in Actors : OwnerInv(q, t)'
  <2>1. CopyInv(p, t) /\ TaskInv(t) /\ \A q \in Actors : OwnerInv(q, t)
    BY <1>1, <1>3 DEF BillInv
  <2>2. row'[t] = row[t] /\ taken'[t] = taken[t] /\ (trouble[t] => trouble'[t])
    BY <1>3 DEF Move, TypeInv, RowsType
  <2>3. ~ Owner(p, t) /\ ~ Owner(p, t)'
    BY <1>3 DEF Owner
  <2>4. \A q \in Actors : (Owner(q, t)' <=> Owner(q, t))
          /\ (Owner(q, t) => pc'[q] = pc[q] /\ due'[q] = due[q] /\ back'[q] = back[q])
    BY <1>1, <2>3 DEF SameActor, Owner
  <2>5. StableRow(t) /\ TaskInv(t)' /\ \A q \in Actors : OwnerInv(q, t)'
    BY <2>1, <2>2, <2>4, TaskFrame
  <2>6. CopyInv(p, t)'
    BY <1>2, <1>3, <2>1, <2>2 DEF CopyInv, Exists, SameTask, Busy, Billing
  <2> QED BY <2>5, <2>6
<1>4. ASSUME Guarded(u)
      PROVE  StableRow(u) /\ TaskInv(u)' /\ CopyInv(p, u)' /\ \A q \in Actors : OwnerInv(q, u)'
  <2>1. CopyInv(p, u) /\ TaskInv(u) /\ OwnerInv(p, u) /\ Owner(p, u)
    BY <1>1, <1>4 DEF BillInv, Owner
  <2>2. \A q \in Actors \ {p} : ~ Owner(q, u) /\ ~ Owner(q, u)'
    BY <1>1, <2>1 DEF TaskInv, SameActor, Owner
  <2>3. row' = row /\ row[u] \in Row /\ row[u].quota \in Nat /\ taken[u] \in [Leg -> Int]
          /\ trouble[u] \in BOOLEAN /\ (trouble'[u] <=> trouble[u] \/ o # "ok")
    BY <1>1, FieldLemma DEF Move, TypeInv, RowsType
  <2>4. /\ taken'[u] = IF o = "fail" THEN taken[u]
                       ELSE [taken[u] EXCEPT ![pc[p]] = @ + due[p]]
        /\ due' = due /\ cur' = cur /\ back' = back /\ mem' = mem
    BY <1>1, <2>3 DEF Move, TypeInv, RowsType
  <2>5. /\ row[u].status \in Terminal /\ due[p] >= - row[u].quota
        /\ ~ SettleMayFail =>
              /\ taken[u]["token"] = row[u].quota
              /\ taken[u]["funding"] = row[u].quota + (IF pc[p] = "token" THEN due[p] ELSE 0)
        /\ back[p] \in {"sweep", "fetch"}
        /\ NoBulkFailure => DueFor(row[u].status, row[u].quota, due[p])
    BY <2>1 DEF OwnerInv
  <2>6. StableRow(u)
    BY <2>3 DEF StableRow, Exists, SameTask
  <2>7. CopyInv(p, u)'
    BY <1>2, <2>1, <2>3, <2>4, <2>5 DEF CopyInv, Exists, SameTask, Busy, Billing
  <2>8. CASE pc'[p] = "token" /\ pc[p] = "funding" /\ o = "ok"
    <3>1. ASSUME ~ SettleMayFail
          PROVE  /\ taken'[u]["token"] = row[u].quota
                 /\ taken'[u]["funding"] = row[u].quota + due[p]
      BY <1>1, <2>3, <2>4, <2>5, <2>8, <3>1 DEF Leg
    <3>2. Owner(p, u)'
      BY <2>4, <2>8 DEF Owner, Billing
    <3>3. OwnerInv(p, u)'
      BY <2>3, <2>4, <2>5, <2>8, <3>1 DEF OwnerInv
    <3>4. \A q \in Actors : OwnerInv(q, u)'
      BY <2>2, <3>3 DEF OwnerInv
    <3>5. ~ SettleMayFail => \A l \in Leg : taken'[u][l] >= 0
      BY <1>1, <2>3, <2>5, <3>1 DEF Leg
    <3>6. TaskInv(u)'
      BY <1>1, <2>1, <2>2, <2>3, <2>5, <3>2, <3>5 DEF TaskInv, Exists
    <3> QED BY <2>6, <2>7, <3>4, <3>6
  <2>9. CASE pc'[p] = back[p] /\ (pc[p] = "funding" => o # "ok")
    <3>1. \A q \in Actors : ~ Owner(q, u)'
      BY <2>2, <2>5, <2>9 DEF Owner, Billing
    <3>2. \A q \in Actors : OwnerInv(q, u)'
      BY <3>1 DEF OwnerInv
    <3>3. ASSUME ~ SettleMayFail PROVE \A l \in Leg : taken'[u][l] >= 0
      BY <1>1, <2>3, <2>4, <2>5, <3>3 DEF Leg, Billing
    <3>4. ASSUME ~ trouble'[u], ~ SettleMayFail
          PROVE  /\ taken'[u]["token"] = row[u].quota + due[p]
                 /\ taken'[u]["funding"] = row[u].quota + due[p]
      BY <1>1, <2>3, <2>4, <2>5, <2>9, <3>4 DEF Leg, Billing
    <3>5. ASSUME NoBulkFailure PROVE Cost(row[u], row[u].quota + due[p])
      BY <1>1, <2>3, <2>5, <3>5, CostLemma
    <3>6. TaskInv(u)'
      BY <2>1, <2>3, <2>5, <3>1, <3>3, <3>4, <3>5 DEF TaskInv, Exists
    <3> QED BY <2>6, <2>7, <3>2, <3>6
  <2> QED BY <1>2, <2>5, <2>8, <2>9
<1>5. ASSUME NEW t \in Tasks, Guarded(t)
      PROVE  StableRow(t) /\ TaskInv(t)' /\ CopyInv(p, t)' /\ \A q \in Actors : OwnerInv(q, t)'
  <2>1. CASE t = u
    BY <1>4, <1>5, <2>1
  <2>2. CASE t # u
    BY <1>3, <1>5, <2>2
  <2> QED BY <2>1, <2>2
<1> QED BY <1>1, <1>5, OneActor

\* A node dies: what it had won stays unbilled, or billed in part.
LEMMA CrashStep ==
    ASSUME TypeInv, BillInv, NEW p \in Pollers, Crash(p)
    PROVE  BillInv'
<1>1. p \in Actors /\ \A q \in Actors \ {p} : SameActor(q)
  BY ActorsLemma DEF TypeInv, MemType, CursorType, PlaceType, Crash, SameActor
<1>2. pc'[p] = "sleep" /\ row' = row /\ taken' = taken
  BY <1>1 DEF TypeInv, PlaceType, Crash
<1>3. ASSUME NEW t \in Tasks, Guarded(t)
      PROVE  StableRow(t) /\ TaskInv(t)' /\ CopyInv(p, t)' /\ \A q \in Actors : OwnerInv(q, t)'
  <2>1. TaskInv(t) /\ \A q \in Actors : OwnerInv(q, t)
    BY <1>3 DEF BillInv
  <2>2. \A q \in Actors : Owner(q, t)' => Owner(q, t)
          /\ pc'[q] = pc[q] /\ due'[q] = due[q] /\ back'[q] = back[q]
    BY <1>1, <1>2 DEF Owner, SameActor, Billing
  <2>3. (trouble[t] => trouble'[t]) /\ (Owner(p, t) => trouble'[t])
    BY DEF Crash, TypeInv, RowsType, Owner
  <2>4. ~ trouble'[t] => \A q \in Actors : Owner(q, t) => Owner(q, t)'
    BY <1>1, <2>3 DEF SameActor, Owner
  <2>5. \A q \in Actors : OwnerInv(q, t)'
    BY <1>2, <2>1, <2>2 DEF OwnerInv
  <2>6. TaskInv(t)'
    BY <1>2, <2>1, <2>2, <2>3, <2>4 DEF TaskInv, Exists
  <2>7. CopyInv(p, t)'
    BY <1>2 DEF CopyInv, Busy, Billing
  <2>8. StableRow(t)
    BY <1>2 DEF StableRow, Exists, SameTask
  <2> QED BY <2>5, <2>6, <2>7, <2>8
<1> QED BY <1>1, <1>3, OneActor

\* A submission, with what its settlement left.
LEMMA SubmitStep ==
    ASSUME TypeInv, BillInv, NEW u \in Tasks, NEW pre \in Quotas,
           NEW q \in Quotas, NEW time \in SubmitTimes, NEW id \in HasIds,
           NEW o \in Outcomes, Submit(u, pre, q, time, id, o)
    PROVE  BillInv'
<1> DEFINE new == [status |-> IF o = "fail" THEN "lost" ELSE "NOT_START",
                   complete |-> FALSE, failReason |-> FALSE, quota |-> q,
                   submitTime |-> time, hasId |-> id]
<1>1. /\ row[u].status = "absent" /\ q \in Nat /\ trouble' = trouble
      /\ ~ SettleMayFail => pre = q
  BY TaskConstants DEF Submit
<1>2. row'[u] = new /\ taken'[u] = [l \in Leg |-> pre]
        /\ \A t \in Tasks \ {u} : row'[t] = row[t] /\ taken'[t] = taken[t]
  BY <1>1 DEF Submit, TypeInv, RowsType
<1>3. new.status \in {"lost", "NOT_START"} /\ new.quota = q /\ new.hasId = id
  OBVIOUS
<1> HIDE DEF new
<1>4. \A r \in Actors : SameActor(r)
  BY DEF Submit, SameActor
<1>5. ASSUME NEW t \in Tasks, Guarded(t)
      PROVE  TaskInv(t)' /\ StableRow(t) /\ \A r \in Actors : OwnerInv(r, t)'
  <2>1. TaskInv(t) /\ \A r \in Actors : OwnerInv(r, t)
    BY <1>5 DEF BillInv
  <2>2. \A r \in Actors : (Owner(r, t)' <=> Owner(r, t))
          /\ pc'[r] = pc[r] /\ due'[r] = due[r] /\ back'[r] = back[r]
    BY <1>4 DEF SameActor, Owner
  <2>3. CASE t # u
    BY <1>1, <1>2, <2>1, <2>2, <2>3, TaskFrame
  <2>4. CASE t = u
    <3>1. \A r \in Actors : ~ Owner(r, t)'
      BY <1>1, <2>1, <2>2, <2>4 DEF OwnerInv, Terminal
    <3>2. \A r \in Actors : OwnerInv(r, t)'
      BY <3>1 DEF OwnerInv
    <3>3. StableRow(t)
      BY <1>1, <2>4 DEF StableRow, Exists, Live, Terminal
    <3>4. NoBulkFailure => row'[t].hasId = TRUE
      BY <1>2, <1>3, <2>4 DEF NoBulkFailure
    <3>5. /\ row'[t].status \notin Terminal
          /\ ~ SettleMayFail => \A l \in Leg : taken'[t][l] = row'[t].quota
      BY <1>1, <1>2, <1>3, <2>4 DEF Terminal
    <3>6. ~ SettleMayFail => \A l \in Leg : taken'[t][l] >= 0
      BY <1>1, <1>2, <2>4
    <3>7. TaskInv(t)'
      BY <3>1, <3>4, <3>5, <3>6 DEF TaskInv
    <3> QED BY <3>2, <3>3, <3>7
  <2> QED BY <2>3, <2>4
<1>6. ASSUME NEW t \in Tasks, Guarded(t), NEW r \in Actors PROVE CopyInv(r, t)'
  BY <1>4, <1>5, <1>6, CopyFrame DEF BillInv
<1> QED BY <1>5, <1>6 DEF BillInv, Guarded

\* Time passes, the upstream ends a task, a channel goes.
LEMMA WorldStep ==
    ASSUME BillInv, UNCHANGED <<rows, local>>
    PROVE  BillInv'
<1>1. ASSUME NEW t \in Tasks, Guarded(t)
      PROVE  TaskInv(t)' /\ \A q \in Actors : OwnerInv(q, t)' /\ CopyInv(q, t)'
  <2>1. \A q \in Actors : SameActor(q) /\ (Owner(q, t)' <=> Owner(q, t))
    BY DEF SameActor, Owner
  <2>2. StableRow(t) /\ TaskInv(t)' /\ \A q \in Actors : OwnerInv(q, t)'
    BY <1>1, <2>1, TaskFrame DEF BillInv, SameActor
  <2> QED BY <1>1, <2>1, <2>2, CopyFrame DEF BillInv
<1> QED BY <1>1 DEF BillInv, Guarded

LEMMA InitBill == Init => BillInv
<1> SUFFICES ASSUME Init PROVE BillInv
  OBVIOUS
<1>1. ASSUME NEW t \in Tasks, NEW p \in Actors
      PROVE  ~ Owner(p, t) /\ CopyInv(p, t)
  BY DEF Init, Owner, CopyInv, Billing, Busy
<1>2. ASSUME NEW t \in Tasks PROVE TaskInv(t)
  BY <1>1 DEF Init, TaskInv, Absent, Terminal, Live, Exists
<1> QED BY <1>1, <1>2 DEF BillInv, OwnerInv

LEMMA NextBill ==
    TypeInv /\ BillInv /\ [Next]_vars => BillInv'
<1> SUFFICES ASSUME TypeInv, BillInv, [Next]_vars PROVE BillInv'
  OBVIOUS
<1>1. CASE UNCHANGED vars
  BY <1>1, WorldStep DEF vars
<1>2. ASSUME NEW p \in Pollers, Poll(p) PROVE BillInv'
  <2>1. CASE AdjustFunding(p)
    BY <2>1, AdjustStep DEF AdjustFunding, Billing
  <2>2. CASE AdjustToken(p)
    BY <2>2, AdjustStep DEF AdjustToken, Billing
  <2>3. ASSUME NEW t \in Tasks, SweepTask(p, t) PROVE BillInv'
    <3>1. CASE Guarded(t)
      BY <2>3, <3>1, SweepTaskStep
    <3>2. CASE ~ Guarded(t)
      BY <2>3, <3>2, OtherStep DEF SweepTask
    <3> QED BY <3>1, <3>2
  <2> QED
    BY <1>2, <2>1, <2>2, <2>3, SweepStep, ListStep, NoChannelStep, LeaveStep, DispatchStep,
       FetchVideoStep, FetchSunoStep, WriteVideoStep, SaveSunoStep
    DEF Poll
<1>3. ASSUME NEW p \in Pollers, StrayItem(p) \/ Crash(p) PROVE BillInv'
  BY <1>3, LeaveStep, CrashStep
<1>4. ASSUME NEW t \in Tasks, Age(t) \/ \E s \in Terminal : Upstream(t, s) PROVE BillInv'
  BY <1>4, WorldStep DEF Age, Upstream
<1>5. ASSUME NEW t \in Tasks, DeleteChannel(PlatformOf[t]) PROVE BillInv'
  BY <1>5, WorldStep DEF DeleteChannel
<1>6. CASE Next
  BY <1>2, <1>3, <1>4, <1>5, <1>6, SubmitStep, QueryStep, QueryWriteStep DEF Next
<1> QED BY <1>1, <1>6

-------------------------------------------------------------------------------
(***************************************************************************)
(* What follows from the invariants.                                       *)
(***************************************************************************)

\* The status a row may have after a step that finds it ended: the same one, or
\* FAILURE after a failure in bulk.
StaysEnded(t) ==
    \/ row'[t].status = row[t].status
    \/ ~ NoBulkFailure /\ row'[t].status = "FAILURE"

\* A guarded write by somebody who read the task before it ended loses.
LEMMA LateWriteLoses ==
    ASSUME TypeInv, NEW u \in Tasks, NEW from, NEW v, NEW o, UpdateWithStatus(u, from, v, o),
           NEW t \in Tasks, row[t].status \in Terminal, t = u => from \in Live
    PROVE  row'[t] = row[t]
BY DEF TypeInv, RowsType, UpdateWithStatus, Wins, Live, Terminal

\* A failure in bulk ends a row or leaves it.
LEMMA BulkEnds ==
    ASSUME TypeInv, NEW ts, NEW reason \in BOOLEAN, NEW o, BulkFailure(ts, reason, o),
           NEW t \in Tasks, t \in ts => ~ NoBulkFailure
    PROVE  StaysEnded(t)
<1>1. row[t] \in Row
  BY DEF TypeInv, RowsType
<1>2. CASE t \in ts /\ o # "fail"
  <2>1. row'[t] = [row[t] EXCEPT !.status = "FAILURE", !.complete = TRUE,
                                 !.failReason = @ \/ reason]
    BY <1>2 DEF BulkFailure
  <2>2. row'[t].status = "FAILURE"
    BY <1>1, <2>1 DEF Row
  <2> QED BY <1>2, <2>2 DEF StaysEnded
<1>3. CASE ~ (t \in ts /\ o # "fail")
  BY <1>3 DEF BulkFailure, StaysEnded
<1> QED BY <1>2, <1>3

LEMMA PollStaysEnded ==
    ASSUME TypeInv, BillInv, NEW t \in Tasks, Guarded(t), row[t].status \in Terminal,
           NEW p \in Pollers, Poll(p)
    PROVE  StaysEnded(t)
<1>0. p \in Actors /\ CopyInv(p, t) /\ TaskInv(t)
  BY ActorsLemma DEF BillInv
<1>1. ASSUME NEW u \in Tasks, SweepTask(p, u) PROVE StaysEnded(t)
  <2>1. t = u => mem[p][u].status \in Live
    BY <1>0, <1>1 DEF SweepTask, CopyInv, Busy, Billing
  <2> QED BY <1>1, <2>1, LateWriteLoses DEF SweepTask, StaysEnded
<1>2. CASE WriteVideo(p)
  <2>1. cur[p] \in Tasks /\ (t = cur[p] => snap[p] \in Live)
    BY <1>0, <1>2 DEF WriteVideo, CopyInv, TypeInv, PlaceInv
  <2> QED BY <1>2, <2>1, LateWriteLoses DEF WriteVideo, StaysEnded
<1>3. CASE SaveSuno(p)
  <2>1. t # cur[p]
    BY <1>0, <1>3 DEF SaveSuno, CopyInv, Guarded
  <2> QED BY <1>3, <2>1 DEF SaveSuno, StaysEnded, TypeInv, RowsType
<1>4. ASSUME NEW pl \in Platform, Dispatch(p, pl) PROVE StaysEnded(t)
  <2>1. t \in {u \in Group(p, pl) : ~ mem[p][u].hasId} => ~ NoBulkFailure
    BY <1>0, <1>4 DEF Dispatch, CopyInv, Busy, Group, TaskInv, SameTask
  <2> QED BY <1>4, <2>1, BulkEnds DEF Dispatch
<1>5. CASE NoChannel(p)
  <2>1. ~ NoBulkFailure
    BY <1>0, <1>5, TaskConstants DEF NoChannel, TypeInv, PlaceInv, NoBulkFailure
  <2> QED BY <1>5, <2>1, BulkEnds DEF NoChannel
<1>6. CASE \/ Sweep(p) \/ List(p) \/ GroupDone(p) \/ AdjustFunding(p) \/ AdjustToken(p)
           \/ \E u \in Tasks : FetchFails(p, u)
           \/ \E u \in Tasks, a \in Answers, f \in Finals : FetchVideo(p, u, a, f)
           \/ \E u \in Tasks, a \in Answers, time \in ItemTimes : FetchSuno(p, u, a, time)
  BY <1>6
  DEF Sweep, List, GroupDone, AdjustFunding, AdjustToken, Move, FetchFails, FetchVideo,
      FetchSuno, StaysEnded
<1> QED BY <1>1, <1>2, <1>3, <1>4, <1>5, <1>6 DEF Poll

LEMMA NextStaysEnded ==
    ASSUME TypeInv, BillInv, [Next]_vars, NEW t \in Tasks, Guarded(t),
           row[t].status \in Terminal
    PROVE  StaysEnded(t)
<1>1. CASE UNCHANGED vars
  BY <1>1 DEF vars, StaysEnded
<1>2. ASSUME NEW u \in Tasks, NEW pre \in Quotas, NEW q \in Quotas, NEW time \in SubmitTimes,
             NEW id \in HasIds, NEW o \in Outcomes, Submit(u, pre, q, time, id, o)
      PROVE  StaysEnded(t)
  <2>1. t # u
    BY <1>2 DEF Submit, Terminal
  <2> QED BY <1>2, <2>1 DEF Submit, StaysEnded, TypeInv, RowsType
<1>3. ASSUME NEW f \in Fetchers, QueryWrite(f) PROVE StaysEnded(t)
  <2>1. t # cur[f] /\ cur[f] \in Tasks
    BY <1>3, ActorsLemma DEF QueryWrite, BillInv, CopyInv, Guarded, TypeInv, PlaceInv
  <2> QED BY <1>3, <2>1, LateWriteLoses DEF QueryWrite, StaysEnded
<1>4. CASE \/ \E u \in Tasks : Age(u) \/ \E s \in Terminal : Upstream(u, s)
           \/ \E u \in Tasks : DeleteChannel(PlatformOf[u])
           \/ \E p \in Pollers : StrayItem(p) \/ Crash(p)
           \/ \E f \in Fetchers, u \in Tasks, a \in Answers : Query(f, u, a)
  BY <1>4 DEF Age, Upstream, DeleteChannel, StrayItem, Crash, Query, StaysEnded
<1>5. CASE Next
  BY <1>2, <1>3, <1>4, <1>5, PollStaysEnded DEF Next
<1> QED BY <1>1, <1>5

\* The invariants hold of every guarded task.
THEOREM Invariance ==
    Spec => [](TypeInv /\ BillInv)
<1>1. Init => TypeInv /\ BillInv
  BY InitType, InitBill
<1>2. TypeInv /\ BillInv /\ [Next]_vars => (TypeInv /\ BillInv)'
  BY NextType, NextBill
<1> QED BY <1>1, <1>2, PTL DEF Spec

\* However many nodes poll and sweep a task of a guarded platform, at most one of
\* them is billing it at any time (the winner of UpdateWithStatus).
THEOREM OneBiller ==
    Spec => [](\A t \in Tasks : Guarded(t) =>
                 \A p, q \in Actors : Owner(p, t) /\ Owner(q, t) => p = q)
<1>1. BillInv => \A t \in Tasks : Guarded(t) =>
                   \A p, q \in Actors : Owner(p, t) /\ Owner(q, t) => p = q
  BY DEF BillInv, TaskInv
<1> QED BY <1>1, Invariance, PTL

\* RefundTaskQuota never gives back more than the task cost, also when channels
\* go, rows lack their ids, writes fail or are lost and nodes die, as long as no
\* settlement fails at submission: with a failed one a task may have cost less
\* than its row says.  No query opens a guarded task again.
THEOREM RefundBounded ==
    ASSUME ~ SettleMayFail, \A t \in Tasks : Guarded(t)
    PROVE  Spec => []NeverOverRefunded
<1>1. BillInv => NeverOverRefunded
  BY DEF BillInv, TaskInv, NeverOverRefunded
<1> QED BY <1>1, Invariance, PTL

\* A task is billed exactly once: what a task has cost when nobody is billing it
\* is what its status calls for, for payer and token alike.  A failure in bulk
\* (TaskBulkUpdateByID) refunds nobody, so it is excluded here.
THEOREM TaskBilledOnce ==
    ASSUME ~ SettleMayFail, NoBulkFailure, \A t \in Tasks : Guarded(t)
    PROVE  Spec => []BilledOnce
<1>1. TypeInv /\ BillInv => BilledOnce
  <2> SUFFICES ASSUME TypeInv, BillInv, NEW t \in Tasks, Settled(t), ~ trouble[t]
               PROVE  /\ taken[t]["token"] = taken[t]["funding"]
                      /\ Cost(row[t], taken[t]["funding"])
                      /\ Failed(t) <=> row[t].status = "FAILURE"
    BY DEF BilledOnce, Cost
  <2>1. TaskInv(t) /\ \A p \in Actors : ~ Owner(p, t)
    BY DEF BillInv, Settled, Owner, Billing
  <2>2. Failed(t) <=> row[t].status = "FAILURE"
    BY DEF Failed, Guarded
  <2>3. CASE row[t].status \in Terminal
    BY <2>1, <2>2, <2>3 DEF TaskInv
  <2>4. CASE row[t].status \notin Terminal
    BY <2>1, <2>2, <2>4 DEF TaskInv, Leg, Cost, Terminal
  <2> QED BY <2>3, <2>4
<1> QED BY <1>1, Invariance, PTL

\* A task that ended keeps its end: UpdateWithStatus refuses every write by
\* somebody who read the row before.  Only TaskBulkUpdateByID does not ask.
THEOREM EndIsFinal ==
    ASSUME NoBulkFailure, \A t \in Tasks : Guarded(t)
    PROVE  Spec => TerminalStays
<1>1. TypeInv /\ BillInv /\ [Next]_vars =>
        [\A t \in Tasks : row[t].status \in Terminal => row'[t].status = row[t].status]_vars
  BY NextStaysEnded DEF StaysEnded
<1> QED BY <1>1, Invariance, PTL DEF Spec, TerminalStays

\* With failures in bulk an ended task stays ended, though it may have failed
\* after all.
THEOREM EndStaysEnd ==
    Spec => [][\A t \in Tasks : Guarded(t) /\ row[t].status \in Terminal =>
                 row'[t].status \in {row[t].status, "FAILURE"}]_vars
<1>1. TypeInv /\ BillInv /\ [Next]_vars =>
        [\A t \in Tasks : Guarded(t) /\ row[t].status \in Terminal =>
           row'[t].status \in {row[t].status, "FAILURE"}]_vars
  BY NextStaysEnded DEF StaysEnded
<1> QED BY <1>1, Invariance, PTL DEF Spec

===============================================================================

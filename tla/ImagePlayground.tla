--------------------------- MODULE ImagePlayground ---------------------------
(***************************************************************************)
(* The image playground: the page (web/default/src/features/               *)
(* image-playground), its copy of the conversations in localStorage, and   *)
(* the server's image tasks (controller/playground.go,                     *)
(* model/playground_image_task.go).                                        *)
(*                                                                         *)
(* The page is one thread.  An asynchronous function is cut at its awaits; *)
(* what runs between two awaits is one step, together with the React       *)
(* render of the states it set (updates made outside of a user event are   *)
(* batched).  An effect runs before the next event is handled.             *)
(*                                                                         *)
(* handleSubmit always appends the user's message and the loading          *)
(* assistant message together and no message is ever deleted alone, so one *)
(* entry of a conversation stands for both.  Titles, prompts, timestamps,  *)
(* the model and the group are left out; `images' holds the key of the     *)
(* submission whose pictures the entry shows.                              *)
(***************************************************************************)
EXTENDS Naturals, Sequences, FiniteSets, SequencesExt

CONSTANTS
    MaxConversations,   \* bound: conversations that exist at the same time
    MaxSubmissions,     \* bound: calls of handleSubmit (message keys, task ids)
    maxAttempts,        \* polls of one task, 120 in the code
    MaxReloads,         \* bound: the page is closed and opened again
    MaxLostSaves,       \* bound: writes of localStorage that throw (quota)
    MaxConversions,     \* bound: submissions whose attachments are being
                        \* converted at the same time
    Bodies              \* what the body of a succeeded task may hold

ASSUME ImageAssumption ==
    /\ MaxConversations \in Nat \ {0}
    /\ maxAttempts \in Nat \ {0}
    /\ {MaxSubmissions, MaxReloads, MaxLostSaves, MaxConversions} \subseteq Nat
    /\ Bodies \subseteq {"images", "empty", "other"}

None == 0
Keys == 1..MaxSubmissions
ConversationIds == 1..MaxConversations

VARIABLES
    conversations,  \* the conversations, the newest first
    active,         \* activeConversationId
    isGenerating,   \* the lock of the page's buttons
    waits,          \* the running calls of handleSubmit and waitForImageTask
    converting,     \* submissions whose attachments are being converted,
                    \* with the messages their closure captured
    interfered,     \* whether the user acted during a conversion
    stored,         \* localStorage: conversations and active id
    lostSaves,      \* writes of localStorage that failed
    reloads,        \* times the page was opened again
    nextKey,        \* the next message key
    tasks,          \* the table playground_image_tasks
    workers         \* the goroutines runPlaygroundImageTask

vars == << conversations, active, isGenerating, waits, converting,
           interfered, stored, lostSaves, reloads, nextKey, tasks, workers >>

serverVars == << tasks, workers >>

-----------------------------------------------------------------------------
(* Types                                                                   *)

Status == {"loading", "complete", "error"}
TaskStatus == {"none", "queued", "running", "succeeded", "failed"}

\* What the body of a succeeded task holds: pictures, an empty data array,
\* or something that is not an image response.
Body == {"none", "images", "empty", "other"}

Message == [key : Keys, status : Status, taskId : Keys \cup {None},
            images : Keys \cup {None}]

Conversation == [id : ConversationIds, messages : Seq(Message)]

\* A running asynchronous call: of handleSubmit ("submit", awaiting the
\* creation of its task or polling it) or of the effect that resumes the
\* tasks of an earlier visit ("resume").
Wait == [by : {"submit", "resume"}, pc : {"create", "poll"},
         key : Keys \cup {None}, task : Keys \cup {None},
         attempt : 0..maxAttempts, cancelled : BOOLEAN]

-----------------------------------------------------------------------------
(* Conversations                                                           *)

Ids(cs) == {cs[i].id : i \in DOMAIN cs}

MessagesOf(cs, id) ==
    LET at == {i \in DOMAIN cs : cs[i].id = id}
    IN  IF at = {} THEN << >> ELSE cs[CHOOSE i \in at : TRUE].messages

\* The messages the page shows.
messages == MessagesOf(conversations, active)

AllMessages(cs) == UNION {ToSet(cs[i].messages) : i \in DOMAIN cs}

\* A conversation id no conversation of the page or of the storage has.
FreshIds == ConversationIds \ (Ids(conversations) \cup Ids(stored.conversations))
FreshId == CHOOSE id \in FreshIds : TRUE

createConversation(id) == [id |-> id, messages |-> << >>]

\* prev.map, { ...message, ...patch }: a patch is a function on messages, applied
\* to those with one of the keys.
Patched(ms, keys, updater) ==
    [i \in DOMAIN ms |-> IF ms[i].key \in keys THEN updater[ms[i]] ELSE ms[i]]

\* The updater of the catch blocks.
Broken == [msg \in Message |-> [msg EXCEPT !.status = "error"]]

\* Mutant: the first conversation of the list is taken for the active one.
updateMessagesFirst(ms) == [conversations EXCEPT ![1].messages = ms]

\* updateMessages writes to the active conversation, whichever it is by then.
updateMessages(ms) ==
    [i \in DOMAIN conversations |->
        IF conversations[i].id = active
        THEN [conversations[i] EXCEPT !.messages = ms]
        ELSE conversations[i]]

\* The messages of a task.
KeysOf(ms, taskId) ==
    {msg.key : msg \in {m \in ToSet(ms) : m.taskId = taskId}}

\* Mutant: every message that still waits is taken for the task's.
updateTaskMessageWaiting(taskId, updater) ==
    [i \in DOMAIN conversations |->
        [conversations[i] EXCEPT !.messages =
            Patched(@, {msg.key : msg \in {m \in ToSet(@) : m.status = "loading"}},
                    updater)]]

\* updateTaskMessage looks for the task in every conversation.
updateTaskMessage(taskId, updater) ==
    [i \in DOMAIN conversations |->
        [conversations[i] EXCEPT !.messages =
            Patched(@, KeysOf(@, taskId), updater)]]

\* saveConversationState: two setItem calls inside one try, each of which may
\* throw because the storage is full.
saveConversationState(cs, id) ==
    \/ /\ stored' = [conversations |-> cs, active |-> id]
       /\ UNCHANGED lostSaves
    \/ /\ lostSaves < MaxLostSaves
       /\ lostSaves' = lostSaves + 1
       /\ stored' \in {stored, [stored EXCEPT !.conversations = cs]}

persistConversationState(cs, id) ==
    /\ conversations' = cs
    /\ active' = id
    /\ saveConversationState(cs, id)

\* loadConversationState: the stored active id counts only when the stored
\* conversations have it.
loadConversationState ==
    [conversations |-> stored.conversations,
     active |-> IF stored.active \in Ids(stored.conversations) THEN stored.active
                ELSE IF stored.conversations # << >> THEN stored.conversations[1].id
                ELSE None]

-----------------------------------------------------------------------------
(* The page's effect that resumes pending tasks                            *)

pendingTaskIds ==
    {msg.taskId : msg \in {m \in AllMessages(conversations) :
                              m.status = "loading" /\ m.taskId # None}}

\* The effect is about to do more than return early.
EffectDue == pendingTaskIds # {} /\ ~isGenerating

\* setIsGenerating(true) changes a dependency of this very effect: React runs
\* the cleanup at the next render and the instance that polls is cancelled
\* from then on.
ResumePending ==
    /\ EffectDue
    /\ isGenerating' = TRUE
    /\ waits' = waits \cup
          {[by |-> "resume", pc |-> "poll", key |-> None, task |-> t,
            attempt |-> 0, cancelled |-> TRUE] : t \in pendingTaskIds}
    /\ UNCHANGED << conversations, active, converting, interfered, stored,
                    lostSaves, reloads, nextKey, serverVars >>

-----------------------------------------------------------------------------
(* handleSubmit                                                            *)

\* The part up to the first await, with the messages the closure holds.
handleSubmit(ms) ==
    LET loading == [key |-> nextKey, status |-> "loading", taskId |-> None,
                    images |-> None]
    IN  /\ nextKey <= MaxSubmissions
        /\ nextKey' = nextKey + 1
        /\ persistConversationState(
               updateMessages(Append(ms, loading)), active)
        /\ isGenerating' = TRUE
        /\ waits' = waits \cup
              {[by |-> "submit", pc |-> "create", key |-> nextKey,
                task |-> None, attempt |-> 0, cancelled |-> FALSE]}

\* The buttons and the sidebar stay enabled during a conversion.
UserActs ==
    /\ ~isGenerating /\ ~EffectDue
    /\ interfered' = (interfered \/ converting # << >>)

\* The user presses Generate.  With no attachment to convert, nothing comes
\* between the press and handleSubmit.
Submit ==
    /\ UserActs
    /\ handleSubmit(messages)
    /\ UNCHANGED << converting, reloads, serverVars >>

\* With attachments, PromptInput first converts them; handleSubmit is the
\* closure of this render, with its isGenerating and its messages.
StartConversion ==
    /\ Len(converting) < MaxConversions
    /\ UserActs
    /\ nextKey + Len(converting) <= MaxSubmissions
    /\ converting' = Append(converting, messages)
    /\ UNCHANGED << conversations, active, isGenerating, waits, stored,
                    lostSaves, reloads, nextKey, serverVars >>

Converted ==
    /\ ~EffectDue
    /\ \E i \in DOMAIN converting :
          /\ handleSubmit(converting[i])
          /\ converting' = RemoveAt(converting, i)
    /\ UNCHANGED << interfered, reloads, serverVars >>

\* Mutant: every message that has a task is taken for the submission's.
FailedAny(w) ==
    /\ persistConversationState(
           updateMessages(Patched(
               messages,
               {msg.key : msg \in {m \in ToSet(messages) :
                                      m.key = w.key \/ m.taskId # None}},
               Broken)),
           active)
    /\ isGenerating' = FALSE
    /\ waits' = waits \ {w}

\* The catch block of handleSubmit, then its finally block.
Failed(w) ==
    /\ persistConversationState(
           updateMessages(Patched(
               messages,
               {w.key} \cup (IF w.task = None THEN {} ELSE KeysOf(messages, w.task)),
               Broken)),
           active)
    /\ isGenerating' = FALSE
    /\ waits' = waits \ {w}

\* The creation fails: a reference image cannot be fetched, the request is
\* refused with an HTTP error, or its answer is lost.
CreateFails(w) ==
    /\ w \in waits /\ w.pc = "create" /\ ~EffectDue
    /\ Failed(w)
    /\ \/ UNCHANGED serverVars
       \/ /\ tasks[w.key].status = "none"
          /\ tasks' = [tasks EXCEPT ![w.key].status = "queued"]
          /\ workers' = workers \cup {[task |-> w.key, pc |-> "start"]}
    /\ UNCHANGED << converting, interfered, reloads, nextKey >>

\* Mutant: the task id is set on the state and not persisted.
PollingUnsaved(w, taskId) ==
    LET withTask == [msg \in Message |-> [msg EXCEPT !.taskId = taskId]] IN
    /\ conversations' =
           updateMessages(Patched(messages, {w.key}, withTask))
    /\ waits' = (waits \ {w}) \cup {[w EXCEPT !.pc = "poll", !.task = taskId]}
    /\ UNCHANGED << active, stored, lostSaves >>

\* The message with the submission's key gets the task id the answer holds.
Polling(w, taskId) ==
    LET withTask == [msg \in Message |-> [msg EXCEPT !.taskId = taskId]] IN
    /\ persistConversationState(
           updateMessages(Patched(messages, {w.key}, withTask)), active)
    /\ waits' = (waits \ {w}) \cup {[w EXCEPT !.pc = "poll", !.task = taskId]}

\* createPlaygroundImageTask inserts the task, starts its goroutine and
\* answers with the id.
createPlaygroundImageTask(w) ==
    /\ w \in waits /\ w.pc = "create" /\ ~EffectDue
    /\ tasks' = [tasks EXCEPT ![w.key].status = "queued"]
    /\ workers' = workers \cup {[task |-> w.key, pc |-> "start"]}
    /\ Polling(w, w.key)
    /\ UNCHANGED << isGenerating, converting, interfered, reloads, nextKey >>

\* The insertion fails: ApiErrorMsg answers 200 without data, the page takes
\* the envelope for the task and its id for undefined.
CreateRefused(w) ==
    /\ w \in waits /\ w.pc = "create" /\ ~EffectDue
    /\ Polling(w, None)
    /\ UNCHANGED << isGenerating, converting, interfered, reloads, nextKey,
                    serverVars >>

-----------------------------------------------------------------------------
(* waitForImageTask, called by handleSubmit and by the effect              *)

\* Mutant: handleSubmit unlocks the page in its catch block only.
LockedOnSuccess(w) == isGenerating

\* It returns: handleSubmit's finally unlocks the page; the effect's does
\* when the last of its tasks is done, and only if it is not cancelled.
StillLocked(w) ==
    IF w.by = "submit" THEN FALSE
    ELSE /\ isGenerating
         /\ \/ w.cancelled
            \/ \E v \in waits \ {w} : v.by = "resume"

Shown(w) ==
    /\ persistConversationState(
           updateTaskMessage(w.task, [msg \in Message |->
               [msg EXCEPT !.status = "complete",
                           !.images = IF tasks[w.task].body = "images" THEN w.task
                                      ELSE None]]),
           active)
    /\ isGenerating' = StillLocked(w)
    /\ waits' = waits \ {w}

\* It throws: the catch block of handleSubmit or of the effect.
Thrown(w) ==
    \/ /\ w.by = "submit"
       /\ Failed(w)
    \/ /\ w.by = "resume" /\ ~w.cancelled
       /\ persistConversationState(
              updateTaskMessage(w.task, Broken), active)
       /\ isGenerating' = StillLocked(w)
       /\ waits' = waits \ {w}
    \/ /\ w.by = "resume" /\ w.cancelled
       /\ isGenerating' = StillLocked(w)
       /\ waits' = waits \ {w}
       /\ UNCHANGED << conversations, active, stored, lostSaves >>

\* What getImageGenerationTask returns; the id undefined is never found.
Answer(w) == IF w.task = None THEN "missing" ELSE tasks[w.task].status

AttemptsLeft(w) == w.attempt + 1 < maxAttempts

\* One pass of the loop: the answer to a poll.
PollAnswered(w) ==
    /\ w \in waits /\ w.pc = "poll" /\ ~EffectDue
    /\ CASE Answer(w) = "succeeded" ->
              IF tasks[w.task].body = "other" THEN Thrown(w) ELSE Shown(w)
         [] Answer(w) = "failed" -> Thrown(w)
         [] OTHER ->
              IF AttemptsLeft(w)
              THEN /\ waits' = (waits \ {w}) \cup {[w EXCEPT !.attempt = @ + 1]}
                   /\ UNCHANGED << conversations, active, isGenerating, stored,
                                   lostSaves >>
              ELSE Thrown(w)
    /\ UNCHANGED << converting, interfered, reloads, nextKey,
                    serverVars >>

\* A poll that fails on the way rejects, and nothing repeats it.
PollFails(w) ==
    /\ w \in waits /\ w.pc = "poll" /\ ~EffectDue
    /\ Thrown(w)
    /\ UNCHANGED << converting, interfered, reloads, nextKey,
                    serverVars >>

-----------------------------------------------------------------------------
(* The history sidebar, disabled while isGenerating                        *)

createNewConversation ==
    /\ UserActs /\ FreshIds # {}
    /\ persistConversationState(
           << createConversation(FreshId) >> \o conversations, FreshId)
    /\ UNCHANGED << isGenerating, waits, converting, reloads, nextKey, serverVars >>

switchConversation(id) ==
    /\ UserActs
    /\ id \in Ids(conversations)
    /\ persistConversationState(conversations, id)
    /\ UNCHANGED << isGenerating, waits, converting, reloads, nextKey, serverVars >>

\* No two conversations have the same id: the filter takes out one.
deleteConversation(id) ==
    LET at == CHOOSE i \in DOMAIN conversations : conversations[i].id = id
        remaining == RemoveAt(conversations, at)
    IN  /\ UserActs
        /\ Len(conversations) > 1
        /\ id \in Ids(conversations)
        /\ persistConversationState(
               remaining, IF active = id THEN remaining[1].id ELSE active)
        /\ UNCHANGED << isGenerating, waits, converting, reloads, nextKey,
                        serverVars >>

\* The page is closed or left, at any point, and opened again: whatever it
\* was awaiting is forgotten.
Reload ==
    /\ reloads < MaxReloads
    /\ reloads' = reloads + 1
    /\ LET loaded == loadConversationState
       IN  IF loaded.conversations # << >> /\ loaded.active # None
           THEN /\ conversations' = loaded.conversations
                /\ active' = loaded.active
           ELSE /\ conversations' = << createConversation(1) >>
                /\ active' = 1
    /\ isGenerating' = FALSE
    /\ waits' = {}
    /\ converting' = << >>
    /\ interfered' = FALSE
    /\ UNCHANGED << stored, lostSaves, nextKey, serverVars >>

-----------------------------------------------------------------------------
(* The server: runPlaygroundImageTask                                      *)

pageVars == << conversations, active, isGenerating, waits, converting,
               interfered, stored, lostSaves, reloads, nextKey >>

\* It marks the task running and reads it back.  An error of the first is
\* ignored, an error of the second ends the goroutine.
TaskStarts(g) ==
    /\ g \in workers /\ g.pc = "start"
    /\ \/ tasks' = [tasks EXCEPT ![g.task].status = "running"]
       \/ UNCHANGED tasks
    /\ \/ workers' = (workers \ {g}) \cup {[g EXCEPT !.pc = "relay"]}
       \/ workers' = workers \ {g}
    /\ UNCHANGED pageVars

\* The relay (or what precedes it) has ended; an error of the last update is
\* ignored.
TaskEnds(g) ==
    /\ g \in workers /\ g.pc = "relay"
    /\ workers' = workers \ {g}
    /\ \/ tasks' = [tasks EXCEPT ![g.task].status = "failed"]
       \/ \E b \in Bodies :
             tasks' = [tasks EXCEPT ![g.task] = [status |-> "succeeded", body |-> b]]
       \/ UNCHANGED tasks
    /\ UNCHANGED pageVars

\* The server stops and starts again: no goroutine survives and no sweep
\* touches their tasks (FailStalePlaygroundImageTasks has no caller).
ServerRestarts ==
    /\ workers # {}
    /\ workers' = {}
    /\ UNCHANGED << pageVars, tasks >>

-----------------------------------------------------------------------------

Init ==
    /\ conversations = << createConversation(1) >>
    /\ active = 1
    /\ isGenerating = FALSE
    /\ waits = {}
    /\ converting = << >>
    /\ interfered = FALSE
    /\ stored = [conversations |-> << >>, active |-> None]
    /\ lostSaves = 0 /\ reloads = 0
    /\ nextKey = 1
    /\ tasks = [k \in Keys |-> [status |-> "none", body |-> "none"]]
    /\ workers = {}

Creation(w) == CreateFails(w) \/ createPlaygroundImageTask(w) \/ CreateRefused(w)
Poll(w) == PollAnswered(w) \/ PollFails(w)

Server ==
    \/ \E g \in workers : TaskStarts(g) \/ TaskEnds(g)
    \/ ServerRestarts

Next ==
    \/ ResumePending
    \/ Submit \/ StartConversion \/ Converted
    \/ \E w \in waits : CreateFails(w)
    \/ \E w \in waits : createPlaygroundImageTask(w)
    \/ \E w \in waits : CreateRefused(w)
    \/ \E w \in waits : PollAnswered(w)
    \/ \E w \in waits : PollFails(w)
    \/ createNewConversation
    \/ \E id \in ConversationIds : switchConversation(id)
    \/ \E id \in ConversationIds : deleteConversation(id)
    \/ Reload
    \/ Server

Spec == Init /\ [][Next]_vars

\* Requests are answered or fail, effects run, conversions end.  Nothing is
\* assumed of the server's goroutines.
Fairness ==
    /\ WF_vars(ResumePending)
    /\ WF_vars(Converted)
    /\ \A k \in Keys :
          WF_vars(\E w \in waits : w.key = k /\ (Creation(w) \/ Poll(w)))
    /\ \A k \in Keys :
          WF_vars(\E w \in waits : w.by = "resume" /\ w.task = k /\ Poll(w))

FairSpec == Spec /\ Fairness

-----------------------------------------------------------------------------
(* Properties                                                              *)

\* While a submission is under way the page stays locked and its entry stays
\* where updateMessages will look for it: in the active conversation, loading,
\* with the task id once the server has answered (handleSubmit, the guards of
\* the history sidebar).  A user who acts while attachments are converted
\* breaks it: the closure that runs then holds old messages and an old lock.
OwnMessage ==
    \A w \in waits : w.by = "submit" /\ ~interfered =>
        /\ isGenerating
        /\ \E msg \in ToSet(messages) :
              /\ msg.key = w.key
              /\ msg.status = "loading"
              /\ msg.taskId = w.task

\* An entry shows pictures only of the task its own submission created
\* (updateTaskMessage goes by the task id alone, over all conversations).
ImagesOwn ==
    \A msg \in AllMessages(conversations) \cup AllMessages(stored.conversations) :
        /\ msg.images \in {None, msg.key}
        /\ msg.taskId \in {None, msg.key}

\* As long as no write of localStorage failed, a task whose id the page has
\* learned can be resumed: the storage holds its entry, loading, with the id,
\* in the conversation that a reload makes active (persistConversationState in
\* every update).
Recoverable ==
    lostSaves = 0 /\ ~interfered =>
        \A w \in waits : w.by = "submit" /\ w.task # None =>
            \E msg \in ToSet(MessagesOf(stored.conversations,
                                        loadConversationState.active)) :
                msg.key = w.key /\ msg.taskId = w.task /\ msg.status = "loading"

\* In one visit of the page an entry that shows its pictures stays in its
\* conversation as it is: no late answer, second poller or save replaces a result
\* (an old closure drops it, which takes a user who acts while attachments are
\* converted).  Of an entry that shows an error nothing is claimed: after the last
\* poll the page only says that the task may still be found in the history later.
SettledStays ==
    [][reloads' = reloads /\ ~interfered =>
        \A i \in DOMAIN conversations, j \in DOMAIN conversations' :
            conversations[i].id = conversations'[j].id =>
                \A msg \in ToSet(conversations[i].messages) :
                    msg.status = "complete" => msg \in ToSet(conversations'[j].messages)]_vars

\* Every submission comes to an end, with a result or an error, and leaves the
\* page unlocked unless another call holds it, whatever the server does: a
\* refused or lost creation, a task that hangs, a restart (maxAttempts, the
\* finally block).
SubmissionEnds ==
    \A k \in Keys :
        (\E w \in waits : w.key = k)
            ~> /\ \A w \in waits : w.key # k
               /\ ~isGenerating \/ waits # {}
=============================================================================

--------------------------- MODULE PlaygroundAgent ---------------------------
(***************************************************************************)
(* Agent runs: streamAgentResponsesCompletion, runAgentConversation and    *)
(* the approval of tool calls in web/default/src/features/playground/      *)
(* index.tsx, executeAgentToolCalls in lib/agent-tools.ts.                 *)
(*                                                                         *)
(* A run is a call of runAgentConversation, cut at its awaits.  It keeps   *)
(* the messages as an array of its own, workingMessages, and every update  *)
(* it makes replaces the messages of the active conversation by it.  A run *)
(* whose connection is aborted, or whose timer is cleared, waits for a     *)
(* promise nobody settles; it is dropped from `runs'.  Consecutive updates *)
(* of one step are one update here.                                        *)
(*                                                                         *)
(* External: the relay, the workspace and its helper.  Only the native     *)
(* Responses stream is modelled; an assertion that throws while the        *)
(* payload is built would be an error of the run, and PairsValid in        *)
(* Playground shows that it never does.                                    *)
(***************************************************************************)
EXTENDS PlaygroundState

CONSTANTS
    MAX_TOOL_CALLS,     \* calls of one answer that are carried out, 30
    Answers             \* the sets of tools an answer may call

ASSUME AgentAssumption ==
    /\ MAX_TOOL_CALLS \in Nat \ {0}
    /\ Answers \subseteq SUBSET Tools

VARIABLES
    isAgentRunning,
    control,            \* agentStreamControlRef: source, retryTimer, stopped
    runs                \* the calls of runAgentConversation that go on

agentVars == << isAgentRunning, control, runs >>

\* Where a run waits: for the stream, for the timer of a reconnection, for
\* the review of its calls, for the user's approval, for the tools; or it
\* has been answered and goes on before any other event is handled.
Waiting == {"stream", "retry", "review", "approval", "approved", "denied", "tools"}

\* calls: what the answer asks for; results: the calls that will have a
\* result; todo: the ones still to be carried out; toolKey: the message that
\* shows them; granted (history): the user has approved them.
Run == [id : Keys, pc : Waiting, working : Seq(Message),
        step : 0..(MAX_AGENT_STEPS - 1), retry : 0..MAX_STREAM_RETRIES,
        conn : Connections, calls : SUBSET Calls, results : SUBSET Calls,
        todo : SUBSET Calls, toolKey : Keys \cup {None}, granted : BOOLEAN]

AgentInit ==
    /\ isAgentRunning = FALSE
    /\ control = [source |-> None, retryTimer |-> None, stopped |-> FALSE]
    /\ runs = {}

AgentTypeOK ==
    /\ isAgentRunning \in BOOLEAN
    /\ control \in [source : Connections \cup {None},
                    retryTimer : Keys \cup {None}, stopped : BOOLEAN]
    /\ runs \subseteq Run

-----------------------------------------------------------------------------
(* Helpers                                                                 *)

requiresAgentToolApproval(call) == call[2] = "write"

\* calls.slice(0, MAX_TOOL_CALLS), whatever the order of the calls.
FirstCalls(calls) ==
    {some \in SUBSET calls :
        IF Cardinality(calls) <= MAX_TOOL_CALLS THEN some = calls
        ELSE Cardinality(some) = MAX_TOOL_CALLS}

toolMessage(key, calls, pending) ==
    [key |-> key, from |-> "tool", status |-> "none", content |-> {PageText},
     reconnecting |-> FALSE, calls |-> calls, pending |-> pending]

\* updateLastAssistantContent, on the run's own array.
LastContent(ms, content, status, reconnecting) ==
    [ms EXCEPT ![Len(ms)] = [@ EXCEPT !.content = content, !.status = status,
                                      !.reconnecting = reconnecting]]

\* The runs that never go on once the source and the timer of ctl are
\* closed and cleared.
Abandoned(ctl) ==
    {r \in runs : \/ r.pc = "stream" /\ r.conn = ctl.source
                  \/ r.pc = "retry" /\ r.id = ctl.retryTimer}

\* The connection of a run is at its end: close() of the stream.
Closed(r) == [control EXCEPT !.source = IF @ = r.conn THEN None ELSE @]

\* Mutant: a run that ends leaves the page busy.
EndRunBusy(r, ctl) ==
    /\ runs' = runs \ ({r} \cup Abandoned(ctl))
    /\ control' = [ctl EXCEPT !.source = None, !.retryTimer = None]
    /\ UNCHANGED isAgentRunning

\* `finally' of runAgentConversation.
EndRun(r, ctl) ==
    IF ctl.stopped
    THEN /\ runs' = runs \ {r}
         /\ control' = ctl
         /\ UNCHANGED isAgentRunning
    ELSE /\ runs' = runs \ ({r} \cup Abandoned(ctl))
         /\ control' = [source |-> None, retryTimer |-> None, stopped |-> FALSE]
         /\ isAgentRunning' = FALSE

\* A new connection for the run, to go on as `next' with it.
OpenStream(r, next) ==
    /\ opened' = opened + 1
    /\ control' = [control EXCEPT !.source = opened + 1,
                      !.retryTimer = IF r.pc = "retry" THEN None ELSE @]
    /\ runs' = (runs \ {r}) \cup {[next EXCEPT !.pc = "stream", !.conn = opened + 1]}
    /\ UNCHANGED isAgentRunning

-----------------------------------------------------------------------------
(* The stream of an answer                                                 *)

\* The start of runAgentConversation, with the messages it is given.
runAgentConversation(id, initialMessages) ==
    /\ opened' = opened + 1
    /\ control' = [source |-> opened + 1, retryTimer |-> None, stopped |-> FALSE]
    /\ isAgentRunning' = TRUE
    /\ runs' = (runs \ Abandoned(control)) \cup
                  {[id |-> id, pc |-> "stream", working |-> initialMessages,
                    step |-> 0, retry |-> 0, conn |-> opened + 1, calls |-> {},
                    results |-> {}, todo |-> {}, toolKey |-> None,
                    granted |-> FALSE]}

\* More of the text: the whole text so far replaces what the message held.
ReceiveText(r) ==
    LET shown == LastContent(r.working, {r.conn}, "streaming", FALSE)
    IN  /\ r.pc = "stream"
        /\ ~control.stopped
        /\ runs' = (runs \ {r}) \cup {[r EXCEPT !.working = shown]}
        /\ updateMessages(shown)
        /\ UNCHANGED << isAgentRunning, control, reloads,
                        opened, lastKey >>

\* response.completed: the answer is final, its text what this connection
\* has sent.  Calls of unknown tools are kept with the message, but nothing
\* is done about them.
ReceiveCompleted(r) ==
    \E tools \in Answers :
        LET text == Last(r.working).content \cap {r.conn}
            items == {r.conn} \X tools
            calls == {c \in items : c[2] # "unknown"}
            final == [r.working EXCEPT ![Len(r.working)] =
                         [@ EXCEPT !.content = text, !.status = "complete",
                                   !.calls = items]]
            next == [r EXCEPT !.working = final, !.calls = calls]
        IN  /\ r.pc = "stream"
            /\ ~control.stopped
            /\ \/ /\ calls = {}
                  /\ updateMessages(final)
                  /\ EndRun(r, Closed(r))
                  /\ UNCHANGED lastKey
               \/ /\ calls # {}
                  /\ \E c \in calls : requiresAgentToolApproval(c)
                  /\ updateMessages(final)
                  /\ runs' = (runs \ {r}) \cup {[next EXCEPT !.pc = "review"]}
                  /\ control' = Closed(r)
                  /\ UNCHANGED << isAgentRunning, lastKey >>
               \/ /\ calls # {}
                  /\ \A c \in calls : ~requiresAgentToolApproval(c)
                  /\ lastKey' = lastKey + 1
                  /\ updateMessages(Append(final, toolMessage(lastKey + 1, calls, FALSE)))
                  /\ \E first \in FirstCalls(calls) :
                        runs' = (runs \ {r}) \cup
                                   {[next EXCEPT !.pc = "tools", !.results = first,
                                        !.todo = first, !.toolKey = lastKey + 1]}
                  /\ control' = Closed(r)
                  /\ UNCHANGED isAgentRunning
            /\ UNCHANGED << reloads, opened >>

\* The request fails, or the stream ends early, or it reports an error; it
\* is tried again unless it is one of isNonRetryableAgentStreamError.
StreamFails(r, retryable) ==
    /\ r.pc = "stream"
    /\ ~control.stopped
    /\ \/ LET shown == LastContent(r.working, {PageText}, "loading", TRUE)
          IN  /\ retryable
              /\ r.retry < MAX_STREAM_RETRIES
              /\ updateMessages(shown)
              /\ runs' = (runs \ {r}) \cup
                            {[r EXCEPT !.pc = "retry", !.retry = @ + 1, !.working = shown]}
              /\ control' = [Closed(r) EXCEPT !.retryTimer = r.id]
              /\ UNCHANGED isAgentRunning
       \/ /\ ~retryable \/ r.retry >= MAX_STREAM_RETRIES
          /\ updateMessages(LastContent(r.working, {PageText}, "error", FALSE))
          /\ EndRun(r, Closed(r))
    /\ UNCHANGED << reloads, opened, lastKey >>

\* The reading loop of a stream that nobody has closed finds the run stopped.
StreamStopped(r) ==
    /\ r.pc = "stream"
    /\ control.stopped
    /\ runs' = runs \ {r}
    /\ UNCHANGED << stateVars, isAgentRunning, control >>

\* The timer of a reconnection fires.
RetryTimer(r) ==
    /\ r.pc = "retry"
    /\ IF control.stopped
       THEN /\ EndRun(r, [control EXCEPT !.retryTimer = None])
            /\ UNCHANGED opened
       ELSE OpenStream(r, r)
    /\ UNCHANGED << conversationVars, reloads, lastKey >>

-----------------------------------------------------------------------------
(* Tools                                                                   *)

\* buildAgentToolReviewResults is done: requestToolApproval.
RequestApproval(r) ==
    /\ r.pc = "review"
    /\ lastKey' = lastKey + 1
    /\ updateMessages(Append(r.working, toolMessage(lastKey + 1, r.calls, TRUE)))
    /\ runs' = (runs \ {r}) \cup
                  {[r EXCEPT !.pc = "approval", !.toolKey = lastKey + 1]}
    /\ UNCHANGED << isAgentRunning, control, reloads, opened >>

\* Mutant: the answer of the user is not passed on.
handleApproveAlways(r, approved) ==
    /\ r.pc = "approval"
    /\ \E i \in DOMAIN Messages : Messages[i].key = r.toolKey /\ Messages[i].pending
    /\ runs' = (runs \ {r}) \cup {[r EXCEPT !.pc = "approved", !.granted = approved]}
    /\ UNCHANGED << stateVars, isAgentRunning, control >>

\* The user answers the request that is on the screen.
handleApproveAgentToolCalls(r, approved) ==
    /\ r.pc = "approval"
    /\ \E i \in DOMAIN Messages : Messages[i].key = r.toolKey /\ Messages[i].pending
    /\ updateMessages([i \in DOMAIN Messages |->
           IF Messages[i].key = r.toolKey THEN [Messages[i] EXCEPT !.pending = FALSE]
           ELSE Messages[i]])
    /\ runs' = (runs \ {r}) \cup
                  {[r EXCEPT !.pc = IF approved THEN "approved" ELSE "denied",
                             !.granted = approved]}
    /\ UNCHANGED << isAgentRunning, control, reloads, opened, lastKey >>

\* The message of the results takes the key of the request for approval; the
\* one of calls that needed none gets a new key.
CompletedKey(r) ==
    IF \E c \in r.calls : requiresAgentToolApproval(c) THEN r.toolKey ELSE lastKey + 1

\* The tools are done (or none had to run): their results and a new loading
\* message, then the next answer, or the step limit.
NextStep(r, results) ==
    LET next == r.working \o << toolMessage(CompletedKey(r), results, FALSE),
                                createLoadingAssistantMessage(lastKey + 2) >>
    IN  /\ lastKey' = lastKey + 2
        /\ \/ /\ r.step + 1 < MAX_AGENT_STEPS
              /\ updateMessages(next)
              /\ IF control.stopped
                 THEN EndRun(r, control) /\ UNCHANGED opened
                 ELSE OpenStream(r, [r EXCEPT !.working = next, !.step = @ + 1,
                                        !.retry = 0, !.calls = {}, !.results = {},
                                        !.todo = {}, !.toolKey = None,
                                        !.granted = FALSE])
           \/ /\ r.step + 1 = MAX_AGENT_STEPS
              /\ updateMessages(LastContent(next, {PageText}, "complete", FALSE))
              /\ EndRun(r, control)
              /\ UNCHANGED opened

\* The run goes on with the user's answer: executeToolCallsWithApproval after
\* `await promise'.  Denied calls have their results at once.
ContinueApproved(r) ==
    /\ r.pc \in {"approved", "denied"}
    /\ LET safe == {c \in r.calls : ~requiresAgentToolApproval(c)}
           wanted == IF r.pc = "approved" THEN r.calls ELSE safe
       IN  \/ /\ wanted # {}
              /\ updateMessages(Append(r.working, toolMessage(r.toolKey, r.calls, FALSE)))
              /\ \E first \in FirstCalls(wanted) :
                    runs' = (runs \ {r}) \cup
                       {[r EXCEPT !.pc = "tools", !.todo = first,
                                  !.results = first \cup (r.calls \ wanted)]}
              /\ UNCHANGED << isAgentRunning, control, opened, lastKey >>
           \/ /\ wanted = {}
              /\ NextStep(r, r.calls)
    /\ UNCHANGED reloads

\* executeAgentToolCalls: one call is done.  Nobody asks whether the run was
\* stopped.
ToolDone(r) ==
    \E c \in r.todo :
        /\ r.pc = "tools"
        /\ \/ /\ r.todo # {c}
              /\ runs' = (runs \ {r}) \cup {[r EXCEPT !.todo = @ \ {c}]}
              /\ UNCHANGED << conversationVars, opened, lastKey,
                              isAgentRunning, control >>
           \/ /\ r.todo = {c}
              /\ NextStep(r, r.results)
        /\ UNCHANGED reloads

-----------------------------------------------------------------------------

\* stopAgentGeneration: pending approvals are denied.
stopAgentGeneration ==
    /\ control' = [source |-> None, retryTimer |-> None, stopped |-> TRUE]
    /\ runs' = {[r EXCEPT !.pc = IF @ = "approval" THEN "denied" ELSE @] :
                   r \in runs \ Abandoned(control)}
    /\ isAgentRunning' = FALSE
    /\ updateMessages(updateLastAssistantMessage(Messages,
           LET msg == Last(Messages)
           IN  IF Unsettled(msg)
               THEN [msg EXCEPT !.content = IF @ = {} THEN {PageText} ELSE @,
                                !.status = "complete", !.reconnecting = FALSE]
               ELSE msg))
    /\ UNCHANGED << reloads, opened, lastKey >>

\* Promise callbacks run before any other event.
NoCallback == \A r \in runs : r.pc \notin {"approved", "denied"}

\* What a run waits for from outside comes.
RunStep(r) ==
    \/ ReceiveCompleted(r)
    \/ \E retryable \in BOOLEAN : StreamFails(r, retryable)
    \/ StreamStopped(r)
    \/ RetryTimer(r)
    \/ RequestApproval(r)
    \/ ToolDone(r)

AgentNext ==
    \/ \E r \in runs : ContinueApproved(r)
    \/ NoCallback /\ \E r \in runs : ReceiveText(r) \/ RunStep(r)
=============================================================================

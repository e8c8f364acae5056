-------------------------- MODULE PlaygroundProofs --------------------------
(***************************************************************************)
(* Proofs about the playground page, for any number of requests, answers,  *)
(* runs, conversations and reloads and any bounds of the model:            *)
(*                                                                         *)
(*   - an agent changes the workspace only with the user's approval        *)
(*     (AgentInv, WorkspaceApproved);                                      *)
(*   - the state is well formed, and the page shows and remembers          *)
(*     conversations it has (ShapeInv, WellFormed, LastOfModeKept);        *)
(*   - unless the lock of the page was bypassed there is one generation at *)
(*     a time, it writes to its own answer, texts are not mixed, an idle   *)
(*     page shows nothing as being generated and settled answers stay      *)
(*     (GenInv, LockHolds and the theorems after it);                      *)
(*   - a request opens a bounded number of connections and writes a        *)
(*     bounded number of messages, so all variables keep their types       *)
(*     (BudgetInv, BudgetKept, TypeCorrect);                               *)
(*   - no two answers of a conversation share a function call, so the      *)
(*     payload of a run always passes the page's assertion (CallsInv,      *)
(*     CallsApart, PairsAlways).                                           *)
(***************************************************************************)
EXTENDS Playground, TLAPS, SequenceTheorems, FiniteSetTheorems, WellOrdering
\* A run is a record with these fields.  Their types do not matter here.
Fields == {"id", "pc", "working", "step", "retry", "conn", "calls", "results",
           "todo", "toolKey", "granted"}
Shape(r) == r = [f \in Fields |-> r[f]]

NeedsApproval(calls) == \E c \in calls : requiresAgentToolApproval(c)

\* ApprovedOnly speaks of the calls that are left.  They are chosen when the
\* tools start, from an answer given at an earlier step, and the answer is
\* forgotten with the calls: a run that carries nothing out has none left.
Authorized(r) ==
    /\ Shape(r)
    /\ r.pc = "approved" => r.granted
    /\ r.pc # "tools" => r.todo = {}
    /\ NeedsApproval(r.todo) => r.granted

AgentInv == \A r \in runs : Authorized(r)

-----------------------------------------------------------------------------

\* A step that starts or changes one run, and may end others.
LEMMA OneRun ==
    ASSUME AgentInv, NEW n, Authorized(n), runs' \subseteq runs \cup {n}
    PROVE  AgentInv'
BY DEF AgentInv

\* A step that starts and changes none.
LEMMA NoRun ==
    ASSUME AgentInv, runs' \subseteq runs
    PROVE  AgentInv'
BY DEF AgentInv

\* Every way out of runAgentConversation only ends runs.
LEMMA RunsEnd ==
    ASSUME NEW r, NEW ctl, EndRun(r, ctl)
    PROVE  runs' \subseteq runs
BY DEF EndRun

\* A part of calls that need no approval needs none.
LEMMA PartOfCalls ==
    ASSUME NEW calls, NEW first \in FirstCalls(calls)
    PROVE  NeedsApproval(first) => NeedsApproval(calls)
BY DEF FirstCalls, NeedsApproval

\* More text only changes the messages of the run.
LEMMA TextStep ==
    ASSUME AgentInv, NEW r \in runs, ReceiveText(r)
    PROVE  AgentInv'
<1> DEFINE n == [r EXCEPT !.working = LastContent(r.working, {r.conn}, "streaming", FALSE)]
<1>1. Authorized(n)
  BY DEF AgentInv, Authorized, Shape, Fields
<1>2. runs' \subseteq runs \cup {n}
  BY DEF ReceiveText
<1> QED BY <1>1, <1>2, OneRun

\* A final answer: the tools start at once only when no call needs approval.
LEMMA CompletedStep ==
    ASSUME AgentInv, NEW r \in runs, ReceiveCompleted(r)
    PROVE  AgentInv'
<1>1. PICK tools \in Answers :
        LET text == Last(r.working).content \cap {r.conn}
            items == {r.conn} \X tools
            calls == {c \in items : c[2] # "unknown"}
            final == [r.working EXCEPT ![Len(r.working)] =
                         [@ EXCEPT !.content = text, !.status = "complete",
                                   !.calls = items]]
            next == [r EXCEPT !.working = final, !.calls = calls]
        IN  /\ r.pc = "stream"
            /\ \/ EndRun(r, Closed(r))
               \/ runs' = (runs \ {r}) \cup {[next EXCEPT !.pc = "review"]}
               \/ /\ ~NeedsApproval(calls)
                  /\ \E first \in FirstCalls(calls) :
                        runs' = (runs \ {r}) \cup
                                   {[next EXCEPT !.pc = "tools", !.results = first,
                                        !.todo = first, !.toolKey = lastKey + 1]}
  BY DEF ReceiveCompleted, NeedsApproval
<1> DEFINE items == {r.conn} \X tools
           calls == {c \in items : c[2] # "unknown"}
           final == [r.working EXCEPT ![Len(r.working)] =
                        [@ EXCEPT !.content = Last(r.working).content \cap {r.conn},
                                  !.status = "complete", !.calls = items]]
           next == [r EXCEPT !.working = final, !.calls = calls]
<1>2. r.pc = "stream" /\ Authorized(r)
  BY <1>1 DEF AgentInv
<1>3. CASE EndRun(r, Closed(r))
  BY <1>3, RunsEnd, NoRun
<1>4. CASE runs' = (runs \ {r}) \cup {[next EXCEPT !.pc = "review"]}
  <2> DEFINE n == [next EXCEPT !.pc = "review"]
  <2> HIDE DEF final, calls
  <2>1. Authorized(n)
    BY <1>2 DEF Authorized, Shape, Fields
  <2>2. runs' \subseteq runs \cup {n}
    BY <1>4
  <2> QED BY <2>1, <2>2, OneRun
<1>5. ASSUME ~NeedsApproval(calls), NEW first \in FirstCalls(calls),
             runs' = (runs \ {r}) \cup {[next EXCEPT !.pc = "tools", !.results = first,
                                            !.todo = first, !.toolKey = lastKey + 1]}
      PROVE  AgentInv'
  <2> DEFINE n == [next EXCEPT !.pc = "tools", !.results = first, !.todo = first,
                               !.toolKey = lastKey + 1]
  <2>0. ~NeedsApproval(first)
    BY <1>5, PartOfCalls
  <2> HIDE DEF final, calls
  <2>1. Authorized(n)
    BY <1>2, <2>0 DEF Authorized, Shape, Fields
  <2>2. runs' \subseteq runs \cup {n}
    BY <1>5
  <2> QED BY <2>1, <2>2, OneRun
<1> QED BY <1>1, <1>3, <1>4, <1>5

\* A failed stream is tried again or ends the run.
LEMMA FailsStep ==
    ASSUME AgentInv, NEW r \in runs, NEW retryable, StreamFails(r, retryable)
    PROVE  AgentInv'
<1> DEFINE n == [r EXCEPT !.pc = "retry", !.retry = @ + 1,
                          !.working = LastContent(r.working, {PageText}, "loading", TRUE)]
<1>1. r.pc = "stream" /\ (runs' \subseteq runs \cup {n} \/ EndRun(r, Closed(r)))
  BY DEF StreamFails
<1>2. Authorized(n)
  BY <1>1 DEF AgentInv, Authorized, Shape, Fields
<1> QED BY <1>1, <1>2, OneRun, NoRun, RunsEnd

\* A run that starts a stream has nothing to carry out.
LEMMA OpensStep ==
    ASSUME AgentInv, NEW r, NEW next, Shape(next), next.todo = {}, OpenStream(r, next)
    PROVE  AgentInv'
<1> DEFINE n == [next EXCEPT !.pc = "stream", !.conn = opened + 1]
<1>1. Authorized(n)
  BY DEF Authorized, Shape, Fields, NeedsApproval
<1>2. runs' \subseteq runs \cup {n}
  BY DEF OpenStream
<1> QED BY <1>1, <1>2, OneRun

\* The timer of a reconnection.
LEMMA TimerStep ==
    ASSUME AgentInv, NEW r \in runs, RetryTimer(r)
    PROVE  AgentInv'
<1>1. Shape(r) /\ r.todo = {}
  BY DEF AgentInv, Authorized, RetryTimer
<1>2. EndRun(r, [control EXCEPT !.retryTimer = None]) \/ OpenStream(r, r)
  BY DEF RetryTimer
<1> QED BY <1>1, <1>2, OpensStep, RunsEnd, NoRun

\* The calls of a run are shown to the user.
LEMMA RequestStep ==
    ASSUME AgentInv, NEW r \in runs, RequestApproval(r)
    PROVE  AgentInv'
<1> DEFINE n == [r EXCEPT !.pc = "approval", !.toolKey = lastKey + 1]
<1>1. Authorized(n) /\ runs' \subseteq runs \cup {n}
  BY DEF AgentInv, Authorized, Shape, Fields, RequestApproval
<1> QED BY <1>1, OneRun

\* The answer of the user is the answer the run goes on with.
LEMMA ApproveStep ==
    ASSUME AgentInv, NEW r \in runs, NEW approved \in BOOLEAN,
           handleApproveAgentToolCalls(r, approved)
    PROVE  AgentInv'
<1> DEFINE n == [r EXCEPT !.pc = IF approved THEN "approved" ELSE "denied",
                          !.granted = approved]
<1>1. r.pc = "approval" /\ runs' \subseteq runs \cup {n}
  BY DEF handleApproveAgentToolCalls
<1>2. Shape(r) /\ r.todo = {}
  BY <1>1 DEF AgentInv, Authorized
<1>3. Shape(n) /\ n.todo = {} /\ n.pc # "tools"
  BY <1>2 DEF Shape, Fields
<1>4. n.pc = "approved" => n.granted
  <2>1. CASE approved = TRUE
    BY <1>2, <2>1 DEF Shape, Fields
  <2>2. CASE approved = FALSE
    BY <1>2, <2>2 DEF Shape, Fields
  <2> QED BY <2>1, <2>2
<1>5. Authorized(n)
  BY <1>3, <1>4 DEF Authorized, NeedsApproval
<1> QED BY <1>1, <1>5, OneRun

\* The next answer begins with nothing to carry out, or the run ends.
LEMMA NextStepKeeps ==
    ASSUME AgentInv, NEW r \in runs, NEW results, NextStep(r, results)
    PROVE  AgentInv'
<1> DEFINE working == r.working \o << toolMessage(CompletedKey(r), results, FALSE),
                                      createLoadingAssistantMessage(lastKey + 2) >>
           next == [r EXCEPT !.working = working, !.step = @ + 1,
                             !.retry = 0, !.calls = {}, !.results = {},
                             !.todo = {}, !.toolKey = None, !.granted = FALSE]
<1>1. EndRun(r, control) \/ OpenStream(r, next)
  BY DEF NextStep
<1> HIDE DEF working
<1>2. Shape(r)
  BY DEF AgentInv, Authorized
<1>3. Shape(next)
  <2> DEFINE first == [r EXCEPT !.working = working, !.step = @ + 1, !.retry = 0,
                                !.calls = {}]
  <2>1. Shape(first)
    BY <1>2 DEF Shape, Fields
  <2>2. next = [first EXCEPT !.results = {}, !.todo = {}, !.toolKey = None,
                             !.granted = FALSE]
    BY <1>2 DEF Shape, Fields
  <2> HIDE DEF first, next
  <2> QED BY <2>1, <2>2 DEF Shape, Fields
<1>4. next.todo = {}
  BY <1>2 DEF Shape, Fields
<1> QED BY <1>1, <1>3, <1>4, OpensStep, RunsEnd, NoRun

\* After a denial only the calls that need no approval are left.
LEMMA ContinueStep ==
    ASSUME AgentInv, NEW r \in runs, ContinueApproved(r)
    PROVE  AgentInv'
<1> DEFINE wanted == IF r.pc = "approved" THEN r.calls
                     ELSE {c \in r.calls : ~requiresAgentToolApproval(c)}
<1>1. CASE NextStep(r, r.calls)
  BY <1>1, NextStepKeeps
<1>2. ASSUME NEW first \in FirstCalls(wanted),
             runs' = (runs \ {r}) \cup
                       {[r EXCEPT !.pc = "tools", !.todo = first,
                                  !.results = first \cup (r.calls \ wanted)]}
      PROVE  AgentInv'
  <2> DEFINE n == [r EXCEPT !.pc = "tools", !.todo = first,
                            !.results = first \cup (r.calls \ wanted)]
  <2>1. NeedsApproval(wanted) => r.granted
    BY DEF AgentInv, Authorized, NeedsApproval
  <2>2. NeedsApproval(first) => r.granted
    BY <2>1, PartOfCalls
  <2> HIDE DEF wanted
  <2>3. Authorized(n)
    BY <2>2 DEF AgentInv, Authorized, Shape, Fields
  <2>4. runs' \subseteq runs \cup {n}
    BY <1>2
  <2> QED BY <2>3, <2>4, OneRun
<1> QED BY <1>1, <1>2 DEF ContinueApproved

\* One call less, or all done.
LEMMA ToolStep ==
    ASSUME AgentInv, NEW r \in runs, ToolDone(r)
    PROVE  AgentInv'
<1>1. PICK c \in r.todo :
        /\ r.pc = "tools"
        /\ \/ runs' = (runs \ {r}) \cup {[r EXCEPT !.todo = @ \ {c}]}
           \/ NextStep(r, r.results)
  BY DEF ToolDone
<1>2. CASE NextStep(r, r.results)
  BY <1>2, NextStepKeeps
<1>3. CASE runs' = (runs \ {r}) \cup {[r EXCEPT !.todo = @ \ {c}]}
  <2> DEFINE n == [r EXCEPT !.todo = @ \ {c}]
  <2>1. Authorized(n)
    BY <1>1 DEF AgentInv, Authorized, Shape, Fields, NeedsApproval
  <2>2. runs' \subseteq runs \cup {n}
    BY <1>3
  <2> QED BY <2>1, <2>2, OneRun
<1> QED BY <1>1, <1>2, <1>3

\* Stop denies whatever waits for an answer.
LEMMA StopStep ==
    ASSUME AgentInv, stopAgentGeneration
    PROVE  AgentInv'
<1> SUFFICES ASSUME NEW n \in runs' PROVE Authorized(n)
  BY DEF AgentInv
<1>1. PICK r \in runs : n = [r EXCEPT !.pc = IF @ = "approval" THEN "denied" ELSE @]
  BY DEF stopAgentGeneration
<1> QED BY <1>1 DEF AgentInv, Authorized, Shape, Fields

\* A run starts without calls.
LEMMA StartStep ==
    ASSUME AgentInv, NEW id, NEW initialMessages,
           runAgentConversation(id, initialMessages)
    PROVE  AgentInv'
<1> DEFINE n == [id |-> id, pc |-> "stream", working |-> initialMessages,
                 step |-> 0, retry |-> 0, conn |-> opened + 1, calls |-> {},
                 results |-> {}, todo |-> {}, toolKey |-> None, granted |-> FALSE]
<1>1. Authorized(n)
  BY DEF Authorized, Shape, Fields, NeedsApproval
<1>2. runs' \subseteq runs \cup {n}
  BY DEF runAgentConversation
<1> QED BY <1>1, <1>2, OneRun

-----------------------------------------------------------------------------

\* Every step of the page keeps the invariant.
LEMMA StepKeeps ==
    ASSUME AgentInv, [Next]_vars
    PROVE  AgentInv'
<1>1. CASE ChatStep
  BY <1>1, NoRun DEF ChatStep, agentVars
<1>2. CASE AgentStep
  <2>1. PICK r \in runs : ContinueApproved(r) \/ ReceiveText(r) \/ RunStep(r)
    BY <1>2 DEF AgentStep, AgentNext
  <2>2. CASE StreamStopped(r)
    BY <2>2, NoRun DEF StreamStopped
  <2> QED BY <2>1, <2>2, ContinueStep, TextStep, CompletedStep, FailsStep, TimerStep,
             RequestStep, ToolStep DEF RunStep
<1>3. CASE UserStep
  <2>1. CASE Submit \/ \E i \in DOMAIN converting : Converted(i)
    <3>1. PICK ms, mode : handleSendMessage(ms, mode)
      BY <2>1 DEF Submit, Converted
    <3>2. PICK id, all : sendChat(all) \/ runAgentConversation(id, all)
      BY <3>1 DEF handleSendMessage
    <3> QED BY <3>2, StartStep, NoRun DEF sendChat, agentVars
  <2>2. ASSUME NEW i \in DOMAIN Messages,
               \/ handleRegenerateMessage(i)
               \/ handleDeleteMessage(i)
               \/ handleEditMessage(i)
               \/ \E submit \in BOOLEAN : applyEdit(i, submit)
        PROVE  AgentInv'
    <3>1. UNCHANGED agentVars
      BY <2>2 DEF handleRegenerateMessage, handleDeleteMessage, handleEditMessage,
                  applyEdit, sendChat
    <3> QED BY <3>1, NoRun DEF agentVars
  <2>3. CASE Approve
    BY <2>3, ApproveStep DEF Approve
  <2>4. CASE SidebarStep \/ AutoPair \/ StartConversion
    BY <2>4, NoRun DEF SidebarStep, AutoPair, StartConversion, agentVars
  <2>5. CASE Stop
    <3>1. stopAgentGeneration \/ UNCHANGED agentVars
      BY <2>5 DEF Stop
    <3> QED BY <3>1, StopStep, NoRun DEF agentVars
  <2>6. CASE Reload
    BY <2>6, NoRun DEF Reload
  <2> QED BY <1>3, <2>1, <2>2, <2>3, <2>4, <2>5, <2>6 DEF UserStep
<1>4. CASE UNCHANGED vars
  BY <1>4, NoRun DEF vars, agentVars
<1> QED BY <1>1, <1>2, <1>3, <1>4 DEF Next

\* The invariant holds, whatever the user, the relay and the helper do.
THEOREM Invariance == Spec => []AgentInv
<1>1. Init => AgentInv
  BY DEF Init, AgentInit, AgentInv
<1>2. AgentInv /\ [Next]_vars => AgentInv'
  BY StepKeeps
<1> QED BY <1>1, <1>2, PTL DEF Spec

\* Whatever a run of the agent still has to carry out, before or after a Stop,
\* needs no approval or has it (executeToolCallsWithApproval).
THEOREM WorkspaceApproved == Spec => []ApprovedOnly
<1>1. AgentInv => ApprovedOnly
  BY DEF AgentInv, Authorized, NeedsApproval, ApprovedOnly
<1> QED BY <1>1, Invariance, PTL

-----------------------------------------------------------------------------
(* The conversations, streams and runs are well formed                     *)

\* The messages made of the first k keys and the first n connections; only the
\* card of tool calls waits for the user.
MessageOf(k, n) ==
    {msg \in [key : 1..k, from : {"user", "assistant", "tool"}, status : Status,
              content : SUBSET (0..n), reconnecting : BOOLEAN,
              calls : SUBSET ((1..n) \X Tools), pending : BOOLEAN] :
        msg.from # "tool" => ~msg.pending}

ConversationOf(k, n) ==
    [id : ConversationIds, mode : Modes, messages : Seq(MessageOf(k, n))]

\* The conversations of the page or of localStorage, each with its own id.
Shelf(cs, k, n) ==
    /\ cs \in Seq(ConversationOf(k, n))
    /\ \A i, j \in DOMAIN cs : cs[i].id = cs[j].id => i = j

Remembered == [Modes -> ConversationIds \cup {None}]

\* LastOfMode, of conversations cs, an active one and the remembered ones.
Remembers(cs, id, ids) ==
    /\ id \in Ids(cs)
    /\ \A mode \in Modes :
          IF IdsOf(cs, mode) = {} THEN ids[mode] = None ELSE ids[mode] \in IdsOf(cs, mode)

PageShape(cs, id, ids, k, n) ==
    /\ Shelf(cs, k, n)
    /\ Remembers(cs, id, ids)
    /\ ids \in Remembered

\* What is stored may be of different times: its ids name no conversation for sure.
StoredShape(st, k, n) ==
    /\ st = [conversations |-> st.conversations, active |-> st.active,
             activeIds |-> st.activeIds]
    /\ Shelf(st.conversations, k, n)
    /\ st.active \in ConversationIds \cup {None}
    /\ st.activeIds \in Remembered

PageInv == PageShape(conversations, active, activeIds, lastKey, opened)
StoredInv == StoredShape(stored, lastKey, opened)

CountInv ==
    /\ lastKey \in Nat /\ opened \in Nat
    /\ lostSaves \in 0..MaxLostSaves /\ reloads \in 0..MaxReloads

ChatShape ==
    /\ isStreaming \in BOOLEAN
    /\ sseSource \in 0..opened
    /\ retryTimeout \in 0..lastKey
    /\ isStreamComplete \in BOOLEAN
    /\ streamStopped \in BOOLEAN
    /\ retryCount \in [Keys -> 0..MAX_STREAM_RETRIES]
    /\ sources \subseteq [conn : 1..opened, own : 1..lastKey]
    /\ silent \in BOOLEAN

\* A run works on messages of which the last one is its answer; its calls have
\* a card once they were reviewed.
RunOf(k, n) ==
    {r \in [id : 1..k, pc : Waiting, working : Seq(MessageOf(k, n)),
            step : 0..(MAX_AGENT_STEPS - 1), retry : 0..MAX_STREAM_RETRIES,
            conn : 1..n, calls : SUBSET ((1..n) \X Tools),
            results : SUBSET ((1..n) \X Tools), todo : SUBSET ((1..n) \X Tools),
            toolKey : 0..k, granted : BOOLEAN] :
        /\ r.working # << >> /\ Last(r.working).from = "assistant"
        /\ r.pc \notin {"stream", "retry", "review"} => r.toolKey # None}

AgentShape ==
    /\ isAgentRunning \in BOOLEAN
    /\ control \in [source : 0..opened, retryTimer : 0..lastKey, stopped : BOOLEAN]
    /\ runs \subseteq RunOf(lastKey, opened)

UserShape ==
    /\ sends \in 0..MaxSends
    /\ moves \in 0..MaxMoves
    /\ edits \in 0..MaxEdits
    /\ editingMessageKey \in 0..lastKey
    /\ pairing \in BOOLEAN
    /\ interfered \in BOOLEAN

\* What a submission keeps while its attachments are converted.
FormOf(k, n) == [messages : Seq(MessageOf(k, n)), mode : Modes]

FormShape ==
    /\ converting \in Seq(FormOf(lastKey, opened))
    /\ Len(converting) <= MaxConversions

ShapeInv ==
    /\ PageInv /\ StoredInv /\ CountInv /\ ChatShape /\ AgentShape /\ UserShape
    /\ FormShape

-----------------------------------------------------------------------------
(* One generation at a time                                                *)

\* Only the last message may still be generated, and a text has one origin.
Neat(ms) ==
    \A j \in DOMAIN ms :
        /\ Unsettled(ms[j]) => j = Len(ms)
        /\ \A x, y \in ms[j].content : x = y

Calm(ms) == \A j \in DOMAIN ms : ~Unsettled(ms[j])

\* Nothing but the last message of the active conversation is generated, and a
\* page that is not busy generates nothing.
TidyInv ==
    /\ \A i \in DOMAIN conversations :
          /\ Neat(conversations[i].messages)
          /\ conversations[i].id # active => Calm(conversations[i].messages)
    /\ \A i \in DOMAIN stored.conversations : Neat(stored.conversations[i].messages)
    /\ ~isBusy => Calm(Messages)

\* The last message is the answer the call `own' of sendStreamRequest is for.
AnswerOf(own) ==
    Messages # << >> /\ Last(Messages).key = own /\ Unsettled(Last(Messages))

StreamInv ==
    /\ sources # {} \/ retryTimeout # None =>
          /\ isStreaming /\ ~isAgentRunning
          /\ ~streamStopped /\ ~isStreamComplete
    /\ \A s \in sources :
          /\ sources = {s} /\ sseSource = s.conn /\ retryTimeout = None
          /\ AnswerOf(s.own)
          /\ ~Last(Messages).reconnecting => Last(Messages).content \subseteq {s.conn}
    /\ retryTimeout # None => AnswerOf(retryTimeout) /\ Last(Messages).reconnecting

\* Messages ms show the run r, the only one, which waits for what ctl names.
Lone(r, ms, ctl) ==
    /\ ~ctl.stopped
    /\ r.pc = "stream" => ctl.source = r.conn
    /\ r.pc = "retry" => ctl.retryTimer = r.id
    /\ r.pc \in {"stream", "retry"} => ms = r.working /\ Unsettled(Last(r.working))
    /\ r.pc = "review" => ms = r.working
    /\ r.pc \notin {"stream", "retry"} => Calm(r.working)
    /\ r.pc \notin {"stream", "retry", "review"} =>
          \E card : card.from = "tool" /\ ms = Append(r.working, card)
    /\ r.pc = "approval" => \A j \in DOMAIN r.working : r.working[j].key < r.toolKey

AloneInv ==
    \A r \in runs :
        /\ isAgentRunning /\ ~isStreaming
        /\ runs = {r}
        /\ Lone(r, Messages, control)

Ordered ==
    /\ TidyInv /\ StreamInv /\ AloneInv
    /\ ~(isStreaming /\ isAgentRunning)

\* What is being converted was submitted on a page that was not busy.
CalmForms ==
    \A i \in DOMAIN converting :
        Calm(converting[i].messages) /\ Neat(converting[i].messages)

GenInv == ~interfered => Ordered /\ CalmForms

-----------------------------------------------------------------------------
(* Messages                                                                *)

\* A list over the same positions is a sequence, too.
LEMMA SameLength ==
    ASSUME NEW S, NEW s \in Seq(S), NEW R, NEW t, DOMAIN t = DOMAIN s,
           t = [i \in DOMAIN s |-> t[i]], \A i \in DOMAIN s : t[i] \in R
    PROVE  t \in Seq(R) /\ Len(t) = Len(s)
<1>1. DOMAIN s = 1 .. Len(s) /\ Len(s) \in Nat
  OBVIOUS
<1>2. t \in [1 .. Len(s) -> R]
  BY <1>1
<1>3. t \in Seq(R)
  BY <1>1, <1>2, SeqDef
<1>4. DOMAIN t = 1..Len(t) /\ Len(t) \in Nat
  BY <1>3
<1> QED BY <1>1, <1>3, <1>4

\* More keys and connections make more messages.
LEMMA MessageGrows ==
    ASSUME NEW k \in Nat, NEW n \in Nat, NEW k2 \in Nat, NEW n2 \in Nat, k <= k2, n <= n2
    PROVE  MessageOf(k, n) \subseteq MessageOf(k2, n2)
<1>1. 1..k \subseteq 1..k2 /\ 0..n \subseteq 0..n2 /\ 1..n \subseteq 1..n2
  OBVIOUS
<1>2. (1..n) \X Tools \subseteq (1..n2) \X Tools
  BY <1>1
<1>3. SUBSET (0..n) \subseteq SUBSET (0..n2)
      /\ SUBSET ((1..n) \X Tools) \subseteq SUBSET ((1..n2) \X Tools)
  BY <1>1, <1>2
<1> QED
  BY <1>1, <1>3 DEF MessageOf

\* ... and more conversations and runs.
LEMMA ShelfGrows ==
    ASSUME NEW k \in Nat, NEW n \in Nat, NEW k2 \in Nat, NEW n2 \in Nat, k <= k2, n <= n2,
           NEW cs, Shelf(cs, k, n)
    PROVE  Shelf(cs, k2, n2)
<1>1. Seq(MessageOf(k, n)) \subseteq Seq(MessageOf(k2, n2))
  BY MessageGrows, SeqMonotonic
<1>2. ConversationOf(k, n) \subseteq ConversationOf(k2, n2)
  BY <1>1 DEF ConversationOf
<1> QED BY <1>2, SeqMonotonic DEF Shelf

LEMMA RunGrows ==
    ASSUME NEW k \in Nat, NEW n \in Nat, NEW k2 \in Nat, NEW n2 \in Nat, k <= k2, n <= n2
    PROVE  RunOf(k, n) \subseteq RunOf(k2, n2)
<1>1. Seq(MessageOf(k, n)) \subseteq Seq(MessageOf(k2, n2))
  BY MessageGrows, SeqMonotonic
<1>2. 1..k \subseteq 1..k2 /\ 0..k \subseteq 0..k2 /\ 1..n \subseteq 1..n2
  OBVIOUS
<1>3. SUBSET ((1..n) \X Tools) \subseteq SUBSET ((1..n2) \X Tools)
  BY <1>2
<1> QED BY <1>1, <1>2, <1>3 DEF RunOf

\* The parts of a message.
LEMMA MessageTypes ==
    ASSUME NEW k, NEW n, NEW msg \in MessageOf(k, n)
    PROVE  /\ msg.key \in 1..k /\ msg.from \in {"user", "assistant", "tool"}
           /\ msg.status \in Status /\ msg.content \subseteq 0..n
           /\ msg.reconnecting \in BOOLEAN /\ msg.calls \subseteq (1..n) \X Tools
           /\ msg.pending \in BOOLEAN /\ (msg.from # "tool" => ~msg.pending)
           /\ msg = [key |-> msg.key, from |-> msg.from, status |-> msg.status,
                     content |-> msg.content, reconnecting |-> msg.reconnecting,
                     calls |-> msg.calls, pending |-> msg.pending]
BY DEF MessageOf

\* A message is put together from its parts.
LEMMA MessageMade ==
    ASSUME NEW k, NEW n, NEW key \in 1..k, NEW from \in {"user", "assistant", "tool"},
           NEW status \in Status, NEW content, content \subseteq 0..n,
           NEW reconnecting \in BOOLEAN, NEW calls, calls \subseteq (1..n) \X Tools,
           NEW pending \in BOOLEAN, from # "tool" => ~pending
    PROVE  [key |-> key, from |-> from, status |-> status, content |-> content,
            reconnecting |-> reconnecting, calls |-> calls, pending |-> pending]
              \in MessageOf(k, n)
BY DEF MessageOf

\* The messages the page creates.
LEMMA MessagesMade ==
    ASSUME NEW k \in Nat, NEW n \in Nat, NEW key \in 1..k
    PROVE  /\ createUserMessage(key) \in MessageOf(k, n)
           /\ createLoadingAssistantMessage(key) \in MessageOf(k, n)
           /\ \A calls, pending : calls \subseteq (1..n) \X Tools /\ pending \in BOOLEAN =>
                 toolMessage(key, calls, pending) \in MessageOf(k, n)
<1>1. {PageText} \subseteq 0..n /\ {} \subseteq 0..n /\ {} \subseteq (1..n) \X Tools
  BY DEF PageText
<1>2. "none" \in Status /\ "loading" \in Status
  BY DEF Status
<1> QED BY <1>1, <1>2, MessageMade DEF createUserMessage, createLoadingAssistantMessage, toolMessage

\* The callbacks of a stream change text, status and the mark of a reconnection.
Changed(msg, content, status, reconnecting) ==
    [msg EXCEPT !.content = content, !.status = status, !.reconnecting = reconnecting]

Flag(x) == x \in BOOLEAN

LEMMA Flags == Flag(TRUE) /\ Flag(FALSE)
BY DEF Flag

LEMMA MessageChanged ==
    ASSUME NEW k, NEW n, NEW msg \in MessageOf(k, n), NEW content, content \subseteq 0..n,
           NEW status \in Status, NEW reconnecting, Flag(reconnecting)
    PROVE  /\ Changed(msg, content, status, reconnecting) \in MessageOf(k, n)
           /\ Changed(msg, content, status, reconnecting).key = msg.key
           /\ Changed(msg, content, status, reconnecting).from = msg.from
           /\ Changed(msg, content, status, reconnecting).content = content
           /\ Changed(msg, content, status, reconnecting).status = status
           /\ Changed(msg, content, status, reconnecting).reconnecting = reconnecting
<1> DEFINE new == [msg EXCEPT !.content = content, !.status = status,
                              !.reconnecting = reconnecting]
<1>1. new = [key |-> msg.key, from |-> msg.from, status |-> status,
             content |-> content, reconnecting |-> reconnecting,
             calls |-> msg.calls, pending |-> msg.pending]
  <2> DEFINE a == [msg EXCEPT !.content = content]
             b == [a EXCEPT !.status = status]
             c == [b EXCEPT !.reconnecting = reconnecting]
  <2>1. a = [key |-> msg.key, from |-> msg.from, status |-> msg.status,
             content |-> content, reconnecting |-> msg.reconnecting,
             calls |-> msg.calls, pending |-> msg.pending]
    BY DEF MessageOf
  <2>2. new = c
    OBVIOUS
  <2>3. b = [key |-> msg.key, from |-> msg.from, status |-> status,
             content |-> content, reconnecting |-> msg.reconnecting,
             calls |-> msg.calls, pending |-> msg.pending]
    <3> HIDE DEF a
    <3> QED BY <2>1
  <2>4. c = [key |-> msg.key, from |-> msg.from, status |-> status,
             content |-> content, reconnecting |-> reconnecting,
             calls |-> msg.calls, pending |-> msg.pending]
    <3> HIDE DEF b
    <3> QED BY <2>3
  <2> QED BY <2>2, <2>4
<1> HIDE DEF new
<1>2. new \in MessageOf(k, n)
  <2>1. /\ msg.key \in 1..k /\ msg.from \in {"user", "assistant", "tool"}
        /\ msg.calls \subseteq (1..n) \X Tools
        /\ msg.pending \in BOOLEAN /\ (msg.from # "tool" => ~msg.pending)
    BY MessageTypes
  <2> QED BY <1>1, <2>1, MessageMade DEF Flag
<1>3. /\ new.key = msg.key /\ new.from = msg.from /\ new.content = content
      /\ new.status = status /\ new.reconnecting = reconnecting
  BY <1>1
<1> QED BY <1>2, <1>3 DEF new, Changed

\* One part of a message is changed.
LEMMA StatusChanged ==
    ASSUME NEW k, NEW n, NEW msg \in MessageOf(k, n), NEW status \in Status
    PROVE  LET new == [msg EXCEPT !.status = status]
           IN  /\ new \in MessageOf(k, n)
               /\ new.key = msg.key /\ new.from = msg.from /\ new.content = msg.content
               /\ new.status = status /\ new.reconnecting = msg.reconnecting
               /\ new.calls = msg.calls /\ new.pending = msg.pending
<1> DEFINE new == [msg EXCEPT !.status = status]
<1>1. new = [key |-> msg.key, from |-> msg.from, status |-> status,
             content |-> msg.content, reconnecting |-> msg.reconnecting,
             calls |-> msg.calls, pending |-> msg.pending]
  BY DEF MessageOf
<1> HIDE DEF new
<1>2. new \in MessageOf(k, n)
  BY <1>1 DEF MessageOf
<1>3. /\ new.key = msg.key /\ new.from = msg.from /\ new.content = msg.content
      /\ new.status = status /\ new.reconnecting = msg.reconnecting
      /\ new.calls = msg.calls /\ new.pending = msg.pending
  BY <1>1
<1> QED BY <1>2, <1>3 DEF new

LEMMA ContentChanged ==
    ASSUME NEW k, NEW n, NEW msg \in MessageOf(k, n), NEW content, content \subseteq 0..n
    PROVE  LET new == [msg EXCEPT !.content = content]
           IN  /\ new \in MessageOf(k, n)
               /\ new.key = msg.key /\ new.from = msg.from /\ new.content = content
               /\ new.status = msg.status
<1> DEFINE new == [msg EXCEPT !.content = content]
<1>1. new = [key |-> msg.key, from |-> msg.from, status |-> msg.status,
             content |-> content, reconnecting |-> msg.reconnecting,
             calls |-> msg.calls, pending |-> msg.pending]
  BY DEF MessageOf
<1> HIDE DEF new
<1>2. new \in MessageOf(k, n)
  BY <1>1 DEF MessageOf
<1>3. /\ new.key = msg.key /\ new.from = msg.from /\ new.content = content
      /\ new.status = msg.status
  BY <1>1
<1> QED BY <1>2, <1>3 DEF new

LEMMA PendingChanged ==
    ASSUME NEW k, NEW n, NEW msg \in MessageOf(k, n)
    PROVE  LET new == [msg EXCEPT !.pending = FALSE]
           IN  /\ new \in MessageOf(k, n)
               /\ new.key = msg.key /\ new.from = msg.from /\ new.content = msg.content
               /\ new.status = msg.status
               /\ msg.from # "tool" => new = msg
<1> DEFINE new == [msg EXCEPT !.pending = FALSE]
<1>0. \A v : [msg EXCEPT !.pending = v] =
               [key |-> msg.key, from |-> msg.from, status |-> msg.status,
                content |-> msg.content, reconnecting |-> msg.reconnecting,
                calls |-> msg.calls, pending |-> v]
  BY DEF MessageOf
<1>1. new = [key |-> msg.key, from |-> msg.from, status |-> msg.status,
             content |-> msg.content, reconnecting |-> msg.reconnecting,
             calls |-> msg.calls, pending |-> FALSE]
  BY <1>0, Zenon
<1> HIDE DEF new
<1>2. new \in MessageOf(k, n)
  BY <1>1 DEF MessageOf
<1>3. /\ new.key = msg.key /\ new.from = msg.from /\ new.content = msg.content
      /\ new.status = msg.status
  BY <1>1
<1>4. ASSUME msg.from # "tool" PROVE new = msg
  <2>1. msg.pending = FALSE
    BY <1>4, MessageTypes
  <2> QED BY <1>1, <2>1, MessageTypes
<1> QED BY <1>2, <1>3, <1>4 DEF new

\* What sanitizeMessagesOnLoad makes of an unsettled message
LEMMA SanitizedLemma ==
    ASSUME NEW k, NEW n \in Nat, NEW msg \in MessageOf(k, n)
    PROVE  /\ Sanitized(msg) \in MessageOf(k, n)
           /\ ~Unsettled(Sanitized(msg))
           /\ Sanitized(msg).content \in {msg.content, {PageText}}
<1>0. "complete" \in Status /\ "error" \in Status
  BY DEF Status
<1>1. CASE msg.content # {} \/ msg.status = "streaming"
  BY <1>0, <1>1, StatusChanged DEF Sanitized, Unsettled
<1>2. CASE ~(msg.content # {} \/ msg.status = "streaming")
  <2> DEFINE a == [msg EXCEPT !.content = {PageText}]
             b == [a EXCEPT !.status = "error"]
  <2>1. a \in MessageOf(k, n) /\ a.content = {PageText}
    <3>1. PICK content : content = {PageText}
      OBVIOUS
    <3>2. content \subseteq 0..n
      BY <3>1 DEF PageText
    <3>3. [msg EXCEPT !.content = content] \in MessageOf(k, n)
          /\ [msg EXCEPT !.content = content].content = content
      BY <3>2, ContentChanged
    <3> QED BY <3>1, <3>3
  <2> HIDE DEF a
  <2>2. b \in MessageOf(k, n) /\ b.content = {PageText} /\ b.status = "error"
    BY <1>0, <2>1, StatusChanged
  <2>3. Sanitized(msg) = b
    BY <1>2 DEF Sanitized, a
  <2> QED BY <2>2, <2>3 DEF Unsettled
<1> QED BY <1>1, <1>2

\* The callbacks of a chat stream
LEMMA CallbackTypes ==
    ASSUME NEW k, NEW n \in Nat, NEW msg \in MessageOf(k, n), NEW kind
    PROVE  /\ \A conn \in 1..n : handleStreamUpdate(msg, kind, conn) \in MessageOf(k, n)
           /\ handleStreamComplete(msg) \in MessageOf(k, n)
           /\ handleStreamError(msg) \in MessageOf(k, n)
           /\ handleStreamReconnect(msg) \in MessageOf(k, n)
           /\ finalizeStopped(msg) \in MessageOf(k, n)
<1>0. Status = {"none", "loading", "streaming", "complete", "error"}
  BY DEF Status
<1>1. {PageText} \subseteq 0..n /\ msg.content \subseteq 0..n
  BY MessageTypes DEF PageText
<1>2. ASSUME NEW conn \in 1..n
      PROVE  handleStreamUpdate(msg, kind, conn) \in MessageOf(k, n)
  <2> DEFINE content == (IF msg.reconnecting THEN {} ELSE msg.content)
                        \cup (IF kind = "content" THEN {conn} ELSE {})
  <2>1. content \subseteq 0..n
    BY <1>1
  <2>2. handleStreamUpdate(msg, kind, conn) =
           IF msg.status = "error" THEN msg
           ELSE Changed(msg, content, "streaming", FALSE)
    BY DEF handleStreamUpdate, Changed
  <2> HIDE DEF content
  <2>3. "streaming" \in Status
    BY <1>0
  <2>4. Changed(msg, content, "streaming", FALSE) \in MessageOf(k, n)
    BY <2>1, <2>3, Flags, MessageChanged
  <2> QED BY <2>2, <2>4, Zenon
<1>3. handleStreamComplete(msg) \in MessageOf(k, n)
  BY <1>0, StatusChanged DEF handleStreamComplete
<1>4. handleStreamError(msg) \in MessageOf(k, n)
  <2>1. "error" \in Status
    BY <1>0
  <2> QED BY <1>1, <2>1, Flags, MessageChanged DEF handleStreamError, Changed
<1>5. handleStreamReconnect(msg) \in MessageOf(k, n)
  <2>1. "loading" \in Status
    BY <1>0
  <2> QED BY <1>1, <2>1, Flags, MessageChanged DEF handleStreamReconnect, Changed
<1>6. finalizeStopped(msg) \in MessageOf(k, n)
  BY <1>0, StatusChanged DEF finalizeStopped
<1> QED BY <1>2, <1>3, <1>4, <1>5, <1>6

-----------------------------------------------------------------------------
(* Conversations and what is stored                                        *)

\* The parts of a conversation.
LEMMA ConversationTypes ==
    ASSUME NEW k, NEW n, NEW cs, Shelf(cs, k, n), NEW i \in DOMAIN cs
    PROVE  /\ cs[i] \in ConversationOf(k, n)
           /\ cs[i].messages \in Seq(MessageOf(k, n)) /\ cs[i].id \in ConversationIds
           /\ cs[i].mode \in Modes
           /\ cs[i] = [id |-> cs[i].id, mode |-> cs[i].mode, messages |-> cs[i].messages]
<1> DEFINE M == Seq(MessageOf(k, n))
<1>1. cs[i] \in ConversationOf(k, n)
  BY DEF Shelf
<1>2. cs[i] \in [id : ConversationIds, mode : Modes, messages : M]
  BY <1>1 DEF ConversationOf
<1> HIDE DEF M
<1>3. /\ cs[i].messages \in M /\ cs[i].id \in ConversationIds /\ cs[i].mode \in Modes
      /\ cs[i] = [id |-> cs[i].id, mode |-> cs[i].mode, messages |-> cs[i].messages]
  BY <1>2
<1> QED BY <1>1, <1>3 DEF M

\* What the page shows is the one active conversation.
LEMMA ActiveLemma ==
    ASSUME NEW k, NEW n, Shelf(conversations, k, n), active \in Ids(conversations)
    PROVE  \E a \in DOMAIN conversations :
              /\ conversations[a].id = active
              /\ Messages = conversations[a].messages
              /\ Mode = conversations[a].mode
              /\ Messages \in Seq(MessageOf(k, n))
              /\ \A i \in DOMAIN conversations : conversations[i].id = active => i = a
<1>1. PICK a \in DOMAIN conversations : conversations[a].id = active
  BY DEF Ids
<1>2. \A i \in DOMAIN conversations : conversations[i].id = active => i = a
  BY <1>1 DEF Shelf
<1>3. ActiveConversation = conversations[a]
  BY <1>1, <1>2 DEF ActiveConversation, ById
<1>4. conversations[a].messages \in Seq(MessageOf(k, n))
  BY ConversationTypes
<1> QED BY <1>1, <1>2, <1>3, <1>4 DEF Messages, Mode

\* The conversations with the messages of one replaced.
Updated(cs, id, ms) ==
    [i \in DOMAIN cs |-> IF cs[i].id = id THEN [cs[i] EXCEPT !.messages = ms] ELSE cs[i]]

\* Only the messages of the conversation change.
LEMMA UpdatedLemma ==
    ASSUME NEW k, NEW n, NEW cs, Shelf(cs, k, n), NEW id, NEW ms \in Seq(MessageOf(k, n))
    PROVE  /\ Shelf(Updated(cs, id, ms), k, n)
           /\ DOMAIN Updated(cs, id, ms) = DOMAIN cs
           /\ \A i \in DOMAIN cs :
                 /\ Updated(cs, id, ms)[i].id = cs[i].id
                 /\ Updated(cs, id, ms)[i].mode = cs[i].mode
                 /\ Updated(cs, id, ms)[i].messages = IF cs[i].id = id THEN ms
                                                      ELSE cs[i].messages
<1> DEFINE us == Updated(cs, id, ms)
           M == Seq(MessageOf(k, n))
<1>1. DOMAIN us = DOMAIN cs /\ us = [i \in DOMAIN cs |-> us[i]]
  BY DEF Updated
<1>2. ASSUME NEW i \in DOMAIN cs
      PROVE  /\ us[i].id = cs[i].id /\ us[i].mode = cs[i].mode
             /\ us[i].messages = IF cs[i].id = id THEN ms ELSE cs[i].messages
             /\ us[i] \in ConversationOf(k, n)
  <2>1. /\ cs[i] \in ConversationOf(k, n)
        /\ cs[i].messages \in M /\ cs[i].id \in ConversationIds /\ cs[i].mode \in Modes
        /\ cs[i] = [id |-> cs[i].id, mode |-> cs[i].mode, messages |-> cs[i].messages]
    BY ConversationTypes
  <2>2. us[i] = IF cs[i].id = id THEN [cs[i] EXCEPT !.messages = ms] ELSE cs[i]
    BY DEF Updated
  <2>3. ms \in M
    OBVIOUS
  <2>4. ConversationOf(k, n) = [id : ConversationIds, mode : Modes, messages : M]
    BY DEF ConversationOf
  <2> HIDE DEF us, M
  <2>5. CASE cs[i].id = id
    <3>1. us[i] = [id |-> cs[i].id, mode |-> cs[i].mode, messages |-> ms]
      BY <2>1, <2>2, <2>5
    <3> QED BY <2>1, <2>3, <2>4, <2>5, <3>1
  <2>6. CASE cs[i].id # id
    BY <2>1, <2>2, <2>6
  <2> QED BY <2>5, <2>6
<1> HIDE DEF us
<1>3. cs \in Seq(ConversationOf(k, n))
  BY DEF Shelf
<1>4. us \in Seq(ConversationOf(k, n))
  BY <1>1, <1>2, <1>3, SameLength
<1>5. \A i, j \in DOMAIN us : us[i].id = us[j].id => i = j
  BY <1>1, <1>2 DEF Shelf
<1> QED BY <1>1, <1>2, <1>4, <1>5 DEF Shelf, us

\* Which conversations there are, and of which modes, decides what is remembered.
LEMMA SameIds ==
    ASSUME NEW cs, NEW us, DOMAIN us = DOMAIN cs,
           \A i \in DOMAIN cs : us[i].id = cs[i].id /\ us[i].mode = cs[i].mode
    PROVE  Ids(us) = Ids(cs) /\ \A mode : IdsOf(us, mode) = IdsOf(cs, mode)
BY DEF Ids, IdsOf

\* saveConversations, whichever of its writes succeed.
LEMMA SavedLemma ==
    ASSUME NEW k, NEW n, StoredShape(stored, k, n), lostSaves \in 0..MaxLostSaves,
           NEW cs, Shelf(cs, k, n), NEW id \in ConversationIds, NEW ids \in Remembered,
           saveConversations(cs, id, ids)
    PROVE  /\ StoredShape(stored', k, n)
           /\ lostSaves' \in 0..MaxLostSaves
           /\ stored'.conversations \in {cs, stored.conversations}
<1>0. MaxLostSaves \in Nat
  BY StateAssumption
<1>1. lostSaves' \in 0..MaxLostSaves
  BY <1>0 DEF saveConversations
<1>2. PICK cs2 \in {cs, stored.conversations}, id2 \in {id, stored.active},
           ids2 \in {ids, stored.activeIds, [stored.activeIds EXCEPT !["chat"] = ids["chat"]]} :
         stored' = [conversations |-> cs2, active |-> id2, activeIds |-> ids2]
  <2>0. stored = [conversations |-> stored.conversations, active |-> stored.active,
                  activeIds |-> stored.activeIds]
    BY DEF StoredShape
  <2>1. \/ stored' = [conversations |-> cs, active |-> id, activeIds |-> ids]
        \/ stored' = stored
        \/ stored' = [stored EXCEPT !.conversations = cs]
        \/ stored' = [stored EXCEPT !.conversations = cs, !.active = id]
        \/ stored' = [stored EXCEPT !.conversations = cs, !.active = id,
                                    !.activeIds = [@ EXCEPT !["chat"] = ids["chat"]]]
    BY DEF saveConversations
  <2> DEFINE a == [stored EXCEPT !.conversations = cs]
             b == [a EXCEPT !.active = id]
             c == [b EXCEPT !.activeIds = [@ EXCEPT !["chat"] = ids["chat"]]]
  <2>2. a = [conversations |-> cs, active |-> stored.active,
             activeIds |-> stored.activeIds]
    BY <2>0
  <2>3. b = [conversations |-> cs, active |-> id, activeIds |-> stored.activeIds]
    <3> HIDE DEF a
    <3> QED BY <2>2
  <2>4. c = [conversations |-> cs, active |-> id,
             activeIds |-> [stored.activeIds EXCEPT !["chat"] = ids["chat"]]]
    <3> HIDE DEF b
    <3> QED BY <2>3
  <2>5. \/ stored' = [conversations |-> cs, active |-> id, activeIds |-> ids]
        \/ stored' = stored \/ stored' = a \/ stored' = b \/ stored' = c
    BY <2>1
  <2> HIDE DEF a, b, c
  <2> QED BY <2>0, <2>5, <2>2, <2>3, <2>4
<1>3. ids2 \in Remembered
  BY DEF StoredShape, Remembered, Modes
<1>4. /\ stored'.conversations = cs2 /\ stored'.active = id2 /\ stored'.activeIds = ids2
  BY <1>2
<1>5. Shelf(cs2, k, n) /\ id2 \in ConversationIds \cup {None}
  BY DEF StoredShape
<1> QED BY <1>1, <1>2, <1>3, <1>4, <1>5 DEF StoredShape

\* Keys and connections are only added.
Grows ==
    /\ lastKey' \in Nat /\ opened' \in Nat
    /\ lastKey <= lastKey' /\ opened <= opened'

\* persistConversationState keeps page and storage well formed.
LEMMA PersistKeeps ==
    ASSUME NEW k, NEW n, lastKey' = k, opened' = n,
           StoredShape(stored, k, n), lostSaves \in 0..MaxLostSaves,
           NEW cs, NEW id, NEW ids, PageShape(cs, id, ids, k, n),
           persistConversationState(cs, id, ids)
    PROVE  /\ PageInv' /\ StoredInv' /\ lostSaves' \in 0..MaxLostSaves
           /\ stored'.conversations \in {cs, stored.conversations}
<1>1. id \in ConversationIds
  BY ConversationTypes DEF PageShape, Remembers, Ids
<1>2. /\ StoredShape(stored', k, n) /\ lostSaves' \in 0..MaxLostSaves
      /\ stored'.conversations \in {cs, stored.conversations}
  BY <1>1, SavedLemma DEF PageShape, persistConversationState
<1>3. PageShape(conversations', active', activeIds', k, n)
  BY DEF persistConversationState
<1> QED BY <1>2, <1>3 DEF PageInv, StoredInv

\* What was there before stays well formed with more keys and connections.
LEMMA StateGrows ==
    ASSUME PageInv, StoredInv, CountInv, Grows
    PROVE  /\ PageShape(conversations, active, activeIds, lastKey', opened')
           /\ StoredShape(stored, lastKey', opened')
<1>1. lastKey \in Nat /\ opened \in Nat
  BY DEF CountInv
<1>2. Shelf(conversations, lastKey', opened')
  BY <1>1, ShelfGrows DEF PageInv, PageShape, Grows
<1>3. Shelf(stored.conversations, lastKey', opened')
  BY <1>1, ShelfGrows DEF StoredInv, StoredShape, Grows
<1> QED BY <1>2, <1>3 DEF PageInv, PageShape, StoredInv, StoredShape

\* updateMessages: the active conversation has the messages.
LEMMA UpdateLemma ==
    ASSUME PageInv, StoredInv, CountInv, Grows,
           NEW ms \in Seq(MessageOf(lastKey', opened')), updateMessages(ms)
    PROVE  /\ PageInv' /\ StoredInv' /\ lostSaves' \in 0..MaxLostSaves
           /\ active' = active /\ Messages' = ms /\ Mode' = Mode
           /\ stored'.conversations \in {conversations', stored.conversations}
           /\ DOMAIN conversations' = DOMAIN conversations
           /\ \A i \in DOMAIN conversations :
                 /\ conversations'[i].id = conversations[i].id
                 /\ conversations'[i].messages = IF conversations[i].id = active THEN ms
                                                 ELSE conversations[i].messages
<1> DEFINE us == Updated(conversations, active, ms)
<1>1. /\ PageShape(conversations, active, activeIds, lastKey', opened')
      /\ StoredShape(stored, lastKey', opened')
  BY StateGrows
<1>2. persistConversationState(us, active, activeIds)
  BY DEF updateMessages, Updated
<1>3. Shelf(conversations, lastKey', opened')
  BY <1>1 DEF PageShape
<1>4. /\ Shelf(us, lastKey', opened') /\ DOMAIN us = DOMAIN conversations
      /\ \A i \in DOMAIN conversations :
            /\ us[i].id = conversations[i].id /\ us[i].mode = conversations[i].mode
            /\ us[i].messages = IF conversations[i].id = active THEN ms
                                ELSE conversations[i].messages
  BY <1>3, UpdatedLemma
<1> HIDE DEF us
<1>5. Ids(us) = Ids(conversations) /\ \A mode : IdsOf(us, mode) = IdsOf(conversations, mode)
  BY <1>4, SameIds
<1>6. PageShape(us, active, activeIds, lastKey', opened')
  BY <1>1, <1>4, <1>5 DEF PageShape, Remembers
<1>7. lostSaves \in 0..MaxLostSaves
  BY DEF CountInv
<1>8. /\ PageInv' /\ StoredInv' /\ lostSaves' \in 0..MaxLostSaves
      /\ stored'.conversations \in {us, stored.conversations}
  <2> DEFINE k == lastKey'
             n == opened'
  <2>1. /\ lastKey' = k /\ opened' = n /\ StoredShape(stored, k, n)
        /\ PageShape(us, active, activeIds, k, n)
    BY <1>1, <1>6
  <2> HIDE DEF k, n
  <2> QED BY <1>2, <1>7, <2>1, PersistKeeps
<1>9. conversations' = us /\ active' = active /\ activeIds' = activeIds
  BY <1>2 DEF persistConversationState
<1>10. PICK a \in DOMAIN conversations :
          /\ conversations[a].id = active /\ Mode = conversations[a].mode
          /\ \A i \in DOMAIN conversations : conversations[i].id = active => i = a
  BY <1>1, <1>3, ActiveLemma DEF PageShape, Remembers
<1>11. Messages' = ms /\ Mode' = Mode
  <2>1. ActiveConversation' = us[a]
    BY <1>1, <1>4, <1>5, <1>9, <1>10 DEF ActiveConversation, ById, PageShape, Remembers
  <2> QED BY <1>4, <1>10, <2>1 DEF Messages, Mode
<1> QED BY <1>4, <1>8, <1>9, <1>11

\* A step that leaves the conversations alone.
LEMMA KeptLemma ==
    ASSUME PageInv, StoredInv, CountInv, Grows, UNCHANGED conversationVars
    PROVE  PageInv' /\ StoredInv' /\ lostSaves' \in 0..MaxLostSaves /\ Messages' = Messages
           /\ active' = active /\ conversations' = conversations /\ stored' = stored
<1>1. /\ PageShape(conversations, active, activeIds, lastKey', opened')
      /\ StoredShape(stored, lastKey', opened')
  BY StateGrows
<1>2. /\ conversations' = conversations /\ active' = active /\ activeIds' = activeIds
      /\ stored' = stored /\ lostSaves' = lostSaves
  BY DEF conversationVars
<1>3. Messages' = Messages
  BY <1>2 DEF Messages, ActiveConversation, ById, Ids
<1> QED BY <1>1, <1>2, <1>3 DEF PageInv, StoredInv, CountInv

\* The first conversation of a mode is one of the mode.
LEMMA FirstLemma ==
    ASSUME NEW k, NEW n, NEW cs, Shelf(cs, k, n), NEW mode
    PROVE  IF IdsOf(cs, mode) = {} THEN FirstOf(cs, mode) = None
           ELSE FirstOf(cs, mode) \in IdsOf(cs, mode)
<1> DEFINE same == {i \in DOMAIN cs : cs[i].mode = mode}
<1>1. DOMAIN cs \subseteq Nat
  BY DEF Shelf
<1>2. IdsOf(cs, mode) = {cs[i].id : i \in same}
  BY DEF IdsOf
<1>3. FirstOf(cs, mode) = IF same = {} THEN None ELSE cs[Min(same)].id
  BY DEF FirstOf
<1>4. ASSUME same # {} PROVE Min(same) \in same
  <2>1. PICK x \in same : \A y \in same : x <= y
    BY <1>1, <1>4, NatMinimum
  <2> HIDE DEF same
  <2> QED BY <2>1 DEF Min
<1> HIDE DEF same
<1> QED BY <1>2, <1>3, <1>4

LEMMA NoneLemma == None \notin ConversationIds
BY DEF None, ConversationIds

\* The ids of conversations.
LEMMA IdTypes ==
    ASSUME NEW k, NEW n, NEW cs, Shelf(cs, k, n)
    PROVE  /\ Ids(cs) \subseteq ConversationIds
           /\ \A mode : IdsOf(cs, mode) \subseteq Ids(cs)
           /\ \A i \in DOMAIN cs : cs[i].id \in IdsOf(cs, cs[i].mode) /\ cs[i].id \in Ids(cs)
BY ConversationTypes DEF Ids, IdsOf

\* The operations of the sidebar make no messages.
Shuffled ==
    /\ \A i \in DOMAIN conversations' :
          \/ conversations'[i].messages = << >>
          \/ \E j \in DOMAIN conversations :
                conversations'[i].messages = conversations[j].messages
    /\ stored'.conversations \in {conversations', stored.conversations}

\* The same, with the keys and connections there were.
LEMMA PersistLemma ==
    ASSUME PageInv, StoredInv, CountInv, UNCHANGED << lastKey, opened >>,
           NEW cs, NEW id, NEW ids, PageShape(cs, id, ids, lastKey, opened),
           persistConversationState(cs, id, ids)
    PROVE  /\ PageInv' /\ StoredInv' /\ lostSaves' \in 0..MaxLostSaves
           /\ conversations' = cs /\ stored'.conversations \in {cs, stored.conversations}
<1>1. StoredShape(stored, lastKey, opened) /\ lostSaves \in 0..MaxLostSaves
  BY DEF StoredInv, CountInv
<1>2. lastKey' = lastKey /\ opened' = opened
  OBVIOUS
<1>3. conversations' = cs
  BY DEF persistConversationState
<1> QED BY <1>1, <1>2, <1>3, PersistKeeps

\* createNewConversation
LEMMA CreateKeeps ==
    ASSUME PageInv, StoredInv, CountInv, UNCHANGED << lastKey, opened >>,
           NEW mode \in Modes, createNewConversation(mode)
    PROVE  PageInv' /\ StoredInv' /\ lostSaves' \in 0..MaxLostSaves /\ Shuffled
<1> DEFINE c == createConversation(FreshId, mode)
           cs == << c >> \o conversations
           ids == [activeIds EXCEPT ![mode] = FreshId]
           C == ConversationOf(lastKey, opened)
<1>1. FreshId \in ConversationIds /\ FreshId \notin Ids(conversations)
  BY DEF createNewConversation, FreshId, FreshIds
<1>2. persistConversationState(cs, FreshId, ids)
  BY DEF createNewConversation
<1>3. c \in C /\ c.id = FreshId /\ c.mode = mode /\ c.messages = << >>
  <2> DEFINE M == Seq(MessageOf(lastKey, opened))
  <2>1. << >> \in M
    BY EmptySeq
  <2> HIDE DEF M
  <2>2. c \in [id : ConversationIds, mode : Modes, messages : M]
    BY <1>1, <2>1 DEF createConversation
  <2> QED BY <2>2 DEF M, ConversationOf, createConversation
<1>4. conversations \in Seq(C)
      /\ \A i, j \in DOMAIN conversations : conversations[i].id = conversations[j].id => i = j
  BY DEF PageInv, PageShape, Shelf
<1> HIDE DEF c, C
<1>5. /\ cs \in Seq(C) /\ DOMAIN cs = 1..(Len(conversations) + 1)
      /\ cs[1] = c /\ \A i \in DOMAIN conversations : cs[i + 1] = conversations[i]
      /\ \A i \in DOMAIN cs : i # 1 => i - 1 \in DOMAIN conversations
                                        /\ cs[i] = conversations[i - 1]
      /\ DOMAIN conversations = 1..Len(conversations) /\ Len(conversations) \in Nat
  BY <1>3, <1>4
<1> HIDE DEF cs
<1>6. ASSUME NEW i \in DOMAIN cs, NEW j \in DOMAIN cs, cs[i].id = cs[j].id
      PROVE  i = j
  <2>0. \A x \in DOMAIN conversations : conversations[x].id # FreshId
    BY <1>1 DEF Ids
  <2>1. i = 1 <=> j = 1
    BY <1>3, <1>5, <1>6, <2>0
  <2>2. CASE i # 1 /\ j # 1
    <3>1. i - 1 = j - 1
      BY <1>4, <1>5, <1>6, <2>2
    <3> QED BY <1>5, <3>1
  <2> QED BY <2>1, <2>2
<1>7. Shelf(cs, lastKey, opened)
  BY <1>5, <1>6 DEF Shelf, C
<1>8. Ids(cs) = Ids(conversations) \cup {FreshId}
  <2>1. 1 \in DOMAIN cs /\ \A i \in DOMAIN conversations : i + 1 \in DOMAIN cs
    BY <1>5
  <2> QED BY <1>3, <1>5, <2>1 DEF Ids
<1>9. \A m : IdsOf(cs, m) = IdsOf(conversations, m) \cup (IF m = mode THEN {FreshId} ELSE {})
  <2>1. 1 \in DOMAIN cs /\ \A i \in DOMAIN conversations : i + 1 \in DOMAIN cs
    BY <1>5
  <2> QED BY <1>3, <1>5, <2>1 DEF IdsOf
<1>10. ids \in Remembered /\ ids[mode] = FreshId
       /\ \A m \in Modes : m # mode => ids[m] = activeIds[m]
  BY <1>1 DEF PageInv, PageShape, Remembered
<1> HIDE DEF ids
<1>11. Remembers(cs, FreshId, ids)
  BY <1>8, <1>9, <1>10 DEF Remembers, PageInv, PageShape
<1>12. /\ PageInv' /\ StoredInv' /\ lostSaves' \in 0..MaxLostSaves
       /\ conversations' = cs /\ stored'.conversations \in {cs, stored.conversations}
  BY <1>2, <1>7, <1>10, <1>11, PersistLemma DEF PageShape
<1>13. Shuffled
  BY <1>3, <1>5, <1>12 DEF Shuffled
<1> QED BY <1>12, <1>13

\* One of the conversations is shown and remembered for its mode.
LEMMA ShowKeeps ==
    ASSUME PageInv, StoredInv, CountInv, UNCHANGED << lastKey, opened >>,
           NEW mode \in Modes, NEW id \in IdsOf(conversations, mode),
           persistConversationState(conversations, id, [activeIds EXCEPT ![mode] = id])
    PROVE  PageInv' /\ StoredInv' /\ lostSaves' \in 0..MaxLostSaves /\ Shuffled
<1> DEFINE ids == [activeIds EXCEPT ![mode] = id]
<1>0. Shelf(conversations, lastKey, opened)
  BY DEF PageInv, PageShape
<1>1. id \in Ids(conversations) /\ id \in ConversationIds
  BY <1>0, IdTypes
<1>2. ids \in Remembered /\ ids[mode] = id
      /\ \A m \in Modes : m # mode => ids[m] = activeIds[m]
  BY <1>1 DEF PageInv, PageShape, Remembered
<1> HIDE DEF ids
<1>3. Remembers(conversations, id, ids)
  BY <1>1, <1>2 DEF Remembers, PageInv, PageShape
<1>4. PageShape(conversations, id, ids, lastKey, opened)
  BY <1>0, <1>2, <1>3 DEF PageShape
<1>5. /\ PageInv' /\ StoredInv' /\ lostSaves' \in 0..MaxLostSaves
      /\ conversations' = conversations
      /\ stored'.conversations \in {conversations, stored.conversations}
  BY <1>4, PersistLemma DEF ids
<1> QED BY <1>5 DEF Shuffled

\* A list without its c-th entry.
LEMMA RemoveLemma ==
    ASSUME NEW S, NEW s \in Seq(S), NEW c \in DOMAIN s
    PROVE  /\ RemoveAt(s, c) \in Seq(S) /\ Len(RemoveAt(s, c)) = Len(s) - 1
           /\ \A i \in DOMAIN RemoveAt(s, c) :
                 /\ i \in Nat /\ (IF i < c THEN i ELSE i + 1) \in DOMAIN s
                 /\ (IF i < c THEN i ELSE i + 1) # c
                 /\ RemoveAt(s, c)[i] = s[IF i < c THEN i ELSE i + 1]
<1> DEFINE l == SubSeq(s, 1, c - 1)
           r == SubSeq(s, c + 1, Len(s))
<1>1. Len(s) \in Nat /\ c \in 1 .. Len(s) /\ DOMAIN s = 1 .. Len(s)
  OBVIOUS
<1>2. /\ l \in Seq(S) /\ Len(l) = c - 1 /\ \A i \in 1 .. (c - 1) : l[i] = s[i]
  BY <1>1
<1>3. /\ r \in Seq(S) /\ Len(r) = Len(s) - c /\ \A i \in 1 .. (Len(s) - c) : r[i] = s[c + i]
  BY <1>1
<1>4. RemoveAt(s, c) = l \o r
  BY DEF RemoveAt
<1> HIDE DEF l, r
<1>5. /\ l \o r \in Seq(S) /\ Len(l \o r) = Len(l) + Len(r)
      /\ \A i \in 1 .. Len(l) + Len(r) :
            (l \o r)[i] = IF i <= Len(l) THEN l[i] ELSE r[i - Len(l)]
  BY <1>2, <1>3, ConcatProperties
<1>6. Len(l) + Len(r) = Len(s) - 1
  BY <1>1, <1>2, <1>3
<1>7. Len(l \o r) = Len(s) - 1 /\ DOMAIN (l \o r) = 1 .. (Len(s) - 1)
  BY <1>5, <1>6
<1>8. ASSUME NEW i \in 1 .. (Len(s) - 1)
      PROVE  /\ i \in Nat /\ (IF i < c THEN i ELSE i + 1) \in DOMAIN s
             /\ (IF i < c THEN i ELSE i + 1) # c
             /\ (l \o r)[i] = s[IF i < c THEN i ELSE i + 1]
  <2>0. (l \o r)[i] = IF i <= c - 1 THEN l[i] ELSE r[i - (c - 1)]
    BY <1>2, <1>5, <1>6
  <2>1. CASE i < c
    <3>1. i \in 1 .. (c - 1) /\ i <= c - 1 /\ i \in 1 .. Len(s) /\ i # c /\ i \in Nat
      BY <1>1, <2>1
    <3>2. (l \o r)[i] = s[i]
      BY <1>2, <2>0, <3>1
    <3> QED BY <1>1, <2>1, <3>1, <3>2
  <2>2. CASE ~(i < c)
    <3>1. /\ i - (c - 1) \in 1 .. (Len(s) - c) /\ c + (i - (c - 1)) = i + 1 /\ ~(i <= c - 1)
          /\ i + 1 \in 1 .. Len(s) /\ i + 1 # c /\ i \in Nat
      BY <1>1, <2>2
    <3>2. r[i - (c - 1)] = s[i + 1]
      BY <1>3, <3>1
    <3>3. (l \o r)[i] = s[i + 1]
      BY <2>0, <3>1, <3>2
    <3> QED BY <1>1, <2>2, <3>1, <3>3
  <2> QED BY <2>1, <2>2
<1> QED BY <1>4, <1>5, <1>7, <1>8

\* ... and it has every other entry.
LEMMA RemoveOthers ==
    ASSUME NEW S, NEW s \in Seq(S), NEW c \in DOMAIN s, NEW j \in DOMAIN s, j # c
    PROVE  \E i \in DOMAIN RemoveAt(s, c) : RemoveAt(s, c)[i] = s[j]
<1> DEFINE t == RemoveAt(s, c)
           i == IF j < c THEN j ELSE j - 1
<1>1. /\ t \in Seq(S) /\ Len(t) = Len(s) - 1
      /\ \A x \in DOMAIN t : t[x] = s[IF x < c THEN x ELSE x + 1]
  BY RemoveLemma
<1>2. Len(s) \in Nat /\ c \in 1 .. Len(s) /\ j \in 1 .. Len(s)
  OBVIOUS
<1> HIDE DEF t
<1>3. DOMAIN t = 1..(Len(s) - 1)
  BY <1>1
<1>4. i \in 1..(Len(s) - 1) /\ j = IF i < c THEN i ELSE i + 1
  BY <1>2
<1> HIDE DEF i
<1>5. t[i] = s[j]
  BY <1>1, <1>3, <1>4
<1> QED BY <1>3, <1>4, <1>5 DEF t

\* deleteConversation: another conversation is shown, and remembered.
LEMMA DeleteKeeps ==
    ASSUME PageInv, StoredInv, CountInv, UNCHANGED << lastKey, opened >>,
           NEW id, deleteConversation(id)
    PROVE  PageInv' /\ StoredInv' /\ lostSaves' \in 0..MaxLostSaves /\ Shuffled
<1> DEFINE at == CHOOSE i \in DOMAIN conversations : conversations[i].id = id
           cs == RemoveAt(conversations, at)
           mode == ById(conversations, id).mode
           next == FirstOf(cs, mode)
           now == IF active # id THEN active ELSE IF next # None THEN next ELSE cs[1].id
           ids == IF activeIds[mode] = id THEN [activeIds EXCEPT ![mode] = next]
                  ELSE activeIds
           C == ConversationOf(lastKey, opened)
<1>1. id \in Ids(conversations) /\ cs # << >> /\ persistConversationState(cs, now, ids)
  BY DEF deleteConversation
<1>2. conversations \in Seq(C) /\ Shelf(conversations, lastKey, opened)
      /\ \A i, j \in DOMAIN conversations : conversations[i].id = conversations[j].id => i = j
  BY DEF PageInv, PageShape, Shelf
<1>3. at \in DOMAIN conversations /\ conversations[at].id = id
      /\ \A i \in DOMAIN conversations : conversations[i].id = id => i = at
  <2>1. \E i \in DOMAIN conversations : conversations[i].id = id
    BY <1>1 DEF Ids
  <2>2. at \in DOMAIN conversations /\ conversations[at].id = id
    BY <2>1
  <2> HIDE DEF at
  <2> QED BY <1>2, <2>2
<1>4. mode = conversations[at].mode /\ mode \in Modes
  <2>1. ById(conversations, id) = conversations[at]
    BY DEF ById
  <2> HIDE DEF at
  <2> QED BY <1>2, <1>3, <2>1, ConversationTypes
<1> HIDE DEF at, C, mode
<1>5. /\ cs \in Seq(C)
      /\ \A i \in DOMAIN cs :
            /\ i \in Nat /\ (IF i < at THEN i ELSE i + 1) \in DOMAIN conversations
            /\ (IF i < at THEN i ELSE i + 1) # at
            /\ cs[i] = conversations[IF i < at THEN i ELSE i + 1]
      /\ \A j \in DOMAIN conversations : j # at => \E i \in DOMAIN cs : cs[i] = conversations[j]
  BY <1>2, <1>3, RemoveLemma, RemoveOthers
<1> HIDE DEF cs
<1>6. ASSUME NEW i \in DOMAIN cs, NEW j \in DOMAIN cs, cs[i].id = cs[j].id
      PROVE  i = j
  <2> DEFINE p == IF i < at THEN i ELSE i + 1
             q == IF j < at THEN j ELSE j + 1
  <2>1. /\ i \in Nat /\ p \in DOMAIN conversations /\ cs[i] = conversations[p]
        /\ j \in Nat /\ q \in DOMAIN conversations /\ cs[j] = conversations[q]
    BY <1>5
  <2>2. p = q
    <3> HIDE DEF p, q
    <3> QED BY <1>2, <1>6, <2>1
  <2>3. at \in Nat
    BY <1>2, <1>3
  <2> QED BY <2>1, <2>2, <2>3
<1>7. Shelf(cs, lastKey, opened)
  BY <1>5, <1>6 DEF Shelf, C
<1>8. \A i \in DOMAIN cs : \E j \in DOMAIN conversations : j # at /\ cs[i] = conversations[j]
  BY <1>5
<1>9. Ids(cs) = Ids(conversations) \ {id}
  BY <1>3, <1>5, <1>8 DEF Ids
<1>10. \A m : IdsOf(cs, m) = IdsOf(conversations, m) \ {id}
  BY <1>3, <1>5, <1>8 DEF IdsOf
<1>11. \A m : m # mode => id \notin IdsOf(conversations, m)
  BY <1>3, <1>4 DEF IdsOf
<1>12. IF IdsOf(cs, mode) = {} THEN next = None ELSE next \in IdsOf(cs, mode)
  BY <1>7, FirstLemma
<1> HIDE DEF next
<1>13. /\ Ids(cs) \subseteq ConversationIds /\ IdsOf(cs, mode) \subseteq Ids(cs)
       /\ None \notin ConversationIds
  BY <1>7, IdTypes, NoneLemma
<1>14. next \in ConversationIds \cup {None}
  BY <1>12, <1>13
<1>15. now \in Ids(cs)
  <2>1. CASE active # id
    BY <1>9, <2>1 DEF PageInv, PageShape, Remembers
  <2>2. CASE active = id /\ next # None
    BY <1>12, <1>13, <2>2
  <2>3. CASE active = id /\ next = None
    <3>1. 1 \in DOMAIN cs
      BY <1>1, <1>5
    <3>2. cs[1].id \in Ids(cs)
      BY <3>1 DEF Ids
    <3> QED BY <2>3, <3>2
  <2> QED BY <2>1, <2>2, <2>3
<1>16. /\ ids \in Remembered
       /\ \A m \in Modes : m # mode => ids[m] = activeIds[m]
       /\ ids[mode] = IF activeIds[mode] = id THEN next ELSE activeIds[mode]
  BY <1>4, <1>14 DEF PageInv, PageShape, Remembered
<1> HIDE DEF ids, now
<1>17. \A m \in Modes : IF IdsOf(conversations, m) = {} THEN activeIds[m] = None
                        ELSE activeIds[m] \in IdsOf(conversations, m)
  BY DEF PageInv, PageShape, Remembers
<1>18. ASSUME NEW m \in Modes
       PROVE  IF IdsOf(cs, m) = {} THEN ids[m] = None ELSE ids[m] \in IdsOf(cs, m)
  <2>1. CASE m # mode
    BY <1>10, <1>11, <1>16, <1>17, <2>1
  <2>2. CASE m = mode /\ activeIds[mode] = id
    BY <1>12, <1>16, <2>2
  <2>3. CASE m = mode /\ activeIds[mode] # id
    <3>1. id \in IdsOf(conversations, mode)
      BY <1>3, <1>4 DEF IdsOf
    <3>2. activeIds[mode] \in IdsOf(cs, mode) /\ ids[mode] = activeIds[mode]
      BY <1>4, <1>10, <1>16, <1>17, <2>3, <3>1
    <3> QED BY <2>3, <3>2
  <2> QED BY <2>1, <2>2, <2>3
<1>19. PageShape(cs, now, ids, lastKey, opened)
  BY <1>7, <1>15, <1>16, <1>18 DEF PageShape, Remembers
<1>20. /\ PageInv' /\ StoredInv' /\ lostSaves' \in 0..MaxLostSaves
       /\ conversations' = cs /\ stored'.conversations \in {cs, stored.conversations}
  BY <1>1, <1>19, PersistLemma
<1>21. Shuffled
  BY <1>8, <1>20 DEF Shuffled
<1> QED BY <1>20, <1>21

\* switchMode
LEMMA SwitchModeKeeps ==
    ASSUME PageInv, StoredInv, CountInv, UNCHANGED << lastKey, opened >>,
           NEW mode \in Modes, switchMode(mode)
    PROVE  PageInv' /\ StoredInv' /\ lostSaves' \in 0..MaxLostSaves /\ Shuffled
<1> DEFINE existing == IF activeIds[mode] # None THEN {activeIds[mode]}
                       ELSE IdsOf(conversations, mode)
<1>1. \/ \E id \in existing : persistConversationState(conversations, id,
                                  [activeIds EXCEPT ![mode] = id])
      \/ createNewConversation(mode)
  BY DEF switchMode
<1>2. existing \subseteq IdsOf(conversations, mode)
  BY DEF PageInv, PageShape, Remembers
<1> HIDE DEF existing
<1> QED BY <1>1, <1>2, ShowKeeps, CreateKeeps

\* switchConversation
LEMMA SwitchKeeps ==
    ASSUME PageInv, StoredInv, CountInv, UNCHANGED << lastKey, opened >>,
           NEW id, switchConversation(id)
    PROVE  PageInv' /\ StoredInv' /\ lostSaves' \in 0..MaxLostSaves /\ Shuffled
<1> DEFINE mode == ById(conversations, id).mode
<1>0. Shelf(conversations, lastKey, opened)
  BY DEF PageInv, PageShape
<1>1. PICK a \in DOMAIN conversations : conversations[a].id = id
  BY DEF switchConversation, Ids
<1>2. ById(conversations, id) = conversations[a]
  BY <1>0, <1>1 DEF ById, Shelf
<1>3. mode \in Modes /\ id \in IdsOf(conversations, mode)
  BY <1>0, <1>1, <1>2, ConversationTypes, IdTypes
<1>4. persistConversationState(conversations, id, [activeIds EXCEPT ![mode] = id])
  BY DEF switchConversation
<1> HIDE DEF mode
<1> QED BY <1>3, <1>4, ShowKeeps

-----------------------------------------------------------------------------
(* The page is opened                                                      *)

\* sanitizeMessagesOnLoad: if only the last message was unsettled, none is.
LEMMA SanitizeLemma ==
    ASSUME NEW k, NEW n \in Nat, NEW ms \in Seq(MessageOf(k, n))
    PROVE  /\ sanitizeMessagesOnLoad(ms) \in Seq(MessageOf(k, n))
           /\ Neat(ms) => Calm(sanitizeMessagesOnLoad(ms)) /\ Neat(sanitizeMessagesOnLoad(ms))
<1> DEFINE new == sanitizeMessagesOnLoad(ms)
           stuck == {i \in DOMAIN ms : Unsettled(ms[i])}
<1>1. DOMAIN new = DOMAIN ms /\ new = [i \in DOMAIN ms |-> new[i]]
  BY DEF sanitizeMessagesOnLoad
<1>2. \A i \in DOMAIN ms : new[i] = IF i \in stuck /\ \A j \in stuck : j <= i
                                    THEN Sanitized(ms[i]) ELSE ms[i]
  BY DEF sanitizeMessagesOnLoad
<1>3. \A i \in DOMAIN ms : ms[i] \in MessageOf(k, n)
  OBVIOUS
<1>4. \A i \in DOMAIN ms :
         /\ Sanitized(ms[i]) \in MessageOf(k, n)
         /\ ~Unsettled(Sanitized(ms[i]))
         /\ Sanitized(ms[i]).content \in {ms[i].content, {PageText}}
  BY <1>3, SanitizedLemma
<1> HIDE DEF new
<1>5. \A i \in DOMAIN ms : new[i] \in MessageOf(k, n)
  BY <1>2, <1>3, <1>4
<1>6. new \in Seq(MessageOf(k, n)) /\ Len(new) = Len(ms)
  BY <1>1, <1>5, SameLength
<1>7. ASSUME Neat(ms) PROVE Calm(new) /\ Neat(new)
  <2>0. Len(ms) \in Nat
    OBVIOUS
  <2>1. \A i \in stuck : i = Len(ms)
    BY <1>7 DEF Neat
  <2>2. ASSUME NEW i \in DOMAIN ms
        PROVE  ~Unsettled(new[i]) /\ \E x : new[i].content \subseteq {x}
    <3>1. CASE i \in stuck
      <4>1. \A j \in stuck : j <= i
        BY <2>0, <2>1, <3>1
      <4>2. new[i] = Sanitized(ms[i])
        BY <1>2, <3>1, <4>1
      <4>3. PICK x : ms[i].content \subseteq {x}
        BY <1>7 DEF Neat
      <4> QED BY <1>4, <4>2, <4>3
    <3>2. CASE i \notin stuck
      <4>1. new[i] = ms[i]
        BY <1>2, <3>2
      <4> QED BY <1>7, <3>2, <4>1 DEF Neat
    <3> QED BY <3>1, <3>2
  <2> QED BY <1>1, <2>2 DEF Calm, Neat
<1> QED BY <1>6, <1>7 DEF new

\* The stored conversations as they are loaded.
LEMMA LoadedLemma ==
    ASSUME NEW k, NEW n \in Nat, StoredShape(stored, k, n)
    PROVE  LET cs == loadConversations.conversations
           IN  /\ Shelf(cs, k, n)
               /\ DOMAIN cs = DOMAIN stored.conversations
               /\ \A i \in DOMAIN cs :
                     /\ cs[i].id = stored.conversations[i].id
                     /\ cs[i].mode = stored.conversations[i].mode
                     /\ cs[i].messages = sanitizeMessagesOnLoad(stored.conversations[i].messages)
<1> DEFINE old == stored.conversations
           cs == loadConversations.conversations
           M == Seq(MessageOf(k, n))
<1>0. Shelf(old, k, n)
  BY DEF StoredShape
<1>1. cs = [i \in DOMAIN old |-> [old[i] EXCEPT !.messages = sanitizeMessagesOnLoad(@)]]
  BY DEF loadConversations
<1>2. DOMAIN cs = DOMAIN old /\ cs = [i \in DOMAIN old |-> cs[i]]
  BY <1>1
<1>3. ASSUME NEW i \in DOMAIN old
      PROVE  /\ cs[i].id = old[i].id /\ cs[i].mode = old[i].mode
             /\ cs[i].messages = sanitizeMessagesOnLoad(old[i].messages)
             /\ cs[i] \in ConversationOf(k, n)
  <2> DEFINE ms == sanitizeMessagesOnLoad(old[i].messages)
  <2>1. /\ old[i].messages \in M /\ old[i].id \in ConversationIds /\ old[i].mode \in Modes
        /\ old[i] = [id |-> old[i].id, mode |-> old[i].mode, messages |-> old[i].messages]
    BY <1>0, ConversationTypes
  <2>2. ms \in M
    BY <2>1, SanitizeLemma
  <2>3. cs[i] = [old[i] EXCEPT !.messages = ms]
    BY <1>1
  <2>4. ConversationOf(k, n) = [id : ConversationIds, mode : Modes, messages : M]
    BY DEF ConversationOf
  <2> HIDE DEF cs, M, ms, old
  <2>5. cs[i] = [id |-> old[i].id, mode |-> old[i].mode, messages |-> ms]
    BY <2>1, <2>3
  <2>6. cs[i].id = old[i].id /\ cs[i].mode = old[i].mode /\ cs[i].messages = ms
        /\ cs[i] \in ConversationOf(k, n)
    BY <2>1, <2>2, <2>4, <2>5
  <2> QED BY <2>6 DEF ms
<1> HIDE DEF cs
<1>4. old \in Seq(ConversationOf(k, n))
  BY <1>0 DEF Shelf
<1>5. cs \in Seq(ConversationOf(k, n))
  BY <1>2, <1>3, <1>4, SameLength
<1>6. \A i, j \in DOMAIN cs : cs[i].id = cs[j].id => i = j
  BY <1>0, <1>2, <1>3 DEF Shelf
<1> QED BY <1>2, <1>3, <1>5, <1>6 DEF Shelf, cs

\* The page without anything stored.
FirstPage == << createConversation(1, "chat") >>
FirstIds == [chat |-> 1, agent |-> None]

LEMMA FirstPageShape ==
    ASSUME NEW k, NEW n
    PROVE  /\ PageShape(FirstPage, 1, FirstIds, k, n)
           /\ \A i \in DOMAIN FirstPage : FirstPage[i].messages = << >>
<1> DEFINE c == createConversation(1, "chat")
<1>1. 1 \in ConversationIds
  BY StateAssumption DEF ConversationIds
<1>2. c \in ConversationOf(k, n) /\ c.id = 1 /\ c.mode = "chat" /\ c.messages = << >>
  <2> DEFINE M == Seq(MessageOf(k, n))
  <2>1. << >> \in M
    BY EmptySeq
  <2> HIDE DEF M
  <2>2. c \in [id : ConversationIds, mode : Modes, messages : M]
    BY <1>1, <2>1 DEF createConversation, Modes
  <2> QED BY <2>2 DEF M, ConversationOf, createConversation
<1> HIDE DEF c
<1>3. FirstPage \in Seq(ConversationOf(k, n)) /\ DOMAIN FirstPage = {1} /\ FirstPage[1] = c
  BY <1>2 DEF FirstPage, c
<1>4. FirstIds \in Remembered /\ FirstIds["chat"] = 1 /\ FirstIds["agent"] = None
  BY <1>1 DEF FirstIds, Remembered, Modes
<1>5. Shelf(FirstPage, k, n)
  BY <1>3 DEF Shelf
<1>6. Ids(FirstPage) = {1} /\ IdsOf(FirstPage, "chat") = {1} /\ IdsOf(FirstPage, "agent") = {}
  BY <1>2, <1>3 DEF Ids, IdsOf
<1>7. PageShape(FirstPage, 1, FirstIds, k, n)
  BY <1>4, <1>5, <1>6 DEF PageShape, Remembers, Modes
<1> QED BY <1>2, <1>3, <1>7

\* A page that is opened shows and remembers conversations it has, whatever was
\* saved.
LEMMA LoadKeeps ==
    ASSUME PageInv, StoredInv, CountInv, LoadState
    PROVE  /\ PageInv' /\ StoredInv' /\ CountInv'
           /\ stored' = stored
           /\ \A i \in DOMAIN conversations' :
                 \/ conversations'[i].messages = << >>
                 \/ \E j \in DOMAIN stored.conversations :
                       conversations'[i].messages =
                           sanitizeMessagesOnLoad(stored.conversations[j].messages)
<1>0. /\ opened \in Nat /\ lastKey \in Nat /\ UNCHANGED << stored, lostSaves, opened, lastKey >>
      /\ MaxReloads \in Nat /\ reloads' = reloads + 1 /\ reloads < MaxReloads
      /\ reloads \in 0..MaxReloads /\ lostSaves \in 0..MaxLostSaves
  BY StateAssumption DEF CountInv, LoadState
<1>1. CountInv' /\ StoredInv' /\ stored' = stored
  BY <1>0 DEF CountInv, StoredInv
<1>2. CASE /\ loadConversations.conversations # << >> /\ loadConversations.active # None
           /\ conversations' = loadConversations.conversations
           /\ active' = loadConversations.active
           /\ activeIds' = loadConversations.activeIds
  <2> DEFINE cs == loadConversations.conversations
             old == stored.conversations
             id == loadConversations.active
             ids == loadConversations.activeIds
  <2>1. /\ Shelf(cs, lastKey, opened) /\ DOMAIN cs = DOMAIN old
        /\ \A i \in DOMAIN cs : /\ cs[i].id = old[i].id /\ cs[i].mode = old[i].mode
                                /\ cs[i].messages = sanitizeMessagesOnLoad(old[i].messages)
    BY <1>0, LoadedLemma DEF StoredInv
  <2>2. Shelf(old, lastKey, opened)
    BY DEF StoredInv, StoredShape
  <2>3. id = IF stored.active \in Ids(old) THEN stored.active
             ELSE IF LoadedId("chat") # None THEN LoadedId("chat") ELSE LoadedId("agent")
    BY DEF loadConversations
  <2>4. ids = [mode \in Modes |-> LoadedId(mode)]
    BY DEF loadConversations
  <2>5. \A mode : IF IdsOf(old, mode) = {} THEN LoadedId(mode) = None
                  ELSE LoadedId(mode) \in IdsOf(old, mode)
    BY <2>2, FirstLemma DEF LoadedId
  <2>6. Ids(cs) = Ids(old) /\ \A mode : IdsOf(cs, mode) = IdsOf(old, mode)
    <3> HIDE DEF cs
    <3> QED BY <2>1, SameIds
  <2>7. /\ Ids(old) \subseteq ConversationIds
        /\ \A mode : IdsOf(old, mode) \subseteq Ids(old)
    BY <2>2, IdTypes
  <2>8. id # None
    BY <1>2
  <2> HIDE DEF cs, id, ids, old
  <2>9. id \in Ids(old)
    BY <2>3, <2>5, <2>7, <2>8
  <2>10. ids \in Remembered
    <3>1. \A mode : LoadedId(mode) \in ConversationIds \cup {None}
      BY <2>5, <2>7
    <3> QED BY <2>4, <3>1 DEF Remembered
  <2>11. PageShape(cs, id, ids, lastKey, opened)
    BY <2>1, <2>4, <2>5, <2>6, <2>9, <2>10 DEF PageShape, Remembers
  <2>12. conversations' = cs /\ active' = id /\ activeIds' = ids
    BY <1>2 DEF cs, id, ids
  <2>13. PageInv'
    BY <1>0, <2>11, <2>12 DEF PageInv
  <2>14. \A i \in DOMAIN conversations' : \E j \in DOMAIN old :
            conversations'[i].messages = sanitizeMessagesOnLoad(old[j].messages)
    BY <2>1, <2>12
  <2> QED BY <1>1, <2>13, <2>14 DEF old
<1>3. CASE /\ conversations' = << createConversation(1, "chat") >>
           /\ active' = 1 /\ activeIds' = [chat |-> 1, agent |-> None]
  <2>1. conversations' = FirstPage /\ active' = 1 /\ activeIds' = FirstIds
    BY <1>3 DEF FirstPage, FirstIds
  <2>2. PageShape(FirstPage, 1, FirstIds, lastKey', opened')
    BY FirstPageShape
  <2> QED BY <1>1, <2>1, <2>2, FirstPageShape DEF PageInv
<1> QED BY <1>2, <1>3 DEF LoadState

-----------------------------------------------------------------------------
(* Steps of the chat keep the state well formed                            *)

\* The messages the page shows.
LEMMA MessagesTyped ==
    ASSUME PageInv
    PROVE  Messages \in Seq(MessageOf(lastKey, opened))
BY ActiveLemma DEF PageInv, PageShape, Remembers

\* What a step does to the submissions that are being converted.
Queues ==
    \/ converting' = converting
    \/ converting' = << >>
    \/ \E i \in DOMAIN converting : converting' = RemoveAt(converting, i)
    \/ /\ ~isBusy /\ Len(converting) < MaxConversions
       /\ converting' = Append(converting, [messages |-> Messages, mode |-> Mode])

LEMMA ModeTyped ==
    ASSUME PageInv
    PROVE  Mode \in Modes
<1>1. PICK a \in DOMAIN conversations : Mode = conversations[a].mode
  BY ActiveLemma DEF PageInv, PageShape, Remembers
<1> QED BY <1>1, ConversationTypes DEF PageInv, PageShape

\* Each is one of those before, or has the messages of a page that is not busy.
LEMMA QueuedLemma ==
    ASSUME ShapeInv, Queues
    PROVE  /\ converting' \in Seq(FormOf(lastKey, opened)) /\ Len(converting') <= MaxConversions
           /\ \A i \in DOMAIN converting' :
                 \/ \E j \in DOMAIN converting : converting'[i] = converting[j]
                 \/ ~isBusy /\ converting'[i].messages = Messages
<1> DEFINE F == FormOf(lastKey, opened)
<1>0. /\ converting \in Seq(F) /\ Len(converting) <= MaxConversions /\ MaxConversions \in Nat
      /\ PageInv
  BY PlaygroundAssumption DEF ShapeInv, FormShape
<1>f. PICK form : form = [messages |-> Messages, mode |-> Mode]
  OBVIOUS
<1>g. form \in F /\ form.messages = Messages
  BY <1>0, <1>f, MessagesTyped, ModeTyped DEF FormOf
<1> HIDE DEF F
<1>1. CASE converting' = converting
  BY <1>0, <1>1 DEF F
<1>2. CASE converting' = << >>
  <2>1. converting' \in Seq(F) /\ DOMAIN converting' = {} /\ Len(converting') = 0
    BY <1>2
  <2> QED BY <1>0, <2>1 DEF F
<1>3. ASSUME NEW i \in DOMAIN converting, converting' = RemoveAt(converting, i)
      PROVE  /\ converting' \in Seq(F) /\ Len(converting') <= MaxConversions
             /\ \A j \in DOMAIN converting' :
                   \E l \in DOMAIN converting : converting'[j] = converting[l]
  <2>1. PICK new : new = RemoveAt(converting, i)
    OBVIOUS
  <2>2. /\ new \in Seq(F) /\ Len(new) = Len(converting) - 1
        /\ \A j \in DOMAIN new : \E l \in DOMAIN converting : new[j] = converting[l]
    <3>1. /\ RemoveAt(converting, i) \in Seq(F)
          /\ Len(RemoveAt(converting, i)) = Len(converting) - 1
          /\ \A j \in DOMAIN RemoveAt(converting, i) :
                /\ (IF j < i THEN j ELSE j + 1) \in DOMAIN converting
                /\ RemoveAt(converting, i)[j] = converting[IF j < i THEN j ELSE j + 1]
      BY <1>0, <1>3, RemoveLemma
    <3> QED BY <2>1, <3>1, Zenon
  <2>3. Len(converting) - 1 <= MaxConversions
    BY <1>0
  <2> QED BY <1>3, <2>1, <2>2, <2>3
<1>4. ASSUME ~isBusy, Len(converting) < MaxConversions, converting' = Append(converting, form)
      PROVE  /\ converting' \in Seq(F) /\ Len(converting') <= MaxConversions
             /\ \A j \in DOMAIN converting' :
                   \/ \E l \in DOMAIN converting : converting'[j] = converting[l]
                   \/ converting'[j].messages = Messages
  <2>1. PICK old : old = converting
    OBVIOUS
  <2>2. old \in Seq(F) /\ Len(old) < MaxConversions
    BY <1>0, <1>4, <2>1
  <2>3. /\ Append(old, form) \in Seq(F) /\ Len(Append(old, form)) = Len(old) + 1
        /\ \A j \in 1..Len(old) : Append(old, form)[j] = old[j]
        /\ Append(old, form)[Len(old) + 1] = form
    BY <1>g, <2>2, AppendProperties
  <2>4. /\ \A j \in DOMAIN Append(old, form) : j \in 1..Len(old) \/ j = Len(old) + 1
        /\ DOMAIN old = 1..Len(old) /\ Len(old) + 1 <= MaxConversions
    BY <1>0, <2>2, <2>3
  <2> QED BY <1>4, <1>g, <2>1, <2>3, <2>4
<1> QED BY <1>1, <1>2, <1>3, <1>4, <1>f DEF Queues, F

LEMMA FormsGrow ==
    ASSUME ShapeInv, Grows, Queues
    PROVE  FormShape'
<1>1. lastKey \in Nat /\ opened \in Nat
  BY DEF ShapeInv, CountInv
<1>2. Seq(MessageOf(lastKey, opened)) \subseteq Seq(MessageOf(lastKey', opened'))
  BY <1>1, MessageGrows, SeqMonotonic DEF Grows
<1>3. FormOf(lastKey, opened) \subseteq FormOf(lastKey', opened')
  BY <1>2 DEF FormOf
<1>4. Seq(FormOf(lastKey, opened)) \subseteq Seq(FormOf(lastKey', opened'))
  BY <1>3, SeqMonotonic
<1> QED BY <1>4, QueuedLemma DEF FormShape

\* updateLastAssistantMessage, on messages of any kind.
LEMMA LastTyped ==
    ASSUME NEW S, NEW ms \in Seq(S), NEW new, ms # << >> => new \in S
    PROVE  updateLastAssistantMessage(ms, new) \in Seq(S)
<1>1. CASE ms # << >> /\ Last(ms).from = "assistant"
  <2>1. Len(ms) \in 1..Len(ms)
    BY <1>1
  <2>2. [ms EXCEPT ![Len(ms)] = new] \in Seq(S)
    BY <1>1, <2>1, ExceptSeq
  <2> QED BY <1>1, <2>2 DEF updateLastAssistantMessage
<1>2. CASE ~(ms # << >> /\ Last(ms).from = "assistant")
  BY <1>2 DEF updateLastAssistantMessage
<1> QED BY <1>1, <1>2

LEMMA LastOfTyped ==
    ASSUME NEW S, NEW ms \in Seq(S), ms # << >>
    PROVE  Last(ms) \in S /\ Len(ms) \in DOMAIN ms /\ Len(ms) \in Nat \ {0}
BY DEF Last

\* Parts of the state a step leaves alone stay well formed.
LEMMA ChatGrows ==
    ASSUME CountInv, Grows, ChatShape, UNCHANGED chatVars
    PROVE  ChatShape'
<1>1. lastKey \in Nat /\ opened \in Nat
  BY DEF CountInv
<1>2. 0..opened \subseteq 0..opened' /\ 0..lastKey \subseteq 0..lastKey'
      /\ 1..opened \subseteq 1..opened' /\ 1..lastKey \subseteq 1..lastKey'
  BY <1>1 DEF Grows
<1> QED BY <1>2 DEF ChatShape, chatVars

LEMMA ControlGrows ==
    ASSUME CountInv, Grows,
           control \in [source : 0..opened, retryTimer : 0..lastKey, stopped : BOOLEAN]
    PROVE  control \in [source : 0..opened', retryTimer : 0..lastKey', stopped : BOOLEAN]
<1>1. lastKey \in Nat /\ opened \in Nat
  BY DEF CountInv
<1>2. 0..opened \subseteq 0..opened' /\ 0..lastKey \subseteq 0..lastKey'
  BY <1>1 DEF Grows
<1> QED BY <1>2

LEMMA RunsGrow ==
    ASSUME CountInv, Grows, AgentShape
    PROVE  runs \subseteq RunOf(lastKey', opened')
<1>1. lastKey \in Nat /\ opened \in Nat
  BY DEF CountInv
<1> QED BY <1>1, RunGrows DEF Grows, AgentShape

LEMMA AgentGrows ==
    ASSUME CountInv, Grows, AgentShape, UNCHANGED agentVars
    PROVE  AgentShape'
BY RunsGrow, ControlGrows DEF AgentShape, agentVars

LEMMA UserGrows ==
    ASSUME CountInv, Grows, UserShape, UNCHANGED userVars
    PROVE  UserShape'
<1>1. editingMessageKey \in 0..lastKey'
  BY DEF CountInv, Grows, UserShape
<1> QED BY <1>1 DEF UserShape, userVars

\* A step that starts or changes one run, and may end others.
LEMMA RunShape ==
    ASSUME CountInv, Grows, AgentShape, isAgentRunning' \in BOOLEAN,
           control' \in [source : 0..opened', retryTimer : 0..lastKey', stopped : BOOLEAN],
           NEW r \in RunOf(lastKey', opened'), runs' \subseteq runs \cup {r}
    PROVE  AgentShape'
BY RunsGrow DEF AgentShape

\* A step that starts and changes none.
LEMMA NoRunShape ==
    ASSUME CountInv, Grows, AgentShape, isAgentRunning' \in BOOLEAN,
           control' \in [source : 0..opened', retryTimer : 0..lastKey', stopped : BOOLEAN],
           runs' \subseteq runs
    PROVE  AgentShape'
BY RunsGrow DEF AgentShape

\* A callback of a stream.
LEMMA CallbackKeeps ==
    ASSUME PageInv, StoredInv, CountInv, UNCHANGED << lastKey, opened, reloads >>,
           NEW new, Messages # << >> => new \in MessageOf(lastKey, opened), updateLast(new)
    PROVE  PageInv' /\ StoredInv' /\ CountInv' /\ Grows
           /\ Messages' = updateLastAssistantMessage(Messages, new)
<1>1. Grows
  BY DEF Grows, CountInv
<1> DEFINE ms == updateLastAssistantMessage(Messages, new)
<1>2. ms \in Seq(MessageOf(lastKey, opened))
  BY MessagesTyped, LastTyped
<1>3. ms \in Seq(MessageOf(lastKey', opened')) /\ updateMessages(ms)
  BY <1>2 DEF updateLast
<1> HIDE DEF ms
<1>4. PageInv' /\ StoredInv' /\ lostSaves' \in 0..MaxLostSaves /\ Messages' = ms
  BY <1>1, <1>3, UpdateLemma
<1>5. CountInv'
  BY <1>4 DEF CountInv
<1> QED BY <1>1, <1>4, <1>5 DEF ms

\* The same step, when the conversations are left alone.
LEMMA StillKeeps ==
    ASSUME PageInv, StoredInv, CountInv, Grows, UNCHANGED << conversationVars, reloads >>
    PROVE  PageInv' /\ StoredInv' /\ CountInv'
BY KeptLemma DEF CountInv, Grows

LEMMA UnchangedGrows ==
    ASSUME CountInv, UNCHANGED << lastKey, opened >>
    PROVE  Grows
BY DEF CountInv, Grows

\* A connection that fails.
LEMMA HandleErrorShape ==
    ASSUME ShapeInv, UNCHANGED << reloads, opened, lastKey, isStreamComplete, streamStopped, silent >>,
           NEW own \in 1..lastKey, NEW live, live \subseteq sources, handleError(own, live)
    PROVE  PageInv' /\ StoredInv' /\ CountInv' /\ Grows /\ ChatShape'
<1>0. PageInv /\ StoredInv /\ CountInv /\ ChatShape /\ Grows /\ lastKey \in Nat /\ opened \in Nat
  BY UnchangedGrows DEF ShapeInv, CountInv
<1>1. /\ sources' \subseteq sources /\ sseSource' \in {sseSource, None}
      /\ (isStreaming' = isStreaming \/ isStreaming' = FALSE) /\ retryTimeout' \in {retryTimeout, own}
      /\ retryCount' \in {retryCount, [retryCount EXCEPT ![own] = @ + 1]}
      /\ retryCount' # retryCount => retryCount[own] < MAX_STREAM_RETRIES
  BY DEF handleError, closeSource
<1>2. retryCount' \in [Keys -> 0..MAX_STREAM_RETRIES]
  <2>1. MAX_STREAM_RETRIES \in Nat /\ retryCount \in [Keys -> 0..MAX_STREAM_RETRIES]
    BY <1>0, StateAssumption DEF ChatShape
  <2>2. CASE retryCount' = retryCount
    BY <2>1, <2>2
  <2>3. CASE retryCount' # retryCount
    BY <1>1, <2>1, <2>3
  <2> QED BY <2>2, <2>3
<1>3. ChatShape'
  <2>1. isStreaming' \in BOOLEAN
    BY <1>0, <1>1 DEF ChatShape
  <2>2. isStreamComplete' \in BOOLEAN /\ streamStopped' \in BOOLEAN /\ silent' \in BOOLEAN
    BY <1>0 DEF ChatShape
  <2>3. /\ sseSource' \in 0..opened' /\ retryTimeout' \in 0..lastKey'
        /\ sources' \subseteq [conn : 1..opened', own : 1..lastKey']
    BY <1>0, <1>1 DEF ChatShape, None
  <2> QED BY <1>2, <2>1, <2>2, <2>3 DEF ChatShape
<1>4. \/ UNCHANGED conversationVars
      \/ updateLast(handleStreamError(LastMessage))
      \/ updateLast(handleStreamReconnect(LastMessage))
  BY DEF handleError
<1>5. Messages # << >> => /\ handleStreamError(LastMessage) \in MessageOf(lastKey, opened)
                          /\ handleStreamReconnect(LastMessage) \in MessageOf(lastKey, opened)
  <2>1. ASSUME Messages # << >>
        PROVE  /\ handleStreamError(LastMessage) \in MessageOf(lastKey, opened)
               /\ handleStreamReconnect(LastMessage) \in MessageOf(lastKey, opened)
    <3>1. LastMessage \in MessageOf(lastKey, opened)
      BY <1>0, <2>1, MessagesTyped, LastOfTyped DEF LastMessage
    <3> QED BY <1>0, <3>1, CallbackTypes
  <2> QED BY <2>1
<1>6. CASE UNCHANGED conversationVars
  BY <1>0, <1>3, <1>6, StillKeeps
<1>7. CASE updateLast(handleStreamError(LastMessage))
  BY <1>0, <1>3, <1>5, <1>7, CallbackKeeps
<1>8. CASE updateLast(handleStreamReconnect(LastMessage))
  BY <1>0, <1>3, <1>5, <1>8, CallbackKeeps
<1> QED BY <1>4, <1>6, <1>7, <1>8

LEMMA LastMessageTyped ==
    ASSUME PageInv, Messages # << >>
    PROVE  LastMessage \in MessageOf(lastKey, opened)
BY MessagesTyped, LastOfTyped DEF LastMessage

\* Stop in a chat.
LEMMA StopShape ==
    ASSUME ShapeInv, stopGeneration
    PROVE  PageInv' /\ StoredInv' /\ CountInv' /\ Grows /\ ChatShape'
<1>0. PageInv /\ StoredInv /\ CountInv /\ ChatShape /\ lastKey \in Nat /\ opened \in Nat
  BY DEF ShapeInv, CountInv
<1>1. Messages # << >> => finalizeStopped(LastMessage) \in MessageOf(lastKey, opened)
  BY <1>0, LastMessageTyped, CallbackTypes
<1>2. UNCHANGED << lastKey, opened, reloads >> /\ updateLast(finalizeStopped(LastMessage))
  BY DEF stopGeneration
<1>3. PageInv' /\ StoredInv' /\ CountInv' /\ Grows
  BY <1>0, <1>1, <1>2, CallbackKeeps
<1>4. ChatShape'
  <2>1. isStreaming' \in BOOLEAN /\ streamStopped' \in BOOLEAN
    BY DEF stopGeneration
  <2>2. isStreamComplete' \in BOOLEAN /\ silent' \in BOOLEAN
    BY <1>0 DEF ChatShape, stopGeneration
  <2>3. /\ sseSource' \in 0..opened' /\ retryTimeout' \in 0..lastKey'
        /\ sources' \subseteq [conn : 1..opened', own : 1..lastKey']
        /\ retryCount' \in [Keys -> 0..MAX_STREAM_RETRIES]
    BY <1>0, <1>2 DEF ChatShape, None, stopGeneration, closeSource
  <2> QED BY <2>1, <2>2, <2>3 DEF ChatShape
<1> QED BY <1>3, <1>4

\* A piece of an answer, or its end.
LEMMA ReceiveShape ==
    ASSUME ShapeInv, NEW s \in sources,
           \/ \E kind \in {"content", "reasoning"} : ReceiveChunk(s, kind)
           \/ ReceiveDone(s)
    PROVE  PageInv' /\ StoredInv' /\ CountInv' /\ Grows /\ ChatShape'
<1>0. PageInv /\ StoredInv /\ CountInv /\ ChatShape /\ lastKey \in Nat /\ opened \in Nat
  BY DEF ShapeInv, CountInv
<1>1. s.conn \in 1..opened
  BY <1>0 DEF ChatShape
<1>2. ASSUME NEW kind, ReceiveChunk(s, kind)
      PROVE  PageInv' /\ StoredInv' /\ CountInv' /\ Grows /\ ChatShape'
  <2>1. Messages # << >> => handleStreamUpdate(LastMessage, kind, s.conn)
                               \in MessageOf(lastKey, opened)
    BY <1>0, <1>1, LastMessageTyped, CallbackTypes
  <2>2. /\ UNCHANGED << chatVars, lastKey, opened, reloads >>
        /\ updateLast(handleStreamUpdate(LastMessage, kind, s.conn))
    BY <1>2 DEF ReceiveChunk
  <2> QED BY <1>0, <2>1, <2>2, CallbackKeeps, ChatGrows
<1>3. CASE ReceiveDone(s)
  <2>1. Messages # << >> => handleStreamComplete(LastMessage) \in MessageOf(lastKey, opened)
    BY <1>0, LastMessageTyped, CallbackTypes
  <2>2. /\ UNCHANGED << lastKey, opened, reloads >>
        /\ updateLast(handleStreamComplete(LastMessage))
    BY <1>3 DEF ReceiveDone
  <2>3. PageInv' /\ StoredInv' /\ CountInv' /\ Grows
    BY <1>0, <2>1, <2>2, CallbackKeeps
  <2>4. ChatShape'
    <3>1. isStreaming' \in BOOLEAN /\ isStreamComplete' \in BOOLEAN
      BY <1>3 DEF ReceiveDone
    <3>2. streamStopped' \in BOOLEAN /\ silent' \in BOOLEAN
      BY <1>0, <1>3 DEF ChatShape, ReceiveDone
    <3>3. /\ sseSource' \in 0..opened' /\ retryTimeout' \in 0..lastKey'
          /\ sources' \subseteq [conn : 1..opened', own : 1..lastKey']
          /\ retryCount' \in [Keys -> 0..MAX_STREAM_RETRIES]
      BY <1>0, <1>3, <2>2 DEF ChatShape, None, ReceiveDone, closeSource
    <3> QED BY <3>1, <3>2, <3>3 DEF ChatShape
  <2> QED BY <2>3, <2>4
<1> QED BY <1>2, <1>3

\* A connection more.
LEMMA StartShape ==
    ASSUME CountInv, ChatShape, NEW k \in Nat, lastKey <= k, lastKey' = k,
           NEW own \in 1..k, startStream(own, sources)
    PROVE  /\ Grows /\ sseSource' \in 0..opened'
           /\ sources' \subseteq [conn : 1..opened', own : 1..lastKey']
<1>1. lastKey \in Nat /\ opened \in Nat /\ opened' = opened + 1 /\ sseSource' = opened + 1
      /\ sources' = sources \cup {[conn |-> opened + 1, own |-> own]}
  BY DEF CountInv, startStream
<1>2. 1..opened \subseteq 1..opened' /\ 1..lastKey \subseteq 1..k /\ opened + 1 \in 1..opened'
  BY <1>1
<1>3. sources \subseteq [conn : 1..opened', own : 1..k]
  BY <1>2 DEF ChatShape
<1> QED BY <1>1, <1>2, <1>3 DEF Grows

\* The timer of a reconnection.
LEMMA RetryShape ==
    ASSUME ShapeInv, RetryTimeout
    PROVE  PageInv' /\ StoredInv' /\ CountInv' /\ Grows /\ ChatShape'
<1>0. PageInv /\ StoredInv /\ CountInv /\ ChatShape /\ lastKey \in Nat /\ opened \in Nat
  BY DEF ShapeInv, CountInv
<1>1. retryTimeout \in 1..lastKey /\ lastKey' = lastKey /\ retryTimeout' = None
  BY <1>0 DEF RetryTimeout, ChatShape, None
<1>2. /\ Grows /\ sseSource' \in 0..opened'
      /\ sources' \subseteq [conn : 1..opened', own : 1..lastKey']
  <2>1. CASE UNCHANGED << opened, sseSource, sources >>
    BY <1>0, <1>1, <2>1 DEF Grows, ChatShape
  <2>2. CASE startStream(retryTimeout, sources)
    BY <1>0, <1>1, <2>2, StartShape
  <2> QED BY <2>1, <2>2 DEF RetryTimeout
<1>3. UNCHANGED << conversationVars, reloads, isStreaming, isStreamComplete, streamStopped,
                   retryCount, silent >>
  BY DEF RetryTimeout
<1>4. PageInv' /\ StoredInv' /\ CountInv'
  BY <1>0, <1>2, <1>3, StillKeeps
<1>5. ChatShape'
  <2>1. isStreaming' \in BOOLEAN /\ isStreamComplete' \in BOOLEAN
        /\ streamStopped' \in BOOLEAN /\ silent' \in BOOLEAN
        /\ retryCount' \in [Keys -> 0..MAX_STREAM_RETRIES]
    BY <1>0, <1>3 DEF ChatShape
  <2>2. retryTimeout' \in 0..lastKey'
    BY <1>0, <1>1 DEF None
  <2> QED BY <1>2, <2>1, <2>2 DEF ChatShape
<1> QED BY <1>2, <1>4, <1>5

\* A connection that ends without [DONE].
LEMMA EndsShape ==
    ASSUME ShapeInv, NEW s \in sources, SourceEnds(s)
    PROVE  PageInv' /\ StoredInv' /\ CountInv' /\ Grows /\ ChatShape'
<1>0. PageInv /\ StoredInv /\ CountInv /\ ChatShape
  BY DEF ShapeInv
<1>1. UNCHANGED << conversationVars, reloads, lastKey, opened >>
  BY DEF SourceEnds, stateVars
<1>2. PageInv' /\ StoredInv' /\ CountInv' /\ Grows
  BY <1>0, <1>1, UnchangedGrows, StillKeeps
<1>3. ChatShape'
  <2>1. isStreaming' \in BOOLEAN /\ isStreamComplete' \in BOOLEAN
        /\ streamStopped' \in BOOLEAN
        /\ retryCount' \in [Keys -> 0..MAX_STREAM_RETRIES]
    BY <1>0 DEF ChatShape, SourceEnds
  <2>2. silent' \in BOOLEAN
    BY DEF SourceEnds
  <2>3. /\ sseSource' \in 0..opened' /\ retryTimeout' \in 0..lastKey'
        /\ sources' \subseteq [conn : 1..opened', own : 1..lastKey']
    BY <1>0, <1>1 DEF ChatShape, SourceEnds
  <2> QED BY <2>1, <2>2, <2>3 DEF ChatShape
<1> QED BY <1>2, <1>3

\* Every step of the chat keeps the state well formed.
LEMMA ChatStepShape ==
    ASSUME ShapeInv, ChatStep
    PROVE  ShapeInv' /\ Grows
<1>0. CountInv /\ AgentShape /\ UserShape /\ ChatShape
  BY DEF ShapeInv
<1>1. ChatNext /\ UNCHANGED << agentVars, userVars >>
  BY DEF ChatStep
<1>2. PageInv' /\ StoredInv' /\ CountInv' /\ Grows /\ ChatShape'
  <2>1. CASE RetryTimeout
    BY <2>1, RetryShape
  <2>2. ASSUME NEW s \in sources,
               \/ \E kind \in {"content", "reasoning"} : ReceiveChunk(s, kind)
               \/ ReceiveDone(s)
        PROVE  PageInv' /\ StoredInv' /\ CountInv' /\ Grows /\ ChatShape'
    BY <2>2, ReceiveShape
  <2>3. ASSUME NEW s \in sources, ReceiveGarbage(s) \/ SourceFails(s)
        PROVE  PageInv' /\ StoredInv' /\ CountInv' /\ Grows /\ ChatShape'
    <3>1. s.own \in 1..lastKey
      BY <1>0 DEF ChatShape
    <3>2. PICK live \in {sources, sources \ {s}} : handleError(s.own, live)
      BY <2>3 DEF ReceiveGarbage, SourceFails
    <3>3. UNCHANGED << reloads, opened, lastKey, isStreamComplete, streamStopped, silent >>
      BY <2>3 DEF ReceiveGarbage, SourceFails
    <3>4. live \subseteq sources
      OBVIOUS
    <3> QED BY <3>1, <3>2, <3>3, <3>4, HandleErrorShape
  <2>4. ASSUME NEW s \in sources, SourceEnds(s)
        PROVE  PageInv' /\ StoredInv' /\ CountInv' /\ Grows /\ ChatShape'
    BY <2>4, EndsShape
  <2> QED BY <1>1, <2>1, <2>2, <2>3, <2>4 DEF ChatNext, SourceSettles
<1>3. AgentShape' /\ UserShape'
  BY <1>0, <1>1, <1>2, AgentGrows, UserGrows
<1>4. FormShape'
  BY <1>1, <1>2, FormsGrow DEF Queues, userVars
<1> QED BY <1>2, <1>3, <1>4 DEF ShapeInv

-----------------------------------------------------------------------------
(* The parts of a run                                                      *)

CallSets(n) == SUBSET ((1..n) \X Tools)

\* A run taken apart, and put together.
LEMMA RunTypes ==
    ASSUME NEW k, NEW n, NEW r \in RunOf(k, n)
    PROVE  /\ Shape(r)
           /\ r.id \in 1..k /\ r.pc \in Waiting /\ r.working \in Seq(MessageOf(k, n))
           /\ r.step \in 0..(MAX_AGENT_STEPS - 1) /\ r.retry \in 0..MAX_STREAM_RETRIES
           /\ r.conn \in 1..n /\ r.calls \in CallSets(n) /\ r.results \in CallSets(n)
           /\ r.todo \in CallSets(n) /\ r.toolKey \in 0..k /\ r.granted \in BOOLEAN
           /\ r.working # << >> /\ Last(r.working).from = "assistant"
           /\ r.pc \notin {"stream", "retry", "review"} => r.toolKey # None
<1> DEFINE M == Seq(MessageOf(k, n))
           C == CallSets(n)
<1>1. /\ r \in [id : 1..k, pc : Waiting, working : M, step : 0..(MAX_AGENT_STEPS - 1),
                retry : 0..MAX_STREAM_RETRIES, conn : 1..n, calls : C, results : C,
                todo : C, toolKey : 0..k, granted : BOOLEAN]
      /\ r.working # << >> /\ Last(r.working).from = "assistant"
      /\ r.pc \notin {"stream", "retry", "review"} => r.toolKey # None
  BY DEF RunOf, CallSets
<1> HIDE DEF M, C
<1>2. Shape(r)
  BY <1>1 DEF Shape, Fields
<1>3. /\ r.id \in 1..k /\ r.pc \in Waiting /\ r.working \in M
      /\ r.step \in 0..(MAX_AGENT_STEPS - 1) /\ r.retry \in 0..MAX_STREAM_RETRIES
      /\ r.conn \in 1..n /\ r.calls \in C /\ r.results \in C
      /\ r.todo \in C /\ r.toolKey \in 0..k /\ r.granted \in BOOLEAN
  BY <1>1
<1> QED BY <1>1, <1>2, <1>3 DEF M, C

LEMMA RunMade ==
    ASSUME NEW k, NEW n, NEW r, Shape(r),
           r.id \in 1..k, r.pc \in Waiting, r.working \in Seq(MessageOf(k, n)),
           r.step \in 0..(MAX_AGENT_STEPS - 1), r.retry \in 0..MAX_STREAM_RETRIES,
           r.conn \in 1..n, r.calls \in CallSets(n), r.results \in CallSets(n),
           r.todo \in CallSets(n), r.toolKey \in 0..k, r.granted \in BOOLEAN,
           r.working # << >>, Last(r.working).from = "assistant",
           r.pc \notin {"stream", "retry", "review"} => r.toolKey # None
    PROVE  r \in RunOf(k, n)
<1> DEFINE M == Seq(MessageOf(k, n))
           C == CallSets(n)
<1>1. r \in [id : 1..k, pc : Waiting, working : M, step : 0..(MAX_AGENT_STEPS - 1),
             retry : 0..MAX_STREAM_RETRIES, conn : 1..n, calls : C, results : C,
             todo : C, toolKey : 0..k, granted : BOOLEAN]
  <2>1. /\ r.id \in 1..k /\ r.pc \in Waiting /\ r.working \in M
        /\ r.step \in 0..(MAX_AGENT_STEPS - 1) /\ r.retry \in 0..MAX_STREAM_RETRIES
        /\ r.conn \in 1..n /\ r.calls \in C /\ r.results \in C
        /\ r.todo \in C /\ r.toolKey \in 0..k /\ r.granted \in BOOLEAN
    OBVIOUS
  <2> HIDE DEF M, C
  <2> QED BY <2>1 DEF Shape, Fields
<1> QED BY <1>1 DEF RunOf, CallSets

\* A text of the first n connections.
Origins(content, n) == content \in SUBSET (0..n)

\* The parts of a message that was changed.
LEMMA ChangedParts ==
    ASSUME NEW k, NEW n, NEW msg \in MessageOf(k, n), NEW content, Origins(content, n),
           NEW status \in Status, NEW reconnecting, Flag(reconnecting), NEW new,
           new = Changed(msg, content, status, reconnecting)
    PROVE  /\ new \in MessageOf(k, n) /\ new.key = msg.key /\ new.from = msg.from
           /\ new.content = content /\ new.status = status
           /\ new.reconnecting = reconnecting /\ new.calls = msg.calls
<1> DEFINE a == [msg EXCEPT !.content = content]
           b == [a EXCEPT !.status = status]
           c == [b EXCEPT !.reconnecting = reconnecting]
<1>1. a = [key |-> msg.key, from |-> msg.from, status |-> msg.status,
           content |-> content, reconnecting |-> msg.reconnecting,
           calls |-> msg.calls, pending |-> msg.pending]
  BY DEF MessageOf
<1>2. new = c
  BY DEF Changed
<1>3. b = [key |-> msg.key, from |-> msg.from, status |-> status,
           content |-> content, reconnecting |-> msg.reconnecting,
           calls |-> msg.calls, pending |-> msg.pending]
  <2> HIDE DEF a
  <2> QED BY <1>1
<1>4. c = [key |-> msg.key, from |-> msg.from, status |-> status,
           content |-> content, reconnecting |-> reconnecting,
           calls |-> msg.calls, pending |-> msg.pending]
  <2> HIDE DEF b
  <2> QED BY <1>3
<1> HIDE DEF c
<1>5. new \in MessageOf(k, n)
  BY MessageChanged DEF Origins
<1> QED BY <1>2, <1>4, <1>5

\* updateLastAssistantContent with either value of the mark of a reconnection.
TextOf(ms, content, status, new) ==
    \E reconnecting : Flag(reconnecting) /\ new = LastContent(ms, content, status, reconnecting)

LEMMA TextOfBoth ==
    ASSUME NEW ms, NEW content, NEW status
    PROVE  /\ TextOf(ms, content, status, LastContent(ms, content, status, TRUE))
           /\ TextOf(ms, content, status, LastContent(ms, content, status, FALSE))
BY Flags, Zenon DEF TextOf

\* The text of the answer of a run.
LEMMA LastContentLemma ==
    ASSUME NEW k, NEW n \in Nat, NEW ms \in Seq(MessageOf(k, n)), ms # << >>,
           NEW content, Origins(content, n), NEW status \in Status,
           NEW new, TextOf(ms, content, status, new)
    PROVE  /\ new \in Seq(MessageOf(k, n)) /\ Len(new) = Len(ms) /\ new # << >>
           /\ \A j \in DOMAIN ms : j # Len(ms) => new[j] = ms[j]
           /\ Last(new).from = Last(ms).from /\ Last(new).status = status
           /\ Last(new).content = content /\ Last(new).key = Last(ms).key
<1>1. Last(ms) \in MessageOf(k, n) /\ Len(ms) \in 1..Len(ms) /\ Len(ms) \in Nat
      /\ Last(ms) = ms[Len(ms)]
  BY DEF Last
<1>0. PICK old : old = Last(ms)
  OBVIOUS
<1>7. PICK reconnecting : Flag(reconnecting) /\ new = LastContent(ms, content, status, reconnecting)
  BY DEF TextOf
<1> DEFINE msg == Changed(old, content, status, reconnecting)
<1>2. /\ msg \in MessageOf(k, n) /\ msg.from = old.from /\ msg.status = status
      /\ msg.content = content /\ msg.key = old.key
  <2>1. old \in MessageOf(k, n)
    BY <1>0, <1>1
  <2> QED BY <2>1, <1>7, ChangedParts
<1>3. new = [ms EXCEPT ![Len(ms)] = msg]
  BY <1>0, <1>1, <1>7 DEF LastContent, Changed
<1> HIDE DEF msg
<1>4. new \in Seq(MessageOf(k, n)) /\ Len(new) = Len(ms)
      /\ \A j \in 1..Len(ms) : new[j] = IF j = Len(ms) THEN msg ELSE ms[j]
  BY <1>1, <1>2, <1>3, ExceptSeq
<1>5. Last(new) = msg
  BY <1>1, <1>4 DEF Last
<1>6. new # << >>
  BY <1>1, <1>4
<1> QED BY <1>0, <1>1, <1>2, <1>4, <1>5, <1>6

LEMMA ClosedTyped ==
    ASSUME NEW r, NEW k \in Nat, NEW n \in Nat,
           control \in [source : 0..n, retryTimer : 0..k, stopped : BOOLEAN]
    PROVE  /\ Closed(r) \in [source : 0..n, retryTimer : 0..k, stopped : BOOLEAN]
           /\ Closed(r).source = IF control.source = r.conn THEN None ELSE control.source
           /\ Closed(r).retryTimer = control.retryTimer /\ Closed(r).stopped = control.stopped
<1> DEFINE x == IF control.source = r.conn THEN None ELSE control.source
           c == [control EXCEPT !.source = x]
<1>1. Closed(r) = c
  BY DEF Closed
<1>2. x \in 0..n
  BY DEF None
<1> HIDE DEF x
<1>3. c = [source |-> x, retryTimer |-> control.retryTimer, stopped |-> control.stopped]
  BY <1>2
<1>4. c \in [source : 0..n, retryTimer : 0..k, stopped : BOOLEAN]
  BY <1>2, <1>3
<1>5. c.source = x /\ c.retryTimer = control.retryTimer /\ c.stopped = control.stopped
  BY <1>3
<1> QED BY <1>1, <1>4, <1>5 DEF x

\* Every way out of a run.
LEMMA EndShape ==
    ASSUME CountInv, Grows, AgentShape, NEW r, NEW ctl, EndRun(r, ctl),
           ctl \in [source : 0..opened', retryTimer : 0..lastKey', stopped : BOOLEAN]
    PROVE  AgentShape'
<1>1. runs' \subseteq runs
  BY DEF EndRun
<1>2. isAgentRunning' \in BOOLEAN
  BY DEF EndRun, AgentShape
<1>3. control' \in [source : 0..opened', retryTimer : 0..lastKey', stopped : BOOLEAN]
  <2>1. CASE ctl.stopped
    BY <2>1 DEF EndRun
  <2>2. CASE ~ctl.stopped
    <3>1. control' = [source |-> None, retryTimer |-> None, stopped |-> FALSE]
      BY <2>2 DEF EndRun
    <3>2. None \in 0..opened' /\ None \in 0..lastKey'
      BY DEF Grows, None
    <3> QED BY <3>1, <3>2
  <2> QED BY <2>1, <2>2
<1> QED BY <1>1, <1>2, <1>3, NoRunShape

\* What the page writes while a run goes on.
LEMMA RunWrites ==
    ASSUME ShapeInv, Grows, UNCHANGED reloads,
           NEW ms \in Seq(MessageOf(lastKey', opened')), updateMessages(ms)
    PROVE  PageInv' /\ StoredInv' /\ CountInv'
<1>1. PageInv /\ StoredInv /\ CountInv
  BY DEF ShapeInv
<1>2. PageInv' /\ StoredInv' /\ lostSaves' \in 0..MaxLostSaves
  BY <1>1, UpdateLemma
<1> QED BY <1>1, <1>2 DEF CountInv, Grows

LEMMA RunOfRuns ==
    ASSUME ShapeInv, NEW r \in runs
    PROVE  r \in RunOf(lastKey, opened)
BY DEF ShapeInv, AgentShape

\* The end of a step of a run that goes on as n.
LEMMA RunGoesOn ==
    ASSUME ShapeInv, Grows, UNCHANGED reloads,
           UNCHANGED conversationVars \/
              \E ms \in Seq(MessageOf(lastKey', opened')) : updateMessages(ms),
           isAgentRunning' \in BOOLEAN,
           control' \in [source : 0..opened', retryTimer : 0..lastKey', stopped : BOOLEAN],
           NEW n \in RunOf(lastKey', opened'), runs' \subseteq runs \cup {n}
    PROVE  PageInv' /\ StoredInv' /\ CountInv' /\ AgentShape'
<1>0. PageInv /\ StoredInv /\ CountInv /\ AgentShape
  BY DEF ShapeInv
<1>1. PageInv' /\ StoredInv' /\ CountInv'
  BY <1>0, RunWrites, StillKeeps
<1> QED BY <1>0, <1>1, RunShape

LEMMA RunEndShape ==
    ASSUME ShapeInv, Grows, UNCHANGED reloads,
           UNCHANGED conversationVars \/
              \E ms \in Seq(MessageOf(lastKey', opened')) : updateMessages(ms),
           NEW r, NEW ctl, EndRun(r, ctl),
           ctl \in [source : 0..opened', retryTimer : 0..lastKey', stopped : BOOLEAN]
    PROVE  PageInv' /\ StoredInv' /\ CountInv' /\ AgentShape'
<1>0. PageInv /\ StoredInv /\ CountInv /\ AgentShape
  BY DEF ShapeInv
<1>1. PageInv' /\ StoredInv' /\ CountInv'
  BY <1>0, RunWrites, StillKeeps
<1> QED BY <1>0, <1>1, EndShape

\* The run of a step, with the keys and connections after it.
LEMMA RunNow ==
    ASSUME ShapeInv, Grows, NEW r \in runs
    PROVE  r \in RunOf(lastKey', opened') /\ r \in RunOf(lastKey, opened)
BY RunsGrow, RunOfRuns DEF ShapeInv

-----------------------------------------------------------------------------
(* Every step of a run goes on with it or ends it                          *)

ControlOf(k, n) == [source : 0..n, retryTimer : 0..k, stopped : BOOLEAN]

\* The page has the messages ms after the step.
Writes(ms) == updateMessages(ms) \/ (UNCHANGED conversationVars /\ ms = Messages)

\* AnswersKept, of one conversation.
Kept(ms, now) ==
    \A j \in DOMAIN ms : ~Unsettled(ms[j]) =>
        /\ j \in DOMAIN now
        /\ IF ms[j].from = "tool" THEN now[j].from = "tool" ELSE now[j] = ms[j]

\* The outcomes of a step of the run r: it goes on as another run, or it ends.
GoesOn(r) ==
    \E n \in RunOf(lastKey', opened'), ms \in Seq(MessageOf(lastKey', opened')) :
        /\ runs' = (runs \ {r}) \cup {n}
        /\ Writes(ms)
        /\ isAgentRunning' = isAgentRunning
        /\ control' \in ControlOf(lastKey', opened')
        /\ Lone(r, Messages, control) /\ Neat(Messages) =>
              Lone(n, ms, control') /\ Neat(ms) /\ Kept(Messages, ms)

Ends(r) ==
    \E ctl \in ControlOf(lastKey', opened'), ms \in Seq(MessageOf(lastKey', opened')) :
        /\ EndRun(r, ctl)
        /\ Writes(ms)
        /\ Lone(r, Messages, control) /\ Neat(Messages) =>
              ~ctl.stopped /\ Calm(ms) /\ Neat(ms) /\ Kept(Messages, ms)

Proceeds(r) == Grows /\ UNCHANGED reloads /\ (GoesOn(r) \/ Ends(r))

-----------------------------------------------------------------------------

\* A message of the end of the list is changed.
LEMMA LastNeat ==
    ASSUME NEW S, NEW ms \in Seq(S), ms # << >>, NEW new \in Seq(S), Len(new) = Len(ms),
           \A j \in DOMAIN ms : j # Len(ms) => new[j] = ms[j], Neat(ms),
           \A x, y \in Last(new).content : x = y
    PROVE  /\ Neat(new)
           /\ Unsettled(Last(ms)) => Kept(ms, new)
           /\ ~Unsettled(Last(new)) => Calm(new)
<1>1. /\ Len(ms) \in Nat /\ DOMAIN ms = 1..Len(ms) /\ DOMAIN new = DOMAIN ms
      /\ Last(ms) = ms[Len(ms)] /\ Last(new) = new[Len(ms)]
  BY DEF Last
<1>2. \A j \in DOMAIN ms : /\ j # Len(ms) => new[j] = ms[j]
                           /\ Unsettled(ms[j]) => j = Len(ms)
                           /\ \A x, y \in ms[j].content : x = y
  BY DEF Neat
<1>3. Neat(new)
  BY <1>1, <1>2 DEF Neat
<1>4. ASSUME Unsettled(Last(ms)) PROVE Kept(ms, new)
  <2> SUFFICES ASSUME NEW j \in DOMAIN ms, ~Unsettled(ms[j])
               PROVE  /\ j \in DOMAIN new
                      /\ IF ms[j].from = "tool" THEN new[j].from = "tool" ELSE new[j] = ms[j]
    BY DEF Kept
  <2>1. new[j] = ms[j]
    BY <1>1, <1>2, <1>4
  <2> QED BY <1>1, <2>1
<1>5. ASSUME ~Unsettled(Last(new)) PROVE Calm(new)
  <2> SUFFICES ASSUME NEW j \in DOMAIN new PROVE ~Unsettled(new[j])
    BY DEF Calm
  <2> QED BY <1>1, <1>2, <1>5
<1> QED BY <1>3, <1>4, <1>5

\* A card of tool calls is added.
LEMMA CardNeat ==
    ASSUME NEW S, NEW ms \in Seq(S), Neat(ms), Calm(ms), NEW card,
           card.from = "tool", \A x, y \in card.content : x = y
    PROVE  Neat(Append(ms, card)) /\ Calm(Append(ms, card))
<1> DEFINE new == Append(ms, card)
<1>1. /\ DOMAIN new = 1..(Len(ms) + 1) /\ Len(new) = Len(ms) + 1 /\ Len(ms) \in Nat
      /\ DOMAIN ms = 1..Len(ms) /\ new[Len(ms) + 1] = card
      /\ \A j \in DOMAIN ms : new[j] = ms[j]
  OBVIOUS
<1> HIDE DEF new
<1>2. ~Unsettled(card)
  BY DEF Unsettled
<1>3. \A j \in DOMAIN new : j = Len(ms) + 1 \/ (j \in DOMAIN ms /\ new[j] = ms[j])
  BY <1>1
<1>4. Calm(new)
  BY <1>1, <1>2, <1>3 DEF Calm
<1>5. Neat(new)
  BY <1>1, <1>3, <1>4 DEF Neat, Calm
<1> QED BY <1>4, <1>5 DEF new

LEMMA ToolMessageLemma ==
    ASSUME NEW key, NEW calls, NEW pending
    PROVE  /\ toolMessage(key, calls, pending).from = "tool"
           /\ \A x, y \in toolMessage(key, calls, pending).content : x = y
BY DEF toolMessage

\* What is kept of the beginning is kept of the list.
LEMMA KeptAppend ==
    ASSUME NEW S, NEW ms, NEW now \in Seq(S), Kept(ms, now), NEW card
    PROVE  Kept(ms, Append(now, card))
<1> DEFINE new == Append(now, card)
<1>1. \A j \in DOMAIN now : j \in DOMAIN new /\ new[j] = now[j]
  OBVIOUS
<1> HIDE DEF new
<1>2. Kept(ms, new)
  BY <1>1 DEF Kept
<1> QED BY <1>2 DEF new

LEMMA KeptSame ==
    ASSUME NEW ms
    PROVE  Kept(ms, ms)
BY DEF Kept

\* The card of tool calls is replaced.
LEMMA CardKept ==
    ASSUME NEW S, NEW w \in Seq(S), NEW old, NEW new, old.from = "tool", new.from = "tool"
    PROVE  Kept(Append(w, old), Append(w, new))
<1> DEFINE a == Append(w, old)
           b == Append(w, new)
<1>1. /\ DOMAIN a = 1..(Len(w) + 1) /\ DOMAIN b = 1..(Len(w) + 1) /\ Len(w) \in Nat
      /\ a[Len(w) + 1] = old /\ b[Len(w) + 1] = new
      /\ \A j \in 1..Len(w) : a[j] = w[j] /\ b[j] = w[j]
  OBVIOUS
<1> HIDE DEF a, b
<1>2. Kept(a, b)
  <2> SUFFICES ASSUME NEW j \in DOMAIN a, ~Unsettled(a[j])
               PROVE  /\ j \in DOMAIN b
                      /\ IF a[j].from = "tool" THEN b[j].from = "tool" ELSE b[j] = a[j]
    BY DEF Kept
  <2>1. CASE j = Len(w) + 1
    BY <1>1, <2>1
  <2>2. CASE j \in 1..Len(w)
    BY <1>1, <2>2
  <2> QED BY <1>1, <2>1, <2>2
<1> QED BY <1>2 DEF a, b

LEMMA NeatPart ==
    ASSUME NEW S, NEW w \in Seq(S), NEW card, Neat(Append(w, card))
    PROVE  Neat(w)
<1> DEFINE a == Append(w, card)
<1>1. /\ DOMAIN a = 1..(Len(w) + 1) /\ Len(a) = Len(w) + 1 /\ Len(w) \in Nat /\ DOMAIN w = 1..Len(w)
      /\ \A j \in 1..Len(w) : a[j] = w[j]
  OBVIOUS
<1> HIDE DEF a
<1>2. \A j \in DOMAIN w : ~Unsettled(w[j]) /\ \A x, y \in w[j].content : x = y
  <2> SUFFICES ASSUME NEW j \in DOMAIN w
               PROVE  ~Unsettled(w[j]) /\ \A x, y \in w[j].content : x = y
    OBVIOUS
  <2>1. j \in DOMAIN a /\ a[j] = w[j] /\ j # Len(a)
    BY <1>1
  <2>2. Neat(a)
    BY DEF a
  <2> QED BY <2>1, <2>2 DEF Neat
<1> QED BY <1>2 DEF Neat

\* The control of a run stays well formed.
LEMMA ControlStays ==
    ASSUME ShapeInv, Grows
    PROVE  control \in ControlOf(lastKey', opened') /\ control \in ControlOf(lastKey, opened)
BY ControlGrows DEF ShapeInv, AgentShape, ControlOf

\* More text.
LEMMA TextProceeds ==
    ASSUME ShapeInv, NEW r \in runs, ReceiveText(r)
    PROVE  Proceeds(r)
<1> DEFINE shown == LastContent(r.working, {r.conn}, "streaming", FALSE)
           n == [r EXCEPT !.working = shown]
<1>0. CountInv /\ AgentShape /\ lastKey \in Nat /\ opened \in Nat
  BY DEF ShapeInv, CountInv
<1>1. Grows /\ lastKey' = lastKey /\ opened' = opened /\ UNCHANGED reloads
  BY <1>0, UnchangedGrows DEF ReceiveText
<1>2. r \in RunOf(lastKey, opened)
  BY RunOfRuns
<1>3. /\ Shape(r)
      /\ r.id \in 1..lastKey /\ r.pc \in Waiting /\ r.working \in Seq(MessageOf(lastKey, opened))
      /\ r.step \in 0..(MAX_AGENT_STEPS - 1) /\ r.retry \in 0..MAX_STREAM_RETRIES
      /\ r.conn \in 1..opened /\ r.calls \in CallSets(opened) /\ r.results \in CallSets(opened)
      /\ r.todo \in CallSets(opened) /\ r.toolKey \in 0..lastKey /\ r.granted \in BOOLEAN
      /\ r.working # << >> /\ Last(r.working).from = "assistant"
  BY <1>2, RunTypes
<1>4. /\ updateMessages(shown) /\ UNCHANGED << isAgentRunning, control >>
      /\ runs' = (runs \ {r}) \cup {n} /\ TextOf(r.working, {r.conn}, "streaming", shown)
      /\ r.pc = "stream"
  BY TextOfBoth DEF ReceiveText
<1> HIDE DEF shown
<1>5. /\ shown \in Seq(MessageOf(lastKey, opened)) /\ shown # << >>
      /\ Len(shown) = Len(r.working)
      /\ \A j \in DOMAIN r.working : j # Len(r.working) => shown[j] = r.working[j]
      /\ Last(shown).from = "assistant" /\ Last(shown).status = "streaming"
      /\ Last(shown).content = {r.conn}
  <2>1. Origins({r.conn}, opened) /\ "streaming" \in Status
    BY <1>0, <1>3 DEF Status, Origins
  <2> QED BY <1>0, <1>3, <1>4, <2>1, LastContentLemma
<1>6. /\ Shape(n) /\ n.working = shown
      /\ n.id = r.id /\ n.pc = r.pc /\ n.step = r.step /\ n.retry = r.retry
      /\ n.conn = r.conn /\ n.calls = r.calls /\ n.results = r.results
      /\ n.todo = r.todo /\ n.toolKey = r.toolKey /\ n.granted = r.granted
  BY <1>3 DEF Shape, Fields
<1> HIDE DEF n
<1>7. n \in RunOf(lastKey, opened)
  BY <1>3, <1>4, <1>5, <1>6, RunMade
<1>8. ASSUME Lone(r, Messages, control), Neat(Messages)
      PROVE  Lone(n, shown, control') /\ Neat(shown) /\ Kept(Messages, shown)
  <2>1. /\ Messages = r.working /\ Unsettled(Last(r.working)) /\ ~control.stopped
        /\ control.source = r.conn
    BY <1>4, <1>8 DEF Lone
  <2>2. Neat(shown) /\ Kept(r.working, shown)
    BY <1>3, <1>5, <1>8, <2>1, LastNeat
  <2>3. Lone(n, shown, control')
    BY <1>4, <1>5, <1>6, <2>1 DEF Lone, Unsettled
  <2> QED BY <2>1, <2>2, <2>3
<1>9. GoesOn(r)
  BY <1>1, <1>4, <1>5, <1>7, <1>8, ControlStays DEF GoesOn, Writes
<1> QED BY <1>1, <1>9 DEF Proceeds

\* The parts of a run.
Fit(r, k, n) ==
    /\ Shape(r)
    /\ r.id \in 1..k /\ r.pc \in Waiting /\ r.working \in Seq(MessageOf(k, n))
    /\ r.step \in 0..(MAX_AGENT_STEPS - 1) /\ r.retry \in 0..MAX_STREAM_RETRIES
    /\ r.conn \in 1..n /\ r.calls \in CallSets(n) /\ r.results \in CallSets(n)
    /\ r.todo \in CallSets(n) /\ r.toolKey \in 0..k /\ r.granted \in BOOLEAN
    /\ r.working # << >> /\ Last(r.working).from = "assistant"

Parts(r, k, n) ==
    /\ Fit(r, k, n)
    /\ r.pc \notin {"stream", "retry", "review"} => r.toolKey # None

LEMMA PartsLemma ==
    ASSUME NEW r, NEW k, NEW n
    PROVE  r \in RunOf(k, n) <=> Parts(r, k, n)
<1>1. ASSUME r \in RunOf(k, n) PROVE Parts(r, k, n)
  BY <1>1, RunTypes DEF Parts, Fit
<1>2. ASSUME Parts(r, k, n) PROVE r \in RunOf(k, n)
  BY <1>2, RunMade DEF Parts, Fit
<1> QED BY <1>1, <1>2

\* The run of a step, before and after.
LEMMA RunParts ==
    ASSUME ShapeInv, Grows, NEW r \in runs
    PROVE  Parts(r, lastKey, opened) /\ Parts(r, lastKey', opened')
BY RunNow, PartsLemma

\* The answer is final.
Final(msg, content, calls) ==
    [msg EXCEPT !.content = content, !.status = "complete", !.calls = calls]

LEMMA AnswerParts ==
    ASSUME NEW k, NEW n, NEW msg \in MessageOf(k, n), NEW content, Origins(content, n),
           NEW calls \in CallSets(n), NEW new,
           new = Final(msg, content, calls)
    PROVE  /\ new \in MessageOf(k, n) /\ new.key = msg.key /\ new.from = msg.from
           /\ new.content = content /\ new.status = "complete"
<1> DEFINE a == [msg EXCEPT !.content = content]
           b == [a EXCEPT !.status = "complete"]
           c == [b EXCEPT !.calls = calls]
<1>0. new = c
  BY DEF Final
<1>1. a = [key |-> msg.key, from |-> msg.from, status |-> msg.status,
           content |-> content, reconnecting |-> msg.reconnecting,
           calls |-> msg.calls, pending |-> msg.pending]
  BY DEF MessageOf
<1>2. b = [key |-> msg.key, from |-> msg.from, status |-> "complete",
           content |-> content, reconnecting |-> msg.reconnecting,
           calls |-> msg.calls, pending |-> msg.pending]
  <2> HIDE DEF a
  <2> QED BY <1>1
<1>3. c = [key |-> msg.key, from |-> msg.from, status |-> "complete",
           content |-> content, reconnecting |-> msg.reconnecting,
           calls |-> calls, pending |-> msg.pending]
  <2> HIDE DEF b
  <2> QED BY <1>2
<1> HIDE DEF c
<1>4. c \in MessageOf(k, n)
  BY <1>3 DEF MessageOf, Status, Origins, CallSets
<1>5. /\ c.key = msg.key /\ c.from = msg.from /\ c.content = content
      /\ c.status = "complete"
  BY <1>3
<1> QED BY <1>0, <1>4, <1>5

\* The final answer of a stream.
FinalOf(ms, content, calls) ==
    [ms EXCEPT ![Len(ms)] = [@ EXCEPT !.content = content, !.status = "complete",
                                      !.calls = calls]]

LEMMA FinalLemma ==
    ASSUME NEW k, NEW n \in Nat, NEW ms \in Seq(MessageOf(k, n)), ms # << >>,
           NEW content, Origins(content, n), NEW calls \in CallSets(n),
           NEW new, new = FinalOf(ms, content, calls)
    PROVE  /\ new \in Seq(MessageOf(k, n)) /\ Len(new) = Len(ms) /\ new # << >>
           /\ \A j \in DOMAIN ms : j # Len(ms) => new[j] = ms[j]
           /\ Last(new).from = Last(ms).from /\ Last(new).status = "complete"
           /\ Last(new).content = content /\ Last(new).key = Last(ms).key
<1>1. Last(ms) \in MessageOf(k, n) /\ Len(ms) \in 1..Len(ms) /\ Len(ms) \in Nat
      /\ Last(ms) = ms[Len(ms)]
  BY DEF Last
<1>0. PICK old : old = Last(ms)
  OBVIOUS
<1>7. PICK msg : msg = Final(old, content, calls)
  OBVIOUS
<1>2. /\ msg \in MessageOf(k, n) /\ msg.from = old.from /\ msg.status = "complete"
      /\ msg.content = content /\ msg.key = old.key
  <2>1. old \in MessageOf(k, n)
    BY <1>0, <1>1
  <2> QED BY <1>7, <2>1, AnswerParts
<1>3. new = [ms EXCEPT ![Len(ms)] = msg]
  BY <1>0, <1>1, <1>7 DEF FinalOf, Final
<1>4. new \in Seq(MessageOf(k, n)) /\ Len(new) = Len(ms)
      /\ \A j \in 1..Len(ms) : new[j] = IF j = Len(ms) THEN msg ELSE ms[j]
  BY <1>1, <1>2, <1>3, ExceptSeq
<1>5. Last(new) = msg
  BY <1>1, <1>4 DEF Last
<1>6. new # << >>
  BY <1>1, <1>4
<1> QED BY <1>0, <1>1, <1>2, <1>4, <1>5, <1>6

\* A run that is done after an update.
LEMMA EndsIf ==
    ASSUME ShapeInv, Grows, UNCHANGED reloads, NEW r,
           NEW ctl \in ControlOf(lastKey', opened'), NEW ms \in Seq(MessageOf(lastKey', opened')),
           EndRun(r, ctl), Writes(ms),
           Lone(r, Messages, control) /\ Neat(Messages) =>
              ~ctl.stopped /\ Calm(ms) /\ Neat(ms) /\ Kept(Messages, ms)
    PROVE  Proceeds(r)
BY DEF Proceeds, Ends

\* A run that goes on after an update.
LEMMA GoesOnIf ==
    ASSUME ShapeInv, Grows, UNCHANGED reloads, NEW r,
           NEW n, Parts(n, lastKey', opened'), NEW ms \in Seq(MessageOf(lastKey', opened')),
           runs' = (runs \ {r}) \cup {n}, Writes(ms), isAgentRunning' = isAgentRunning,
           control' \in ControlOf(lastKey', opened'),
           Lone(r, Messages, control) /\ Neat(Messages) =>
              Lone(n, ms, control') /\ Neat(ms) /\ Kept(Messages, ms)
    PROVE  Proceeds(r)
BY PartsLemma DEF Proceeds, GoesOn

\* The answer is final: the run ends, has its calls reviewed, or starts them.
LEMMA CompletedProceeds ==
    ASSUME ShapeInv, NEW r \in runs, ReceiveCompleted(r)
    PROVE  Proceeds(r)
<1>0. CountInv /\ AgentShape /\ lastKey \in Nat /\ opened \in Nat
  BY DEF ShapeInv, CountInv
<1>1. PICK tools \in Answers :
        LET text == Last(r.working).content \cap {r.conn}
            items == {r.conn} \X tools
            calls == {c \in items : c[2] # "unknown"}
            final == FinalOf(r.working, text, items)
            next == [r EXCEPT !.working = final, !.calls = calls]
        IN  /\ r.pc = "stream"
            /\ \/ /\ updateMessages(final)
                  /\ EndRun(r, Closed(r))
                  /\ UNCHANGED lastKey
               \/ /\ updateMessages(final)
                  /\ runs' = (runs \ {r}) \cup {[next EXCEPT !.pc = "review"]}
                  /\ control' = Closed(r)
                  /\ UNCHANGED << isAgentRunning, lastKey >>
               \/ /\ lastKey' = lastKey + 1
                  /\ updateMessages(Append(final, toolMessage(lastKey + 1, calls, FALSE)))
                  /\ \E first \in FirstCalls(calls) :
                        runs' = (runs \ {r}) \cup
                                   {[next EXCEPT !.pc = "tools", !.results = first,
                                        !.todo = first, !.toolKey = lastKey + 1]}
                  /\ control' = Closed(r)
                  /\ UNCHANGED isAgentRunning
            /\ UNCHANGED << reloads, opened >>
  BY DEF ReceiveCompleted, FinalOf
<1> DEFINE text == Last(r.working).content \cap {r.conn}
           items == {r.conn} \X tools
           calls == {c \in items : c[2] # "unknown"}
           final == FinalOf(r.working, text, items)
           next == [r EXCEPT !.working = final, !.calls = calls]
           card == toolMessage(lastKey + 1, calls, FALSE)
<1>2. r.pc = "stream" /\ UNCHANGED << reloads, opened >> /\ (lastKey' = lastKey \/ lastKey' = lastKey + 1)
  BY <1>1
<1>3. Grows
  BY <1>0, <1>2 DEF Grows
<1>4. Parts(r, lastKey, opened) /\ Parts(r, lastKey', opened')
  BY <1>3, RunParts
<1>5. Origins(text, opened) /\ items \in CallSets(opened) /\ calls \in CallSets(opened)
      /\ \A x, y \in text : x = y
  <2>1. r.conn \in 1..opened
    BY <1>4 DEF Parts, Fit
  <2>2. tools \subseteq Tools
    BY AgentAssumption
  <2> QED BY <1>0, <2>1, <2>2 DEF Origins, CallSets
<1> HIDE DEF text, items, calls
<1>6. /\ final \in Seq(MessageOf(lastKey', opened')) /\ Len(final) = Len(r.working) /\ final # << >>
      /\ \A j \in DOMAIN r.working : j # Len(r.working) => final[j] = r.working[j]
      /\ Last(final).from = "assistant" /\ Last(final).status = "complete"
      /\ Last(final).content = text
  <2>1. /\ r.working \in Seq(MessageOf(lastKey', opened')) /\ r.working # << >>
        /\ Last(r.working).from = "assistant" /\ opened' \in Nat /\ Origins(text, opened')
        /\ items \in CallSets(opened')
    BY <1>0, <1>2, <1>4, <1>5 DEF Parts, Fit
  <2> QED BY <2>1, FinalLemma
<1> HIDE DEF final
<1>7. ASSUME Lone(r, Messages, control), Neat(Messages)
      PROVE  ~control.stopped /\ Neat(final) /\ Calm(final) /\ Kept(Messages, final)
  <2>1. Messages = r.working /\ Unsettled(Last(r.working)) /\ ~control.stopped
    BY <1>2, <1>7 DEF Lone
  <2>2. ~Unsettled(Last(final)) /\ \A x, y \in Last(final).content : x = y
    BY <1>5, <1>6 DEF Unsettled
  <2>3. r.working \in Seq(MessageOf(lastKey', opened')) /\ r.working # << >>
    BY <1>4 DEF Parts, Fit
  <2> QED BY <1>6, <1>7, <2>1, <2>2, <2>3, LastNeat
<1>8. /\ Closed(r) \in ControlOf(lastKey, opened) /\ Closed(r) \in ControlOf(lastKey', opened')
      /\ Closed(r).stopped = control.stopped
  <2>1. control \in ControlOf(lastKey, opened) /\ control \in ControlOf(lastKey', opened')
    BY <1>3, ControlStays
  <2> QED BY <1>0, <1>3, <2>1, ClosedTyped DEF ControlOf, Grows
<1>9. CASE updateMessages(final) /\ EndRun(r, Closed(r))
  BY <1>2, <1>3, <1>6, <1>7, <1>8, <1>9, EndsIf DEF Writes
<1>10. CASE /\ updateMessages(final)
            /\ runs' = (runs \ {r}) \cup {[next EXCEPT !.pc = "review"]}
            /\ control' = Closed(r)
            /\ UNCHANGED isAgentRunning
  <2> DEFINE n == [next EXCEPT !.pc = "review"]
  <2>1. /\ Shape(n) /\ n.working = final /\ n.pc = "review" /\ n.calls = calls
        /\ n.id = r.id /\ n.step = r.step /\ n.retry = r.retry
        /\ n.conn = r.conn /\ n.results = r.results
        /\ n.todo = r.todo /\ n.toolKey = r.toolKey /\ n.granted = r.granted
    BY <1>4 DEF Parts, Fit, Shape, Fields
  <2>2. runs' = (runs \ {r}) \cup {n}
    BY <1>10
  <2> HIDE DEF n
  <2>3. Parts(n, lastKey', opened')
    BY <1>2, <1>4, <1>5, <1>6, <2>1 DEF Parts, Fit, Waiting
  <2>4. ASSUME Lone(r, Messages, control), Neat(Messages)
        PROVE  Lone(n, final, control') /\ Neat(final) /\ Kept(Messages, final)
    <3>1. ~control.stopped /\ Neat(final) /\ Calm(final) /\ Kept(Messages, final)
      BY <1>7, <2>4
    <3>2. ~control'.stopped
      BY <1>8, <1>10, <3>1
    <3> QED BY <2>1, <3>1, <3>2 DEF Lone
  <2> QED BY <1>2, <1>3, <1>6, <1>8, <1>10, <2>2, <2>3, <2>4, GoesOnIf DEF Writes
<1>11. ASSUME lastKey' = lastKey + 1, updateMessages(Append(final, card)),
              NEW first \in FirstCalls(calls),
              runs' = (runs \ {r}) \cup {[next EXCEPT !.pc = "tools", !.results = first,
                                             !.todo = first, !.toolKey = lastKey + 1]},
              control' = Closed(r), UNCHANGED isAgentRunning
       PROVE  Proceeds(r)
  <2> DEFINE n == [next EXCEPT !.pc = "tools", !.results = first, !.todo = first,
                               !.toolKey = lastKey + 1]
             ms == Append(final, card)
  <2>1. /\ Shape(n) /\ n.working = final /\ n.pc = "tools" /\ n.calls = calls
        /\ n.id = r.id /\ n.step = r.step /\ n.retry = r.retry
        /\ n.conn = r.conn /\ n.results = first
        /\ n.todo = first /\ n.toolKey = lastKey + 1 /\ n.granted = r.granted
    BY <1>4 DEF Parts, Fit, Shape, Fields
  <2>2. runs' = (runs \ {r}) \cup {n}
    BY <1>11
  <2> HIDE DEF n
  <2>3. first \in CallSets(opened') /\ lastKey + 1 \in 1..lastKey'
    BY <1>0, <1>2, <1>5, <1>11 DEF CallSets, FirstCalls
  <2>4. Parts(n, lastKey', opened')
    BY <1>0, <1>2, <1>4, <1>5, <1>6, <2>1, <2>3 DEF Parts, Fit, Waiting, None
  <2>5. card \in MessageOf(lastKey', opened')
    BY <1>0, <1>2, <1>3, <1>5, <2>3, MessagesMade DEF Grows, CallSets
  <2>6. card.from = "tool" /\ \A x, y \in card.content : x = y
    BY ToolMessageLemma
  <2> HIDE DEF card
  <2>7. ms \in Seq(MessageOf(lastKey', opened'))
    BY <1>6, <2>5
  <2>8. ASSUME Lone(r, Messages, control), Neat(Messages)
        PROVE  Lone(n, ms, control') /\ Neat(ms) /\ Kept(Messages, ms)
    <3>1. ~control.stopped /\ Neat(final) /\ Calm(final) /\ Kept(Messages, final)
      BY <1>7, <2>8
    <3>2. ~control'.stopped
      BY <1>8, <1>11, <3>1
    <3>3. Neat(ms) /\ Kept(Messages, ms)
      BY <1>6, <2>6, <3>1, CardNeat, KeptAppend
    <3> QED BY <2>1, <2>6, <3>1, <3>2, <3>3 DEF Lone
  <2>9. updateMessages(ms)
    BY <1>11
  <2> HIDE DEF ms
  <2> QED BY <1>2, <1>3, <1>8, <1>11, <2>2, <2>4, <2>7, <2>8, <2>9, GoesOnIf DEF Writes
<1>12. CASE /\ lastKey' = lastKey + 1
            /\ updateMessages(Append(final, card))
            /\ \E first \in FirstCalls(calls) :
                  runs' = (runs \ {r}) \cup
                             {[next EXCEPT !.pc = "tools", !.results = first,
                                  !.todo = first, !.toolKey = lastKey + 1]}
            /\ control' = Closed(r)
            /\ UNCHANGED isAgentRunning
  BY <1>11, <1>12
<1> QED BY <1>1, <1>9, <1>10, <1>12 DEF text, items, calls, final, card

\* A failed stream is tried again or ends the run.
LEMMA FailsProceeds ==
    ASSUME ShapeInv, NEW r \in runs, NEW retryable, StreamFails(r, retryable)
    PROVE  Proceeds(r)
<1>0. CountInv /\ AgentShape /\ lastKey \in Nat /\ opened \in Nat
  BY DEF ShapeInv, CountInv
<1>1. r.pc = "stream" /\ Grows /\ UNCHANGED << reloads, opened, lastKey >>
  BY <1>0, UnchangedGrows DEF StreamFails
<1>2. Parts(r, lastKey, opened)
  BY <1>1, RunParts
<1>3. /\ Closed(r) \in ControlOf(lastKey, opened) /\ Closed(r).stopped = control.stopped
  BY <1>0, <1>1, ControlStays, ClosedTyped DEF ControlOf
<1>4. ASSUME NEW shown, NEW status \in Status, TextOf(r.working, {PageText}, status, shown)
      PROVE  /\ shown \in Seq(MessageOf(lastKey, opened)) /\ Last(shown).from = "assistant"
             /\ Last(shown).status = status /\ shown # << >>
             /\ Lone(r, Messages, control) /\ Neat(Messages) =>
                   /\ Neat(shown) /\ Kept(Messages, shown) /\ ~control.stopped
                   /\ ~Unsettled(Last(shown)) => Calm(shown)
  <2>0. r.working \in Seq(MessageOf(lastKey, opened)) /\ r.working # << >>
        /\ Last(r.working).from = "assistant"
    BY <1>2 DEF Parts, Fit
  <2>1. Origins({PageText}, opened)
    BY <1>0 DEF Origins, PageText
  <2>2. /\ shown \in Seq(MessageOf(lastKey, opened)) /\ shown # << >>
        /\ Len(shown) = Len(r.working)
        /\ \A j \in DOMAIN r.working : j # Len(r.working) => shown[j] = r.working[j]
        /\ Last(shown).from = "assistant" /\ Last(shown).status = status
        /\ Last(shown).content = {PageText}
    BY <1>0, <1>4, <2>0, <2>1, LastContentLemma
  <2>3. ASSUME Lone(r, Messages, control), Neat(Messages)
        PROVE  /\ Neat(shown) /\ Kept(Messages, shown) /\ ~control.stopped
               /\ ~Unsettled(Last(shown)) => Calm(shown)
    <3>1. Messages = r.working /\ Unsettled(Last(r.working)) /\ ~control.stopped
      BY <1>1, <2>3 DEF Lone
    <3>2. \A x, y \in Last(shown).content : x = y
      BY <2>2
    <3> QED BY <2>0, <2>2, <2>3, <3>1, <3>2, LastNeat
  <2> QED BY <2>2, <2>3
<1>5. "loading" \in Status /\ "error" \in Status
  BY DEF Status
<1>6. ASSUME NEW shown, shown = LastContent(r.working, {PageText}, "loading", TRUE),
             r.retry < MAX_STREAM_RETRIES, updateMessages(shown),
             runs' = (runs \ {r}) \cup
                        {[r EXCEPT !.pc = "retry", !.retry = @ + 1, !.working = shown]},
             control' = [Closed(r) EXCEPT !.retryTimer = r.id],
             UNCHANGED isAgentRunning
      PROVE  Proceeds(r)
  <2>0. TextOf(r.working, {PageText}, "loading", shown)
    BY <1>6, TextOfBoth, Zenon
  <2>1. /\ shown \in Seq(MessageOf(lastKey, opened)) /\ Last(shown).from = "assistant"
        /\ Last(shown).status = "loading" /\ shown # << >>
        /\ Lone(r, Messages, control) /\ Neat(Messages) =>
              Neat(shown) /\ Kept(Messages, shown) /\ ~control.stopped
    BY <1>4, <1>5, <2>0
  <2> DEFINE n == [r EXCEPT !.pc = "retry", !.retry = @ + 1, !.working = shown]
  <2>2. /\ Shape(n) /\ n.working = shown /\ n.pc = "retry" /\ n.retry = r.retry + 1
        /\ n.id = r.id /\ n.step = r.step /\ n.calls = r.calls
        /\ n.conn = r.conn /\ n.results = r.results
        /\ n.todo = r.todo /\ n.toolKey = r.toolKey /\ n.granted = r.granted
    BY <1>2 DEF Parts, Fit, Shape, Fields
  <2>3. runs' = (runs \ {r}) \cup {n}
    BY <1>6
  <2> HIDE DEF n
  <2>4. r.retry + 1 \in 0..MAX_STREAM_RETRIES
    BY <1>2, <1>6, StateAssumption DEF Parts, Fit
  <2>5. Parts(n, lastKey, opened)
    BY <1>2, <2>1, <2>2, <2>4 DEF Parts, Fit, Waiting
  <2>6. control' \in ControlOf(lastKey, opened) /\ control'.stopped = control.stopped
        /\ control'.retryTimer = r.id
    <3>1. r.id \in 0..lastKey
      BY <1>0, <1>2 DEF Parts, Fit
    <3>2. control' = [source |-> Closed(r).source, retryTimer |-> r.id,
                      stopped |-> Closed(r).stopped]
      BY <1>3, <1>6 DEF ControlOf
    <3> QED BY <1>3, <3>1, <3>2 DEF ControlOf
  <2>7. ASSUME Lone(r, Messages, control), Neat(Messages)
        PROVE  Lone(n, shown, control') /\ Neat(shown) /\ Kept(Messages, shown)
    <3>1. Neat(shown) /\ Kept(Messages, shown) /\ ~control.stopped
      BY <2>1, <2>7
    <3>2. Lone(n, shown, control')
      BY <2>1, <2>2, <2>6, <3>1 DEF Lone, Unsettled
    <3> QED BY <3>1, <3>2
  <2> QED BY <1>1, <1>6, <2>1, <2>3, <2>5, <2>6, <2>7, GoesOnIf DEF Writes
<1>7. ASSUME NEW shown, shown = LastContent(r.working, {PageText}, "error", FALSE),
             updateMessages(shown), EndRun(r, Closed(r))
      PROVE  Proceeds(r)
  <2>0. TextOf(r.working, {PageText}, "error", shown)
    BY <1>7, TextOfBoth, Zenon
  <2>1. /\ shown \in Seq(MessageOf(lastKey, opened)) /\ Last(shown).status = "error"
        /\ Lone(r, Messages, control) /\ Neat(Messages) =>
              /\ Neat(shown) /\ Kept(Messages, shown) /\ ~control.stopped
              /\ ~Unsettled(Last(shown)) => Calm(shown)
    BY <1>4, <1>5, <2>0
  <2>2. ~Unsettled(Last(shown))
    BY <2>1 DEF Unsettled
  <2>3. Lone(r, Messages, control) /\ Neat(Messages) =>
           ~Closed(r).stopped /\ Calm(shown) /\ Neat(shown) /\ Kept(Messages, shown)
    BY <1>3, <2>1, <2>2
  <2> QED BY <1>1, <1>3, <1>7, <2>1, <2>3, EndsIf DEF Writes
<1> QED BY <1>6, <1>7 DEF StreamFails

\* A stream that finds the run stopped ends it.
LEMMA StoppedProceeds ==
    ASSUME ShapeInv, NEW r \in runs, StreamStopped(r)
    PROVE  Proceeds(r)
<1>0. PageInv /\ CountInv
  BY DEF ShapeInv
<1>1. /\ control.stopped /\ UNCHANGED << conversationVars, reloads, opened, lastKey >>
      /\ Grows
  BY <1>0, UnchangedGrows DEF StreamStopped, stateVars
<1>2. EndRun(r, control) /\ control \in ControlOf(lastKey', opened')
  BY <1>1, ControlStays DEF StreamStopped, EndRun
<1>3. Messages \in Seq(MessageOf(lastKey', opened')) /\ Writes(Messages)
  BY <1>0, <1>1, MessagesTyped DEF Writes
<1>4. ~Lone(r, Messages, control)
  BY <1>1 DEF Lone
<1> QED BY <1>1, <1>2, <1>3, <1>4, EndsIf

\* A run with a connection more.
LEMMA OpenLemma ==
    ASSUME ShapeInv, NEW r \in runs, NEW next, OpenStream(r, next), UNCHANGED reloads,
           lastKey' \in Nat, lastKey <= lastKey', Fit(next, lastKey', opened'),
           NEW ms \in Seq(MessageOf(lastKey', opened')), Writes(ms),
           ~control.stopped,
           Lone(r, Messages, control) /\ Neat(Messages) =>
              /\ ms = next.working /\ Unsettled(Last(ms)) /\ Neat(ms) /\ Kept(Messages, ms)
    PROVE  Proceeds(r)
<1>0. CountInv /\ lastKey \in Nat /\ opened \in Nat /\ opened' = opened + 1
  BY DEF ShapeInv, CountInv, OpenStream
<1>1. Grows
  BY <1>0 DEF Grows
<1> DEFINE n == [next EXCEPT !.pc = "stream", !.conn = opened + 1]
<1>2. /\ Shape(n) /\ n.pc = "stream" /\ n.conn = opened + 1
      /\ n.working = next.working /\ n.retry = next.retry
      /\ n.id = next.id /\ n.step = next.step /\ n.calls = next.calls
      /\ n.results = next.results
      /\ n.todo = next.todo /\ n.toolKey = next.toolKey /\ n.granted = next.granted
  BY DEF Parts, Fit, Shape, Fields
<1>3. runs' = (runs \ {r}) \cup {n} /\ UNCHANGED isAgentRunning
  BY DEF OpenStream
<1> HIDE DEF n
<1>4. Parts(n, lastKey', opened')
  BY <1>0, <1>2 DEF Parts, Fit, Waiting
<1>5. /\ control' \in ControlOf(lastKey', opened') /\ control'.stopped = control.stopped
      /\ control'.source = opened + 1
  <2> DEFINE t == IF r.pc = "retry" THEN None ELSE control.retryTimer
             a == [control EXCEPT !.source = opened + 1]
             b == [a EXCEPT !.retryTimer = t]
  <2>1. control \in ControlOf(lastKey', opened')
    BY <1>1, ControlStays
  <2>2. control' = [source |-> opened + 1, retryTimer |-> t, stopped |-> control.stopped]
    <3>1. a = [source |-> opened + 1, retryTimer |-> control.retryTimer,
               stopped |-> control.stopped]
      BY <2>1 DEF ControlOf
    <3>2. control' = b
      BY <3>1 DEF OpenStream
    <3> HIDE DEF a, t
    <3> QED BY <3>1, <3>2
  <2>3. t \in 0..lastKey' /\ opened + 1 \in 0..opened' /\ control.stopped \in BOOLEAN
    BY <1>0, <1>1, <2>1 DEF None, ControlOf, Grows
  <2> HIDE DEF t
  <2> QED BY <2>2, <2>3 DEF ControlOf
<1>6. ASSUME Lone(r, Messages, control), Neat(Messages)
      PROVE  Lone(n, ms, control') /\ Neat(ms) /\ Kept(Messages, ms)
  <2>1. Lone(n, ms, control')
    BY <1>2, <1>5, <1>6 DEF Lone
  <2> QED BY <1>6, <2>1
<1> QED BY <1>1, <1>3, <1>4, <1>5, <1>6, GoesOnIf

\* The timer of a reconnection.
LEMMA TimerProceeds ==
    ASSUME ShapeInv, NEW r \in runs, RetryTimer(r)
    PROVE  Proceeds(r)
<1>0. PageInv /\ CountInv /\ lastKey \in Nat /\ opened \in Nat
  BY DEF ShapeInv, CountInv
<1>1. r.pc = "retry" /\ UNCHANGED << conversationVars, reloads, lastKey >>
  BY DEF RetryTimer
<1>2. CASE control.stopped
  <2>1. EndRun(r, [control EXCEPT !.retryTimer = None]) /\ UNCHANGED opened /\ Grows
    BY <1>0, <1>1, <1>2, UnchangedGrows DEF RetryTimer
  <2>2. [control EXCEPT !.retryTimer = None] \in ControlOf(lastKey', opened')
    BY <2>1, <1>0, <1>1, ControlStays DEF ControlOf, None
  <2>3. Messages \in Seq(MessageOf(lastKey', opened')) /\ Writes(Messages)
    BY <1>0, <1>1, <2>1, MessagesTyped DEF Writes
  <2>4. ~Lone(r, Messages, control)
    BY <1>2 DEF Lone
  <2> QED BY <1>1, <2>1, <2>2, <2>3, <2>4, EndsIf
<1>3. CASE ~control.stopped
  <2>1. OpenStream(r, r) /\ Grows
    BY <1>0, <1>1, <1>3 DEF RetryTimer, OpenStream, Grows
  <2>2. Fit(r, lastKey', opened')
    BY <2>1, RunParts DEF Parts
  <2>3. Messages \in Seq(MessageOf(lastKey', opened')) /\ Writes(Messages)
    <3>1. MessageOf(lastKey, opened) \subseteq MessageOf(lastKey', opened')
      BY <1>0, <2>1, MessageGrows DEF Grows
    <3> QED BY <1>0, <1>1, <3>1, MessagesTyped, SeqMonotonic DEF Writes
  <2>4. Lone(r, Messages, control) => Messages = r.working /\ Unsettled(Last(Messages))
    BY <1>1 DEF Lone
  <2> QED BY <1>0, <1>1, <1>3, <2>1, <2>2, <2>3, <2>4, KeptSame, OpenLemma
<1> QED BY <1>2, <1>3

\* The messages of a run with a card of tool calls.
LEMMA RunWithCard ==
    ASSUME ShapeInv, Grows, NEW r \in runs, NEW key \in 1..lastKey', NEW calls \in CallSets(opened'),
           NEW pending, Flag(pending), NEW ms,
           ms = Append(r.working, toolMessage(key, calls, pending))
    PROVE  /\ ms \in Seq(MessageOf(lastKey', opened'))
           /\ \E card : card.from = "tool" /\ ms = Append(r.working, card)
           /\ Neat(r.working) /\ Calm(r.working) => Neat(ms)
           /\ r.pc = "review" /\ Lone(r, Messages, control) /\ Neat(Messages) => Kept(Messages, ms)
           /\ r.pc \notin {"stream", "retry", "review"} /\ Lone(r, Messages, control) => Kept(Messages, ms)
<1> DEFINE card == toolMessage(key, calls, pending)
<1>1. r.working \in Seq(MessageOf(lastKey', opened'))
  BY RunParts DEF Parts, Fit
<1>2. card \in MessageOf(lastKey', opened')
  <2>1. lastKey' \in Nat /\ opened' \in Nat /\ pending \in BOOLEAN /\ calls \subseteq (1..opened') \X Tools
    BY DEF Grows, Flag, CallSets
  <2> QED BY <2>1, MessagesMade
<1>3. card.from = "tool" /\ \A x, y \in card.content : x = y
  BY ToolMessageLemma
<1> HIDE DEF card
<1>0. ms = Append(r.working, card)
  BY DEF card
<1>4. ms \in Seq(MessageOf(lastKey', opened'))
  BY <1>0, <1>1, <1>2
<1>5. Neat(r.working) /\ Calm(r.working) => Neat(ms)
  BY <1>0, <1>1, <1>3, CardNeat
<1>6. ASSUME r.pc = "review", Lone(r, Messages, control), Neat(Messages)
      PROVE  Kept(Messages, ms)
  <2>1. Messages = r.working
    BY <1>6 DEF Lone
  <2> QED BY <1>0, <1>1, <2>1, KeptSame, KeptAppend
<1>7. ASSUME r.pc \notin {"stream", "retry", "review"}, Lone(r, Messages, control)
      PROVE  Kept(Messages, ms)
  <2>1. PICK old : old.from = "tool" /\ Messages = Append(r.working, old)
    BY <1>7 DEF Lone
  <2> QED BY <1>0, <1>1, <1>3, <2>1, CardKept
<1> QED BY <1>0, <1>3, <1>4, <1>5, <1>6, <1>7

\* What the page shows of a run whose answer is final.
LEMMA LoneCalm ==
    ASSUME ShapeInv, NEW r \in runs, r.pc \notin {"stream", "retry"},
           Lone(r, Messages, control), Neat(Messages)
    PROVE  Calm(r.working) /\ Neat(r.working) /\ ~control.stopped
<1>1. Calm(r.working) /\ ~control.stopped
  BY DEF Lone
<1>2. CASE r.pc = "review"
  BY <1>1, <1>2 DEF Lone
<1>3. CASE r.pc # "review"
  <2>1. PICK old : old.from = "tool" /\ Messages = Append(r.working, old)
    BY <1>3 DEF Lone
  <2>2. r.working \in Seq(MessageOf(lastKey, opened))
    BY RunOfRuns, PartsLemma DEF Parts, Fit
  <2> QED BY <1>1, <2>1, <2>2, NeatPart
<1> QED BY <1>2, <1>3

\* The calls are shown to the user.
LEMMA RequestProceeds ==
    ASSUME ShapeInv, NEW r \in runs, RequestApproval(r)
    PROVE  Proceeds(r)
<1>0. CountInv /\ lastKey \in Nat /\ opened \in Nat
  BY DEF ShapeInv, CountInv
<1>1. /\ r.pc = "review" /\ lastKey' = lastKey + 1
      /\ UNCHANGED << isAgentRunning, control, reloads, opened >>
  BY DEF RequestApproval
<1>2. Grows /\ lastKey + 1 \in 1..lastKey'
  BY <1>0, <1>1 DEF Grows
<1>3. Parts(r, lastKey, opened) /\ Parts(r, lastKey', opened')
  BY <1>2, RunParts
<1> DEFINE ms == Append(r.working, toolMessage(lastKey + 1, r.calls, TRUE))
           n == [r EXCEPT !.pc = "approval", !.toolKey = lastKey + 1]
<1>4. updateMessages(ms) /\ runs' = (runs \ {r}) \cup {n}
  BY DEF RequestApproval
<1>5. /\ Shape(n) /\ n.pc = "approval" /\ n.toolKey = lastKey + 1
      /\ n.working = r.working /\ n.retry = r.retry
      /\ n.id = r.id /\ n.step = r.step /\ n.calls = r.calls
      /\ n.conn = r.conn /\ n.results = r.results
      /\ n.todo = r.todo /\ n.granted = r.granted
  BY <1>3 DEF Parts, Fit, Shape, Fields
<1> HIDE DEF n
<1>6. Parts(n, lastKey', opened')
  BY <1>0, <1>2, <1>3, <1>5 DEF Parts, Fit, Waiting, None
<1>7. PICK key, pending : /\ key \in 1..lastKey' /\ Flag(pending)
                          /\ ms = Append(r.working, toolMessage(key, r.calls, pending))
  BY <1>2, Flags, Zenon
<1> HIDE DEF ms
<1>8. /\ ms \in Seq(MessageOf(lastKey', opened'))
      /\ \E card : card.from = "tool" /\ ms = Append(r.working, card)
      /\ Neat(r.working) /\ Calm(r.working) => Neat(ms)
      /\ Lone(r, Messages, control) /\ Neat(Messages) => Kept(Messages, ms)
  <2>1. r.calls \in CallSets(opened')
    BY <1>3 DEF Parts, Fit
  <2>2. ms \in Seq(MessageOf(lastKey', opened'))
    BY <1>2, <1>7, <2>1, RunWithCard
  <2>3. \E card : card.from = "tool" /\ ms = Append(r.working, card)
    BY <1>2, <1>7, <2>1, RunWithCard
  <2>4. Neat(r.working) /\ Calm(r.working) => Neat(ms)
    BY <1>2, <1>7, <2>1, RunWithCard
  <2>5. Lone(r, Messages, control) /\ Neat(Messages) => Kept(Messages, ms)
    BY <1>1, <1>2, <1>7, <2>1, RunWithCard
  <2> QED BY <2>2, <2>3, <2>4, <2>5
<1>9. ASSUME Lone(r, Messages, control), Neat(Messages)
      PROVE  Lone(n, ms, control') /\ Neat(ms) /\ Kept(Messages, ms)
  <2>1. Calm(r.working) /\ Neat(r.working) /\ ~control.stopped
    BY <1>1, <1>9, LoneCalm
  <2>2. \A j \in DOMAIN r.working : r.working[j].key < lastKey + 1
    <3> SUFFICES ASSUME NEW j \in DOMAIN r.working
                 PROVE  r.working[j].key < lastKey + 1
      OBVIOUS
    <3>1. r.working[j] \in MessageOf(lastKey, opened)
      BY <1>3 DEF Parts, Fit
    <3>2. r.working[j].key \in 1..lastKey
      BY <3>1, MessageTypes
    <3> QED BY <1>0, <3>2
  <2>3. Lone(n, ms, control')
    BY <1>1, <1>5, <1>8, <2>1, <2>2 DEF Lone
  <2> QED BY <1>8, <1>9, <2>1, <2>3
<1>10. control' \in ControlOf(lastKey', opened')
  BY <1>1, <1>2, ControlStays
<1> QED BY <1>1, <1>2, <1>4, <1>6, <1>8, <1>9, <1>10, GoesOnIf DEF Writes

LEMMA AppendIs ==
    ASSUME NEW S, NEW w \in Seq(S), NEW ms \in Seq(S), Len(ms) = Len(w) + 1,
           \A j \in 1..Len(w) : ms[j] = w[j]
    PROVE  ms = Append(w, ms[Len(w) + 1])
<1>1. Append(w, ms[Len(w) + 1]) \in Seq(S)
  <2>1. ms[Len(w) + 1] \in S
    OBVIOUS
  <2> QED BY <2>1
<1> QED BY <1>1, SeqEqual

\* The answer of the user takes the card of the request away.
LEMMA ApproveProceeds ==
    ASSUME ShapeInv, NEW r \in runs, NEW approved \in BOOLEAN,
           handleApproveAgentToolCalls(r, approved)
    PROVE  Proceeds(r) /\ GoesOn(r)
<1>0. PageInv /\ CountInv /\ lastKey \in Nat /\ opened \in Nat
  BY DEF ShapeInv, CountInv
<1>1. /\ r.pc = "approval" /\ UNCHANGED << isAgentRunning, control, reloads, opened, lastKey >>
      /\ Grows
  BY <1>0, UnchangedGrows DEF handleApproveAgentToolCalls
<1>2. Parts(r, lastKey, opened) /\ Messages \in Seq(MessageOf(lastKey, opened))
  BY <1>0, <1>1, RunParts, MessagesTyped
<1> DEFINE M == MessageOf(lastKey, opened)
           ms == [i \in DOMAIN Messages |->
                     IF Messages[i].key = r.toolKey THEN [Messages[i] EXCEPT !.pending = FALSE]
                     ELSE Messages[i]]
<1>3. updateMessages(ms)
  BY DEF handleApproveAgentToolCalls
<1>4. \A j \in DOMAIN Messages :
         /\ ms[j] \in M /\ ms[j].from = Messages[j].from /\ ms[j].content = Messages[j].content
         /\ ms[j].status = Messages[j].status /\ ms[j].key = Messages[j].key
         /\ Messages[j].from # "tool" => ms[j] = Messages[j]
         /\ Messages[j].key # r.toolKey => ms[j] = Messages[j]
  <2> SUFFICES ASSUME NEW j \in DOMAIN Messages
               PROVE /\ ms[j] \in M /\ ms[j].from = Messages[j].from
                     /\ ms[j].content = Messages[j].content
                     /\ ms[j].status = Messages[j].status /\ ms[j].key = Messages[j].key
                     /\ Messages[j].from # "tool" => ms[j] = Messages[j]
                     /\ Messages[j].key # r.toolKey => ms[j] = Messages[j]
    OBVIOUS
  <2>0. PICK msg : msg = Messages[j]
    OBVIOUS
  <2>1. msg \in M
    BY <1>2, <2>0
  <2>2. PICK new : new = [msg EXCEPT !.pending = FALSE]
    OBVIOUS
  <2>3. /\ new \in M /\ new.key = msg.key /\ new.from = msg.from /\ new.content = msg.content
        /\ new.status = msg.status
        /\ msg.from # "tool" => new = msg
    BY <2>1, <2>2, PendingChanged
  <2>4. ms[j] = IF msg.key = r.toolKey THEN new ELSE msg
    BY <2>0, <2>2
  <2> HIDE DEF ms, M
  <2> QED BY <2>0, <2>1, <2>3, <2>4
<1>5. ms \in Seq(M) /\ Len(ms) = Len(Messages) /\ DOMAIN ms = DOMAIN Messages
  <2>1. DOMAIN ms = DOMAIN Messages /\ ms = [i \in DOMAIN Messages |-> ms[i]]
    OBVIOUS
  <2> HIDE DEF ms, M
  <2>2. Messages \in Seq(M)
    BY <1>2 DEF M
  <2> QED BY <1>4, <2>1, <2>2, SameLength
<1> HIDE DEF ms
<1>6. PICK n, pc : /\ pc \in {"approved", "denied"} /\ n = [r EXCEPT !.pc = pc, !.granted = approved]
                   /\ runs' = (runs \ {r}) \cup {n}
  <2>1. CASE approved
    BY <2>1 DEF handleApproveAgentToolCalls
  <2>2. CASE ~approved
    BY <2>2 DEF handleApproveAgentToolCalls
  <2> QED BY <2>1, <2>2
<1>7. /\ Shape(n) /\ n.pc = pc /\ n.granted = approved
      /\ n.toolKey = r.toolKey
      /\ n.working = r.working /\ n.retry = r.retry
      /\ n.id = r.id /\ n.step = r.step /\ n.calls = r.calls
      /\ n.conn = r.conn /\ n.results = r.results
      /\ n.todo = r.todo
  BY <1>2, <1>6 DEF Parts, Fit, Shape, Fields
<1>8. Parts(n, lastKey, opened)
  BY <1>1, <1>2, <1>6, <1>7 DEF Parts, Fit, Waiting
<1>9. ASSUME Lone(r, Messages, control), Neat(Messages)
      PROVE  Lone(n, ms, control') /\ Neat(ms) /\ Kept(Messages, ms)
  <2>1. Calm(r.working) /\ ~control.stopped /\ \A j \in DOMAIN r.working : r.working[j].key < r.toolKey
    BY <1>1, <1>9 DEF Lone
  <2>2. PICK card : card.from = "tool" /\ Messages = Append(r.working, card)
    BY <1>1, <1>9 DEF Lone
  <2>3. r.working \in Seq(M) /\ r.toolKey \in Nat
    BY <1>0, <1>2 DEF Parts, Fit
  <2>4. /\ Len(ms) = Len(r.working) + 1 /\ Len(r.working) \in Nat /\ DOMAIN r.working = 1..Len(r.working)
        /\ Len(r.working) + 1 \in DOMAIN Messages
        /\ Messages[Len(r.working) + 1] = card
        /\ \A j \in DOMAIN r.working : j \in DOMAIN Messages /\ Messages[j] = r.working[j]
    <3> HIDE DEF M
    <3> QED BY <1>5, <2>2, <2>3
  <2>5. \A j \in 1..Len(r.working) : ms[j] = r.working[j]
    <3> SUFFICES ASSUME NEW j \in 1..Len(r.working) PROVE ms[j] = r.working[j]
      OBVIOUS
    <3>1. r.working[j].key < r.toolKey /\ r.working[j].key \in Nat
      <4>1. r.working[j] \in M
        BY <2>3, <2>4
      <4>2. r.working[j].key \in 1..lastKey
        BY <4>1, MessageTypes
      <4> QED BY <1>0, <2>1, <2>4, <4>2
    <3>2. r.working[j].key # r.toolKey
      BY <2>3, <3>1
    <3> QED BY <1>4, <2>4, <3>2
  <2>6. ms = Append(r.working, ms[Len(r.working) + 1]) /\ ms[Len(r.working) + 1].from = "tool"
    <3>1. ms[Len(r.working) + 1].from = "tool"
      BY <1>4, <2>2, <2>4
    <3> QED BY <1>5, <2>3, <2>4, <2>5, <3>1, AppendIs
  <2>7. Lone(n, ms, control')
    BY <1>1, <1>6, <1>7, <2>1, <2>6 DEF Lone
  <2>8. Neat(ms)
    BY <1>4, <1>5, <1>9 DEF Neat, Unsettled
  <2>9. Kept(Messages, ms)
    BY <1>4, <1>5 DEF Kept
  <2> QED BY <2>7, <2>8, <2>9
<1>10. control' \in ControlOf(lastKey', opened')
  BY <1>1, ControlStays
<1>11. GoesOn(r)
  BY <1>1, <1>3, <1>5, <1>6, <1>8, <1>9, <1>10, PartsLemma DEF GoesOn, Writes, M
<1> QED BY <1>1, <1>11 DEF Proceeds

\* Two messages more.
Two(w, card, loading) == w \o << card, loading >>

LEMMA NextMessages ==
    ASSUME NEW S, NEW w \in Seq(S), NEW card \in S, NEW loading \in S, NEW ms,
           ms = Two(w, card, loading)
    PROVE  /\ ms \in Seq(S) /\ ms # << >> /\ Len(ms) = Len(w) + 2 /\ Len(w) \in Nat
           /\ Last(ms) = loading /\ ms[Len(w) + 1] = card /\ ms[Len(w) + 2] = loading
           /\ \A j \in 1..Len(w) : ms[j] = w[j]
<1>1. << card, loading >> \in Seq(S) /\ Len(<< card, loading >>) = 2
      /\ << card, loading >>[1] = card /\ << card, loading >>[2] = loading
  OBVIOUS
<1> DEFINE t == << card, loading >>
<1> HIDE DEF t
<1>2. /\ t \in Seq(S) /\ Len(t) = 2 /\ t[1] = card /\ t[2] = loading /\ ms = w \o t
  BY <1>1 DEF t, Two
<1>3. ms \in Seq(S) /\ Len(ms) = Len(w) + 2 /\ Len(w) \in Nat
  <2>1. w \o t \in Seq(S) /\ Len(w \o t) = Len(w) + Len(t) /\ Len(w) \in Nat
    BY <1>2, ConcatProperties, LenProperties
  <2> QED BY <1>2, <2>1
<1>4. ms[Len(w) + 1] = card /\ ms[Len(w) + 2] = loading /\ \A j \in 1..Len(w) : ms[j] = w[j]
  BY <1>2, <1>3
<1>5. Last(ms) = loading /\ ms # << >>
  BY <1>3, <1>4 DEF Last
<1> QED BY <1>3, <1>4, <1>5

\* Results of the tools and the loading message of the next answer.
LEMMA NextNeat ==
    ASSUME NEW S, NEW w \in Seq(S), NEW card \in S, NEW loading \in S, NEW ms \in Seq(S),
           ms = Two(w, card, loading), Calm(w), Neat(w), card.from = "tool",
           \A x, y \in card.content : x = y, \A x, y \in loading.content : x = y
    PROVE  /\ Neat(ms)
           /\ \A old : old.from = "tool" => Kept(Append(w, old), ms)
           /\ \A now \in Seq(S) :
                 /\ Len(now) = Len(ms)
                 /\ \A j \in DOMAIN ms : j # Len(ms) => now[j] = ms[j]
                 => \A old : old.from = "tool" => Kept(Append(w, old), now)
<1>1. /\ Len(ms) = Len(w) + 2 /\ Len(w) \in Nat /\ DOMAIN w = 1..Len(w)
      /\ ms[Len(w) + 1] = card /\ ms[Len(w) + 2] = loading
      /\ \A j \in 1..Len(w) : ms[j] = w[j]
  <2>1. ms = w \o << card, loading >>
    BY DEF Two
  <2>2. Len(ms) = Len(w) + 2 /\ Len(w) \in Nat
    BY NextMessages
  <2> QED BY <2>1, <2>2
<1>2. \A j \in DOMAIN ms : \/ j \in 1..Len(w) /\ ms[j] = w[j]
                           \/ j = Len(w) + 1 /\ ms[j] = card
                           \/ j = Len(ms) /\ ms[j] = loading
  BY <1>1
<1>3. Neat(ms)
  <2> SUFFICES ASSUME NEW j \in DOMAIN ms
               PROVE  (Unsettled(ms[j]) => j = Len(ms)) /\ \A x, y \in ms[j].content : x = y
    BY DEF Neat
  <2>1. CASE j \in 1..Len(w) /\ ms[j] = w[j]
    BY <1>1, <2>1 DEF Neat, Calm
  <2>2. CASE j = Len(w) + 1 /\ ms[j] = card
    BY <2>2 DEF Unsettled
  <2>3. CASE j = Len(ms) /\ ms[j] = loading
    BY <2>3
  <2> QED BY <1>2, <2>1, <2>2, <2>3
<1>4. ASSUME NEW now \in Seq(S), Len(now) = Len(ms), \A j \in 1..(Len(w) + 1) : now[j] = ms[j],
             NEW old, old.from = "tool"
      PROVE  Kept(Append(w, old), now)
  <2> DEFINE a == Append(w, old)
  <2>1. /\ DOMAIN a = 1..(Len(w) + 1) /\ a[Len(w) + 1] = old
        /\ \A j \in 1..Len(w) : a[j] = w[j]
    BY <1>1
  <2> HIDE DEF a
  <2>2. Kept(a, now)
    <3> SUFFICES ASSUME NEW j \in DOMAIN a
                 PROVE  /\ j \in DOMAIN now
                        /\ IF a[j].from = "tool" THEN now[j].from = "tool" ELSE now[j] = a[j]
      BY DEF Kept
    <3>0. j \in DOMAIN now
      BY <1>1, <1>4, <2>1
    <3>1. CASE j \in 1..Len(w)
      BY <1>1, <1>4, <2>1, <3>0, <3>1
    <3>2. CASE j = Len(w) + 1
      BY <1>1, <1>4, <2>1, <3>0, <3>2
    <3> QED BY <1>1, <2>1, <3>1, <3>2
  <2> QED BY <2>2 DEF a
<1>5. \A old : old.from = "tool" => Kept(Append(w, old), ms)
  BY <1>4
<1>6. ASSUME NEW now \in Seq(S), Len(now) = Len(ms),
             \A j \in DOMAIN ms : j # Len(ms) => now[j] = ms[j]
      PROVE  \A old : old.from = "tool" => Kept(Append(w, old), now)
  <2>1. \A j \in 1..(Len(w) + 1) : now[j] = ms[j]
    BY <1>1, <1>6
  <2> QED BY <1>4, <1>6, <2>1
<1> QED BY <1>3, <1>5, <1>6

LEMMA LoadingLemma ==
    ASSUME NEW key
    PROVE  /\ Unsettled(createLoadingAssistantMessage(key))
           /\ createLoadingAssistantMessage(key).from = "assistant"
           /\ createLoadingAssistantMessage(key).key = key
           /\ \A x, y \in createLoadingAssistantMessage(key).content : x = y
BY DEF Unsettled, createLoadingAssistantMessage

\* The tools are done.
LEMMA NextStepProceeds ==
    ASSUME ShapeInv, NEW r \in runs, r.pc \notin {"stream", "retry", "review"},
           NEW results \in CallSets(opened), NextStep(r, results), UNCHANGED reloads
    PROVE  Proceeds(r)
<1>0. CountInv /\ lastKey \in Nat /\ opened \in Nat
  BY DEF ShapeInv, CountInv
<1>1. lastKey' = lastKey + 2 /\ opened' \in {opened, opened + 1}
  BY DEF NextStep, OpenStream
<1>2. Grows /\ opened' \in Nat
  BY <1>0, <1>1 DEF Grows
<1>3. Parts(r, lastKey, opened) /\ Parts(r, lastKey', opened')
  BY <1>2, RunParts
<1> DEFINE M == MessageOf(lastKey', opened')
           card == toolMessage(CompletedKey(r), results, FALSE)
           loading == createLoadingAssistantMessage(lastKey + 2)
           next == r.working \o << card, loading >>
<1>4. card \in M /\ loading \in M
  <2>1. CompletedKey(r) \in 1..lastKey' /\ lastKey + 2 \in 1..lastKey'
    BY <1>0, <1>1, <1>3 DEF CompletedKey, Parts, Fit, None
  <2>2. results \subseteq (1..opened') \X Tools
    BY <1>0, <1>1 DEF CallSets
  <2> QED BY <1>2, <2>1, <2>2, MessagesMade DEF Grows
<1>5. /\ card.from = "tool" /\ Unsettled(loading) /\ loading.from = "assistant"
      /\ \A x, y \in card.content : x = y
      /\ \A x, y \in loading.content : x = y
  <2>1. card.from = "tool" /\ \A x, y \in card.content : x = y
    BY ToolMessageLemma
  <2>2. /\ Unsettled(loading) /\ loading.from = "assistant"
        /\ \A x, y \in loading.content : x = y
    BY LoadingLemma
  <2> QED BY <2>1, <2>2
<1> HIDE DEF card, loading
<1>6. r.working \in Seq(M)
  BY <1>3 DEF Parts, Fit
<1> HIDE DEF M, next
<1>8. next = Two(r.working, card, loading)
  BY DEF next, Two
<1>7. /\ next \in Seq(M) /\ next # << >> /\ Last(next) = loading
  BY <1>4, <1>6, <1>8, NextMessages
<1>9. ASSUME Lone(r, Messages, control), Neat(Messages)
      PROVE  /\ Neat(next) /\ Kept(Messages, next) /\ ~control.stopped
             /\ \A now \in Seq(M) :
                   /\ Len(now) = Len(next)
                   /\ \A j \in DOMAIN next : j # Len(next) => now[j] = next[j]
                   => Kept(Messages, now)
  <2>1. Calm(r.working) /\ Neat(r.working) /\ ~control.stopped
    BY <1>9, LoneCalm
  <2>2. PICK old : old.from = "tool" /\ Messages = Append(r.working, old)
    BY <1>9 DEF Lone
  <2> QED BY <1>4, <1>5, <1>6, <1>7, <1>8, <2>1, <2>2, NextNeat
<1>10. CASE updateMessages(next) /\ control.stopped /\ EndRun(r, control)
  <2>1. ~Lone(r, Messages, control)
    BY <1>10 DEF Lone
  <2>2. control \in ControlOf(lastKey', opened')
    BY <1>2, ControlStays
  <2> QED BY <1>2, <1>7, <1>10, <2>1, <2>2, EndsIf DEF Writes, M
<1>11. CASE /\ r.step + 1 < MAX_AGENT_STEPS /\ updateMessages(next) /\ ~control.stopped
            /\ OpenStream(r, [r EXCEPT !.working = next, !.step = @ + 1,
                                 !.retry = 0, !.calls = {}, !.results = {},
                                 !.todo = {}, !.toolKey = None, !.granted = FALSE])
  <2>0. PICK n : /\ n = [r EXCEPT !.working = next, !.step = @ + 1,
                                 !.retry = 0, !.calls = {}, !.results = {},
                                 !.todo = {}, !.toolKey = None, !.granted = FALSE]
                 /\ OpenStream(r, n)
    BY <1>11
  <2>1. /\ Shape(n) /\ n.working = next /\ n.step = r.step + 1 /\ n.retry = 0
        /\ n.calls = {} /\ n.results = {} /\ n.todo = {} /\ n.toolKey = None
        /\ n.id = r.id /\ n.pc = r.pc /\ n.conn = r.conn
    BY <1>3, <2>0 DEF Parts, Fit, Shape, Fields
  <2>2. n.granted = FALSE
    BY <1>3, <2>0 DEF Parts, Fit, Shape, Fields
  <2>3. Fit(n, lastKey', opened')
    <3>1. Last(next).from = "assistant" /\ next \in Seq(MessageOf(lastKey', opened'))
      BY <1>5, <1>7 DEF M
    <3>2. 0 \in 0..MAX_STREAM_RETRIES /\ {} \in CallSets(opened') /\ None \in 0..lastKey'
          /\ r.step + 1 \in 0..(MAX_AGENT_STEPS - 1)
      BY <1>0, <1>1, <1>3, <1>11, StateAssumption DEF None, CallSets, Parts, Fit
    <3>3. n.granted \in BOOLEAN
      BY <2>2
    <3> QED BY <1>3, <1>7, <2>1, <3>1, <3>2, <3>3 DEF Parts, Fit
  <2>4. lastKey' \in Nat /\ lastKey <= lastKey' /\ next \in Seq(MessageOf(lastKey', opened'))
    BY <1>0, <1>1, <1>7 DEF M
  <2>5. Lone(r, Messages, control) /\ Neat(Messages) =>
           next = n.working /\ Unsettled(Last(next)) /\ Neat(next) /\ Kept(Messages, next)
    BY <1>5, <1>7, <1>9, <2>1
  <2> QED BY <1>11, <2>0, <2>3, <2>4, <2>5, OpenLemma DEF Writes
<1>12. CASE /\ updateMessages(LastContent(next, {PageText}, "complete", FALSE))
            /\ EndRun(r, control)
  <2>0. PICK now : now = LastContent(next, {PageText}, "complete", FALSE)
    OBVIOUS
  <2>1. TextOf(next, {PageText}, "complete", now) /\ updateMessages(now)
    BY <1>12, <2>0, TextOfBoth, Zenon
  <2>2. Origins({PageText}, opened') /\ "complete" \in Status
        /\ next \in Seq(MessageOf(lastKey', opened'))
    BY <1>2, <1>7 DEF Origins, PageText, Status, M
  <2>3. /\ now \in Seq(MessageOf(lastKey', opened')) /\ Len(now) = Len(next)
        /\ \A j \in DOMAIN next : j # Len(next) => now[j] = next[j]
        /\ Last(now).status = "complete" /\ Last(now).content = {PageText}
    BY <1>2, <1>7, <2>1, <2>2, LastContentLemma
  <2>4. now \in Seq(M) /\ ~Unsettled(Last(now)) /\ \A x, y \in Last(now).content : x = y
    BY <2>3 DEF M, Unsettled
  <2>5. Lone(r, Messages, control) /\ Neat(Messages) =>
           ~control.stopped /\ Calm(now) /\ Neat(now) /\ Kept(Messages, now)
    BY <1>7, <1>9, <2>3, <2>4, LastNeat
  <2>6. control \in ControlOf(lastKey', opened')
    BY <1>2, ControlStays
  <2> QED BY <1>2, <1>12, <2>1, <2>3, <2>5, <2>6, EndsIf DEF Writes
<1> QED BY <1>10, <1>11, <1>12 DEF NextStep, next, card, loading

\* The run goes on with the user's answer.
LEMMA ContinueProceeds ==
    ASSUME ShapeInv, NEW r \in runs, ContinueApproved(r)
    PROVE  Proceeds(r)
<1>0. CountInv /\ lastKey \in Nat /\ opened \in Nat
  BY DEF ShapeInv, CountInv
<1>1. r.pc \in {"approved", "denied"} /\ UNCHANGED reloads
  BY DEF ContinueApproved
<1>2. r \in RunOf(lastKey, opened)
  BY RunOfRuns
<1>3. Parts(r, lastKey, opened)
  BY <1>2, PartsLemma
<1>4. r.calls \in CallSets(opened) /\ r.toolKey \in 1..lastKey
  BY <1>0, <1>1, <1>3 DEF Parts, Fit, None
<1> DEFINE safe == {c \in r.calls : ~requiresAgentToolApproval(c)}
           wanted == IF r.pc = "approved" THEN r.calls ELSE safe
           ms == Append(r.working, toolMessage(r.toolKey, r.calls, FALSE))
<1>5. CASE NextStep(r, r.calls)
  BY <1>1, <1>4, <1>5, NextStepProceeds
<1>6. ASSUME updateMessages(ms), NEW first \in FirstCalls(wanted),
             runs' = (runs \ {r}) \cup
                       {[r EXCEPT !.pc = "tools", !.todo = first,
                                  !.results = first \cup (r.calls \ wanted)]},
             UNCHANGED << isAgentRunning, control, opened, lastKey >>
      PROVE  Proceeds(r)
  <2>0. Grows
    BY <1>0, <1>6, UnchangedGrows
  <2> DEFINE results == first \cup (r.calls \ wanted)
             n == [r EXCEPT !.pc = "tools", !.todo = first, !.results = results]
  <2>1. first \in CallSets(opened) /\ results \in CallSets(opened)
    <3>1. wanted \subseteq r.calls
      OBVIOUS
    <3>2. first \subseteq wanted
      BY <1>6 DEF FirstCalls
    <3> HIDE DEF wanted
    <3> QED BY <1>4, <3>1, <3>2 DEF CallSets
  <2> HIDE DEF wanted, results
  <2>2. /\ Shape(n) /\ n.pc = "tools" /\ n.todo = first /\ n.results = results
        /\ n.toolKey = r.toolKey
        /\ n.working = r.working /\ n.retry = r.retry
        /\ n.id = r.id /\ n.step = r.step /\ n.calls = r.calls
        /\ n.conn = r.conn /\ n.granted = r.granted
    BY <1>3 DEF Parts, Fit, Shape, Fields
  <2>3. runs' = (runs \ {r}) \cup {n}
    BY <1>6 DEF results
  <2> HIDE DEF n
  <2>4. Parts(n, lastKey, opened)
    BY <1>1, <1>3, <2>1, <2>2 DEF Parts, Fit, Waiting
  <2>5. PICK key, pending : /\ key \in 1..lastKey' /\ Flag(pending)
                            /\ ms = Append(r.working, toolMessage(key, r.calls, pending))
    <3>1. r.toolKey \in 1..lastKey'
      BY <1>4, <1>6
    <3> QED BY <3>1, Flags, Zenon
  <2> HIDE DEF ms
  <2>6. r.calls \in CallSets(opened')
    BY <1>4, <1>6
  <2>7. ms \in Seq(MessageOf(lastKey', opened'))
    BY <2>0, <2>5, <2>6, RunWithCard
  <2>8. \E card : card.from = "tool" /\ ms = Append(r.working, card)
    BY <2>0, <2>5, <2>6, RunWithCard
  <2>9. Neat(r.working) /\ Calm(r.working) => Neat(ms)
    BY <2>0, <2>5, <2>6, RunWithCard
  <2>10. Lone(r, Messages, control) => Kept(Messages, ms)
    BY <1>1, <2>0, <2>5, <2>6, RunWithCard
  <2>11. ASSUME Lone(r, Messages, control), Neat(Messages)
         PROVE  Lone(n, ms, control') /\ Neat(ms) /\ Kept(Messages, ms)
    <3>1. Calm(r.working) /\ Neat(r.working) /\ ~control.stopped
      BY <1>1, <2>11, LoneCalm
    <3>2. Lone(n, ms, control')
      BY <1>6, <2>2, <2>8, <3>1 DEF Lone
    <3> QED BY <2>9, <2>10, <2>11, <3>1, <3>2
  <2>12. control' \in ControlOf(lastKey', opened') /\ Parts(n, lastKey', opened')
    BY <1>6, <2>0, <2>4, ControlStays
  <2>13. updateMessages(ms)
    BY <1>6
  <2> QED BY <1>1, <1>6, <2>0, <2>3, <2>7, <2>11, <2>12, <2>13, GoesOnIf DEF Writes
<1> QED BY <1>5, <1>6 DEF ContinueApproved

\* One call is done.
LEMMA ToolProceeds ==
    ASSUME ShapeInv, NEW r \in runs, ToolDone(r)
    PROVE  Proceeds(r)
<1>0. PageInv /\ CountInv /\ lastKey \in Nat /\ opened \in Nat
  BY DEF ShapeInv, CountInv
<1>1. PICK c \in r.todo :
        \/ /\ runs' = (runs \ {r}) \cup {[r EXCEPT !.todo = @ \ {c}]}
           /\ UNCHANGED << conversationVars, opened, lastKey, isAgentRunning, control >>
        \/ NextStep(r, r.results)
  BY DEF ToolDone
<1>2. r.pc = "tools" /\ UNCHANGED reloads
  BY DEF ToolDone
<1>3. Parts(r, lastKey, opened)
  BY RunOfRuns, PartsLemma
<1>4. CASE NextStep(r, r.results)
  <2>1. r.results \in CallSets(opened)
    BY <1>3 DEF Parts, Fit
  <2> QED BY <1>2, <1>4, <2>1, NextStepProceeds
<1>5. CASE /\ runs' = (runs \ {r}) \cup {[r EXCEPT !.todo = @ \ {c}]}
           /\ UNCHANGED << conversationVars, opened, lastKey, isAgentRunning, control >>
  <2>0. Grows
    BY <1>0, <1>5, UnchangedGrows
  <2> DEFINE todo == r.todo \ {c}
             n == [r EXCEPT !.todo = todo]
  <2>1. todo \in CallSets(opened)
    BY <1>3 DEF Parts, Fit, CallSets
  <2> HIDE DEF todo
  <2>2. /\ Shape(n) /\ n.pc = "tools" /\ n.todo = todo /\ n.results = r.results
        /\ n.toolKey = r.toolKey
        /\ n.working = r.working /\ n.retry = r.retry
        /\ n.id = r.id /\ n.step = r.step /\ n.calls = r.calls
        /\ n.conn = r.conn /\ n.granted = r.granted
    BY <1>2, <1>3 DEF Parts, Fit, Shape, Fields
  <2>3. runs' = (runs \ {r}) \cup {n}
    BY <1>5 DEF todo
  <2> HIDE DEF n
  <2>4. Parts(n, lastKey', opened')
    BY <1>2, <1>3, <1>5, <2>1, <2>2 DEF Parts, Fit
  <2>5. ASSUME Lone(r, Messages, control), Neat(Messages)
        PROVE  Lone(n, Messages, control') /\ Neat(Messages) /\ Kept(Messages, Messages)
    <3>1. Lone(n, Messages, control')
      BY <1>2, <1>5, <2>2, <2>5 DEF Lone
    <3> QED BY <2>5, <3>1, KeptSame
  <2>6. Messages \in Seq(MessageOf(lastKey', opened')) /\ Writes(Messages)
    BY <1>0, <1>5, MessagesTyped DEF Writes
  <2>7. control' \in ControlOf(lastKey', opened')
    BY <1>5, <2>0, ControlStays
  <2> QED BY <1>2, <1>5, <2>0, <2>3, <2>4, <2>5, <2>6, <2>7, GoesOnIf
<1> QED BY <1>1, <1>4, <1>5

\* Every step of the agent is the step of a run.
LEMMA AgentProceeds ==
    ASSUME ShapeInv, AgentNext
    PROVE  \E r \in runs : Proceeds(r)
<1>1. PICK r \in runs : \/ ContinueApproved(r) \/ ReceiveText(r) \/ RunStep(r)
  BY DEF AgentNext
<1>2. CASE ContinueApproved(r)
  BY <1>2, ContinueProceeds
<1>3. CASE ReceiveText(r)
  BY <1>3, TextProceeds
<1>4. CASE RunStep(r)
  BY <1>4, CompletedProceeds, FailsProceeds, StoppedProceeds, TimerProceeds,
     RequestProceeds, ToolProceeds DEF RunStep
<1> QED BY <1>1, <1>2, <1>3, <1>4

\* Whatever a run does keeps the state well formed.
LEMMA ProceedsShape ==
    ASSUME ShapeInv, NEW r \in runs, Proceeds(r)
    PROVE  PageInv' /\ StoredInv' /\ CountInv' /\ AgentShape' /\ Grows
<1>0. Grows /\ UNCHANGED reloads /\ isAgentRunning \in BOOLEAN
  BY DEF Proceeds, ShapeInv, AgentShape
<1>1. CASE GoesOn(r)
  <2>1. PICK n \in RunOf(lastKey', opened'), ms \in Seq(MessageOf(lastKey', opened')) :
           /\ runs' = (runs \ {r}) \cup {n} /\ Writes(ms)
           /\ isAgentRunning' = isAgentRunning /\ control' \in ControlOf(lastKey', opened')
    BY <1>1 DEF GoesOn
  <2>2. /\ UNCHANGED conversationVars \/
              \E x \in Seq(MessageOf(lastKey', opened')) : updateMessages(x)
        /\ runs' \subseteq runs \cup {n}
    BY <2>1 DEF Writes
  <2> QED BY <1>0, <2>1, <2>2, RunGoesOn DEF ControlOf
<1>2. CASE Ends(r)
  <2>1. PICK ctl \in ControlOf(lastKey', opened'), ms \in Seq(MessageOf(lastKey', opened')) :
           EndRun(r, ctl) /\ Writes(ms)
    BY <1>2 DEF Ends
  <2>2. UNCHANGED conversationVars \/
           \E x \in Seq(MessageOf(lastKey', opened')) : updateMessages(x)
    BY <2>1 DEF Writes
  <2> QED BY <1>0, <2>1, <2>2, RunEndShape DEF ControlOf
<1> QED BY <1>1, <1>2 DEF Proceeds

\* Every step of the agent, and every answer of the user to it.
LEMMA AgentStepShape ==
    ASSUME ShapeInv, AgentStep \/ Approve
    PROVE  ShapeInv'
<1>1. PICK r \in runs : Proceeds(r)
  BY AgentProceeds, ApproveProceeds DEF AgentStep, Approve
<1>2. UNCHANGED << chatVars, userVars >> /\ CountInv /\ ChatShape /\ UserShape
  BY DEF AgentStep, Approve, ShapeInv
<1>3. PageInv' /\ StoredInv' /\ CountInv' /\ AgentShape' /\ Grows
  BY <1>1, ProceedsShape
<1>4. FormShape'
  BY <1>2, <1>3, FormsGrow DEF Queues, userVars
<1> QED BY <1>2, <1>3, <1>4, ChatGrows, UserGrows DEF ShapeInv

-----------------------------------------------------------------------------
(* The steps of the user                                                   *)

LEMMA MessagesGrow ==
    ASSUME ShapeInv, Grows
    PROVE  Messages \in Seq(MessageOf(lastKey', opened'))
<1>1. lastKey \in Nat /\ opened \in Nat /\ PageInv
  BY DEF ShapeInv, CountInv
<1>2. MessageOf(lastKey, opened) \subseteq MessageOf(lastKey', opened')
  BY <1>1, MessageGrows DEF Grows
<1> QED BY <1>1, <1>2, MessagesTyped, SeqMonotonic

\* A request for a chat answer, with the messages ms.
LEMMA SendShape ==
    ASSUME ShapeInv, lastKey' \in Nat, lastKey <= lastKey', NEW ms, sendChat(ms), ms # << >>,
           ms \in Seq(MessageOf(lastKey', opened'))
    PROVE  PageInv' /\ StoredInv' /\ CountInv' /\ Grows /\ ChatShape' /\ AgentShape'
<1>0. PageInv /\ StoredInv /\ CountInv /\ ChatShape /\ AgentShape
      /\ lastKey \in Nat /\ opened \in Nat
  BY DEF ShapeInv, CountInv
<1> DEFINE own == Last(ms).key
<1>1. updateMessages(ms) /\ sendStreamRequest(own) /\ UNCHANGED << agentVars, reloads >>
  BY DEF sendChat
<1>2. own \in 1..lastKey'
  <2>1. Last(ms) \in MessageOf(lastKey', opened')
    BY LastOfTyped
  <2> QED BY <2>1, MessageTypes
<1> HIDE DEF own
<1>3. startStream(own, sources) /\ UNCHANGED << retryTimeout, retryCount >>
  BY <1>1 DEF sendStreamRequest
<1>4. PICK k \in Nat : k = lastKey'
  OBVIOUS
<1>5. /\ Grows /\ sseSource' \in 0..opened'
      /\ sources' \subseteq [conn : 1..opened', own : 1..lastKey']
  BY <1>0, <1>2, <1>3, <1>4, StartShape
<1>6. PageInv' /\ StoredInv' /\ CountInv'
  BY <1>1, <1>5, RunWrites
<1>7. ChatShape'
  <2>1. isStreaming' \in BOOLEAN /\ isStreamComplete' \in BOOLEAN
        /\ streamStopped' \in BOOLEAN /\ silent' \in BOOLEAN
    BY <1>1 DEF sendStreamRequest
  <2>2. retryTimeout' \in 0..lastKey' /\ retryCount' \in [Keys -> 0..MAX_STREAM_RETRIES]
    BY <1>0, <1>3 DEF ChatShape
  <2> QED BY <1>5, <2>1, <2>2 DEF ChatShape
<1>8. AgentShape'
  BY <1>0, <1>1, <1>5, AgentGrows
<1> QED BY <1>5, <1>6, <1>7, <1>8

\* A request to the agent, with the messages ms.
LEMMA RunStartShape ==
    ASSUME ShapeInv, lastKey' \in Nat, lastKey <= lastKey', NEW id \in 1..lastKey', NEW ms,
           updateMessages(ms), runAgentConversation(id, ms), UNCHANGED << chatVars, reloads >>,
           ms # << >>, Last(ms).from = "assistant", ms \in Seq(MessageOf(lastKey', opened'))
    PROVE  PageInv' /\ StoredInv' /\ CountInv' /\ Grows /\ ChatShape' /\ AgentShape'
<1>0. CountInv /\ ChatShape /\ lastKey \in Nat /\ opened \in Nat /\ opened' = opened + 1
  BY DEF ShapeInv, CountInv, runAgentConversation
<1>1. Grows
  BY <1>0 DEF Grows
<1> DEFINE n == [id |-> id, pc |-> "stream", working |-> ms,
                 step |-> 0, retry |-> 0, conn |-> opened + 1, calls |-> {},
                 results |-> {}, todo |-> {}, toolKey |-> None, granted |-> FALSE]
<1>2. /\ runs' = (runs \ Abandoned(control)) \cup {n} /\ isAgentRunning' = TRUE
      /\ control' = [source |-> opened + 1, retryTimer |-> None, stopped |-> FALSE]
  BY DEF runAgentConversation
<1>3. /\ Shape(n) /\ n.pc = "stream" /\ n.working = ms /\ n.id = id /\ n.step = 0 /\ n.retry = 0
      /\ n.conn = opened + 1 /\ n.calls = {} /\ n.results = {} /\ n.todo = {} /\ n.toolKey = None
  BY DEF Shape, Fields
<1>4. n.granted = FALSE
  OBVIOUS
<1> HIDE DEF n
<1>5. Parts(n, lastKey', opened')
  <2>1. /\ 0 \in 0..MAX_STREAM_RETRIES /\ {} \in CallSets(opened') /\ None \in 0..lastKey'
        /\ 0 \in 0..(MAX_AGENT_STEPS - 1) /\ opened + 1 \in 1..opened' /\ "stream" \in Waiting
    BY <1>0, StateAssumption DEF None, CallSets, Waiting
  <2>2. n.granted \in BOOLEAN
    BY <1>4
  <2> QED BY <1>3, <2>1, <2>2 DEF Parts, Fit
<1>6. control' \in [source : 0..opened', retryTimer : 0..lastKey', stopped : BOOLEAN]
  BY <1>0, <1>2 DEF None
<1>7. /\ runs' \subseteq runs \cup {n} /\ isAgentRunning' \in BOOLEAN
      /\ n \in RunOf(lastKey', opened')
      /\ \E x \in Seq(MessageOf(lastKey', opened')) : updateMessages(x)
  BY <1>2, <1>5, PartsLemma
<1> QED BY <1>0, <1>1, <1>6, <1>7, RunGoesOn, ChatGrows

LEMMA UserMessageLemma ==
    ASSUME NEW key
    PROVE  /\ ~Unsettled(createUserMessage(key))
           /\ \A x, y \in createUserMessage(key).content : x = y
BY DEF Unsettled, createUserMessage

\* The messages of a new request.
LEMMA SendMessages ==
    ASSUME ShapeInv, Grows, lastKey' = lastKey + 2, NEW ms,
           NEW w \in Seq(MessageOf(lastKey, opened)),
           ms = Two(w, createUserMessage(lastKey + 1),
                    createLoadingAssistantMessage(lastKey + 2))
    PROVE  /\ ms \in Seq(MessageOf(lastKey', opened')) /\ ms # << >>
           /\ Last(ms).from = "assistant" /\ Last(ms).key = lastKey + 2
           /\ Unsettled(Last(ms)) /\ Last(ms).content = {}
           /\ Calm(w) /\ Neat(w) => Neat(ms)
<1>0. lastKey \in Nat /\ opened \in Nat
  BY DEF ShapeInv, CountInv
<1> DEFINE u == createUserMessage(lastKey + 1)
           l == createLoadingAssistantMessage(lastKey + 2)
           M == MessageOf(lastKey', opened')
<1>1. u \in M /\ l \in M
  <2>1. lastKey + 1 \in 1..lastKey' /\ lastKey + 2 \in 1..lastKey'
    BY <1>0
  <2> QED BY <2>1, MessagesMade DEF Grows
<1>2. l.from = "assistant" /\ l.key = lastKey + 2 /\ l.content = {} /\ Unsettled(l)
  BY DEF createLoadingAssistantMessage, Unsettled
<1>3. ~Unsettled(u) /\ \A x, y \in u.content : x = y
  BY UserMessageLemma
<1>4. w \in Seq(M)
  <2>1. MessageOf(lastKey, opened) \subseteq M
    BY <1>0, MessageGrows DEF Grows
  <2> QED BY <2>1, SeqMonotonic
<1> HIDE DEF u, l, M
<1>6. ms = Two(w, u, l)
  BY DEF u, l
<1>7. ms \in Seq(M) /\ ms # << >> /\ Last(ms) = l /\ Len(ms) = Len(w) + 2
  BY <1>1, <1>4, <1>6, NextMessages
<1>8. ASSUME Calm(w), Neat(w) PROVE Neat(ms)
  <2>1. Len(w) \in Nat /\ DOMAIN w = 1..Len(w)
    BY <1>4
  <2>2. /\ \A j \in DOMAIN w : ms[j] = w[j]
        /\ ms[Len(w) + 1] = u /\ ms[Len(w) + 2] = l
    <3>1. ms = w \o << u, l >>
      BY <1>6 DEF Two
    <3>2. Len(ms) = Len(w) + 2
      BY <1>7
    <3> QED BY ONLY <1>1, <1>4, <2>1, <3>1, <3>2
  <2>3. \A j \in DOMAIN ms : j \in DOMAIN w \/ j = Len(w) + 1 \/ j = Len(ms)
    BY <1>7, <2>1
  <2> SUFFICES ASSUME NEW j \in DOMAIN ms
               PROVE  (Unsettled(ms[j]) => j = Len(ms)) /\ \A x, y \in ms[j].content : x = y
    BY DEF Neat
  <2>4. CASE j \in DOMAIN w
    BY <1>8, <2>2, <2>4 DEF Neat, Calm
  <2>5. CASE j = Len(w) + 1
    BY <1>3, <2>2, <2>5
  <2>6. CASE j = Len(ms)
    BY <1>2, <1>7, <2>2, <2>6
  <2> QED BY <2>3, <2>4, <2>5, <2>6
<1> QED BY <1>2, <1>7, <1>8 DEF M

\* The messages before the one that is regenerated or edited.
LEMMA BeginningLemma ==
    ASSUME NEW S, NEW ms \in Seq(S), NEW m \in 0..Len(ms), NEW w, w = SubSeq(ms, 1, m)
    PROVE  /\ w \in Seq(S) /\ Len(w) = m
           /\ \A j \in 1..m : w[j] = ms[j]
           /\ Calm(ms) /\ Neat(ms) => Calm(w) /\ Neat(w)
<1>0. Len(ms) \in Nat /\ m \in Nat /\ m <= Len(ms) /\ DOMAIN ms = 1..Len(ms)
  OBVIOUS
<1>1. w \in Seq(S) /\ Len(w) = m /\ \A j \in 1..m : w[j] = ms[j]
  BY <1>0
<1>2. ASSUME Calm(ms), Neat(ms) PROVE Calm(w) /\ Neat(w)
  <2>1. \A j \in DOMAIN w : j \in DOMAIN ms /\ w[j] = ms[j]
    BY <1>0, <1>1
  <2> QED BY <1>2, <2>1 DEF Calm, Neat
<1> QED BY <1>1, <1>2

\* The loading message of an answer is added.
Loading(w, key) == Append(w, createLoadingAssistantMessage(key))

LEMMA LoadMessages ==
    ASSUME NEW k \in Nat, NEW n \in Nat, NEW w \in Seq(MessageOf(k, n)), NEW key \in 1..k, NEW ms,
           ms = Loading(w, key)
    PROVE  /\ ms \in Seq(MessageOf(k, n)) /\ ms # << >>
           /\ Last(ms).from = "assistant" /\ Last(ms).key = key
           /\ Unsettled(Last(ms)) /\ Last(ms).content = {}
           /\ Calm(w) /\ Neat(w) => Neat(ms)
<1> DEFINE l == createLoadingAssistantMessage(key)
           M == MessageOf(k, n)
<1>1. l \in M
  BY MessagesMade
<1>2. l.from = "assistant" /\ l.key = key /\ l.content = {} /\ Unsettled(l)
  BY DEF createLoadingAssistantMessage, Unsettled
<1>3. w \in Seq(M)
  OBVIOUS
<1> HIDE DEF l, M
<1>4. ms = Append(w, l)
  BY DEF l, Loading
<1>5. /\ ms \in Seq(M) /\ ms # << >> /\ Last(ms) = l /\ Len(ms) = Len(w) + 1 /\ Len(w) \in Nat
      /\ DOMAIN w = 1..Len(w) /\ ms[Len(w) + 1] = l
      /\ \A j \in DOMAIN w : ms[j] = w[j]
  BY <1>1, <1>3, <1>4 DEF Last
<1>6. ASSUME Calm(w), Neat(w) PROVE Neat(ms)
  <2> SUFFICES ASSUME NEW j \in DOMAIN ms
               PROVE  (Unsettled(ms[j]) => j = Len(ms)) /\ \A x, y \in ms[j].content : x = y
    BY DEF Neat
  <2>1. CASE j \in DOMAIN w
    BY <1>5, <1>6, <2>1 DEF Neat, Calm
  <2>2. CASE j = Len(ms)
    BY <1>2, <1>5, <2>2
  <2> QED BY <1>5, <2>1, <2>2
<1> QED BY <1>2, <1>5, <1>6 DEF M

\* The user's text replaces what a message held.
LEMMA EditedLemma ==
    ASSUME NEW k, NEW n \in Nat, NEW ms \in Seq(MessageOf(k, n)), NEW i \in DOMAIN ms, NEW new,
           new = Edited(ms, i)
    PROVE  /\ new \in Seq(MessageOf(k, n)) /\ Len(new) = Len(ms)
           /\ Calm(ms) => Calm(new)
           /\ Neat(ms) => Neat(new)
<1>0. PICK old : old = ms[i]
  OBVIOUS
<1>1. PICK content : content = {PageText}
  OBVIOUS
<1>2. PICK msg : msg = [old EXCEPT !.content = content]
  OBVIOUS
<1>3. msg \in MessageOf(k, n) /\ msg.content = content /\ msg.status = old.status
      /\ msg.from = old.from
  <2>1. old \in MessageOf(k, n) /\ content \subseteq 0..n
    BY <1>0, <1>1 DEF PageText
  <2> QED BY <1>2, <2>1, ContentChanged
<1>4. new = [ms EXCEPT ![i] = msg]
  BY <1>0, <1>1, <1>2 DEF Edited
<1>5. /\ new \in Seq(MessageOf(k, n)) /\ Len(new) = Len(ms) /\ DOMAIN new = DOMAIN ms
      /\ \A j \in DOMAIN ms : new[j] = IF j = i THEN msg ELSE ms[j]
  BY <1>3, <1>4, ExceptSeq
<1>6. \A j \in DOMAIN ms : /\ Unsettled(new[j]) <=> Unsettled(ms[j])
                           /\ new[j].content \in {ms[j].content, {PageText}}
  BY <1>0, <1>1, <1>3, <1>5 DEF Unsettled
<1>7. Calm(ms) => Calm(new)
  BY <1>5, <1>6 DEF Calm
<1>8. Neat(ms) => Neat(new)
  BY <1>5, <1>6 DEF Neat
<1> QED BY <1>5, <1>7, <1>8

\* A message is deleted.
LEMMA RemovedLemma ==
    ASSUME NEW S, NEW ms \in Seq(S), NEW i \in DOMAIN ms, NEW new, new = RemoveAt(ms, i)
    PROVE  /\ new \in Seq(S)
           /\ Calm(ms) /\ Neat(ms) => Calm(new) /\ Neat(new)
<1>1. new \in Seq(S)
  BY RemoveLemma
<1>2. \A j \in DOMAIN new : \E m \in DOMAIN ms : new[j] = ms[m]
  BY RemoveLemma
<1>3. ASSUME Calm(ms), Neat(ms) PROVE Calm(new) /\ Neat(new)
  BY <1>2, <1>3 DEF Calm, Neat
<1> QED BY <1>1, <1>3

\* What is on the page, or was when a message was submitted, is settled.
Ready == Calm(Messages) /\ Neat(Messages) /\ CalmForms

\* The outcomes of the user's steps.
AnswerAsked(ms) ==
    /\ ms \in Seq(MessageOf(lastKey', opened')) /\ ms # << >>
    /\ lastKey' \in Nat /\ lastKey <= lastKey'
    /\ Last(ms).from = "assistant" /\ Unsettled(Last(ms)) /\ Last(ms).content = {}
    /\ Ready => Neat(ms)

ChatAsked == \E ms : AnswerAsked(ms) /\ sendChat(ms)

AgentAsked ==
    \E ms : /\ AnswerAsked(ms) /\ updateMessages(ms)
            /\ \E id \in 1..lastKey' : runAgentConversation(id, ms)
            /\ UNCHANGED << chatVars, reloads >>

Rewritten ==
    /\ \E ms \in Seq(MessageOf(lastKey', opened')) :
          /\ updateMessages(ms)
          /\ Calm(Messages) /\ Neat(Messages) => Calm(ms) /\ Neat(ms)
    /\ UNCHANGED << reloads, opened, lastKey, chatVars, agentVars >>

Moved ==
    /\ PageInv' /\ StoredInv' /\ lostSaves' \in 0..MaxLostSaves /\ Shuffled
    /\ UNCHANGED << reloads, opened, lastKey, chatVars, agentVars >>

\* handleSendMessage
LEMMA SendOutcome ==
    ASSUME ShapeInv, NEW w \in Seq(MessageOf(lastKey, opened)), NEW mode,
           handleSendMessage(w, mode), Ready => Calm(w) /\ Neat(w)
    PROVE  ChatAsked \/ AgentAsked
<1>0. lastKey \in Nat /\ opened \in Nat
  BY DEF ShapeInv, CountInv
<1>1. PICK ms : /\ ms = Two(w, createUserMessage(lastKey + 1),
                            createLoadingAssistantMessage(lastKey + 2))
                /\ lastKey' = lastKey + 2
                /\ \/ sendChat(ms)
                   \/ /\ updateMessages(ms)
                      /\ runAgentConversation(lastKey + 2, ms)
                      /\ UNCHANGED << chatVars, reloads >>
  BY DEF handleSendMessage, Two
<1>2. opened' = opened + 1
  BY <1>1 DEF sendChat, sendStreamRequest, startStream, runAgentConversation
<1>3. Grows
  BY <1>0, <1>1, <1>2 DEF Grows
<1>4. AnswerAsked(ms)
  BY <1>0, <1>1, <1>3, SendMessages DEF AnswerAsked
<1>5. lastKey + 2 \in 1..lastKey'
  BY <1>0, <1>1
<1> QED BY <1>1, <1>4, <1>5 DEF ChatAsked, AgentAsked

\* The input is submitted, or what was submitted has been converted.
LEMMA FormTyped ==
    ASSUME ShapeInv, NEW i \in DOMAIN converting
    PROVE  converting[i].messages \in Seq(MessageOf(lastKey, opened))
<1>1. converting[i] \in FormOf(lastKey, opened)
  BY DEF ShapeInv, FormShape
<1> QED BY <1>1 DEF FormOf

LEMMA SubmitOutcome ==
    ASSUME ShapeInv, Submit \/ \E i \in DOMAIN converting : Converted(i)
    PROVE  ChatAsked \/ AgentAsked
<1>1. CASE Submit
  <2>1. /\ Messages \in Seq(MessageOf(lastKey, opened)) /\ handleSendMessage(Messages, Mode)
        /\ Ready => Calm(Messages) /\ Neat(Messages)
    BY <1>1, MessagesTyped DEF Submit, ShapeInv, Ready
  <2> QED BY <2>1, SendOutcome
<1>2. ASSUME NEW i \in DOMAIN converting, Converted(i)
      PROVE  ChatAsked \/ AgentAsked
  <2>1. PICK w, mode : /\ w = converting[i].messages
                       /\ handleSendMessage(w, mode)
    BY <1>2 DEF Converted
  <2>2. w \in Seq(MessageOf(lastKey, opened)) /\ (Ready => Calm(w) /\ Neat(w))
    BY <2>1, FormTyped DEF Ready, CalmForms
  <2> QED BY <2>1, <2>2, SendOutcome
<1> QED BY <1>1, <1>2

\* An answer to the messages w.
LEMMA AskAfter ==
    ASSUME ShapeInv, lastKey' = lastKey + 1, NEW ms, sendChat(ms),
           NEW w \in Seq(MessageOf(lastKey', opened')),
           ms = Append(w, createLoadingAssistantMessage(lastKey + 1)),
           Calm(Messages) /\ Neat(Messages) => Calm(w) /\ Neat(w)
    PROVE  ChatAsked
<1>0. lastKey \in Nat /\ opened \in Nat /\ opened' = opened + 1
  BY DEF ShapeInv, CountInv, sendChat, sendStreamRequest, startStream
<1>1. PICK key : key = lastKey + 1
  OBVIOUS
<1>2. key \in 1..lastKey' /\ lastKey' \in Nat /\ lastKey <= lastKey' /\ opened' \in Nat
  BY <1>0, <1>1
<1>3. ms = Loading(w, key)
  BY <1>1 DEF Loading
<1>a. PICK k, n : k = lastKey' /\ n = opened'
  OBVIOUS
<1>b. k \in Nat /\ n \in Nat /\ key \in 1..k /\ w \in Seq(MessageOf(k, n))
  BY <1>a, <1>2
<1>4. /\ ms \in Seq(MessageOf(k, n)) /\ ms # << >>
      /\ Last(ms).from = "assistant" /\ Unsettled(Last(ms)) /\ Last(ms).content = {}
      /\ Calm(w) /\ Neat(w) => Neat(ms)
  BY ONLY <1>b, <1>3, LoadMessages
<1>5. AnswerAsked(ms)
  BY <1>a, <1>2, <1>4 DEF AnswerAsked, Ready
<1> QED BY <1>5 DEF ChatAsked

\* handleRegenerateMessage
LEMMA RegenerateOutcome ==
    ASSUME ShapeInv, NEW i \in DOMAIN Messages, handleRegenerateMessage(i)
    PROVE  ChatAsked
<1>0. lastKey \in Nat /\ opened \in Nat /\ lastKey' = lastKey + 1
  BY DEF ShapeInv, CountInv, handleRegenerateMessage
<1>1. PICK w, ms : /\ w = SubSeq(Messages, 1, i - 1)
                   /\ ms = Append(w, createLoadingAssistantMessage(lastKey + 1))
                   /\ sendChat(ms)
  BY DEF handleRegenerateMessage
<1>2. opened' = opened + 1
  BY <1>1 DEF sendChat, sendStreamRequest, startStream
<1>3. Grows
  BY <1>0, <1>2 DEF Grows
<1>4. Messages \in Seq(MessageOf(lastKey', opened'))
  BY <1>3, MessagesGrow
<1>5. PICK m : m = i - 1 /\ m \in 0..Len(Messages)
  BY <1>4
<1>a. w = SubSeq(Messages, 1, m)
  BY <1>1, <1>5
<1>b. PICK k, n, ms0 : k = lastKey' /\ n = opened' /\ ms0 = Messages
  OBVIOUS
<1>c. ms0 \in Seq(MessageOf(k, n)) /\ m \in 0..Len(ms0) /\ w = SubSeq(ms0, 1, m)
  BY <1>a, <1>b, <1>4, <1>5
<1>d. /\ w \in Seq(MessageOf(k, n))
      /\ Calm(ms0) /\ Neat(ms0) => Calm(w) /\ Neat(w)
  BY ONLY <1>c, BeginningLemma
<1>6. /\ w \in Seq(MessageOf(lastKey', opened'))
      /\ Calm(Messages) /\ Neat(Messages) => Calm(w) /\ Neat(w)
  BY <1>b, <1>d
<1> QED BY <1>0, <1>1, <1>6, AskAfter

\* handleDeleteMessage
LEMMA DeleteOutcome ==
    ASSUME ShapeInv, NEW i \in DOMAIN Messages, handleDeleteMessage(i)
    PROVE  Rewritten
<1>0. UNCHANGED << reloads, opened, lastKey, chatVars, agentVars >>
  BY DEF handleDeleteMessage
<1>1. PICK ms : ms = RemoveAt(Messages, i) /\ updateMessages(ms)
  BY DEF handleDeleteMessage
<1>2. Messages \in Seq(MessageOf(lastKey', opened'))
  BY <1>0, MessagesTyped DEF ShapeInv
<1>3. /\ ms \in Seq(MessageOf(lastKey', opened'))
      /\ Calm(Messages) /\ Neat(Messages) => Calm(ms) /\ Neat(ms)
  BY <1>1, <1>2, RemovedLemma
<1> QED BY <1>0, <1>1, <1>3 DEF Rewritten

\* applyEdit
LEMMA ApplyOutcome ==
    ASSUME ShapeInv, NEW i \in DOMAIN Messages, NEW submit, applyEdit(i, submit)
    PROVE  Rewritten \/ ChatAsked
<1>0. lastKey \in Nat /\ opened \in Nat
  BY DEF ShapeInv, CountInv
<1>1. CASE /\ updateMessages(Edited(Messages, i))
           /\ UNCHANGED << reloads, opened, lastKey, chatVars, agentVars >>
  <2>1. PICK ms : ms = Edited(Messages, i) /\ updateMessages(ms)
    BY <1>1
  <2>2. Messages \in Seq(MessageOf(lastKey', opened')) /\ opened' \in Nat
    BY <1>0, <1>1, MessagesTyped DEF ShapeInv
  <2>3. /\ ms \in Seq(MessageOf(lastKey', opened'))
        /\ Calm(Messages) /\ Neat(Messages) => Calm(ms) /\ Neat(ms)
    BY <2>1, <2>2, EditedLemma
  <2> QED BY <1>1, <2>1, <2>3 DEF Rewritten
<1>2. CASE /\ lastKey' = lastKey + 1
           /\ sendChat(Append(SubSeq(Edited(Messages, i), 1, i),
                              createLoadingAssistantMessage(lastKey + 1)))
  <2>1. PICK e, w, ms : /\ e = Edited(Messages, i) /\ w = SubSeq(e, 1, i)
                        /\ ms = Append(w, createLoadingAssistantMessage(lastKey + 1))
                        /\ sendChat(ms)
    BY <1>2
  <2>2. opened' = opened + 1
    BY <2>1 DEF sendChat, sendStreamRequest, startStream
  <2>3. Grows
    BY <1>0, <1>2, <2>2 DEF Grows
  <2>4. Messages \in Seq(MessageOf(lastKey', opened')) /\ opened' \in Nat
    BY <2>3, MessagesGrow DEF Grows
  <2>5. /\ e \in Seq(MessageOf(lastKey', opened')) /\ Len(e) = Len(Messages)
        /\ Calm(Messages) /\ Neat(Messages) => Calm(e) /\ Neat(e)
    BY <2>1, <2>4, EditedLemma
  <2>6. i \in 0..Len(e)
    BY <2>4, <2>5
  <2>7. /\ w \in Seq(MessageOf(lastKey', opened'))
        /\ Calm(e) /\ Neat(e) => Calm(w) /\ Neat(w)
    BY <2>1, <2>5, <2>6, BeginningLemma
  <2> QED BY <1>2, <2>1, <2>5, <2>7, AskAfter
<1> QED BY <1>1, <1>2 DEF applyEdit

\* The sidebar, the switch of the mode and the pairing.
LEMMA SidebarOutcome ==
    ASSUME ShapeInv, SidebarStep \/ AutoPair
    PROVE  Moved
<1>0. PageInv /\ StoredInv /\ CountInv
  BY DEF ShapeInv
<1>1. UNCHANGED << reloads, opened, lastKey, chatVars, agentVars >>
  BY DEF SidebarStep, AutoPair
<1>2. "agent" \in Modes /\ Mode \in Modes
  <2>1. Mode \in Modes
    <3>1. PICK a \in DOMAIN conversations : Mode = conversations[a].mode
      BY <1>0, ActiveLemma DEF PageInv, PageShape, Remembers
    <3> QED BY <1>0, <3>1, ConversationTypes DEF PageInv, PageShape
  <2> QED BY <2>1 DEF Modes
<1>3. \/ \E mode \in Modes : switchMode(mode) \/ createNewConversation(mode)
      \/ \E id : switchConversation(id) \/ deleteConversation(id)
  BY <1>2 DEF SidebarStep, AutoPair, handleModeChange, SelectConversation, DeleteConversation
<1>4. PageInv' /\ StoredInv' /\ lostSaves' \in 0..MaxLostSaves /\ Shuffled
  BY <1>0, <1>1, <1>3, SwitchModeKeeps, CreateKeeps, SwitchKeeps, DeleteKeeps
<1> QED BY <1>1, <1>4 DEF Moved

\* Every outcome keeps the state well formed.
LEMMA OutcomeShape ==
    ASSUME ShapeInv, ChatAsked \/ AgentAsked \/ Rewritten \/ Moved
    PROVE  PageInv' /\ StoredInv' /\ CountInv' /\ Grows /\ ChatShape' /\ AgentShape'
<1>0. /\ PageInv /\ StoredInv /\ CountInv /\ ChatShape /\ AgentShape
      /\ lastKey \in Nat /\ opened \in Nat
  BY DEF ShapeInv, CountInv
<1>1. CASE ChatAsked
  <2>1. PICK ms : AnswerAsked(ms) /\ sendChat(ms)
    BY <1>1 DEF ChatAsked
  <2> QED BY <2>1, SendShape DEF AnswerAsked
<1>2. CASE AgentAsked
  <2>1. PICK ms : /\ AnswerAsked(ms) /\ updateMessages(ms)
                  /\ \E id \in 1..lastKey' : runAgentConversation(id, ms)
                  /\ UNCHANGED << chatVars, reloads >>
    BY <1>2 DEF AgentAsked
  <2>2. PICK id \in 1..lastKey' : runAgentConversation(id, ms)
    BY <2>1
  <2> QED BY <2>1, <2>2, RunStartShape DEF AnswerAsked
<1>3. CASE Rewritten
  <2>1. PICK ms \in Seq(MessageOf(lastKey', opened')) : updateMessages(ms)
    BY <1>3 DEF Rewritten
  <2>2. Grows /\ UNCHANGED << reloads, chatVars, agentVars >>
    BY <1>0, <1>3, UnchangedGrows DEF Rewritten
  <2> QED BY <1>0, <2>1, <2>2, RunWrites, ChatGrows, AgentGrows
<1>4. CASE Moved
  <2>1. Grows /\ UNCHANGED << reloads, chatVars, agentVars, lastKey, opened >>
    BY <1>0, <1>4, UnchangedGrows DEF Moved
  <2>2. PageInv' /\ StoredInv' /\ CountInv'
    BY <1>0, <1>4, <2>1 DEF Moved, CountInv
  <2> QED BY <1>0, <2>1, <2>2, ChatGrows, AgentGrows
<1> QED BY <1>1, <1>2, <1>3, <1>4

\* What stopAgentGeneration makes of the last message.
Cut(msg) ==
    IF Unsettled(msg)
    THEN Changed(msg, IF msg.content = {} THEN {PageText} ELSE msg.content, "complete", FALSE)
    ELSE msg

LEMMA CutLemma ==
    ASSUME NEW k, NEW n \in Nat, NEW msg \in MessageOf(k, n)
    PROVE  /\ Cut(msg) \in MessageOf(k, n) /\ ~Unsettled(Cut(msg))
           /\ Cut(msg).from = msg.from
           /\ ~Unsettled(msg) => Cut(msg) = msg
           /\ (\A x, y \in msg.content : x = y) => \A x, y \in Cut(msg).content : x = y
<1>1. CASE ~Unsettled(msg)
  BY <1>1 DEF Cut
<1>2. CASE Unsettled(msg)
  <2>1. PICK content : content = IF msg.content = {} THEN {PageText} ELSE msg.content
    OBVIOUS
  <2>2. Origins(content, n)
    BY <2>1, MessageTypes DEF Origins, PageText
  <2>3. (\A x, y \in msg.content : x = y) => \A x, y \in content : x = y
    BY <2>1
  <2>a. PICK status, off : status = "complete" /\ off = FALSE
    OBVIOUS
  <2>4. PICK new : new = Changed(msg, content, status, off)
    OBVIOUS
  <2>5. Cut(msg) = new
    BY <1>2, <2>1, <2>a, <2>4 DEF Cut
  <2>6. status \in Status /\ Flag(off)
    <3>1. Flag(off)
      BY <2>a, Flags, Zenon
    <3> QED BY <2>a, <3>1 DEF Status
  <2>7. /\ new \in MessageOf(k, n) /\ new.from = msg.from
        /\ new.content = content /\ new.status = status
    BY <2>2, <2>4, <2>6, ChangedParts
  <2> QED BY <1>2, <2>3, <2>a, <2>5, <2>7 DEF Unsettled
<1> QED BY <1>1, <1>2

LEMMA StopCut ==
    ASSUME stopAgentGeneration
    PROVE  updateLast(Cut(LastMessage))
BY DEF stopAgentGeneration, updateLast, LastMessage, Cut, Changed

\* The runs a Stop leaves.
LEMMA StoppedRuns ==
    ASSUME ShapeInv, stopAgentGeneration
    PROVE  runs' \subseteq RunOf(lastKey, opened)
<1> SUFFICES ASSUME NEW n \in runs'
             PROVE  n \in RunOf(lastKey, opened)
  OBVIOUS
<1>0. PICK r \in runs : n = [r EXCEPT !.pc = IF r.pc = "approval" THEN "denied" ELSE r.pc]
  BY DEF stopAgentGeneration
<1>1. PICK pc : /\ pc = (IF r.pc = "approval" THEN "denied" ELSE r.pc)
                /\ n = [r EXCEPT !.pc = pc]
  BY <1>0
<1>2. Parts(r, lastKey, opened)
  BY RunOfRuns, PartsLemma
<1>3. /\ Shape(n) /\ n.pc = pc /\ n.granted = r.granted
      /\ n.toolKey = r.toolKey
      /\ n.working = r.working /\ n.retry = r.retry
      /\ n.id = r.id /\ n.step = r.step /\ n.calls = r.calls
      /\ n.conn = r.conn /\ n.results = r.results
      /\ n.todo = r.todo
  BY <1>1, <1>2 DEF Parts, Fit, Shape, Fields
<1>4. pc \in Waiting /\ (pc \notin {"stream", "retry", "review"} => r.toolKey # None)
  BY <1>1, <1>2 DEF Parts, Fit, Waiting
<1>5. Parts(n, lastKey, opened)
  BY <1>2, <1>3, <1>4 DEF Parts, Fit
<1> QED BY <1>5, PartsLemma

\* Stop in an agent's conversation.
LEMMA StopAgentShape ==
    ASSUME ShapeInv, stopAgentGeneration
    PROVE  PageInv' /\ StoredInv' /\ CountInv' /\ Grows /\ AgentShape'
<1>0. PageInv /\ StoredInv /\ CountInv /\ lastKey \in Nat /\ opened \in Nat
  BY DEF ShapeInv, CountInv
<1>1. Messages # << >> => Cut(LastMessage) \in MessageOf(lastKey, opened)
  BY <1>0, LastMessageTyped, CutLemma
<1>2. UNCHANGED << lastKey, opened, reloads >>
  BY DEF stopAgentGeneration
<1>3. PageInv' /\ StoredInv' /\ CountInv' /\ Grows
  BY <1>0, <1>1, <1>2, StopCut, CallbackKeeps
<1>4. isAgentRunning' \in BOOLEAN
  BY DEF stopAgentGeneration
<1>5. control' \in [source : 0..opened', retryTimer : 0..lastKey', stopped : BOOLEAN]
  BY <1>0, <1>2 DEF stopAgentGeneration, None
<1>6. runs' \subseteq RunOf(lastKey', opened')
  BY <1>2, StoppedRuns
<1> QED BY <1>3, <1>4, <1>5, <1>6 DEF AgentShape

\* What the user's step leaves of the counters and the editor.
Counted ==
    /\ sends' = sends \/ (sends < MaxSends /\ sends' = sends + 1)
    /\ moves' = moves \/ (moves < MaxMoves /\ moves' = moves + 1)
    /\ edits' = edits \/ (edits < MaxEdits /\ edits' = edits + 1)

LEMMA CountedShape ==
    ASSUME CountInv, UserShape, Grows, Counted, Flag(pairing'), Flag(interfered'),
           editingMessageKey' = editingMessageKey \/ editingMessageKey' \in 0..lastKey'
    PROVE  UserShape'
<1>1. sends' \in 0..MaxSends /\ moves' \in 0..MaxMoves /\ edits' \in 0..MaxEdits
  BY StateAssumption, PlaygroundAssumption DEF Counted, UserShape
<1>2. editingMessageKey' \in 0..lastKey'
  BY DEF UserShape, Grows, CountInv
<1> QED BY <1>1, <1>2 DEF UserShape, Flag

LEMMA FlagKept ==
    ASSUME UserShape
    PROVE  Flag(pairing) /\ Flag(interfered) /\ \A p : Flag(interfered \/ p)
BY DEF UserShape, Flag

LEMMA EditorTyped ==
    ASSUME CountInv
    PROVE  None \in 0..lastKey
BY DEF CountInv, None

\* The steps of the user with one of the outcomes.
Asks ==
    \/ Submit
    \/ \E i \in DOMAIN converting : Converted(i)
    \/ \E i \in DOMAIN Messages :
          \/ handleRegenerateMessage(i)
          \/ handleDeleteMessage(i)
          \/ \E submit \in BOOLEAN : applyEdit(i, submit)
    \/ SidebarStep
    \/ AutoPair

\* Each of them has one of the outcomes.
LEMMA AsksOutcome ==
    ASSUME ShapeInv, Asks
    PROVE  ChatAsked \/ AgentAsked \/ Rewritten \/ Moved
BY SubmitOutcome, RegenerateOutcome, DeleteOutcome, ApplyOutcome, SidebarOutcome DEF Asks

LEMMA AsksCounted ==
    ASSUME ShapeInv, Asks
    PROVE  /\ Counted
           /\ Flag(pairing') /\ Flag(interfered')
           /\ editingMessageKey' = editingMessageKey \/ editingMessageKey' = None
<1>0. Flag(pairing) /\ Flag(interfered) /\ (\A p : Flag(interfered \/ p)) /\ Flag(FALSE)
  BY FlagKept, Flags DEF ShapeInv
<1>s. ASSUME NEW ms, NEW mode, handleSendMessage(ms, mode)
      PROVE  Counted /\ Flag(pairing') /\ editingMessageKey' = editingMessageKey
  <2>1. Counted /\ editingMessageKey' = editingMessageKey
    BY <1>s DEF handleSendMessage, Counted, CanSend
  <2>2. Flag(pairing')
    BY <1>0, <1>s, Zenon DEF handleSendMessage
  <2> QED BY <2>1, <2>2
<1>1. CASE Submit
  <2>1. Flag(interfered')
    BY <1>0, <1>1, Zenon DEF Submit
  <2> QED BY <1>1, <1>s, <2>1 DEF Submit
<1>a. ASSUME NEW i \in DOMAIN converting, Converted(i)
      PROVE  Counted /\ Flag(pairing') /\ Flag(interfered') /\ editingMessageKey' = editingMessageKey
  <2>1. Flag(interfered')
    BY <1>0, <1>a, Zenon DEF Converted
  <2> QED BY <1>a, <1>s, <2>1 DEF Converted
<1>2. ASSUME NEW i \in DOMAIN Messages, handleRegenerateMessage(i)
      PROVE  Counted /\ Flag(pairing') /\ Flag(interfered') /\ editingMessageKey' = editingMessageKey
  <2>1. Counted /\ editingMessageKey' = editingMessageKey
    BY <1>2 DEF handleRegenerateMessage, Counted, CanSend
  <2>2. Flag(pairing') /\ Flag(interfered')
    BY <1>0, <1>2, Zenon DEF handleRegenerateMessage
  <2> QED BY <2>1, <2>2
<1>3. ASSUME NEW i \in DOMAIN Messages, handleDeleteMessage(i)
      PROVE  Counted /\ Flag(pairing') /\ Flag(interfered') /\ editingMessageKey' = editingMessageKey
  <2>1. Counted /\ editingMessageKey' = editingMessageKey
    BY <1>3 DEF handleDeleteMessage, Counted
  <2>2. Flag(pairing') /\ Flag(interfered')
    BY <1>0, <1>3, Zenon DEF handleDeleteMessage
  <2> QED BY <2>1, <2>2
<1>4. ASSUME NEW i \in DOMAIN Messages, NEW submit \in BOOLEAN, applyEdit(i, submit)
      PROVE  Counted /\ Flag(pairing') /\ Flag(interfered') /\ editingMessageKey' = None
  <2>1. Counted /\ editingMessageKey' = None
    BY <1>4 DEF applyEdit, Counted, CanSend
  <2>2. Flag(pairing') /\ Flag(interfered')
    BY <1>0, <1>4, Zenon DEF applyEdit
  <2> QED BY <2>1, <2>2
<1>5. CASE SidebarStep
  <2>1. Counted /\ (editingMessageKey' = editingMessageKey \/ editingMessageKey' = None)
    BY <1>5 DEF SidebarStep, Counted, CloseEditor
  <2>2. Flag(pairing') /\ Flag(interfered')
    BY <1>0, <1>5, Zenon DEF SidebarStep
  <2> QED BY <2>1, <2>2
<1>6. CASE AutoPair
  <2>1. Counted /\ (editingMessageKey' = editingMessageKey \/ editingMessageKey' = None)
    BY <1>6 DEF AutoPair, Counted, CloseEditor
  <2>2. Flag(pairing') /\ Flag(interfered')
    BY <1>0, <1>6, Zenon DEF AutoPair
  <2> QED BY <2>1, <2>2
<1> QED BY <1>1, <1>a, <1>2, <1>3, <1>4, <1>5, <1>6 DEF Asks

LEMMA AsksQueues ==
    ASSUME Asks
    PROVE  Queues
BY DEF Asks, Queues, Submit, Converted, handleRegenerateMessage, handleDeleteMessage,
       applyEdit, SidebarStep, AutoPair

\* They keep the state well formed.
LEMMA AsksShape ==
    ASSUME ShapeInv, Asks
    PROVE  ShapeInv'
<1>1. PageInv' /\ StoredInv' /\ CountInv' /\ Grows /\ ChatShape' /\ AgentShape'
  BY AsksOutcome, OutcomeShape
<1>2. editingMessageKey' = editingMessageKey \/ editingMessageKey' \in 0..lastKey'
  BY <1>1, AsksCounted, EditorTyped DEF CountInv, None
<1>3. UserShape'
  BY <1>1, <1>2, AsksCounted, CountedShape DEF ShapeInv
<1>4. FormShape'
  BY <1>1, AsksQueues, FormsGrow
<1> QED BY <1>1, <1>3, <1>4 DEF ShapeInv

\* handleEditMessage
LEMMA EditShape ==
    ASSUME ShapeInv, NEW i \in DOMAIN Messages, handleEditMessage(i)
    PROVE  ShapeInv'
<1>0. /\ PageInv /\ StoredInv /\ CountInv /\ ChatShape /\ AgentShape /\ UserShape
      /\ lastKey \in Nat /\ opened \in Nat
  BY DEF ShapeInv, CountInv
<1>1. UNCHANGED << stateVars, chatVars, agentVars >>
  BY DEF handleEditMessage
<1>2. Grows /\ UNCHANGED << conversationVars, reloads >>
  BY <1>0, <1>1, UnchangedGrows DEF stateVars
<1>3. PageInv' /\ StoredInv' /\ CountInv' /\ ChatShape' /\ AgentShape'
  BY <1>0, <1>1, <1>2, StillKeeps, ChatGrows, AgentGrows
<1>4. editingMessageKey' \in 0..lastKey'
  <2>1. Messages[i] \in MessageOf(lastKey, opened)
    BY <1>0, MessagesTyped
  <2>2. Messages[i].key \in 1..lastKey
    BY <2>1, MessageTypes
  <2> QED BY <1>0, <1>1, <2>2 DEF handleEditMessage, stateVars
<1>5. Counted
  BY DEF handleEditMessage, Counted
<1>6. Flag(pairing') /\ Flag(interfered')
  <2>1. pairing' = pairing /\ interfered' = interfered
    BY DEF handleEditMessage
  <2> QED BY <1>0, <2>1, FlagKept, Zenon
<1>7. UserShape'
  BY <1>0, <1>2, <1>4, <1>5, <1>6, CountedShape
<1>8. FormShape'
  BY <1>2, FormsGrow DEF Queues, handleEditMessage
<1> QED BY <1>3, <1>7, <1>8 DEF ShapeInv

\* The input is submitted with attachments.
LEMMA StartShapes ==
    ASSUME ShapeInv, StartConversion
    PROVE  ShapeInv'
<1>0. /\ PageInv /\ StoredInv /\ CountInv /\ ChatShape /\ AgentShape /\ UserShape
  BY DEF ShapeInv
<1>1. /\ UNCHANGED << conversationVars, reloads, opened, lastKey >>
      /\ UNCHANGED chatVars /\ UNCHANGED agentVars
  BY DEF StartConversion, stateVars
<1>2. Grows
  BY <1>0, <1>1, UnchangedGrows
<1>3. PageInv' /\ StoredInv' /\ CountInv' /\ ChatShape' /\ AgentShape'
  BY <1>0, <1>1, <1>2, StillKeeps, ChatGrows, AgentGrows
<1>4. UserShape'
  BY <1>0, <1>1 DEF StartConversion, UserShape
<1>5. FormShape'
  BY <1>2, FormsGrow DEF Queues, StartConversion
<1> QED BY <1>3, <1>4, <1>5 DEF ShapeInv

\* Stop, in either mode.
LEMMA StopStepShape ==
    ASSUME ShapeInv, Stop
    PROVE  ShapeInv'
<1>0. /\ PageInv /\ StoredInv /\ CountInv /\ ChatShape /\ AgentShape /\ UserShape
  BY DEF ShapeInv
<1>1. PageInv' /\ StoredInv' /\ CountInv' /\ Grows /\ ChatShape' /\ AgentShape'
  <2>1. CASE stopGeneration /\ UNCHANGED agentVars
    <3>1. PageInv' /\ StoredInv' /\ CountInv' /\ Grows /\ ChatShape'
      BY <2>1, StopShape
    <3> QED BY <1>0, <2>1, <3>1, AgentGrows
  <2>2. CASE stopAgentGeneration /\ UNCHANGED chatVars
    <3>1. PageInv' /\ StoredInv' /\ CountInv' /\ Grows /\ AgentShape'
      BY <2>2, StopAgentShape
    <3> QED BY <1>0, <2>2, <3>1, ChatGrows
  <2> QED BY <2>1, <2>2 DEF Stop
<1>2. Counted /\ editingMessageKey' = editingMessageKey
  BY DEF Stop, Counted
<1>3. Flag(pairing')
  BY <1>0, FlagKept, Zenon DEF Stop
<1>4. Flag(interfered')
  BY <1>0, FlagKept, Zenon DEF Stop
<1>5. UserShape'
  BY <1>0, <1>1, <1>2, <1>3, <1>4, CountedShape
<1>6. FormShape'
  BY <1>1, FormsGrow DEF Queues, Stop
<1> QED BY <1>1, <1>5, <1>6 DEF ShapeInv

\* The page is closed and opened again.
LEMMA ReloadShape ==
    ASSUME ShapeInv, Reload
    PROVE  ShapeInv'
<1>0. /\ PageInv /\ StoredInv /\ CountInv /\ UserShape
  BY DEF ShapeInv
<1>1. PageInv' /\ StoredInv' /\ CountInv' /\ UNCHANGED << lastKey, opened >>
  BY <1>0, LoadKeeps DEF Reload, LoadState
<1>2. lastKey' \in Nat /\ opened' \in Nat /\ Grows
  BY <1>0, <1>1, UnchangedGrows DEF CountInv
<1>3. ChatShape'
  <2>1. isStreaming' \in BOOLEAN /\ isStreamComplete' \in BOOLEAN /\ streamStopped' \in BOOLEAN
        /\ silent' \in BOOLEAN
    BY DEF Reload
  <2>2. sseSource' \in 0..opened' /\ retryTimeout' \in 0..lastKey' /\ sources' = {}
    BY <1>2 DEF Reload, None
  <2>3. retryCount' \in [Keys -> 0..MAX_STREAM_RETRIES]
    BY StateAssumption DEF Reload
  <2> QED BY <2>1, <2>2, <2>3 DEF ChatShape
<1>4. AgentShape'
  <2>1. isAgentRunning' \in BOOLEAN
    BY DEF Reload
  <2>2. control' \in [source : 0..opened', retryTimer : 0..lastKey', stopped : BOOLEAN]
    BY <1>2 DEF Reload, None
  <2>3. runs' = {}
    BY DEF Reload
  <2> QED BY <2>1, <2>2, <2>3 DEF AgentShape
<1>5. Counted /\ editingMessageKey' \in 0..lastKey'
  BY <1>2 DEF Reload, Counted, None
<1>6. Flag(pairing') /\ Flag(interfered')
  BY <1>0, FlagKept, Zenon DEF Reload
<1>7. UserShape'
  BY <1>0, <1>2, <1>5, <1>6, CountedShape
<1>8. FormShape'
  BY <1>2, FormsGrow DEF Queues, Reload
<1> QED BY <1>1, <1>3, <1>4, <1>7, <1>8 DEF ShapeInv

-----------------------------------------------------------------------------
(* The state is well formed                                                *)

\* The page as it is opened for the first time.
LEMMA InitShape ==
    ASSUME Init
    PROVE  ShapeInv
<1>0. lastKey = 0 /\ opened = 0 /\ reloads = 0 /\ lostSaves = 0
  BY DEF Init, StateInit
<1>1. PageInv
  <2>1. conversations = FirstPage /\ active = 1 /\ activeIds = FirstIds
    BY DEF Init, StateInit, FirstPage, FirstIds
  <2>2. PageShape(FirstPage, 1, FirstIds, lastKey, opened)
    BY FirstPageShape
  <2> QED BY <2>1, <2>2 DEF PageInv
<1>2. StoredInv
  <2>1. PICK cs, ids : cs = << >> /\ ids = [mode \in Modes |-> None]
    OBVIOUS
  <2>2. stored = [conversations |-> cs, active |-> None, activeIds |-> ids]
    BY <2>1 DEF Init, StateInit
  <2>3. Shelf(cs, lastKey, opened)
    <3>1. cs \in Seq(ConversationOf(lastKey, opened))
      BY <2>1, EmptySeq
    <3>2. DOMAIN cs = {}
      BY <2>1
    <3> QED BY <3>1, <3>2 DEF Shelf
  <2>4. ids \in Remembered
    BY <2>1 DEF Remembered
  <2>5. /\ stored = [conversations |-> stored.conversations, active |-> stored.active,
                     activeIds |-> stored.activeIds]
        /\ stored.conversations = cs /\ stored.active = None /\ stored.activeIds = ids
    BY <2>2
  <2>6. stored.active \in ConversationIds \cup {None}
    BY <2>5
  <2> QED BY <2>3, <2>4, <2>5, <2>6 DEF StoredInv, StoredShape
<1>3. CountInv
  BY <1>0, StateAssumption DEF CountInv
<1>4. ChatShape
  <2>1. isStreaming \in BOOLEAN /\ isStreamComplete \in BOOLEAN /\ streamStopped \in BOOLEAN
        /\ silent \in BOOLEAN
    BY DEF Init, ChatInit
  <2>2. sseSource \in 0..opened /\ retryTimeout \in 0..lastKey /\ sources = {}
    BY <1>0 DEF Init, ChatInit, None
  <2>3. retryCount \in [Keys -> 0..MAX_STREAM_RETRIES]
    BY StateAssumption DEF Init, ChatInit
  <2> QED BY <2>1, <2>2, <2>3 DEF ChatShape
<1>5. AgentShape
  <2>1. isAgentRunning \in BOOLEAN
    BY DEF Init, AgentInit
  <2>2. control \in [source : 0..opened, retryTimer : 0..lastKey, stopped : BOOLEAN]
    BY <1>0 DEF Init, AgentInit, None
  <2>3. runs = {}
    BY DEF Init, AgentInit
  <2> QED BY <2>1, <2>2, <2>3 DEF AgentShape
<1>6. UserShape
  <2>1. /\ sends \in 0..MaxSends /\ moves \in 0..MaxMoves /\ edits \in 0..MaxEdits
        /\ editingMessageKey \in 0..lastKey
    BY <1>0, StateAssumption, PlaygroundAssumption DEF Init, None
  <2>2. pairing \in BOOLEAN
    BY PlaygroundAssumption DEF Init
  <2>3. interfered \in BOOLEAN
    BY DEF Init
  <2> QED BY <2>1, <2>2, <2>3 DEF UserShape
<1>7. FormShape
  <2>1. converting = << >> /\ MaxConversions \in Nat
    BY PlaygroundAssumption DEF Init
  <2>2. converting \in Seq(FormOf(lastKey, opened)) /\ Len(converting) = 0
    BY <2>1
  <2> QED BY <2>1, <2>2 DEF FormShape
<1> QED BY <1>1, <1>2, <1>3, <1>4, <1>5, <1>6, <1>7 DEF ShapeInv

LEMMA StillShape ==
    ASSUME ShapeInv, UNCHANGED vars
    PROVE  ShapeInv'
<1>0. /\ PageInv /\ StoredInv /\ CountInv /\ ChatShape /\ AgentShape /\ UserShape
  BY DEF ShapeInv
<1>1. /\ UNCHANGED << conversationVars, reloads, opened, lastKey >>
      /\ UNCHANGED chatVars /\ UNCHANGED agentVars /\ UNCHANGED userVars
  BY DEF vars, stateVars
<1>2. Grows
  BY <1>0, <1>1, UnchangedGrows
<1>3. FormShape'
  BY <1>1, <1>2, FormsGrow DEF Queues, userVars
<1> QED BY <1>0, <1>1, <1>2, <1>3, StillKeeps, ChatGrows, AgentGrows, UserGrows DEF ShapeInv

LEMMA UserSteps ==
    ASSUME UserStep
    PROVE  \/ Asks \/ Approve \/ Stop \/ Reload \/ StartConversion
           \/ \E i \in DOMAIN Messages : handleEditMessage(i)
BY DEF UserStep, Asks

\* Every step of the page keeps the state well formed.
LEMMA StepShape ==
    ASSUME ShapeInv, [Next]_vars
    PROVE  ShapeInv'
<1>1. CASE ChatStep
  BY <1>1, ChatStepShape
<1>2. CASE AgentStep \/ Approve
  BY <1>2, AgentStepShape
<1>3. CASE Asks
  BY <1>3, AsksShape
<1>4. CASE \E i \in DOMAIN Messages : handleEditMessage(i)
  BY <1>4, EditShape
<1>5. CASE Stop
  BY <1>5, StopStepShape
<1>6. CASE Reload
  BY <1>6, ReloadShape
<1>7. CASE UNCHANGED vars
  BY <1>7, StillShape
<1>8. CASE StartConversion
  BY <1>8, StartShapes
<1> QED BY <1>1, <1>2, <1>3, <1>4, <1>5, <1>6, <1>7, <1>8, UserSteps DEF Next

\* The conversations on the page and in localStorage have ids of their own and
\* well-formed messages made of keys and connections given out before, streams, timers
\* and runs refer to such keys and connections, and every run works on messages that
\* end with an answer, whatever the user and the relay do and whichever part of a
\* save was lost (persistConversationState, loadConversations).
THEOREM WellFormed == Spec => []ShapeInv
BY InitShape, StepShape, PTL DEF Spec

\* The page shows one of its conversations and remembers one for each mode that has
\* any (deleteConversation, switchMode, loadConversations).
THEOREM LastOfModeKept == Spec => []LastOfMode
<1>1. ShapeInv => LastOfMode
  BY DEF ShapeInv, PageInv, PageShape, Remembers, LastOfMode
<1> QED BY <1>1, WellFormed, PTL

-----------------------------------------------------------------------------
(* The lock: what a step leaves of the generations                         *)

\* updateMessages with messages of which only the last may be unsettled.
LEMMA TidyUpdate ==
    ASSUME ShapeInv, TidyInv, Grows, NEW ms \in Seq(MessageOf(lastKey', opened')),
           updateMessages(ms), Neat(ms), ~isBusy' => Calm(ms)
    PROVE  TidyInv' /\ Messages' = ms
<1>0. PageInv /\ StoredInv /\ CountInv
  BY DEF ShapeInv
<1>1. /\ active' = active /\ Messages' = ms
      /\ stored'.conversations \in {conversations', stored.conversations}
      /\ DOMAIN conversations' = DOMAIN conversations
      /\ \A i \in DOMAIN conversations :
            /\ conversations'[i].id = conversations[i].id
            /\ conversations'[i].messages = IF conversations[i].id = active THEN ms
                                            ELSE conversations[i].messages
  BY <1>0, UpdateLemma
<1>2. \A i \in DOMAIN conversations' :
         /\ Neat(conversations'[i].messages)
         /\ conversations'[i].id # active' => Calm(conversations'[i].messages)
  BY <1>1 DEF TidyInv
<1>3. \A i \in DOMAIN stored'.conversations : Neat(stored'.conversations[i].messages)
  BY <1>1, <1>2 DEF TidyInv
<1>4. ~isBusy' => Calm(Messages')
  BY <1>1
<1> QED BY <1>1, <1>2, <1>3, <1>4 DEF TidyInv

LEMMA TidyStill ==
    ASSUME ShapeInv, TidyInv, Grows, UNCHANGED conversationVars, ~isBusy' => Calm(Messages)
    PROVE  TidyInv' /\ Messages' = Messages
<1>1. /\ active' = active /\ conversations' = conversations /\ stored' = stored
      /\ Messages' = Messages
  BY KeptLemma DEF ShapeInv
<1> QED BY <1>1 DEF TidyInv

\* What a step of a run leaves of the messages.
LEMMA TidyWrites ==
    ASSUME ShapeInv, TidyInv, Grows, NEW ms \in Seq(MessageOf(lastKey', opened')),
           Writes(ms), Neat(ms), ~isBusy' => Calm(ms)
    PROVE  TidyInv' /\ Messages' = ms
<1>1. CASE updateMessages(ms)
  BY <1>1, TidyUpdate
<1>2. CASE UNCHANGED conversationVars /\ ms = Messages
  BY <1>2, TidyStill
<1> QED BY <1>1, <1>2 DEF Writes

LEMMA MessagesNeat ==
    ASSUME ShapeInv, TidyInv
    PROVE  Neat(Messages)
<1>1. Shelf(conversations, lastKey, opened) /\ active \in Ids(conversations)
  BY DEF ShapeInv, PageInv, PageShape, Remembers
<1>2. PICK a \in DOMAIN conversations : Messages = conversations[a].messages
  BY <1>1, ActiveLemma
<1> QED BY <1>2 DEF TidyInv

\* A page that is not busy has nothing going on.
LEMMA IdleLemma ==
    ASSUME ShapeInv, Ordered, ~isBusy
    PROVE  /\ sources = {} /\ retryTimeout = None /\ runs = {}
           /\ Calm(Messages) /\ Neat(Messages)
           /\ ~isStreaming /\ ~isAgentRunning
<1>1. ~isStreaming /\ ~isAgentRunning
  BY DEF isBusy
<1>2. sources = {} /\ retryTimeout = None
  BY <1>1 DEF Ordered, StreamInv
<1>3. runs = {}
  BY <1>1 DEF Ordered, AloneInv
<1>4. Calm(Messages)
  BY DEF Ordered, TidyInv
<1>5. Neat(Messages)
  BY MessagesNeat DEF Ordered
<1> QED BY <1>1, <1>2, <1>3, <1>4, <1>5

\* What is settled in the active conversation stays.
MessagesKept ==
    \E ms \in Seq(MessageOf(lastKey', opened')) : Writes(ms) /\ Kept(Messages, ms)

\* A step of the only run leaves it the only one, or none.
LEMMA ProceedsOrdered ==
    ASSUME ShapeInv, Ordered, NEW r \in runs, Proceeds(r), UNCHANGED chatVars
    PROVE  Ordered' /\ MessagesKept
<1>0. /\ Grows /\ TidyInv /\ StreamInv /\ isAgentRunning /\ ~isStreaming /\ runs = {r}
      /\ Lone(r, Messages, control) /\ Neat(Messages)
  BY MessagesNeat DEF Proceeds, Ordered, AloneInv
<1>1. sources = {} /\ retryTimeout = None
  BY <1>0 DEF StreamInv
<1>2. sources' = {} /\ retryTimeout' = None /\ isStreaming' = isStreaming
  BY <1>1 DEF chatVars
<1>3. StreamInv'
  BY <1>2 DEF StreamInv
<1>4. ~isStreaming'
  BY <1>0, <1>2
<1>5. CASE GoesOn(r)
  <2>1. PICK n \in RunOf(lastKey', opened'), ms \in Seq(MessageOf(lastKey', opened')) :
           /\ runs' = (runs \ {r}) \cup {n} /\ Writes(ms)
           /\ isAgentRunning' = isAgentRunning
           /\ Lone(n, ms, control') /\ Neat(ms) /\ Kept(Messages, ms)
    BY <1>0, <1>5 DEF GoesOn
  <2>2. isAgentRunning' /\ isBusy' /\ runs' = {n}
    BY <1>0, <2>1 DEF isBusy
  <2>3. TidyInv' /\ Messages' = ms
    BY <1>0, <2>1, <2>2, TidyWrites
  <2>4. AloneInv'
    BY <1>4, <2>1, <2>2, <2>3 DEF AloneInv
  <2> QED BY <1>3, <1>4, <2>1, <2>3, <2>4 DEF Ordered, MessagesKept
<1>6. CASE Ends(r)
  <2>1. PICK ctl \in ControlOf(lastKey', opened'), ms \in Seq(MessageOf(lastKey', opened')) :
           /\ EndRun(r, ctl) /\ Writes(ms) /\ ~ctl.stopped
           /\ Calm(ms) /\ Neat(ms) /\ Kept(Messages, ms)
    BY <1>0, <1>6 DEF Ends
  <2>2. isAgentRunning' = FALSE /\ runs' = {}
    BY <1>0, <2>1 DEF EndRun
  <2>3. TidyInv' /\ Messages' = ms
    BY <1>0, <2>1, TidyWrites
  <2>4. AloneInv'
    BY <2>2 DEF AloneInv
  <2> QED BY <1>3, <1>4, <2>1, <2>3, <2>4 DEF Ordered, MessagesKept
<1> QED BY <1>5, <1>6 DEF Proceeds

\* A callback of the chat writes to the answer it is for.
LEMMA AnswerWritten ==
    ASSUME ShapeInv, TidyInv, UNCHANGED << lastKey, opened >>,
           NEW new \in MessageOf(lastKey, opened), updateLast(new), Messages # << >>,
           Unsettled(Last(Messages)), \A x, y \in new.content : x = y,
           ~isBusy' => ~Unsettled(new)
    PROVE  /\ TidyInv' /\ Messages' # << >> /\ Last(Messages') = new
           /\ MessagesKept
<1>0. PageInv /\ CountInv /\ Grows /\ Neat(Messages)
  BY UnchangedGrows, MessagesNeat DEF ShapeInv
<1> DEFINE M == MessageOf(lastKey, opened)
<1>1. Messages \in Seq(M)
  BY <1>0, MessagesTyped
<1>2. PICK ms : ms = updateLastAssistantMessage(Messages, new) /\ updateMessages(ms)
  BY DEF updateLast
<1>3. /\ ms = [Messages EXCEPT ![Len(Messages)] = new]
  BY <1>2 DEF updateLastAssistantMessage, Unsettled
<1>4. new \in M
  OBVIOUS
<1> HIDE DEF M
<1>5. /\ ms \in Seq(M) /\ Len(ms) = Len(Messages) /\ Last(ms) = new /\ ms # << >>
      /\ \A j \in DOMAIN Messages : j # Len(Messages) => ms[j] = Messages[j]
  BY <1>1, <1>3, <1>4 DEF Last
<1>6. Neat(ms) /\ Kept(Messages, ms) /\ (~Unsettled(new) => Calm(ms))
  BY <1>0, <1>1, <1>5, LastNeat
<1>7. ms \in Seq(MessageOf(lastKey', opened'))
  BY <1>5 DEF M
<1>8. TidyInv' /\ Messages' = ms
  BY <1>0, <1>2, <1>6, <1>7, TidyUpdate
<1> QED BY <1>2, <1>5, <1>6, <1>7, <1>8 DEF Writes, MessagesKept

\* What the callbacks make of the answer they write to.
LEMMA UpdateFacts ==
    ASSUME NEW k, NEW n \in Nat, NEW msg \in MessageOf(k, n), Unsettled(msg), NEW kind,
           NEW conn \in 1..n, ~msg.reconnecting => msg.content \subseteq {conn}, NEW new,
           new = handleStreamUpdate(msg, kind, conn)
    PROVE  /\ new \in MessageOf(k, n) /\ new.key = msg.key /\ Unsettled(new)
           /\ new.content \subseteq {conn} /\ \A x, y \in new.content : x = y
<1>1. PICK content : content = (IF msg.reconnecting THEN {} ELSE msg.content)
                               \cup (IF kind = "content" THEN {conn} ELSE {})
  OBVIOUS
<1>2. content \subseteq {conn}
  BY <1>1
<1>3. Origins(content, n)
  BY <1>2 DEF Origins
<1>4. PICK status, off : status = "streaming" /\ off = FALSE
  OBVIOUS
<1>5. status \in Status /\ Flag(off)
  <2>1. Flag(off)
    BY <1>4, Flags, Zenon
  <2> QED BY <1>4, <2>1 DEF Status
<1>6. new = Changed(msg, content, status, off)
  BY <1>1, <1>4 DEF handleStreamUpdate, Changed, Unsettled
<1>7. /\ new \in MessageOf(k, n) /\ new.key = msg.key /\ new.from = msg.from
      /\ new.content = content /\ new.status = status
  BY <1>3, <1>5, <1>6, ChangedParts
<1>8. Unsettled(new)
  BY <1>4, <1>7 DEF Unsettled
<1> QED BY <1>2, <1>7, <1>8

Noticed(msg, status, again) == Changed(msg, {PageText}, status, again)

LEMMA NoticeFacts ==
    ASSUME NEW k, NEW n \in Nat, NEW msg \in MessageOf(k, n), NEW status \in Status,
           NEW again, Flag(again), NEW new, new = Noticed(msg, status, again)
    PROVE  /\ new \in MessageOf(k, n) /\ new.key = msg.key /\ new.from = msg.from
           /\ new.status = status /\ new.reconnecting = again
           /\ \A x, y \in new.content : x = y
<1>1. PICK content : content = {PageText}
  OBVIOUS
<1>2. Origins(content, n)
  BY <1>1 DEF Origins, PageText
<1>3. new = Changed(msg, content, status, again)
  BY <1>1 DEF Noticed
<1>4. /\ new \in MessageOf(k, n) /\ new.key = msg.key /\ new.from = msg.from
      /\ new.content = content /\ new.status = status /\ new.reconnecting = again
  BY ONLY n \in Nat, msg \in MessageOf(k, n), status \in Status, Flag(again),
          <1>2, <1>3, ChangedParts
<1> QED BY <1>1, <1>4

LEMMA ErrorFacts ==
    ASSUME NEW k, NEW n \in Nat, NEW msg \in MessageOf(k, n), NEW new,
           new = handleStreamError(msg)
    PROVE  /\ new \in MessageOf(k, n) /\ ~Unsettled(new)
           /\ \A x, y \in new.content : x = y
<1>1. PICK status, off : status = "error" /\ off = FALSE
  OBVIOUS
<1>2. status \in Status /\ Flag(off)
  <2>1. Flag(off)
    BY <1>1, Flags, Zenon
  <2> QED BY <1>1, <2>1 DEF Status
<1>3. new = Noticed(msg, status, off)
  BY <1>1 DEF Noticed, handleStreamError, Changed
<1>4. new \in MessageOf(k, n) /\ new.status = status /\ \A x, y \in new.content : x = y
  BY <1>2, <1>3, NoticeFacts
<1> QED BY <1>1, <1>4 DEF Unsettled

LEMMA ReconnectFacts ==
    ASSUME NEW k, NEW n \in Nat, NEW msg \in MessageOf(k, n), Unsettled(msg), NEW new,
           new = handleStreamReconnect(msg)
    PROVE  /\ new \in MessageOf(k, n) /\ Unsettled(new) /\ new.key = msg.key
           /\ new.reconnecting
           /\ \A x, y \in new.content : x = y
<1>1. PICK status, on : status = "loading" /\ on = TRUE
  OBVIOUS
<1>2. status \in Status /\ Flag(on)
  <2>1. Flag(on)
    BY <1>1, Flags, Zenon
  <2> QED BY <1>1, <2>1 DEF Status
<1>3. new = Noticed(msg, status, on)
  BY <1>1 DEF Noticed, handleStreamReconnect, Changed
<1>4. /\ new \in MessageOf(k, n) /\ new.key = msg.key /\ new.from = msg.from
      /\ new.status = status /\ new.reconnecting = on
      /\ \A x, y \in new.content : x = y
  BY <1>2, <1>3, NoticeFacts
<1>5. new.reconnecting
  BY <1>1, <1>4
<1>6. Unsettled(new)
  BY <1>1, <1>4 DEF Unsettled
<1> QED BY <1>4, <1>5, <1>6

LEMMA CompleteFacts ==
    ASSUME NEW k, NEW n \in Nat, NEW msg \in MessageOf(k, n), NEW new,
           new = handleStreamComplete(msg) \/ new = finalizeStopped(msg)
    PROVE  /\ new \in MessageOf(k, n) /\ ~Unsettled(new)
           /\ new.content = msg.content /\ new.from = msg.from
<1>1. new = msg \/ new = [msg EXCEPT !.status = "complete"]
  BY DEF handleStreamComplete, finalizeStopped
<1>2. CASE new = msg /\ msg.status \notin {"loading", "streaming"}
  BY <1>2 DEF Unsettled
<1>3. CASE new = [msg EXCEPT !.status = "complete"]
  <2>1. "complete" \in Status
    BY DEF Status
  <2>2. new \in MessageOf(k, n) /\ new.content = msg.content /\ new.status = "complete"
        /\ new.from = msg.from
    BY <1>3, <2>1, StatusChanged
  <2> QED BY <2>2 DEF Unsettled
<1>4. new = msg => msg.status \notin {"loading", "streaming"} \/ new = [msg EXCEPT !.status = "complete"]
  BY DEF handleStreamComplete, finalizeStopped
<1> QED BY <1>1, <1>2, <1>3, <1>4

-----------------------------------------------------------------------------
(* The lock: streams of the chat                                           *)

\* What an open connection shows about the page.
LEMMA SourceFacts ==
    ASSUME ShapeInv, Ordered, NEW s \in sources
    PROVE  /\ isStreaming /\ ~isAgentRunning /\ runs = {} /\ ~streamStopped /\ ~isStreamComplete
           /\ sources = {s} /\ sseSource = s.conn /\ retryTimeout = None
           /\ Messages # << >> /\ LastMessage \in MessageOf(lastKey, opened)
           /\ LastMessage.key = s.own /\ Unsettled(LastMessage)
           /\ ~LastMessage.reconnecting => LastMessage.content \subseteq {s.conn}
           /\ \A x, y \in LastMessage.content : x = y
           /\ s.conn \in 1..opened /\ TidyInv /\ CountInv /\ opened \in Nat
<1>1. /\ isStreaming /\ ~isAgentRunning /\ ~streamStopped /\ ~isStreamComplete
      /\ sources = {s} /\ sseSource = s.conn /\ retryTimeout = None
      /\ Messages # << >> /\ LastMessage.key = s.own /\ Unsettled(LastMessage)
      /\ ~LastMessage.reconnecting => LastMessage.content \subseteq {s.conn}
  BY DEF Ordered, StreamInv, AnswerOf, LastMessage
<1>2. runs = {}
  BY <1>1 DEF Ordered, AloneInv
<1>3. LastMessage \in MessageOf(lastKey, opened)
  BY <1>1, LastMessageTyped DEF ShapeInv
<1>4. \A x, y \in LastMessage.content : x = y
  <2>1. Neat(Messages) /\ Len(Messages) \in DOMAIN Messages
    BY <1>1, MessagesNeat, MessagesTyped, LastOfTyped DEF Ordered, ShapeInv
  <2> QED BY <2>1 DEF Neat, LastMessage, Last
<1>5. s.conn \in 1..opened /\ CountInv /\ opened \in Nat
  BY DEF ShapeInv, ChatShape, CountInv
<1> QED BY <1>1, <1>2, <1>3, <1>4, <1>5 DEF Ordered

\* A piece of the answer arrives.
LEMMA ChunkOrdered ==
    ASSUME ShapeInv, Ordered, NEW s \in sources, NEW kind, ReceiveChunk(s, kind),
           UNCHANGED agentVars
    PROVE  Ordered' /\ MessagesKept
<1>1. PICK new : /\ new = handleStreamUpdate(LastMessage, kind, s.conn) /\ updateLast(new)
                 /\ UNCHANGED << chatVars, reloads, opened, lastKey >>
  BY DEF ReceiveChunk
<1>2. /\ new \in MessageOf(lastKey, opened) /\ new.key = LastMessage.key /\ Unsettled(new)
      /\ new.content \subseteq {s.conn} /\ \A x, y \in new.content : x = y
  BY <1>1, SourceFacts, UpdateFacts
<1>3. isBusy'
  BY <1>1, SourceFacts DEF isBusy, chatVars
<1>4. /\ TidyInv' /\ Messages' # << >> /\ Last(Messages') = new /\ MessagesKept
  BY <1>1, <1>2, <1>3, SourceFacts, AnswerWritten DEF LastMessage
<1>5. /\ sources' = {s} /\ sseSource' = s.conn /\ retryTimeout' = None
      /\ isStreaming' /\ ~streamStopped' /\ ~isStreamComplete'
  BY <1>1, SourceFacts DEF chatVars
<1>6. ~isAgentRunning' /\ runs' = {}
  BY SourceFacts DEF agentVars
<1>7. StreamInv'
  BY <1>2, <1>4, <1>5, <1>6, SourceFacts DEF StreamInv, AnswerOf
<1>8. AloneInv'
  BY <1>6 DEF AloneInv
<1> QED BY <1>4, <1>6, <1>7, <1>8 DEF Ordered

\* The answer is final: the page is not busy any more.
LEMMA FinalOrdered ==
    ASSUME ShapeInv, Ordered, NEW s \in sources, NEW new \in MessageOf(lastKey, opened),
           updateLast(new), ~Unsettled(new), \A x, y \in new.content : x = y,
           UNCHANGED << opened, lastKey, agentVars >>,
           sources' = {}, retryTimeout' = None, isStreaming' = FALSE
    PROVE  Ordered' /\ MessagesKept
<1>1. /\ TidyInv' /\ MessagesKept
  BY SourceFacts, AnswerWritten DEF LastMessage
<1>2. ~isAgentRunning' /\ runs' = {}
  BY SourceFacts DEF agentVars
<1>3. StreamInv' /\ AloneInv'
  BY <1>2 DEF StreamInv, AloneInv
<1> QED BY <1>1, <1>2, <1>3 DEF Ordered

\* [DONE]
LEMMA DoneOrdered ==
    ASSUME ShapeInv, Ordered, NEW s \in sources, ReceiveDone(s), UNCHANGED agentVars
    PROVE  Ordered' /\ MessagesKept
<1>1. PICK new : new = handleStreamComplete(LastMessage) /\ updateLast(new)
  BY DEF ReceiveDone
<1>2. /\ UNCHANGED << opened, lastKey, agentVars >> /\ retryTimeout' = None
      /\ isStreaming' = FALSE /\ sources' = closeSource(sources)
  BY DEF ReceiveDone
<1>3. sources' = {}
  BY <1>2, SourceFacts DEF closeSource
<1>4. /\ new \in MessageOf(lastKey, opened) /\ ~Unsettled(new)
      /\ \A x, y \in new.content : x = y
  BY <1>1, SourceFacts, CompleteFacts
<1> QED BY <1>1, <1>2, <1>3, <1>4, FinalOrdered

\* The connection fails: the call waits for its timer or is over.
LEMMA ErrorOrdered ==
    ASSUME ShapeInv, Ordered, NEW s \in sources, NEW live, live \subseteq sources,
           handleError(s.own, live),
           UNCHANGED << isStreamComplete, streamStopped, opened, lastKey, agentVars >>
    PROVE  Ordered' /\ MessagesKept
<1>0. /\ sources' = closeSource(live)
      /\ \/ /\ isStreaming' = FALSE
            /\ updateLast(handleStreamError(LastMessage))
            /\ UNCHANGED retryTimeout
         \/ /\ updateLast(handleStreamReconnect(LastMessage))
            /\ retryTimeout' = s.own
            /\ UNCHANGED isStreaming
  BY SourceFacts DEF handleError
<1>1. sources' = {}
  BY <1>0, SourceFacts DEF closeSource
<1>2. CASE /\ isStreaming' = FALSE
           /\ updateLast(handleStreamError(LastMessage))
           /\ UNCHANGED retryTimeout
  <2>1. PICK new : new = handleStreamError(LastMessage) /\ updateLast(new)
    BY <1>2
  <2>2. /\ new \in MessageOf(lastKey, opened) /\ ~Unsettled(new)
        /\ \A x, y \in new.content : x = y
    BY <2>1, SourceFacts, ErrorFacts
  <2>3. retryTimeout' = None
    BY <1>2, SourceFacts
  <2> QED BY <1>1, <1>2, <2>1, <2>2, <2>3, FinalOrdered
<1>3. CASE /\ updateLast(handleStreamReconnect(LastMessage))
           /\ retryTimeout' = s.own
           /\ UNCHANGED isStreaming
  <2>1. PICK new : new = handleStreamReconnect(LastMessage) /\ updateLast(new)
    BY <1>3
  <2>2. /\ new \in MessageOf(lastKey, opened) /\ Unsettled(new) /\ new.key = LastMessage.key
        /\ new.reconnecting
        /\ \A x, y \in new.content : x = y
    BY <2>1, SourceFacts, ReconnectFacts
  <2>3. isStreaming' /\ isBusy' /\ ~streamStopped' /\ ~isStreamComplete'
    BY <1>3, SourceFacts DEF isBusy
  <2>4. /\ TidyInv' /\ Messages' # << >> /\ Last(Messages') = new /\ MessagesKept
    BY <2>1, <2>2, <2>3, SourceFacts, AnswerWritten DEF LastMessage
  <2>5. ~isAgentRunning' /\ runs' = {}
    BY SourceFacts DEF agentVars
  <2>6. StreamInv'
    BY <1>1, <1>3, <2>2, <2>3, <2>4, <2>5, SourceFacts DEF StreamInv, AnswerOf
  <2>7. AloneInv'
    BY <2>5 DEF AloneInv
  <2> QED BY <2>4, <2>5, <2>6, <2>7 DEF Ordered
<1> QED BY <1>0, <1>2, <1>3

LEMMA StillKept ==
    ASSUME ShapeInv, Grows, UNCHANGED conversationVars
    PROVE  MessagesKept
BY MessagesGrow, KeptSame DEF MessagesKept, Writes

\* The connection ends without [DONE]: the page stays busy.
LEMMA SourceEndsOrdered ==
    ASSUME ShapeInv, Ordered, NEW s \in sources, SourceEnds(s), UNCHANGED agentVars
    PROVE  Ordered' /\ MessagesKept
<1>0. /\ UNCHANGED << conversationVars, opened, lastKey >> /\ sources' = sources \ {s}
      /\ UNCHANGED << retryTimeout, isStreaming >>
  BY DEF SourceEnds, stateVars
<1>1. Grows
  BY <1>0, SourceFacts, UnchangedGrows
<1>2. sources' = {} /\ retryTimeout' = None /\ isStreaming' /\ isBusy'
  BY <1>0, SourceFacts DEF isBusy
<1>3. TidyInv'
  BY <1>0, <1>1, <1>2, SourceFacts, TidyStill
<1>4. ~isAgentRunning' /\ runs' = {}
  BY SourceFacts DEF agentVars
<1>5. StreamInv' /\ AloneInv'
  BY <1>2, <1>4 DEF StreamInv, AloneInv
<1> QED BY <1>0, <1>1, <1>3, <1>4, <1>5, StillKept DEF Ordered

\* Connection conn is opened for the answer `own', the only one.
LEMMA StreamStarts ==
    ASSUME ~isAgentRunning', isStreaming', ~streamStopped', ~isStreamComplete',
           NEW s, sources' = {s}, sseSource' = s.conn, retryTimeout' = None,
           Messages' # << >>, Last(Messages').key = s.own, Unsettled(Last(Messages')),
           ~Last(Messages').reconnecting => Last(Messages').content = {}
    PROVE  StreamInv'
BY DEF StreamInv, AnswerOf

\* The timer of a reconnection: the answer has a connection again.
LEMMA RetryOrdered ==
    ASSUME ShapeInv, Ordered, RetryTimeout, UNCHANGED agentVars
    PROVE  Ordered' /\ MessagesKept
<1>0. /\ retryTimeout # None
      /\ isStreaming /\ ~isAgentRunning /\ ~streamStopped /\ ~isStreamComplete
      /\ AnswerOf(retryTimeout) /\ Last(Messages).reconnecting /\ TidyInv
  BY DEF RetryTimeout, Ordered, StreamInv
<1>1. sources = {} /\ runs = {}
  BY <1>0 DEF Ordered, StreamInv, AloneInv
<1>2. PICK s : /\ s = [conn |-> opened + 1, own |-> retryTimeout]
               /\ sources' = {s} /\ sseSource' = s.conn
               /\ UNCHANGED << conversationVars, isStreaming, isStreamComplete, streamStopped >>
               /\ retryTimeout' = None
  BY <1>0, <1>1 DEF RetryTimeout, startStream
<1>3. Grows
  BY RetryShape
<1>4. isStreaming' /\ isBusy' /\ ~streamStopped' /\ ~isStreamComplete'
  BY <1>0, <1>2 DEF isBusy
<1>5. TidyInv' /\ Messages' = Messages
  BY <1>0, <1>2, <1>3, <1>4, TidyStill
<1>6. ~isAgentRunning' /\ runs' = {}
  BY <1>0, <1>1 DEF agentVars
<1>7. /\ Messages' # << >> /\ Last(Messages').key = s.own /\ Unsettled(Last(Messages'))
      /\ Last(Messages').reconnecting
  BY <1>0, <1>2, <1>5 DEF AnswerOf
<1>8. StreamInv'
  BY <1>2, <1>4, <1>6, <1>7, StreamStarts
<1>9. AloneInv'
  BY <1>6 DEF AloneInv
<1> QED BY <1>2, <1>3, <1>5, <1>6, <1>8, <1>9, StillKept DEF Ordered

\* Every step of the chat.
LEMMA ChatStepOrdered ==
    ASSUME ShapeInv, Ordered, ChatStep
    PROVE  Ordered' /\ MessagesKept
<1>0. ChatNext /\ UNCHANGED agentVars
  BY DEF ChatStep
<1>1. CASE RetryTimeout
  BY <1>0, <1>1, RetryOrdered
<1>2. ASSUME NEW s \in sources, NEW kind, ReceiveChunk(s, kind)
      PROVE  Ordered' /\ MessagesKept
  BY <1>0, <1>2, ChunkOrdered
<1>3. ASSUME NEW s \in sources, ReceiveGarbage(s)
      PROVE  Ordered' /\ MessagesKept
  BY <1>0, <1>3, ErrorOrdered DEF ReceiveGarbage
<1>4. ASSUME NEW s \in sources, SourceFails(s)
      PROVE  Ordered' /\ MessagesKept
  <2>1. PICK live : live = sources \ {s} /\ live \subseteq sources
    OBVIOUS
  <2> QED BY <1>0, <1>4, <2>1, ErrorOrdered DEF SourceFails
<1>5. ASSUME NEW s \in sources, ReceiveDone(s)
      PROVE  Ordered' /\ MessagesKept
  BY <1>0, <1>5, DoneOrdered
<1>6. ASSUME NEW s \in sources, SourceEnds(s)
      PROVE  Ordered' /\ MessagesKept
  BY <1>0, <1>6, SourceEndsOrdered
<1> QED BY <1>0, <1>1, <1>2, <1>3, <1>4, <1>5, <1>6 DEF ChatNext, SourceSettles

\* Every step of the agent.
LEMMA AgentStepOrdered ==
    ASSUME ShapeInv, Ordered, AgentStep \/ Approve
    PROVE  Ordered' /\ MessagesKept
<1>1. PICK r \in runs : Proceeds(r)
  BY AgentProceeds, ApproveProceeds DEF AgentStep, Approve
<1>2. UNCHANGED chatVars
  BY DEF AgentStep, Approve
<1> QED BY <1>1, <1>2, ProceedsOrdered

-----------------------------------------------------------------------------
(* The lock: stops, requests and the sidebar                               *)

LEMMA SameLast ==
    ASSUME NEW S, NEW ms \in Seq(S), ms # << >>
    PROVE  [ms EXCEPT ![Len(ms)] = Last(ms)] = ms
BY DEF Last

\* Stop settles the last message if it is still generated and changes nothing else.
LEMMA LastCut ==
    ASSUME ShapeInv, TidyInv, UNCHANGED << lastKey, opened >>, NEW new, updateLast(new),
           Messages # << >> => /\ new \in MessageOf(lastKey, opened) /\ ~Unsettled(new)
                               /\ \A x, y \in new.content : x = y,
           LastMessage.from = "assistant" /\ ~Unsettled(LastMessage) => new = LastMessage
    PROVE  TidyInv' /\ MessagesKept
<1>0. PageInv /\ CountInv /\ Grows /\ Neat(Messages) /\ Messages \in Seq(MessageOf(lastKey, opened))
  BY UnchangedGrows, MessagesNeat, MessagesTyped DEF ShapeInv
<1>1. CASE Messages # << >> /\ Unsettled(Last(Messages))
  BY <1>1, AnswerWritten
<1>2. CASE Messages = << >> \/ ~Unsettled(Last(Messages))
  <2>1. updateLastAssistantMessage(Messages, new) = Messages
    <3>1. CASE Messages = << >> \/ Last(Messages).from # "assistant"
      BY <3>1 DEF updateLastAssistantMessage
    <3>2. CASE Messages # << >> /\ Last(Messages).from = "assistant"
      <4>1. new = Last(Messages)
        BY <1>2, <3>2 DEF LastMessage
      <4>2. [Messages EXCEPT ![Len(Messages)] = Last(Messages)] = Messages
        BY <1>0, <3>2, SameLast
      <4> QED BY <3>2, <4>1, <4>2 DEF updateLastAssistantMessage
    <3> QED BY <3>1, <3>2
  <2>2. updateMessages(Messages)
    BY <2>1 DEF updateLast
  <2>3. Calm(Messages)
    <3> SUFFICES ASSUME NEW j \in DOMAIN Messages PROVE ~Unsettled(Messages[j])
      BY DEF Calm
    <3>1. Unsettled(Messages[j]) => j = Len(Messages)
      BY <1>0 DEF Neat
    <3>2. Messages # << >>
      <4>1. CASE Messages = << >>
        BY <4>1
      <4> QED BY <4>1
    <3> QED BY <1>2, <3>1, <3>2 DEF Last
  <2>4. Messages \in Seq(MessageOf(lastKey', opened'))
    BY <1>0, MessagesGrow
  <2>5. TidyInv'
    BY <1>0, <2>2, <2>3, <2>4, TidyUpdate
  <2> QED BY <2>2, <2>4, <2>5, KeptSame DEF MessagesKept, Writes
<1> QED BY <1>1, <1>2

\* Stop of a chat closes the source and clears the timer of the answer.
LEMMA StopChatOrdered ==
    ASSUME ShapeInv, Ordered, stopGeneration, UNCHANGED agentVars, ~isAgentRunning
    PROVE  Ordered' /\ MessagesKept
<1>0. PageInv /\ CountInv /\ TidyInv /\ StreamInv /\ opened \in Nat
  BY DEF ShapeInv, CountInv, Ordered
<1>1. PICK new : new = finalizeStopped(LastMessage) /\ updateLast(new)
  BY DEF stopGeneration
<1>2. /\ UNCHANGED << lastKey, opened >> /\ retryTimeout' = None /\ isStreaming' = FALSE
      /\ sources' = closeSource(sources)
  BY DEF stopGeneration
<1>3. sources' = {}
  <2>1. \A s \in sources : s.conn = sseSource
    BY SourceFacts
  <2> QED BY <1>2, <2>1 DEF closeSource
<1>4. Messages # << >> => /\ new \in MessageOf(lastKey, opened) /\ ~Unsettled(new)
                          /\ \A x, y \in new.content : x = y
  <2> SUFFICES ASSUME Messages # << >>
               PROVE  /\ new \in MessageOf(lastKey, opened) /\ ~Unsettled(new)
                      /\ \A x, y \in new.content : x = y
    OBVIOUS
  <2>1. LastMessage \in MessageOf(lastKey, opened)
    BY <1>0, LastMessageTyped
  <2>2. \A x, y \in LastMessage.content : x = y
    <3>1. Neat(Messages) /\ Len(Messages) \in DOMAIN Messages
      BY <1>0, MessagesNeat, MessagesTyped, LastOfTyped
    <3> QED BY <3>1 DEF Neat, LastMessage, Last
  <2> QED BY <1>0, <1>1, <2>1, <2>2, CompleteFacts
<1>5. LastMessage.from = "assistant" /\ ~Unsettled(LastMessage) => new = LastMessage
  BY <1>1 DEF finalizeStopped, Unsettled
<1>6. TidyInv' /\ MessagesKept
  BY <1>0, <1>1, <1>2, <1>4, <1>5, LastCut
<1>7. runs' = {} /\ ~isAgentRunning'
  BY DEF Ordered, AloneInv, agentVars
<1>8. StreamInv' /\ AloneInv'
  BY <1>2, <1>3, <1>7 DEF StreamInv, AloneInv
<1> QED BY <1>6, <1>7, <1>8 DEF Ordered

\* Stop of an agent that waits for its stream or its timer leaves no run.
LEMMA StopAgentOrdered ==
    ASSUME ShapeInv, Ordered, stopAgentGeneration, UNCHANGED chatVars, ~isStreaming,
           \A r \in runs : r.pc \in {"stream", "retry"}
    PROVE  Ordered' /\ MessagesKept
<1>0. PageInv /\ CountInv /\ TidyInv /\ StreamInv /\ opened \in Nat
  BY DEF ShapeInv, CountInv, Ordered
<1>1. runs' = {}
  <2>1. \A r \in runs : r \in Abandoned(control)
    BY DEF Ordered, AloneInv, Lone, Abandoned
  <2> QED BY <2>1 DEF stopAgentGeneration
<1>2. UNCHANGED << lastKey, opened >> /\ isAgentRunning' = FALSE
  BY DEF stopAgentGeneration
<1>3. PICK new : new = Cut(LastMessage) /\ updateLast(new)
  BY StopCut
<1>4. Messages # << >> => /\ new \in MessageOf(lastKey, opened) /\ ~Unsettled(new)
                          /\ \A x, y \in new.content : x = y
  <2> SUFFICES ASSUME Messages # << >>
               PROVE  /\ new \in MessageOf(lastKey, opened) /\ ~Unsettled(new)
                      /\ \A x, y \in new.content : x = y
    OBVIOUS
  <2>1. LastMessage \in MessageOf(lastKey, opened)
    BY <1>0, LastMessageTyped
  <2>2. \A x, y \in LastMessage.content : x = y
    <3>1. Neat(Messages) /\ Len(Messages) \in DOMAIN Messages
      BY <1>0, MessagesNeat, MessagesTyped, LastOfTyped
    <3> QED BY <3>1 DEF Neat, LastMessage, Last
  <2> QED BY <1>0, <1>3, <2>1, <2>2, CutLemma
<1>5. LastMessage.from = "assistant" /\ ~Unsettled(LastMessage) => new = LastMessage
  BY <1>3 DEF Cut
<1>6. TidyInv' /\ MessagesKept
  BY <1>0, <1>2, <1>3, <1>4, <1>5, LastCut
<1>7. sources' = {} /\ retryTimeout' = None
  BY <1>0 DEF StreamInv, chatVars
<1>8. StreamInv' /\ AloneInv'
  BY <1>1, <1>7 DEF StreamInv, AloneInv
<1> QED BY <1>2, <1>6, <1>8 DEF Ordered

LEMMA StopOrdered ==
    ASSUME ShapeInv, Ordered, Stop, ~interfered'
    PROVE  Ordered' /\ MessagesKept
<1>1. CASE /\ stopGeneration /\ UNCHANGED agentVars
           /\ interfered' = (interfered \/ isAgentRunning)
  BY <1>1, StopChatOrdered
<1>2. CASE /\ stopAgentGeneration /\ UNCHANGED chatVars
           /\ interfered' = (\/ interfered
                             \/ isStreaming
                             \/ \E r \in runs : r.pc \notin {"stream", "retry"})
  BY <1>2, StopAgentOrdered
<1> QED BY <1>1, <1>2 DEF Stop

\* A request of an idle page is the only generation.
LEMMA ChatAskedOrdered ==
    ASSUME ShapeInv, Ordered, CalmForms, ~isBusy, ChatAsked
    PROVE  Ordered'
<1>0. /\ sources = {} /\ retryTimeout = None /\ runs = {} /\ Calm(Messages) /\ Neat(Messages)
      /\ ~isAgentRunning /\ TidyInv /\ opened \in Nat
  BY IdleLemma DEF Ordered, ShapeInv, CountInv
<1>1. PICK ms : AnswerAsked(ms) /\ sendChat(ms)
  BY DEF ChatAsked
<1>2. /\ ms \in Seq(MessageOf(lastKey', opened')) /\ ms # << >> /\ Unsettled(Last(ms))
      /\ Last(ms).content = {} /\ Neat(ms) /\ updateMessages(ms)
      /\ UNCHANGED << agentVars, reloads >> /\ sendStreamRequest(Last(ms).key)
  BY <1>0, <1>1 DEF AnswerAsked, Ready, sendChat
<1>3. Grows
  BY <1>1, SendShape DEF AnswerAsked
<1>4. PICK s : /\ s = [conn |-> opened + 1, own |-> Last(ms).key]
               /\ sources' = {s} /\ sseSource' = s.conn /\ s.own = Last(ms).key
               /\ retryTimeout' = None
  BY <1>0, <1>2 DEF sendStreamRequest, startStream
<1>5. isStreaming' /\ ~streamStopped' /\ ~isStreamComplete'
  BY <1>2 DEF sendStreamRequest
<1>6. ~isAgentRunning' /\ runs' = {} /\ isBusy'
  BY <1>0, <1>2, <1>5 DEF agentVars, isBusy
<1>7. TidyInv' /\ Messages' = ms
  BY <1>0, <1>2, <1>3, <1>6, TidyUpdate
<1>8. /\ Messages' # << >> /\ Last(Messages').key = s.own /\ Unsettled(Last(Messages'))
      /\ Last(Messages').content = {}
  BY <1>2, <1>4, <1>7
<1>9. StreamInv'
  BY <1>4, <1>5, <1>6, <1>8, StreamStarts
<1>10. AloneInv'
  BY <1>6 DEF AloneInv
<1> QED BY <1>6, <1>7, <1>9, <1>10 DEF Ordered

\* The same, for an agent.
LEMMA AgentAskedOrdered ==
    ASSUME ShapeInv, Ordered, CalmForms, ~isBusy, AgentAsked
    PROVE  Ordered'
<1>0. /\ sources = {} /\ retryTimeout = None /\ runs = {} /\ Calm(Messages) /\ Neat(Messages)
      /\ ~isStreaming /\ TidyInv
  BY IdleLemma DEF Ordered
<1>1. PICK ms : /\ AnswerAsked(ms) /\ updateMessages(ms)
                /\ \E id \in 1..lastKey' : runAgentConversation(id, ms)
                /\ UNCHANGED << chatVars, reloads >>
  BY DEF AgentAsked
<1>2. PICK id \in 1..lastKey' : runAgentConversation(id, ms)
  BY <1>1
<1>3. /\ ms \in Seq(MessageOf(lastKey', opened')) /\ ms # << >> /\ Unsettled(Last(ms))
      /\ Neat(ms) /\ Last(ms).from = "assistant" /\ lastKey' \in Nat /\ lastKey <= lastKey'
  BY <1>0, <1>1 DEF AnswerAsked, Ready
<1>4. Grows
  BY <1>1, <1>2, <1>3, RunStartShape
<1>a. PICK r : /\ runs' = (runs \ Abandoned(control)) \cup {r}
               /\ r = [id |-> id, pc |-> "stream", working |-> ms,
                       step |-> 0, retry |-> 0, conn |-> opened + 1, calls |-> {},
                       results |-> {}, todo |-> {}, toolKey |-> None,
                       granted |-> FALSE]
  BY <1>2 DEF runAgentConversation
<1>b. r.pc = "stream" /\ r.working = ms /\ r.conn = opened + 1
  BY <1>a
<1>5. /\ runs' = {r} /\ r.pc = "stream" /\ r.working = ms /\ r.conn = opened + 1
  BY <1>0, <1>a, <1>b
<1>6. control'.source = opened + 1 /\ ~control'.stopped /\ isAgentRunning'
  BY <1>2 DEF runAgentConversation
<1>7. sources' = {} /\ retryTimeout' = None /\ ~isStreaming' /\ isBusy'
  BY <1>0, <1>1, <1>6 DEF chatVars, isBusy
<1>8. TidyInv' /\ Messages' = ms
  BY <1>0, <1>1, <1>3, <1>4, <1>7, TidyUpdate
<1>9. Lone(r, Messages', control')
  BY <1>3, <1>5, <1>6, <1>8 DEF Lone
<1>10. AloneInv'
  BY <1>5, <1>6, <1>7, <1>9 DEF AloneInv
<1>11. StreamInv'
  BY <1>7 DEF StreamInv
<1> QED BY <1>7, <1>8, <1>10, <1>11 DEF Ordered

\* Nothing goes on and nothing starts.
LEMMA IdleOrdered ==
    ASSUME ShapeInv, Ordered, ~isBusy, UNCHANGED << chatVars, agentVars >>, TidyInv'
    PROVE  Ordered'
<1>1. /\ sources = {} /\ retryTimeout = None /\ runs = {} /\ ~isStreaming
  BY IdleLemma
<1>2. /\ sources' = {} /\ retryTimeout' = None /\ runs' = {} /\ ~isStreaming'
  BY <1>1 DEF chatVars, agentVars
<1>3. StreamInv' /\ AloneInv'
  BY <1>2 DEF StreamInv, AloneInv
<1> QED BY <1>2, <1>3 DEF Ordered

\* A message of an idle page is edited or deleted.
LEMMA RewrittenOrdered ==
    ASSUME ShapeInv, Ordered, ~isBusy, Rewritten
    PROVE  Ordered'
<1>0. Calm(Messages) /\ Neat(Messages) /\ TidyInv /\ Grows
  BY IdleLemma, OutcomeShape DEF Ordered
<1>1. PICK ms \in Seq(MessageOf(lastKey', opened')) : updateMessages(ms) /\ Calm(ms) /\ Neat(ms)
  BY <1>0 DEF Rewritten
<1>2. TidyInv'
  BY <1>0, <1>1, TidyUpdate
<1> QED BY <1>2, IdleOrdered DEF Rewritten

LEMMA EmptyCalm == Calm(<< >>) /\ Neat(<< >>)
BY DEF Calm, Neat

\* All conversations of an idle page are settled.
LEMMA IdleCalm ==
    ASSUME ShapeInv, Ordered, ~isBusy, NEW i \in DOMAIN conversations
    PROVE  Calm(conversations[i].messages) /\ Neat(conversations[i].messages)
<1>1. Shelf(conversations, lastKey, opened) /\ active \in Ids(conversations)
  BY DEF ShapeInv, PageInv, PageShape, Remembers
<1>2. conversations[i].id = active => Messages = conversations[i].messages
  BY <1>1, ActiveLemma
<1> QED BY <1>2 DEF Ordered, TidyInv

\* All conversations are settled, and what is stored is neat.
Settled ==
    /\ \A i \in DOMAIN conversations :
          Calm(conversations[i].messages) /\ Neat(conversations[i].messages)
    /\ \A i \in DOMAIN stored.conversations : Neat(stored.conversations[i].messages)

LEMMA SettledTidy == ShapeInv /\ Settled => TidyInv
<1> SUFFICES ASSUME ShapeInv, Settled PROVE TidyInv
  OBVIOUS
<1>1. Shelf(conversations, lastKey, opened) /\ active \in Ids(conversations)
  BY DEF ShapeInv, PageInv, PageShape, Remembers
<1>2. PICK a \in DOMAIN conversations : Messages = conversations[a].messages
  BY <1>1, ActiveLemma
<1> QED BY <1>2 DEF TidyInv, Settled

LEMMA SettledTidyNext ==
    ASSUME ShapeInv', Settled'
    PROVE  TidyInv'
<1>1. (ShapeInv /\ Settled => TidyInv)'
  BY SettledTidy, PTL
<1> QED BY <1>1

\* The sidebar of an idle page.
LEMMA MovedOrdered ==
    ASSUME ShapeInv, Ordered, ~isBusy, Moved, ShapeInv'
    PROVE  Ordered'
<1>1. \A i \in DOMAIN conversations' :
         Calm(conversations'[i].messages) /\ Neat(conversations'[i].messages)
  BY IdleCalm, EmptyCalm DEF Moved, Shuffled
<1>2. \A i \in DOMAIN stored'.conversations : Neat(stored'.conversations[i].messages)
  BY <1>1 DEF Moved, Shuffled, Ordered, TidyInv
<1>3. TidyInv'
  BY <1>1, <1>2, SettledTidyNext DEF Settled
<1> QED BY <1>3, IdleOrdered DEF Moved

\* A page that is opened settles what was being generated when it was left.
LEMMA ReloadOrdered ==
    ASSUME ShapeInv, Ordered, Reload, ShapeInv'
    PROVE  Ordered'
<1>0. PageInv /\ StoredInv /\ CountInv /\ LoadState /\ opened \in Nat
  BY DEF ShapeInv, Reload, CountInv
<1>1. /\ stored' = stored
      /\ \A i \in DOMAIN conversations' :
            \/ conversations'[i].messages = << >>
            \/ \E j \in DOMAIN stored.conversations :
                  conversations'[i].messages =
                      sanitizeMessagesOnLoad(stored.conversations[j].messages)
  BY <1>0, LoadKeeps
<1>2. \A j \in DOMAIN stored.conversations :
         /\ Neat(stored.conversations[j].messages)
         /\ stored.conversations[j].messages \in Seq(MessageOf(lastKey, opened))
  BY <1>0, ConversationTypes DEF Ordered, TidyInv, StoredInv, StoredShape
<1>3. \A j \in DOMAIN stored.conversations :
         LET ms == sanitizeMessagesOnLoad(stored.conversations[j].messages)
         IN  Calm(ms) /\ Neat(ms)
  BY <1>0, <1>2, SanitizeLemma
<1>4. \A i \in DOMAIN conversations' :
         Calm(conversations'[i].messages) /\ Neat(conversations'[i].messages)
  BY <1>1, <1>3, EmptyCalm
<1>5. TidyInv'
  BY <1>1, <1>2, <1>4, SettledTidyNext DEF Settled
<1>6. sources' = {} /\ retryTimeout' = None /\ runs' = {} /\ ~isStreaming'
  BY DEF Reload
<1>7. StreamInv' /\ AloneInv'
  BY <1>6 DEF StreamInv, AloneInv
<1> QED BY <1>5, <1>6, <1>7 DEF Ordered

\* These operations need an idle page, or are recorded as interfering.
LEMMA AsksIdle ==
    ASSUME Asks, ~interfered'
    PROVE  ~isBusy
<1>1. CASE Submit
  BY <1>1 DEF Submit
<1>a. ASSUME NEW i \in DOMAIN converting, Converted(i) PROVE ~isBusy
  BY <1>a DEF Converted
<1>2. ASSUME NEW i \in DOMAIN Messages, handleRegenerateMessage(i) PROVE ~isBusy
  BY <1>2 DEF handleRegenerateMessage
<1>3. ASSUME NEW i \in DOMAIN Messages, handleDeleteMessage(i) PROVE ~isBusy
  BY <1>3 DEF handleDeleteMessage
<1>4. ASSUME NEW i \in DOMAIN Messages, NEW submit, applyEdit(i, submit) PROVE ~isBusy
  BY <1>4 DEF applyEdit
<1>5. CASE SidebarStep
  BY <1>5 DEF SidebarStep, handleModeChange, SelectConversation, DeleteConversation
<1>6. CASE AutoPair
  BY <1>6 DEF AutoPair
<1> QED BY <1>1, <1>a, <1>2, <1>3, <1>4, <1>5, <1>6 DEF Asks

LEMMA AsksOrdered ==
    ASSUME ShapeInv, Ordered, CalmForms, Asks, ~interfered', ShapeInv'
    PROVE  Ordered'
BY AsksIdle, AsksOutcome, ChatAskedOrdered, AgentAskedOrdered, RewrittenOrdered, MovedOrdered

LEMMA StillOrdered ==
    ASSUME ShapeInv, Ordered, UNCHANGED << stateVars, chatVars, agentVars >>
    PROVE  Ordered' /\ MessagesKept
<1>1. /\ UNCHANGED conversationVars /\ UNCHANGED << lastKey, opened >> /\ Grows
      /\ isBusy' = isBusy
  BY UnchangedGrows DEF stateVars, ShapeInv, isBusy, chatVars, agentVars
<1>2. TidyInv' /\ Messages' = Messages
  BY <1>1, TidyStill DEF Ordered, TidyInv
<1>3. StreamInv'
  BY <1>2 DEF Ordered, StreamInv, AnswerOf, chatVars, agentVars
<1>4. AloneInv'
  BY <1>2 DEF Ordered, AloneInv, chatVars, agentVars
<1>5. ~(isStreaming /\ isAgentRunning)'
  BY DEF Ordered, chatVars, agentVars
<1> QED BY <1>1, <1>2, <1>3, <1>4, <1>5, StillKept DEF Ordered

-----------------------------------------------------------------------------
(* One generation at a time                                                *)

\* What has interfered stays recorded.
LEMMA InterferedStays ==
    ASSUME [Next]_vars, interfered
    PROVE  interfered'
<1>1. CASE ChatStep \/ AgentStep \/ Approve \/ UNCHANGED vars
  BY <1>1 DEF ChatStep, AgentStep, Approve, userVars, vars
<1>2. CASE \/ Submit \/ StartConversion \/ (\E i \in DOMAIN converting : Converted(i))
           \/ SidebarStep \/ AutoPair
  BY <1>2 DEF Submit, StartConversion, Converted, SidebarStep, AutoPair
<1>3. ASSUME NEW i, \/ handleRegenerateMessage(i) \/ handleDeleteMessage(i)
                    \/ handleEditMessage(i) \/ \E submit \in BOOLEAN : applyEdit(i, submit)
      PROVE  interfered'
  BY <1>3 DEF handleRegenerateMessage, handleDeleteMessage, handleEditMessage, applyEdit
<1>4. CASE Stop \/ Reload
  BY <1>4 DEF Stop, Reload
<1> QED BY <1>1, <1>2, <1>3, <1>4 DEF Next, UserStep

LEMMA InitOrdered ==
    ASSUME Init
    PROVE  Ordered
<1>1. sources = {} /\ retryTimeout = None /\ runs = {} /\ ~isStreaming
  BY DEF Init, ChatInit, AgentInit
<1>2. StreamInv /\ AloneInv
  BY <1>1 DEF StreamInv, AloneInv
<1>3. Settled
  <2>1. \A i \in DOMAIN conversations : conversations[i].messages = << >>
    BY FirstPageShape DEF Init, StateInit, FirstPage
  <2>2. DOMAIN stored.conversations = {}
    BY DEF Init, StateInit
  <2> QED BY <2>1, <2>2, EmptyCalm DEF Settled
<1>4. TidyInv
  BY <1>3, InitShape, SettledTidy
<1> QED BY <1>1, <1>2, <1>4 DEF Ordered

\* Only a page that is not busy lets a message be submitted.
LEMMA StepQueues ==
    ASSUME [Next]_vars
    PROVE  Queues
<1>1. CASE ChatStep \/ AgentStep \/ Approve \/ UNCHANGED vars
  BY <1>1 DEF ChatStep, AgentStep, Approve, vars, userVars, Queues
<1>2. CASE Asks
  BY <1>2, AsksQueues
<1>3. CASE Stop \/ Reload \/ StartConversion \/ \E i \in DOMAIN Messages : handleEditMessage(i)
  BY <1>3 DEF Stop, Reload, StartConversion, handleEditMessage, Queues
<1> QED BY <1>1, <1>2, <1>3, UserSteps DEF Next

LEMMA StepForms ==
    ASSUME ShapeInv, Ordered, CalmForms, [Next]_vars
    PROVE  CalmForms'
<1>1. ~isBusy => Calm(Messages) /\ Neat(Messages)
  BY IdleLemma
<1> QED BY <1>1, StepQueues, QueuedLemma DEF CalmForms

\* Every step that does not interfere keeps the order.
LEMMA StepOrdered ==
    ASSUME ShapeInv, Ordered, CalmForms, [Next]_vars, ~interfered'
    PROVE  Ordered'
<1>0. ShapeInv'
  BY StepShape
<1>1. CASE ChatStep
  BY <1>1, ChatStepOrdered
<1>2. CASE AgentStep \/ Approve
  BY <1>2, AgentStepOrdered
<1>3. CASE Asks
  BY <1>0, <1>3, AsksOrdered
<1>4. CASE \E i \in DOMAIN Messages : handleEditMessage(i)
  <2>1. UNCHANGED << stateVars, chatVars, agentVars >>
    BY <1>4 DEF handleEditMessage
  <2> QED BY <2>1, StillOrdered
<1>5. CASE Stop
  BY <1>5, StopOrdered
<1>6. CASE Reload
  BY <1>0, <1>6, ReloadOrdered
<1>7. CASE UNCHANGED vars \/ StartConversion
  <2>1. UNCHANGED << stateVars, chatVars, agentVars >>
    BY <1>7 DEF vars, StartConversion
  <2> QED BY <2>1, StillOrdered
<1> QED BY <1>1, <1>2, <1>3, <1>4, <1>5, <1>6, <1>7, UserSteps DEF Next

\* Unless something interfered, the state is ordered: the inductive invariant of the
\* theorems below (isBusy guards the operations of index.tsx, and the refs of
\* use-stream-request.ts and agentStreamControlRef name the one generation).
THEOREM LockHolds == Spec => [](ShapeInv /\ GenInv)
<1>1. Init => ShapeInv /\ GenInv
  <2>1. Init => CalmForms
    BY DEF Init, CalmForms
  <2> QED BY <2>1, InitShape, InitOrdered DEF GenInv
<1>2. ShapeInv /\ GenInv /\ [Next]_vars => (ShapeInv /\ GenInv)'
  BY StepShape, StepOrdered, StepForms, InterferedStays DEF GenInv
<1> QED BY <1>1, <1>2, PTL DEF Spec

\* At most one connection, timer or run, and none when the page is idle.
LEMMA OneAlive ==
    ASSUME Ordered
    PROVE  LET alive == Cardinality(sources) + Cardinality(runs)
                        + (IF retryTimeout = None THEN 0 ELSE 1)
           IN  alive <= (IF isBusy THEN 1 ELSE 0)
<1>0. Cardinality({}) = 0 /\ \A x : Cardinality({x}) = 1
  BY FS_EmptySet, FS_Singleton
<1>1. CASE sources # {}
  <2>1. PICK s \in sources : sources = {s} /\ retryTimeout = None /\ isStreaming
    BY <1>1 DEF Ordered, StreamInv
  <2>2. runs = {}
    BY <2>1 DEF Ordered, AloneInv
  <2>3. Cardinality(sources) = 1 /\ Cardinality(runs) = 0
    BY <1>0, <2>1, <2>2
  <2> QED BY <2>1, <2>3 DEF isBusy
<1>2. CASE sources = {} /\ retryTimeout # None
  <2>1. isStreaming
    BY <1>2 DEF Ordered, StreamInv
  <2>2. runs = {}
    BY <2>1 DEF Ordered, AloneInv
  <2>3. Cardinality(sources) = 0 /\ Cardinality(runs) = 0
    BY <1>0, <1>2, <2>2
  <2> QED BY <1>2, <2>1, <2>3 DEF isBusy
<1>3. CASE sources = {} /\ retryTimeout = None /\ runs = {}
  <2>1. Cardinality(sources) = 0 /\ Cardinality(runs) = 0
    BY <1>0, <1>3
  <2> QED BY <1>3, <2>1
<1>4. CASE sources = {} /\ retryTimeout = None /\ runs # {}
  <2>1. PICK r \in runs : runs = {r} /\ isAgentRunning
    BY <1>4 DEF Ordered, AloneInv
  <2>2. Cardinality(sources) = 0 /\ Cardinality(runs) = 1
    BY <1>0, <1>4, <2>1
  <2> QED BY <1>4, <2>1, <2>2 DEF isBusy
<1> QED BY <1>1, <1>2, <1>3, <1>4

\* Unless the lock was bypassed, at most one connection, reconnection timer or run is
\* alive, and none when the page is not busy (isBusy in index.tsx).
THEOREM OneGenerationAlways == Spec => []OneGeneration
<1>1. GenInv => OneGeneration
  BY OneAlive DEF GenInv, OneGeneration
<1> QED BY <1>1, LockHolds, PTL

LEMMA PrefixLemma ==
    ASSUME NEW S, NEW w \in Seq(S)
    PROVE  /\ IsPrefix(w, w)
           /\ \A card : IsPrefix(w, Append(w, card))
<1>1. IsPrefix(w, w)
  BY DEF IsPrefix
<1>2. ASSUME NEW card PROVE IsPrefix(w, Append(w, card))
  <2>1. Len(w) \in Nat /\ Len(Append(w, card)) = Len(w) + 1
        /\ \A j \in 1..Len(w) : Append(w, card)[j] = w[j]
    OBVIOUS
  <2>2. SubSeq(w, 1, Len(w)) = SubSeq(Append(w, card), 1, Len(w))
    BY <2>1
  <2> QED BY <2>1, <2>2 DEF IsPrefix
<1> QED BY <1>1, <1>2

\* Unless the lock was bypassed, an open stream or its timer belongs to the last
\* message of the active conversation, which is still unsettled, and the page shows
\* what the run works on (updateLastAssistantMessage, updateMessages of a run).
THEOREM OwnAnswer == Spec => []WritesOwnMessage
<1>1. ASSUME ShapeInv, Ordered
      PROVE  /\ \A own \in {s.own : s \in sources} \cup ({retryTimeout} \ {None}) :
                   /\ Messages # << >>
                   /\ Last(Messages).key = own
                   /\ Unsettled(Last(Messages))
             /\ \A r \in runs : IsPrefix(r.working, Messages)
  <2>1. ASSUME NEW own \in {s.own : s \in sources} \cup ({retryTimeout} \ {None})
        PROVE  AnswerOf(own)
    BY <1>1, <2>1 DEF Ordered, StreamInv
  <2>2. ASSUME NEW r \in runs PROVE IsPrefix(r.working, Messages)
    <3>1. Lone(r, Messages, control) /\ r.working \in Seq(MessageOf(lastKey, opened))
      BY <1>1, RunOfRuns, RunTypes DEF Ordered, AloneInv
    <3>2. Messages = r.working \/ \E card : Messages = Append(r.working, card)
      BY <3>1 DEF Lone
    <3> QED BY <3>1, <3>2, PrefixLemma
  <2> QED BY <2>1, <2>2 DEF AnswerOf
<1>2. ShapeInv /\ GenInv => WritesOwnMessage
  BY <1>1 DEF GenInv, WritesOwnMessage
<1> QED BY <1>2, LockHolds, PTL

\* Unless the lock was bypassed, the text of a message comes from one connection or
\* from the page (handleStreamUpdate, updateLastAssistantContent).
THEOREM TextsUnmixed == Spec => []NoMixing
<1>1. ASSUME Ordered, NEW msg \in AllMessages(conversations) \cup
                                   AllMessages(stored.conversations)
      PROVE  Cardinality(msg.content) <= 1
  <2>1. \A x, y \in msg.content : x = y
    BY <1>1 DEF Ordered, TidyInv, Neat, AllMessages, ToSet
  <2>2. msg.content = {} \/ \E x : msg.content = {x}
    BY <2>1
  <2>3. Cardinality(msg.content) \in {0, 1}
    BY <2>2, FS_EmptySet, FS_Singleton
  <2> QED BY <2>3
<1>2. GenInv => NoMixing
  BY <1>1 DEF GenInv, NoMixing
<1> QED BY <1>2, LockHolds, PTL

\* Unless the lock was bypassed, a page that is not busy shows no answer of any
\* conversation as still being generated (finalizeStopped, stopAgentGeneration,
\* sanitizeMessagesOnLoad, EndRun).
THEOREM IdleIsSettled == Spec => []IdleSettled
<1>1. ASSUME ShapeInv, Ordered, ~isBusy, NEW msg \in AllMessages(conversations)
      PROVE  ~Unsettled(msg)
  <2>1. PICK i \in DOMAIN conversations : msg \in ToSet(conversations[i].messages)
    BY <1>1 DEF AllMessages
  <2>2. Calm(conversations[i].messages)
    BY <1>1, IdleCalm
  <2> QED BY <2>1, <2>2 DEF Calm, ToSet
<1>2. ShapeInv /\ GenInv => IdleSettled
  BY <1>1 DEF GenInv, IdleSettled
<1> QED BY <1>2, LockHolds, PTL

-----------------------------------------------------------------------------
(* Settled answers stay                                                    *)

\* What AnswersKept says of a step.
StepKeepsAnswers ==
    \A i \in DOMAIN conversations :
        /\ i \in DOMAIN conversations' /\ conversations'[i].id = conversations[i].id
        /\ \A j \in DOMAIN conversations[i].messages :
              LET msg == conversations[i].messages[j]
                  now == conversations'[i].messages
              IN  ~Unsettled(msg) =>
                     /\ j \in DOMAIN now
                     /\ IF msg.from = "tool" THEN now[j].from = "tool"
                        ELSE now[j] = msg

\* The other conversations do not change.
LEMMA KeptEverywhere ==
    ASSUME ShapeInv, Grows, MessagesKept
    PROVE  StepKeepsAnswers
<1>0. PageInv /\ StoredInv /\ CountInv
  BY DEF ShapeInv
<1>1. PICK ms \in Seq(MessageOf(lastKey', opened')) : Writes(ms) /\ Kept(Messages, ms)
  BY DEF MessagesKept
<1>2. CASE updateMessages(ms)
  <2>1. /\ DOMAIN conversations' = DOMAIN conversations
        /\ \A i \in DOMAIN conversations :
              /\ conversations'[i].id = conversations[i].id
              /\ conversations'[i].messages = IF conversations[i].id = active THEN ms
                                              ELSE conversations[i].messages
    BY <1>0, <1>2, UpdateLemma
  <2>2. \A i \in DOMAIN conversations :
           conversations[i].id = active => conversations[i].messages = Messages
    BY <1>0, ActiveLemma DEF PageInv, PageShape, Remembers
  <2>3. \A i \in DOMAIN conversations :
           Kept(conversations[i].messages, conversations'[i].messages)
    BY <1>1, <2>1, <2>2, KeptSame
  <2> QED BY <2>1, <2>3 DEF StepKeepsAnswers, Kept
<1>3. CASE UNCHANGED conversationVars
  <2>1. conversations' = conversations
    BY <1>3 DEF conversationVars
  <2> QED BY <2>1 DEF StepKeepsAnswers
<1> QED BY <1>1, <1>2, <1>3 DEF Writes

\* No step of a busy page touches what is settled.
LEMMA BusyStepKept ==
    ASSUME ShapeInv, Ordered, [Next]_vars, isBusy, ~interfered', reloads' = reloads
    PROVE  StepKeepsAnswers
<1>1. CASE ChatStep
  <2>1. MessagesKept
    BY <1>1, ChatStepOrdered
  <2>2. Grows
    BY <1>1, ChatStepShape
  <2> QED BY <2>1, <2>2, KeptEverywhere
<1>2. CASE AgentStep \/ Approve
  <2>1. MessagesKept
    BY <1>2, AgentStepOrdered
  <2>2. Grows
    BY <1>2, AgentProceeds, ApproveProceeds DEF AgentStep, Approve, Proceeds
  <2> QED BY <2>1, <2>2, KeptEverywhere
<1>3. CASE Asks
  BY <1>3, AsksIdle
<1>4. CASE StartConversion \/ \E i \in DOMAIN Messages : handleEditMessage(i)
  BY <1>4 DEF StartConversion, handleEditMessage
<1>5. CASE Stop
  <2>1. MessagesKept
    BY <1>5, StopOrdered
  <2>2. Grows
    BY <1>5, StopShape, StopAgentShape DEF Stop
  <2> QED BY <2>1, <2>2, KeptEverywhere
<1>6. CASE Reload
  <2>1. reloads' = reloads + 1 /\ reloads \in Nat
    BY <1>6, StateAssumption DEF Reload, LoadState, ShapeInv, CountInv
  <2> QED BY <2>1
<1>7. CASE UNCHANGED vars
  <2>1. conversations' = conversations
    BY <1>7 DEF vars, stateVars, conversationVars
  <2> QED BY <2>1 DEF StepKeepsAnswers
<1> QED BY <1>1, <1>2, <1>3, <1>4, <1>5, <1>6, <1>7, UserSteps DEF Next

\* While a generation goes on, settled messages of every conversation stay where they
\* are and as they are; the card of tool calls stays a card (updateMessages).
THEOREM AnswersStay == Spec => AnswersKept
<1>1. ShapeInv /\ GenInv /\ [Next]_vars =>
         [isBusy /\ ~interfered' /\ reloads' = reloads =>
            \A i \in DOMAIN conversations :
              /\ i \in DOMAIN conversations' /\ conversations'[i].id = conversations[i].id
              /\ \A j \in DOMAIN conversations[i].messages :
                    LET msg == conversations[i].messages[j]
                        now == conversations'[i].messages
                    IN  ~Unsettled(msg) =>
                           /\ j \in DOMAIN now
                           /\ IF msg.from = "tool" THEN now[j].from = "tool"
                              ELSE now[j] = msg]_vars
  BY BusyStepKept, InterferedStays DEF GenInv, StepKeepsAnswers
<1> QED BY <1>1, LockHolds, PTL DEF Spec, AnswersKept

-----------------------------------------------------------------------------
(* What is given out is bounded                                            *)

\* The connections and the keys of one request.
ConnBudget == MAX_AGENT_STEPS * (MAX_STREAM_RETRIES + 1)
KeyBudget == 2 + 3 * MAX_AGENT_STEPS

\* What a run may still open, and the keys it may still use.
ConnLeft(step, retry, pc) ==
    (MAX_AGENT_STEPS - 1 - step) * (MAX_STREAM_RETRIES + 1) + (MAX_STREAM_RETRIES - retry)
    + (IF pc = "retry" THEN 1 ELSE 0)

KeyLeft(step, pc) ==
    3 * (MAX_AGENT_STEPS - 1 - step) + (IF pc \in {"stream", "retry", "review"} THEN 3 ELSE 2)

Left(r, kind) ==
    IF kind = "conn" THEN ConnLeft(r.step, r.retry, r.pc) ELSE KeyLeft(r.step, r.pc)

\* The same, each with the key of its run.
RunSlots(rs, kind) == UNION {{r.id} \X (1..Left(r, kind)) : r \in rs}

\* A call of the chat has its reconnections left, and the one that waits for its timer
\* the connection the timer opens.
CallSlots(ss, timer, count) ==
    (UNION {{s.own} \X ((count[s.own] + 1)..MAX_STREAM_RETRIES) : s \in ss})
    \cup (IF timer = None THEN {}
          ELSE {<<timer, 0>>} \cup ({timer} \X ((count[timer] + 1)..MAX_STREAM_RETRIES)))

OwnIds(rs) == \A r1, r2 \in rs : r1.id = r2.id => r1 = r2

\* No two runs have the same key, and what was given out, with what the open generations
\* may still use, is within the budget of the requests made so far.
BudgetInv ==
    /\ OwnIds(runs)
    /\ IsFiniteSet(RunSlots(runs, "key"))
    /\ IsFiniteSet(RunSlots(runs, "conn"))
    /\ IsFiniteSet(CallSlots(sources, retryTimeout, retryCount))
    /\ lastKey + Cardinality(RunSlots(runs, "key")) <= sends * KeyBudget
    /\ opened + Cardinality(RunSlots(runs, "conn"))
              + Cardinality(CallSlots(sources, retryTimeout, retryCount))
          <= sends * ConnBudget

-----------------------------------------------------------------------------

\* The slots of id from a on.
Slots(id, a, d) == {id} \X ((a + 1)..(a + d))

\* d slots.
LEMMA SlotsCounted ==
    ASSUME NEW id, NEW a \in Nat, NEW d \in Nat
    PROVE  IsFiniteSet(Slots(id, a, d)) /\ Cardinality(Slots(id, a, d)) = d
<1>1. PICK x \in Int, y \in Int : x = a + 1 /\ y = a + d
  OBVIOUS
<1>2. IsFiniteSet(x..y) /\ Cardinality(x..y) = d
  BY <1>1, FS_Interval
<1>3. IsFiniteSet({id}) /\ Cardinality({id}) = 1
  BY FS_Singleton
<1>4. IsFiniteSet({id} \X (x..y)) /\ Cardinality({id} \X (x..y)) = 1 * d
  BY <1>2, <1>3, FS_Product
<1> QED BY <1>1, <1>4 DEF Slots

\* Slots that are used up.
LEMMA SlotsSpent ==
    ASSUME NEW S, IsFiniteSet(S), NEW T, T \subseteq S, NEW B, B \subseteq S, B \cap T = {},
           NEW d \in Nat, Cardinality(B) = d
    PROVE  /\ IsFiniteSet(T) /\ Cardinality(T) \in Nat /\ Cardinality(S) \in Nat
           /\ Cardinality(T) + d <= Cardinality(S)
<1>1. S \cap B = B
  OBVIOUS
<1>2. IsFiniteSet(S \ B) /\ Cardinality(S \ B) = Cardinality(S) - Cardinality(S \cap B)
  BY FS_Difference
<1>3. T \in SUBSET (S \ B)
  OBVIOUS
<1>4. IsFiniteSet(T) /\ Cardinality(T) <= Cardinality(S \ B)
  BY <1>2, <1>3, FS_Subset
<1>5. Cardinality(T) \in Nat /\ Cardinality(S) \in Nat
  BY <1>4, FS_CardinalityType
<1>6. Cardinality(S \ B) = Cardinality(S) - d
  BY <1>1, <1>2
<1> QED BY <1>4, <1>5, <1>6

\* Fewer slots.
LEMMA SlotsFewer ==
    ASSUME NEW S, IsFiniteSet(S), NEW T, T \subseteq S
    PROVE  /\ IsFiniteSet(T) /\ Cardinality(T) \in Nat /\ Cardinality(S) \in Nat
           /\ Cardinality(T) <= Cardinality(S)
BY FS_Subset, FS_CardinalityType

\* Slots that are added.
LEMMA SlotsMore ==
    ASSUME NEW S, IsFiniteSet(S), NEW B, IsFiniteSet(B), NEW d \in Nat, Cardinality(B) = d,
           NEW T, T \subseteq S \cup B
    PROVE  /\ IsFiniteSet(T) /\ Cardinality(T) \in Nat /\ Cardinality(S) \in Nat
           /\ Cardinality(T) <= Cardinality(S) + d
<1>1. /\ IsFiniteSet(S \cup B)
      /\ Cardinality(S \cup B) = Cardinality(S) + Cardinality(B) - Cardinality(S \cap B)
  BY FS_Union
<1>2. IsFiniteSet(S \cap B)
  BY FS_Intersection
<1>3. Cardinality(S \cap B) \in Nat /\ Cardinality(S) \in Nat
  BY <1>2, FS_CardinalityType
<1>4. T \in SUBSET (S \cup B)
  OBVIOUS
<1>5. IsFiniteSet(T) /\ Cardinality(T) <= Cardinality(S \cup B)
  BY <1>1, <1>4, FS_Subset
<1>6. Cardinality(T) \in Nat
  BY <1>5, FS_CardinalityType
<1>7. PICK a \in Nat, b \in Nat, t \in Nat : a = Cardinality(S) /\ b = Cardinality(S \cap B) /\ t = Cardinality(T)
  BY <1>3, <1>6
<1>8. Cardinality(S \cup B) = a + d - b
  BY <1>1, <1>7
<1>9. t <= a + d
  BY <1>5, <1>7, <1>8
<1> QED BY <1>3, <1>5, <1>6, <1>7, <1>9

\* A run spends d of what it has left and goes on with a, or ends (a = 0).
LEMMA RunSpends ==
    ASSUME NEW rs, OwnIds(rs), NEW kind, IsFiniteSet(RunSlots(rs, kind)),
           \A q \in rs : Left(q, kind) \in Nat,
           NEW r \in rs, NEW a \in Nat, NEW d \in Nat, a + d <= Left(r, kind), NEW rs2,
           \A q \in rs2 : q \in rs \ {r} \/ (q.id = r.id /\ Left(q, kind) = a)
    PROVE  /\ IsFiniteSet(RunSlots(rs2, kind)) /\ Cardinality(RunSlots(rs2, kind)) \in Nat
           /\ Cardinality(RunSlots(rs, kind)) \in Nat
           /\ Cardinality(RunSlots(rs2, kind)) + d <= Cardinality(RunSlots(rs, kind))
<1> DEFINE S == RunSlots(rs, kind)
           T == RunSlots(rs2, kind)
           B == Slots(r.id, a, d)
<1>1. Cardinality(B) = d
  BY SlotsCounted
<1>2. B \subseteq S
  <2> SUFFICES ASSUME NEW i \in (a + 1)..(a + d) PROVE <<r.id, i>> \in S
    BY DEF Slots
  <2>1. i \in 1..Left(r, kind)
    OBVIOUS
  <2> QED BY <2>1 DEF RunSlots
<1>3. T \subseteq S
  <2> SUFFICES ASSUME NEW q \in rs2, NEW i \in 1..Left(q, kind) PROVE <<q.id, i>> \in S
    BY DEF RunSlots
  <2>1. CASE q \in rs \ {r}
    BY <2>1 DEF RunSlots
  <2>2. CASE q.id = r.id /\ Left(q, kind) = a
    <3>1. i \in 1..Left(r, kind)
      BY <2>2
    <3> QED BY <2>2, <3>1 DEF RunSlots
  <2> QED BY <2>1, <2>2
<1>4. B \cap T = {}
  <2> SUFFICES ASSUME NEW q \in rs2, NEW i \in 1..Left(q, kind), q.id = r.id, i \in (a + 1)..(a + d)
               PROVE  FALSE
    BY DEF RunSlots, Slots
  <2>1. q \notin rs \ {r}
    BY DEF OwnIds
  <2> QED BY <2>1
<1> HIDE DEF S, T, B
<1>5. /\ IsFiniteSet(T) /\ Cardinality(T) \in Nat /\ Cardinality(S) \in Nat
      /\ Cardinality(T) + d <= Cardinality(S)
  <2>1. IsFiniteSet(S)
    BY DEF S
  <2> QED BY <1>1, <1>2, <1>3, <1>4, <2>1, SlotsSpent
<1> QED BY <1>5 DEF S, T

\* A run that goes on keeps its key.
LEMMA OwnIdsKept ==
    ASSUME NEW rs, OwnIds(rs), NEW r \in rs, NEW n, n.id = r.id, NEW rs2,
           rs2 \subseteq (rs \ {r}) \cup {n}
    PROVE  OwnIds(rs2)
BY DEF OwnIds

-----------------------------------------------------------------------------
(* What a run has left                                                     *)

\* The constants are natural numbers.
LEMMA BudgetConstants ==
    /\ MAX_AGENT_STEPS \in Nat /\ MAX_AGENT_STEPS > 0 /\ MAX_STREAM_RETRIES \in Nat
    /\ ConnBudget \in Nat /\ KeyBudget \in Nat /\ MaxSends \in Nat
BY StateAssumption DEF ConnBudget, KeyBudget

\* One more or one less.
LEMMA TimesStep ==
    ASSUME NEW m \in Int, NEW b \in Int
    PROVE  (m - 1) * b = m * b - b /\ (m + 1) * b = m * b + b
OBVIOUS

\* A product of natural numbers.
LEMMA TimesNat ==
    ASSUME NEW m \in Nat, NEW b \in Nat
    PROVE  m * b \in Nat
OBVIOUS

\* A product grows with its first factor.
LEMMA TimesMore ==
    ASSUME NEW m \in Nat, NEW n \in Nat, m <= n, NEW b \in Nat
    PROVE  m * b <= n * b
<1>1. PICK d \in Nat : n = m + d
  <2>1. n - m \in Nat /\ n = m + (n - m)
    OBVIOUS
  <2> QED BY <2>1
<1>2. n * b = m * b + d * b
  BY <1>1
<1>3. d * b \in Nat /\ m * b \in Nat
  BY TimesNat
<1> QED BY <1>2, <1>3

\* A run never has less than nothing left.
LEMMA LeftNat ==
    ASSUME ShapeInv, NEW r \in runs
    PROVE  Left(r, "conn") \in Nat /\ Left(r, "key") \in Nat
<1>1. /\ r.step \in 0..(MAX_AGENT_STEPS - 1) /\ r.retry \in 0..MAX_STREAM_RETRIES
      /\ MAX_AGENT_STEPS \in Nat /\ MAX_STREAM_RETRIES \in Nat
  BY RunOfRuns, RunTypes, BudgetConstants
<1>2. PICK m \in Nat, b \in Nat, e \in Nat :
         /\ m = MAX_AGENT_STEPS - 1 - r.step
         /\ b = MAX_STREAM_RETRIES + 1 /\ e = MAX_STREAM_RETRIES - r.retry
  <2>1. /\ MAX_AGENT_STEPS - 1 - r.step \in Nat /\ MAX_STREAM_RETRIES + 1 \in Nat
        /\ MAX_STREAM_RETRIES - r.retry \in Nat
    BY <1>1
  <2> QED BY <2>1
<1>3. m * b \in Nat
  BY TimesNat
<1>4. ConnLeft(r.step, r.retry, r.pc) = m * b + e + (IF r.pc = "retry" THEN 1 ELSE 0)
  BY <1>2 DEF ConnLeft
<1>5. KeyLeft(r.step, r.pc) = 3 * m + (IF r.pc \in {"stream", "retry", "review"} THEN 3 ELSE 2)
  BY <1>2 DEF KeyLeft
<1> QED BY <1>3, <1>4, <1>5 DEF Left

\* A step of the run leaves it `left', of each kind; it opens `conns' connections and
\* uses `keys' keys.
Spends(r, step, retry, pc, conns, keys) ==
    /\ ConnLeft(step, retry, pc) \in Nat /\ KeyLeft(step, pc) \in Nat
    /\ ConnLeft(step, retry, pc) + conns <= Left(r, "conn")
    /\ KeyLeft(step, pc) + keys <= Left(r, "key")

\* What each step of a run spends: an answer that is reviewed, approved or carried out,
\* the plan of a reconnection, a reconnection and the next answer.
LEMMA SpendsLemma ==
    ASSUME ShapeInv, NEW r \in runs
    PROVE  /\ Spends(r, r.step, r.retry, r.pc, 0, 0)
           /\ r.pc \in {"stream", "retry", "review"} =>
                 /\ Spends(r, r.step, r.retry, "review", 0, 0)
                 /\ Spends(r, r.step, r.retry, "tools", 0, 1)
                 /\ Spends(r, r.step, r.retry, "approval", 0, 1)
           /\ r.pc = "stream" /\ r.retry < MAX_STREAM_RETRIES =>
                 Spends(r, r.step, r.retry + 1, "retry", 0, 0)
           /\ r.pc = "retry" => Spends(r, r.step, r.retry, "stream", 1, 0)
           /\ r.pc \notin {"stream", "retry", "review"} =>
                 /\ \A pc \in {"approved", "denied", "tools"} :
                       Spends(r, r.step, r.retry, pc, 0, 0)
                 /\ r.step + 1 < MAX_AGENT_STEPS => Spends(r, r.step + 1, 0, "stream", 1, 2)
<1>1. /\ r.step \in 0..(MAX_AGENT_STEPS - 1) /\ r.retry \in 0..MAX_STREAM_RETRIES
      /\ MAX_AGENT_STEPS \in Nat /\ MAX_STREAM_RETRIES \in Nat
  BY RunOfRuns, RunTypes, BudgetConstants
<1>2. PICK m \in Nat, b \in Nat, e \in Nat :
         /\ m = MAX_AGENT_STEPS - 1 - r.step
         /\ b = MAX_STREAM_RETRIES + 1 /\ e = MAX_STREAM_RETRIES - r.retry
  <2>1. /\ MAX_AGENT_STEPS - 1 - r.step \in Nat /\ MAX_STREAM_RETRIES + 1 \in Nat
        /\ MAX_STREAM_RETRIES - r.retry \in Nat
    BY <1>1
  <2> QED BY <2>1
<1>3. PICK p \in Nat : p = m * b
  BY TimesNat
<1>4. \A pc : ConnLeft(r.step, r.retry, pc) = p + e + (IF pc = "retry" THEN 1 ELSE 0)
  BY <1>2, <1>3 DEF ConnLeft
<1>5. \A pc : KeyLeft(r.step, pc) = 3 * m + (IF pc \in {"stream", "retry", "review"} THEN 3 ELSE 2)
  BY <1>2 DEF KeyLeft
<1>6. /\ Left(r, "conn") = p + e + (IF r.pc = "retry" THEN 1 ELSE 0)
      /\ Left(r, "key") = 3 * m + (IF r.pc \in {"stream", "retry", "review"} THEN 3 ELSE 2)
  BY <1>4, <1>5 DEF Left
<1>7. ASSUME r.pc = "stream", r.retry < MAX_STREAM_RETRIES
      PROVE  Spends(r, r.step, r.retry + 1, "retry", 0, 0)
  <2>1. ConnLeft(r.step, r.retry + 1, "retry") = p + (e - 1) + 1
    BY <1>1, <1>2, <1>3 DEF ConnLeft
  <2>2. e - 1 \in Nat
    BY <1>1, <1>2, <1>7
  <2> QED BY <1>5, <1>6, <1>7, <2>1, <2>2 DEF Spends
<1>8. ASSUME r.pc \notin {"stream", "retry", "review"}, r.step + 1 < MAX_AGENT_STEPS
      PROVE  Spends(r, r.step + 1, 0, "stream", 1, 2)
  <2>1. m - 1 \in Nat /\ m - 1 = MAX_AGENT_STEPS - 1 - (r.step + 1)
    BY <1>1, <1>2, <1>8
  <2>2. PICK q \in Nat : q = (m - 1) * b
    BY <2>1, TimesNat
  <2>3. q = p - b
    BY <1>3, <2>2, TimesStep
  <2>4. ConnLeft(r.step + 1, 0, "stream") = q + MAX_STREAM_RETRIES
    BY <1>1, <1>2, <2>1, <2>2 DEF ConnLeft
  <2>5. KeyLeft(r.step + 1, "stream") = 3 * (m - 1) + 3
    BY <2>1 DEF KeyLeft
  <2> QED BY <1>1, <1>2, <1>6, <1>8, <2>1, <2>3, <2>4, <2>5 DEF Spends
<1>9. Spends(r, r.step, r.retry, r.pc, 0, 0)
  BY <1>4, <1>5, <1>6 DEF Spends
<1>10. ASSUME r.pc \in {"stream", "retry", "review"}
       PROVE  /\ Spends(r, r.step, r.retry, "review", 0, 0)
              /\ Spends(r, r.step, r.retry, "tools", 0, 1)
              /\ Spends(r, r.step, r.retry, "approval", 0, 1)
  BY <1>4, <1>5, <1>6, <1>10 DEF Spends
<1>11. ASSUME r.pc = "retry" PROVE Spends(r, r.step, r.retry, "stream", 1, 0)
  BY <1>4, <1>5, <1>6, <1>11 DEF Spends
<1>12. ASSUME r.pc \notin {"stream", "retry", "review"}
       PROVE  \A pc \in {"approved", "denied", "tools"} : Spends(r, r.step, r.retry, pc, 0, 0)
  BY <1>4, <1>5, <1>6, <1>12 DEF Spends
<1> QED BY <1>7, <1>8, <1>9, <1>10, <1>11, <1>12

-----------------------------------------------------------------------------
(* Every step of a run pays for what it opens and writes                   *)

\* A step of the run r opens connections and uses keys that r had left.
Pays(r) ==
    \E conns, keys \in Nat :
        /\ opened' = opened + conns /\ lastKey' = lastKey + keys
        /\ \/ \E n : /\ runs' \subseteq (runs \ {r}) \cup {n} /\ n.id = r.id
                     /\ Spends(r, n.step, n.retry, n.pc, conns, keys)
           \/ /\ runs' \subseteq runs \ {r}
              /\ conns <= Left(r, "conn") /\ keys <= Left(r, "key")

\* The run goes on.
LEMMA PaysOn ==
    ASSUME NEW r, NEW n, NEW step, NEW retry, NEW pc, NEW conns \in Nat, NEW keys \in Nat,
           opened' = opened + conns, lastKey' = lastKey + keys,
           runs' \subseteq (runs \ {r}) \cup {n}, n.id = r.id, n.step = step,
           n.retry = retry, n.pc = pc, Spends(r, step, retry, pc, conns, keys)
    PROVE  Pays(r)
BY DEF Pays

\* The run ends, with the two keys of its last messages at most.
LEMMA PaysEnd ==
    ASSUME ShapeInv, NEW r \in runs, NEW keys \in 0..2, opened' = opened,
           lastKey' = lastKey + keys, runs' \subseteq runs \ {r}
    PROVE  Pays(r)
<1>1. Left(r, "conn") \in Nat /\ Left(r, "key") \in Nat
  BY LeftNat
<1>2. Left(r, "key") >= 2
  <2>1. MAX_AGENT_STEPS - 1 - r.step \in Nat
    <3>1. r.step \in 0..(MAX_AGENT_STEPS - 1) /\ MAX_AGENT_STEPS \in Nat
      BY RunOfRuns, RunTypes, BudgetConstants
    <3> QED BY <3>1
  <2> QED BY <2>1 DEF Left, KeyLeft
<1>3. opened \in Nat /\ opened' = opened + 0 /\ 0 <= Left(r, "conn") /\ keys <= Left(r, "key")
  BY <1>1, <1>2 DEF ShapeInv, CountInv
<1> QED BY <1>3 DEF Pays

\* A run that ends is gone.
LEMMA EndRunFewer ==
    ASSUME NEW r, NEW ctl, EndRun(r, ctl)
    PROVE  runs' \subseteq runs \ {r}
BY DEF EndRun

\* A run is a record.
LEMMA RunShaped ==
    ASSUME ShapeInv, NEW r \in runs
    PROVE  Shape(r)
BY RunOfRuns, RunTypes

\* More of the text.
LEMMA TextPays ==
    ASSUME ShapeInv, NEW r \in runs, ReceiveText(r)
    PROVE  Pays(r)
<1> DEFINE shown == LastContent(r.working, {r.conn}, "streaming", FALSE)
<1>1. PICK n : n = [r EXCEPT !.working = shown]
  OBVIOUS
<1>2. runs' = (runs \ {r}) \cup {n} /\ UNCHANGED <<opened, lastKey>>
  BY <1>1 DEF ReceiveText
<1> HIDE DEF shown
<1>3. n.id = r.id /\ n.step = r.step /\ n.retry = r.retry /\ n.pc = r.pc
  BY <1>1, RunShaped DEF Shape, Fields
<1>4. opened' = opened + 0 /\ lastKey' = lastKey + 0
  BY <1>2 DEF ShapeInv, CountInv
<1> QED BY <1>2, <1>3, <1>4, PaysOn, SpendsLemma

\* The answer is complete.
LEMMA CompletedPays ==
    ASSUME ShapeInv, NEW r \in runs, ReceiveCompleted(r)
    PROVE  Pays(r)
<1>0. r.pc = "stream" /\ UNCHANGED opened /\ Shape(r) /\ opened \in Nat /\ lastKey \in Nat
  BY RunShaped DEF ReceiveCompleted, ShapeInv, CountInv
<1>a. PICK tools \in Answers :
        LET text == Last(r.working).content \cap {r.conn}
            items == {r.conn} \X tools
            calls == {c \in items : c[2] # "unknown"}
            final == FinalOf(r.working, text, items)
            next == [r EXCEPT !.working = final, !.calls = calls]
        IN  \/ EndRun(r, Closed(r)) /\ UNCHANGED lastKey
            \/ /\ runs' = (runs \ {r}) \cup {[next EXCEPT !.pc = "review"]}
               /\ UNCHANGED lastKey
            \/ /\ lastKey' = lastKey + 1
               /\ \E first \in FirstCalls(calls) :
                     runs' = (runs \ {r}) \cup
                                {[next EXCEPT !.pc = "tools", !.results = first,
                                     !.todo = first, !.toolKey = lastKey + 1]}
  BY DEF ReceiveCompleted, FinalOf
<1> DEFINE items == {r.conn} \X tools
           calls == {c \in items : c[2] # "unknown"}
           final == FinalOf(r.working, Last(r.working).content \cap {r.conn}, items)
<1>1. \/ EndRun(r, Closed(r)) /\ UNCHANGED lastKey
      \/ /\ runs' = (runs \ {r}) \cup
               {[[r EXCEPT !.working = final, !.calls = calls] EXCEPT !.pc = "review"]}
         /\ UNCHANGED lastKey
      \/ /\ lastKey' = lastKey + 1
         /\ \E first \in FirstCalls(calls) :
               runs' = (runs \ {r}) \cup
                  {[[r EXCEPT !.working = final, !.calls = calls]
                      EXCEPT !.pc = "tools", !.results = first,
                             !.todo = first, !.toolKey = lastKey + 1]}
  BY <1>a
<1> HIDE DEF items, calls, final
<1>2. ASSUME NEW ctl, EndRun(r, ctl), UNCHANGED lastKey
      PROVE  Pays(r)
  BY <1>0, <1>2, EndRunFewer, PaysEnd
<1>3. ASSUME UNCHANGED lastKey,
             runs' = (runs \ {r}) \cup
                {[[r EXCEPT !.working = final, !.calls = calls] EXCEPT !.pc = "review"]}
      PROVE  Pays(r)
  <2>1. PICK n : n = [[r EXCEPT !.working = final, !.calls = calls] EXCEPT !.pc = "review"]
    OBVIOUS
  <2>2. n.id = r.id /\ n.step = r.step /\ n.retry = r.retry /\ n.pc = "review"
    BY <1>0, <2>1 DEF Shape, Fields
  <2>3. runs' \subseteq (runs \ {r}) \cup {n} /\ opened' = opened + 0 /\ lastKey' = lastKey + 0
    BY <1>0, <1>3, <2>1
  <2> QED BY <1>0, <2>2, <2>3, PaysOn, SpendsLemma
<1>4. ASSUME NEW first, lastKey' = lastKey + 1,
             runs' = (runs \ {r}) \cup
                  {[[r EXCEPT !.working = final, !.calls = calls]
                      EXCEPT !.pc = "tools", !.results = first,
                             !.todo = first, !.toolKey = lastKey + 1]}
      PROVE  Pays(r)
  <2>1. PICK n : n = [[r EXCEPT !.working = final, !.calls = calls]
                        EXCEPT !.pc = "tools", !.results = first,
                               !.todo = first, !.toolKey = lastKey + 1]
    OBVIOUS
  <2>2. n.id = r.id /\ n.step = r.step /\ n.retry = r.retry /\ n.pc = "tools"
    BY <1>0, <2>1 DEF Shape, Fields
  <2>3. runs' \subseteq (runs \ {r}) \cup {n} /\ opened' = opened + 0
    BY <1>0, <1>4, <2>1
  <2> QED BY <1>0, <1>4, <2>2, <2>3, PaysOn, SpendsLemma
<1> QED BY <1>1, <1>2, <1>3, <1>4

\* The stream fails.
LEMMA FailsPays ==
    ASSUME ShapeInv, NEW r \in runs, NEW retryable, StreamFails(r, retryable)
    PROVE  Pays(r)
<1>0. /\ r.pc = "stream" /\ UNCHANGED <<opened, lastKey>> /\ Shape(r)
      /\ opened \in Nat /\ lastKey \in Nat /\ r.retry \in Nat
  BY RunShaped, RunOfRuns, RunTypes DEF StreamFails, ShapeInv, CountInv
<1>1. CASE \E ctl : EndRun(r, ctl)
  BY <1>0, <1>1, EndRunFewer, PaysEnd
<1>2. ASSUME NEW shown, r.retry < MAX_STREAM_RETRIES,
             runs' = (runs \ {r}) \cup
                        {[r EXCEPT !.pc = "retry", !.retry = @ + 1, !.working = shown]}
      PROVE  Pays(r)
  <2>1. PICK n : n = [r EXCEPT !.pc = "retry", !.retry = @ + 1, !.working = shown]
    OBVIOUS
  <2>2. n.id = r.id /\ n.step = r.step /\ n.retry = r.retry + 1 /\ n.pc = "retry"
    BY <1>0, <2>1 DEF Shape, Fields
  <2>3. runs' \subseteq (runs \ {r}) \cup {n} /\ opened' = opened + 0 /\ lastKey' = lastKey + 0
    BY <1>0, <1>2, <2>1
  <2> QED BY <1>0, <1>2, <2>2, <2>3, PaysOn, SpendsLemma
<1> QED BY <1>1, <1>2 DEF StreamFails

\* The stream was stopped.
LEMMA StoppedPays ==
    ASSUME ShapeInv, NEW r \in runs, StreamStopped(r)
    PROVE  Pays(r)
<1>1. UNCHANGED <<opened, lastKey>> /\ runs' = runs \ {r} /\ lastKey \in Nat
  BY DEF StreamStopped, stateVars, ShapeInv, CountInv
<1> QED BY <1>1, PaysEnd

\* The timer of a reconnection.
LEMMA TimerPays ==
    ASSUME ShapeInv, NEW r \in runs, RetryTimer(r)
    PROVE  Pays(r)
<1>0. /\ r.pc = "retry" /\ UNCHANGED lastKey /\ Shape(r) /\ opened \in Nat /\ lastKey \in Nat
  BY RunShaped DEF RetryTimer, ShapeInv, CountInv
<1>1. CASE control.stopped
  <2>1. EndRun(r, [control EXCEPT !.retryTimer = None]) /\ UNCHANGED opened
    BY <1>1 DEF RetryTimer
  <2> QED BY <1>0, <2>1, EndRunFewer, PaysEnd
<1>2. CASE ~control.stopped
  <2>1. PICK n : n = [r EXCEPT !.pc = "stream", !.conn = opened + 1]
    OBVIOUS
  <2>2. opened' = opened + 1 /\ runs' = (runs \ {r}) \cup {n}
    BY <1>2, <2>1 DEF RetryTimer, OpenStream
  <2>3. n.id = r.id /\ n.step = r.step /\ n.retry = r.retry /\ n.pc = "stream"
    BY <1>0, <2>1 DEF Shape, Fields
  <2>4. runs' \subseteq (runs \ {r}) \cup {n} /\ lastKey' = lastKey + 0
    BY <1>0, <2>2
  <2> QED BY <1>0, <2>2, <2>3, <2>4, PaysOn, SpendsLemma
<1> QED BY <1>1, <1>2

\* The user is asked.
LEMMA RequestPays ==
    ASSUME ShapeInv, NEW r \in runs, RequestApproval(r)
    PROVE  Pays(r)
<1>0. /\ r.pc = "review" /\ UNCHANGED opened /\ Shape(r) /\ lastKey' = lastKey + 1
      /\ opened \in Nat /\ lastKey \in Nat
  BY RunShaped DEF RequestApproval, ShapeInv, CountInv
<1>1. PICK n : n = [r EXCEPT !.pc = "approval", !.toolKey = lastKey + 1]
  OBVIOUS
<1>2. runs' \subseteq (runs \ {r}) \cup {n} /\ opened' = opened + 0
  BY <1>0, <1>1 DEF RequestApproval
<1>3. n.id = r.id /\ n.step = r.step /\ n.retry = r.retry /\ n.pc = "approval"
  BY <1>0, <1>1 DEF Shape, Fields
<1> QED BY <1>0, <1>2, <1>3, PaysOn, SpendsLemma

\* The user answers.
LEMMA ApprovePays ==
    ASSUME ShapeInv, NEW r \in runs, NEW approved, handleApproveAgentToolCalls(r, approved)
    PROVE  Pays(r)
<1>0. /\ r.pc = "approval" /\ UNCHANGED <<opened, lastKey>> /\ Shape(r)
      /\ opened \in Nat /\ lastKey \in Nat
  BY RunShaped DEF handleApproveAgentToolCalls, ShapeInv, CountInv
<1>1. PICK pc : pc = IF approved THEN "approved" ELSE "denied"
  OBVIOUS
<1>2. PICK n : n = [r EXCEPT !.pc = pc, !.granted = approved]
  OBVIOUS
<1>3. runs' \subseteq (runs \ {r}) \cup {n}
  BY <1>1, <1>2 DEF handleApproveAgentToolCalls
<1>4. n.id = r.id /\ n.step = r.step /\ n.retry = r.retry /\ n.pc = pc
  BY <1>0, <1>2 DEF Shape, Fields
<1>5. opened' = opened + 0 /\ lastKey' = lastKey + 0
  BY <1>0
<1>6. Spends(r, r.step, r.retry, pc, 0, 0)
  BY <1>0, <1>1, SpendsLemma
<1> QED BY <1>3, <1>4, <1>5, <1>6, PaysOn

\* The next answer of the run.
LEMMA NextPays ==
    ASSUME ShapeInv, NEW r \in runs, r.pc \notin {"stream", "retry", "review"}, NEW results,
           NextStep(r, results)
    PROVE  Pays(r)
<1>0. /\ Shape(r) /\ lastKey' = lastKey + 2 /\ opened \in Nat /\ lastKey \in Nat
      /\ r.step \in Nat
  BY RunShaped, RunOfRuns, RunTypes DEF NextStep, ShapeInv, CountInv
<1>1. CASE (\E ctl : EndRun(r, ctl)) /\ UNCHANGED opened
  BY <1>0, <1>1, EndRunFewer, PaysEnd
<1>2. ASSUME NEW next, r.step + 1 < MAX_AGENT_STEPS,
             OpenStream(r, [r EXCEPT !.working = next, !.step = @ + 1,
                                        !.retry = 0, !.calls = {}, !.results = {},
                                        !.todo = {}, !.toolKey = None,
                                        !.granted = FALSE])
      PROVE  Pays(r)
  <2>1. PICK m : m = [r EXCEPT !.working = next, !.step = @ + 1,
                               !.retry = 0, !.calls = {}, !.results = {},
                               !.todo = {}, !.toolKey = None, !.granted = FALSE]
    OBVIOUS
  <2>2. PICK n : n = [m EXCEPT !.pc = "stream", !.conn = opened + 1]
    OBVIOUS
  <2>3. runs' \subseteq (runs \ {r}) \cup {n} /\ opened' = opened + 1
    BY <1>2, <2>1, <2>2 DEF OpenStream
  <2>4. Shape(m) /\ m.id = r.id /\ m.step = r.step + 1 /\ m.retry = 0
    BY <1>0, <2>1 DEF Shape, Fields
  <2>5. n.id = r.id /\ n.step = r.step + 1 /\ n.retry = 0 /\ n.pc = "stream"
    BY <2>2, <2>4 DEF Shape, Fields
  <2> QED BY <1>0, <1>2, <2>3, <2>5, PaysOn, SpendsLemma
<1> QED BY <1>1, <1>2 DEF NextStep

\* The run goes on after the user's answer.
LEMMA ContinuePays ==
    ASSUME ShapeInv, NEW r \in runs, ContinueApproved(r)
    PROVE  Pays(r)
<1>0. /\ r.pc \in {"approved", "denied"} /\ Shape(r) /\ opened \in Nat /\ lastKey \in Nat
  BY RunShaped DEF ContinueApproved, ShapeInv, CountInv
<1>1. ASSUME NEW results, NextStep(r, results) PROVE Pays(r)
  BY <1>0, <1>1, NextPays
<1>2. ASSUME NEW first, NEW results, UNCHANGED <<opened, lastKey>>,
             runs' = (runs \ {r}) \cup
                       {[r EXCEPT !.pc = "tools", !.todo = first, !.results = results]}
      PROVE  Pays(r)
  <2>1. PICK n : n = [r EXCEPT !.pc = "tools", !.todo = first, !.results = results]
    OBVIOUS
  <2>2. runs' \subseteq (runs \ {r}) \cup {n} /\ opened' = opened + 0 /\ lastKey' = lastKey + 0
    BY <1>0, <1>2, <2>1
  <2>3. n.id = r.id /\ n.step = r.step /\ n.retry = r.retry /\ n.pc = "tools"
    BY <1>0, <2>1 DEF Shape, Fields
  <2> QED BY <1>0, <2>2, <2>3, PaysOn, SpendsLemma
<1> QED BY <1>1, <1>2 DEF ContinueApproved

\* A call was carried out.
LEMMA ToolPays ==
    ASSUME ShapeInv, NEW r \in runs, ToolDone(r)
    PROVE  Pays(r)
<1>0. /\ r.pc = "tools" /\ Shape(r) /\ opened \in Nat /\ lastKey \in Nat
  BY RunShaped DEF ToolDone, ShapeInv, CountInv
<1>1. CASE NextStep(r, r.results)
  BY <1>0, <1>1, NextPays
<1>2. ASSUME NEW c, UNCHANGED <<opened, lastKey>>,
             runs' = (runs \ {r}) \cup {[r EXCEPT !.todo = @ \ {c}]}
      PROVE  Pays(r)
  <2>1. PICK n : n = [r EXCEPT !.todo = @ \ {c}]
    OBVIOUS
  <2>2. runs' \subseteq (runs \ {r}) \cup {n} /\ opened' = opened + 0 /\ lastKey' = lastKey + 0
    BY <1>0, <1>2, <2>1
  <2>3. n.id = r.id /\ n.step = r.step /\ n.retry = r.retry /\ n.pc = r.pc
    BY <1>0, <2>1 DEF Shape, Fields
  <2> QED BY <1>0, <2>2, <2>3, PaysOn, SpendsLemma
<1> QED BY <1>1, <1>2 DEF ToolDone

\* Every step of a run.
LEMMA AgentPays ==
    ASSUME ShapeInv, AgentStep \/ Approve
    PROVE  \E r \in runs : Pays(r)
<1>1. CASE Approve
  BY <1>1, ApprovePays DEF Approve
<1>2. CASE AgentStep
  <2>1. PICK r \in runs : \/ ContinueApproved(r) \/ ReceiveText(r) \/ RunStep(r)
    BY <1>2 DEF AgentStep, AgentNext
  <2> QED BY <2>1, ContinuePays, TextPays, CompletedPays, FailsPays, StoppedPays, TimerPays,
       RequestPays, ToolPays DEF RunStep
<1> QED BY <1>1, <1>2

-----------------------------------------------------------------------------
(* What the calls of the chat have left                                    *)

\* Connections and timers that are gone leave fewer slots.
LEMMA CallsFewer ==
    ASSUME NEW ss, NEW ss2, NEW timer, NEW timer2, NEW count,
           ss2 \subseteq ss, timer2 = timer \/ timer2 = None
    PROVE  CallSlots(ss2, timer2, count) \subseteq CallSlots(ss, timer, count)
BY DEF CallSlots

\* A reconnection is planned: the call gives up one of its own for the timer.
Retries(ss, count, own, ss2, count2) ==
    /\ \E s \in ss : s.own = own
    /\ ss2 \subseteq ss /\ \A x \in ss : x.own \in Keys
    /\ count \in [Keys -> 0..MAX_STREAM_RETRIES] /\ count[own] < MAX_STREAM_RETRIES
    /\ count2 = [count EXCEPT ![own] = @ + 1]

LEMMA RetrySlots ==
    ASSUME NEW ss, NEW ss2, NEW timer, NEW count, NEW count2, NEW own,
           Retries(ss, count, own, ss2, count2), IsFiniteSet(CallSlots(ss, timer, count))
    PROVE  /\ IsFiniteSet(CallSlots(ss2, own, count2))
           /\ Cardinality(CallSlots(ss2, own, count2)) \in Nat
           /\ Cardinality(CallSlots(ss, timer, count)) \in Nat
           /\ Cardinality(CallSlots(ss2, own, count2)) <= Cardinality(CallSlots(ss, timer, count))
<1> DEFINE S == CallSlots(ss, timer, count)
           T == CallSlots(ss2, own, count2)
           S1 == S \ {<<own, count[own] + 1>>}
<1>a. PICK s \in ss : s.own = own
  BY DEF Retries
<1>b. /\ ss2 \subseteq ss /\ \A x \in ss : x.own \in Keys
      /\ count \in [Keys -> 0..MAX_STREAM_RETRIES] /\ count[own] < MAX_STREAM_RETRIES
      /\ count2 = [count EXCEPT ![own] = @ + 1]
  BY DEF Retries
<1>0. own \in Keys /\ MAX_STREAM_RETRIES \in Nat /\ count[own] \in 0..MAX_STREAM_RETRIES
  BY <1>a, <1>b, BudgetConstants
<1>1. count2[own] = count[own] + 1 /\ \A key \in Keys : key # own => count2[key] = count[key]
  BY <1>0, <1>b
<1>2. <<own, count[own] + 1>> \in S
  <2>1. count[own] + 1 \in (count[own] + 1)..MAX_STREAM_RETRIES
    BY <1>0, <1>b
  <2> QED BY <1>a, <2>1 DEF CallSlots
<1>3. ASSUME NEW i \in (count2[own] + 1)..MAX_STREAM_RETRIES
      PROVE  <<own, i>> \in S1
  <2>1. i \in (count[own] + 1)..MAX_STREAM_RETRIES /\ i # count[own] + 1
    BY <1>0, <1>1, <1>3
  <2>2. <<own, i>> \in S
    BY <1>a, <2>1 DEF CallSlots
  <2> QED BY <2>1, <2>2
<1>4. ASSUME NEW x \in ss2, NEW i \in (count2[x.own] + 1)..MAX_STREAM_RETRIES
      PROVE  <<x.own, i>> \in S1
  <2>1. CASE x.own = own
    BY <1>3, <1>4, <2>1
  <2>2. CASE x.own # own
    <3>1. x \in ss /\ x.own \in Keys
      BY <1>b
    <3>2. count2[x.own] = count[x.own]
      BY <1>1, <2>2, <3>1
    <3>3. <<x.own, i>> \in S
      BY <1>4, <3>1, <3>2 DEF CallSlots
    <3> QED BY <2>2, <3>3
  <2> QED BY <2>1, <2>2
<1>5. T \subseteq S1 \cup {<<own, 0>>}
  BY <1>3, <1>4 DEF CallSlots
<1> HIDE DEF T
<1>6. IsFiniteSet(S1) /\ Cardinality(S1) = Cardinality(S) - 1
  <2>1. IsFiniteSet(S)
    OBVIOUS
  <2> HIDE DEF S
  <2> QED BY <1>2, <2>1, FS_RemoveElement
<1>7. Cardinality(S) \in Nat /\ IsFiniteSet({<<own, 0>>}) /\ Cardinality({<<own, 0>>}) = 1
  BY FS_CardinalityType, FS_Singleton
<1> HIDE DEF S1, S
<1>8. IsFiniteSet(T) /\ Cardinality(T) \in Nat /\ Cardinality(T) <= Cardinality(S1) + 1
  BY <1>5, <1>6, <1>7, SlotsMore
<1>9. Cardinality(T) <= Cardinality(S)
  BY <1>6, <1>7, <1>8
<1> QED BY <1>7, <1>8, <1>9 DEF S, T

\* The timer opens the connection it stands for.
LEMMA TimerSlots ==
    ASSUME NEW ss, NEW timer, timer # None, NEW count, NEW x, x.own = timer,
           count[timer] \in Nat, \A s \in ss : count[s.own] \in Nat,
           IsFiniteSet(CallSlots(ss, timer, count))
    PROVE  /\ IsFiniteSet(CallSlots(ss \cup {x}, None, count))
           /\ Cardinality(CallSlots(ss \cup {x}, None, count)) \in Nat
           /\ Cardinality(CallSlots(ss, timer, count)) \in Nat
           /\ Cardinality(CallSlots(ss \cup {x}, None, count)) + 1
                 <= Cardinality(CallSlots(ss, timer, count))
<1> DEFINE S == CallSlots(ss, timer, count)
           T == CallSlots(ss \cup {x}, None, count)
           B == {<<timer, 0>>}
<1>0. MAX_STREAM_RETRIES \in Nat
  BY BudgetConstants
<1>1. B \subseteq S
  BY DEF CallSlots
<1>2. T \subseteq S
  BY DEF CallSlots
<1>3. B \cap T = {}
  <2>1. \A m \in Nat : 0 \notin (m + 1)..MAX_STREAM_RETRIES
    BY <1>0
  <2>2. \A y \in ss \cup {x} : 0 \notin (count[y.own] + 1)..MAX_STREAM_RETRIES
    BY <2>1
  <2> QED BY <2>2 DEF CallSlots
<1>4. Cardinality(B) = 1
  BY FS_Singleton
<1>5. IsFiniteSet(S)
  OBVIOUS
<1> HIDE DEF S, T, B
<1>6. /\ IsFiniteSet(T) /\ Cardinality(T) \in Nat /\ Cardinality(S) \in Nat
      /\ Cardinality(T) + 1 <= Cardinality(S)
  BY <1>1, <1>2, <1>3, <1>4, <1>5, SlotsSpent
<1> QED BY <1>6 DEF S, T

\* A new call.
LEMMA SendSlots ==
    ASSUME NEW ss, NEW timer, NEW count, NEW x, count[x.own] \in 0..MAX_STREAM_RETRIES,
           IsFiniteSet(CallSlots(ss, timer, count))
    PROVE  /\ IsFiniteSet(CallSlots(ss \cup {x}, timer, count))
           /\ Cardinality(CallSlots(ss \cup {x}, timer, count)) \in Nat
           /\ Cardinality(CallSlots(ss, timer, count)) \in Nat
           /\ Cardinality(CallSlots(ss \cup {x}, timer, count))
                 <= Cardinality(CallSlots(ss, timer, count)) + MAX_STREAM_RETRIES
<1>0. MAX_STREAM_RETRIES \in Nat
  BY BudgetConstants
<1>1. PICK a \in Nat, d \in Nat : /\ a = count[x.own] /\ d = MAX_STREAM_RETRIES - count[x.own]
                                  /\ a + d = MAX_STREAM_RETRIES
  <2>1. MAX_STREAM_RETRIES - count[x.own] \in Nat /\ count[x.own] \in Nat
    BY <1>0
  <2> QED BY <1>0, <2>1
<1> DEFINE S == CallSlots(ss, timer, count)
           T == CallSlots(ss \cup {x}, timer, count)
           B == Slots(x.own, a, d)
<1>2. B = {x.own} \X ((count[x.own] + 1)..MAX_STREAM_RETRIES)
  BY <1>1 DEF Slots
<1>3. T \subseteq S \cup B
  <2> HIDE DEF B
  <2> QED BY <1>2 DEF CallSlots
<1>4. IsFiniteSet(B) /\ Cardinality(B) = d
  BY SlotsCounted
<1>5. IsFiniteSet(S)
  OBVIOUS
<1> HIDE DEF S, T, B
<1>6. /\ IsFiniteSet(T) /\ Cardinality(T) \in Nat /\ Cardinality(S) \in Nat
      /\ Cardinality(T) <= Cardinality(S) + d
  BY <1>3, <1>4, <1>5, SlotsMore
<1>7. Cardinality(T) <= Cardinality(S) + MAX_STREAM_RETRIES
  BY <1>0, <1>1, <1>6
<1> QED BY <1>6, <1>7 DEF S, T

-----------------------------------------------------------------------------
(* The budget holds                                                        *)

\* What the calls of the chat have left now.
Calls0 == CallSlots(sources, retryTimeout, retryCount)

\* The counters are within the budget of the requests made so far.
LEMMA WithinBudget ==
    ASSUME ShapeInv, BudgetInv
    PROVE  /\ lastKey \in 0..MaxMessages /\ opened \in 0..MaxConnections
           /\ \A key \in 1..lastKey : key \in Keys
           /\ sends \in Nat /\ sends <= MaxSends
           /\ sends * KeyBudget \in Nat /\ sends * ConnBudget \in Nat
<1>0. /\ lastKey \in Nat /\ opened \in Nat /\ sends \in Nat /\ sends <= MaxSends
      /\ KeyBudget \in Nat /\ ConnBudget \in Nat /\ MaxSends \in Nat
  BY BudgetConstants DEF ShapeInv, CountInv, UserShape
<1>1. PICK a \in Nat, b \in Nat, c \in Nat :
         /\ a = Cardinality(RunSlots(runs, "key")) /\ b = Cardinality(RunSlots(runs, "conn"))
         /\ c = Cardinality(Calls0)
  BY FS_CardinalityType DEF BudgetInv, Calls0
<1>2. PICK x \in Nat, y \in Nat : x = sends * KeyBudget /\ y = sends * ConnBudget
  BY <1>0, TimesNat
<1>3. PICK mx \in Nat, my \in Nat : mx = MaxSends * KeyBudget /\ my = MaxSends * ConnBudget
  BY <1>0, TimesNat
<1>4. x <= mx /\ y <= my
  BY <1>0, <1>2, <1>3, TimesMore
<1>5. lastKey + a <= x /\ opened + b + c <= y
  BY <1>1, <1>2 DEF BudgetInv, Calls0
<1>6. lastKey <= mx /\ opened <= my
  BY <1>0, <1>4, <1>5
<1>7. mx = MaxMessages
  BY <1>3 DEF MaxMessages, KeyBudget
<1>8. my = MaxConnections
  <2>1. \A p, q, r \in Nat : p * (q * r) = p * q * r
    OBVIOUS
  <2>2. PICK r \in Nat : r = MAX_STREAM_RETRIES + 1
    BY BudgetConstants
  <2> QED BY <1>0, <1>3, <2>1, <2>2, BudgetConstants DEF MaxConnections, ConnBudget
<1> QED BY <1>0, <1>2, <1>6, <1>7, <1>8 DEF Keys

\* A step of a run.
LEMMA PaysBudget ==
    ASSUME ShapeInv, BudgetInv, NEW r \in runs, Pays(r), UNCHANGED << chatVars, userVars >>
    PROVE  BudgetInv'
<1>0. /\ lastKey \in Nat /\ opened \in Nat /\ OwnIds(runs)
      /\ IsFiniteSet(RunSlots(runs, "key")) /\ IsFiniteSet(RunSlots(runs, "conn"))
      /\ IsFiniteSet(Calls0) /\ Cardinality(Calls0) \in Nat
      /\ sends * KeyBudget \in Nat /\ sends * ConnBudget \in Nat
  BY WithinBudget, FS_CardinalityType DEF ShapeInv, CountInv, BudgetInv, Calls0
<1>1. /\ \A q \in runs : Left(q, "conn") \in Nat /\ Left(q, "key") \in Nat
      /\ Calls0' = Calls0 /\ sends' = sends
  BY LeftNat DEF chatVars, userVars, Calls0
<1>2. PICK conns \in Nat, keys \in Nat :
        /\ opened' = opened + conns /\ lastKey' = lastKey + keys
        /\ \/ \E n : /\ runs' \subseteq (runs \ {r}) \cup {n} /\ n.id = r.id
                     /\ Spends(r, n.step, n.retry, n.pc, conns, keys)
           \/ /\ runs' \subseteq runs \ {r}
              /\ conns <= Left(r, "conn") /\ keys <= Left(r, "key")
  BY DEF Pays
<1>3. ASSUME NEW a \in Nat, NEW b \in Nat, NEW rs, rs = runs',
             a + conns <= Left(r, "conn"), b + keys <= Left(r, "key"),
             \A q \in rs : q \in runs \ {r} \/ (q.id = r.id /\ Left(q, "conn") = a),
             \A q \in rs : q \in runs \ {r} \/ (q.id = r.id /\ Left(q, "key") = b),
             OwnIds(rs)
      PROVE  BudgetInv'
  <2>1. /\ IsFiniteSet(RunSlots(rs, "conn")) /\ Cardinality(RunSlots(rs, "conn")) \in Nat
        /\ Cardinality(RunSlots(runs, "conn")) \in Nat
        /\ Cardinality(RunSlots(rs, "conn")) + conns <= Cardinality(RunSlots(runs, "conn"))
    BY <1>0, <1>1, <1>3, RunSpends
  <2>2. /\ IsFiniteSet(RunSlots(rs, "key")) /\ Cardinality(RunSlots(rs, "key")) \in Nat
        /\ Cardinality(RunSlots(runs, "key")) \in Nat
        /\ Cardinality(RunSlots(rs, "key")) + keys <= Cardinality(RunSlots(runs, "key"))
    BY <1>0, <1>1, <1>3, RunSpends
  <2>3. /\ lastKey + Cardinality(RunSlots(runs, "key")) <= sends * KeyBudget
        /\ opened + Cardinality(RunSlots(runs, "conn")) + Cardinality(Calls0) <= sends * ConnBudget
    BY DEF BudgetInv, Calls0
  <2>4. lastKey' + Cardinality(RunSlots(rs, "key")) <= sends * KeyBudget
    BY <1>0, <1>2, <2>2, <2>3
  <2>5. opened' + Cardinality(RunSlots(rs, "conn")) + Cardinality(Calls0) <= sends * ConnBudget
    BY <1>0, <1>2, <2>1, <2>3
  <2> QED BY <1>0, <1>1, <1>3, <2>1, <2>2, <2>4, <2>5 DEF BudgetInv, Calls0
<1>4. ASSUME NEW n, runs' \subseteq (runs \ {r}) \cup {n}, n.id = r.id,
             Spends(r, n.step, n.retry, n.pc, conns, keys)
      PROVE  BudgetInv'
  <2>1. PICK a \in Nat, b \in Nat : a = Left(n, "conn") /\ b = Left(n, "key")
    BY <1>4 DEF Spends, Left
  <2>2. a + conns <= Left(r, "conn") /\ b + keys <= Left(r, "key")
    BY <1>4, <2>1 DEF Spends, Left
  <2>3. PICK rs : rs = runs'
    OBVIOUS
  <2>4. OwnIds(rs)
    BY <1>0, <1>4, <2>3, OwnIdsKept
  <2>5. /\ \A q \in rs : q \in runs \ {r} \/ (q.id = r.id /\ Left(q, "conn") = a)
        /\ \A q \in rs : q \in runs \ {r} \/ (q.id = r.id /\ Left(q, "key") = b)
    BY <1>4, <2>1, <2>3
  <2> QED BY <1>3, <2>2, <2>3, <2>4, <2>5
<1>5. ASSUME runs' \subseteq runs \ {r}, conns <= Left(r, "conn"), keys <= Left(r, "key")
      PROVE  BudgetInv'
  <2>1. PICK rs : rs = runs'
    OBVIOUS
  <2>2. PICK z \in Nat : z = 0
    OBVIOUS
  <2>3. OwnIds(rs)
    BY <1>0, <1>5, <2>1 DEF OwnIds
  <2>4. z + conns <= Left(r, "conn") /\ z + keys <= Left(r, "key")
    BY <1>5, <2>2
  <2>5. \A q \in rs : q \in runs \ {r}
    BY <1>5, <2>1
  <2> QED BY <1>3, <2>1, <2>3, <2>4, <2>5
<1> QED BY <1>2, <1>4, <1>5

\* A step that opens and writes nothing, and leaves at most what there was.
LEMMA QuietBudget ==
    ASSUME ShapeInv, BudgetInv, opened' = opened, lastKey' = lastKey, sends' = sends,
           OwnIds(runs'), RunSlots(runs', "key") \subseteq RunSlots(runs, "key"),
           RunSlots(runs', "conn") \subseteq RunSlots(runs, "conn"),
           NEW S, S = Calls0', IsFiniteSet(S), Cardinality(S) \in Nat,
           Cardinality(S) <= Cardinality(Calls0), Cardinality(Calls0) \in Nat
    PROVE  BudgetInv'
<1>0. /\ lastKey \in Nat /\ opened \in Nat
      /\ IsFiniteSet(RunSlots(runs, "key")) /\ IsFiniteSet(RunSlots(runs, "conn"))
      /\ sends * KeyBudget \in Nat /\ sends * ConnBudget \in Nat
      /\ lastKey + Cardinality(RunSlots(runs, "key")) <= sends * KeyBudget
      /\ opened + Cardinality(RunSlots(runs, "conn")) + Cardinality(Calls0) <= sends * ConnBudget
  BY WithinBudget DEF ShapeInv, CountInv, BudgetInv, Calls0
<1>1. PICK rs : rs = runs'
  OBVIOUS
<1>2. /\ IsFiniteSet(RunSlots(rs, "key")) /\ Cardinality(RunSlots(rs, "key")) \in Nat
      /\ Cardinality(RunSlots(runs, "key")) \in Nat
      /\ Cardinality(RunSlots(rs, "key")) <= Cardinality(RunSlots(runs, "key"))
  BY <1>0, <1>1, SlotsFewer
<1>3. /\ IsFiniteSet(RunSlots(rs, "conn")) /\ Cardinality(RunSlots(rs, "conn")) \in Nat
      /\ Cardinality(RunSlots(runs, "conn")) \in Nat
      /\ Cardinality(RunSlots(rs, "conn")) <= Cardinality(RunSlots(runs, "conn"))
  BY <1>0, <1>1, SlotsFewer
<1>4. lastKey + Cardinality(RunSlots(rs, "key")) <= sends * KeyBudget
  BY <1>0, <1>2
<1>5. opened + Cardinality(RunSlots(rs, "conn")) + Cardinality(S) <= sends * ConnBudget
  BY <1>0, <1>3
<1> QED BY <1>1, <1>2, <1>3, <1>4, <1>5 DEF BudgetInv, Calls0

\* The calls of the chat lose connections and timers only.
LEMMA FewerCalls ==
    ASSUME BudgetInv, sources' \subseteq sources,
           retryTimeout' = retryTimeout \/ retryTimeout' = None, UNCHANGED retryCount
    PROVE  /\ IsFiniteSet(Calls0') /\ Cardinality(Calls0') \in Nat
           /\ Cardinality(Calls0') <= Cardinality(Calls0) /\ Cardinality(Calls0) \in Nat
<1>1. PICK S, T : S = Calls0 /\ T = Calls0'
  OBVIOUS
<1>2. T \subseteq S
  BY <1>1, CallsFewer DEF Calls0
<1>3. IsFiniteSet(S)
  BY <1>1 DEF BudgetInv, Calls0
<1> QED BY <1>1, <1>2, <1>3, SlotsFewer

\* Runs that do not change.
LEMMA SameRuns ==
    ASSUME BudgetInv, UNCHANGED runs
    PROVE  /\ OwnIds(runs') /\ RunSlots(runs', "key") \subseteq RunSlots(runs, "key")
           /\ RunSlots(runs', "conn") \subseteq RunSlots(runs, "conn")
BY DEF BudgetInv

\* A handler of the chat's errors.
LEMMA ErrorBudget ==
    ASSUME ShapeInv, BudgetInv, NEW s \in sources, NEW live \in SUBSET sources,
           handleError(s.own, live), UNCHANGED << opened, lastKey, runs, sends >>
    PROVE  BudgetInv'
<1>1. CASE /\ sources' \subseteq sources
           /\ UNCHANGED << retryTimeout, retryCount >>
  BY <1>1, FewerCalls, SameRuns, QuietBudget
<1>2. CASE /\ sources' \subseteq sources /\ retryCount[s.own] < MAX_STREAM_RETRIES
           /\ retryCount' = [retryCount EXCEPT ![s.own] = @ + 1] /\ retryTimeout' = s.own
  <2>1. /\ retryCount \in [Keys -> 0..MAX_STREAM_RETRIES] /\ \A x \in sources : x.own \in Keys
        /\ IsFiniteSet(Calls0)
    BY WithinBudget DEF ShapeInv, ChatShape, BudgetInv, Calls0
  <2>2. PICK own, ss2, count2 : own = s.own /\ ss2 = sources' /\ count2 = retryCount'
    OBVIOUS
  <2>a. PICK ss, timer, count : ss = sources /\ timer = retryTimeout /\ count = retryCount
    OBVIOUS
  <2>b. Retries(ss, count, own, ss2, count2)
    BY <1>2, <2>1, <2>2, <2>a DEF Retries
  <2>c. IsFiniteSet(CallSlots(ss, timer, count))
    BY <2>1, <2>a DEF Calls0
  <2>3. PICK T : T = CallSlots(ss2, own, count2)
    OBVIOUS
  <2>4. /\ IsFiniteSet(T) /\ Cardinality(T) \in Nat
        /\ Cardinality(Calls0) \in Nat /\ Cardinality(T) <= Cardinality(Calls0)
    <3>1. Calls0 = CallSlots(ss, timer, count)
      BY <2>a DEF Calls0
    <3>2. /\ IsFiniteSet(CallSlots(ss2, own, count2))
          /\ Cardinality(CallSlots(ss2, own, count2)) \in Nat
          /\ Cardinality(CallSlots(ss, timer, count)) \in Nat
          /\ Cardinality(CallSlots(ss2, own, count2)) <= Cardinality(CallSlots(ss, timer, count))
      BY ONLY <2>b, <2>c, RetrySlots
    <3> QED BY <2>3, <3>1, <3>2
  <2>5. T = Calls0'
    BY <1>2, <2>2, <2>3 DEF Calls0
  <2> QED BY <2>4, <2>5, SameRuns, QuietBudget
<1>3. closeSource(live) \subseteq sources
  BY DEF closeSource
<1> QED BY <1>1, <1>2, <1>3 DEF handleError

\* The steps of the chat.
LEMMA ChatBudget ==
    ASSUME ShapeInv, BudgetInv, ChatStep
    PROVE  BudgetInv'
<1>0. UNCHANGED << runs, sends >>
  BY DEF ChatStep, agentVars, userVars
<1>1. CASE /\ sources' \subseteq sources /\ UNCHANGED << retryCount, opened, lastKey >>
           /\ retryTimeout' = retryTimeout \/ retryTimeout' = None
  BY <1>0, <1>1, FewerCalls, SameRuns, QuietBudget
<1>2. ASSUME NEW s \in sources, NEW kind, ReceiveChunk(s, kind) PROVE BudgetInv'
  BY <1>1, <1>2 DEF ReceiveChunk, chatVars
<1>3. ASSUME NEW s \in sources, ReceiveGarbage(s) PROVE BudgetInv'
  BY <1>0, <1>3, ErrorBudget DEF ReceiveGarbage
<1>4. ASSUME NEW s \in sources, ReceiveDone(s) PROVE BudgetInv'
  BY <1>1, <1>4 DEF ReceiveDone, closeSource
<1>5. ASSUME NEW s \in sources, SourceFails(s) PROVE BudgetInv'
  BY <1>0, <1>5, ErrorBudget DEF SourceFails
<1>6. ASSUME NEW s \in sources, SourceEnds(s) PROVE BudgetInv'
  BY <1>1, <1>6 DEF SourceEnds, stateVars
<1>7. CASE RetryTimeout /\ (streamStopped \/ isStreamComplete)
  BY <1>1, <1>7 DEF RetryTimeout
<1>8. CASE RetryTimeout /\ ~(streamStopped \/ isStreamComplete)
  <2>1. /\ retryTimeout # None /\ retryTimeout' = None /\ opened' = opened + 1
        /\ UNCHANGED << lastKey, retryCount >>
        /\ sources' = sources \cup {[conn |-> opened + 1, own |-> retryTimeout]}
    BY <1>8 DEF RetryTimeout, startStream
  <2>2. /\ retryCount \in [Keys -> 0..MAX_STREAM_RETRIES] /\ \A x \in sources : x.own \in Keys
        /\ retryTimeout \in Keys /\ IsFiniteSet(Calls0) /\ opened \in Nat /\ lastKey \in Nat
    BY <2>1, WithinBudget DEF ShapeInv, ChatShape, CountInv, BudgetInv, Calls0, None
  <2>3. retryCount[retryTimeout] \in Nat /\ \A x \in sources : retryCount[x.own] \in Nat
    BY <2>2, BudgetConstants
  <2>4. PICK x : x = [conn |-> opened + 1, own |-> retryTimeout]
    OBVIOUS
  <2>5. x.own = retryTimeout /\ sources' = sources \cup {x}
    BY <2>1, <2>4
  <2>6. PICK T : T = CallSlots(sources \cup {x}, None, retryCount)
    OBVIOUS
  <2>7. /\ IsFiniteSet(T) /\ Cardinality(T) \in Nat /\ Cardinality(Calls0) \in Nat
        /\ Cardinality(T) + 1 <= Cardinality(Calls0)
    BY <2>1, <2>2, <2>3, <2>5, <2>6, TimerSlots DEF Calls0
  <2>8. T = Calls0'
    BY <2>1, <2>5, <2>6 DEF Calls0
  <2>9. /\ Cardinality(RunSlots(runs, "conn")) \in Nat
        /\ opened + Cardinality(RunSlots(runs, "conn")) + Cardinality(Calls0) <= sends * ConnBudget
        /\ sends * ConnBudget \in Nat
    BY WithinBudget, FS_CardinalityType DEF BudgetInv, Calls0
  <2>10. opened' + Cardinality(RunSlots(runs, "conn")) + Cardinality(T) <= sends * ConnBudget
    BY <2>1, <2>2, <2>7, <2>9
  <2> QED BY <1>0, <2>1, <2>7, <2>8, <2>10 DEF BudgetInv, Calls0
<1> QED BY <1>2, <1>3, <1>4, <1>5, <1>6, <1>7, <1>8 DEF ChatStep, ChatNext, SourceSettles

\* Nothing that is counted changes.
LEMMA StillBudget ==
    ASSUME BudgetInv, UNCHANGED << runs, sources, retryTimeout, retryCount, opened, lastKey, sends >>
    PROVE  BudgetInv'
BY DEF BudgetInv

\* A request pays for itself.
LEMMA RequestBudget ==
    ASSUME ShapeInv, BudgetInv, sends < MaxSends, sends' = sends + 1
    PROVE  /\ sends' * KeyBudget = sends * KeyBudget + KeyBudget
           /\ sends' * ConnBudget = sends * ConnBudget + ConnBudget
           /\ sends * KeyBudget + KeyBudget <= MaxMessages
           /\ sends * KeyBudget \in Nat /\ sends * ConnBudget \in Nat
           /\ KeyBudget = 3 * MAX_AGENT_STEPS + 2
           /\ ConnBudget = (MAX_AGENT_STEPS - 1) * (MAX_STREAM_RETRIES + 1) + MAX_STREAM_RETRIES + 1
           /\ (MAX_AGENT_STEPS - 1) * (MAX_STREAM_RETRIES + 1) \in Nat
<1>0. /\ sends \in Nat /\ MaxSends \in Nat /\ MAX_AGENT_STEPS \in Nat /\ MAX_STREAM_RETRIES \in Nat
      /\ MAX_AGENT_STEPS > 0
      /\ sends * KeyBudget \in Nat /\ sends * ConnBudget \in Nat
      /\ KeyBudget \in Nat /\ ConnBudget \in Nat
  BY WithinBudget, BudgetConstants
<1>1. /\ sends' * KeyBudget = sends * KeyBudget + KeyBudget
      /\ sends' * ConnBudget = sends * ConnBudget + ConnBudget
  BY <1>0, TimesStep
<1>2. PICK s2 \in Nat : s2 = sends' /\ s2 <= MaxSends
  BY <1>0
<1>3. s2 * KeyBudget <= MaxSends * KeyBudget
  BY <1>0, <1>2, TimesMore
<1>4. MaxSends * KeyBudget = MaxMessages
  BY DEF MaxMessages, KeyBudget
<1>5. PICK a \in Nat, b \in Nat : a = MAX_AGENT_STEPS - 1 /\ b = MAX_STREAM_RETRIES + 1
  <2>1. MAX_AGENT_STEPS - 1 \in Nat /\ MAX_STREAM_RETRIES + 1 \in Nat
    BY <1>0
  <2> QED BY <2>1
<1>6. a * b \in Nat /\ (a + 1) * b = a * b + b
  BY TimesNat, TimesStep
<1>7. ConnBudget = (a + 1) * b
  <2>1. a + 1 = MAX_AGENT_STEPS
    BY <1>0, <1>5
  <2> QED BY <1>5, <2>1 DEF ConnBudget
<1>8. ConnBudget = (MAX_AGENT_STEPS - 1) * (MAX_STREAM_RETRIES + 1) + MAX_STREAM_RETRIES + 1
  <2>1. ConnBudget = a * b + MAX_STREAM_RETRIES + 1
    BY <1>0, <1>5, <1>6, <1>7
  <2> QED BY <1>5, <2>1
<1>9. KeyBudget = 3 * MAX_AGENT_STEPS + 2
  BY <1>0 DEF KeyBudget
<1>10. (MAX_AGENT_STEPS - 1) * (MAX_STREAM_RETRIES + 1) \in Nat
  BY <1>5, <1>6
<1>11. sends * KeyBudget + KeyBudget <= MaxMessages
  BY <1>1, <1>2, <1>3, <1>4
<1> QED BY <1>0, <1>1, <1>8, <1>9, <1>10, <1>11

\* A request for a chat answer.
LEMMA ChatRequestBudget ==
    ASSUME ShapeInv, ShapeInv', BudgetInv, sends < MaxSends, sends' = sends + 1,
           NEW d \in 1..2, lastKey' = lastKey + d, NEW own, sendStreamRequest(own), UNCHANGED runs
    PROVE  BudgetInv'
<1>0. /\ lastKey \in Nat /\ opened \in Nat /\ OwnIds(runs)
      /\ IsFiniteSet(RunSlots(runs, "key")) /\ IsFiniteSet(RunSlots(runs, "conn"))
      /\ IsFiniteSet(Calls0)
      /\ MAX_STREAM_RETRIES \in Nat /\ MAX_AGENT_STEPS \in Nat /\ KeyBudget \in Nat /\ ConnBudget \in Nat
  BY BudgetConstants DEF ShapeInv, CountInv, BudgetInv, Calls0
<1>1. PICK a \in Nat, b \in Nat, c \in Nat :
         /\ a = Cardinality(RunSlots(runs, "key")) /\ b = Cardinality(RunSlots(runs, "conn"))
         /\ c = Cardinality(Calls0)
  BY <1>0, FS_CardinalityType
<1>2. /\ lastKey + a <= sends * KeyBudget /\ opened + b + c <= sends * ConnBudget
  BY <1>1 DEF BudgetInv, Calls0
<1>3. PICK x \in Nat, y \in Nat : x = sends * KeyBudget /\ y = sends * ConnBudget
  BY RequestBudget
<1>4. /\ sends' * KeyBudget = x + KeyBudget /\ sends' * ConnBudget = y + ConnBudget
      /\ x + KeyBudget <= MaxMessages
  BY <1>3, RequestBudget
<1>5. KeyBudget >= 2 /\ ConnBudget >= MAX_STREAM_RETRIES + 1
  <2>1. PICK p \in Nat : p = (MAX_AGENT_STEPS - 1) * (MAX_STREAM_RETRIES + 1)
    BY RequestBudget
  <2>2. KeyBudget = 3 * MAX_AGENT_STEPS + 2 /\ ConnBudget = p + MAX_STREAM_RETRIES + 1
    BY <2>1, RequestBudget
  <2> QED BY <1>0, <2>2
<1>6. PICK z : z = [conn |-> opened + 1, own |-> own]
  OBVIOUS
<1>7. /\ sources' = sources \cup {z} /\ opened' = opened + 1 /\ z.own = own
      /\ UNCHANGED << retryTimeout, retryCount >>
  BY <1>6 DEF sendStreamRequest, startStream
<1>8. own \in Keys
  <2>1. own \in 1..lastKey'
    <3>1. sources' \subseteq [conn : 1..opened', own : 1..lastKey']
      BY DEF ShapeInv, ChatShape
    <3>2. z \in sources'
      BY <1>7
    <3>3. z.own \in 1..lastKey'
      BY <3>1, <3>2
    <3> QED BY <1>7, <3>3
  <2>2. lastKey' \in Nat /\ lastKey' <= x + KeyBudget
    BY <1>0, <1>2, <1>3, <1>5
  <2>3. MaxMessages \in Nat
    BY StateAssumption DEF MaxMessages
  <2> QED BY <1>0, <1>4, <2>1, <2>2, <2>3 DEF Keys
<1>9. retryCount[z.own] \in 0..MAX_STREAM_RETRIES
  BY <1>7, <1>8 DEF ShapeInv, ChatShape
<1>10. PICK T : T = CallSlots(sources \cup {z}, retryTimeout, retryCount)
  OBVIOUS
<1>11. /\ IsFiniteSet(T) /\ Cardinality(T) \in Nat
       /\ Cardinality(T) <= c + MAX_STREAM_RETRIES
  BY <1>0, <1>1, <1>9, <1>10, SendSlots DEF Calls0
<1>12. T = Calls0'
  BY <1>7, <1>10 DEF Calls0
<1>13. lastKey' + a <= sends' * KeyBudget
  BY <1>0, <1>2, <1>3, <1>4, <1>5
<1>14. opened' + b + Cardinality(T) <= sends' * ConnBudget
  BY <1>0, <1>2, <1>3, <1>4, <1>5, <1>7, <1>11
<1> QED BY <1>0, <1>1, <1>11, <1>12, <1>13, <1>14 DEF BudgetInv, Calls0

\* A new run has its own slots.
LEMMA NewRunSlots ==
    ASSUME NEW rs, NEW kind, IsFiniteSet(RunSlots(rs, kind)), NEW n, NEW d \in Nat,
           Left(n, kind) = d, NEW rs2, rs2 \subseteq rs \cup {n}
    PROVE  /\ IsFiniteSet(RunSlots(rs2, kind)) /\ Cardinality(RunSlots(rs2, kind)) \in Nat
           /\ Cardinality(RunSlots(rs2, kind)) <= Cardinality(RunSlots(rs, kind)) + d
<1> DEFINE S == RunSlots(rs, kind)
           T == RunSlots(rs2, kind)
           B == Slots(n.id, 0, d)
<1>1. IsFiniteSet(B) /\ Cardinality(B) = d
  BY SlotsCounted
<1>2. T \subseteq S \cup B
  <2> SUFFICES ASSUME NEW q \in rs2, NEW i \in 1..Left(q, kind), q \notin rs
               PROVE  <<q.id, i>> \in B
    BY DEF RunSlots
  <2>1. q = n
    OBVIOUS
  <2>2. i \in (0 + 1)..(0 + d)
    BY <2>1
  <2> QED BY <2>1, <2>2 DEF Slots
<1>3. IsFiniteSet(S)
  OBVIOUS
<1> HIDE DEF S, T, B
<1>4. IsFiniteSet(T) /\ Cardinality(T) \in Nat /\ Cardinality(T) <= Cardinality(S) + d
  BY <1>1, <1>2, <1>3, SlotsMore
<1> QED BY <1>4 DEF S, T

\* A request to the agent.
LEMMA AgentRequestBudget ==
    ASSUME ShapeInv, BudgetInv, sends < MaxSends, sends' = sends + 1, lastKey' = lastKey + 2,
           NEW ms, runAgentConversation(lastKey + 2, ms), UNCHANGED chatVars
    PROVE  BudgetInv'
<1>0. /\ lastKey \in Nat /\ opened \in Nat /\ OwnIds(runs)
      /\ IsFiniteSet(RunSlots(runs, "key")) /\ IsFiniteSet(RunSlots(runs, "conn"))
      /\ IsFiniteSet(Calls0)
      /\ MAX_STREAM_RETRIES \in Nat /\ MAX_AGENT_STEPS \in Nat /\ MAX_AGENT_STEPS > 0
      /\ KeyBudget \in Nat /\ ConnBudget \in Nat
  BY BudgetConstants DEF ShapeInv, CountInv, BudgetInv, Calls0
<1>1. PICK a \in Nat, b \in Nat, c \in Nat :
         /\ a = Cardinality(RunSlots(runs, "key")) /\ b = Cardinality(RunSlots(runs, "conn"))
         /\ c = Cardinality(Calls0)
  BY <1>0, FS_CardinalityType
<1>2. /\ lastKey + a <= sends * KeyBudget /\ opened + b + c <= sends * ConnBudget
  BY <1>1 DEF BudgetInv, Calls0
<1>3. PICK x \in Nat, y \in Nat : x = sends * KeyBudget /\ y = sends * ConnBudget
  BY RequestBudget
<1>4. sends' * KeyBudget = x + KeyBudget /\ sends' * ConnBudget = y + ConnBudget
  BY <1>3, RequestBudget
<1>5. PICK n : n = [id |-> lastKey + 2, pc |-> "stream", working |-> ms,
                    step |-> 0, retry |-> 0, conn |-> opened + 1, calls |-> {},
                    results |-> {}, todo |-> {}, toolKey |-> None,
                    granted |-> FALSE]
  OBVIOUS
<1>6. PICK rs : rs = runs'
  OBVIOUS
<1>7. rs \subseteq runs \cup {n} /\ opened' = opened + 1
  BY <1>5, <1>6 DEF runAgentConversation
<1>8. n.id = lastKey + 2 /\ n.step = 0 /\ n.retry = 0 /\ n.pc = "stream"
  BY <1>5
<1>9. PICK p \in Nat : p = (MAX_AGENT_STEPS - 1) * (MAX_STREAM_RETRIES + 1)
  BY RequestBudget
<1>10. KeyBudget = 3 * MAX_AGENT_STEPS + 2 /\ ConnBudget = p + MAX_STREAM_RETRIES + 1
  BY <1>9, RequestBudget
<1>11. PICK e \in Nat, f \in Nat : /\ e = Left(n, "conn") /\ f = Left(n, "key")
                                   /\ e + 1 = ConnBudget /\ f + 2 = KeyBudget
  <2>1. ConnLeft(0, 0, "stream") = p + MAX_STREAM_RETRIES
    <3>1. MAX_AGENT_STEPS - 1 - 0 = MAX_AGENT_STEPS - 1 /\ MAX_STREAM_RETRIES - 0 = MAX_STREAM_RETRIES
      BY <1>0
    <3> QED BY <1>0, <1>9, <3>1 DEF ConnLeft
  <2>2. KeyLeft(0, "stream") = 3 * MAX_AGENT_STEPS
    BY <1>0 DEF KeyLeft
  <2>3. Left(n, "conn") = p + MAX_STREAM_RETRIES /\ Left(n, "key") = 3 * MAX_AGENT_STEPS
    BY <1>8, <2>1, <2>2 DEF Left
  <2>4. p + MAX_STREAM_RETRIES \in Nat /\ 3 * MAX_AGENT_STEPS \in Nat
    BY <1>0
  <2> QED BY <1>0, <1>10, <2>3, <2>4
<1>12. OwnIds(rs)
  <2>1. \A r \in runs : r.id \in 1..lastKey
    BY RunOfRuns, RunTypes
  <2>2. \A r \in runs : r.id # n.id
    BY <1>0, <1>8, <2>1
  <2> QED BY <1>0, <1>7, <2>2 DEF OwnIds
<1>13. /\ IsFiniteSet(RunSlots(rs, "key")) /\ Cardinality(RunSlots(rs, "key")) \in Nat
       /\ Cardinality(RunSlots(rs, "key")) <= a + f
  BY <1>0, <1>1, <1>7, <1>11, NewRunSlots
<1>14. /\ IsFiniteSet(RunSlots(rs, "conn")) /\ Cardinality(RunSlots(rs, "conn")) \in Nat
       /\ Cardinality(RunSlots(rs, "conn")) <= b + e
  BY <1>0, <1>1, <1>7, <1>11, NewRunSlots
<1>15. lastKey' + Cardinality(RunSlots(rs, "key")) <= sends' * KeyBudget
  BY <1>0, <1>2, <1>3, <1>4, <1>11, <1>13
<1>16. opened' + Cardinality(RunSlots(rs, "conn")) + c <= sends' * ConnBudget
  BY <1>0, <1>2, <1>3, <1>4, <1>7, <1>11, <1>14
<1>17. Calls0' = Calls0
  BY DEF Calls0, chatVars
<1> QED BY <1>0, <1>1, <1>6, <1>12, <1>13, <1>14, <1>15, <1>16, <1>17 DEF BudgetInv, Calls0

\* The steps of the user that change what is said.
LEMMA AsksBudget ==
    ASSUME ShapeInv, BudgetInv, Asks
    PROVE  BudgetInv'
<1>0. ShapeInv'
  BY AsksShape
<1>1. ASSUME sends < MaxSends, sends' = sends + 1, NEW d \in 1..2, lastKey' = lastKey + d,
             NEW ms, sendChat(ms)
      PROVE  BudgetInv'
  <2>1. PICK own : sendStreamRequest(own)
    BY <1>1 DEF sendChat
  <2>2. UNCHANGED runs
    BY <1>1 DEF sendChat, agentVars
  <2> QED BY <1>0, <1>1, <2>1, <2>2, ChatRequestBudget
<1>2. CASE Submit \/ \E i \in DOMAIN converting : Converted(i)
  <2>0. PICK before, mode : handleSendMessage(before, mode)
    BY <1>2 DEF Submit, Converted
  <2>1. PICK ms : /\ lastKey' = lastKey + 2 /\ sends < MaxSends /\ sends' = sends + 1
                  /\ \/ sendChat(ms)
                     \/ runAgentConversation(lastKey + 2, ms) /\ UNCHANGED chatVars
    BY <2>0 DEF handleSendMessage, CanSend
  <2>2. CASE sendChat(ms)
    <3>1. PICK d \in 1..2 : d = 2
      OBVIOUS
    <3>2. lastKey' = lastKey + d
      BY <2>1, <3>1
    <3> QED BY <1>1, <2>1, <2>2, <3>2
  <2> QED BY <2>1, <2>2, AgentRequestBudget
<1>3. ASSUME sends < MaxSends, sends' = sends + 1, lastKey' = lastKey + 1, NEW ms, sendChat(ms)
      PROVE  BudgetInv'
  <2>1. PICK d \in 1..2 : d = 1
    OBVIOUS
  <2>2. lastKey' = lastKey + d
    BY <1>3, <2>1
  <2> QED BY <1>1, <1>3, <2>2
<1>4. ASSUME NEW i, handleRegenerateMessage(i) PROVE BudgetInv'
  BY <1>3, <1>4 DEF handleRegenerateMessage, CanSend
<1>5. CASE UNCHANGED << opened, lastKey, chatVars, agentVars, sends >>
  BY <1>5, StillBudget DEF chatVars, agentVars
<1>6. ASSUME NEW i, handleDeleteMessage(i) PROVE BudgetInv'
  BY <1>5, <1>6 DEF handleDeleteMessage
<1>7. ASSUME NEW i, NEW submit \in BOOLEAN, applyEdit(i, submit) PROVE BudgetInv'
  BY <1>3, <1>5, <1>7 DEF applyEdit, CanSend
<1>8. CASE SidebarStep \/ AutoPair
  BY <1>5, <1>8 DEF SidebarStep, AutoPair
<1> QED BY <1>2, <1>4, <1>6, <1>7, <1>8 DEF Asks

\* Stop leaves the runs that wait for something else what they had.
LEMMA StopAgentBudget ==
    ASSUME ShapeInv, BudgetInv, stopAgentGeneration, UNCHANGED << chatVars, sends >>
    PROVE  BudgetInv'
<1>1. \A n \in runs' : \E r \in runs :
         n = [r EXCEPT !.pc = IF r.pc = "approval" THEN "denied" ELSE r.pc]
  BY DEF stopAgentGeneration
<1>2. ASSUME NEW r \in runs, NEW n,
             n = [r EXCEPT !.pc = IF r.pc = "approval" THEN "denied" ELSE r.pc]
      PROVE  n.id = r.id /\ Left(n, "conn") = Left(r, "conn") /\ Left(n, "key") = Left(r, "key")
  <2>1. PICK pc : /\ pc = (IF r.pc = "approval" THEN "denied" ELSE r.pc)
                  /\ n = [r EXCEPT !.pc = pc]
    BY <1>2
  <2>2. n.id = r.id /\ n.step = r.step /\ n.retry = r.retry /\ n.pc = pc
    BY <2>1, RunShaped DEF Shape, Fields
  <2>3. ConnLeft(r.step, r.retry, pc) = ConnLeft(r.step, r.retry, r.pc)
    BY <2>1 DEF ConnLeft
  <2>4. KeyLeft(r.step, pc) = KeyLeft(r.step, r.pc)
    BY <2>1 DEF KeyLeft
  <2> QED BY <2>2, <2>3, <2>4 DEF Left
<1>3. OwnIds(runs')
  <2> SUFFICES ASSUME NEW n1 \in runs', NEW n2 \in runs', n1.id = n2.id
               PROVE  n1 = n2
    BY DEF OwnIds
  <2>1. PICK r1 \in runs : n1 = [r1 EXCEPT !.pc = IF r1.pc = "approval" THEN "denied" ELSE r1.pc]
    BY <1>1
  <2>2. PICK r2 \in runs : n2 = [r2 EXCEPT !.pc = IF r2.pc = "approval" THEN "denied" ELSE r2.pc]
    BY <1>1
  <2>3. n1.id = r1.id
    BY <1>2, <2>1
  <2>4. n2.id = r2.id
    BY <1>2, <2>2
  <2>5. r1 = r2
    BY <2>3, <2>4 DEF BudgetInv, OwnIds
  <2> QED BY <2>1, <2>2, <2>5
<1>4. \A n \in runs' : \E r \in runs :
         n.id = r.id /\ Left(n, "conn") = Left(r, "conn") /\ Left(n, "key") = Left(r, "key")
  BY <1>1, <1>2
<1>5. /\ RunSlots(runs', "key") \subseteq RunSlots(runs, "key")
      /\ RunSlots(runs', "conn") \subseteq RunSlots(runs, "conn")
  BY <1>4 DEF RunSlots
<1>6. /\ UNCHANGED << opened, lastKey, sends, sources, retryTimeout, retryCount >>
  BY DEF stopAgentGeneration, chatVars
<1> QED BY <1>3, <1>5, <1>6, FewerCalls, QuietBudget

\* Stop.
LEMMA StopBudget ==
    ASSUME ShapeInv, BudgetInv, Stop
    PROVE  BudgetInv'
<1>0. UNCHANGED sends
  BY DEF Stop
<1>1. CASE stopGeneration /\ UNCHANGED agentVars
  <2>1. /\ sources' \subseteq sources /\ retryTimeout' = None
        /\ UNCHANGED << retryCount, opened, lastKey, runs >>
    BY <1>1 DEF stopGeneration, closeSource, agentVars
  <2> QED BY <1>0, <2>1, FewerCalls, SameRuns, QuietBudget
<1>2. CASE stopAgentGeneration /\ UNCHANGED chatVars
  BY <1>0, <1>2, StopAgentBudget
<1> QED BY <1>1, <1>2 DEF Stop

\* Nothing is open.
LEMMA NoSlots ==
    ASSUME NEW count
    PROVE  /\ OwnIds({}) /\ RunSlots({}, "key") = {} /\ RunSlots({}, "conn") = {}
           /\ CallSlots({}, None, count) = {}
BY DEF OwnIds, RunSlots, CallSlots

\* The page is opened again: nothing is left to be used.
LEMMA ReloadBudget ==
    ASSUME ShapeInv, BudgetInv, Reload
    PROVE  BudgetInv'
<1>0. /\ UNCHANGED << opened, lastKey, sends >> /\ runs' = {} /\ sources' = {}
      /\ retryTimeout' = None
  BY DEF Reload, LoadState
<1>1. Calls0' = {} /\ OwnIds(runs') /\ RunSlots(runs', "key") = {} /\ RunSlots(runs', "conn") = {}
  BY <1>0, NoSlots DEF Calls0
<1>2. IsFiniteSet(Calls0') /\ Cardinality(Calls0') = 0
  BY <1>1, FS_EmptySet
<1>3. Cardinality(Calls0) \in Nat
  BY FS_CardinalityType DEF BudgetInv, Calls0
<1>4. Cardinality(Calls0') \in Nat /\ Cardinality(Calls0') <= Cardinality(Calls0)
  BY <1>2, <1>3
<1> QED BY <1>0, <1>1, <1>2, <1>3, <1>4, QuietBudget

\* The page as it is opened for the first time.
LEMMA InitBudget ==
    ASSUME Init
    PROVE  BudgetInv
<1>1. /\ runs = {} /\ sources = {} /\ retryTimeout = None
      /\ opened = 0 /\ lastKey = 0 /\ sends = 0
  BY DEF Init, StateInit, ChatInit, AgentInit
<1>2. IsFiniteSet({}) /\ Cardinality({}) = 0
  BY FS_EmptySet
<1>3. 0 * KeyBudget = 0 /\ 0 * ConnBudget = 0
  BY BudgetConstants
<1>4. /\ OwnIds(runs) /\ RunSlots(runs, "key") = {} /\ RunSlots(runs, "conn") = {}
      /\ CallSlots(sources, retryTimeout, retryCount) = {}
  BY <1>1, NoSlots
<1>5. /\ lastKey + 0 <= sends * KeyBudget /\ opened + 0 + 0 <= sends * ConnBudget
  BY <1>1, <1>3
<1> QED BY <1>2, <1>4, <1>5 DEF BudgetInv

\* Every step of the page.
LEMMA StepBudget ==
    ASSUME ShapeInv, BudgetInv, [Next]_vars
    PROVE  BudgetInv'
<1>1. CASE ChatStep
  BY <1>1, ChatBudget
<1>2. CASE AgentStep \/ Approve
  <2>1. UNCHANGED << chatVars, userVars >>
    BY <1>2 DEF AgentStep, Approve
  <2> QED BY <1>2, <2>1, AgentPays, PaysBudget
<1>3. CASE Asks
  BY <1>3, AsksBudget
<1>4. CASE StartConversion \/ \E i \in DOMAIN Messages : handleEditMessage(i)
  BY <1>4, StillBudget DEF StartConversion, handleEditMessage, stateVars, chatVars, agentVars
<1>5. CASE Stop
  BY <1>5, StopBudget
<1>6. CASE Reload
  BY <1>6, ReloadBudget
<1>7. CASE UNCHANGED vars
  BY <1>7, StillBudget DEF vars, stateVars, chatVars, agentVars, userVars
<1> QED BY <1>1, <1>2, <1>3, <1>4, <1>5, <1>6, <1>7, UserSteps DEF Next

\* A request uses at most 2 + 3 * MAX_AGENT_STEPS message keys and opens at most
\* MAX_AGENT_STEPS * (MAX_STREAM_RETRIES + 1) connections, whatever is stopped,
\* reconnected, approved or interfered with in between (handleError and its retry
\* counter, the loops of runAgentConversation and streamAgentStep).
THEOREM BudgetKept == Spec => [](ShapeInv /\ BudgetInv)
BY InitShape, StepShape, InitBudget, StepBudget, PTL DEF Spec

-----------------------------------------------------------------------------
(* All variables keep their types                                          *)

\* What the types bound holds all that the first keys and connections make.
LEMMA Bounded ==
    /\ MessageOf(MaxMessages, MaxConnections) \subseteq Message
    /\ RunOf(MaxMessages, MaxConnections) \subseteq Run
    /\ Keys = 1..MaxMessages /\ Connections = 1..MaxConnections
    /\ MaxMessages \in Nat /\ MaxConnections \in Nat
<1>1. MaxMessages \in Nat /\ MaxConnections \in Nat
  <2>1. PICK p \in Nat : p = MaxSends * MAX_AGENT_STEPS
    BY BudgetConstants, TimesNat
  <2>2. PICK q \in Nat : q = MAX_STREAM_RETRIES + 1
    BY BudgetConstants
  <2>3. p * q \in Nat
    BY TimesNat
  <2>4. MaxConnections \in Nat
    BY <2>1, <2>2, <2>3 DEF MaxConnections
  <2>5. PICK k \in Nat : k = 2 + 3 * MAX_AGENT_STEPS
    BY BudgetConstants
  <2>6. MaxSends * k \in Nat
    BY BudgetConstants, TimesNat
  <2>7. MaxMessages \in Nat
    BY <2>5, <2>6 DEF MaxMessages
  <2> QED BY <2>4, <2>7
<1>2. MessageOf(MaxMessages, MaxConnections) \subseteq Message
  BY DEF MessageOf, Message, Keys, Connections, Calls
<1>3. Seq(MessageOf(MaxMessages, MaxConnections)) \subseteq Seq(Message)
  BY <1>2, SeqMonotonic
<1>4. 0..MaxMessages \subseteq Keys \cup {None}
  BY <1>1 DEF Keys, None
<1>5. RunOf(MaxMessages, MaxConnections) \subseteq Run
  BY <1>3, <1>4 DEF RunOf, Run, Keys, Connections, Calls
<1> QED BY <1>1, <1>2, <1>5 DEF Keys, Connections

\* Conversations made of bounded keys and connections.
LEMMA ShelfBounded ==
    ASSUME NEW k \in 0..MaxMessages, NEW n \in 0..MaxConnections, NEW cs, Shelf(cs, k, n)
    PROVE  cs \in Seq(Conversation)
<1>1. PICK mk \in Nat, mn \in Nat : mk = MaxMessages /\ mn = MaxConnections
  BY Bounded
<1>2. k \in Nat /\ n \in Nat /\ k <= mk /\ n <= mn
  BY <1>1
<1>3. Shelf(cs, mk, mn)
  BY <1>2, ShelfGrows
<1>4. Seq(MessageOf(mk, mn)) \subseteq Seq(Message)
  BY <1>1, Bounded, SeqMonotonic
<1>5. ConversationOf(mk, mn) \subseteq Conversation
  BY <1>4 DEF ConversationOf, Conversation
<1> QED BY <1>3, <1>5, SeqMonotonic DEF Shelf

\* All variables stay within their types; in particular no key and no connection beyond
\* MaxMessages and MaxConnections is ever given out, though no action of the model is
\* guarded by them.
THEOREM TypeCorrect == Spec => []TypeOK
<1>1. ASSUME ShapeInv, BudgetInv PROVE TypeOK
  <2>0. PageInv /\ StoredInv /\ CountInv /\ ChatShape /\ AgentShape /\ UserShape
    BY <1>1 DEF ShapeInv
  <2>1. /\ lastKey \in 0..MaxMessages /\ opened \in 0..MaxConnections
        /\ lastKey \in Nat /\ opened \in Nat
    BY <1>1, <2>0, WithinBudget DEF CountInv
  <2>2. PICK k \in 0..MaxMessages, n \in 0..MaxConnections : k = lastKey /\ n = opened
    BY <2>1
  <2>3. /\ 1..k \subseteq Keys /\ 0..k \subseteq Keys \cup {None}
        /\ 1..n \subseteq Connections /\ 0..n \subseteq Connections \cup {None}
    BY Bounded DEF None
  <2>4. StateTypeOK
    <3>1. conversations \in Seq(Conversation) /\ activeIds \in Remembered /\ active \in Ids(conversations)
      BY <2>0, <2>2, ShelfBounded DEF PageInv, PageShape, Remembers
    <3>2. active \in ConversationIds
      <4>1. PICK i \in DOMAIN conversations : active = conversations[i].id
        BY <3>1 DEF Ids
      <4>2. conversations[i] \in Conversation
        BY <3>1
      <4> QED BY <4>1, <4>2 DEF Conversation
    <3>3. /\ stored.conversations \in Seq(Conversation)
          /\ stored.active \in ConversationIds \cup {None} /\ stored.activeIds \in Remembered
          /\ stored = [conversations |-> stored.conversations, active |-> stored.active,
                       activeIds |-> stored.activeIds]
      BY <2>0, <2>2, ShelfBounded DEF StoredInv, StoredShape
    <3>4. PICK Cs, Rs : Cs = Seq(Conversation) /\ Rs = Remembered
      OBVIOUS
    <3>5. stored \in [conversations : Cs, active : ConversationIds \cup {None}, activeIds : Rs]
      BY <3>3, <3>4
    <3> QED BY <2>0, <2>1, <3>1, <3>2, <3>4, <3>5 DEF StateTypeOK, CountInv, Remembered
  <2>5. ChatTypeOK
    <3>1. sources \subseteq Source
      BY <2>0, <2>2, <2>3 DEF ChatShape, Source
    <3> QED BY <2>0, <2>2, <2>3, <3>1 DEF ChatShape, ChatTypeOK
  <2>6. AgentTypeOK
    <3>1. runs \subseteq Run
      <4>1. PICK mk \in Nat, mn \in Nat : mk = MaxMessages /\ mn = MaxConnections
        BY Bounded
      <4>2. k \in Nat /\ n \in Nat /\ k <= mk /\ n <= mn
        BY <2>2, <4>1
      <4>3. RunOf(k, n) \subseteq RunOf(mk, mn)
        BY <4>2, RunGrows
      <4> QED BY <2>0, <2>2, <4>1, <4>3, Bounded DEF AgentShape
    <3>2. control \in [source : Connections \cup {None}, retryTimer : Keys \cup {None},
                       stopped : BOOLEAN]
      BY <2>0, <2>2, <2>3 DEF AgentShape
    <3> QED BY <2>0, <3>1, <3>2 DEF AgentTypeOK, AgentShape
  <2>7. editingMessageKey \in Keys \cup {None}
    BY <2>0, <2>2, <2>3 DEF UserShape
  <2>8. converting \in Seq([messages : Seq(Message), mode : Modes]) /\ Len(converting) <= MaxConversions
    <3>1. PICK mk \in Nat, mn \in Nat : mk = MaxMessages /\ mn = MaxConnections
      BY Bounded
    <3>2. k \in Nat /\ n \in Nat /\ k <= mk /\ n <= mn
      BY <2>2, <3>1
    <3>3. MessageOf(k, n) \subseteq Message
      BY <3>1, <3>2, MessageGrows, Bounded
    <3>4. Seq(MessageOf(k, n)) \subseteq Seq(Message)
      BY <3>3, SeqMonotonic
    <3>5. FormOf(k, n) \subseteq [messages : Seq(Message), mode : Modes]
      BY <3>4 DEF FormOf
    <3>6. Seq(FormOf(k, n)) \subseteq Seq([messages : Seq(Message), mode : Modes])
      BY <3>5, SeqMonotonic
    <3> QED BY <1>1, <2>2, <3>6 DEF ShapeInv, FormShape
  <2> QED BY <2>0, <2>4, <2>5, <2>6, <2>7, <2>8 DEF TypeOK, UserShape
<1> QED BY <1>1, BudgetKept, PTL

-----------------------------------------------------------------------------
(* Calls and results of a payload are paired                               *)

\* Two answers of one conversation have no call in common.
NoShared(ms) ==
    \A i, j \in DOMAIN ms :
        i # j /\ ms[i].from # "tool" /\ ms[j].from # "tool" =>
            \A c \in ms[i].calls : c \notin ms[j].calls

\* No answer has a call of the connection conn.
Unused(ms, conn) ==
    \A i \in DOMAIN ms : ms[i].from # "tool" => \A c \in ms[i].calls : c[1] # conn

\* The calls the connection of a run may still bring are new to its messages.
RunCalls(r) == NoShared(r.working) /\ (r.pc = "stream" => Unused(r.working, r.conn))

PageCalls ==
    /\ \A i \in DOMAIN conversations : NoShared(conversations[i].messages)
    /\ \A i \in DOMAIN stored.conversations : NoShared(stored.conversations[i].messages)

CallsInv == PageCalls /\ \A r \in runs : RunCalls(r)

FormCalls == \A i \in DOMAIN converting : NoShared(converting[i].messages)

\* The message with the first output of a call after it.
LEMMA FirstUse ==
    ASSUME NEW ms, NEW len \in Nat, NEW i \in 1..len, NEW c,
           NEW m \in (i + 1)..len, c \in ms[m].calls
    PROVE  \E f \in (i + 1)..len : /\ c \in ms[f].calls
                                   /\ \A g \in (i + 1)..(f - 1) : c \notin ms[g].calls
<1> DEFINE S == {g \in Nat : g \in (i + 1)..len /\ c \in ms[g].calls}
<1>1. S \subseteq Nat /\ m \in S
  OBVIOUS
<1>2. PICK f \in S : \A g \in S : f <= g
  BY <1>1, NatMinimum
<1>3. f \in (i + 1)..len /\ c \in ms[f].calls
  OBVIOUS
<1>4. \A g \in (i + 1)..(f - 1) : c \notin ms[g].calls
  BY <1>2, <1>3
<1> QED BY <1>3, <1>4

\* What is sent for messages that share no call is paired: an output that is kept
\* settles its call, and a call is settled by its first output.
LEMMA PairedLemma ==
    ASSUME NEW S, NEW ms \in Seq(S), NoShared(ms)
    PROVE  assertResponsesToolCallPairs(ms, sanitizeResponsesInputItems(ms))
<1> DEFINE input == sanitizeResponsesInputItems(ms)
<1>0. PICK len \in Nat : len = Len(ms) /\ DOMAIN ms = 1..len
  OBVIOUS
<1>1. ASSUME NEW item \in input
      PROVE  \E other \in input :
                /\ other[2] = item[2]
                /\ IF ms[item[1]].from = "tool"
                   THEN ms[other[1]].from # "tool" /\ other[1] < item[1]
                   ELSE ms[other[1]].from = "tool"
  <2>1. PICK j \in 1..len, c \in {item[2]} : c \in ms[j].calls /\ item = << j, c >>
    BY <1>0 DEF sanitizeResponsesInputItems, messagesToResponsesInput
  <2>2. \A i \in 1..len : \A d \in ms[i].calls : << i, d >> \in messagesToResponsesInput(ms)
    BY <1>0 DEF messagesToResponsesInput
  <2>3. item[1] = j /\ item[2] = c
    BY <2>1
  <2>4. CASE ms[j].from = "tool"
    <3>1. OutputKept(ms, item)
      BY <2>3, <2>4 DEF sanitizeResponsesInputItems
    <3>2. PICK i \in 1..(j - 1) : c \in ms[i].calls /\ Pending(ms, << i, c >>, j - 1)
      BY <3>1, <2>3 DEF OutputKept
    <3>3. i \in 1..len /\ i < j /\ ms[i].from # "tool"
      BY <3>2 DEF Pending
    <3>4. ~Pending(ms, << i, c >>, len)
      <4>1. j \in (i + 1)..len
        BY <3>3
      <4> QED BY <4>1, <2>1 DEF Pending
    <3>5. PICK other \in (1..len) \X {c} : other[1] = i /\ other[2] = c /\ other = << i, c >>
      <4>1. << i, c >> \in (1..len) \X {c}
        BY <3>3
      <4>2. << i, c >>[1] = i /\ << i, c >>[2] = c
        OBVIOUS
      <4> QED BY <4>1, <4>2
    <3>6. other \in input
      BY <1>0, <2>2, <3>2, <3>3, <3>4, <3>5 DEF sanitizeResponsesInputItems
    <3> QED BY <2>3, <2>4, <3>3, <3>5, <3>6
  <2>5. CASE ms[j].from # "tool"
    <3>1. ~Pending(ms, << j, c >>, len)
      BY <1>0, <2>1, <2>3, <2>5 DEF sanitizeResponsesInputItems
    <3>2. PICK m \in (j + 1)..len : c \in ms[m].calls
      BY <3>1, <2>5 DEF Pending
    <3>3. PICK f \in (j + 1)..len : /\ c \in ms[f].calls
                                    /\ \A g \in (j + 1)..(f - 1) : c \notin ms[g].calls
      BY <3>2, FirstUse
    <3>4. f \in 1..len /\ j < f /\ j \in 1..(f - 1)
      OBVIOUS
    <3>5. ms[f].from = "tool"
      BY <1>0, <2>1, <2>5, <3>3, <3>4 DEF NoShared
    <3>6. Pending(ms, << j, c >>, f - 1)
      BY <2>5, <3>3 DEF Pending
    <3>7. PICK other \in (1..len) \X {c} : other[1] = f /\ other[2] = c /\ other = << f, c >>
      <4>1. << f, c >> \in (1..len) \X {c}
        BY <3>4
      <4>2. << f, c >>[1] = f /\ << f, c >>[2] = c
        OBVIOUS
      <4> QED BY <4>1, <4>2
    <3>8. OutputKept(ms, other)
      BY <2>1, <3>4, <3>6, <3>7 DEF OutputKept
    <3>9. other \in input
      BY <2>2, <3>3, <3>4, <3>5, <3>7, <3>8 DEF sanitizeResponsesInputItems
    <3> QED BY <2>3, <2>5, <3>5, <3>7, <3>9
  <2> QED BY <2>4, <2>5
<1> QED BY <1>1 DEF assertResponsesToolCallPairs

\* The same messages as far as their calls go.
SameCalls(ms, new) ==
    /\ DOMAIN new = DOMAIN ms
    /\ \A j \in DOMAIN ms : new[j].from = ms[j].from /\ new[j].calls = ms[j].calls

\* A message that brings no call of an answer.
Callless(msg) == msg.from = "tool" \/ msg.calls = {}

\* Both properties are about from and calls only.
LEMMA SameCallsKeep ==
    ASSUME NEW ms, NEW new, SameCalls(ms, new)
    PROVE  /\ NoShared(ms) => NoShared(new)
           /\ \A conn : Unused(ms, conn) => Unused(new, conn)
BY DEF SameCalls, NoShared, Unused

\* A record keeps the parts that an update does not name.
LEMMA PartsKept ==
    ASSUME NEW msg, NEW x, "from" \in DOMAIN msg, "calls" \in DOMAIN msg,
           NEW field \in {"content", "status", "reconnecting", "pending"}
    PROVE  /\ [msg EXCEPT ![field] = x].from = msg.from
           /\ [msg EXCEPT ![field] = x].calls = msg.calls
           /\ DOMAIN [msg EXCEPT ![field] = x] = DOMAIN msg
OBVIOUS

LEMMA MessageDomain ==
    ASSUME NEW k, NEW n, NEW msg \in MessageOf(k, n)
    PROVE  "from" \in DOMAIN msg /\ "calls" \in DOMAIN msg
BY DEF MessageOf

\* Text, status and the notice of a reconnection are no calls.
LEMMA ChangedCalls ==
    ASSUME NEW msg, "from" \in DOMAIN msg, "calls" \in DOMAIN msg,
           NEW content, NEW status, NEW reconnecting, NEW new,
           new = Changed(msg, content, status, reconnecting)
    PROVE  new.from = msg.from /\ new.calls = msg.calls
<1> DEFINE a == [msg EXCEPT !.content = content]
           b == [a EXCEPT !.status = status]
           c == [b EXCEPT !.reconnecting = reconnecting]
<1>1. new = c
  BY DEF Changed
<1>2. a.from = msg.from /\ a.calls = msg.calls /\ DOMAIN a = DOMAIN msg
  BY PartsKept
<1> HIDE DEF a
<1>3. b.from = a.from /\ b.calls = a.calls /\ DOMAIN b = DOMAIN a
  BY <1>2, PartsKept
<1> HIDE DEF b
<1>4. c.from = b.from /\ c.calls = b.calls
  BY <1>2, <1>3, PartsKept
<1> QED BY <1>1, <1>2, <1>3, <1>4

LEMMA StatusCalls ==
    ASSUME NEW msg, "from" \in DOMAIN msg, "calls" \in DOMAIN msg, NEW status, NEW new,
           new = [msg EXCEPT !.status = status]
    PROVE  new.from = msg.from /\ new.calls = msg.calls
BY PartsKept

\* No callback of the chat, and neither Stop, touches calls.
LEMMA CallbackCalls ==
    ASSUME NEW k, NEW n, NEW msg \in MessageOf(k, n), NEW new,
           \/ \E kind, conn : new = handleStreamUpdate(msg, kind, conn)
           \/ new = handleStreamComplete(msg) \/ new = handleStreamError(msg)
           \/ new = handleStreamReconnect(msg) \/ new = finalizeStopped(msg)
           \/ new = Cut(msg)
    PROVE  new.from = msg.from /\ new.calls = msg.calls
<1>0. "from" \in DOMAIN msg /\ "calls" \in DOMAIN msg
  BY MessageDomain
<1>1. \/ new = msg
      \/ new = [msg EXCEPT !.status = "complete"]
      \/ \E content, status, reconnecting : new = Changed(msg, content, status, reconnecting)
  <2>1. CASE \E kind, conn : new = handleStreamUpdate(msg, kind, conn)
    <3>1. PICK kind, conn : new = handleStreamUpdate(msg, kind, conn)
      BY <2>1
    <3> DEFINE content == (IF msg.reconnecting THEN {} ELSE msg.content)
                          \cup (IF kind = "content" THEN {conn} ELSE {})
    <3>2. new = IF msg.status = "error" THEN msg
                ELSE Changed(msg, content, "streaming", FALSE)
      BY <3>1 DEF handleStreamUpdate, Changed
    <3> HIDE DEF content
    <3> QED BY <3>2, Zenon
  <2>2. CASE new = handleStreamComplete(msg)
    BY <2>2 DEF handleStreamComplete
  <2>3. CASE new = handleStreamError(msg)
    BY <2>3, Zenon DEF handleStreamError, Changed
  <2>4. CASE new = handleStreamReconnect(msg)
    BY <2>4, Zenon DEF handleStreamReconnect, Changed
  <2>5. CASE new = finalizeStopped(msg)
    BY <2>5 DEF finalizeStopped
  <2>6. CASE new = Cut(msg)
    BY <2>6, Zenon DEF Cut
  <2> QED BY <2>1, <2>2, <2>3, <2>4, <2>5, <2>6
<1>2. CASE new = [msg EXCEPT !.status = "complete"]
  BY <1>0, <1>2, StatusCalls
<1>3. CASE \E content, status, reconnecting : new = Changed(msg, content, status, reconnecting)
  BY <1>0, <1>3, ChangedCalls
<1> QED BY <1>1, <1>2, <1>3

\* A message in the place of another one with the same calls.
LEMMA ReplacedCalls ==
    ASSUME NEW S, NEW ms \in Seq(S), NEW i \in DOMAIN ms, NEW msg,
           msg.from = ms[i].from, msg.calls = ms[i].calls, NEW new, new = [ms EXCEPT ![i] = msg]
    PROVE  SameCalls(ms, new)
BY DEF SameCalls

\* The last message is updated, its calls are not.
LEMMA LastCalls ==
    ASSUME NEW k, NEW n, NEW ms \in Seq(MessageOf(k, n)), NEW msg,
           ms # << >> => msg.from = Last(ms).from /\ msg.calls = Last(ms).calls
    PROVE  SameCalls(ms, updateLastAssistantMessage(ms, msg))
<1>1. CASE ms # << >> /\ Last(ms).from = "assistant"
  <2>1. Len(ms) \in DOMAIN ms /\ Last(ms) = ms[Len(ms)]
    BY <1>1, LastOfTyped DEF Last
  <2>2. updateLastAssistantMessage(ms, msg) = [ms EXCEPT ![Len(ms)] = msg]
    BY <1>1 DEF updateLastAssistantMessage
  <2> QED BY <1>1, <2>1, <2>2, ReplacedCalls
<1>2. CASE ~(ms # << >> /\ Last(ms).from = "assistant")
  BY <1>2 DEF updateLastAssistantMessage, SameCalls
<1> QED BY <1>1, <1>2

\* The text of a run's answer is updated, its calls are not.
LEMMA TextCalls ==
    ASSUME NEW k, NEW n, NEW ms \in Seq(MessageOf(k, n)), ms # << >>, NEW content, NEW status,
           NEW reconnecting, NEW new, new = LastContent(ms, content, status, reconnecting)
    PROVE  SameCalls(ms, new)
<1>1. Len(ms) \in DOMAIN ms /\ ms[Len(ms)] \in MessageOf(k, n)
  BY LastOfTyped DEF Last
<1>2. PICK old : old = ms[Len(ms)]
  OBVIOUS
<1>3. PICK msg : msg = Changed(old, content, status, reconnecting)
  OBVIOUS
<1>4. new = [ms EXCEPT ![Len(ms)] = msg]
  BY <1>2, <1>3 DEF LastContent, Changed
<1>5. "from" \in DOMAIN old /\ "calls" \in DOMAIN old
  BY <1>1, <1>2, MessageDomain
<1>6. msg.from = old.from /\ msg.calls = old.calls
  BY <1>3, <1>5, ChangedCalls
<1> QED BY <1>1, <1>2, <1>4, <1>6, ReplacedCalls

\* Nor does an edit by the user ...
LEMMA EditedCalls ==
    ASSUME NEW k, NEW n, NEW ms \in Seq(MessageOf(k, n)), NEW i \in DOMAIN ms, NEW new,
           new = Edited(ms, i)
    PROVE  SameCalls(ms, new)
<1>1. PICK old : old = ms[i]
  OBVIOUS
<1>2. PICK msg : msg = [old EXCEPT !.content = {PageText}]
  OBVIOUS
<1>3. new = [ms EXCEPT ![i] = msg]
  BY <1>1, <1>2 DEF Edited
<1>4. "from" \in DOMAIN old /\ "calls" \in DOMAIN old
  BY <1>1, MessageDomain
<1>5. msg.from = old.from /\ msg.calls = old.calls
  BY <1>2, <1>4, PartsKept
<1> QED BY <1>1, <1>3, <1>5, ReplacedCalls

\* ... or opening the page again change a call.
LEMMA SanitizedCalls ==
    ASSUME NEW k, NEW n, NEW ms \in Seq(MessageOf(k, n))
    PROVE  SameCalls(ms, sanitizeMessagesOnLoad(ms))
<1>1. ASSUME NEW msg \in MessageOf(k, n)
      PROVE  Sanitized(msg).from = msg.from /\ Sanitized(msg).calls = msg.calls
  <2>0. "from" \in DOMAIN msg /\ "calls" \in DOMAIN msg
    BY MessageDomain
  <2>1. CASE msg.content # {} \/ msg.status = "streaming"
    BY <2>0, <2>1, StatusCalls DEF Sanitized
  <2>2. CASE ~(msg.content # {} \/ msg.status = "streaming")
    <3> DEFINE a == [msg EXCEPT !.content = {PageText}]
    <3>1. a.from = msg.from /\ a.calls = msg.calls /\ DOMAIN a = DOMAIN msg
      BY <2>0, PartsKept
    <3>2. Sanitized(msg) = [a EXCEPT !.status = "error"]
      BY <2>2 DEF Sanitized
    <3> HIDE DEF a
    <3> QED BY <2>0, <3>1, <3>2, StatusCalls
  <2> QED BY <2>1, <2>2
<1>2. \A i \in DOMAIN ms : ms[i] \in MessageOf(k, n)
  OBVIOUS
<1>3. DOMAIN sanitizeMessagesOnLoad(ms) = DOMAIN ms
  BY DEF sanitizeMessagesOnLoad
<1>4. \A i \in DOMAIN ms : sanitizeMessagesOnLoad(ms)[i] \in {ms[i], Sanitized(ms[i])}
  BY DEF sanitizeMessagesOnLoad
<1> QED BY <1>1, <1>2, <1>3, <1>4 DEF SameCalls

\* One message more that is no answer with calls.
LEMMA AppendCalls ==
    ASSUME NEW S, NEW w \in Seq(S), NEW msg, Callless(msg), NEW ms, ms = Append(w, msg)
    PROVE  NoShared(w) => NoShared(ms)
<1>1. PICK len \in Nat : len = Len(w) /\ DOMAIN w = 1..len
  OBVIOUS
<1>2. DOMAIN ms = 1..(len + 1) /\ ms[len + 1] = msg /\ \A j \in 1..len : ms[j] = w[j]
  BY <1>1
<1>3. \A j \in 1..(len + 1) : j \in 1..len \/ j = len + 1
  OBVIOUS
<1> QED BY <1>1, <1>2, <1>3 DEF NoShared, Callless

\* Two messages more.
LEMMA TwoCalls ==
    ASSUME NEW S, NEW w \in Seq(S), NEW card \in S, NEW loading \in S, Callless(card),
           Callless(loading), NEW ms, ms = Two(w, card, loading)
    PROVE  NoShared(w) => NoShared(ms)
<1>1. PICK len \in Nat : len = Len(w) /\ DOMAIN w = 1..len
  OBVIOUS
<1>2. /\ Len(ms) = len + 2 /\ ms \in Seq(S) /\ ms[len + 1] = card /\ ms[len + 2] = loading
      /\ \A j \in 1..len : ms[j] = w[j]
  <2>1. Len(ms) = Len(w) + 2 /\ ms \in Seq(S)
    BY NextMessages
  <2>2. ms = w \o << card, loading >>
    BY DEF Two
  <2>3. ms[Len(w) + 1] = card /\ ms[Len(w) + 2] = loading
    BY <1>1, <2>2
  <2>4. \A j \in 1..Len(w) : ms[j] = w[j]
    BY <1>1, <2>2
  <2> QED BY <1>1, <2>1, <2>3, <2>4
<1>3. DOMAIN ms = 1..(len + 2)
  BY <1>2
<1>4. \A j \in 1..(len + 2) : j \in 1..len \/ j = len + 1 \/ j = len + 2
  OBVIOUS
<1> QED BY <1>1, <1>2, <1>3, <1>4 DEF NoShared, Callless

\* The messages the page makes itself bring no call of an answer.
LEMMA Calllesses ==
    ASSUME NEW key
    PROVE  /\ Callless(createUserMessage(key)) /\ Callless(createLoadingAssistantMessage(key))
           /\ \A calls, pending : Callless(toolMessage(key, calls, pending))
BY DEF Callless, createUserMessage, createLoadingAssistantMessage, toolMessage

\* Fewer messages share no more calls.
LEMMA RemovedCalls ==
    ASSUME NEW S, NEW ms \in Seq(S), NEW c \in DOMAIN ms, NEW new, new = RemoveAt(ms, c)
    PROVE  NoShared(ms) => NoShared(new)
<1> DEFINE at(i) == IF i < c THEN i ELSE i + 1
<1>1. \A i \in DOMAIN new : i \in Nat /\ at(i) \in DOMAIN ms /\ new[i] = ms[at(i)]
  <2> DEFINE t == RemoveAt(ms, c)
  <2>1. /\ t \in Seq(S) /\ Len(t) = Len(ms) - 1
        /\ \A i \in DOMAIN t : t[i] = ms[IF i < c THEN i ELSE i + 1]
    BY RemoveLemma
  <2>2. \A i \in DOMAIN new : i \in Nat
    BY RemoveLemma
  <2>3. \A i \in DOMAIN new : (IF i < c THEN i ELSE i + 1) \in DOMAIN ms
    BY RemoveLemma
  <2> QED BY <2>1, <2>2, <2>3
<1>2. \A i, j \in DOMAIN new : i # j => at(i) # at(j)
  BY <1>1
<1> HIDE DEF at
<1> QED BY <1>1, <1>2 DEF NoShared

LEMMA BeginningCalls ==
    ASSUME NEW S, NEW ms \in Seq(S), NEW m \in 0..Len(ms), NEW w, w = SubSeq(ms, 1, m)
    PROVE  NoShared(ms) => NoShared(w)
<1>1. w \in Seq(S) /\ Len(w) = m /\ \A j \in 1..m : w[j] = ms[j]
  BY BeginningLemma
<1>2. DOMAIN w = 1..m /\ \A j \in 1..m : j \in DOMAIN ms
  BY <1>1
<1> QED BY <1>1, <1>2 DEF NoShared

\* A connection yet to be opened has brought no call.
LEMMA NewConnection ==
    ASSUME NEW k, NEW n \in Nat, NEW ms \in Seq(MessageOf(k, n)), NEW conn, conn = n + 1
    PROVE  Unused(ms, conn)
<1>1. \A i \in DOMAIN ms : ms[i] \in MessageOf(k, n)
  OBVIOUS
<1>2. \A i \in DOMAIN ms : ms[i].calls \subseteq (1..n) \X Tools
  BY <1>1, MessageTypes
<1>3. \A c \in (1..n) \X Tools : c[1] # conn
  OBVIOUS
<1> QED BY <1>2, <1>3 DEF Unused

\* The calls of a complete answer are new.
LEMMA FinalCalls ==
    ASSUME NEW k, NEW n, NEW ms \in Seq(MessageOf(k, n)), ms # << >>, NEW content, NEW conn,
           NEW tools, Unused(ms, conn), NoShared(ms),
           NEW new, new = FinalOf(ms, content, {conn} \X tools)
    PROVE  NoShared(new)
<1>1. PICK calls : calls = {conn} \X tools
  OBVIOUS
<1>2. \A c \in calls : c[1] = conn
  BY <1>1
<1>3. PICK len : len = Len(ms) /\ len \in DOMAIN ms
  BY LastOfTyped
<1>4. PICK old : old = ms[len]
  OBVIOUS
<1>5. PICK msg : msg = Final(old, content, calls)
  OBVIOUS
<1>6. new = [ms EXCEPT ![len] = msg]
  BY <1>1, <1>3, <1>4, <1>5 DEF FinalOf, Final
<1>7. msg.from = old.from /\ msg.calls = calls
  <2> DEFINE a == [old EXCEPT !.content = content]
             b == [a EXCEPT !.status = "complete"]
  <2>1. "from" \in DOMAIN old /\ "calls" \in DOMAIN old
    BY <1>3, <1>4, MessageDomain
  <2>2. a.from = old.from /\ DOMAIN a = DOMAIN old
    BY <2>1, PartsKept
  <2>3. msg = [b EXCEPT !.calls = calls]
    BY <1>5 DEF Final
  <2> HIDE DEF a
  <2>4. b.from = a.from /\ DOMAIN b = DOMAIN a
    BY <2>1, <2>2, PartsKept
  <2> HIDE DEF b
  <2> QED BY <2>1, <2>2, <2>3, <2>4
<1>8. DOMAIN new = DOMAIN ms /\ new[len] = msg /\ \A j \in DOMAIN ms : j # len => new[j] = ms[j]
  BY <1>3, <1>6
<1>9. \A j \in DOMAIN ms : ms[j].from # "tool" => \A c \in ms[j].calls : c \notin calls
  BY <1>2 DEF Unused
<1>10. \A j \in DOMAIN new : new[j].from = ms[j].from
  BY <1>4, <1>7, <1>8
<1>11. ASSUME NEW i \in DOMAIN new, NEW j \in DOMAIN new, i # j, new[i].from # "tool",
              new[j].from # "tool", NEW c \in new[i].calls
       PROVE  c \notin new[j].calls
  <2>1. ms[i].from # "tool" /\ ms[j].from # "tool" /\ i \in DOMAIN ms /\ j \in DOMAIN ms
    BY <1>8, <1>10, <1>11
  <2>2. CASE i = len
    <3>1. new[j] = ms[j] /\ c \in calls
      BY <1>7, <1>8, <1>11, <2>1, <2>2
    <3> QED BY <1>9, <2>1, <3>1
  <2>3. CASE j = len
    <3>1. new[i] = ms[i] /\ new[j].calls = calls
      BY <1>7, <1>8, <1>11, <2>1, <2>3
    <3> QED BY <1>9, <2>1, <3>1
  <2>4. CASE i # len /\ j # len
    BY <1>8, <1>11, <2>1, <2>4 DEF NoShared
  <2> QED BY <2>2, <2>3, <2>4
<1> QED BY <1>11 DEF NoShared

\* An update of the messages of the active conversation, saved or not.
LEMMA UpdateCalls ==
    ASSUME ShapeInv, PageCalls, NEW ms, updateMessages(ms), NoShared(ms)
    PROVE  PageCalls'
<1>1. conversations' = Updated(conversations, active, ms)
  BY DEF updateMessages, persistConversationState, Updated
<1>2. stored'.conversations \in {conversations', stored.conversations}
  <2>1. stored = [conversations |-> stored.conversations, active |-> stored.active,
                  activeIds |-> stored.activeIds]
    BY DEF ShapeInv, StoredInv, StoredShape
  <2>2. saveConversations(conversations', active, activeIds)
    BY DEF updateMessages, persistConversationState
  <2>3. PICK cs : cs = conversations'
    OBVIOUS
  <2>4. \/ stored' = [conversations |-> cs, active |-> active, activeIds |-> activeIds]
        \/ stored' = stored
        \/ stored' = [stored EXCEPT !.conversations = cs]
        \/ stored' = [stored EXCEPT !.conversations = cs, !.active = active]
        \/ stored' = [stored EXCEPT !.conversations = cs, !.active = active,
                         !.activeIds = [@ EXCEPT !["chat"] = activeIds["chat"]]]
    BY <2>2, <2>3 DEF saveConversations
  <2> DEFINE a == [stored EXCEPT !.conversations = cs]
             b == [a EXCEPT !.active = active]
             c == [b EXCEPT !.activeIds = [@ EXCEPT !["chat"] = activeIds["chat"]]]
  <2>5. a.conversations = cs /\ "conversations" \in DOMAIN a
    BY <2>1
  <2>6. \/ stored'.conversations = cs \/ stored' = stored
        \/ stored' = a \/ stored' = b \/ stored' = c
    BY <2>4
  <2> HIDE DEF a
  <2>7. b.conversations = cs /\ "conversations" \in DOMAIN b
    BY <2>5
  <2> HIDE DEF b
  <2>8. c.conversations = cs
    BY <2>7
  <2> HIDE DEF c
  <2> QED BY <2>3, <2>5, <2>6, <2>7, <2>8
<1>3. Shelf(conversations, lastKey, opened)
  BY DEF ShapeInv, PageInv, PageShape
<1>4. DOMAIN conversations' = DOMAIN conversations
  BY <1>1 DEF Updated
<1>5. ASSUME NEW i \in DOMAIN conversations
      PROVE  conversations'[i].messages \in {ms, conversations[i].messages}
  <2>1. conversations[i] = [id |-> conversations[i].id, mode |-> conversations[i].mode,
                            messages |-> conversations[i].messages]
    BY <1>3, ConversationTypes
  <2>2. conversations'[i] \in {[conversations[i] EXCEPT !.messages = ms], conversations[i]}
    BY <1>1 DEF Updated
  <2>3. [conversations[i] EXCEPT !.messages = ms].messages = ms
    BY <2>1
  <2> QED BY <2>2, <2>3
<1>6. \A i \in DOMAIN conversations' : NoShared(conversations'[i].messages)
  BY <1>4, <1>5 DEF PageCalls
<1> QED BY <1>2, <1>6 DEF PageCalls

-----------------------------------------------------------------------------
(* No two answers share a call                                             *)

\* The messages of the page stay, or become ones that share no call.
Clean == UNCHANGED conversationVars \/ \E ms : updateMessages(ms) /\ NoShared(ms)

\* The conversations after a step, and what was saved of them.
LEMMA CleanCalls ==
    ASSUME ShapeInv, PageCalls, Clean
    PROVE  PageCalls'
<1>1. CASE UNCHANGED conversationVars
  BY <1>1 DEF PageCalls, conversationVars
<1>2. CASE \E ms : updateMessages(ms) /\ NoShared(ms)
  BY <1>2, UpdateCalls
<1> QED BY <1>1, <1>2 DEF Clean

\* A step that puts a run n in the place of another.
LEMMA RunAdded ==
    ASSUME ShapeInv, CallsInv, Clean, NEW n, RunCalls(n), runs' \subseteq runs \cup {n}
    PROVE  CallsInv'
<1>1. PageCalls'
  BY CleanCalls DEF CallsInv
<1>2. \A r \in runs' : RunCalls(r)
  BY DEF CallsInv
<1> QED BY <1>1, <1>2 DEF CallsInv

\* A step that ends runs or leaves them alone.
LEMMA RunsFewer ==
    ASSUME ShapeInv, CallsInv, Clean, runs' \subseteq runs
    PROVE  CallsInv'
<1>1. PageCalls'
  BY CleanCalls DEF CallsInv
<1>2. \A r \in runs' : RunCalls(r)
  BY DEF CallsInv
<1> QED BY <1>1, <1>2 DEF CallsInv

LEMMA RunFacts ==
    ASSUME ShapeInv, CallsInv, NEW r \in runs
    PROVE  /\ Shape(r) /\ r.working \in Seq(MessageOf(lastKey, opened)) /\ r.working # << >>
           /\ NoShared(r.working) /\ (r.pc = "stream" => Unused(r.working, r.conn))
           /\ opened \in Nat /\ lastKey \in Nat
BY RunShaped, RunOfRuns, RunTypes DEF CallsInv, RunCalls, ShapeInv, CountInv

LEMMA MessagesCalls ==
    ASSUME ShapeInv, PageCalls
    PROVE  NoShared(Messages)
<1>1. Shelf(conversations, lastKey, opened) /\ active \in Ids(conversations)
  BY DEF ShapeInv, PageInv, PageShape, Remembers
<1>2. PICK a \in DOMAIN conversations : Messages = conversations[a].messages
  BY <1>1, ActiveLemma
<1> QED BY <1>2 DEF PageCalls

\* ReceiveText
LEMMA TextKeepsCalls ==
    ASSUME ShapeInv, CallsInv, NEW r \in runs, ReceiveText(r)
    PROVE  CallsInv'
<1>0. PICK shown : shown = LastContent(r.working, {r.conn}, "streaming", FALSE)
  OBVIOUS
<1>1. PICK n : n = [r EXCEPT !.working = shown]
  OBVIOUS
<1>2. runs' \subseteq runs \cup {n} /\ updateMessages(shown)
  BY <1>0, <1>1 DEF ReceiveText
<1>3. n.working = shown /\ n.pc = r.pc /\ n.conn = r.conn
  BY <1>1, RunFacts DEF Shape, Fields
<1>4. SameCalls(r.working, shown)
  BY <1>0, RunFacts, TextCalls
<1>5. NoShared(shown) /\ (r.pc = "stream" => Unused(shown, r.conn))
  BY <1>4, RunFacts, SameCallsKeep
<1>6. RunCalls(n)
  BY <1>3, <1>5 DEF RunCalls
<1>7. Clean
  BY <1>2, <1>5 DEF Clean
<1> QED BY <1>2, <1>6, <1>7, RunAdded

\* ReceiveCompleted, the one step that adds calls.
LEMMA CompletedKeepsCalls ==
    ASSUME ShapeInv, CallsInv, NEW r \in runs, ReceiveCompleted(r)
    PROVE  CallsInv'
<1>0. r.pc = "stream"
  BY DEF ReceiveCompleted
<1>a. PICK tools \in Answers :
        LET text == Last(r.working).content \cap {r.conn}
            items == {r.conn} \X tools
            calls == {c \in items : c[2] # "unknown"}
            final == FinalOf(r.working, text, items)
            next == [r EXCEPT !.working = final, !.calls = calls]
        IN  \/ EndRun(r, Closed(r)) /\ updateMessages(final)
            \/ /\ runs' = (runs \ {r}) \cup {[next EXCEPT !.pc = "review"]}
               /\ updateMessages(final)
            \/ /\ updateMessages(Append(final, toolMessage(lastKey + 1, calls, FALSE)))
               /\ \E first \in FirstCalls(calls) :
                     runs' = (runs \ {r}) \cup
                                {[next EXCEPT !.pc = "tools", !.results = first,
                                     !.todo = first, !.toolKey = lastKey + 1]}
  BY DEF ReceiveCompleted, FinalOf
<1>b. PICK final : final = FinalOf(r.working, Last(r.working).content \cap {r.conn},
                                   {r.conn} \X tools)
  OBVIOUS
<1>c. PICK calls : calls = {c \in {r.conn} \X tools : c[2] # "unknown"}
  OBVIOUS
<1>1. \/ EndRun(r, Closed(r)) /\ updateMessages(final)
      \/ /\ runs' = (runs \ {r}) \cup
               {[[r EXCEPT !.working = final, !.calls = calls] EXCEPT !.pc = "review"]}
         /\ updateMessages(final)
      \/ /\ updateMessages(Append(final, toolMessage(lastKey + 1, calls, FALSE)))
         /\ \E first \in FirstCalls(calls) :
               runs' = (runs \ {r}) \cup
                  {[[r EXCEPT !.working = final, !.calls = calls]
                      EXCEPT !.pc = "tools", !.results = first,
                             !.todo = first, !.toolKey = lastKey + 1]}
  BY <1>a, <1>b, <1>c
<1>2. NoShared(final)
  BY <1>0, <1>b, RunFacts, FinalCalls
<1>3. \E S : final \in Seq(S)
  <2>1. PICK S : S = MessageOf(lastKey, opened) \cup {final[Len(r.working)]}
    OBVIOUS
  <2>2. r.working \in Seq(S)
    BY <2>1, RunFacts
  <2>3. DOMAIN final = DOMAIN r.working /\ final = [i \in DOMAIN r.working |-> final[i]]
    BY <1>b DEF FinalOf
  <2>4. \A i \in DOMAIN r.working : final[i] \in S
    <3>1. \A i \in DOMAIN r.working : i # Len(r.working) => final[i] = r.working[i]
      BY <1>b DEF FinalOf
    <3> QED BY <2>1, <2>2, <3>1
  <2>5. final \in Seq(S)
    BY <2>2, <2>3, <2>4, SameLength
  <2> QED BY <2>5
<1>4. CASE EndRun(r, Closed(r)) /\ updateMessages(final)
  BY <1>2, <1>4, EndRunFewer, RunsFewer DEF Clean
<1>5. ASSUME updateMessages(final),
             runs' = (runs \ {r}) \cup
                {[[r EXCEPT !.working = final, !.calls = calls] EXCEPT !.pc = "review"]}
      PROVE  CallsInv'
  <2>1. PICK n : n = [[r EXCEPT !.working = final, !.calls = calls] EXCEPT !.pc = "review"]
    OBVIOUS
  <2>2. n.working = final /\ n.pc = "review"
    BY <2>1, RunFacts DEF Shape, Fields
  <2>3. RunCalls(n) /\ Clean
    BY <1>2, <1>5, <2>2 DEF RunCalls, Clean
  <2>4. runs' \subseteq runs \cup {n}
    BY <1>5, <2>1
  <2> QED BY <2>3, <2>4, RunAdded
<1>6. ASSUME NEW first,
             updateMessages(Append(final, toolMessage(lastKey + 1, calls, FALSE))),
             runs' = (runs \ {r}) \cup
                  {[[r EXCEPT !.working = final, !.calls = calls]
                      EXCEPT !.pc = "tools", !.results = first,
                             !.todo = first, !.toolKey = lastKey + 1]}
      PROVE  CallsInv'
  <2>1. PICK n : n = [[r EXCEPT !.working = final, !.calls = calls]
                        EXCEPT !.pc = "tools", !.results = first,
                               !.todo = first, !.toolKey = lastKey + 1]
    OBVIOUS
  <2>2. n.working = final /\ n.pc = "tools"
    BY <2>1, RunFacts DEF Shape, Fields
  <2>3. RunCalls(n)
    BY <1>2, <2>2 DEF RunCalls
  <2>4. NoShared(Append(final, toolMessage(lastKey + 1, calls, FALSE)))
    <3>1. PICK S : final \in Seq(S)
      BY <1>3
    <3>2. PICK card : card = toolMessage(lastKey + 1, calls, FALSE)
      OBVIOUS
    <3>3. Callless(card)
      BY <3>2 DEF Callless, toolMessage
    <3>4. NoShared(Append(final, card))
      BY <1>2, <3>1, <3>3, AppendCalls
    <3> QED BY <3>2, <3>4
  <2>5. Clean
    BY <1>6, <2>4 DEF Clean
  <2>6. runs' \subseteq runs \cup {n}
    BY <1>6, <2>1
  <2> QED BY <2>3, <2>5, <2>6, RunAdded
<1> QED BY <1>1, <1>4, <1>5, <1>6

\* StreamFails
LEMMA FailsKeepsCalls ==
    ASSUME ShapeInv, CallsInv, NEW r \in runs, NEW retryable, StreamFails(r, retryable)
    PROVE  CallsInv'
<1>0. PICK shown : shown = LastContent(r.working, {PageText}, "loading", TRUE)
  OBVIOUS
<1>1. PICK failed : failed = LastContent(r.working, {PageText}, "error", FALSE)
  OBVIOUS
<1>2. NoShared(shown) /\ NoShared(failed)
  <2>1. SameCalls(r.working, shown) /\ SameCalls(r.working, failed)
    BY <1>0, <1>1, RunFacts, TextCalls
  <2> QED BY <2>1, RunFacts, SameCallsKeep
<1>3. CASE updateMessages(failed) /\ EndRun(r, Closed(r))
  BY <1>2, <1>3, EndRunFewer, RunsFewer DEF Clean
<1>4. CASE /\ updateMessages(shown)
           /\ runs' = (runs \ {r}) \cup
                {[r EXCEPT !.pc = "retry", !.retry = @ + 1, !.working = shown]}
  <2>1. PICK n : n = [r EXCEPT !.pc = "retry", !.retry = @ + 1, !.working = shown]
    OBVIOUS
  <2>2. n.pc = "retry" /\ n.working = shown
    BY <2>1, RunFacts DEF Shape, Fields
  <2>3. RunCalls(n) /\ Clean
    BY <1>2, <1>4, <2>2 DEF RunCalls, Clean
  <2>4. runs' \subseteq runs \cup {n}
    BY <1>4, <2>1
  <2> QED BY <2>3, <2>4, RunAdded
<1> QED BY <1>0, <1>1, <1>3, <1>4 DEF StreamFails

\* RetryTimer, which opens a new connection.
LEMMA TimerKeepsCalls ==
    ASSUME ShapeInv, CallsInv, NEW r \in runs, RetryTimer(r)
    PROVE  CallsInv'
<1>0. Clean
  BY DEF RetryTimer, Clean
<1>1. CASE control.stopped
  <2>1. EndRun(r, [control EXCEPT !.retryTimer = None])
    BY <1>1 DEF RetryTimer
  <2> QED BY <1>0, <2>1, EndRunFewer, RunsFewer
<1>2. CASE ~control.stopped
  <2>0. PICK conn : conn = opened + 1
    OBVIOUS
  <2>1. PICK n : n = [r EXCEPT !.pc = "stream", !.conn = conn]
    OBVIOUS
  <2>2. runs' \subseteq runs \cup {n}
    BY <1>2, <2>0, <2>1 DEF RetryTimer, OpenStream
  <2>3. n.working = r.working /\ n.conn = conn
    BY <2>1, RunFacts DEF Shape, Fields
  <2>4. Unused(r.working, conn)
    BY <2>0, RunFacts, NewConnection
  <2>5. RunCalls(n)
    BY <2>3, <2>4, RunFacts DEF RunCalls
  <2> QED BY <1>0, <2>2, <2>5, RunAdded
<1> QED BY <1>1, <1>2

\* A run's messages with a card of tool calls.
LEMMA CardKeepsCalls ==
    ASSUME ShapeInv, CallsInv, NEW r \in runs, NEW key, NEW calls, NEW pending
    PROVE  NoShared(Append(r.working, toolMessage(key, calls, pending)))
<1>1. PICK card : card = toolMessage(key, calls, pending)
  OBVIOUS
<1>2. Callless(card)
  BY <1>1 DEF Callless, toolMessage
<1>3. NoShared(Append(r.working, card))
  BY <1>2, RunFacts, AppendCalls
<1> QED BY <1>1, <1>3

\* The run goes on with its messages as they were.
LEMMA SameWorking ==
    ASSUME ShapeInv, CallsInv, NEW r \in runs, Clean, NEW n, n.working = r.working,
           n.pc # "stream", runs' \subseteq runs \cup {n}
    PROVE  CallsInv'
<1>1. RunCalls(n)
  BY RunFacts DEF RunCalls
<1> QED BY <1>1, RunAdded

\* RequestApproval
LEMMA RequestKeepsCalls ==
    ASSUME ShapeInv, CallsInv, NEW r \in runs, RequestApproval(r)
    PROVE  CallsInv'
<1>1. PICK n : n = [r EXCEPT !.pc = "approval", !.toolKey = lastKey + 1]
  OBVIOUS
<1>2. runs' \subseteq runs \cup {n}
  BY <1>1 DEF RequestApproval
<1>3. n.working = r.working /\ n.pc = "approval"
  BY <1>1, RunFacts DEF Shape, Fields
<1>4. Clean
  BY CardKeepsCalls DEF RequestApproval, Clean
<1> QED BY <1>2, <1>3, <1>4, SameWorking

\* handleApproveAgentToolCalls
LEMMA ApproveKeepsCalls ==
    ASSUME ShapeInv, CallsInv, NEW r \in runs, NEW approved,
           handleApproveAgentToolCalls(r, approved)
    PROVE  CallsInv'
<1>1. PICK pc : pc = IF approved THEN "approved" ELSE "denied"
  OBVIOUS
<1>2. PICK n : n = [r EXCEPT !.pc = pc, !.granted = approved]
  OBVIOUS
<1>3. runs' \subseteq runs \cup {n}
  BY <1>1, <1>2 DEF handleApproveAgentToolCalls
<1>4. n.working = r.working /\ n.pc # "stream"
  BY <1>1, <1>2, RunFacts DEF Shape, Fields
<1>5. PICK ms : ms = [i \in DOMAIN Messages |->
           IF Messages[i].key = r.toolKey THEN [Messages[i] EXCEPT !.pending = FALSE]
           ELSE Messages[i]]
  OBVIOUS
<1>6. updateMessages(ms)
  BY <1>5 DEF handleApproveAgentToolCalls
<1>7. SameCalls(Messages, ms)
  <2>1. DOMAIN ms = DOMAIN Messages
    BY <1>5
  <2>2. ASSUME NEW i \in DOMAIN Messages
        PROVE  ms[i].from = Messages[i].from /\ ms[i].calls = Messages[i].calls
    <3>1. PICK msg : msg = Messages[i]
      OBVIOUS
    <3>2. ms[i] \in {msg, [msg EXCEPT !.pending = FALSE]}
      BY <1>5, <3>1
    <3>3. "from" \in DOMAIN msg /\ "calls" \in DOMAIN msg
      BY <3>1, MessagesTyped, MessageDomain DEF ShapeInv
    <3>4. /\ [msg EXCEPT !.pending = FALSE].from = msg.from
          /\ [msg EXCEPT !.pending = FALSE].calls = msg.calls
      BY <3>3, PartsKept
    <3> QED BY <3>1, <3>2, <3>4
  <2> QED BY <2>1, <2>2 DEF SameCalls
<1>8. NoShared(ms)
  BY <1>7, MessagesCalls, SameCallsKeep DEF CallsInv
<1>9. Clean
  BY <1>6, <1>8 DEF Clean
<1> QED BY <1>3, <1>4, <1>9, SameWorking

\* NextStep: the results, a loading message and a new connection, or the end.
LEMMA NextKeepsCalls ==
    ASSUME ShapeInv, CallsInv, NEW r \in runs, r.pc \notin {"stream", "retry", "review"},
           NEW results \in CallSets(opened), NextStep(r, results)
    PROVE  CallsInv'
<1>0. opened \in Nat /\ lastKey \in Nat /\ lastKey' = lastKey + 2
      /\ opened' \in {opened, opened + 1}
  BY RunFacts DEF NextStep, OpenStream
<1>1. PICK card : card = toolMessage(CompletedKey(r), results, FALSE)
  OBVIOUS
<1>2. PICK loading : loading = createLoadingAssistantMessage(lastKey + 2)
  OBVIOUS
<1>3. PICK next : next = Two(r.working, card, loading)
  OBVIOUS
<1> DEFINE M == MessageOf(lastKey + 2, opened)
<1>4. card \in M
  <2>1. PICK key : key = CompletedKey(r)
    OBVIOUS
  <2>2. key \in 1..(lastKey + 2)
    BY <1>0, <2>1, RunOfRuns, RunTypes DEF CompletedKey, None
  <2>3. PICK k \in Nat : k = lastKey + 2
    BY <1>0
  <2>4. toolMessage(key, results, FALSE) \in MessageOf(k, opened)
    BY <1>0, <2>2, <2>3, MessagesMade DEF CallSets
  <2> QED BY <1>1, <2>1, <2>3, <2>4
<1>5. loading \in M
  <2>1. PICK k \in Nat : k = lastKey + 2
    BY <1>0
  <2>2. k \in 1..k
    BY <1>0, <2>1
  <2> QED BY <1>0, <1>2, <2>1, <2>2, MessagesMade
<1>6. r.working \in Seq(M)
  <2>1. PICK k \in Nat : k = lastKey + 2
    BY <1>0
  <2>2. MessageOf(lastKey, opened) \subseteq MessageOf(k, opened)
    BY <1>0, <2>1, MessageGrows
  <2> QED BY <2>1, <2>2, RunFacts, SeqMonotonic
<1>7. Callless(card) /\ Callless(loading)
  BY <1>1, <1>2 DEF Callless, toolMessage, createLoadingAssistantMessage
<1>8. next \in Seq(M) /\ next # << >>
  BY <1>3, <1>4, <1>5, <1>6, NextMessages
<1> HIDE DEF M
<1>9. NoShared(next)
  BY <1>3, <1>4, <1>5, <1>6, <1>7, RunFacts, TwoCalls
<1>10. PICK last : last = LastContent(next, {PageText}, "complete", FALSE)
  OBVIOUS
<1>11. NoShared(last)
  <2>1. SameCalls(next, last)
    BY <1>8, <1>10, TextCalls DEF M
  <2> QED BY <1>9, <2>1, SameCallsKeep
<1>12. r.working \o << toolMessage(CompletedKey(r), results, FALSE),
                       createLoadingAssistantMessage(lastKey + 2) >> = next
  BY <1>1, <1>2, <1>3 DEF Two
<1>13. updateMessages(next) \/ updateMessages(last)
  BY <1>10, <1>12 DEF NextStep
<1>14. Clean
  BY <1>9, <1>11, <1>13 DEF Clean
<1>15. CASE \E ctl : EndRun(r, ctl)
  BY <1>14, <1>15, EndRunFewer, RunsFewer
<1>16. CASE OpenStream(r, [r EXCEPT !.working = next, !.step = @ + 1,
                                    !.retry = 0, !.calls = {}, !.results = {},
                                    !.todo = {}, !.toolKey = None, !.granted = FALSE])
  <2>0. PICK conn : conn = opened + 1
    OBVIOUS
  <2>1. PICK m : m = [r EXCEPT !.working = next, !.step = @ + 1,
                               !.retry = 0, !.calls = {}, !.results = {},
                               !.todo = {}, !.toolKey = None, !.granted = FALSE]
    OBVIOUS
  <2>2. PICK n : n = [m EXCEPT !.pc = "stream", !.conn = conn]
    OBVIOUS
  <2>3. runs' \subseteq runs \cup {n}
    BY <1>16, <2>0, <2>1, <2>2 DEF OpenStream
  <2>4. Shape(m) /\ m.working = next
    BY <2>1, RunFacts DEF Shape, Fields
  <2>5. n.working = next /\ n.conn = conn
    BY <2>2, <2>4 DEF Shape, Fields
  <2>6. Unused(next, conn)
    BY <1>0, <1>8, <2>0, NewConnection DEF M
  <2>7. RunCalls(n)
    BY <1>9, <2>5, <2>6 DEF RunCalls
  <2> QED BY <1>14, <2>3, <2>7, RunAdded
<1> QED BY <1>12, <1>15, <1>16 DEF NextStep

\* ContinueApproved
LEMMA ContinueKeepsCalls ==
    ASSUME ShapeInv, CallsInv, NEW r \in runs, ContinueApproved(r)
    PROVE  CallsInv'
<1>0. r.pc \in {"approved", "denied"}
  BY DEF ContinueApproved
<1>1. CASE NextStep(r, r.calls)
  BY <1>0, <1>1, RunOfRuns, RunTypes, NextKeepsCalls
<1>2. ASSUME NEW first, NEW results,
             updateMessages(Append(r.working, toolMessage(r.toolKey, r.calls, FALSE))),
             runs' = (runs \ {r}) \cup
                       {[r EXCEPT !.pc = "tools", !.todo = first, !.results = results]}
      PROVE  CallsInv'
  <2>1. PICK n : n = [r EXCEPT !.pc = "tools", !.todo = first, !.results = results]
    OBVIOUS
  <2>2. runs' \subseteq runs \cup {n}
    BY <1>2, <2>1
  <2>3. n.working = r.working /\ n.pc = "tools"
    BY <2>1, RunFacts DEF Shape, Fields
  <2>4. Clean
    BY <1>2, CardKeepsCalls DEF Clean
  <2> QED BY <2>2, <2>3, <2>4, SameWorking
<1> QED BY <1>1, <1>2 DEF ContinueApproved

\* ToolDone
LEMMA ToolKeepsCalls ==
    ASSUME ShapeInv, CallsInv, NEW r \in runs, ToolDone(r)
    PROVE  CallsInv'
<1>0. r.pc = "tools"
  BY DEF ToolDone
<1>1. CASE NextStep(r, r.results)
  BY <1>0, <1>1, RunOfRuns, RunTypes, NextKeepsCalls
<1>2. ASSUME NEW c, UNCHANGED conversationVars,
             runs' = (runs \ {r}) \cup {[r EXCEPT !.todo = @ \ {c}]}
      PROVE  CallsInv'
  <2>1. PICK n : n = [r EXCEPT !.todo = @ \ {c}]
    OBVIOUS
  <2>2. runs' \subseteq runs \cup {n}
    BY <1>2, <2>1
  <2>3. n.working = r.working /\ n.pc = r.pc
    BY <2>1, RunFacts DEF Shape, Fields
  <2>4. Clean
    BY <1>2 DEF Clean
  <2> QED BY <1>0, <2>2, <2>3, <2>4, SameWorking
<1> QED BY <1>1, <1>2 DEF ToolDone

\* StreamStopped
LEMMA StoppedKeepsCalls ==
    ASSUME ShapeInv, CallsInv, NEW r \in runs, StreamStopped(r)
    PROVE  CallsInv'
<1>1. Clean /\ runs' \subseteq runs
  BY DEF StreamStopped, stateVars, Clean
<1> QED BY <1>1, RunsFewer

LEMMA AgentKeepsCalls ==
    ASSUME ShapeInv, CallsInv, AgentStep \/ Approve
    PROVE  CallsInv'
<1>1. CASE Approve
  BY <1>1, ApproveKeepsCalls DEF Approve
<1>2. CASE AgentStep
  <2>1. PICK r \in runs : \/ ContinueApproved(r) \/ ReceiveText(r) \/ RunStep(r)
    BY <1>2 DEF AgentStep, AgentNext
  <2> QED BY <2>1, ContinueKeepsCalls, TextKeepsCalls, CompletedKeepsCalls, FailsKeepsCalls,
       StoppedKeepsCalls, TimerKeepsCalls, RequestKeepsCalls, ToolKeepsCalls DEF RunStep
<1> QED BY <1>1, <1>2

\* A callback that leaves the calls of the last message alone.
LEMMA CallbackClean ==
    ASSUME ShapeInv, CallsInv, NEW new, updateLast(new),
           Messages # << >> => new.from = LastMessage.from /\ new.calls = LastMessage.calls
    PROVE  Clean
<1>1. SameCalls(Messages, updateLastAssistantMessage(Messages, new))
  BY MessagesTyped, LastCalls DEF ShapeInv, LastMessage
<1>2. NoShared(updateLastAssistantMessage(Messages, new))
  BY <1>1, MessagesCalls, SameCallsKeep DEF CallsInv
<1> QED BY <1>2 DEF Clean, updateLast

\* Whatever a callback of the chat, or Stop, makes of the last message.
LEMMA CallbacksClean ==
    ASSUME ShapeInv, CallsInv
    PROVE  /\ \A kind, conn : updateLast(handleStreamUpdate(LastMessage, kind, conn)) => Clean
           /\ updateLast(handleStreamComplete(LastMessage)) => Clean
           /\ updateLast(handleStreamError(LastMessage)) => Clean
           /\ updateLast(handleStreamReconnect(LastMessage)) => Clean
           /\ updateLast(finalizeStopped(LastMessage)) => Clean
           /\ updateLast(Cut(LastMessage)) => Clean
<1>1. ASSUME NEW new, updateLast(new),
             \/ \E kind, conn : new = handleStreamUpdate(LastMessage, kind, conn)
             \/ new = handleStreamComplete(LastMessage) \/ new = handleStreamError(LastMessage)
             \/ new = handleStreamReconnect(LastMessage) \/ new = finalizeStopped(LastMessage)
             \/ new = Cut(LastMessage)
      PROVE  Clean
  <2>1. Messages # << >> => LastMessage \in MessageOf(lastKey, opened)
    BY LastMessageTyped DEF ShapeInv
  <2>2. Messages # << >> => new.from = LastMessage.from /\ new.calls = LastMessage.calls
    BY <1>1, <2>1, CallbackCalls
  <2> QED BY <1>1, <2>2, CallbackClean
<1>2. ASSUME NEW kind, NEW conn, updateLast(handleStreamUpdate(LastMessage, kind, conn))
      PROVE  Clean
  <2>1. PICK new : new = handleStreamUpdate(LastMessage, kind, conn)
    OBVIOUS
  <2> QED BY <1>1, <1>2, <2>1
<1> QED BY <1>1, <1>2

LEMMA ChatKeepsCalls ==
    ASSUME ShapeInv, CallsInv, ChatStep
    PROVE  CallsInv'
<1>1. runs' = runs
  BY DEF ChatStep, agentVars
<1>2. ASSUME NEW own, NEW live, handleError(own, live) PROVE Clean
  BY <1>2, CallbacksClean DEF handleError, Clean
<1>3. ASSUME NEW s, SourceEnds(s) PROVE Clean
  BY <1>3 DEF SourceEnds, stateVars, Clean
<1>4. RetryTimeout => Clean
  BY DEF RetryTimeout, Clean
<1>5. ASSUME NEW s, NEW kind, ReceiveChunk(s, kind) PROVE Clean
  BY <1>5, CallbacksClean DEF ReceiveChunk
<1>6. ASSUME NEW s, ReceiveDone(s) PROVE Clean
  BY <1>6, CallbacksClean DEF ReceiveDone
<1>7. Clean
  BY <1>2, <1>3, <1>4, <1>5, <1>6
     DEF ChatStep, ChatNext, ReceiveGarbage, SourceSettles, SourceFails
<1> QED BY <1>1, <1>7, RunsFewer

\* Stop, in both modes.
LEMMA StopKeepsCalls ==
    ASSUME ShapeInv, CallsInv, Stop
    PROVE  CallsInv'
<1>1. CASE stopGeneration /\ UNCHANGED agentVars
  <2>1. Clean /\ runs' = runs
    BY <1>1, CallbacksClean DEF stopGeneration, agentVars
  <2> QED BY <2>1, RunsFewer
<1>2. CASE stopAgentGeneration
  <2>1. Clean
    BY <1>2, StopCut, CallbacksClean
  <2>2. \A n \in runs' : \E r \in runs :
           n = [r EXCEPT !.pc = IF r.pc = "approval" THEN "denied" ELSE r.pc]
    BY <1>2 DEF stopAgentGeneration
  <2>3. ASSUME NEW n \in runs' PROVE RunCalls(n)
    <3>1. PICK r \in runs : n = [r EXCEPT !.pc = IF r.pc = "approval" THEN "denied" ELSE r.pc]
      BY <2>2
    <3>2. PICK pc : /\ pc = (IF r.pc = "approval" THEN "denied" ELSE r.pc)
                    /\ n = [r EXCEPT !.pc = pc]
      BY <3>1
    <3>3. n.working = r.working /\ n.conn = r.conn /\ n.pc = pc
      BY <3>2, RunFacts DEF Shape, Fields
    <3>4. pc = "stream" => r.pc = "stream"
      BY <3>2
    <3> QED BY <3>3, <3>4, RunFacts DEF RunCalls
  <2>4. PageCalls'
    BY <2>1, CleanCalls DEF CallsInv
  <2> QED BY <2>3, <2>4 DEF CallsInv
<1> QED BY <1>1, <1>2 DEF Stop

\* handleSendMessage: a new run's connection is new to its messages.
LEMMA SendKeepsCalls ==
    ASSUME ShapeInv, CallsInv, NEW w \in Seq(MessageOf(lastKey, opened)), NoShared(w),
           NEW mode, handleSendMessage(w, mode)
    PROVE  CallsInv'
<1>0. opened \in Nat /\ lastKey \in Nat
  BY DEF ShapeInv, CountInv
<1>1. PICK user : user = createUserMessage(lastKey + 1)
  OBVIOUS
<1>2. PICK loading : loading = createLoadingAssistantMessage(lastKey + 2)
  OBVIOUS
<1>3. PICK ms : ms = Two(w, user, loading)
  OBVIOUS
<1>a. ms = w \o << createUserMessage(lastKey + 1),
                   createLoadingAssistantMessage(lastKey + 2) >>
  BY <1>1, <1>2, <1>3 DEF Two
<1>4. \/ sendChat(ms)
      \/ updateMessages(ms) /\ runAgentConversation(lastKey + 2, ms)
  BY <1>a DEF handleSendMessage
<1>5. PICK k \in Nat : k = lastKey + 2
  BY <1>0
<1> DEFINE M == MessageOf(k, opened)
<1>6. user \in M /\ loading \in M
  <2>1. lastKey + 1 \in 1..k /\ lastKey + 2 \in 1..k
    BY <1>0, <1>5
  <2> QED BY <1>0, <1>1, <1>2, <2>1, MessagesMade
<1>7. w \in Seq(M)
  <2>1. MessageOf(lastKey, opened) \subseteq MessageOf(k, opened)
    BY <1>0, <1>5, MessageGrows
  <2> QED BY <2>1, SeqMonotonic
<1>8. Callless(user) /\ Callless(loading)
  BY <1>1, <1>2 DEF Callless, createUserMessage, createLoadingAssistantMessage
<1>9. ms \in Seq(M)
  BY <1>3, <1>6, <1>7, NextMessages
<1> HIDE DEF M
<1>10. NoShared(ms)
  BY <1>3, <1>6, <1>7, <1>8, TwoCalls
<1>11. CASE sendChat(ms)
  <2>1. Clean /\ runs' = runs
    BY <1>10, <1>11 DEF sendChat, agentVars, Clean
  <2> QED BY <2>1, RunsFewer
<1>12. CASE updateMessages(ms) /\ runAgentConversation(lastKey + 2, ms)
  <2>1. Clean
    BY <1>10, <1>12 DEF Clean
  <2>2. PICK conn : conn = opened + 1
    OBVIOUS
  <2>3. PICK n : n = [id |-> lastKey + 2, pc |-> "stream", working |-> ms,
                      step |-> 0, retry |-> 0, conn |-> conn, calls |-> {},
                      results |-> {}, todo |-> {}, toolKey |-> None, granted |-> FALSE]
    OBVIOUS
  <2>4. runs' \subseteq runs \cup {n}
    BY <1>12, <2>2, <2>3 DEF runAgentConversation
  <2>5. n.working = ms /\ n.conn = conn
    BY <2>3
  <2>6. Unused(ms, conn)
    BY <1>0, <1>9, <2>2, NewConnection DEF M
  <2>7. RunCalls(n)
    BY <1>10, <2>5, <2>6 DEF RunCalls
  <2> QED BY <2>1, <2>4, <2>7, RunAdded
<1> QED BY <1>4, <1>11, <1>12

LEMMA SubmitKeepsCalls ==
    ASSUME ShapeInv, CallsInv, FormCalls, Submit \/ \E i \in DOMAIN converting : Converted(i)
    PROVE  CallsInv'
<1>1. CASE Submit
  <2>1. /\ Messages \in Seq(MessageOf(lastKey, opened)) /\ NoShared(Messages)
        /\ handleSendMessage(Messages, Mode)
    BY <1>1, MessagesTyped, MessagesCalls DEF Submit, ShapeInv, CallsInv
  <2> QED BY <2>1, SendKeepsCalls
<1>2. ASSUME NEW i \in DOMAIN converting, Converted(i) PROVE CallsInv'
  <2>1. PICK w, mode : w = converting[i].messages /\ handleSendMessage(w, mode)
    BY <1>2 DEF Converted
  <2>2. w \in Seq(MessageOf(lastKey, opened)) /\ NoShared(w)
    BY <2>1, FormTyped DEF FormCalls
  <2> QED BY <2>1, <2>2, SendKeepsCalls
<1> QED BY <1>1, <1>2

\* An answer to the first messages w is asked for.
LEMMA AskKeepsCalls ==
    ASSUME ShapeInv, CallsInv, NEW S, NEW w \in Seq(S), NoShared(w), NEW key,
           sendChat(Append(w, createLoadingAssistantMessage(key)))
    PROVE  CallsInv'
<1>1. PICK loading : loading = createLoadingAssistantMessage(key)
  OBVIOUS
<1>2. Callless(loading)
  BY <1>1 DEF Callless, createLoadingAssistantMessage
<1>3. NoShared(Append(w, loading))
  BY <1>2, AppendCalls
<1>4. Clean /\ runs' = runs
  BY <1>1, <1>3 DEF sendChat, agentVars, Clean
<1> QED BY <1>4, RunsFewer

\* Regenerate, delete and edit: fewer messages, or the same calls.
LEMMA MessageKeepsCalls ==
    ASSUME ShapeInv, CallsInv, NEW i \in DOMAIN Messages,
           \/ handleRegenerateMessage(i) \/ handleDeleteMessage(i)
           \/ \E submit \in BOOLEAN : applyEdit(i, submit)
    PROVE  CallsInv'
<1> DEFINE M == MessageOf(lastKey, opened)
<1>0. Messages \in Seq(M) /\ NoShared(Messages)
  BY MessagesTyped, MessagesCalls DEF ShapeInv, CallsInv
<1>1. PICK edited : edited = Edited(Messages, i)
  OBVIOUS
<1>2. SameCalls(Messages, edited)
  BY <1>0, <1>1, EditedCalls
<1>3. edited \in Seq(M) /\ Len(edited) = Len(Messages)
  BY <1>0, <1>1, EditedLemma DEF ShapeInv, CountInv
<1> HIDE DEF M
<1>4. NoShared(edited)
  BY <1>0, <1>2, SameCallsKeep
<1>5. i \in 0..Len(edited) /\ i - 1 \in 0..Len(Messages)
  BY <1>0, <1>3
<1>6. CASE handleRegenerateMessage(i)
  <2>1. PICK m \in 0..Len(Messages) : m = i - 1
    BY <1>5
  <2>2. PICK w : w = SubSeq(Messages, 1, m)
    OBVIOUS
  <2>3. w \in Seq(M) /\ NoShared(w)
    BY <1>0, <2>2, BeginningLemma, BeginningCalls
  <2>4. sendChat(Append(w, createLoadingAssistantMessage(lastKey + 1)))
    BY <1>6, <2>1, <2>2 DEF handleRegenerateMessage
  <2> QED BY <2>3, <2>4, AskKeepsCalls
<1>7. CASE handleDeleteMessage(i)
  <2>1. PICK new : new = RemoveAt(Messages, i)
    OBVIOUS
  <2>2. NoShared(new)
    BY <1>0, <2>1, RemovedCalls
  <2>3. Clean /\ runs' = runs
    BY <1>7, <2>1, <2>2 DEF handleDeleteMessage, agentVars, Clean
  <2> QED BY <2>3, RunsFewer
<1>8. CASE \E submit \in BOOLEAN : applyEdit(i, submit)
  <2>1. \/ updateMessages(edited) /\ UNCHANGED agentVars
        \/ sendChat(Append(SubSeq(edited, 1, i), createLoadingAssistantMessage(lastKey + 1)))
    BY <1>1, <1>8 DEF applyEdit
  <2>2. CASE updateMessages(edited) /\ UNCHANGED agentVars
    <3>1. Clean /\ runs' = runs
      BY <1>4, <2>2 DEF agentVars, Clean
    <3> QED BY <3>1, RunsFewer
  <2>3. CASE sendChat(Append(SubSeq(edited, 1, i), createLoadingAssistantMessage(lastKey + 1)))
    <3>1. PICK w : w = SubSeq(edited, 1, i)
      OBVIOUS
    <3>2. w \in Seq(M) /\ NoShared(w)
      BY <1>3, <1>4, <1>5, <3>1, BeginningLemma, BeginningCalls
    <3> QED BY <2>3, <3>1, <3>2, AskKeepsCalls
  <2> QED BY <2>1, <2>2, <2>3
<1> QED BY <1>6, <1>7, <1>8

LEMMA NoneShared == NoShared(<< >>)
BY DEF NoShared

\* The sidebar only moves conversations or adds an empty one.
LEMMA MoveKeepsCalls ==
    ASSUME ShapeInv, CallsInv, SidebarStep \/ AutoPair
    PROVE  CallsInv'
<1>1. Shuffled /\ runs' = runs
  BY SidebarOutcome DEF Moved, agentVars
<1>2. \A i \in DOMAIN conversations' : NoShared(conversations'[i].messages)
  BY <1>1, NoneShared DEF Shuffled, CallsInv, PageCalls
<1>3. PageCalls'
  BY <1>1, <1>2 DEF Shuffled, CallsInv, PageCalls
<1> QED BY <1>1, <1>3 DEF CallsInv

\* A reload shows what was stored.
LEMMA ReloadKeepsCalls ==
    ASSUME ShapeInv, CallsInv, Reload
    PROVE  CallsInv'
<1>1. runs' = {}
  BY DEF Reload
<1>2. /\ stored' = stored
      /\ \A i \in DOMAIN conversations' :
            \/ conversations'[i].messages = << >>
            \/ \E j \in DOMAIN stored.conversations :
                  conversations'[i].messages =
                      sanitizeMessagesOnLoad(stored.conversations[j].messages)
  BY LoadKeeps DEF Reload, ShapeInv
<1>3. ASSUME NEW j \in DOMAIN stored.conversations
      PROVE  NoShared(sanitizeMessagesOnLoad(stored.conversations[j].messages))
  <2>1. stored.conversations[j].messages \in Seq(MessageOf(lastKey, opened))
    BY ConversationTypes DEF ShapeInv, StoredInv, StoredShape
  <2>2. NoShared(stored.conversations[j].messages)
    BY DEF CallsInv, PageCalls
  <2> QED BY <2>1, <2>2, SanitizedCalls, SameCallsKeep
<1>4. \A i \in DOMAIN conversations' : NoShared(conversations'[i].messages)
  BY <1>2, <1>3, NoneShared
<1>5. PageCalls'
  BY <1>2, <1>4 DEF CallsInv, PageCalls
<1> QED BY <1>1, <1>5 DEF CallsInv

LEMMA InitCalls ==
    ASSUME Init
    PROVE  CallsInv /\ FormCalls
<1>1. /\ \A i \in DOMAIN conversations : conversations[i].messages = << >>
      /\ DOMAIN stored.conversations = {} /\ runs = {}
  BY DEF Init, StateInit, AgentInit, createConversation
<1>2. FormCalls
  BY DEF Init, FormCalls
<1> QED BY <1>1, <1>2, NoneShared DEF CallsInv, PageCalls

LEMMA StepFormCalls ==
    ASSUME ShapeInv, CallsInv, FormCalls, [Next]_vars
    PROVE  FormCalls'
<1>1. NoShared(Messages)
  BY MessagesCalls DEF ShapeInv, CallsInv
<1> QED BY <1>1, StepQueues, QueuedLemma DEF FormCalls

LEMMA StepCalls ==
    ASSUME ShapeInv, CallsInv, FormCalls, [Next]_vars
    PROVE  CallsInv'
<1>1. CASE ChatStep
  BY <1>1, ChatKeepsCalls
<1>2. CASE AgentStep \/ Approve
  BY <1>2, AgentKeepsCalls
<1>3. CASE Asks
  BY <1>3, SubmitKeepsCalls, MessageKeepsCalls, MoveKeepsCalls DEF Asks
<1>4. CASE UNCHANGED << stateVars, agentVars >>
  <2>1. Clean /\ runs' = runs
    BY <1>4 DEF stateVars, agentVars, Clean
  <2> QED BY <2>1, RunsFewer
<1>5. CASE Stop
  BY <1>5, StopKeepsCalls
<1>6. CASE Reload
  BY <1>6, ReloadKeepsCalls
<1>7. StartConversion \/ (\E i \in DOMAIN Messages : handleEditMessage(i)) =>
         UNCHANGED << stateVars, agentVars >>
  BY DEF StartConversion, handleEditMessage
<1>8. UNCHANGED vars => UNCHANGED << stateVars, agentVars >>
  BY DEF vars
<1> QED BY <1>1, <1>2, <1>3, <1>4, <1>5, <1>6, <1>7, <1>8, UserSteps DEF Next

\* The inductive invariant of PairsAlways: two answers of a conversation of the
\* page, of localStorage or of a run have no function call in common, and the
\* connection a run reads from is new to its messages, so that what
\* response.completed brings can be told from every call before it.
THEOREM CallsApart == Spec => [](ShapeInv /\ CallsInv /\ FormCalls)
<1>1. Init => ShapeInv /\ CallsInv /\ FormCalls
  BY InitShape, InitCalls
<1>2. ShapeInv /\ CallsInv /\ FormCalls /\ [Next]_vars => (ShapeInv /\ CallsInv /\ FormCalls)'
  BY StepShape, StepCalls, StepFormCalls
<1> QED BY <1>1, <1>2, PTL DEF Spec

\* The payload of a run, and of a run that would be started for any conversation,
\* passes assertResponsesToolCallPairs (index.tsx), whatever was deleted,
\* regenerated, stopped, cut short or reloaded before.
THEOREM PairsAlways == Spec => []PairsValid
<1>1. ShapeInv /\ CallsInv => PairsValid
  <2> SUFFICES ASSUME ShapeInv, CallsInv,
                      NEW ms \in {conversations[i].messages : i \in DOMAIN conversations} \cup
                                 {r.working : r \in runs}
               PROVE  assertResponsesToolCallPairs(ms, sanitizeResponsesInputItems(ms))
    BY DEF PairsValid
  <2>1. ms \in Seq(MessageOf(lastKey, opened)) /\ NoShared(ms)
    <3>1. ASSUME NEW i \in DOMAIN conversations, ms = conversations[i].messages
          PROVE  ms \in Seq(MessageOf(lastKey, opened)) /\ NoShared(ms)
      BY <3>1, ConversationTypes DEF ShapeInv, PageInv, PageShape, CallsInv, PageCalls
    <3>2. ASSUME NEW r \in runs, ms = r.working
          PROVE  ms \in Seq(MessageOf(lastKey, opened)) /\ NoShared(ms)
      BY <3>2, RunFacts
    <3> QED BY <3>1, <3>2
  <2> QED BY <2>1, PairedLemma
<1> QED BY <1>1, CallsApart, PTL
=============================================================================

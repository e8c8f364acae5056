----------------------------- MODULE Playground -----------------------------
(***************************************************************************)
(* The playground page: web/default/src/features/playground/index.tsx with *)
(* its hooks.  The user's operations over the conversations of             *)
(* PlaygroundState, the chat streams of PlaygroundChat and the agent runs  *)
(* of PlaygroundAgent, which write to the same conversations.              *)
(*                                                                         *)
(* The page is one thread: a handler, with the render of the states it     *)
(* set, is one step.  Most operations are disabled while isBusy.  Five are *)
(* not, or act on the wrong generation, and let two generations (or one    *)
(* and the user) write over each other: the editor that was opened before, *)
(* the automatic pairing, the two kinds of Stop, and a message that was    *)
(* submitted with attachments before.  `interfered' records that one of    *)
(* them happened, and the properties that need the lock say so.            *)
(***************************************************************************)
EXTENDS PlaygroundChat, PlaygroundAgent

CONSTANTS
    AutoStart,  \* whether the page is opened with a pair code to be used
    MaxMoves,   \* bound: operations of the sidebar and the mode switch
    MaxEdits,   \* bound: times the user opens an editor or deletes a message
    MaxConversions  \* bound: submissions whose attachments are being
                    \* converted at the same time

ASSUME PlaygroundAssumption ==
    /\ AutoStart \in BOOLEAN
    /\ {MaxMoves, MaxEdits, MaxConversions} \subseteq Nat

VARIABLES
    sends,              \* requests for an answer so far
    moves,              \* operations of the sidebar so far
    edits,              \* editors opened and messages deleted so far
    editingMessageKey,  \* the message whose editor is open
    pairing,            \* the pair code of the page's address is still unused
    converting,         \* submissions whose attachments are being converted,
                        \* with the messages and the mode of their closure
    interfered          \* history: two writers were let loose

userVars == << sends, moves, edits, editingMessageKey, pairing,
               converting, interfered >>
vars == << stateVars, chatVars, agentVars, userVars >>

isBusy == isStreaming \/ isAgentRunning

Init ==
    /\ StateInit
    /\ ChatInit
    /\ AgentInit
    /\ sends = 0 /\ moves = 0 /\ edits = 0
    /\ editingMessageKey = None
    /\ pairing = AutoStart
    /\ converting = << >>
    /\ interfered = FALSE

TypeOK ==
    /\ StateTypeOK
    /\ ChatTypeOK
    /\ AgentTypeOK
    /\ sends \in 0..MaxSends
    /\ moves \in 0..MaxMoves
    /\ edits \in 0..MaxEdits
    /\ editingMessageKey \in Keys \cup {None}
    /\ converting \in Seq([messages : Seq(Message), mode : Modes])
    /\ Len(converting) <= MaxConversions
    /\ {pairing, interfered} \subseteq BOOLEAN

-----------------------------------------------------------------------------
(* Messages                                                                *)

\* sendChat: the messages become the conversation's, the last one is the
\* loading message of the answer.
sendChat(ms) ==
    /\ updateMessages(ms)
    /\ sendStreamRequest(Last(ms).key)
    /\ UNCHANGED << agentVars, reloads >>

CanSend == sends < MaxSends

\* handleSendMessage of a render of the page with these messages and this mode;
\* the workspace of an agent is there.
handleSendMessage(messages, mode) ==
    LET ms == messages \o << createUserMessage(lastKey + 1),
                             createLoadingAssistantMessage(lastKey + 2) >>
    IN  /\ CanSend
        /\ sends' = sends + 1
        /\ lastKey' = lastKey + 2
        /\ \/ /\ mode = "chat"
              /\ sendChat(ms)
           \/ /\ mode = "agent"
              /\ updateMessages(ms)
              /\ runAgentConversation(lastKey + 2, ms)
              /\ UNCHANGED << chatVars, reloads >>
        /\ UNCHANGED << moves, edits, editingMessageKey, pairing >>

\* The user submits the input.  With no attachment to convert, nothing comes
\* between the event and handleSendMessage.
Submit ==
    /\ ~isBusy
    /\ handleSendMessage(Messages, Mode)
    /\ UNCHANGED << converting, interfered >>

\* With attachments, PromptInput and PlaygroundInput first convert them.  The page
\* is not locked meanwhile, and a conversion that fails is one that never ends.
StartConversion ==
    /\ ~isBusy
    /\ Len(converting) < MaxConversions
    /\ CanSend
    /\ converting' = Append(converting, [messages |-> Messages, mode |-> Mode])
    /\ UNCHANGED << stateVars, chatVars, agentVars, sends, moves, edits,
                    editingMessageKey, pairing, interfered >>

\* The attachments are there: `disabled', the messages, the mode and
\* isAgentRunning are those of the render in which the input was submitted.
Converted(i) ==
    /\ handleSendMessage(converting[i].messages, converting[i].mode)
    /\ converting' = RemoveAt(converting, i)
    /\ interfered' = (interfered \/ isBusy)

\* The buttons of a message; one without a text, and the card of tool calls,
\* have none.
HasActions(msg) == msg.content # {} /\ msg.from # "tool"

\* In an agent's conversation, too, the new answer is a chat answer.
handleRegenerateMessage(i) ==
    /\ ~isBusy
    /\ CanSend
    /\ Messages[i].from = "assistant"
    /\ HasActions(Messages[i]) /\ ~Unsettled(Messages[i])
    /\ sends' = sends + 1
    /\ lastKey' = lastKey + 1
    /\ sendChat(Append(SubSeq(Messages, 1, i - 1),
                       createLoadingAssistantMessage(lastKey + 1)))
    /\ UNCHANGED << moves, edits, editingMessageKey, pairing, converting,
                    interfered >>

handleDeleteMessage(i) ==
    /\ ~isBusy
    /\ HasActions(Messages[i])
    /\ edits < MaxEdits
    /\ edits' = edits + 1
    /\ updateMessages(RemoveAt(Messages, i))
    /\ UNCHANGED << reloads, opened, lastKey, chatVars, agentVars, sends, moves,
                    editingMessageKey, pairing, converting, interfered >>

handleEditMessage(i) ==
    /\ ~isBusy
    /\ HasActions(Messages[i])
    /\ edits < MaxEdits
    /\ edits' = edits + 1
    /\ editingMessageKey' = Messages[i].key
    /\ UNCHANGED << stateVars, chatVars, agentVars, sends, moves,
                    pairing, converting, interfered >>

Edited(ms, i) == [ms EXCEPT ![i] = [@ EXCEPT !.content = {PageText}]]

\* applyEdit: the editor stays open, and its buttons enabled, when a
\* generation starts after it was opened.
applyEdit(i, submit) ==
    /\ editingMessageKey # None
    /\ Messages[i].key = editingMessageKey
    /\ editingMessageKey' = None
    /\ interfered' = (interfered \/ isBusy)
    /\ \/ /\ ~submit
          /\ updateMessages(Edited(Messages, i))
          /\ UNCHANGED << reloads, opened, lastKey, chatVars, agentVars, sends >>
       \/ /\ submit
          /\ Messages[i].from = "user"
          /\ CanSend
          /\ sends' = sends + 1
          /\ lastKey' = lastKey + 1
          /\ sendChat(Append(SubSeq(Edited(Messages, i), 1, i),
                             createLoadingAssistantMessage(lastKey + 1)))
    /\ UNCHANGED << moves, edits, pairing, converting >>

-----------------------------------------------------------------------------
(* Conversations                                                           *)

\* Another conversation is shown: the effect on activeConversationId closes
\* the editor.
CloseEditor == editingMessageKey' = IF active' = active THEN editingMessageKey ELSE None

\* Mutant: the mode can be changed during a generation.
handleModeChangeBusy(mode) == mode # Mode /\ switchMode(mode)

handleModeChange(mode) ==
    /\ ~isBusy
    /\ mode # Mode
    /\ switchMode(mode)

SelectConversation(id) ==
    /\ ~isBusy
    /\ id # active
    /\ id \in IdsOf(conversations, Mode)
    /\ switchConversation(id)

\* The last conversation of a mode cannot be deleted.
DeleteConversation(id) ==
    /\ ~isBusy
    /\ id \in IdsOf(conversations, Mode)
    /\ Cardinality(IdsOf(conversations, Mode)) > 1
    /\ deleteConversation(id)

SidebarStep ==
    /\ moves < MaxMoves
    /\ moves' = moves + 1
    /\ \/ \E mode \in Modes : handleModeChange(mode)
       \/ ~isBusy /\ createNewConversation(Mode)
       \/ \E id \in ConversationIds : SelectConversation(id) \/ DeleteConversation(id)
    /\ CloseEditor
    /\ UNCHANGED << reloads, opened, lastKey, chatVars, agentVars, sends, edits,
                    pairing, converting, interfered >>

\* The effect that pairs the helper of the page's address is done: it opens
\* an agent's conversation whatever the page is doing.
AutoPair ==
    /\ pairing
    /\ pairing' = FALSE
    /\ createNewConversation("agent")
    /\ CloseEditor
    /\ interfered' = (interfered \/ isBusy)
    /\ UNCHANGED << reloads, opened, lastKey, chatVars, agentVars, sends, moves,
                    edits, converting >>

\* The button calls what the mode of the conversation says, not what is
\* going on.  A run that is not streaming goes on after it.
Stop ==
    /\ isBusy
    /\ \/ /\ Mode = "chat"
          /\ stopGeneration
          /\ interfered' = (interfered \/ isAgentRunning)
          /\ UNCHANGED agentVars
       \/ /\ Mode = "agent"
          /\ stopAgentGeneration
          /\ interfered' = (\/ interfered
                            \/ isStreaming
                            \/ \E r \in runs : r.pc \notin {"stream", "retry"})
          /\ UNCHANGED chatVars
    /\ UNCHANGED << sends, moves, edits, editingMessageKey, pairing,
                    converting >>

\* The browser loads the page again: every request of it is gone.  (Not modelled:
\* the user leaves the route inside the application.  Nothing is cleaned up then,
\* so streams, timers and tools of the page that is gone go on.)
Reload ==
    /\ LoadState
    /\ isStreaming' = FALSE
    /\ sseSource' = None
    /\ retryTimeout' = None
    /\ isStreamComplete' = FALSE
    /\ streamStopped' = FALSE
    /\ retryCount' = [key \in Keys |-> 0]
    /\ sources' = {}
    /\ silent' = FALSE
    /\ isAgentRunning' = FALSE
    /\ control' = [source |-> None, retryTimer |-> None, stopped |-> FALSE]
    /\ runs' = {}
    /\ editingMessageKey' = None
    /\ converting' = << >>
    /\ UNCHANGED << sends, moves, edits, pairing, interfered >>

-----------------------------------------------------------------------------

ChatStep == NoCallback /\ ChatNext /\ UNCHANGED << agentVars, userVars >>

AgentStep == AgentNext /\ UNCHANGED << chatVars, userVars >>

Approve ==
    /\ \E r \in runs, approved \in BOOLEAN : handleApproveAgentToolCalls(r, approved)
    /\ UNCHANGED << chatVars, userVars >>

UserStep ==
    \/ Submit
    \/ StartConversion
    \/ \E i \in DOMAIN converting : Converted(i)
    \/ \E i \in DOMAIN Messages :
          \/ handleRegenerateMessage(i)
          \/ handleDeleteMessage(i)
          \/ handleEditMessage(i)
          \/ \E submit \in BOOLEAN : applyEdit(i, submit)
    \/ Approve
    \/ SidebarStep
    \/ AutoPair
    \/ Stop
    \/ Reload

Next == ChatStep \/ AgentStep \/ (NoCallback /\ UserStep)

Spec == Init /\ [][Next]_vars

\* Timers fire, connections come to an end (the relay bounds the time a
\* stream may be silent), and what a run of the agent waits for comes, the
\* user's approval excepted.
SettleStep ==
    /\ NoCallback
    /\ RetryTimeout \/ \E s \in sources : SourceSettles(s)
    /\ UNCHANGED << agentVars, userVars >>

SettleRun ==
    /\ \/ \E r \in runs : ContinueApproved(r)
       \/ NoCallback /\ \E r \in runs : RunStep(r)
    /\ UNCHANGED << chatVars, userVars >>

FairSpec == Spec /\ WF_vars(SettleStep) /\ WF_vars(SettleRun)

-----------------------------------------------------------------------------
(* The input of the Responses API                                          *)

\* messagesToResponsesInput, the function calls and their outputs only: the
\* call_id c in message j, a call of an assistant's message or an output of a
\* tool message.  The call_id of the upstream is the call itself: no answer
\* uses an earlier one.
messagesToResponsesInput(ms) == UNION {{j} \X ms[j].calls : j \in DOMAIN ms}

\* In the loop of sanitizeResponsesInputItems, the call `item' is still in
\* pendingCallPositions after message j: no message since has an output for
\* it, which deletes it, or a call of the same id, which takes its place.
Pending(ms, item, j) ==
    /\ ms[item[1]].from # "tool"
    /\ \A m \in (item[1] + 1)..j : item[2] \notin ms[m].calls

\* An output is kept if its call is pending.
OutputKept(ms, item) ==
    \E i \in 1..(item[1] - 1) :
        item[2] \in ms[i].calls /\ Pending(ms, << i, item[2] >>, item[1] - 1)

\* Mutant: calls without a result are sent.
sanitizeResponsesInputItemsKeeps(ms) ==
    {item \in messagesToResponsesInput(ms) :
        ms[item[1]].from = "tool" => OutputKept(ms, item)}

\* Calls that are still pending at the end are dropped.
sanitizeResponsesInputItems(ms) ==
    {item \in messagesToResponsesInput(ms) :
        IF ms[item[1]].from = "tool" THEN OutputKept(ms, item)
        ELSE ~Pending(ms, item, Len(ms))}

\* assertResponsesToolCallPairs does not throw for these items of ms: an
\* output comes after a call of its id, and every call has an output.
assertResponsesToolCallPairs(ms, input) ==
    \A item \in input :
        \E other \in input :
            /\ other[2] = item[2]
            /\ IF ms[item[1]].from = "tool"
               THEN ms[other[1]].from # "tool" /\ other[1] < item[1]
               ELSE ms[other[1]].from = "tool"

-----------------------------------------------------------------------------
(* Properties                                                              *)

\* One generation at a time: unless the lock was bypassed, at most one
\* connection, reconnection timer or agent run is alive, and none when the
\* page is not busy.
OneGeneration ==
    ~interfered =>
        LET alive == Cardinality(sources) + Cardinality(runs)
                     + (IF retryTimeout = None THEN 0 ELSE 1)
        IN  alive <= (IF isBusy THEN 1 ELSE 0)

\* The shared refs and "the last message of the active conversation" name
\* the right things: an open chat stream or its timer belongs to the message
\* its callbacks write to, which is still unsettled, and what the page shows
\* is what the agent's run works on.
WritesOwnMessage ==
    ~interfered =>
        /\ \A own \in {s.own : s \in sources} \cup ({retryTimeout} \ {None}) :
              /\ Messages # << >>
              /\ Last(Messages).key = own
              /\ Unsettled(Last(Messages))
        /\ \A r \in runs : IsPrefix(r.working, Messages)

\* The text of one message never mixes two connections, or a connection and
\* the notice of a reconnection.
NoMixing ==
    ~interfered => \A msg \in AllMessages(conversations) \cup
                               AllMessages(stored.conversations) :
                       Cardinality(msg.content) <= 1

\* A page that is not busy shows no answer as still being generated, in any
\* conversation, however the generations before ended or were cut short.
IdleSettled ==
    ~interfered /\ ~isBusy =>
        \A msg \in AllMessages(conversations) : ~Unsettled(msg)

\* The page always shows one of its conversations and remembers for each
\* mode one of its conversations if there is any, whatever part of a save
\* was lost before the page was opened again.
LastOfMode ==
    /\ active \in Ids(conversations)
    /\ \A mode \in Modes :
          IF IdsOf(conversations, mode) = {} THEN activeIds[mode] = None
          ELSE activeIds[mode] \in IdsOf(conversations, mode)

\* The payload of a run is never refused by the page's own assertion: after
\* any deletions, regenerations, stops and reloads, calls and results of what
\* a run sends, or would send for a conversation, are paired.
PairsValid ==
    \A ms \in {conversations[i].messages : i \in DOMAIN conversations} \cup
              {r.working : r \in runs} :
        assertResponsesToolCallPairs(ms, sanitizeResponsesInputItems(ms))

\* The workspace is changed only by calls the user has approved: whatever a
\* run still has to carry out, before or after a Stop, needs no approval or
\* has it.
ApprovedOnly ==
    \A r \in runs :
        (\E c \in r.todo : requiresAgentToolApproval(c)) => r.granted

\* While a generation goes on, the messages before it stay: nothing that is
\* settled is changed, moved or dropped, in any conversation.  The card of
\* tool calls stays where it is and is brought up to date.
AnswersKept ==
    [][isBusy /\ ~interfered' /\ reloads' = reloads =>
          \A i \in DOMAIN conversations :
              /\ i \in DOMAIN conversations' /\ conversations'[i].id = conversations[i].id
              /\ \A j \in DOMAIN conversations[i].messages :
                    LET msg == conversations[i].messages[j]
                        now == conversations'[i].messages
                    IN  ~Unsettled(msg) =>
                           /\ j \in DOMAIN now
                           /\ IF msg.from = "tool" THEN now[j].from = "tool"
                              ELSE now[j] = msg]_vars

\* A chat request comes to an end, after at most MAX_STREAM_RETRIES
\* reconnections, unless a connection ends without [DONE], which leaves the
\* page busy until Stop.
GenerationEnds == isStreaming ~> (~isStreaming \/ silent)

\* A run of the agent comes to an end or waits for the user.
RunEnds ==
    isAgentRunning ~> \/ ~isAgentRunning
                      \/ \E r \in runs : r.pc = "approval"
=============================================================================

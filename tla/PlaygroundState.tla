--------------------------- MODULE PlaygroundState ---------------------------
(***************************************************************************)
(* The conversations of the playground page and their copy in              *)
(* localStorage: web/default/src/features/playground/                      *)
(* hooks/use-playground-state.ts, lib/storage.ts, lib/message-utils.ts.    *)
(* PlaygroundChat and PlaygroundAgent write to it, Playground composes     *)
(* them with the user's operations.                                        *)
(*                                                                         *)
(* A text is the set of its origins: n > 0 for what connection n has sent, *)
(* PageText for what the user typed or the page made up (a notice of a     *)
(* reconnection, an error).  Titles, timestamps, settings, reasoning texts *)
(* and the migration of the format before conversations are left out.      *)
(***************************************************************************)
EXTENDS Naturals, Sequences, FiniteSets, SequencesExt

CONSTANTS
    MAX_STREAM_RETRIES, \* reconnections of one request, 5 in the code
    MAX_AGENT_STEPS,    \* answers of one agent run, 30 in the code
    MaxSends,           \* bound: requests for an answer the user makes
    MaxConversations,   \* bound: conversations at the same time
    MaxReloads,         \* bound: times the page is opened again
    MaxLostSaves        \* bound: saves to localStorage that fail

ASSUME StateAssumption ==
    /\ {MaxConversations, MAX_AGENT_STEPS} \subseteq Nat \ {0}
    /\ {MAX_STREAM_RETRIES, MaxSends, MaxReloads, MaxLostSaves} \subseteq Nat

Modes == {"chat", "agent"}
None == 0
PageText == 0
ConversationIds == 1..MaxConversations

\* A request opens at most MAX_STREAM_RETRIES + 1 connections for each answer
\* and gives out at most two keys, and three more for each answer of an agent.
MaxConnections == MaxSends * MAX_AGENT_STEPS * (MAX_STREAM_RETRIES + 1)
MaxMessages == MaxSends * (2 + 3 * MAX_AGENT_STEPS)
Keys == 1..MaxMessages
Connections == 1..MaxConnections

\* A function call of an answer: a tool that reads, a tool that changes the
\* workspace, or a tool the page does not have.
Tools == {"read", "write", "unknown"}
Calls == Connections \X Tools

VARIABLES
    conversations,  \* the conversations, the newest first
    active,         \* activeConversationId
    activeIds,      \* activeConversationIds: the last one of each mode
    stored,         \* the four keys of localStorage
    lostSaves,      \* saves that were cut short
    reloads,        \* times the page was opened again
    opened,         \* connections opened so far
    lastKey         \* message keys given out so far

conversationVars == << conversations, active, activeIds, stored, lostSaves >>
stateVars == << conversationVars, reloads, opened, lastKey >>

-----------------------------------------------------------------------------
(* Messages                                                                *)

Status == {"none", "loading", "streaming", "complete", "error"}

\* calls: the function calls of an assistant's answer, or the calls a tool
\* message has results for.  pending: a tool message that waits for the
\* user's approval.
Message == [key : Keys, from : {"user", "assistant", "tool"}, status : Status,
            content : SUBSET (0..MaxConnections), reconnecting : BOOLEAN,
            calls : SUBSET Calls, pending : BOOLEAN]

Conversation == [id : ConversationIds, mode : Modes, messages : Seq(Message)]

createUserMessage(key) ==
    [key |-> key, from |-> "user", status |-> "none", content |-> {PageText},
     reconnecting |-> FALSE, calls |-> {}, pending |-> FALSE]

createLoadingAssistantMessage(key) ==
    [key |-> key, from |-> "assistant", status |-> "loading", content |-> {},
     reconnecting |-> FALSE, calls |-> {}, pending |-> FALSE]

Unsettled(msg) == msg.from = "assistant" /\ msg.status \in {"loading", "streaming"}

\* Mutant: the messages before the last one are lost.
updateLastAssistantMessageAlone(ms, updated) ==
    IF ms # << >> /\ Last(ms).from = "assistant" THEN << updated >> ELSE ms

\* updateLastAssistantMessage: only the very last message, and only if it is
\* the assistant's, becomes `updated'.
updateLastAssistantMessage(ms, updated) ==
    IF ms # << >> /\ Last(ms).from = "assistant"
    THEN [ms EXCEPT ![Len(ms)] = updated]
    ELSE ms

\* What a message becomes that was loading or streaming when the page was
\* left; one that streams without a text has shown reasoning.
Sanitized(msg) ==
    IF msg.content # {} \/ msg.status = "streaming" THEN [msg EXCEPT !.status = "complete"]
    ELSE [msg EXCEPT !.content = {PageText}, !.status = "error"]

\* sanitizeMessagesOnLoad looks for the last such message and changes it.
sanitizeMessagesOnLoad(ms) ==
    LET stuck == {i \in DOMAIN ms : Unsettled(ms[i])}
    IN  [i \in DOMAIN ms |->
            IF i \in stuck /\ \A j \in stuck : j <= i
            THEN Sanitized(ms[i]) ELSE ms[i]]

-----------------------------------------------------------------------------
(* Conversations                                                           *)

Ids(cs) == {cs[i].id : i \in DOMAIN cs}
IdsOf(cs, mode) == {cs[i].id : i \in {j \in DOMAIN cs : cs[j].mode = mode}}
ById(cs, id) == cs[CHOOSE i \in DOMAIN cs : cs[i].id = id]

\* The first conversation of a mode, if there is one.
FirstOf(cs, mode) ==
    LET same == {i \in DOMAIN cs : cs[i].mode = mode}
    IN  IF same = {} THEN None ELSE cs[Min(same)].id

AllMessages(cs) == UNION {ToSet(cs[i].messages) : i \in DOMAIN cs}

\* activeConversation, messages and mode of the component.
ActiveConversation ==
    IF active \in Ids(conversations) THEN ById(conversations, active)
    ELSE conversations[1]
Messages == ActiveConversation.messages
Mode == ActiveConversation.mode

\* An id nothing refers to any more; in the code each one is new.
FreshIds == ConversationIds \ (Ids(conversations) \cup Ids(stored.conversations))
FreshId == CHOOSE id \in FreshIds : TRUE

createConversation(id, mode) == [id |-> id, mode |-> mode, messages |-> << >>]

\* saveConversations writes four keys in one try: a write that throws keeps
\* the ones after it from being made.
saveConversations(cs, id, ids) ==
    \/ /\ stored' = [conversations |-> cs, active |-> id, activeIds |-> ids]
       /\ UNCHANGED lostSaves
    \/ /\ lostSaves < MaxLostSaves
       /\ lostSaves' = lostSaves + 1
       /\ stored' \in
             {stored,
              [stored EXCEPT !.conversations = cs],
              [stored EXCEPT !.conversations = cs, !.active = id],
              [stored EXCEPT !.conversations = cs, !.active = id,
                             !.activeIds = [@ EXCEPT !["chat"] = ids["chat"]]]}

persistConversationState(cs, id, ids) ==
    /\ conversations' = cs
    /\ active' = id
    /\ activeIds' = ids
    /\ saveConversations(cs, id, ids)

\* updateMessages writes to whichever conversation is active by then: what it
\* held is replaced, with an updater by something made of Messages.
updateMessages(ms) ==
    persistConversationState(
        [i \in DOMAIN conversations |->
            IF conversations[i].id = active
            THEN [conversations[i] EXCEPT !.messages = ms]
            ELSE conversations[i]],
        active, activeIds)

createNewConversation(mode) ==
    /\ FreshIds # {}
    /\ persistConversationState(
           << createConversation(FreshId, mode) >> \o conversations,
           FreshId, [activeIds EXCEPT ![mode] = FreshId])

switchConversation(id) ==
    /\ id \in Ids(conversations)
    /\ persistConversationState(conversations, id,
           [activeIds EXCEPT ![ById(conversations, id).mode] = id])

deleteConversation(id) ==
    LET at == CHOOSE i \in DOMAIN conversations : conversations[i].id = id
        remaining == RemoveAt(conversations, at)
        mode == ById(conversations, id).mode
        next == FirstOf(remaining, mode)
    IN  /\ id \in Ids(conversations)
        /\ remaining # << >>
        /\ persistConversationState(
               remaining,
               IF active # id THEN active
               ELSE IF next # None THEN next ELSE remaining[1].id,
               IF activeIds[mode] = id THEN [activeIds EXCEPT ![mode] = next]
               ELSE activeIds)

\* The conversation the mode was left with, else one of its conversations,
\* else a new one.
switchMode(mode) ==
    LET existing == IF activeIds[mode] # None THEN {activeIds[mode]}
                    ELSE IdsOf(conversations, mode)
    IN  \/ \E id \in existing :
              persistConversationState(conversations, id,
                                       [activeIds EXCEPT ![mode] = id])
        \/ /\ existing = {}
           /\ createNewConversation(mode)

\* Mutant: the stored ids are trusted.
LoadedIdTrusts(mode) == stored.activeIds[mode]

\* loadConversations: stored ids count only when a conversation has them.
LoadedId(mode) ==
    IF stored.activeIds[mode] \in IdsOf(stored.conversations, mode)
    THEN stored.activeIds[mode]
    ELSE FirstOf(stored.conversations, mode)

loadConversations ==
    [conversations |->
        [i \in DOMAIN stored.conversations |->
            [stored.conversations[i] EXCEPT !.messages = sanitizeMessagesOnLoad(@)]],
     active |->
        IF stored.active \in Ids(stored.conversations) THEN stored.active
        ELSE IF LoadedId("chat") # None THEN LoadedId("chat")
        ELSE LoadedId("agent"),
     activeIds |-> [mode \in Modes |-> LoadedId(mode)]]

\* The page is opened: the stored state, or one empty conversation.
LoadState ==
    /\ reloads < MaxReloads
    /\ reloads' = reloads + 1
    /\ LET loaded == loadConversations
       IN  IF loaded.conversations # << >> /\ loaded.active # None
           THEN /\ conversations' = loaded.conversations
                /\ active' = loaded.active
                /\ activeIds' = loaded.activeIds
           ELSE /\ conversations' = << createConversation(1, "chat") >>
                /\ active' = 1
                /\ activeIds' = [chat |-> 1, agent |-> None]
    /\ UNCHANGED << stored, lostSaves, opened, lastKey >>

StateInit ==
    /\ conversations = << createConversation(1, "chat") >>
    /\ active = 1
    /\ activeIds = [chat |-> 1, agent |-> None]
    /\ stored = [conversations |-> << >>, active |-> None,
                 activeIds |-> [mode \in Modes |-> None]]
    /\ lostSaves = 0 /\ reloads = 0 /\ opened = 0 /\ lastKey = 0

StateTypeOK ==
    /\ conversations \in Seq(Conversation)
    /\ active \in ConversationIds
    /\ activeIds \in [Modes -> ConversationIds \cup {None}]
    /\ stored \in [conversations : Seq(Conversation),
                   active : ConversationIds \cup {None},
                   activeIds : [Modes -> ConversationIds \cup {None}]]
    /\ lostSaves \in 0..MaxLostSaves
    /\ reloads \in 0..MaxReloads
    /\ opened \in 0..MaxConnections
    /\ lastKey \in 0..MaxMessages
=============================================================================

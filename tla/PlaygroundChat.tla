--------------------------- MODULE PlaygroundChat ---------------------------
(***************************************************************************)
(* Streamed chat answers: web/default/src/features/playground/             *)
(* hooks/use-stream-request.ts and hooks/use-chat-handler.ts.              *)
(*                                                                         *)
(* A call of sendStreamRequest is named by the key of the message it is    *)
(* for, `own'.  The code has no such name: its callbacks write to whatever *)
(* message is the last one of the active conversation, and the refs (the   *)
(* source, the timer, the two flags) are shared by all calls.              *)
(*                                                                         *)
(* External: sse.js and the relay.  A connection delivers chunks, ends     *)
(* with [DONE], fails with an error event, or ends without either; a       *)
(* closed one delivers nothing more.                                       *)
(***************************************************************************)
EXTENDS PlaygroundState

VARIABLES
    isStreaming,
    sseSource,          \* sseSourceRef: a connection or None
    retryTimeout,       \* retryTimeoutRef: the call that waits, or None
    isStreamComplete,   \* isStreamCompleteRef
    streamStopped,      \* stoppedRef
    retryCount,         \* of each call of sendStreamRequest
    sources,            \* the open connections, each with its call
    silent              \* history: a connection of a request that goes on
                        \* has ended without [DONE]

chatVars == << isStreaming, sseSource, retryTimeout, isStreamComplete,
               streamStopped, retryCount, sources, silent >>

Source == [conn : Connections, own : Keys]

ChatInit ==
    /\ isStreaming = FALSE
    /\ sseSource = None
    /\ retryTimeout = None
    /\ isStreamComplete = FALSE
    /\ streamStopped = FALSE
    /\ retryCount = [key \in Keys |-> 0]
    /\ sources = {}
    /\ silent = FALSE

ChatTypeOK ==
    /\ isStreaming \in BOOLEAN
    /\ sseSource \in Connections \cup {None}
    /\ retryTimeout \in Keys \cup {None}
    /\ isStreamComplete \in BOOLEAN
    /\ streamStopped \in BOOLEAN
    /\ retryCount \in [Keys -> 0..MAX_STREAM_RETRIES]
    /\ sources \subseteq Source
    /\ silent \in BOOLEAN

-----------------------------------------------------------------------------
(* What the callbacks do to the last message                               *)

\* Mutant: the notice of the reconnection is kept.
handleStreamUpdateAppends(msg, kind, conn) ==
    IF msg.status = "error" THEN msg
    ELSE [msg EXCEPT !.content = IF kind = "content" THEN @ \cup {conn} ELSE @,
                     !.reconnecting = FALSE, !.status = "streaming"]

\* A piece of the answer (`kind' "content") or of the reasoning.
handleStreamUpdate(msg, kind, conn) ==
    IF msg.status = "error" THEN msg
    ELSE [msg EXCEPT
            !.content = (IF msg.reconnecting THEN {} ELSE @)
                        \cup (IF kind = "content" THEN {conn} ELSE {}),
            !.status = "streaming",
            !.reconnecting = FALSE]

handleStreamComplete(msg) ==
    IF msg.status \in {"complete", "error"} THEN msg
    ELSE [msg EXCEPT !.status = "complete"]

handleStreamError(msg) ==
    [msg EXCEPT !.content = {PageText}, !.status = "error", !.reconnecting = FALSE]

handleStreamReconnect(msg) ==
    [msg EXCEPT !.content = {PageText}, !.status = "loading", !.reconnecting = TRUE]

\* Mutant: an answer of which nothing has arrived is forgotten.
finalizeStoppedStreaming(msg) ==
    IF msg.status = "streaming" THEN [msg EXCEPT !.status = "complete"] ELSE msg

finalizeStopped(msg) ==
    IF msg.status \in {"loading", "streaming"} THEN [msg EXCEPT !.status = "complete"]
    ELSE msg

\* The message the callbacks write to, whichever it is by then.
LastMessage == Last(Messages)

updateLast(updated) == updateMessages(updateLastAssistantMessage(Messages, updated))

-----------------------------------------------------------------------------
(* The requests                                                            *)

\* startStream of the call `own', next to the sources in `live'.
startStream(own, live) ==
    /\ opened' = opened + 1
    /\ sseSource' = opened + 1
    /\ sources' = live \cup {[conn |-> opened + 1, own |-> own]}

\* sendStreamRequest: an earlier source or timer is left alone.
sendStreamRequest(own) ==
    /\ isStreamComplete' = FALSE
    /\ streamStopped' = FALSE
    /\ isStreaming' = TRUE
    /\ startStream(own, sources)
    /\ silent' = FALSE
    /\ UNCHANGED << retryTimeout, retryCount >>

\* closeSource closes the source of the ref, whichever call's it is.
closeSource(live) == {s \in live : s.conn # sseSource}

\* The answer of the relay arrives, a piece at a time.
ReceiveChunk(s, kind) ==
    /\ ~streamStopped
    /\ updateLast(handleStreamUpdate(LastMessage, kind, s.conn))
    /\ UNCHANGED << chatVars, reloads, opened, lastKey >>

\* [DONE]
ReceiveDone(s) ==
    /\ ~streamStopped
    /\ isStreamComplete' = TRUE
    /\ isStreaming' = FALSE
    /\ sources' = closeSource(sources)
    /\ sseSource' = None
    /\ retryTimeout' = None
    /\ updateLast(handleStreamComplete(LastMessage))
    /\ UNCHANGED << streamStopped, retryCount, silent, reloads, opened, lastKey >>

\* Mutant: one retry too many.
handleErrorOnceMore(own, live) ==
    IF isStreamComplete \/ streamStopped
    THEN /\ sources' = live
         /\ UNCHANGED << isStreaming, sseSource, retryTimeout, retryCount,
                         conversationVars >>
    ELSE /\ sources' = closeSource(live)
         /\ sseSource' = None
         /\ retryCount' = [retryCount EXCEPT ![own] = @ + 1]
         /\ updateLast(handleStreamReconnect(LastMessage))
         /\ retryTimeout' = own
         /\ UNCHANGED isStreaming

\* handleError of the call `own' with the sources in `live' left open.
handleError(own, live) ==
    IF isStreamComplete \/ streamStopped
    THEN /\ sources' = live
         /\ UNCHANGED << isStreaming, sseSource, retryTimeout, retryCount,
                         conversationVars >>
    ELSE /\ sources' = closeSource(live)
         /\ sseSource' = None
         /\ \/ /\ retryCount[own] >= MAX_STREAM_RETRIES
               /\ isStreaming' = FALSE
               /\ updateLast(handleStreamError(LastMessage))
               /\ UNCHANGED << retryTimeout, retryCount >>
            \/ /\ retryCount[own] < MAX_STREAM_RETRIES
               /\ retryCount' = [retryCount EXCEPT ![own] = @ + 1]
               /\ updateLast(handleStreamReconnect(LastMessage))
               /\ retryTimeout' = own
               /\ UNCHANGED isStreaming

\* The connection fails, or could not be made.
SourceFails(s) ==
    /\ handleError(s.own, sources \ {s})
    /\ UNCHANGED << isStreamComplete, streamStopped, silent, reloads, opened,
                    lastKey >>

\* A chunk that is not JSON.
ReceiveGarbage(s) ==
    /\ ~streamStopped
    /\ handleError(s.own, sources)
    /\ UNCHANGED << isStreamComplete, streamStopped, silent, reloads, opened,
                    lastKey >>

\* The connection ends without [DONE]: no handler is called.
SourceEnds(s) ==
    /\ sources' = sources \ {s}
    /\ silent' = (silent \/ isStreaming)
    /\ UNCHANGED << stateVars, isStreaming, sseSource, retryTimeout,
                    isStreamComplete, streamStopped, retryCount >>

\* Mutant: the timer of a reconnection does not start the stream again.
RetryTimeoutLost ==
    /\ retryTimeout # None
    /\ retryTimeout' = None
    /\ UNCHANGED << stateVars, isStreaming, sseSource, isStreamComplete,
                    streamStopped, retryCount, sources, silent >>

\* The timer of a reconnection fires.
RetryTimeout ==
    /\ retryTimeout # None
    /\ retryTimeout' = None
    /\ IF streamStopped \/ isStreamComplete
       THEN UNCHANGED << opened, sseSource, sources >>
       ELSE startStream(retryTimeout, sources)
    /\ UNCHANGED << conversationVars, reloads, lastKey, isStreaming,
                    isStreamComplete, streamStopped, retryCount, silent >>

\* Mutant: Stop leaves the timer of a reconnection.
stopGenerationTimer ==
    /\ streamStopped' = TRUE
    /\ sources' = closeSource(sources)
    /\ sseSource' = None
    /\ isStreaming' = FALSE
    /\ updateLast(finalizeStopped(LastMessage))
    /\ UNCHANGED << retryTimeout, isStreamComplete, retryCount, silent, reloads,
                    opened, lastKey >>

\* stopGeneration of the chat, with stopStream.
stopGeneration ==
    /\ streamStopped' = TRUE
    /\ retryTimeout' = None
    /\ sources' = closeSource(sources)
    /\ sseSource' = None
    /\ isStreaming' = FALSE
    /\ updateLast(finalizeStopped(LastMessage))
    /\ UNCHANGED << isStreamComplete, retryCount, silent, reloads, opened, lastKey >>

\* The connection of a source comes to its end, one way or the other.
SourceSettles(s) == ReceiveDone(s) \/ SourceFails(s) \/ SourceEnds(s)

ChatNext ==
    \/ RetryTimeout
    \/ \E s \in sources :
          \/ \E kind \in {"content", "reasoning"} : ReceiveChunk(s, kind)
          \/ ReceiveGarbage(s)
          \/ SourceSettles(s)
=============================================================================

----------------------- MODULE ImagePlaygroundProofs -----------------------
(***************************************************************************)
(* Proofs about ImagePlayground for any number of conversations,           *)
(* submissions, conversions at a time, polls, reloads and failed saves: an *)
(* entry shows only its own pictures, a submission finds its own entry, a  *)
(* task that is under way survives a reload, and what is settled stays.    *)
(***************************************************************************)
EXTENDS ImagePlayground, SequenceTheorems, TLAPS

\* The entry waits for a task of the server.
Pending(msg) == msg.status = "loading" /\ msg.taskId # None

\* Pictures and task of an entry are its own.
Own(msg) ==
    /\ msg.images \in {None, msg.key}
    /\ msg.taskId \in {None, msg.key}

\* The messages of one conversation: keys that were given out before k, each once.
Page(ms, k) ==
    /\ \A msg \in ToSet(ms) : Own(msg) /\ msg.key < k
    /\ \A m, n \in ToSet(ms) : m.key = n.key => m = n

\* The conversations of the page or of the storage.
Shelf(cs, k) ==
    /\ cs \in Seq(Conversation)
    /\ \A i, j \in DOMAIN cs : cs[i].id = cs[j].id => i = j
    /\ \A i \in DOMAIN cs : Page(cs[i].messages, k)

\* An old closure may copy entries from one conversation to another.  Of the
\* copies that have the task all wait for it or none does: a task that is resumed
\* finds none that is settled.
AllWait(cs) ==
    \A i, j \in DOMAIN cs :
        \A m \in ToSet(cs[i].messages), n \in ToSet(cs[j].messages) :
            Pending(m) /\ n.taskId = m.taskId => Pending(n)

StateInv ==
    /\ Shelf(conversations, nextKey) /\ AllWait(conversations)
    /\ active \in Ids(conversations)
    /\ stored = [conversations |-> stored.conversations, active |-> stored.active]
    /\ Shelf(stored.conversations, nextKey) /\ AllWait(stored.conversations)
    /\ nextKey \in Nat \ {0} /\ lostSaves \in Nat
    /\ isGenerating \in BOOLEAN /\ interfered \in BOOLEAN

\* What a conversion has captured waits for no task, and has none that an entry
\* of the page waits for: nothing is captured while one waits.
CaptureInv ==
    /\ converting \in Seq(Seq(Message))
    /\ \A c \in DOMAIN converting :
          /\ Page(converting[c], nextKey)
          /\ \A m \in ToSet(converting[c]) :
                /\ ~Pending(m)
                /\ \A n \in AllMessages(conversations) : Pending(n) => m.taskId # n.taskId

WaitInv ==
    /\ waits \subseteq Wait
    /\ \A w \in waits :
          IF w.by = "submit"
          THEN /\ w.key \in Keys /\ w.key < nextKey /\ w.task \in {None, w.key}
               /\ w.pc = "create" => w.task = None
          ELSE w.pc = "poll" /\ w.cancelled /\ w.task \in Keys
    /\ \A w, v \in waits : w.by = "submit" /\ v.by = "submit" /\ w.key = v.key => w = v

\* As long as the server has not answered, no copy of the entry has a task; then
\* the copy that gets it is in the active conversation and stays there.
PlaceInv ==
    \A w \in waits : w.by = "submit" =>
        /\ w.pc = "create" =>
              /\ \A m \in AllMessages(conversations) :
                    m.key = w.key => m.status = "loading" /\ m.taskId = None
              /\ \A c \in DOMAIN converting : \A m \in ToSet(converting[c]) :
                    m.key = w.key => m.status = "loading" /\ m.taskId = None
        /\ \A i \in DOMAIN conversations : \A m \in ToSet(conversations[i].messages) :
              Pending(m) /\ m.taskId = w.key => conversations[i].id = active

\* A visit in which the user has not acted during a conversion.
CalmInv ==
    ~interfered =>
        /\ waits # {} => isGenerating
        /\ \A w \in waits : w.by = "submit" =>
              /\ waits = {w}
              /\ \E m \in ToSet(messages) : m.key = w.key
              /\ \A i \in DOMAIN conversations : \A m \in ToSet(conversations[i].messages) :
                    m.key = w.key => /\ conversations[i].id = active
                                     /\ m.status = "loading" /\ m.taskId = w.task
        /\ \A w \in waits : w.by = "resume" =>
              /\ \A m \in AllMessages(conversations) : m.taskId = w.task => Pending(m)
              /\ \A v \in waits : v.by = "resume" /\ v.task = w.task => v = w
        /\ converting # << >> =>
              /\ waits = {} /\ ~isGenerating
              /\ converting = << messages >>
              /\ \A m \in AllMessages(conversations) : ~Pending(m)

\* Every save since the submission has succeeded.
SavedInv ==
    lostSaves = 0 /\ (\E w \in waits : w.by = "submit") =>
        stored.conversations = conversations /\ stored.active = active

ImageInv == StateInv /\ CaptureInv /\ WaitInv /\ PlaceInv /\ CalmInv /\ SavedInv

-----------------------------------------------------------------------------
(* Messages                                                                *)

LEMMA InAll ==
    ASSUME NEW cs, NEW m
    PROVE  m \in AllMessages(cs) <=> \E i \in DOMAIN cs : m \in ToSet(cs[i].messages)
BY DEF AllMessages

\* The effect has nothing to resume.
LEMMA NothingPending ==
    ASSUME ~isGenerating, ~EffectDue
    PROVE  \A m \in AllMessages(conversations) : ~Pending(m)
BY DEF EffectDue, pendingTaskIds, Pending

LEMMA MessageTypes ==
    ASSUME NEW cs \in Seq(Conversation), NEW i \in DOMAIN cs
    PROVE  /\ cs[i].messages \in Seq(Message) /\ cs[i].id \in ConversationIds
           /\ cs[i] = [id |-> cs[i].id, messages |-> cs[i].messages]
           /\ \A m \in ToSet(cs[i].messages) : m \in Message
<1>1. cs[i] \in Conversation
  OBVIOUS
<1>2. cs[i].messages \in Seq(Message) /\ cs[i].id \in ConversationIds
  BY <1>1 DEF Conversation
<1>3. cs[i] = [id |-> cs[i].id, messages |-> cs[i].messages]
  BY <1>1 DEF Conversation
<1>4. \A m \in ToSet(cs[i].messages) : m \in Message
  BY <1>2 DEF ToSet
<1> QED BY <1>2, <1>3, <1>4

\* The messages the page shows are those of the one active conversation.
LEMMA ActiveOf ==
    ASSUME NEW cs, NEW k, Shelf(cs, k), NEW id \in Ids(cs)
    PROVE  \E a \in DOMAIN cs :
              /\ cs[a].id = id /\ MessagesOf(cs, id) = cs[a].messages
              /\ \A i \in DOMAIN cs : cs[i].id = id => i = a
BY DEF Shelf, Ids, MessagesOf

LEMMA ActiveLemma ==
    ASSUME NEW k, Shelf(conversations, k), active \in Ids(conversations)
    PROVE  \E a \in DOMAIN conversations :
              /\ conversations[a].id = active /\ messages = conversations[a].messages
              /\ \A i \in DOMAIN conversations : conversations[i].id = active => i = a
BY ActiveOf DEF messages

\* A list over the same positions is a sequence, too.
LEMMA SameLength ==
    ASSUME NEW S, NEW s \in Seq(S), NEW R, NEW t, DOMAIN t = DOMAIN s,
           t = [i \in DOMAIN s |-> t[i]], \A i \in DOMAIN s : t[i] \in R
    PROVE  t \in Seq(R)
<1>1. DOMAIN s = 1 .. Len(s) /\ Len(s) \in Nat
  OBVIOUS
<1>2. t \in [1 .. Len(s) -> R]
  BY <1>1
<1> QED BY <1>1, <1>2, SeqDef

\* What the updater f makes of the messages with one of the keys
LEMMA PatchedLemma ==
    ASSUME NEW ms \in Seq(Message), NEW keys, NEW f \in [Message -> Message]
    PROVE  /\ Patched(ms, keys, f) \in Seq(Message)
           /\ \A n \in ToSet(Patched(ms, keys, f)) :
                 \E m \in ToSet(ms) : n = IF m.key \in keys THEN f[m] ELSE m
           /\ \A m \in ToSet(ms) :
                 (IF m.key \in keys THEN f[m] ELSE m) \in ToSet(Patched(ms, keys, f))
<1> DEFINE ps == Patched(ms, keys, f)
<1>1. DOMAIN ps = DOMAIN ms /\ \A i \in DOMAIN ms :
         ps[i] = IF ms[i].key \in keys THEN f[ms[i]] ELSE ms[i]
  BY DEF Patched
<1>2. ps = [i \in DOMAIN ms |-> ps[i]]
  BY DEF Patched
<1>3. \A i \in DOMAIN ms : ms[i] \in Message
  OBVIOUS
<1>4. \A i \in DOMAIN ms : ps[i] \in Message
  BY <1>1, <1>3
<1> HIDE DEF ps
<1>5. ps \in Seq(Message)
  BY <1>1, <1>2, <1>4, SameLength
<1>6. \A n \in ToSet(ps) : \E m \in ToSet(ms) : n = IF m.key \in keys THEN f[m] ELSE m
  BY <1>1 DEF ToSet
<1>7. \A m \in ToSet(ms) : (IF m.key \in keys THEN f[m] ELSE m) \in ToSet(ps)
  BY <1>1 DEF ToSet
<1> QED BY <1>5, <1>6, <1>7 DEF ps

\* The step changes the entries with a key of K[i] in the i-th conversation by f.
Rewritten(K, f) ==
    /\ conversations' \in Seq(Conversation)
    /\ DOMAIN conversations' = DOMAIN conversations
    /\ \A i \in DOMAIN conversations :
          /\ conversations'[i].id = conversations[i].id
          /\ \A n \in ToSet(conversations'[i].messages) :
                \E m \in ToSet(conversations[i].messages) :
                    n = IF m.key \in K[i] THEN f[m] ELSE m
          /\ \A m \in ToSet(conversations[i].messages) :
                (IF m.key \in K[i] THEN f[m] ELSE m) \in ToSet(conversations'[i].messages)

\* What updateMessages makes of messages ms
LEMMA UpdateLemma ==
    ASSUME NEW k, Shelf(conversations, k), NEW ms \in Seq(Message),
           conversations' = updateMessages(ms)
    PROVE  /\ conversations' \in Seq(Conversation)
           /\ DOMAIN conversations' = DOMAIN conversations
           /\ \A i \in DOMAIN conversations :
                 /\ conversations'[i].id = conversations[i].id
                 /\ conversations'[i].messages = IF conversations[i].id = active THEN ms
                                                 ELSE conversations[i].messages
<1>1. conversations \in Seq(Conversation)
  BY DEF Shelf
<1>2. ASSUME NEW i \in DOMAIN conversations
      PROVE  /\ conversations'[i].id = conversations[i].id
             /\ conversations'[i].messages = IF conversations[i].id = active THEN ms
                                             ELSE conversations[i].messages
             /\ conversations'[i] \in Conversation
  <2>1. /\ conversations[i].messages \in Seq(Message)
        /\ conversations[i].id \in ConversationIds
        /\ conversations[i] \in Conversation
    BY <1>1, MessageTypes
  <2>2. conversations'[i] = IF conversations[i].id = active
                            THEN [conversations[i] EXCEPT !.messages = ms]
                            ELSE conversations[i]
    BY DEF updateMessages
  <2>3. CASE conversations[i].id = active
    BY <2>1, <2>2, <2>3 DEF Conversation
  <2>4. CASE conversations[i].id # active
    BY <2>1, <2>2, <2>4 DEF Conversation
  <2> QED BY <2>3, <2>4
<1>3. DOMAIN conversations' = DOMAIN conversations
      /\ conversations' = [i \in DOMAIN conversations |-> conversations'[i]]
  BY DEF updateMessages
<1>4. conversations' \in Seq(Conversation)
  BY <1>1, <1>2, <1>3, SameLength
<1> QED BY <1>2, <1>3, <1>4

\* updateMessages with an updater that changes the messages with some keys
LEMMA UpdateRewrites ==
    ASSUME NEW k, Shelf(conversations, k), active \in Ids(conversations), NEW keys,
           NEW f \in [Message -> Message],
           conversations' = updateMessages(Patched(messages, keys, f))
    PROVE  Rewritten([i \in DOMAIN conversations |->
                        IF conversations[i].id = active THEN keys ELSE {}], f)
<1> DEFINE K == [i \in DOMAIN conversations |->
                   IF conversations[i].id = active THEN keys ELSE {}]
           ms == Patched(messages, keys, f)
<1>1. PICK a \in DOMAIN conversations :
         /\ conversations[a].id = active /\ messages = conversations[a].messages
         /\ \A i \in DOMAIN conversations : conversations[i].id = active => i = a
  BY ActiveLemma
<1>2. messages \in Seq(Message)
  BY <1>1, MessageTypes DEF Shelf
<1>3. /\ ms \in Seq(Message)
      /\ \A n \in ToSet(ms) :
            \E m \in ToSet(messages) : n = IF m.key \in keys THEN f[m] ELSE m
      /\ \A m \in ToSet(messages) : (IF m.key \in keys THEN f[m] ELSE m) \in ToSet(ms)
  BY <1>2, PatchedLemma
<1> HIDE DEF ms
<1>4. /\ conversations' \in Seq(Conversation)
      /\ DOMAIN conversations' = DOMAIN conversations
      /\ \A i \in DOMAIN conversations :
            /\ conversations'[i].id = conversations[i].id
            /\ conversations'[i].messages = IF conversations[i].id = active THEN ms
                                            ELSE conversations[i].messages
  BY <1>3, UpdateLemma DEF ms
<1>5. ASSUME NEW i \in DOMAIN conversations
      PROVE  /\ conversations'[i].id = conversations[i].id
             /\ \A n \in ToSet(conversations'[i].messages) :
                   \E m \in ToSet(conversations[i].messages) :
                       n = IF m.key \in K[i] THEN f[m] ELSE m
             /\ \A m \in ToSet(conversations[i].messages) :
                   (IF m.key \in K[i] THEN f[m] ELSE m) \in ToSet(conversations'[i].messages)
  <2>1. CASE conversations[i].id = active
    <3>1. K[i] = keys /\ conversations'[i].messages = ms
          /\ conversations[i].messages = messages
      BY <1>1, <1>4, <2>1
    <3> QED BY <1>3, <1>4, <3>1
  <2>2. CASE conversations[i].id # active
    <3>1. K[i] = {} /\ conversations'[i].messages = conversations[i].messages
      BY <1>4, <2>2
    <3> QED BY <1>4, <3>1
  <2> QED BY <2>1, <2>2
<1> QED BY <1>4, <1>5 DEF Rewritten

\* updateTaskMessage
LEMMA TaskRewrites ==
    ASSUME NEW k, Shelf(conversations, k), NEW t, NEW f \in [Message -> Message],
           conversations' = [i \in DOMAIN conversations |->
               [conversations[i] EXCEPT !.messages =
                   Patched(conversations[i].messages,
                           KeysOf(conversations[i].messages, t), f)]]
    PROVE  Rewritten([i \in DOMAIN conversations |->
                        KeysOf(conversations[i].messages, t)], f)
<1> DEFINE K == [i \in DOMAIN conversations |-> KeysOf(conversations[i].messages, t)]
<1>1. conversations \in Seq(Conversation)
  BY DEF Shelf
<1>2. ASSUME NEW i \in DOMAIN conversations
      PROVE  /\ conversations'[i].id = conversations[i].id
             /\ conversations'[i].messages = Patched(conversations[i].messages, K[i], f)
             /\ conversations'[i] \in Conversation
             /\ \A n \in ToSet(conversations'[i].messages) :
                   \E m \in ToSet(conversations[i].messages) :
                       n = IF m.key \in K[i] THEN f[m] ELSE m
             /\ \A m \in ToSet(conversations[i].messages) :
                   (IF m.key \in K[i] THEN f[m] ELSE m) \in ToSet(conversations'[i].messages)
  <2> DEFINE ms == conversations[i].messages
             ps == Patched(ms, K[i], f)
  <2>1. ms \in Seq(Message) /\ conversations[i] \in Conversation
    BY <1>1, MessageTypes
  <2>2. /\ ps \in Seq(Message)
        /\ \A n \in ToSet(ps) : \E m \in ToSet(ms) : n = IF m.key \in K[i] THEN f[m] ELSE m
        /\ \A m \in ToSet(ms) : (IF m.key \in K[i] THEN f[m] ELSE m) \in ToSet(ps)
    <3> HIDE DEF K
    <3> QED BY <2>1, PatchedLemma
  <2>3. conversations'[i] = [conversations[i] EXCEPT !.messages = ps]
    OBVIOUS
  <2> HIDE DEF ps, K
  <2>4. conversations'[i].id = conversations[i].id /\ conversations'[i].messages = ps
        /\ conversations'[i] \in Conversation
    BY <2>1, <2>2, <2>3 DEF Conversation
  <2> QED BY <2>2, <2>4 DEF ps
<1> HIDE DEF K
<1>3. DOMAIN conversations' = DOMAIN conversations
      /\ conversations' = [i \in DOMAIN conversations |-> conversations'[i]]
  OBVIOUS
<1>4. conversations' \in Seq(Conversation)
  BY <1>1, <1>2, <1>3, SameLength
<1>5. Rewritten(K, f)
  BY <1>2, <1>3, <1>4 DEF Rewritten
<1> QED BY <1>5 DEF K

\* Entries that keep their keys, and get pictures and tasks of their own, keep
\* the shelf in order.
LEMMA RewrittenShelf ==
    ASSUME NEW k, Shelf(conversations, k), NEW K, NEW f \in [Message -> Message],
           Rewritten(K, f), \A m \in Message : f[m].key = m.key,
           \A i \in DOMAIN conversations : \A m \in ToSet(conversations[i].messages) :
               m.key \in K[i] => Own(f[m])
    PROVE  Shelf(conversations', k) /\ Ids(conversations') = Ids(conversations)
<1>1. conversations \in Seq(Conversation)
  BY DEF Shelf
<1>2. Ids(conversations') = Ids(conversations)
  BY DEF Rewritten, Ids
<1>3. \A i, j \in DOMAIN conversations' : conversations'[i].id = conversations'[j].id => i = j
  BY DEF Rewritten, Shelf
<1>4. ASSUME NEW i \in DOMAIN conversations' PROVE Page(conversations'[i].messages, k)
  <2>0. i \in DOMAIN conversations /\ Page(conversations[i].messages, k)
        /\ \A m \in ToSet(conversations[i].messages) : m \in Message
    BY <1>1, MessageTypes DEF Rewritten, Shelf
  <2>1. ASSUME NEW n \in ToSet(conversations'[i].messages)
        PROVE  \E m \in ToSet(conversations[i].messages) :
                  /\ m \in Message /\ n = IF m.key \in K[i] THEN f[m] ELSE m
                  /\ n.key = m.key /\ Own(n) /\ m.key < k
    <3>1. PICK m \in ToSet(conversations[i].messages) : n = IF m.key \in K[i] THEN f[m] ELSE m
      BY <2>0 DEF Rewritten
    <3>2. m \in Message /\ Own(m) /\ m.key < k /\ (m.key \in K[i] => Own(f[m]))
          /\ f[m].key = m.key
      BY <2>0 DEF Page
    <3> QED BY <3>1, <3>2
  <2>2. ASSUME NEW n \in ToSet(conversations'[i].messages),
               NEW p \in ToSet(conversations'[i].messages), n.key = p.key
        PROVE  n = p
    <3>1. PICK m \in ToSet(conversations[i].messages) :
             n = (IF m.key \in K[i] THEN f[m] ELSE m) /\ n.key = m.key
      BY <2>1
    <3>2. PICK q \in ToSet(conversations[i].messages) :
             p = (IF q.key \in K[i] THEN f[q] ELSE q) /\ p.key = q.key
      BY <2>1
    <3>3. m = q
      BY <2>0, <2>2, <3>1, <3>2 DEF Page
    <3> QED BY <3>1, <3>2, <3>3
  <2> QED BY <2>1, <2>2 DEF Page
<1> QED BY <1>2, <1>3, <1>4 DEF Rewritten, Shelf

-----------------------------------------------------------------------------
(* Saving                                                                  *)

LEMMA KeysLemma == Keys \subseteq Nat /\ None \notin Keys
BY ImageAssumption DEF Keys, None

\* More keys are given out.
LEMMA ShelfGrows ==
    ASSUME NEW cs, NEW k \in Nat, NEW l \in Nat, k <= l, Shelf(cs, k)
    PROVE  Shelf(cs, l)
<1>1. ASSUME NEW i \in DOMAIN cs PROVE Page(cs[i].messages, l)
  <2>1. Page(cs[i].messages, k) /\ cs \in Seq(Conversation)
    BY DEF Shelf
  <2>2. \A m \in ToSet(cs[i].messages) : m \in Message
    BY <2>1, MessageTypes
  <2>3. \A m \in ToSet(cs[i].messages) : m.key \in Nat
    BY <2>2, KeysLemma DEF Message
  <2> QED BY <2>1, <2>3 DEF Page
<1> QED BY <1>1 DEF Shelf

\* A state that is in order is saved, in full, in part or not at all.
LEMMA PersistKeeps ==
    ASSUME StateInv, NEW cs, NEW id \in Ids(cs), persistConversationState(cs, id),
           Shelf(cs, nextKey'), AllWait(cs), nextKey' \in Nat, nextKey' >= nextKey,
           isGenerating' \in BOOLEAN, interfered' \in BOOLEAN
    PROVE  StateInv' /\ SavedInv'
<1>1. nextKey \in Nat \ {0} /\ lostSaves \in Nat /\ nextKey' \in Nat \ {0}
  BY DEF StateInv
<1>2. Shelf(stored.conversations, nextKey') /\ AllWait(stored.conversations)
      /\ stored = [conversations |-> stored.conversations, active |-> stored.active]
  BY <1>1, ShelfGrows DEF StateInv
<1>3. conversations' = cs /\ active' = id
  BY DEF persistConversationState
<1>4. \/ stored' = [conversations |-> cs, active |-> id] /\ lostSaves' = lostSaves
      \/ stored' = stored /\ lostSaves' = lostSaves + 1
      \/ stored' = [stored EXCEPT !.conversations = cs] /\ lostSaves' = lostSaves + 1
  BY DEF persistConversationState, saveConversationState
<1>5. /\ stored' = [conversations |-> stored'.conversations, active |-> stored'.active]
      /\ stored'.conversations \in {cs, stored.conversations} /\ lostSaves' \in Nat
      /\ lostSaves' = 0 => stored'.conversations = cs /\ stored'.active = id
  <2>1. CASE stored' = [conversations |-> cs, active |-> id] /\ lostSaves' = lostSaves
    BY <1>1, <2>1
  <2>2. CASE stored' = stored /\ lostSaves' = lostSaves + 1
    BY <1>1, <1>2, <2>2
  <2>3. CASE stored' = [stored EXCEPT !.conversations = cs] /\ lostSaves' = lostSaves + 1
    <3>1. stored' = [conversations |-> cs, active |-> stored.active]
      BY <1>2, <2>3
    <3>2. lostSaves' \in Nat /\ lostSaves' # 0
      BY <1>1, <2>3
    <3>3. stored'.conversations = cs /\ stored'.active = stored.active
      BY <3>1
    <3> QED BY <3>1, <3>2, <3>3
  <2> QED BY <1>4, <2>1, <2>2, <2>3
<1>6. Shelf(stored'.conversations, nextKey') /\ AllWait(stored'.conversations)
  BY <1>2, <1>5
<1>7. StateInv'
  BY <1>1, <1>3, <1>5, <1>6 DEF StateInv
<1>8. SavedInv'
  BY <1>3, <1>5 DEF SavedInv
<1> QED BY <1>7, <1>8

\* What is settled in a conversation that the step leaves stays there.
Kept ==
    \A i \in DOMAIN conversations, j \in DOMAIN conversations' :
        conversations[i].id = conversations'[j].id =>
            \A msg \in ToSet(conversations[i].messages) :
                msg.status # "loading" => msg \in ToSet(conversations'[j].messages)

LEMMA RewrittenKept ==
    ASSUME NEW k, Shelf(conversations, k), NEW K, NEW f, Rewritten(K, f),
           \A i \in DOMAIN conversations : \A m \in ToSet(conversations[i].messages) :
               m.key \in K[i] => m.status = "loading"
    PROVE  Kept
<1> SUFFICES ASSUME NEW i \in DOMAIN conversations, NEW j \in DOMAIN conversations',
                    conversations[i].id = conversations'[j].id,
                    NEW msg \in ToSet(conversations[i].messages), msg.status # "loading"
             PROVE  msg \in ToSet(conversations'[j].messages)
  BY DEF Kept
<1>1. j \in DOMAIN conversations /\ conversations[j].id = conversations[i].id
  BY DEF Rewritten
<1>2. i = j
  BY <1>1 DEF Shelf
<1>3. (IF msg.key \in K[i] THEN f[msg] ELSE msg) \in ToSet(conversations'[i].messages)
  BY DEF Rewritten
<1> QED BY <1>2, <1>3

-----------------------------------------------------------------------------
(* The continuations of handleSubmit and waitForImageTask                  *)

LEMMA BrokenLemma ==
    /\ Broken \in [Message -> Message]
    /\ \A m \in Message :
          /\ Broken[m].key = m.key /\ Broken[m].status = "error"
          /\ Broken[m].taskId = m.taskId /\ Broken[m].images = m.images
BY DEF Broken, Message, Status

\* The types of a waiting call
LEMMA WaitTypes ==
    ASSUME WaitInv, NEW w \in waits
    PROVE  /\ w \in Wait /\ w.by \in {"submit", "resume"} /\ w.pc \in {"create", "poll"}
           /\ w.pc = "create" => w.by = "submit" /\ w.task = None
           /\ w.by = "submit" => /\ w.key \in Keys /\ w.key # None /\ w.key < nextKey
                                 /\ w.task \in {None, w.key}
           /\ w.by = "resume" => w.pc = "poll" /\ w.cancelled /\ w.task \in Keys
BY KeysLemma DEF WaitInv, Wait

\* The answer to a creation: the entry gets its task, or none.
LEMMA PollingKeeps ==
    ASSUME ImageInv, NEW w \in waits, w.pc = "create", NEW t \in {None, w.key},
           Polling(w, t), UNCHANGED << isGenerating, converting, interfered, nextKey >>
    PROVE  ImageInv' /\ Kept
<1> DEFINE f == [m \in Message |-> [m EXCEPT !.taskId = t]]
           K == [i \in DOMAIN conversations |->
                   IF conversations[i].id = active THEN {w.key} ELSE {}]
           v == [w EXCEPT !.pc = "poll", !.task = t]
<1>0. /\ StateInv /\ CaptureInv /\ WaitInv /\ PlaceInv /\ CalmInv /\ SavedInv
      /\ Shelf(conversations, nextKey) /\ active \in Ids(conversations)
      /\ AllWait(conversations) /\ conversations \in Seq(Conversation)
  BY DEF ImageInv, StateInv, Shelf
<1>1. /\ w \in Wait /\ w.by = "submit" /\ w.key \in Keys /\ w.key # None /\ w.task = None
      /\ w.key < nextKey
  BY <1>0, WaitTypes
<1>2. /\ f \in [Message -> Message]
      /\ \A m \in Message : f[m].key = m.key /\ f[m].status = m.status
                            /\ f[m].taskId = t /\ f[m].images = m.images
  BY <1>1 DEF Message
<1>3. PICK a \in DOMAIN conversations :
         /\ conversations[a].id = active /\ messages = conversations[a].messages
         /\ \A i \in DOMAIN conversations : conversations[i].id = active => i = a
  BY <1>0, ActiveLemma
<1>4. /\ conversations' = updateMessages(Patched(messages, {w.key}, f)) /\ active' = active
      /\ waits' = (waits \ {w}) \cup {v}
      /\ persistConversationState(conversations', active)
  BY DEF Polling, persistConversationState
<1> HIDE DEF f
<1>5. Rewritten(K, f)
  BY <1>0, <1>2, <1>4, UpdateRewrites
\* What becomes of an entry
<1>6. ASSUME NEW i \in DOMAIN conversations, NEW n \in ToSet(conversations'[i].messages)
      PROVE  \E m \in ToSet(conversations[i].messages) :
                /\ m \in Message /\ n.key = m.key /\ Own(m) /\ m \in AllMessages(conversations)
                /\ \/ n = m /\ ~ (i = a /\ m.key = w.key)
                   \/ /\ i = a /\ m.key = w.key /\ n.status = "loading" /\ n.taskId = t
                      /\ m.status = "loading" /\ m.taskId = None
  <2>1. PICK m \in ToSet(conversations[i].messages) : n = IF m.key \in K[i] THEN f[m] ELSE m
    BY <1>5, <1>6 DEF Rewritten
  <2>2. m \in Message /\ Own(m) /\ m \in AllMessages(conversations)
    BY <1>0, <1>6, MessageTypes, InAll DEF Shelf, Page
  <2>3. m.key \in K[i] <=> (i = a /\ m.key = w.key)
    BY <1>3, <1>6
  <2>4. m.key = w.key => m.status = "loading" /\ m.taskId = None
    BY <1>0, <1>1, <2>2 DEF PlaceInv
  <2> HIDE DEF K
  <2> QED BY <1>2, <2>1, <2>2, <2>3, <2>4
<1>7. Shelf(conversations', nextKey) /\ Ids(conversations') = Ids(conversations)
  <2>1. ASSUME NEW i \in DOMAIN conversations, NEW m \in ToSet(conversations[i].messages),
               m.key \in K[i]
        PROVE  Own(f[m])
    <3>1. m \in Message /\ Own(m) /\ m.key = w.key
      BY <1>0, <2>1, MessageTypes DEF Shelf, Page
    <3> QED BY <1>2, <3>1 DEF Own
  <2> HIDE DEF K
  <2> QED BY <1>0, <1>2, <1>5, <2>1, RewrittenShelf
<1>8. DOMAIN conversations' = DOMAIN conversations
      /\ \A i \in DOMAIN conversations : conversations'[i].id = conversations[i].id
  BY <1>5 DEF Rewritten
\* The entry was nowhere known with a task.
<1>9. \A m \in AllMessages(conversations) : Own(m) => m.taskId # w.key
  BY <1>0, <1>1 DEF PlaceInv, Own
<1> HIDE DEF K
<1>10. AllWait(conversations')
  <2> SUFFICES ASSUME NEW i \in DOMAIN conversations, NEW j \in DOMAIN conversations,
                      NEW x \in ToSet(conversations'[i].messages),
                      NEW y \in ToSet(conversations'[j].messages),
                      Pending(x), y.taskId = x.taskId
               PROVE  Pending(y)
    BY <1>8 DEF AllWait
  <2>1. PICK m \in ToSet(conversations[i].messages) :
           /\ m \in Message /\ x.key = m.key /\ Own(m) /\ m \in AllMessages(conversations)
           /\ \/ x = m /\ ~ (i = a /\ m.key = w.key)
              \/ /\ i = a /\ m.key = w.key /\ x.status = "loading" /\ x.taskId = t
                 /\ m.status = "loading" /\ m.taskId = None
    BY <1>6
  <2>2. PICK n \in ToSet(conversations[j].messages) :
           /\ n \in Message /\ y.key = n.key /\ Own(n) /\ n \in AllMessages(conversations)
           /\ \/ y = n /\ ~ (j = a /\ n.key = w.key)
              \/ /\ j = a /\ n.key = w.key /\ y.status = "loading" /\ y.taskId = t
                 /\ n.status = "loading" /\ n.taskId = None
    BY <1>6
  <2>3. CASE x = m /\ y = n
    BY <1>0, <2>3 DEF AllWait
  <2>4. CASE y.status = "loading" /\ y.taskId = t
    BY <2>4 DEF Pending
  <2>5. CASE x.taskId = t /\ y = n
    BY <1>9, <2>2, <2>5 DEF Pending
  <2> QED BY <2>1, <2>2, <2>3, <2>4, <2>5
<1>11. StateInv' /\ SavedInv'
  <2>1. nextKey \in Nat /\ isGenerating \in BOOLEAN /\ interfered \in BOOLEAN
    BY <1>0 DEF StateInv
  <2> QED BY <1>0, <1>4, <1>7, <1>10, <2>1, PersistKeeps
<1>12. CaptureInv'
  <2>1. ASSUME NEW c \in DOMAIN converting, NEW m \in ToSet(converting[c]),
               NEW n \in AllMessages(conversations'), Pending(n), m.taskId = n.taskId
        PROVE  FALSE
    <3>1. PICK i \in DOMAIN conversations : n \in ToSet(conversations'[i].messages)
      BY <1>8, <2>1, InAll
    <3>2. PICK p \in ToSet(conversations[i].messages) :
             p \in AllMessages(conversations) /\ (n = p \/ n.taskId = t)
      BY <1>6, <3>1
    <3>3. Own(m) /\ (m.key = w.key => m.taskId = None)
          /\ \A q \in AllMessages(conversations) : Pending(q) => m.taskId # q.taskId
      BY <1>0, <1>1, <2>1 DEF CaptureInv, Page, PlaceInv
    <3> QED BY <1>1, <2>1, <3>2, <3>3 DEF Pending, Own
  <2> QED BY <1>0, <2>1 DEF CaptureInv
<1>13. v \in Wait /\ v.by = "submit" /\ v.pc = "poll" /\ v.key = w.key /\ v.task = t
  BY <1>1 DEF Wait
<1> HIDE DEF v
<1>14. WaitInv'
  BY <1>0, <1>1, <1>4, <1>13 DEF WaitInv
<1>15. PlaceInv'
  <2> SUFFICES ASSUME NEW u \in waits', u.by = "submit"
               PROVE  /\ u.pc = "create" =>
                            /\ \A m \in AllMessages(conversations') :
                                  m.key = u.key => m.status = "loading" /\ m.taskId = None
                            /\ \A c \in DOMAIN converting : \A m \in ToSet(converting[c]) :
                                  m.key = u.key => m.status = "loading" /\ m.taskId = None
                      /\ \A i \in DOMAIN conversations :
                           \A m \in ToSet(conversations'[i].messages) :
                             Pending(m) /\ m.taskId = u.key => conversations[i].id = active
    BY <1>4, <1>8 DEF PlaceInv
  <2>1. u = v \/ (u \in waits /\ u.key # w.key)
    BY <1>0, <1>1, <1>4 DEF WaitInv
  <2>2. ASSUME u.pc = "create", NEW m \in AllMessages(conversations'), m.key = u.key
        PROVE  m.status = "loading" /\ m.taskId = None
    <3>1. u \in waits /\ u.key # w.key
      BY <1>13, <2>1, <2>2
    <3>2. PICK i \in DOMAIN conversations : m \in ToSet(conversations'[i].messages)
      BY <1>8, <2>2, InAll
    <3>3. PICK p \in ToSet(conversations[i].messages) :
             /\ p \in AllMessages(conversations) /\ m.key = p.key
             /\ m = p \/ m.key = w.key
      BY <1>6, <3>2
    <3>4. m = p
      BY <2>2, <3>1, <3>3
    <3> QED BY <1>0, <2>2, <3>1, <3>3, <3>4 DEF PlaceInv
  <2>3. ASSUME u.pc = "create", NEW c \in DOMAIN converting, NEW m \in ToSet(converting[c]),
               m.key = u.key
        PROVE  m.status = "loading" /\ m.taskId = None
    BY <1>0, <1>13, <2>1, <2>3 DEF PlaceInv
  <2>4. ASSUME NEW i \in DOMAIN conversations, NEW m \in ToSet(conversations'[i].messages),
               Pending(m), m.taskId = u.key
        PROVE  conversations[i].id = active
    <3>1. PICK p \in ToSet(conversations[i].messages) :
             /\ p \in AllMessages(conversations) /\ Own(p)
             /\ m = p \/ (i = a /\ m.key = w.key)
      BY <1>6, <2>4
    <3>2. CASE i = a
      BY <1>3, <3>2
    <3>3. CASE m = p /\ i # a
      <4>1. u # v
        BY <1>9, <1>13, <2>4, <3>1, <3>3
      <4> QED BY <1>0, <2>1, <2>4, <3>3, <4>1 DEF PlaceInv
    <3> QED BY <3>1, <3>2, <3>3
  <2> QED BY <2>2, <2>3, <2>4
<1>16. CalmInv'
  <2> SUFFICES ASSUME ~interfered PROVE CalmInv'
    BY DEF CalmInv
  <2>1. /\ waits = {w} /\ isGenerating /\ converting = << >>
        /\ \E m \in ToSet(messages) : m.key = w.key
        /\ \A i \in DOMAIN conversations : \A m \in ToSet(conversations[i].messages) :
              m.key = w.key => conversations[i].id = active
    BY <1>0, <1>1 DEF CalmInv
  <2>2. waits' = {v}
    BY <1>4, <2>1
  <2>3. messages' = conversations'[a].messages
    <3>1. messages' = MessagesOf(conversations', active)
      BY <1>4 DEF messages
    <3> QED BY <1>0, <1>3, <1>7, <1>8, <3>1, ActiveOf
  <2>4. \E m \in ToSet(messages') : m.key = w.key
    <3>1. PICK m \in ToSet(conversations[a].messages) : m.key = w.key
      BY <1>3, <2>1
    <3>2. m \in Message
      BY <1>0, MessageTypes
    <3>3. (IF m.key \in K[a] THEN f[m] ELSE m) \in ToSet(conversations'[a].messages)
      BY <1>5 DEF Rewritten
    <3> QED BY <1>2, <2>3, <3>1, <3>2, <3>3
  <2>5. ASSUME NEW i \in DOMAIN conversations, NEW n \in ToSet(conversations'[i].messages),
               n.key = w.key
        PROVE  conversations[i].id = active /\ n.status = "loading" /\ n.taskId = t
    <3>1. PICK m \in ToSet(conversations[i].messages) :
             /\ n.key = m.key
             /\ \/ ~ (i = a /\ m.key = w.key)
                \/ i = a /\ n.status = "loading" /\ n.taskId = t
      BY <1>6
    <3>2. conversations[i].id = active /\ i = a
      BY <1>3, <2>1, <2>5, <3>1
    <3> QED BY <2>5, <3>1, <3>2
  <2>6. \A i \in DOMAIN conversations' : \A n \in ToSet(conversations'[i].messages) :
           n.key = w.key => /\ conversations'[i].id = active
                            /\ n.status = "loading" /\ n.taskId = t
    BY <1>8, <2>5
  <2> QED BY <1>4, <1>13, <2>1, <2>2, <2>4, <2>6 DEF CalmInv
<1>17. Kept
  <2>1. ASSUME NEW i \in DOMAIN conversations, NEW m \in ToSet(conversations[i].messages),
               m.key \in K[i]
        PROVE  m.status = "loading"
    <3>1. m.key = w.key /\ m \in AllMessages(conversations)
      BY <2>1, InAll DEF K
    <3> QED BY <1>0, <1>1, <3>1 DEF PlaceInv
  <2> QED BY <1>0, <1>5, <2>1, RewrittenKept
<1> QED BY <1>11, <1>12, <1>14, <1>15, <1>16, <1>17 DEF ImageInv
\* The entries that the end of the call w changes are its own: they are not those
\* another call waits for, and every copy that waits for the same task is changed.
Settles(w, K, f) ==
    \A i \in DOMAIN conversations : \A m \in ToSet(conversations[i].messages) :
        m.key \in K[i] =>
            /\ Own(f[m])
            /\ \A j \in DOMAIN conversations : \A n \in ToSet(conversations[j].messages) :
                  Pending(n) /\ n.taskId = m.taskId => n.key \in K[j]
            /\ \A u \in waits \ {w} : u.by = "submit" /\ u.pc = "create" => m.key # u.key
            /\ w.by = "resume" => m.taskId = w.task
            /\ ~interfered => m.status = "loading"

\* A call ends: it settles entries, in the right places, and gives up its turn.
LEMMA SettleKeeps ==
    ASSUME ImageInv, NEW w \in waits, NEW K, NEW f \in [Message -> Message],
           \A m \in Message : /\ f[m].key = m.key /\ f[m].taskId = m.taskId
                              /\ f[m].status # "loading",
           Rewritten(K, f),
           Settles(w, K, f),
           persistConversationState(conversations', active), waits' = waits \ {w},
           isGenerating' \in BOOLEAN, w.by = "resume" => isGenerating' = isGenerating,
           UNCHANGED << converting, interfered, nextKey >>
    PROVE  ImageInv' /\ (~interfered => Kept)
<1>0. /\ StateInv /\ CaptureInv /\ WaitInv /\ PlaceInv /\ CalmInv
      /\ Shelf(conversations, nextKey) /\ active \in Ids(conversations)
      /\ AllWait(conversations) /\ conversations \in Seq(Conversation)
      /\ active' = active
  BY DEF ImageInv, StateInv, Shelf, persistConversationState
<1>1. DOMAIN conversations' = DOMAIN conversations
      /\ \A i \in DOMAIN conversations : conversations'[i].id = conversations[i].id
  BY DEF Rewritten
<1>2. Shelf(conversations', nextKey) /\ Ids(conversations') = Ids(conversations)
  BY <1>0, RewrittenShelf DEF Settles
<1>3. ASSUME NEW i \in DOMAIN conversations, NEW n \in ToSet(conversations'[i].messages)
      PROVE  \E m \in ToSet(conversations[i].messages) :
                /\ m \in AllMessages(conversations) /\ n.key = m.key /\ n.taskId = m.taskId
                /\ \/ n = m /\ m.key \notin K[i]
                   \/ ~Pending(n) /\ m.key \in K[i]
  <2>1. PICK m \in ToSet(conversations[i].messages) : n = IF m.key \in K[i] THEN f[m] ELSE m
    BY <1>3 DEF Rewritten
  <2>2. m \in Message
    BY <1>0, MessageTypes
  <2>3. m \in AllMessages(conversations)
    BY InAll
  <2> QED BY <2>1, <2>2, <2>3 DEF Pending
<1>4. AllWait(conversations')
  <2> SUFFICES ASSUME NEW i \in DOMAIN conversations, NEW j \in DOMAIN conversations,
                      NEW x \in ToSet(conversations'[i].messages),
                      NEW y \in ToSet(conversations'[j].messages),
                      Pending(x), y.taskId = x.taskId
               PROVE  Pending(y)
    BY <1>1 DEF AllWait
  <2>1. x \in ToSet(conversations[i].messages) /\ x.key \notin K[i]
    BY <1>3
  <2>2. PICK n \in ToSet(conversations[j].messages) :
           /\ n.taskId = y.taskId
           /\ y = n \/ n.key \in K[j]
    BY <1>3
  <2>3. n.key \notin K[j]
    BY <2>1, <2>2 DEF Settles
  <2> QED BY <1>0, <2>1, <2>2, <2>3 DEF AllWait
<1>5. StateInv' /\ SavedInv'
  <2>1. nextKey \in Nat /\ isGenerating' \in BOOLEAN /\ interfered \in BOOLEAN
    BY <1>0 DEF StateInv
  <2> QED BY <1>0, <1>2, <1>4, <2>1, PersistKeeps
<1>6. \A i \in DOMAIN conversations : \A n \in ToSet(conversations'[i].messages) :
         Pending(n) => n \in ToSet(conversations[i].messages) /\ n \in AllMessages(conversations)
  BY <1>3
<1>7. CaptureInv'
  <2>1. \A n \in AllMessages(conversations') : Pending(n) => n \in AllMessages(conversations)
    BY <1>1, <1>6, InAll
  <2> QED BY <1>0, <2>1 DEF CaptureInv
<1>8. WaitInv'
  BY <1>0 DEF WaitInv
<1>9. PlaceInv'
  <2> SUFFICES ASSUME NEW u \in waits', u.by = "submit"
               PROVE  /\ u.pc = "create" =>
                            /\ \A m \in AllMessages(conversations') :
                                  m.key = u.key => m.status = "loading" /\ m.taskId = None
                            /\ \A c \in DOMAIN converting : \A m \in ToSet(converting[c]) :
                                  m.key = u.key => m.status = "loading" /\ m.taskId = None
                      /\ \A i \in DOMAIN conversations :
                           \A m \in ToSet(conversations'[i].messages) :
                             Pending(m) /\ m.taskId = u.key => conversations[i].id = active
    BY <1>0, <1>1 DEF PlaceInv
  <2>1. u \in waits \ {w}
    OBVIOUS
  <2>2. ASSUME u.pc = "create", NEW m \in AllMessages(conversations'), m.key = u.key
        PROVE  m.status = "loading" /\ m.taskId = None
    <3>1. PICK i \in DOMAIN conversations : m \in ToSet(conversations'[i].messages)
      BY <1>1, <2>2, InAll
    <3>2. PICK p \in ToSet(conversations[i].messages) :
             /\ p \in AllMessages(conversations) /\ m.key = p.key
             /\ m = p \/ p.key \in K[i]
      BY <1>3, <3>1
    <3>3. \A q \in ToSet(conversations[i].messages) : q.key \in K[i] => q.key # u.key
      BY <2>1, <2>2 DEF Settles
    <3>4. m = p
      BY <2>2, <3>2, <3>3
    <3> QED BY <1>0, <2>1, <2>2, <3>2, <3>4 DEF PlaceInv
  <2>3. ASSUME u.pc = "create", NEW c \in DOMAIN converting, NEW m \in ToSet(converting[c]),
               m.key = u.key
        PROVE  m.status = "loading" /\ m.taskId = None
    BY <1>0, <2>1, <2>3 DEF PlaceInv
  <2>4. ASSUME NEW i \in DOMAIN conversations, NEW m \in ToSet(conversations'[i].messages),
               Pending(m), m.taskId = u.key
        PROVE  conversations[i].id = active
    BY <1>0, <1>6, <2>1, <2>4 DEF PlaceInv
  <2> QED BY <2>2, <2>3, <2>4
<1>10. CalmInv'
  <2> SUFFICES ASSUME ~interfered PROVE CalmInv'
    BY DEF CalmInv
  <2>1. converting = << >> /\ isGenerating
    BY <1>0 DEF CalmInv
  <2>2. CASE w.by = "submit"
    <3>1. waits' = {}
      BY <1>0, <2>2 DEF CalmInv
    <3> QED BY <2>1, <3>1 DEF CalmInv
  <2>3. CASE w.by # "submit"
    <3>1. w.by = "resume"
      BY <1>0, <2>3, WaitTypes
    <3>2. \A u \in waits : u.by # "submit"
      BY <1>0, <2>3 DEF CalmInv
    <3>3. ASSUME NEW u \in waits', u.by = "resume", NEW m \in AllMessages(conversations'),
                 m.taskId = u.task
          PROVE  Pending(m)
      <4>1. u \in waits /\ u.task # w.task
        BY <1>0, <3>1, <3>3 DEF CalmInv
      <4>2. PICK i \in DOMAIN conversations : m \in ToSet(conversations'[i].messages)
        BY <1>1, <3>3, InAll
      <4>3. PICK p \in ToSet(conversations[i].messages) :
               /\ p \in AllMessages(conversations) /\ m.taskId = p.taskId
               /\ m = p \/ p.key \in K[i]
        BY <1>3, <4>2
      <4>4. m = p
        BY <3>1, <3>3, <4>1, <4>3 DEF Settles
      <4> QED BY <1>0, <3>3, <4>1, <4>3, <4>4 DEF CalmInv
    <3>4. \A u, v \in waits' : u.by = "resume" /\ v.by = "resume" /\ v.task = u.task => v = u
      BY <1>0 DEF CalmInv
    <3> QED BY <2>1, <3>1, <3>2, <3>3, <3>4 DEF CalmInv
  <2> QED BY <2>2, <2>3
<1>11. ~interfered => Kept
  BY <1>0, RewrittenKept DEF Settles
<1> QED BY <1>5, <1>7, <1>8, <1>9, <1>10, <1>11 DEF ImageInv
\* The catch block of handleSubmit
LEMMA FailedKeeps ==
    ASSUME ImageInv, NEW w \in waits, w.by = "submit", Failed(w),
           UNCHANGED << converting, interfered, nextKey >>
    PROVE  ImageInv' /\ (~interfered => Kept)
<1> DEFINE f == Broken
           keys == {w.key} \cup (IF w.task = None THEN {} ELSE KeysOf(messages, w.task))
           K == [i \in DOMAIN conversations |->
                   IF conversations[i].id = active THEN keys ELSE {}]
<1>0. /\ StateInv /\ WaitInv /\ PlaceInv /\ CalmInv
      /\ Shelf(conversations, nextKey) /\ active \in Ids(conversations)
      /\ conversations \in Seq(Conversation)
  BY DEF ImageInv, StateInv, Shelf
<1>1. w.key \in Keys /\ w.key # None /\ w.task \in {None, w.key}
  BY <1>0, WaitTypes
<1>2. /\ f \in [Message -> Message]
      /\ \A m \in Message : /\ f[m].key = m.key /\ f[m].taskId = m.taskId
                            /\ f[m].status # "loading" /\ f[m].images = m.images
  BY BrokenLemma
<1>3. PICK a \in DOMAIN conversations :
         /\ conversations[a].id = active /\ messages = conversations[a].messages
         /\ \A i \in DOMAIN conversations : conversations[i].id = active => i = a
  BY <1>0, ActiveLemma
<1>4. /\ conversations' = updateMessages(Patched(messages, keys, f))
      /\ waits' = waits \ {w} /\ isGenerating' = FALSE
      /\ persistConversationState(conversations', active)
  BY DEF Failed, persistConversationState
<1> HIDE DEF f
<1>5. Rewritten(K, f)
  <2> HIDE DEF keys
  <2> QED BY <1>0, <1>2, <1>4, UpdateRewrites
<1>6. ASSUME NEW m \in ToSet(messages), m.key \in keys PROVE m.key = w.key
  <2>1. CASE m.key \in KeysOf(messages, w.task) /\ w.task # None
    <3>1. PICK n \in ToSet(messages) : n.taskId = w.task /\ n.key = m.key
      BY <2>1 DEF KeysOf
    <3>2. Own(n)
      BY <1>0, <1>3 DEF Shelf, Page
    <3> QED BY <1>1, <2>1, <3>1, <3>2 DEF Own
  <2>2. CASE ~(m.key \in KeysOf(messages, w.task) /\ w.task # None)
    BY <1>6, <2>2
  <2> QED BY <2>1, <2>2
<1>7. w.key \in keys
  OBVIOUS
<1> HIDE DEF keys
<1>8. \A i \in DOMAIN conversations : \A m \in ToSet(conversations[i].messages) :
         m.key \in K[i] <=> (i = a /\ m.key = w.key)
  BY <1>3, <1>6, <1>7
<1> HIDE DEF K
<1>9. Settles(w, K, f)
  <2> SUFFICES ASSUME NEW i \in DOMAIN conversations,
                      NEW m \in ToSet(conversations[i].messages), m.key \in K[i]
               PROVE  /\ Own(f[m])
                      /\ \A j \in DOMAIN conversations :
                            \A n \in ToSet(conversations[j].messages) :
                                Pending(n) /\ n.taskId = m.taskId => n.key \in K[j]
                      /\ \A u \in waits \ {w} :
                            u.by = "submit" /\ u.pc = "create" => m.key # u.key
                      /\ w.by = "resume" => m.taskId = w.task
                      /\ ~interfered => m.status = "loading"
    BY DEF Settles
  <2>1. i = a /\ m.key = w.key /\ m \in Message /\ Own(m)
    BY <1>0, <1>8, MessageTypes DEF Shelf, Page
  <2>2. Own(f[m])
    BY <1>2, <2>1 DEF Own
  <2>3. ASSUME NEW j \in DOMAIN conversations, NEW n \in ToSet(conversations[j].messages),
               Pending(n), n.taskId = m.taskId
        PROVE  n.key \in K[j]
    <3>1. n.taskId = w.key /\ Own(n)
      BY <1>0, <2>1, <2>3 DEF Pending, Own, Shelf, Page
    <3>2. j = a
      BY <1>0, <1>3, <2>3, <3>1 DEF PlaceInv
    <3> QED BY <1>1, <1>8, <3>1, <3>2 DEF Own
  <2>4. \A u \in waits \ {w} : u.by = "submit" /\ u.pc = "create" => m.key # u.key
    BY <1>0, <2>1 DEF WaitInv
  <2>5. ~interfered => m.status = "loading"
    BY <1>0, <2>1 DEF CalmInv
  <2> QED BY <2>2, <2>3, <2>4, <2>5
<1>10. isGenerating' \in BOOLEAN /\ w.by # "resume"
  BY <1>4
<1> QED BY <1>2, <1>4, <1>5, <1>9, <1>10, SettleKeeps

\* The result of a task is shown.
LEMMA ShownKeeps ==
    ASSUME ImageInv, NEW w \in waits, w.task # None, Shown(w),
           UNCHANGED << converting, interfered, nextKey >>
    PROVE  ImageInv' /\ (~interfered => Kept)
<1> DEFINE pics == IF tasks[w.task].body = "images" THEN w.task ELSE None
           f == [m \in Message |-> [m EXCEPT !.status = "complete", !.images = pics]]
           K == [i \in DOMAIN conversations |-> KeysOf(conversations[i].messages, w.task)]
<1>0. /\ StateInv /\ WaitInv /\ PlaceInv /\ CalmInv
      /\ Shelf(conversations, nextKey) /\ active \in Ids(conversations)
      /\ conversations \in Seq(Conversation) /\ isGenerating \in BOOLEAN
  BY DEF ImageInv, StateInv, Shelf
<1>1. /\ w.task \in Keys /\ w.by \in {"submit", "resume"}
      /\ w.by = "submit" => w.task = w.key
      /\ w.by = "resume" => w.cancelled
  BY <1>0, WaitTypes
<1>2. pics \in {None, w.task}
  OBVIOUS
<1>3. /\ conversations' = [i \in DOMAIN conversations |->
           [conversations[i] EXCEPT !.messages =
               Patched(conversations[i].messages,
                       KeysOf(conversations[i].messages, w.task), f)]]
      /\ waits' = waits \ {w} /\ isGenerating' = StillLocked(w)
      /\ persistConversationState(conversations', active)
  BY DEF Shown, updateTaskMessage, persistConversationState
<1> HIDE DEF pics
<1>4. /\ f \in [Message -> Message]
      /\ \A m \in Message : /\ f[m].key = m.key /\ f[m].taskId = m.taskId
                            /\ f[m].status # "loading" /\ f[m].images = pics
  BY <1>1, <1>2 DEF Message, Status
<1> HIDE DEF f
<1>5. Rewritten(K, f)
  BY <1>0, <1>3, <1>4, TaskRewrites
<1>6. \A i \in DOMAIN conversations : \A m \in ToSet(conversations[i].messages) :
         m.key \in K[i] <=> m.taskId = w.task
  <2> TAKE i \in DOMAIN conversations
  <2> TAKE m \in ToSet(conversations[i].messages)
  <2>1. Page(conversations[i].messages, nextKey)
    BY <1>0 DEF Shelf
  <2>2. \A n \in ToSet(conversations[i].messages) : n.key = m.key => n = m
    BY <2>1 DEF Page
  <2> QED BY <2>2 DEF KeysOf
<1> HIDE DEF K
<1>7. Settles(w, K, f)
  <2> SUFFICES ASSUME NEW i \in DOMAIN conversations,
                      NEW m \in ToSet(conversations[i].messages), m.key \in K[i]
               PROVE  /\ Own(f[m])
                      /\ \A j \in DOMAIN conversations :
                            \A n \in ToSet(conversations[j].messages) :
                                Pending(n) /\ n.taskId = m.taskId => n.key \in K[j]
                      /\ \A u \in waits \ {w} :
                            u.by = "submit" /\ u.pc = "create" => m.key # u.key
                      /\ w.by = "resume" => m.taskId = w.task
                      /\ ~interfered => m.status = "loading"
    BY DEF Settles
  <2>1. m.taskId = w.task /\ m \in Message /\ Own(m) /\ m \in AllMessages(conversations)
    BY <1>0, <1>6, MessageTypes, InAll DEF Shelf, Page
  <2>2. m.key = w.task
    BY <2>1 DEF Own
  <2>3. Own(f[m])
    BY <1>2, <1>4, <2>1, <2>2 DEF Own
  <2>4. \A u \in waits \ {w} : u.by = "submit" /\ u.pc = "create" => m.key # u.key
    BY <1>0, <2>1 DEF PlaceInv
  <2>5. ~interfered => m.status = "loading"
    <3>1. CASE w.by = "submit"
      BY <1>0, <1>1, <2>2, <3>1 DEF CalmInv
    <3>2. CASE w.by = "resume"
      BY <1>0, <2>1, <3>2 DEF CalmInv, Pending
    <3> QED BY <1>1, <3>1, <3>2
  <2> QED BY <1>6, <2>1, <2>3, <2>4, <2>5
<1>8. isGenerating' \in BOOLEAN /\ (w.by = "resume" => isGenerating' = isGenerating)
  BY <1>0, <1>1, <1>3 DEF StillLocked
<1> QED BY <1>3, <1>4, <1>5, <1>7, <1>8, SettleKeeps

\* A step that leaves the conversations alone
LEMMA StillKept ==
    ASSUME StateInv, UNCHANGED conversations
    PROVE  Kept
BY DEF StateInv, Shelf, Kept

LEMMA StillInv ==
    ASSUME ImageInv, UNCHANGED << conversations, active, stored, lostSaves, nextKey,
                                  interfered, converting >>,
           isGenerating' \in BOOLEAN
    PROVE  StateInv' /\ CaptureInv' /\ messages' = messages
BY DEF ImageInv, StateInv, CaptureInv, messages

\* A call of the effect that resumes tasks is cancelled: it ends without a word.
LEMMA CancelledKeeps ==
    ASSUME ImageInv, NEW w \in waits, w.by = "resume", w.cancelled,
           waits' = waits \ {w}, isGenerating' = StillLocked(w),
           UNCHANGED << conversations, active, stored, lostSaves, converting, interfered,
                        nextKey >>
    PROVE  ImageInv' /\ Kept
<1>0. /\ StateInv /\ CaptureInv /\ WaitInv /\ PlaceInv /\ CalmInv /\ SavedInv
      /\ isGenerating \in BOOLEAN
  BY DEF ImageInv, StateInv
<1>1. isGenerating' = isGenerating
  BY <1>0 DEF StillLocked
<1>2. StateInv' /\ CaptureInv' /\ messages' = messages
  BY <1>0, <1>1, StillInv
<1>3. WaitInv' /\ PlaceInv' /\ SavedInv'
  BY <1>0 DEF WaitInv, PlaceInv, SavedInv
<1>4. CalmInv'
  <2> SUFFICES ASSUME ~interfered PROVE CalmInv'
    BY DEF CalmInv
  <2>1. isGenerating /\ converting = << >> /\ \A u \in waits : u.by # "submit"
    BY <1>0 DEF CalmInv
  <2>2. /\ \A u \in waits' : u.by = "resume" =>
              \A m \in AllMessages(conversations) : m.taskId = u.task => Pending(m)
        /\ \A u, v \in waits' : u.by = "resume" /\ v.by = "resume" /\ v.task = u.task => v = u
    BY <1>0 DEF CalmInv
  <2> QED BY <1>1, <2>1, <2>2 DEF CalmInv
<1> QED BY <1>0, <1>2, <1>3, <1>4, StillKept DEF ImageInv

\* The task is not done, the loop goes on.
LEMMA AgainKeeps ==
    ASSUME ImageInv, NEW w \in waits, w.pc = "poll", AttemptsLeft(w),
           waits' = (waits \ {w}) \cup {[w EXCEPT !.attempt = @ + 1]},
           UNCHANGED << conversations, active, isGenerating, stored, lostSaves, converting,
                        interfered, nextKey >>
    PROVE  ImageInv' /\ Kept
<1> DEFINE v == [w EXCEPT !.attempt = @ + 1]
<1>0. /\ StateInv /\ CaptureInv /\ WaitInv /\ PlaceInv /\ CalmInv /\ SavedInv
      /\ isGenerating \in BOOLEAN
  BY DEF ImageInv, StateInv
<1>1. w \in Wait /\ w.by \in {"submit", "resume"}
  BY <1>0, WaitTypes
<1>2. /\ v \in Wait /\ v.by = w.by /\ v.pc = "poll" /\ v.key = w.key /\ v.task = w.task
      /\ v.cancelled = w.cancelled
  BY <1>1, ImageAssumption DEF Wait, AttemptsLeft
<1>3. waits' = (waits \ {w}) \cup {v}
  OBVIOUS
<1> HIDE DEF v
<1>4. StateInv' /\ CaptureInv' /\ messages' = messages
  BY <1>0, StillInv
<1>5. WaitInv'
  <2>1. waits' \subseteq Wait
    BY <1>0, <1>2, <1>3 DEF WaitInv
  <2>2. ASSUME NEW u \in waits'
        PROVE  IF u.by = "submit"
               THEN /\ u.key \in Keys /\ u.key < nextKey /\ u.task \in {None, u.key}
                    /\ u.pc = "create" => u.task = None
               ELSE u.pc = "poll" /\ u.cancelled /\ u.task \in Keys
    BY <1>0, <1>2, <1>3 DEF WaitInv
  <2>3. ASSUME NEW x \in waits', NEW y \in waits', x.by = "submit", y.by = "submit",
               x.key = y.key
        PROVE  x = y
    BY <1>0, <1>2, <1>3, <2>3 DEF WaitInv
  <2> QED BY <2>1, <2>2, <2>3 DEF WaitInv
<1>6. PlaceInv'
  <2>1. \A i \in DOMAIN conversations : \A m \in ToSet(conversations[i].messages) :
           w.by = "submit" /\ Pending(m) /\ m.taskId = w.key => conversations[i].id = active
    BY <1>0 DEF PlaceInv
  <2> QED BY <1>0, <1>2, <1>3, <2>1 DEF PlaceInv
<1>7. SavedInv'
  BY <1>0, <1>2, <1>3 DEF SavedInv
<1>8. CalmInv'
  <2> SUFFICES ASSUME ~interfered PROVE CalmInv'
    BY DEF CalmInv
  <2>1. isGenerating /\ converting = << >>
    BY <1>0 DEF CalmInv
  <2>2. CASE w.by = "submit"
    <3>1. /\ waits = {w} /\ \E m \in ToSet(messages) : m.key = w.key
          /\ \A i \in DOMAIN conversations : \A m \in ToSet(conversations[i].messages) :
                m.key = w.key => /\ conversations[i].id = active
                                 /\ m.status = "loading" /\ m.taskId = w.task
      BY <1>0, <2>2 DEF CalmInv
    <3>2. waits' = {v}
      BY <1>3, <3>1
    <3> QED BY <1>2, <1>4, <2>1, <2>2, <3>1, <3>2 DEF CalmInv
  <2>3. CASE w.by = "resume"
    <3>1. \A u \in waits : u.by # "submit"
      BY <1>0, <2>3 DEF CalmInv
    <3>2. \A u \in waits : u.by = "resume" =>
             /\ \A m \in AllMessages(conversations) : m.taskId = u.task => Pending(m)
             /\ \A x \in waits : x.by = "resume" /\ x.task = u.task => x = u
      BY <1>0 DEF CalmInv
    <3>3. \A u \in waits' : u.by # "submit"
      BY <1>2, <1>3, <2>3, <3>1
    <3>4. \A u \in waits' : u.by = "resume" =>
             /\ \A m \in AllMessages(conversations) : m.taskId = u.task => Pending(m)
             /\ \A x \in waits' : x.by = "resume" /\ x.task = u.task => x = u
      BY <1>2, <1>3, <2>3, <3>2
    <3> QED BY <1>4, <2>1, <3>3, <3>4 DEF CalmInv
  <2> QED BY <1>1, <2>2, <2>3
<1> QED BY <1>0, <1>4, <1>5, <1>6, <1>7, <1>8, StillKept DEF ImageInv

\* waitForImageTask throws.
LEMMA ThrownKeeps ==
    ASSUME ImageInv, NEW w \in waits, Thrown(w),
           UNCHANGED << converting, interfered, nextKey >>
    PROVE  ImageInv' /\ (~interfered => Kept)
<1>1. w.by = "resume" => w.cancelled
  BY WaitTypes DEF ImageInv
<1>2. \/ w.by = "submit" /\ Failed(w)
      \/ /\ w.by = "resume" /\ w.cancelled /\ isGenerating' = StillLocked(w)
         /\ waits' = waits \ {w} /\ UNCHANGED << conversations, active, stored, lostSaves >>
  BY <1>1 DEF Thrown
<1> QED BY <1>2, FailedKeeps, CancelledKeeps

LEMMA AnsweredKeeps ==
    ASSUME ImageInv, NEW w \in waits, PollAnswered(w) \/ PollFails(w)
    PROVE  ImageInv' /\ (~interfered => Kept)
<1>1. CASE PollFails(w)
  BY <1>1, ThrownKeeps DEF PollFails
<1>2. CASE PollAnswered(w)
  <2>1. w.pc = "poll" /\ UNCHANGED << converting, interfered, nextKey >>
    BY <1>2 DEF PollAnswered
  <2>2. CASE Thrown(w)
    BY <2>1, <2>2, ThrownKeeps
  <2>3. CASE Answer(w) = "succeeded" /\ Shown(w)
    <3>1. w.task # None
      BY <2>3 DEF Answer
    <3> QED BY <2>1, <2>3, <3>1, ShownKeeps
  <2>4. CASE /\ AttemptsLeft(w)
             /\ waits' = (waits \ {w}) \cup {[w EXCEPT !.attempt = @ + 1]}
             /\ UNCHANGED << conversations, active, isGenerating, stored, lostSaves >>
    BY <2>1, <2>4, AgainKeeps
  <2> QED BY <1>2, <2>2, <2>3, <2>4 DEF PollAnswered
<1> QED BY <1>1, <1>2

\* The end of a creation
LEMMA CreationKeeps ==
    ASSUME ImageInv, NEW w \in waits,
           CreateFails(w) \/ createPlaygroundImageTask(w) \/ CreateRefused(w)
    PROVE  ImageInv' /\ (~interfered => Kept)
<1>1. CASE CreateFails(w)
  <2>1. w.by = "submit"
    BY <1>1, WaitTypes DEF CreateFails, ImageInv
  <2> QED BY <1>1, <2>1, FailedKeeps DEF CreateFails
<1>2. CASE createPlaygroundImageTask(w)
  BY <1>2, PollingKeeps DEF createPlaygroundImageTask
<1>3. CASE CreateRefused(w)
  BY <1>3, PollingKeeps DEF CreateRefused
<1> QED BY <1>1, <1>2, <1>3

-----------------------------------------------------------------------------
(* handleSubmit                                                            *)

LEMMA AppendSet ==
    ASSUME NEW S, NEW s \in Seq(S), NEW e \in S
    PROVE  Append(s, e) \in Seq(S) /\ ToSet(Append(s, e)) = ToSet(s) \cup {e}
<1>1. Append(s, e) \in Seq(S) /\ Len(Append(s, e)) = Len(s) + 1 /\ Len(s) \in Nat
  OBVIOUS
<1>2. DOMAIN s = 1 .. Len(s) /\ DOMAIN Append(s, e) = 1 .. (Len(s) + 1)
  BY <1>1
<1>3. \A i \in 1 .. Len(s) : Append(s, e)[i] = s[i]
  OBVIOUS
<1>4. Append(s, e)[Len(s) + 1] = e
  OBVIOUS
<1>5. \A i \in 1 .. (Len(s) + 1) : i \in 1 .. Len(s) \/ i = Len(s) + 1
  BY <1>1
<1>6. 1 .. Len(s) \subseteq 1 .. (Len(s) + 1) /\ Len(s) + 1 \in 1 .. (Len(s) + 1)
  BY <1>1
<1>7. ToSet(Append(s, e)) = ToSet(s) \cup {e}
  BY <1>2, <1>3, <1>4, <1>5, <1>6 DEF ToSet
<1> QED BY <1>1, <1>7

\* What the closure holds can be written back: its entries wait for no task, have
\* none that is waited for, and those of calls that still create theirs have none.
Writable(ms) ==
    /\ ms \in Seq(Message) /\ Page(ms, nextKey)
    /\ \A m \in ToSet(ms) :
          /\ ~Pending(m)
          /\ \A n \in AllMessages(conversations) : Pending(n) => m.taskId # n.taskId
          /\ \A w \in waits : w.by = "submit" /\ w.pc = "create" /\ m.key = w.key =>
                m.status = "loading" /\ m.taskId = None

LEMMA SubmitKeeps ==
    ASSUME ImageInv, NEW ms, Writable(ms), handleSubmit(ms),
           converting' \in Seq(Seq(Message)),
           \A c \in DOMAIN converting' : \E d \in DOMAIN converting :
               converting'[c] = converting[d],
           interfered' \in BOOLEAN,
           ~interfered' => waits = {} /\ converting' = << >>
    PROVE  ImageInv'
<1> DEFINE e == [key |-> nextKey, status |-> "loading", taskId |-> None, images |-> None]
           v == [by |-> "submit", pc |-> "create", key |-> nextKey,
                 task |-> None, attempt |-> 0, cancelled |-> FALSE]
<1>0. /\ StateInv /\ CaptureInv /\ WaitInv /\ PlaceInv /\ CalmInv
      /\ Shelf(conversations, nextKey) /\ active \in Ids(conversations)
      /\ AllWait(conversations) /\ conversations \in Seq(Conversation)
      /\ nextKey \in Nat \ {0}
  BY DEF ImageInv, StateInv, Shelf
<1>1. /\ nextKey \in Keys /\ nextKey # None /\ nextKey' = nextKey + 1
      /\ conversations' = updateMessages(Append(ms, e)) /\ active' = active
      /\ persistConversationState(conversations', active)
      /\ isGenerating' = TRUE /\ waits' = waits \cup {v}
  BY <1>0, ImageAssumption DEF handleSubmit, persistConversationState, Keys, None
<1>2. /\ e \in Message /\ e.key = nextKey /\ e.status = "loading" /\ e.taskId = None
      /\ Own(e) /\ ~Pending(e)
  BY <1>1 DEF Message, Status, Own, Pending
<1>3. /\ v \in Wait /\ v.by = "submit" /\ v.pc = "create" /\ v.key = nextKey /\ v.task = None
  BY <1>1, ImageAssumption DEF Wait
<1> HIDE DEF e, v
<1>4. Append(ms, e) \in Seq(Message) /\ ToSet(Append(ms, e)) = ToSet(ms) \cup {e}
  BY <1>2, AppendSet DEF Writable
<1>5. /\ conversations' \in Seq(Conversation)
      /\ DOMAIN conversations' = DOMAIN conversations
      /\ \A i \in DOMAIN conversations :
            /\ conversations'[i].id = conversations[i].id
            /\ conversations'[i].messages = IF conversations[i].id = active THEN Append(ms, e)
                                            ELSE conversations[i].messages
  BY <1>0, <1>1, <1>4, UpdateLemma
<1>6. PICK a \in DOMAIN conversations :
         /\ conversations[a].id = active /\ messages = conversations[a].messages
         /\ \A i \in DOMAIN conversations : conversations[i].id = active => i = a
  BY <1>0, ActiveLemma
\* Where an entry comes from
<1>7. ASSUME NEW i \in DOMAIN conversations, NEW n \in ToSet(conversations'[i].messages)
      PROVE  \/ i = a /\ n = e
             \/ i = a /\ n \in ToSet(ms)
             \/ i # a /\ n \in ToSet(conversations[i].messages)
                /\ n \in AllMessages(conversations)
  <2>1. CASE i = a
    BY <1>4, <1>5, <1>6, <1>7, <2>1
  <2>2. CASE i # a
    <3>1. n \in ToSet(conversations[i].messages)
      BY <1>5, <1>6, <1>7, <2>2
    <3> QED BY <2>2, <3>1, InAll
  <2> QED BY <2>1, <2>2
\* Keys that were given out before
<1>8. /\ \A m \in ToSet(ms) : m \in Message /\ Own(m) /\ m.key < nextKey /\ m.key \in Nat
      /\ \A m, n \in ToSet(ms) : m.key = n.key => m = n
  <2>1. \A m \in ToSet(ms) : m \in Message
    BY DEF Writable, ToSet
  <2>2. \A m \in ToSet(ms) : m.key \in Nat
    BY <2>1, KeysLemma DEF Message
  <2> QED BY <2>1, <2>2 DEF Writable, Page
<1>9. Shelf(conversations', nextKey') /\ Ids(conversations') = Ids(conversations)
  <2>1. Ids(conversations') = Ids(conversations)
    BY <1>5 DEF Ids
  <2>2. \A i, j \in DOMAIN conversations' :
           conversations'[i].id = conversations'[j].id => i = j
    BY <1>0, <1>5 DEF Shelf
  <2>3. ASSUME NEW i \in DOMAIN conversations PROVE Page(conversations'[i].messages, nextKey')
    <3>1. CASE i = a
      <4>1. ToSet(conversations'[i].messages) = ToSet(ms) \cup {e}
        BY <1>4, <1>5, <1>6, <3>1
      <4>2. \A m \in ToSet(ms) : m.key < nextKey' /\ m.key # e.key
        BY <1>0, <1>1, <1>2, <1>8
      <4>3. e.key < nextKey'
        BY <1>0, <1>1, <1>2
      <4> QED BY <1>2, <1>8, <4>1, <4>2, <4>3 DEF Page
    <3>2. CASE i # a
      <4>1. conversations'[i].messages = conversations[i].messages
        BY <1>5, <1>6, <3>2
      <4>2. Shelf(conversations, nextKey')
        <5>1. nextKey \in Nat /\ nextKey' \in Nat /\ nextKey <= nextKey'
          BY <1>0, <1>1
        <5> QED BY <1>0, <5>1, ShelfGrows
      <4> QED BY <4>1, <4>2 DEF Shelf
    <3> QED BY <3>1, <3>2
  <2> QED BY <1>5, <2>1, <2>2, <2>3 DEF Shelf
<1>10. AllWait(conversations')
  <2> SUFFICES ASSUME NEW i \in DOMAIN conversations, NEW j \in DOMAIN conversations,
                      NEW x \in ToSet(conversations'[i].messages),
                      NEW y \in ToSet(conversations'[j].messages),
                      Pending(x), y.taskId = x.taskId
               PROVE  Pending(y)
    BY <1>5 DEF AllWait
  <2>1. x \in ToSet(conversations[i].messages) /\ x \in AllMessages(conversations)
    BY <1>2, <1>7 DEF Writable
  <2>2. y # e
    BY <1>2, <2>1 DEF Pending
  <2>3. y \notin ToSet(ms)
    BY <2>1 DEF Writable
  <2>4. y \in ToSet(conversations[j].messages)
    BY <1>7, <2>2, <2>3
  <2> QED BY <1>0, <2>1, <2>4 DEF AllWait
<1>11. StateInv' /\ SavedInv'
  <2>1. nextKey' \in Nat /\ nextKey' >= nextKey /\ isGenerating' \in BOOLEAN
    BY <1>0, <1>1
  <2> QED BY <1>0, <1>1, <1>9, <1>10, <2>1, PersistKeeps
<1>12. \A i \in DOMAIN conversations : \A n \in ToSet(conversations'[i].messages) :
          Pending(n) => i # a /\ n \in ToSet(conversations[i].messages)
                        /\ n \in AllMessages(conversations)
  BY <1>2, <1>7 DEF Writable
<1>13. CaptureInv'
  <2>1. \A n \in AllMessages(conversations') : Pending(n) => n \in AllMessages(conversations)
    BY <1>5, <1>12, InAll
  <2>2. ASSUME NEW d \in DOMAIN converting PROVE Page(converting[d], nextKey')
    <3>1. Page(converting[d], nextKey) /\ converting[d] \in Seq(Message)
      BY <1>0 DEF CaptureInv
    <3>2. \A m \in ToSet(converting[d]) : m \in Message
      BY <3>1 DEF ToSet
    <3>3. \A m \in ToSet(converting[d]) : m.key \in Nat
      BY <3>2, KeysLemma DEF Message
    <3> QED BY <1>0, <1>1, <3>1, <3>3 DEF Page
  <2>3. ASSUME NEW c \in DOMAIN converting'
        PROVE  /\ Page(converting'[c], nextKey')
               /\ \A m \in ToSet(converting'[c]) :
                     /\ ~Pending(m)
                     /\ \A n \in AllMessages(conversations') :
                           Pending(n) => m.taskId # n.taskId
    <3>1. PICK d \in DOMAIN converting : converting'[c] = converting[d]
      OBVIOUS
    <3> QED BY <1>0, <2>1, <2>2, <3>1 DEF CaptureInv
  <2> QED BY <2>3 DEF CaptureInv
<1>14. WaitInv'
  <2>1. ASSUME NEW u \in waits, u.by = "submit"
        PROVE  u.key \in Nat /\ u.key < nextKey /\ u.key # v.key
    <3>1. u.key \in Keys /\ u.key < nextKey
      BY <1>0, <2>1, WaitTypes
    <3>2. u.key \in Nat
      BY <3>1, KeysLemma
    <3> QED BY <1>0, <1>3, <3>1, <3>2
  <2>2. waits' \subseteq Wait
    BY <1>0, <1>1, <1>3 DEF WaitInv
  <2>3. ASSUME NEW u \in waits'
        PROVE  IF u.by = "submit"
               THEN /\ u.key \in Keys /\ u.key < nextKey' /\ u.task \in {None, u.key}
                    /\ u.pc = "create" => u.task = None
               ELSE u.pc = "poll" /\ u.cancelled /\ u.task \in Keys
    <3>1. CASE u = v
      BY <1>0, <1>1, <1>3, <3>1
    <3>2. CASE u \in waits
      <4>1. u.by = "submit" => u.key < nextKey'
        BY <1>0, <1>1, <2>1, <3>2
      <4> QED BY <1>0, <3>2, <4>1 DEF WaitInv
    <3> QED BY <1>1, <3>1, <3>2
  <2>4. \A x, y \in waits' : x.by = "submit" /\ y.by = "submit" /\ x.key = y.key => x = y
    BY <1>0, <1>1, <2>1 DEF WaitInv
  <2> QED BY <2>2, <2>3, <2>4 DEF WaitInv
<1>15. PlaceInv'
  <2> SUFFICES ASSUME NEW u \in waits', u.by = "submit"
               PROVE  /\ u.pc = "create" =>
                            /\ \A m \in AllMessages(conversations') :
                                  m.key = u.key => m.status = "loading" /\ m.taskId = None
                            /\ \A c \in DOMAIN converting' : \A m \in ToSet(converting'[c]) :
                                  m.key = u.key => m.status = "loading" /\ m.taskId = None
                      /\ \A i \in DOMAIN conversations :
                           \A m \in ToSet(conversations'[i].messages) :
                             Pending(m) /\ m.taskId = u.key => conversations[i].id = active
    BY <1>1, <1>5 DEF PlaceInv
  <2>0. u = v \/ u \in waits
    BY <1>1
  <2>1. \A i \in DOMAIN conversations : \A m \in ToSet(conversations[i].messages) :
           Own(m) /\ m.key # nextKey
    <3> TAKE i \in DOMAIN conversations
    <3> TAKE m \in ToSet(conversations[i].messages)
    <3>1. Own(m) /\ m.key < nextKey
      BY <1>0 DEF Shelf, Page
    <3>2. m \in Message
      BY <1>0, MessageTypes
    <3>3. m.key \in Nat
      BY <3>2, KeysLemma DEF Message
    <3> QED BY <1>0, <3>1, <3>3
  <2>2. ASSUME u.pc = "create", NEW m \in AllMessages(conversations'), m.key = u.key
        PROVE  m.status = "loading" /\ m.taskId = None
    <3>1. PICK i \in DOMAIN conversations : m \in ToSet(conversations'[i].messages)
      BY <1>5, <2>2, InAll
    <3>2. CASE m = e
      BY <1>2, <3>2
    <3>3. CASE m \in ToSet(ms)
      <4>1. u # v
        BY <1>0, <1>3, <1>8, <2>2, <3>3
      <4> QED BY <2>0, <2>2, <3>3, <4>1 DEF Writable
    <3>4. CASE m \in ToSet(conversations[i].messages) /\ m \in AllMessages(conversations)
      <4>1. u # v
        BY <1>3, <2>1, <2>2, <3>4
      <4> QED BY <1>0, <2>0, <2>2, <3>4, <4>1 DEF PlaceInv
    <3> QED BY <1>7, <3>1, <3>2, <3>3, <3>4
  <2>3. ASSUME u.pc = "create", NEW c \in DOMAIN converting', NEW m \in ToSet(converting'[c]),
               m.key = u.key
        PROVE  m.status = "loading" /\ m.taskId = None
    <3>1. PICK d \in DOMAIN converting : converting'[c] = converting[d]
      BY <2>3
    <3>2. m \in ToSet(converting[d]) /\ m.key < nextKey /\ m \in Message
      BY <1>0, <2>3, <3>1 DEF CaptureInv, Page, ToSet
    <3>3. m.key \in Nat
      BY <3>2, KeysLemma DEF Message
    <3>4. u # v
      BY <1>0, <1>3, <2>3, <3>2, <3>3
    <3> QED BY <1>0, <2>0, <2>3, <3>2, <3>4 DEF PlaceInv
  <2>4. ASSUME NEW i \in DOMAIN conversations, NEW m \in ToSet(conversations'[i].messages),
               Pending(m), m.taskId = u.key
        PROVE  conversations[i].id = active
    <3>1. m \in ToSet(conversations[i].messages)
      BY <1>12, <2>4
    <3>2. u # v
      BY <1>1, <1>3, <2>1, <2>4, <3>1 DEF Own
    <3> QED BY <1>0, <2>0, <2>4, <3>1, <3>2 DEF PlaceInv
  <2> QED BY <2>2, <2>3, <2>4
<1>16. CalmInv'
  <2> SUFFICES ASSUME ~interfered' PROVE CalmInv'
    BY DEF CalmInv
  <2>1. waits' = {v} /\ converting' = << >>
    BY <1>1
  <2>2. messages' = conversations'[a].messages
    <3>1. messages' = MessagesOf(conversations', active)
      BY <1>1 DEF messages
    <3>2. active \in Ids(conversations') /\ conversations'[a].id = active
          /\ a \in DOMAIN conversations'
      BY <1>0, <1>5, <1>6, <1>9
    <3>3. PICK b \in DOMAIN conversations' :
             /\ MessagesOf(conversations', active) = conversations'[b].messages
             /\ \A i \in DOMAIN conversations' : conversations'[i].id = active => i = b
      BY <1>9, <3>2, ActiveOf
    <3> QED BY <3>1, <3>2, <3>3
  <2>3. e \in ToSet(messages')
    BY <1>4, <1>5, <1>6, <2>2
  <2>4. ASSUME NEW i \in DOMAIN conversations', NEW n \in ToSet(conversations'[i].messages),
               n.key = nextKey
        PROVE  conversations'[i].id = active /\ n.status = "loading" /\ n.taskId = None
    <3>1. i \in DOMAIN conversations
      BY <1>5
    <3>2. ASSUME i # a PROVE FALSE
      <4>1. n \in ToSet(conversations[i].messages)
        BY <1>7, <3>1, <3>2
      <4>2. n \in Message /\ n.key < nextKey
        BY <1>0, <3>1, <4>1, MessageTypes DEF Shelf, Page
      <4>3. n.key \in Nat
        BY <4>2, KeysLemma DEF Message
      <4> QED BY <2>4, <4>2, <4>3
    <3>3. n = e
      BY <1>0, <1>7, <1>8, <2>4, <3>1, <3>2
    <3> QED BY <1>2, <1>5, <1>6, <3>1, <3>2, <3>3
  <2>5. isGenerating' /\ active' = active
    BY <1>1
  <2> QED BY <1>2, <1>3, <2>1, <2>3, <2>4, <2>5 DEF CalmInv
<1> QED BY <1>11, <1>13, <1>14, <1>15, <1>16 DEF ImageInv

\* With the messages of the page the closure loses nothing.
LEMMA SubmitKept ==
    ASSUME StateInv, handleSubmit(messages), messages \in Seq(Message)
    PROVE  Kept
<1> DEFINE e == [key |-> nextKey, status |-> "loading", taskId |-> None, images |-> None]
<1>0. /\ Shelf(conversations, nextKey) /\ active \in Ids(conversations)
      /\ nextKey \in Nat \ {0}
  BY DEF StateInv
<1>1. e \in Message /\ conversations' = updateMessages(Append(messages, e))
  BY <1>0, ImageAssumption
     DEF handleSubmit, persistConversationState, Keys, Message, Status
<1> HIDE DEF e
<1>2. Append(messages, e) \in Seq(Message) /\ ToSet(messages) \subseteq ToSet(Append(messages, e))
  BY <1>1, AppendSet
<1>3. /\ DOMAIN conversations' = DOMAIN conversations
      /\ \A i \in DOMAIN conversations :
            /\ conversations'[i].id = conversations[i].id
            /\ conversations'[i].messages =
                  IF conversations[i].id = active THEN Append(messages, e)
                  ELSE conversations[i].messages
  BY <1>0, <1>1, <1>2, UpdateLemma
<1>4. PICK a \in DOMAIN conversations :
         /\ conversations[a].id = active /\ messages = conversations[a].messages
         /\ \A i \in DOMAIN conversations : conversations[i].id = active => i = a
  BY <1>0, ActiveLemma
<1>5. \A i \in DOMAIN conversations :
         ToSet(conversations[i].messages) \subseteq ToSet(conversations'[i].messages)
  BY <1>2, <1>3, <1>4
<1>6. \A i, j \in DOMAIN conversations : conversations[i].id = conversations[j].id => i = j
  BY <1>0 DEF Shelf
<1> QED BY <1>3, <1>5, <1>6 DEF Kept

\* The messages of the page when the user may act
LEMMA PageWritable ==
    ASSUME ImageInv, ~isGenerating, ~EffectDue
    PROVE  Writable(messages)
<1>0. /\ Shelf(conversations, nextKey) /\ active \in Ids(conversations) /\ PlaceInv
      /\ conversations \in Seq(Conversation)
  BY DEF ImageInv, StateInv, Shelf
<1>1. PICK a \in DOMAIN conversations :
         conversations[a].id = active /\ messages = conversations[a].messages
  BY <1>0, ActiveLemma
<1>2. messages \in Seq(Message) /\ Page(messages, nextKey)
  BY <1>0, <1>1, MessageTypes DEF Shelf
<1>3. \A m \in ToSet(messages) : m \in AllMessages(conversations)
  BY <1>1, InAll
<1>4. \A m \in AllMessages(conversations) : ~Pending(m)
  BY NothingPending
<1> QED BY <1>0, <1>2, <1>3, <1>4 DEF Writable, PlaceInv

\* A user who acts without a conversion under way finds the page at rest.
LEMMA ActsLemma ==
    ASSUME ImageInv, UserActs
    PROVE  /\ ~isGenerating /\ ~EffectDue /\ interfered' \in BOOLEAN
           /\ ~interfered' => ~interfered /\ converting = << >> /\ waits = {}
BY DEF UserActs, ImageInv, StateInv, CalmInv

LEMMA SubmitStep ==
    ASSUME ImageInv, Submit
    PROVE  ImageInv' /\ Kept
<1>1. /\ ~isGenerating /\ ~EffectDue /\ interfered' \in BOOLEAN
      /\ ~interfered' => converting = << >> /\ waits = {}
  BY ActsLemma DEF Submit
<1>2. Writable(messages)
  BY <1>1, PageWritable
<1>3. handleSubmit(messages) /\ converting' = converting
  BY DEF Submit
<1>4. converting \in Seq(Seq(Message)) /\ StateInv
  BY DEF ImageInv, CaptureInv
<1>5. \A c \in DOMAIN converting' : \E d \in DOMAIN converting : converting'[c] = converting[d]
  BY <1>3
<1>6. ImageInv'
  BY <1>1, <1>2, <1>3, <1>4, <1>5, SubmitKeeps
<1>7. Kept
  BY <1>2, <1>3, <1>4, SubmitKept DEF Writable
<1> QED BY <1>6, <1>7

LEMMA RemoveLemma ==
    ASSUME NEW S, NEW s \in Seq(S), NEW c \in DOMAIN s
    PROVE  /\ RemoveAt(s, c) \in Seq(S) /\ Len(RemoveAt(s, c)) = Len(s) - 1
           /\ \A i \in DOMAIN RemoveAt(s, c) :
                 /\ i \in Nat /\ (IF i < c THEN i ELSE i + 1) \in DOMAIN s
                 /\ (IF i < c THEN i ELSE i + 1) # c
                 /\ RemoveAt(s, c)[i] = s[IF i < c THEN i ELSE i + 1]
<1> DEFINE l == SubSeq(s, 1, c - 1)
           r == SubSeq(s, c + 1, Len(s))
<1>1. Len(s) \in Nat /\ c \in 1 .. Len(s) /\ DOMAIN s = 1 .. Len(s)
  OBVIOUS
<1>2. /\ l \in Seq(S) /\ Len(l) = c - 1 /\ \A i \in 1 .. (c - 1) : l[i] = s[i]
  BY <1>1
<1>3. /\ r \in Seq(S) /\ Len(r) = Len(s) - c /\ \A i \in 1 .. (Len(s) - c) : r[i] = s[c + i]
  BY <1>1
<1>4. RemoveAt(s, c) = l \o r
  BY DEF RemoveAt
<1> HIDE DEF l, r
<1>5. /\ l \o r \in Seq(S) /\ Len(l \o r) = Len(l) + Len(r)
      /\ \A i \in 1 .. Len(l) + Len(r) :
            (l \o r)[i] = IF i <= Len(l) THEN l[i] ELSE r[i - Len(l)]
  BY <1>2, <1>3, ConcatProperties
<1>6. Len(l) + Len(r) = Len(s) - 1
  BY <1>1, <1>2, <1>3
<1>7. Len(l \o r) = Len(s) - 1 /\ DOMAIN (l \o r) = 1 .. (Len(s) - 1)
  BY <1>5, <1>6
<1>8. ASSUME NEW i \in 1 .. (Len(s) - 1)
      PROVE  /\ i \in Nat /\ (IF i < c THEN i ELSE i + 1) \in DOMAIN s
             /\ (IF i < c THEN i ELSE i + 1) # c
             /\ (l \o r)[i] = s[IF i < c THEN i ELSE i + 1]
  <2>0. (l \o r)[i] = IF i <= c - 1 THEN l[i] ELSE r[i - (c - 1)]
    BY <1>2, <1>5, <1>6
  <2>1. CASE i < c
    <3>1. i \in 1 .. (c - 1) /\ i <= c - 1 /\ i \in 1 .. Len(s) /\ i # c /\ i \in Nat
      BY <1>1, <2>1
    <3>2. (l \o r)[i] = s[i]
      BY <1>2, <2>0, <3>1
    <3> QED BY <1>1, <2>1, <3>1, <3>2
  <2>2. CASE ~(i < c)
    <3>1. /\ i - (c - 1) \in 1 .. (Len(s) - c) /\ c + (i - (c - 1)) = i + 1 /\ ~(i <= c - 1)
          /\ i + 1 \in 1 .. Len(s) /\ i + 1 # c /\ i \in Nat
      BY <1>1, <2>2
    <3>2. r[i - (c - 1)] = s[i + 1]
      BY <1>3, <3>1
    <3>3. (l \o r)[i] = s[i + 1]
      BY <2>0, <3>1, <3>2
    <3> QED BY <1>1, <2>2, <3>1, <3>3
  <2> QED BY <2>1, <2>2
<1> QED BY <1>4, <1>5, <1>7, <1>8

LEMMA ConvertedStep ==
    ASSUME ImageInv, Converted
    PROVE  ImageInv' /\ (~interfered => Kept)
<1>0. StateInv /\ CaptureInv /\ CalmInv /\ PlaceInv /\ interfered \in BOOLEAN
  BY DEF ImageInv, StateInv
<1>1. PICK c \in DOMAIN converting :
         handleSubmit(converting[c]) /\ converting' = RemoveAt(converting, c)
  BY DEF Converted
<1>2. interfered' = interfered
  BY DEF Converted
<1>3. /\ converting' \in Seq(Seq(Message)) /\ Len(converting') = Len(converting) - 1
      /\ \A i \in DOMAIN converting' : \E d \in DOMAIN converting :
            converting'[i] = converting[d]
  <2>1. converting \in Seq(Seq(Message))
    BY <1>0 DEF CaptureInv
  <2>2. /\ RemoveAt(converting, c) \in Seq(Seq(Message))
        /\ Len(RemoveAt(converting, c)) = Len(converting) - 1
        /\ \A i \in DOMAIN RemoveAt(converting, c) :
              /\ i \in Nat /\ (IF i < c THEN i ELSE i + 1) \in DOMAIN converting
              /\ (IF i < c THEN i ELSE i + 1) # c
              /\ RemoveAt(converting, c)[i] = converting[IF i < c THEN i ELSE i + 1]
    <3> DEFINE S == Seq(Message)
    <3>1. converting \in Seq(S) /\ c \in DOMAIN converting
      BY <2>1
    <3> HIDE DEF S
    <3>2. /\ RemoveAt(converting, c) \in Seq(S)
          /\ Len(RemoveAt(converting, c)) = Len(converting) - 1
          /\ \A i \in DOMAIN RemoveAt(converting, c) :
                /\ i \in Nat /\ (IF i < c THEN i ELSE i + 1) \in DOMAIN converting
                /\ (IF i < c THEN i ELSE i + 1) # c
                /\ RemoveAt(converting, c)[i] = converting[IF i < c THEN i ELSE i + 1]
      BY <3>1, RemoveLemma
    <3> QED BY <3>2 DEF S
  <2>3. converting' = RemoveAt(converting, c)
    BY <1>1
  <2>4. ASSUME NEW i \in DOMAIN converting'
        PROVE  \E d \in DOMAIN converting : converting'[i] = converting[d]
    BY <2>2, <2>3, Zenon
  <2> QED BY <2>2, <2>3, <2>4
<1>4. Writable(converting[c])
  <2>1. converting[c] \in Seq(Message)
    BY <1>0 DEF CaptureInv
  <2> QED BY <1>0, <2>1 DEF CaptureInv, Writable, PlaceInv
<1>5. ASSUME ~interfered
      PROVE  waits = {} /\ converting' = << >> /\ converting[c] = messages
  <2>1. waits = {} /\ converting = << messages >>
    BY <1>0, <1>5 DEF CalmInv
  <2>2. Len(converting') = 0 /\ c = 1
    BY <1>3, <2>1
  <2>3. converting' = << >>
    BY <1>3, <2>2, EmptySeq
  <2> QED BY <2>1, <2>2, <2>3
<1>6. ImageInv'
  BY <1>0, <1>1, <1>2, <1>3, <1>4, <1>5, SubmitKeeps
<1>7. ASSUME ~interfered PROVE Kept
  BY <1>0, <1>1, <1>4, <1>5, <1>7, SubmitKept DEF Writable
<1> QED BY <1>6, <1>7

LEMMA StartConversionStep ==
    ASSUME ImageInv, StartConversion
    PROVE  ImageInv' /\ Kept
<1>0. /\ StateInv /\ CaptureInv /\ WaitInv /\ PlaceInv /\ CalmInv /\ SavedInv
      /\ converting \in Seq(Seq(Message))
  BY DEF ImageInv, CaptureInv
<1>1. /\ ~isGenerating /\ ~EffectDue /\ interfered' \in BOOLEAN
      /\ ~interfered' => ~interfered /\ converting = << >> /\ waits = {}
  BY ActsLemma DEF StartConversion
<1>2. Writable(messages) /\ messages \in Seq(Message)
  BY <1>1, PageWritable DEF Writable
<1>3. /\ converting' = Append(converting, messages)
      /\ UNCHANGED << conversations, active, isGenerating, waits, stored, lostSaves, nextKey >>
  BY DEF StartConversion
<1>4. messages' = messages
  BY <1>3 DEF messages
<1>5. StateInv' /\ WaitInv' /\ SavedInv'
  BY <1>0, <1>1, <1>3 DEF StateInv, WaitInv, SavedInv
<1>6. converting' \in Seq(Seq(Message)) /\ \A c \in DOMAIN converting' :
         converting'[c] = messages \/ \E d \in DOMAIN converting : converting'[c] = converting[d]
  BY <1>0, <1>2, <1>3
<1>7. CaptureInv'
  <2> SUFFICES ASSUME NEW c \in DOMAIN converting'
               PROVE  /\ Page(converting'[c], nextKey)
                      /\ \A m \in ToSet(converting'[c]) :
                            /\ ~Pending(m)
                            /\ \A n \in AllMessages(conversations) :
                                  Pending(n) => m.taskId # n.taskId
    BY <1>3, <1>6 DEF CaptureInv
  <2>1. CASE converting'[c] = messages
    BY <1>2, <2>1 DEF Writable
  <2>2. CASE \E d \in DOMAIN converting : converting'[c] = converting[d]
    BY <1>0, <2>2 DEF CaptureInv
  <2> QED BY <1>6, <2>1, <2>2
<1>8. PlaceInv'
  <2>1. ASSUME NEW w \in waits, w.by = "submit", w.pc = "create", NEW c \in DOMAIN converting',
               NEW m \in ToSet(converting'[c]), m.key = w.key
        PROVE  m.status = "loading" /\ m.taskId = None
    <3>1. CASE converting'[c] = messages
      BY <1>2, <2>1, <3>1 DEF Writable
    <3>2. CASE \E d \in DOMAIN converting : converting'[c] = converting[d]
      BY <1>0, <2>1, <3>2 DEF PlaceInv
    <3> QED BY <1>6, <3>1, <3>2
  <2> QED BY <1>0, <1>3, <2>1 DEF PlaceInv
<1>9. CalmInv'
  <2> SUFFICES ASSUME ~interfered' PROVE CalmInv'
    BY DEF CalmInv
  <2>1. waits' = {} /\ converting' = << messages >>
    BY <1>1, <1>2, <1>3
  <2>2. \A m \in AllMessages(conversations) : ~Pending(m)
    BY <1>1, NothingPending
  <2> QED BY <1>1, <1>3, <1>4, <2>1, <2>2 DEF CalmInv
<1> QED BY <1>0, <1>3, <1>5, <1>7, <1>8, <1>9, StillKept DEF ImageInv

\* The effect resumes the tasks that entries wait for.
LEMMA ResumeStep ==
    ASSUME ImageInv, ResumePending
    PROVE  ImageInv' /\ Kept
<1>0. /\ StateInv /\ CaptureInv /\ WaitInv /\ PlaceInv /\ CalmInv /\ SavedInv
      /\ AllWait(conversations) /\ conversations \in Seq(Conversation)
  BY DEF ImageInv, StateInv, Shelf
<1> DEFINE call(t) == [by |-> "resume", pc |-> "poll", key |-> None, task |-> t,
                       attempt |-> 0, cancelled |-> TRUE]
<1>1. /\ EffectDue /\ isGenerating' = TRUE
      /\ waits' = waits \cup {call(t) : t \in pendingTaskIds}
      /\ UNCHANGED << conversations, active, stored, lostSaves, converting, interfered,
                      nextKey >>
  BY DEF ResumePending
<1>2. ASSUME NEW t \in pendingTaskIds
      PROVE  /\ t \in Keys
             /\ \A m \in AllMessages(conversations) : m.taskId = t => Pending(m)
  <2>1. PICK n \in AllMessages(conversations) : Pending(n) /\ n.taskId = t
    BY <1>2 DEF pendingTaskIds, Pending
  <2>2. PICK i \in DOMAIN conversations : n \in ToSet(conversations[i].messages)
    BY <2>1, InAll
  <2>3. n \in Message
    BY <1>0, <2>2, MessageTypes
  <2>4. t \in Keys
    BY <2>1, <2>3 DEF Message, Pending
  <2>5. ASSUME NEW m \in AllMessages(conversations), m.taskId = t PROVE Pending(m)
    <3>1. PICK j \in DOMAIN conversations : m \in ToSet(conversations[j].messages)
      BY <2>5, InAll
    <3> QED BY <1>0, <2>1, <2>2, <2>5, <3>1 DEF AllWait
  <2> QED BY <2>4, <2>5
<1>3. ASSUME NEW t \in Keys
      PROVE  /\ call(t) \in Wait /\ call(t).by = "resume" /\ call(t).pc = "poll"
             /\ call(t).cancelled /\ call(t).task = t
  BY ImageAssumption DEF Wait
<1>4. ASSUME NEW u \in waits'
      PROVE  \/ u \in waits
             \/ \E t \in pendingTaskIds : u = call(t)
  BY <1>1, <1>4
<1> HIDE DEF call
<1>5. StateInv' /\ CaptureInv' /\ messages' = messages
  <2>1. isGenerating' \in BOOLEAN
    BY <1>1
  <2> QED BY <1>1, <2>1, StillInv
<1>6. WaitInv'
  <2>1. ASSUME NEW u \in waits', u \notin waits
        PROVE  u \in Wait /\ u.by = "resume" /\ u.pc = "poll" /\ u.cancelled /\ u.task \in Keys
    <3>1. PICK t \in pendingTaskIds : u = call(t)
      BY <1>4, <2>1
    <3> QED BY <1>2, <1>3, <3>1
  <2>2. waits' \subseteq Wait
    BY <1>0, <2>1 DEF WaitInv
  <2>3. \A u \in waits' :
           IF u.by = "submit"
           THEN /\ u.key \in Keys /\ u.key < nextKey /\ u.task \in {None, u.key}
                /\ u.pc = "create" => u.task = None
           ELSE u.pc = "poll" /\ u.cancelled /\ u.task \in Keys
    BY <1>0, <2>1 DEF WaitInv
  <2>4. \A x, y \in waits' : x.by = "submit" /\ y.by = "submit" /\ x.key = y.key => x = y
    BY <1>0, <2>1 DEF WaitInv
  <2> QED BY <1>1, <2>2, <2>3, <2>4 DEF WaitInv
<1>7. ASSUME NEW u \in waits', u.by = "submit" PROVE u \in waits
  <2>1. ASSUME NEW t \in pendingTaskIds, u = call(t) PROVE FALSE
    BY <1>2, <1>3, <1>7, <2>1
  <2> QED BY <1>4, <2>1
<1>8. PlaceInv' /\ SavedInv'
  BY <1>0, <1>1, <1>7 DEF PlaceInv, SavedInv
<1>9. CalmInv'
  <2> SUFFICES ASSUME ~interfered PROVE CalmInv'
    BY <1>1 DEF CalmInv
  <2>1. waits = {} /\ pendingTaskIds # {}
    BY <1>0, <1>1 DEF CalmInv, EffectDue
  <2>2. converting = << >>
    <3>1. PICK n \in AllMessages(conversations) : Pending(n)
      BY <2>1 DEF pendingTaskIds, Pending
    <3> QED BY <1>0, <3>1 DEF CalmInv
  <2>3. ASSUME NEW u \in waits'
        PROVE  \E t \in pendingTaskIds : u = call(t) /\ u.by = "resume" /\ u.task = t
    BY <1>2, <1>3, <1>4, <2>1
  <2>4. \A u \in waits' : u.by = "resume" /\ u.by # "submit"
    BY <2>3
  <2>5. \A u \in waits' : \A m \in AllMessages(conversations) :
           m.taskId = u.task => Pending(m)
    BY <1>2, <2>3
  <2>6. \A u, v \in waits' : v.task = u.task => v = u
    BY <2>3
  <2> QED BY <1>1, <2>2, <2>4, <2>5, <2>6 DEF CalmInv
<1> QED BY <1>0, <1>1, <1>5, <1>6, <1>8, <1>9, StillKept DEF ImageInv

-----------------------------------------------------------------------------
(* The history sidebar, the reload, the server                             *)

LEMMA BrowseKeeps ==
    ASSUME ImageInv, UserActs, NEW cs, NEW id \in Ids(cs), persistConversationState(cs, id),
           Shelf(cs, nextKey),
           \A m \in AllMessages(cs) : m \in AllMessages(conversations),
           UNCHANGED << isGenerating, waits, converting, nextKey >>
    PROVE  ImageInv'
<1>0. /\ StateInv /\ CaptureInv /\ WaitInv /\ PlaceInv /\ conversations' = cs /\ active' = id
      /\ nextKey \in Nat /\ isGenerating \in BOOLEAN
  BY DEF ImageInv, persistConversationState, StateInv
<1>1. /\ ~isGenerating /\ ~EffectDue /\ interfered' \in BOOLEAN
      /\ ~interfered' => ~interfered /\ converting = << >> /\ waits = {}
  BY ActsLemma
<1>2. \A m \in AllMessages(cs) : ~Pending(m)
  BY <1>1, NothingPending
<1>3. AllWait(cs)
  <2> SUFFICES ASSUME NEW i \in DOMAIN cs, NEW m \in ToSet(cs[i].messages), Pending(m)
               PROVE  FALSE
    BY DEF AllWait
  <2> QED BY <1>2, InAll
<1>4. StateInv' /\ SavedInv'
  <2>1. nextKey' \in Nat /\ nextKey' >= nextKey
    BY <1>0
  <2> QED BY <1>0, <1>1, <1>3, <2>1, PersistKeeps
<1>5. CaptureInv' /\ WaitInv'
  BY <1>0, <1>2 DEF CaptureInv, WaitInv
<1>6. PlaceInv'
  <2>1. \A i \in DOMAIN cs : \A m \in ToSet(cs[i].messages) : ~Pending(m)
    BY <1>2, InAll
  <2> QED BY <1>0, <2>1 DEF PlaceInv
<1>7. CalmInv'
  BY <1>1 DEF CalmInv
<1> QED BY <1>4, <1>5, <1>6, <1>7 DEF ImageInv

LEMMA SwitchStep ==
    ASSUME ImageInv, NEW id, switchConversation(id)
    PROVE  ImageInv' /\ Kept
<1>1. /\ UserActs /\ id \in Ids(conversations) /\ persistConversationState(conversations, id)
      /\ UNCHANGED << isGenerating, waits, converting, nextKey >>
      /\ StateInv /\ Shelf(conversations, nextKey) /\ conversations' = conversations
  BY DEF switchConversation, ImageInv, StateInv, persistConversationState
<1>2. ImageInv'
  BY <1>1, BrowseKeeps
<1>3. Kept
  BY <1>1, StillKept
<1> QED BY <1>2, <1>3

LEMMA NewStep ==
    ASSUME ImageInv, createNewConversation
    PROVE  ImageInv' /\ Kept
<1> DEFINE c == createConversation(FreshId)
           cs == << c >> \o conversations
<1>1. /\ UserActs /\ FreshIds # {} /\ persistConversationState(cs, FreshId)
      /\ UNCHANGED << isGenerating, waits, converting, nextKey >>
      /\ Shelf(conversations, nextKey) /\ conversations \in Seq(Conversation)
  BY DEF createNewConversation, ImageInv, StateInv, Shelf
<1>2. FreshId \in ConversationIds /\ FreshId \notin Ids(conversations)
  BY <1>1 DEF FreshId, FreshIds
<1>3. c \in Conversation /\ c.id = FreshId /\ c.messages = << >>
  BY <1>2 DEF createConversation, Conversation
<1>4. ToSet(c.messages) = {}
  BY <1>3 DEF ToSet
<1> HIDE DEF c
<1>5. /\ << c >> \in Seq(Conversation) /\ Len(<< c >>) = 1 /\ << c >>[1] = c
  BY <1>3
<1>6. /\ cs \in Seq(Conversation) /\ DOMAIN cs = 1 .. (Len(conversations) + 1)
      /\ Len(conversations) \in Nat /\ DOMAIN conversations = 1 .. Len(conversations)
      /\ \A i \in DOMAIN cs : cs[i] = IF i <= 1 THEN c ELSE conversations[i - 1]
  <2>1. /\ cs \in Seq(Conversation) /\ Len(cs) = 1 + Len(conversations)
        /\ \A i \in 1 .. 1 + Len(conversations) :
              cs[i] = IF i <= 1 THEN << c >>[i] ELSE conversations[i - 1]
    BY <1>1, <1>5, ConcatProperties
  <2>2. Len(conversations) \in Nat /\ DOMAIN conversations = 1 .. Len(conversations)
    BY <1>1
  <2>3. DOMAIN cs = 1 .. (Len(conversations) + 1)
    BY <2>1, <2>2
  <2>4. \A i \in 1 .. (Len(conversations) + 1) : i <= 1 => i = 1
    BY <2>2
  <2> HIDE DEF cs
  <2> QED BY <1>5, <2>1, <2>2, <2>3, <2>4
<1>7. persistConversationState(cs, FreshId)
  BY <1>1
<1> HIDE DEF cs
<1>8. ASSUME NEW i \in DOMAIN cs
      PROVE  \/ i = 1 /\ cs[i] = c
             \/ i # 1 /\ i - 1 \in DOMAIN conversations /\ cs[i] = conversations[i - 1]
                /\ cs[i].id # FreshId
  <2>1. i = 1 \/ (~(i <= 1) /\ i # 1 /\ i - 1 \in 1 .. Len(conversations))
    BY <1>6
  <2> QED BY <1>2, <1>6, <2>1 DEF Ids
<1>9. \A i, j \in DOMAIN cs : cs[i].id = cs[j].id => i = j
  <2> SUFFICES ASSUME NEW i \in DOMAIN cs, NEW j \in DOMAIN cs, cs[i].id = cs[j].id
               PROVE  i = j
    OBVIOUS
  <2>1. CASE i = 1 \/ j = 1
    BY <1>3, <1>8, <2>1
  <2>2. CASE i # 1 /\ j # 1
    <3>1. i - 1 = j - 1
      BY <1>1, <1>8, <2>2 DEF Shelf
    <3> QED BY <1>6, <3>1
  <2> QED BY <2>1, <2>2
<1>10. \A i \in DOMAIN cs : Page(cs[i].messages, nextKey)
  BY <1>1, <1>3, <1>4, <1>8 DEF Shelf, Page
<1>11. Shelf(cs, nextKey)
  BY <1>6, <1>9, <1>10 DEF Shelf
<1>12. FreshId \in Ids(cs)
  <2>1. 1 \in DOMAIN cs
    BY <1>6
  <2> QED BY <1>3, <1>8, <2>1 DEF Ids
<1>13. \A m \in AllMessages(cs) : m \in AllMessages(conversations)
  <2> SUFFICES ASSUME NEW m \in AllMessages(cs) PROVE m \in AllMessages(conversations)
    OBVIOUS
  <2>1. PICK i \in DOMAIN cs : m \in ToSet(cs[i].messages)
    BY InAll
  <2> QED BY <1>4, <1>8, <2>1, InAll
<1>14. ImageInv'
  BY <1>1, <1>7, <1>11, <1>12, <1>13, BrowseKeeps
<1>15. Kept
  <2>1. conversations' = cs
    BY <1>7 DEF persistConversationState
  <2> SUFFICES ASSUME NEW i \in DOMAIN conversations, NEW j \in DOMAIN cs,
                      conversations[i].id = cs[j].id
               PROVE  conversations[i] = cs[j]
    BY <2>1 DEF Kept
  <2>2. j # 1
    BY <1>2, <1>3, <1>8 DEF Ids
  <2> QED BY <1>1, <1>8, <2>2 DEF Shelf
<1> QED BY <1>14, <1>15

LEMMA DeleteStep ==
    ASSUME ImageInv, NEW id, deleteConversation(id)
    PROVE  ImageInv' /\ Kept
<1> DEFINE at == CHOOSE i \in DOMAIN conversations : conversations[i].id = id
           cs == RemoveAt(conversations, at)
           nid == IF active = id THEN cs[1].id ELSE active
           old(i) == IF i < at THEN i ELSE i + 1
<1>1. /\ UserActs /\ Len(conversations) > 1 /\ id \in Ids(conversations)
      /\ persistConversationState(cs, nid)
      /\ UNCHANGED << isGenerating, waits, converting, nextKey >>
      /\ Shelf(conversations, nextKey) /\ conversations \in Seq(Conversation)
      /\ active \in Ids(conversations)
  BY DEF deleteConversation, ImageInv, StateInv, Shelf
<1>2. at \in DOMAIN conversations /\ conversations[at].id = id
  BY <1>1 DEF Ids
<1> HIDE DEF at
<1>3. /\ cs \in Seq(Conversation) /\ Len(cs) = Len(conversations) - 1
      /\ \A i \in DOMAIN cs : /\ i \in Nat /\ old(i) \in DOMAIN conversations /\ old(i) # at
                              /\ cs[i] = conversations[old(i)]
  BY <1>1, <1>2, RemoveLemma
<1>4. at \in 1 .. Len(conversations) /\ Len(conversations) \in Nat
      /\ DOMAIN cs = 1 .. (Len(conversations) - 1)
      /\ DOMAIN conversations = 1 .. Len(conversations)
  <2> HIDE DEF cs
  <2> QED BY <1>1, <1>2, <1>3
<1> HIDE DEF cs
<1>5. \A i, j \in DOMAIN cs : old(i) = old(j) => i = j
  BY <1>4
<1>6. \A k \in DOMAIN conversations : k # at => \E i \in DOMAIN cs : old(i) = k
  <2> TAKE k \in DOMAIN conversations
  <2> HAVE k # at
  <2>1. CASE k < at
    <3>1. k \in DOMAIN cs /\ old(k) = k
      BY <1>4, <2>1
    <3> QED BY <3>1
  <2>2. CASE ~(k < at)
    <3>1. k - 1 \in DOMAIN cs /\ old(k - 1) = k
      BY <1>4, <2>2
    <3> QED BY <3>1
  <2> QED BY <2>1, <2>2
<1> HIDE DEF old
<1>7. Shelf(cs, nextKey)
  BY <1>1, <1>3, <1>5 DEF Shelf
<1>8. nid \in Ids(cs)
  <2>1. CASE active = id
    <3>1. 1 \in DOMAIN cs
      BY <1>1, <1>4
    <3> QED BY <2>1, <3>1 DEF Ids
  <2>2. CASE active # id
    <3>1. PICK k \in DOMAIN conversations : conversations[k].id = active
      BY <1>1 DEF Ids
    <3>2. PICK i \in DOMAIN cs : old(i) = k
      BY <1>2, <1>6, <2>2, <3>1
    <3>3. cs[i].id = active
      BY <1>3, <3>1, <3>2
    <3> QED BY <2>2, <3>3 DEF Ids
  <2> QED BY <2>1, <2>2
<1>9. \A m \in AllMessages(cs) : m \in AllMessages(conversations)
  BY <1>3, InAll
<1>10. ImageInv'
  <2> HIDE DEF nid
  <2> QED BY <1>1, <1>7, <1>8, <1>9, BrowseKeeps
<1>11. Kept
  <2>1. conversations' = cs
    BY <1>1 DEF persistConversationState
  <2>2. \A i \in DOMAIN conversations, j \in DOMAIN cs :
           conversations[i].id = cs[j].id => conversations[i] = cs[j]
    BY <1>1, <1>3 DEF Shelf
  <2> QED BY <2>1, <2>2 DEF Kept
<1> QED BY <1>10, <1>11

\* The page is opened again.
LEMMA ReloadStep ==
    ASSUME ImageInv, Reload
    PROVE  ImageInv'
<1> DEFINE scs == stored.conversations
           ld == loadConversationState
<1>0. /\ StateInv /\ Shelf(scs, nextKey) /\ AllWait(scs) /\ scs \in Seq(Conversation)
      /\ nextKey \in Nat \ {0}
  BY DEF ImageInv, StateInv, Shelf
<1>1. /\ waits' = {} /\ converting' = << >> /\ isGenerating' = FALSE /\ interfered' = FALSE
      /\ UNCHANGED << stored, lostSaves, nextKey >>
      /\ \/ /\ ld.conversations # << >> /\ ld.active # None
            /\ conversations' = ld.conversations /\ active' = ld.active
         \/ conversations' = << createConversation(1) >> /\ active' = 1
  BY DEF Reload
<1>2. CaptureInv' /\ WaitInv' /\ PlaceInv' /\ CalmInv' /\ SavedInv'
  BY <1>1 DEF CaptureInv, WaitInv, PlaceInv, CalmInv, SavedInv
<1>3. Shelf(conversations', nextKey) /\ AllWait(conversations') /\ active' \in Ids(conversations')
  <2>1. CASE /\ ld.conversations # << >> /\ ld.active # None
             /\ conversations' = ld.conversations /\ active' = ld.active
    <3>1. /\ ld.conversations = scs
          /\ ld.active = IF stored.active \in Ids(scs) THEN stored.active
                         ELSE IF scs # << >> THEN scs[1].id ELSE None
      BY DEF loadConversationState
    <3> HIDE DEF ld, scs
    <3>2. 1 \in DOMAIN scs
      BY <1>0, <2>1, <3>1
    <3>3. ld.active \in Ids(scs)
      BY <2>1, <3>1, <3>2 DEF Ids
    <3> QED BY <1>0, <2>1, <3>1, <3>3
  <2>2. CASE conversations' = << createConversation(1) >> /\ active' = 1
    <3> DEFINE c == createConversation(1)
    <3>1. c \in Conversation /\ c.id = 1 /\ c.messages = << >>
      BY ImageAssumption DEF createConversation, Conversation, ConversationIds
    <3>2. ToSet(c.messages) = {}
      BY <3>1 DEF ToSet
    <3>3. conversations' = << c >>
      BY <2>2
    <3> HIDE DEF c
    <3>4. /\ conversations' \in Seq(Conversation) /\ DOMAIN conversations' = {1}
          /\ conversations'[1] = c
      BY <3>1, <3>3
    <3> QED BY <2>2, <3>1, <3>2, <3>4 DEF Shelf, Page, AllWait, Ids
  <2> QED BY <1>1, <2>1, <2>2
<1>4. StateInv'
  BY <1>0, <1>1, <1>3 DEF StateInv
<1> QED BY <1>2, <1>4 DEF ImageInv

\* The server does not touch the page.
LEMMA ServerStep ==
    ASSUME ImageInv, UNCHANGED pageVars
    PROVE  ImageInv' /\ Kept
<1>1. StateInv' /\ CaptureInv' /\ WaitInv' /\ PlaceInv' /\ SavedInv'
  BY DEF ImageInv, pageVars, StateInv, CaptureInv, WaitInv, PlaceInv, SavedInv
<1>2. CalmInv'
  BY DEF ImageInv, pageVars, CalmInv, messages
<1>3. Kept
  BY StillKept DEF ImageInv, pageVars
<1> QED BY <1>1, <1>2, <1>3 DEF ImageInv

-----------------------------------------------------------------------------
(* The theorems                                                            *)

LEMMA InitHolds == Init => ImageInv
<1> SUFFICES ASSUME Init PROVE ImageInv
  OBVIOUS
<1> DEFINE c == createConversation(1)
<1>0. /\ conversations = << c >> /\ active = 1 /\ isGenerating = FALSE /\ waits = {}
      /\ converting = << >> /\ interfered = FALSE /\ lostSaves = 0 /\ nextKey = 1
      /\ stored = [conversations |-> << >>, active |-> None]
  BY DEF Init
<1>1. c \in Conversation /\ c.id = 1 /\ c.messages = << >>
  BY ImageAssumption DEF createConversation, Conversation, ConversationIds
<1>2. ToSet(c.messages) = {}
  BY <1>1 DEF ToSet
<1> HIDE DEF c
<1>3. conversations \in Seq(Conversation) /\ DOMAIN conversations = {1} /\ conversations[1] = c
  BY <1>0, <1>1
<1>4. Shelf(conversations, nextKey) /\ AllWait(conversations) /\ active \in Ids(conversations)
  BY <1>0, <1>1, <1>2, <1>3 DEF Shelf, Page, AllWait, Ids
<1>5. stored.conversations = << >> /\ stored.active = None
  BY <1>0
<1>6. << >> \in Seq(Conversation) /\ DOMAIN << >> = {}
  OBVIOUS
<1>7. Shelf(stored.conversations, nextKey) /\ AllWait(stored.conversations)
  BY <1>5, <1>6 DEF Shelf, AllWait
<1>8. StateInv
  <2>1. stored = [conversations |-> stored.conversations, active |-> stored.active]
    BY <1>0
  <2>2. nextKey \in Nat \ {0} /\ lostSaves \in Nat
    BY <1>0
  <2>3. isGenerating \in BOOLEAN /\ interfered \in BOOLEAN
    BY <1>0, Zenon
  <2> QED BY <1>4, <1>7, <2>1, <2>2, <2>3 DEF StateInv
<1>9. CaptureInv
  BY <1>0 DEF CaptureInv
<1>10. WaitInv /\ PlaceInv /\ CalmInv /\ SavedInv
  BY <1>0 DEF WaitInv, PlaceInv, CalmInv, SavedInv
<1> QED BY <1>8, <1>9, <1>10 DEF ImageInv

LEMMA NextHolds ==
    ASSUME ImageInv, reloads \in Nat, [Next]_vars
    PROVE  /\ ImageInv' /\ reloads' \in Nat
           /\ reloads' = reloads /\ ~interfered => Kept
<1>1. CASE ResumePending
  BY <1>1, ResumeStep DEF ResumePending
<1>2. CASE Submit \/ StartConversion \/ Converted
  BY <1>2, SubmitStep, StartConversionStep, ConvertedStep
     DEF Submit, StartConversion, Converted
<1>3. CASE \E w \in waits :
             CreateFails(w) \/ createPlaygroundImageTask(w) \/ CreateRefused(w)
  BY <1>3, CreationKeeps DEF CreateFails, createPlaygroundImageTask, CreateRefused
<1>4. CASE \E w \in waits : PollAnswered(w) \/ PollFails(w)
  BY <1>4, AnsweredKeeps DEF PollAnswered, PollFails
<1>5. CASE createNewConversation
  BY <1>5, NewStep DEF createNewConversation
<1>6. CASE \E id \in ConversationIds : switchConversation(id) \/ deleteConversation(id)
  BY <1>6, SwitchStep, DeleteStep DEF switchConversation, deleteConversation
<1>7. CASE Reload
  <2>1. reloads' # reloads /\ reloads' \in Nat
    BY <1>7 DEF Reload
  <2> QED BY <1>7, <2>1, ReloadStep
<1>8. CASE Server
  <2>1. UNCHANGED pageVars
    BY <1>8 DEF Server, TaskStarts, TaskEnds, ServerRestarts
  <2> QED BY <2>1, ServerStep DEF pageVars
<1>9. CASE UNCHANGED vars
  <2>1. UNCHANGED pageVars
    BY <1>9 DEF vars, pageVars
  <2> QED BY <2>1, ServerStep DEF pageVars
<1> QED BY <1>1, <1>2, <1>3, <1>4, <1>5, <1>6, <1>7, <1>8, <1>9 DEF Next

LEMMA ImageInvHolds == Spec => [](ImageInv /\ reloads \in Nat)
<1>1. Init => ImageInv /\ reloads \in Nat
  BY InitHolds DEF Init
<1>2. ImageInv /\ reloads \in Nat /\ [Next]_vars => (ImageInv /\ reloads \in Nat)'
  BY NextHolds
<1> QED BY <1>1, <1>2, PTL DEF Spec

\* An entry shows pictures only of the task that its own submission created,
\* whatever closures and late answers write to the conversations
\* (updateTaskMessage, updateMessages in handleSubmit).
THEOREM OwnPictures == Spec => []ImagesOwn
<1>1. ImageInv => ImagesOwn
  <2> SUFFICES ASSUME ImageInv PROVE ImagesOwn
    OBVIOUS
  <2>1. \A cs : Shelf(cs, nextKey) => \A m \in AllMessages(cs) : Own(m)
    BY InAll DEF Shelf, Page
  <2> QED BY <2>1 DEF ImageInv, StateInv, ImagesOwn, Own
<1> QED BY <1>1, ImageInvHolds, PTL

\* While a submission is under way the page is locked and shows the entry that the
\* answers will look for (the guards of the history sidebar, handleSubmit).
THEOREM OwnEntry == Spec => []OwnMessage
<1>1. ImageInv => OwnMessage
  <2> SUFFICES ASSUME ImageInv, NEW w \in waits, w.by = "submit", ~interfered
               PROVE  /\ isGenerating
                      /\ \E msg \in ToSet(messages) :
                            /\ msg.key = w.key /\ msg.status = "loading"
                            /\ msg.taskId = w.task
    BY DEF OwnMessage
  <2>0. Shelf(conversations, nextKey) /\ active \in Ids(conversations) /\ CalmInv
    BY DEF ImageInv, StateInv
  <2>1. PICK a \in DOMAIN conversations :
           conversations[a].id = active /\ messages = conversations[a].messages
    BY <2>0, ActiveLemma
  <2>2. isGenerating /\ \E m \in ToSet(messages) : m.key = w.key
    BY <2>0 DEF CalmInv
  <2>3. \A m \in ToSet(conversations[a].messages) :
           m.key = w.key => m.status = "loading" /\ m.taskId = w.task
    BY <2>0 DEF CalmInv
  <2> QED BY <2>1, <2>2, <2>3
<1> QED BY <1>1, ImageInvHolds, PTL

\* A task that is under way can be resumed after a reload: the storage holds its
\* entry where the reload will look (persistConversationState in every update).
THEOREM AlwaysRecoverable == Spec => []Recoverable
<1>1. ImageInv => Recoverable
  <2> SUFFICES ASSUME ImageInv, lostSaves = 0, ~interfered, NEW w \in waits,
                      w.by = "submit", w.task # None
               PROVE  \E msg \in ToSet(MessagesOf(stored.conversations,
                                                  loadConversationState.active)) :
                         msg.key = w.key /\ msg.taskId = w.task /\ msg.status = "loading"
    BY DEF Recoverable
  <2>0. Shelf(conversations, nextKey) /\ active \in Ids(conversations) /\ CalmInv /\ SavedInv
    BY DEF ImageInv, StateInv
  <2>1. stored.conversations = conversations /\ stored.active = active
    BY <2>0 DEF SavedInv
  <2>2. loadConversationState.active = active
    BY <2>0, <2>1 DEF loadConversationState
  <2>3. MessagesOf(stored.conversations, loadConversationState.active) = messages
    BY <2>1, <2>2 DEF messages
  <2>4. PICK a \in DOMAIN conversations :
           conversations[a].id = active /\ messages = conversations[a].messages
    BY <2>0, ActiveLemma
  <2>5. /\ \E m \in ToSet(messages) : m.key = w.key
        /\ \A m \in ToSet(conversations[a].messages) :
              m.key = w.key => m.status = "loading" /\ m.taskId = w.task
    BY <2>0 DEF CalmInv
  <2> QED BY <2>3, <2>4, <2>5
<1> QED BY <1>1, ImageInvHolds, PTL

\* Within a visit an entry that shows its result stays in its conversation as it
\* is, as long as the user waits for conversions (updateMessages,
\* updateTaskMessage, the effect that resumes tasks).
THEOREM ResultsStay == Spec => SettledStays
<1>1. ImageInv /\ reloads \in Nat /\ [Next]_vars =>
         [reloads' = reloads /\ ~interfered =>
            \A i \in DOMAIN conversations, j \in DOMAIN conversations' :
              conversations[i].id = conversations'[j].id =>
                \A msg \in ToSet(conversations[i].messages) :
                    msg.status = "complete" => msg \in ToSet(conversations'[j].messages)]_vars
  <2>1. Kept => \A i \in DOMAIN conversations, j \in DOMAIN conversations' :
                  conversations[i].id = conversations'[j].id =>
                    \A msg \in ToSet(conversations[i].messages) :
                      msg.status = "complete" => msg \in ToSet(conversations'[j].messages)
    BY DEF Kept
  <2> QED BY <2>1, NextHolds
<1> QED BY <1>1, ImageInvHolds, PTL DEF Spec, SettledStays
=============================================================================

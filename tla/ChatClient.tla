------------------------------ MODULE ChatClient -------------------------------
(***************************************************************************)
(* The chat page of the web client (web/src/pages/next-chats, the hooks in *)
(* web/src/hooks) against the conversations the server keeps: questions    *)
(* shown before they are sent, the conversation made with the first one,   *)
(* answers streamed into the last message, stop, regenerate, delete, and   *)
(* the changes of conversation that do and do not end a stream.            *)
(*                                                                         *)
(* A message is its role and its id: the prologue, and an answer the       *)
(* server made up for an error, have an id of no question.  Conversations  *)
(* are numbered in the order they are made.  One step is one event that    *)
(* the browser runs to its end, effects included; React Query drops the    *)
(* answer to a fetch when its key has gone.  Deleting a conversation is    *)
(* one step with the answer of the server; the comparison of several       *)
(* models side by side is left out.                                        *)
(***************************************************************************)
EXTENDS Naturals, Sequences, FiniteSets

CONSTANTS MaxQuestions,     \* bound: message ids the page makes
          MaxConversations, \* bound: conversations ever made; the first exists
          MaxWrites,        \* bound: handlers at work that no stream is read from
          DeletableIds      \* bound: ids of the messages the user may delete

ASSUME ChatAssumption ==
  MaxQuestions \in Nat /\ MaxConversations \in Nat \ {0} /\ MaxWrites \in Nat

NoConversation == 0
Conversations == 1..MaxConversations
NoId == 0
MessageIds == NoId..MaxQuestions
Message == [role : {"question", "answer"}, id : MessageIds]

Question(id) == [role |-> "question", id |-> id]
Answer(id) == [role |-> "answer", id |-> id]
Prologue == Answer(NoId)

VARIABLES at,          \* conversationId of the URL
          fresh,       \* isNew of the URL is 'true'
          shown,       \* derivedMessages
          typed,       \* the input holds text
          idle,        \* done
          answer,      \* the answer of useSendMessageWithSse: <<>> or <<id>>
          resetting,   \* the timer of resetAnswer runs
          controller,  \* the AbortController in use, by number
          fetching,    \* the fetch of the conversation at `at` is out
          listing,     \* the fetch of the list of conversations is out
          temporary,   \* the conversation in the list the server does not know
          creating,    \* calls of setConversation without an answer
          streams,     \* completions whose end has not been read
          asked,       \* message ids made so far
          made,        \* conversation ids made so far
          stored,      \* the server: conversation -> messages
          writes,      \* what its handlers will still write: delete_msg, and
                       \* completions the page has stopped to read
          frozen       \* the reading loop spins: the page does nothing more

url == <<at, fresh>>
list == <<listing, temporary, made>>
chatVars == <<url, shown, typed, idle, answer, resetting, controller, fetching,
              list, creating, streams, asked, stored, writes, frozen>>

Requests == [conversation : Conversations, sent : Seq(Message), id : MessageIds,
             controller : Nat, phase : {"asked", "answering", "stored"}]
Writes == [conversation : Conversations, messages : Seq(Message), deletes : MessageIds]

ChatInit ==
  /\ at = NoConversation /\ fresh = FALSE
  /\ shown = <<>> /\ typed = FALSE /\ idle = TRUE
  /\ answer = <<>> /\ resetting = FALSE /\ controller = 0
  /\ fetching = FALSE /\ listing = TRUE /\ temporary = NoConversation
  /\ creating = {} /\ streams = {} /\ asked = 0 /\ made = 1
  /\ stored = [c \in {1} |-> <<Prologue>>]
  /\ writes = {} /\ frozen = FALSE

-----------------------------------------------------------------------------
(* What the hooks do to the list of messages.                              *)

Known == DOMAIN stored
DropLast(s, n) == SubSeq(s, 1, IF Len(s) > n THEN Len(s) - n ELSE 0)

\* addNewestQuestion: the question and an empty answer of its id.
WithQuestion(s, id) == s \o <<Question(id), Answer(id)>>

\* addNewestAnswer
WithAnswer(s, id) == Append(DropLast(s, 1), Answer(id))

\* The effect on answer, conversationId and isNew.
AnswerEffect(s, ans, c, new) ==
  IF ans # <<>> /\ c # NoConversation /\ ~new THEN WithAnswer(s, ans[1]) ELSE s

\* Mutant: the messages of the next render, which hold the question.
SentAfterAdding(s, id) == Append(WithQuestion(s, id), Question(id))

\* The messages of a request.
Sent(s, id) == Append(s, Question(id))

\* removeMessagesAfterCurrentMessage
UpToAnswer(s, i) == SubSeq(s, 1, IF i + 1 > Len(s) THEN Len(s) ELSE i + 1)

\* A change of the URL, with the effects of its two parameters; the messages
\* of a conversation that must be fetched stay those of the one before.
GoTo(c, new) ==
  /\ at' = c /\ fresh' = new
  /\ fetching' = IF c = at THEN fetching ELSE c # NoConversation /\ ~new
  /\ LET first == IF new /\ ~fresh THEN <<Prologue>>
                  ELSE IF c = NoConversation THEN <<>> ELSE shown
     IN  shown' = IF url = <<c, new>> THEN shown ELSE AnswerEffect(first, answer, c, new)

\* What completion writes when it has yielded all: what was sent, answered.
Write(s) == [conversation |-> s.conversation, messages |-> Append(s.sent, Answer(s.id)),
             deletes |-> NoId]
Store(c, messages) ==
  stored' = [d \in Known |-> IF d = c THEN messages ELSE stored[d]]

\* Handlers go on unread; those beyond the bound are broken off.
GoesOn(written) ==
  writes' = IF Cardinality(writes \cup written) <= MaxWrites THEN writes \cup written
            ELSE writes

\* abort: every stream of the controller stops reading and sets done; what the
\* server still stores it stores.  The next controller has a new number when
\* someone holds the one before.
Aborted ==
  /\ controller' = IF \E r \in streams \cup creating : r.controller = controller
                   THEN controller + 1 ELSE controller
  /\ streams' = {s \in streams : s.controller # controller}
  /\ GoesOn({Write(s) : s \in {r \in streams \ streams' : r.phase # "stored"}})
  /\ idle' = (idle \/ streams' # streams)
  /\ resetting' = (resetting \/ streams' # streams)

Request(c, sent, id, ctl) ==
  [conversation |-> c, sent |-> sent, id |-> id, controller |-> ctl, phase |-> "asked"]

\* Mutant: the signal is not handed to fetch.
SendUnsignaled(request) == streams' = streams \cup {request} /\ idle' = FALSE /\ UNCHANGED resetting

\* send of useSendMessageWithSse; under a controller that was aborted in the
\* meantime the request fails at once.
Send(request) ==
  IF request.controller = controller
  THEN streams' = streams \cup {request} /\ idle' = FALSE /\ UNCHANGED resetting
  ELSE idle' = TRUE /\ resetting' = TRUE /\ UNCHANGED streams

\* Mutant: setDone is forgotten.
EndBusy(s) == /\ streams' = streams \ {s}
              /\ resetting' = TRUE
              /\ UNCHANGED idle

\* The end of send.
End(s) == /\ streams' = streams \ {s}
          /\ idle' = TRUE
          /\ resetting' = TRUE

-----------------------------------------------------------------------------
(* The user.                                                               *)

Type ==
  /\ idle /\ at # NoConversation /\ ~typed
  /\ typed' = TRUE
  /\ UNCHANGED <<url, shown, idle, answer, resetting, controller, fetching, list,
                 creating, streams, asked, stored, writes, frozen>>

\* handlePressEnter.  The messages sent are those of the render the question
\* was typed in; a new conversation is made first.
PressEnter ==
  /\ typed /\ idle /\ at # NoConversation
  /\ asked < MaxQuestions
  /\ asked' = asked + 1
  /\ shown' = WithQuestion(shown, asked')
  /\ typed' = FALSE
  /\ IF fresh
     THEN /\ creating' = creating \cup {[conversation |-> at, id |-> asked',
                                         controller |-> controller]}
          /\ UNCHANGED <<streams, idle, resetting>>
     ELSE /\ Send(Request(at, Sent(shown, asked'), asked', controller))
          /\ UNCHANGED creating
  /\ UNCHANGED <<url, answer, controller, fetching, list, stored, writes, frozen>>

\* The stop button is in the form and submits it: text that waits in the input
\* is shown as a question, but done is still false and it is not sent.
Stop ==
  /\ ~idle
  /\ Aborted
  /\ IF typed THEN /\ asked < MaxQuestions
                   /\ asked' = asked + 1
                   /\ shown' = WithQuestion(shown, asked')
     ELSE UNCHANGED <<asked, shown>>
  /\ UNCHANGED <<url, typed, answer, fetching, list, creating, stored, frozen>>

\* regenerateMessage: the question goes out under a new id, and keeps the old
\* one in the list.
Regenerate(i) ==
  /\ idle /\ at # NoConversation
  /\ i \in DOMAIN shown /\ shown[i].role = "question"
  /\ asked < MaxQuestions
  /\ asked' = asked + 1
  /\ shown' = UpToAnswer(shown, i)
  /\ Send(Request(at, Sent(SubSeq(shown, 1, i - 1), asked'), asked', controller))
  /\ UNCHANGED <<url, typed, answer, controller, fetching, list, creating, stored,
                 writes, frozen>>

\* delete_msg reads the conversation, takes out the message with this id and the
\* one behind it, and writes all of it back; the page then takes out all it
\* shows with this id, also during a stream.
FirstOf(s, id) == CHOOSE i \in DOMAIN s :
                    s[i].id = id /\ \A j \in 1..(i - 1) : s[j].id # id
WithoutPair(s, id) ==
  IF \A i \in DOMAIN s : s[i].id # id THEN s
  ELSE LET i == FirstOf(s, id) IN SubSeq(s, 1, i - 1) \o SubSeq(s, i + 2, Len(s))
\* The assertion in delete_msg.
DeleteAsserts(s, id) ==
  (\E i \in DOMAIN s : s[i].id = id)
    => LET i == FirstOf(s, id) IN i + 1 \in DOMAIN s /\ s[i + 1].id = id

\* What filter leaves of the messages: those with another id.
WithoutId(s, id) ==
  LET kept[i \in 0..Len(s)] ==
        IF i = 0 THEN <<>>
        ELSE IF s[i].id = id THEN kept[i - 1] ELSE Append(kept[i - 1], s[i])
  IN  kept[Len(s)]

DeleteMessage(i) ==
  /\ i \in DOMAIN shown /\ shown[i].role = "question" /\ shown[i].id \in DeletableIds
  /\ at \in Known /\ DeleteAsserts(stored[at], shown[i].id)
  /\ Cardinality(writes) < MaxWrites
  /\ writes' = writes \cup {[conversation |-> at, deletes |-> shown[i].id,
                             messages |-> WithoutPair(stored[at], shown[i].id)]}
  /\ UNCHANGED <<url, shown, typed, idle, answer, resetting, controller, fetching, list,
                 creating, streams, asked, stored, frozen>>

\* handleConversationCardClick
ClickCard(c) ==
  /\ c \in Known \cup {temporary} /\ c # NoConversation
  /\ GoTo(c, c = temporary)
  /\ Aborted
  /\ UNCHANGED <<typed, answer, list, creating, asked, stored, frozen>>

\* addTemporaryConversation: a stream goes on.
NewConversation ==
  /\ made < MaxConversations
  /\ made' = made + 1
  /\ temporary' = made'
  /\ GoTo(made', TRUE)
  /\ UNCHANGED <<typed, idle, answer, resetting, controller, listing, creating,
                 streams, asked, stored, writes, frozen>>

\* removeConversation; the list is fetched again.
RemoveConversation(c) ==
  /\ c \in Known
  /\ stored' = [d \in Known \ {c} |-> stored[d]]
  /\ listing' = TRUE
  /\ UNCHANGED <<url, shown, typed, idle, answer, resetting, controller, fetching,
                 temporary, made, creating, streams, asked, writes, frozen>>

-----------------------------------------------------------------------------
(* The server's answers and the timer.                                     *)

\* useFetchConversationList moves the page to the youngest conversation.
ListFetched ==
  /\ listing
  /\ listing' = FALSE
  /\ temporary' = NoConversation
  /\ GoTo(IF Known = {} THEN NoConversation
          ELSE CHOOSE c \in Known : \A d \in Known : d <= c, FALSE)
  /\ UNCHANGED <<typed, idle, answer, resetting, controller, made, creating, streams,
                 asked, stored, writes, frozen>>

ConversationFetched ==
  /\ fetching
  /\ fetching' = FALSE
  /\ shown' = IF at \in Known /\ ~fresh /\ stored[at] # <<>> THEN stored[at] ELSE shown
  /\ UNCHANGED <<url, typed, idle, answer, resetting, controller, list, creating,
                 streams, asked, stored, writes, frozen>>

\* setConversation comes back.  The URL is that of the moment Enter was
\* pressed, and so is the controller.
Created(p) ==
  /\ p \in creating
  /\ creating' = creating \ {p}
  /\ IF p.conversation \in Known    \* the server refuses an id it has
     THEN UNCHANGED <<url, shown, fetching, stored, streams, idle, resetting, listing>>
     ELSE /\ stored' = [c \in Known \cup {p.conversation} |->
                          IF c \in Known THEN stored[c] ELSE <<Prologue>>]
          /\ listing' = TRUE
          /\ GoTo(p.conversation, FALSE)
          /\ Send(Request(p.conversation, Sent(<<Prologue>>, p.id), p.id, p.controller))
  /\ UNCHANGED <<typed, answer, controller, temporary, made, asked, writes, frozen>>

CreateFails(p) ==
  /\ p \in creating
  /\ creating' = creating \ {p}
  /\ UNCHANGED <<url, shown, typed, idle, answer, resetting, controller, fetching,
                 list, streams, asked, stored, writes, frozen>>

Phase(s, phase) == (streams \ {s}) \cup {[s EXCEPT !.phase = phase]}

\* A part of the answer is read and shown; an error of the model comes as an
\* answer without the id of the question.
Chunk(s, id) ==
  /\ s \in streams /\ s.phase # "stored" /\ s.conversation \in Known
  /\ answer' = <<id>>
  /\ shown' = AnswerEffect(shown, answer', at, fresh)
  /\ streams' = Phase(s, "answering")
  /\ UNCHANGED <<url, typed, idle, resetting, controller, fetching, list, creating,
                 asked, stored, writes, frozen>>

\* completion has yielded all.
Completed(s) ==
  /\ s \in streams /\ s.phase = "answering"
  /\ Store(s.conversation, Write(s).messages)
  /\ streams' = Phase(s, "stored")
  /\ UNCHANGED <<url, shown, typed, idle, answer, resetting, controller, fetching,
                 list, creating, asked, writes, frozen>>

\* The end of the stream is read, or the model failed and nothing was stored.
StreamEnds(s) ==
  /\ s \in streams /\ s.phase # "asked"
  /\ End(s)
  /\ UNCHANGED <<url, shown, typed, answer, controller, fetching, list, creating,
                 asked, stored, writes, frozen>>

\* The server refuses: removeLatestMessage takes two messages, whatever is
\* shown, and the text is back in the input.
Refused(s) ==
  /\ s \in streams /\ s.phase = "asked"
  /\ End(s)
  /\ shown' = DropLast(shown, 2)
  /\ typed' = TRUE
  /\ UNCHANGED <<url, answer, controller, fetching, list, creating, asked, stored,
                 writes, frozen>>

\* fetch throws: nothing is taken back, and the request may have arrived.
FetchFails(s) ==
  /\ s \in streams /\ s.phase = "asked"
  /\ End(s)
  /\ UNCHANGED writes \/ GoesOn({Write(s)})
  /\ UNCHANGED <<url, shown, typed, answer, controller, fetching, list, creating,
                 asked, stored, frozen>>

\* The connection breaks under the stream: read() fails again and again, and
\* only an AbortError leaves the loop.
ReadBreaks(s) ==
  /\ s \in streams /\ s.phase # "asked"
  /\ frozen' = TRUE
  /\ UNCHANGED <<url, shown, typed, idle, answer, resetting, controller, fetching,
                 list, creating, streams, asked, stored, writes>>

\* A completion nobody reads ends, or is broken off.
LateStored(w) ==
  /\ w \in writes /\ w.deletes = NoId
  /\ writes' = writes \ {w}
  /\ Store(w.conversation, w.messages) \/ UNCHANGED stored
  /\ UNCHANGED <<url, shown, typed, idle, answer, resetting, controller, fetching, list,
                 creating, streams, asked, frozen>>

\* delete_msg writes over whatever was stored since it read.
Deleted(w) ==
  /\ w \in writes /\ w.deletes # NoId
  /\ writes' = writes \ {w}
  /\ Store(w.conversation, w.messages)
  /\ shown' = WithoutId(shown, w.deletes)
  /\ UNCHANGED <<url, typed, idle, answer, resetting, controller, fetching, list,
                 creating, streams, asked, frozen>>

\* The timer of resetAnswer clears the answer there is by then.
AnswerReset ==
  /\ resetting
  /\ resetting' = FALSE
  /\ answer' = <<>>
  /\ UNCHANGED <<url, shown, typed, idle, controller, fetching, list, creating,
                 streams, asked, stored, writes, frozen>>

-----------------------------------------------------------------------------
ChatUser ==
  \/ Type \/ PressEnter \/ Stop \/ NewConversation
  \/ \E i \in DOMAIN shown : Regenerate(i) \/ DeleteMessage(i)
  \/ \E c \in Conversations : ClickCard(c) \/ RemoveConversation(c)

ServerStep(s) ==
  \/ Chunk(s, s.id) \/ Chunk(s, NoId)
  \/ Completed(s) \/ StreamEnds(s) \/ Refused(s) \/ FetchFails(s) \/ ReadBreaks(s)

ChatNext ==
  /\ ~frozen
  /\ \/ ChatUser \/ ListFetched \/ ConversationFetched \/ AnswerReset
     \/ \E p \in creating : Created(p) \/ CreateFails(p)
     \/ \E s \in streams : ServerStep(s)
     \/ \E w \in writes : LateStored(w) \/ Deleted(w)

ChatSpec == ChatInit /\ [][ChatNext]_chatVars

\* A stream that has begun comes to its end, and a request is answered.
Finishes(id) ==
  \E s \in streams : s.id = id /\ ~frozen
                     /\ (StreamEnds(s) \/ Refused(s) \/ FetchFails(s))
ChatFairness == \A id \in 1..MaxQuestions : WF_chatVars(Finishes(id))

-----------------------------------------------------------------------------
(* Properties.                                                             *)

ChatTypeOK ==
  /\ at \in Conversations \cup {NoConversation}
  /\ temporary \in Conversations \cup {NoConversation}
  /\ {fresh, typed, idle, resetting, fetching, listing, frozen} \subseteq BOOLEAN
  /\ shown \in Seq(Message) /\ answer \in Seq(MessageIds)
  /\ streams \subseteq Requests /\ writes \subseteq Writes
  /\ Known \subseteq 1..made /\ \A c \in Known : stored[c] \in Seq(Message)

\* Every answer that streams holds the controller of the page, also one whose
\* conversation had to be made first while the user went elsewhere: the stop
\* button and a click on a card end it.
StreamsCanBeStopped == \A s \in streams : s.controller = controller

\* The request takes the messages of the render before the question was added,
\* and regenerate cuts them: the server stores no question twice.
QuestionStoredOnce ==
  \A c \in Known : \A i, j \in DOMAIN stored[c] :
    /\ stored[c][i].role = "question"
    /\ stored[c][j] = stored[c][i]
    => i = j

\* However a completion ends, the input is given back for the next question,
\* unless the page froze.
InputReturns == ~idle ~> (idle \/ frozen)
=============================================================================

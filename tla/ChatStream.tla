------------------------------ MODULE ChatStream ------------------------------
(***************************************************************************)
(* A message sent from the chat shell: the browser, the stream handler of  *)
(* the web server and the producer of the answer, which is the handler     *)
(* itself or the Python process behind it.  The handler stores the         *)
(* question and the answer while it passes the events on.  Meanwhile the   *)
(* user may open other conversations, whose messages are fetched by        *)
(* requests of their own, and any connection may break.                    *)
(*                                                                         *)
(* The shell sends one message at a time: its Cancel button is part of the *)
(* welcome screen, which is not shown while a message is being sent.       *)
(*                                                                         *)
(* A definition marked [variant] is a faulty form of the one after it.     *)
(* Nothing uses it: it is there to show that a property notices the fault. *)
(***************************************************************************)
EXTENDS Integers, Sequences, Selections

CONSTANTS
  Conversations,  \* the conversations of the user
  First,          \* the one the page opens with
  Lanes,          \* who may produce the answers: "python", the Python process, or "local", the handler
  MaxSends,       \* bounds the messages the user sends
  MaxMoves,       \* bounds the messages, the conversations opened and the failures, taken together
  MaxProgress     \* bounds the events of one answer between its first and its last two

Sends == 1..MaxSends
Utterance == [send : Sends, role : {"user", "assistant"}]
Kinds == {"started", "progress", "answer", "completed", "error"}

ASSUME LanesAssumption == Lanes \subseteq {"python", "local"} /\ Lanes # {}
ASSUME FirstAssumption == First \in Conversations
ASSUME ChatBounds == MaxSends \in Nat /\ MaxMoves \in Nat /\ MaxProgress \in Nat \ {0}

VARIABLES
  store,     \* the messages of the platform state, in the order they were stored
  verdicts,  \* verdicts[s]: the statuses of the chat root records of its trace
  handler,   \* handler[s]: where POST /api/chat/stream is
  body,      \* body[s]: the events written to its response
  line,      \* line[s]: whether the connection of the response is up
  to,        \* to[s]: the conversation it was sent to
  lane,      \* who produces the answers, a setting of the server
  sent,      \* how many messages the user has sent; the last one may be under way
  call,      \* where sendChatStream is with it
  seen,      \* seen[s]: how many of its events the shell has handled
  told,      \* told[s]: what the user learnt of it
  sendError, \* the shell shows an error of the last send
  active,    \* activeConversationId
  shown,     \* messages of the shell
  status,    \* messageStatus
  loads,     \* the requests for messages under way, in the order they were made
  moves,     \* how many messages were sent, conversations opened and things failed
  raced      \* one of the races of the shell was lost: see LoadRaces, Send, ConnectionBreaks, ListFails

server == <<store, verdicts, handler, body>>
view == <<active, shown, status, loads>>
chatVars == <<server, line, to, lane, sent, call, seen, told, sendError, view, moves, raced>>

Load == [of : Conversations, served : BOOLEAN, items : Seq(Utterance)]
Asked(c) == [of |-> c, served |-> FALSE, items |-> <<>>]

ChatTypeOK ==
  /\ store \in Seq(Utterance) /\ shown \in Seq(Utterance)
  /\ verdicts \in [Sends -> SUBSET {"succeeded", "failed"}]
  /\ handler \in [Sends -> {"idle", "calling", "streaming", "refused", "closed"}]
  /\ body \in [Sends -> Seq(Kinds)] /\ seen \in [Sends -> Nat]
  /\ line \in [Sends -> BOOLEAN] /\ to \in [Sends -> Conversations] /\ lane \in Lanes
  /\ sent \in 0..MaxSends /\ moves \in 0..MaxMoves
  /\ call \in {"none", "fetching", "reading", "listing"}
  /\ told \in [Sends -> {"nothing", "answer", "failure"}]
  /\ active \in Conversations /\ status \in {"loading", "success", "error"}
  /\ loads \in Seq(Load)
  /\ sendError \in BOOLEAN /\ raced \in BOOLEAN

\* The page has listed the conversations and asks for the messages of one.
ChatInit ==
  /\ store = <<>> /\ verdicts = [s \in Sends |-> {}]
  /\ handler = [s \in Sends |-> "idle"] /\ body = [s \in Sends |-> <<>>]
  /\ line = [s \in Sends |-> TRUE]
  /\ active = First /\ loads = <<Asked(First)>> /\ to = [s \in Sends |-> First]
  /\ lane \in Lanes
  /\ sent = 0 /\ call = "none" /\ seen = [s \in Sends |-> 0] /\ told = [s \in Sends |-> "nothing"]
  /\ sendError = FALSE /\ shown = <<>> /\ status = "loading"
  /\ moves = 0 /\ raced = FALSE

Ask(s) == [send |-> s, role |-> "user"]
Reply(s) == [send |-> s, role |-> "assistant"]
MessagesOf(c) == SelectIn(store, {m \in Utterance : to[m.send] = c})
\* One more of the things that are counted.
Move == moves < MaxMoves /\ moves' = moves + 1
InStore(m) == \E i \in DOMAIN store : store[i] = m

-----------------------------------------------------------------------------
(* The producers *)

\* What a producer may write next.  "progress" is an event that only moves what is
\* drawn while the answer grows: thinking, the state of a tool call, a piece of the
\* text.  Python's default lane makes them all from artifacts that are complete
\* before the first.
DefaultLane(last) ==
  CASE last = "none" -> {"started"}
    [] last = "started" -> {"progress"}
    [] last = "progress" -> {"progress", "answer"}
    [] last = "answer" -> {"completed"}
    [] OTHER -> {}

\* Its ecommerce lane writes while the model does; where the model fails, the text
\* ends and the answer is what there is of it.
EcommerceLane(last) == DefaultLane(last)

\* In the local lane the model may have nothing to say.
LocalLane(last) == DefaultLane(last) \cup (IF last = "started" THEN {"answer"} ELSE {})

NextEvents(s) ==
  LET last == IF body[s] = <<>> THEN "none" ELSE body[s][Len(body[s])]
      after == IF lane = "local" THEN LocalLane(last) ELSE DefaultLane(last) \cup EcommerceLane(last)
  IN IF Len(body[s]) > MaxProgress THEN after \ {"progress"} ELSE after

-----------------------------------------------------------------------------
(* The stream handler *)

\* In the Python lanes the question is stored before Python is called.
TakeForPython(s) ==
  /\ s <= sent /\ handler[s] = "idle" /\ lane # "local"
  /\ store' = Append(store, Ask(s))
  /\ handler' = [handler EXCEPT ![s] = "calling"]
  /\ UNCHANGED <<verdicts, body, line, to, lane, sent, call, seen, told, sendError, view, moves, raced>>

\* [variant] The trace is recorded when the stream begins.
PythonAnswersOnRecord(s) ==
  /\ handler[s] = "calling"
  /\ handler' = [handler EXCEPT ![s] = "streaming"]
  /\ verdicts' = [verdicts EXCEPT ![s] = @ \cup {"succeeded"}]
  /\ UNCHANGED <<store, body, line, to, lane, sent, call, seen, told, sendError, view, moves, raced>>

\* Python answers with a stream.
PythonAnswers(s) ==
  /\ handler[s] = "calling"
  /\ handler' = [handler EXCEPT ![s] = "streaming"]
  /\ UNCHANGED <<store, verdicts, body, line, to, lane, sent, call, seen, told, sendError, view, moves, raced>>

\* prepareChatTurn has returned: the question is stored and the stream begins.
TakeLocally(s) ==
  /\ s <= sent /\ handler[s] = "idle" /\ lane = "local"
  /\ store' = Append(store, Ask(s))
  /\ handler' = [handler EXCEPT ![s] = "streaming"]
  /\ UNCHANGED <<verdicts, body, line, to, lane, sent, call, seen, told, sendError, view, moves, raced>>

\* A refused request, a failure of prepareChatTurn, Python not answering or not
\* with a stream: an error status, and no event.
RefuseSend(s) ==
  /\ s <= sent /\ handler[s] \in {"idle", "calling"} /\ Move
  /\ handler' = [handler EXCEPT ![s] = "refused"]
  /\ UNCHANGED <<store, verdicts, body, line, to, lane, sent, call, seen, told, sendError, view, raced>>

\* The reader is known to be gone: writing throws, and so does the catch
\* block, which writes too; in the local lane it records the failure first.
Gone(s) ==
  /\ handler' = [handler EXCEPT ![s] = "closed"]
  /\ verdicts' = IF lane = "local" THEN [verdicts EXCEPT ![s] = @ \cup {"failed"}] ELSE verdicts
  /\ UNCHANGED body

\* Any event but the two last.
PassOn(s) ==
  /\ handler[s] = "streaming"
  /\ \E k \in NextEvents(s) \ {"answer", "completed"} :
       \/ line[s] /\ body' = [body EXCEPT ![s] = Append(@, k)] /\ UNCHANGED <<handler, verdicts>>
       \/ ~line[s] /\ Gone(s)
  /\ UNCHANGED <<store, line, to, lane, sent, call, seen, told, sendError, view, moves, raced>>

\* message.completed of Python: the answer is stored, then passed on.
PassAnswer(s) ==
  /\ handler[s] = "streaming" /\ lane # "local" /\ "answer" \in NextEvents(s)
  /\ store' = Append(store, Reply(s))
  /\ \/ line[s] /\ body' = [body EXCEPT ![s] = Append(@, "answer")] /\ UNCHANGED <<handler, verdicts>>
     \/ ~line[s] /\ Gone(s)
  /\ UNCHANGED <<line, to, lane, sent, call, seen, told, sendError, view, moves, raced>>

\* chat.completed of Python: the trace is recorded, then it is passed on.
PassCompletion(s) ==
  /\ handler[s] = "streaming" /\ lane # "local" /\ "completed" \in NextEvents(s)
  /\ verdicts' = [verdicts EXCEPT ![s] = @ \cup {"succeeded"}]
  /\ body' = IF line[s] THEN [body EXCEPT ![s] = Append(@, "completed")] ELSE body
  /\ handler' = IF line[s] THEN handler ELSE [handler EXCEPT ![s] = "closed"]
  /\ UNCHANGED <<store, line, to, lane, sent, call, seen, told, sendError, view, moves, raced>>

\* The stream of Python has ended, and with it the response.
StreamDone(s) ==
  /\ handler[s] = "streaming" /\ body[s] # <<>> /\ body[s][Len(body[s])] = "completed"
  /\ handler' = [handler EXCEPT ![s] = "closed"]
  /\ UNCHANGED <<store, verdicts, body, line, to, lane, sent, call, seen, told, sendError, view, moves, raced>>

\* The text is complete: the handler stores the answer, records the success and
\* writes the last two events, with no await in between.
AnswerLocally(s) ==
  /\ handler[s] = "streaming" /\ lane = "local" /\ "answer" \in NextEvents(s)
  /\ store' = Append(store, Reply(s))
  /\ verdicts' = [verdicts EXCEPT ![s] = @ \cup {"succeeded"} \cup (IF line[s] THEN {} ELSE {"failed"})]
  /\ body' = IF line[s] THEN [body EXCEPT ![s] = @ \o <<"answer", "completed">>] ELSE body
  /\ handler' = [handler EXCEPT ![s] = "closed"]
  /\ UNCHANGED <<line, to, lane, sent, call, seen, told, sendError, view, moves, raced>>

\* [variant] The proxy closes the response without a word.
CutSilently(s) ==
  /\ handler[s] = "streaming" /\ Move
  /\ handler' = [handler EXCEPT ![s] = "closed"]
  /\ UNCHANGED <<store, verdicts, body, line, to, lane, sent, call, seen, told, sendError, view, raced>>

\* The producer fails or dies before the end of its stream: chat.error ends
\* the response.  The proxy records nothing of it.
ProducerFails(s) ==
  /\ handler[s] = "streaming" /\ Move
  /\ verdicts' = IF lane = "local" THEN [verdicts EXCEPT ![s] = @ \cup {"failed"}] ELSE verdicts
  /\ body' = IF line[s] THEN [body EXCEPT ![s] = Append(@, "error")] ELSE body
  /\ handler' = [handler EXCEPT ![s] = "closed"]
  /\ UNCHANGED <<store, line, to, lane, sent, call, seen, told, sendError, view, raced>>

-----------------------------------------------------------------------------
(* The shell: sending *)

Ready == call = "none"

\* onSend.  Its question will join what is shown, which may be nothing because
\* the messages could not be loaded; the end of the send hides that error.
Send ==
  /\ Ready /\ sent < MaxSends /\ Move
  /\ sent' = sent + 1 /\ call' = "fetching" /\ sendError' = FALSE
  /\ to' = [to EXCEPT ![sent + 1] = active]
  /\ raced' = (raced \/ status = "error")
  /\ UNCHANGED <<server, line, lane, seen, told, view>>

\* The end of onSend after an exception.
SendFails ==
  /\ call' = "none" /\ sendError' = TRUE
  /\ told' = [told EXCEPT ![sent] = IF @ = "answer" THEN @ ELSE "failure"]

\* An error status.
SendRefused ==
  /\ call = "fetching" /\ handler[sent] = "refused"
  /\ SendFails
  /\ UNCHANGED <<server, line, to, lane, sent, seen, view, moves, raced>>

\* The connection breaks, before or while events arrive: the handler may go on,
\* and the shell stays where the user went.  To the handler this is also the page
\* being closed.
ConnectionBreaks ==
  /\ call \in {"fetching", "reading"} /\ Move
  /\ SendFails
  /\ line' = [line EXCEPT ![sent] = FALSE]
  /\ raced' = (raced \/ active # to[sent])
  /\ UNCHANGED <<server, to, lane, sent, seen, view>>

SendAccepted ==
  /\ call = "fetching" /\ handler[sent] \in {"streaming", "closed"}
  /\ call' = "reading"
  /\ UNCHANGED <<server, line, to, lane, sent, seen, told, sendError, view, moves, raced>>

\* The callback of sendChatStream: messages are added to whatever is shown.
HandleEvent ==
  /\ call = "reading" /\ seen[sent] < Len(body[sent])
  /\ LET k == body[sent][seen[sent] + 1] IN
       /\ shown' = CASE k = "started" -> Append(shown, Ask(sent))
                     [] k = "answer" -> Append(shown, Reply(sent))
                     [] OTHER -> shown
       /\ sendError' = (sendError \/ k = "error")
       /\ told' = CASE k = "answer" -> [told EXCEPT ![sent] = "answer"]
                    [] k = "error" -> [told EXCEPT ![sent] = IF @ = "answer" THEN @ ELSE "failure"]
                    [] OTHER -> told
  /\ seen' = [seen EXCEPT ![sent] = @ + 1]
  /\ UNCHANGED <<server, line, to, lane, sent, call, active, status, loads, moves, raced>>

\* [variant] The shell reads on until the answer is complete.
ResponseCompletes ==
  /\ call = "reading" /\ handler[sent] = "closed" /\ seen[sent] = Len(body[sent])
  /\ body[sent] # <<>> /\ body[sent][Len(body[sent])] = "completed"
  /\ call' = "listing"
  /\ UNCHANGED <<server, line, to, lane, sent, seen, told, sendError, view, moves, raced>>

\* The response has ended: the conversations are listed again.
ResponseEnds ==
  /\ call = "reading" /\ handler[sent] = "closed" /\ seen[sent] = Len(body[sent])
  /\ call' = "listing"
  /\ UNCHANGED <<server, line, to, lane, sent, seen, told, sendError, view, moves, raced>>

\* Opening a conversation, by whichever way, asks for its messages.
Open(c) ==
  /\ active' = c
  /\ loads' = IF c = active THEN loads ELSE Append(loads, Asked(c))

\* [variant] The list does not lead back to the conversation of the message.
StayAway ==
  /\ call = "listing"
  /\ status' = "success"
  /\ call' = "none"
  /\ UNCHANGED <<server, line, to, lane, sent, seen, told, sendError, active, loads, shown, moves, raced>>

\* The list arrives: the shell goes back to the conversation of the message.
Listed ==
  /\ call = "listing"
  /\ Open(to[sent])
  /\ status' = IF active' # active THEN "loading" ELSE "success"
  /\ call' = "none"
  /\ UNCHANGED <<server, line, to, lane, sent, seen, told, sendError, shown, moves, raced>>

\* It does not arrive: the shell stays where the user went, with the messages
\* it added there.
ListFails ==
  /\ call = "listing" /\ Move
  /\ call' = "none" /\ status' = "success"
  /\ raced' = (raced \/ active # to[sent])
  /\ UNCHANGED <<server, line, to, lane, sent, seen, told, sendError, active, shown, loads>>

-----------------------------------------------------------------------------
(* The shell: opening conversations *)

Select(c) ==
  /\ c # active /\ Move
  /\ Open(c) /\ status' = "loading"
  /\ UNCHANGED <<server, line, to, lane, sent, call, seen, told, sendError, shown, raced>>

\* GET /api/messages.
ServeLoad(i) ==
  /\ ~loads[i].served
  /\ loads' = [loads EXCEPT ![i] = [of |-> @.of, served |-> TRUE, items |-> MessagesOf(@.of)]]
  /\ UNCHANGED <<server, line, to, lane, sent, call, seen, told, sendError, active, shown, status, moves, raced>>

Without(i) == SubSeq(loads, 1, i - 1) \o SubSeq(loads, i + 1, Len(loads))

\* The messages of which the shell has handled the event.
HandledAsk(s) == \E i \in 1..seen[s] : body[s][i] = "started"
HandledReply(s) == \E i \in 1..seen[s] : body[s][i] = "answer"
Handled == {Ask(s) : s \in {x \in Sends : HandledAsk(x)}} \cup {Reply(s) : s \in {x \in Sends : HandledReply(x)}}

\* What setMessages cannot cope with: an answer overtaken by an earlier one, a list
\* made before a message the shell has added since, or one with a message
\* whose event is still to come.
LoadRaces(i) ==
  LET items == loads[i].items
      has(m) == \E j \in DOMAIN items : items[j] = m
  IN \/ i # 1
     \/ \E m \in Handled : to[m.send] = loads[i].of /\ ~has(m)
     \/ \E m \in {Ask(sent), Reply(sent)} : call # "none" /\ has(m) /\ m \notin Handled

ShowLoad(i) ==
  /\ loads[i].served
  /\ shown' = loads[i].items /\ status' = "success"
  /\ loads' = Without(i)
  /\ raced' = (raced \/ LoadRaces(i))
  /\ UNCHANGED <<server, line, to, lane, sent, call, seen, told, sendError, active, moves>>

LoadFails(i) ==
  /\ Move
  /\ shown' = <<>> /\ status' = "error"
  /\ loads' = Without(i)
  /\ raced' = (raced \/ i # 1 \/ call # "none")
  /\ UNCHANGED <<server, line, to, lane, sent, call, seen, told, sendError, active>>

-----------------------------------------------------------------------------
Handle(s) ==
  \/ TakeForPython(s) \/ PythonAnswers(s) \/ TakeLocally(s) \/ RefuseSend(s)
  \/ PassOn(s) \/ PassAnswer(s) \/ PassCompletion(s) \/ StreamDone(s) \/ AnswerLocally(s) \/ ProducerFails(s)

Shell == SendRefused \/ SendAccepted \/ HandleEvent \/ ResponseEnds \/ Listed \/ ListFails

ChatNext ==
  \/ \E s \in Sends : Handle(s)
  \/ Shell \/ Send \/ ConnectionBreaks
  \/ \E c \in Conversations : Select(c)
  \/ \E i \in DOMAIN loads : ServeLoad(i) \/ ShowLoad(i) \/ LoadFails(i)

\* What of the specification the safety properties need.
ChatSpec == ChatInit /\ [][ChatNext]_chatVars

-----------------------------------------------------------------------------
(* Properties *)

\* Whatever fails, the trace of a send says it succeeded only if its answer is
\* stored, never both in the proxied lanes, and an answer follows its question.
VerdictNeedsAnswer ==
  \A s \in Sends :
    /\ "succeeded" \in verdicts[s] => InStore(Reply(s))
    /\ lane # "local" => verdicts[s] # {"succeeded", "failed"}
    /\ told[s] = "answer" => InStore(Reply(s))
    /\ InStore(Reply(s)) => \E i, j \in DOMAIN store : i < j /\ store[i] = Ask(s) /\ store[j] = Reply(s)

\* No send ends in silence (route.ts:305-312): once the shell is ready again, the
\* user has the answer or an error.
NeverSilent ==
  Ready /\ sent > 0 => told[sent] = "answer" \/ sendError

\* What a send leaves behind, in the trace and before the user, is what happened.
SendsAreHonest == VerdictNeedsAnswer /\ NeverSilent

Resting == Ready /\ loads = <<>> /\ status = "success"

\* When the shell is at rest it shows the conversation that is open: its
\* messages, once each and in order, all of them but those of sends that
\* failed - whichever conversations were opened while answers came in, unless
\* one of the races that the shell leaves open was lost.
RestingViewIsTrue ==
  Resting /\ ~raced =>
    LET items == MessagesOf(active)
        position(i) == CHOOSE j \in DOMAIN items : items[j] = shown[i]
    IN /\ \A i \in DOMAIN shown : \E j \in DOMAIN items : items[j] = shown[i]
       /\ \A i, j \in DOMAIN shown : i < j => position(i) < position(j)
       /\ \A j \in DOMAIN items :
            \/ \E i \in DOMAIN shown : shown[i] = items[j]
            \/ told[items[j].send] = "failure"

\* What the shell waits for; it cannot send again before.
Sending == call # "none"
=============================================================================

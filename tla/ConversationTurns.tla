-------------------------- MODULE ConversationTurns --------------------------
(***************************************************************************)
(* The turns of one conversation on the web server: a request reads the    *)
(* conversation and its messages, lets the agent loop work, stores the     *)
(* user's message and the answer, and sets a timer whose callback may      *)
(* summarise older messages.  Requests and callbacks interleave at their   *)
(* awaits.  Each write of a handler is a step of its own, after which the  *)
(* server may die or the next write may fail; between two of them with no  *)
(* await in between nothing else of the server runs.                       *)
(*                                                                         *)
(* A message is known by its turn and its role; of its text only the size  *)
(* (estimated tokens) counts.  A summary is the set of the messages whose  *)
(* text went into it.                                                      *)
(*                                                                         *)
(* A definition marked [variant] is a faulty form of the one after it.     *)
(* Nothing uses it: it is there to show that a property notices the fault. *)
(***************************************************************************)
EXTENDS Integers, FiniteSets, FiniteSetsExt

CONSTANTS
  Turns,     \* the requests to this conversation, each made once (bounds the messages)
  Routes,    \* the handlers in use: /api/chat, /api/chat/stream, their Python branches, /api/messages
  Size,      \* Size[m]: estimated tokens of a message
  Budget,    \* CONTEXT_BUDGET, 6000
  MinNew,    \* how many new messages make a summary worth it: 4
  Gaps,      \* milliseconds between one stored message and the next
  Overlap,   \* a request may arrive while another is under way
  NoMessage  \* the empty lastSummarizedMessageId

Roles == {"user", "assistant"}
Message == [turn : Turns, role : Roles]
Question(t) == [turn |-> t, role |-> "user"]
Answer(t) == [turn |-> t, role |-> "assistant"]

ASSUME RoutesAssumption == Routes \subseteq {"chat", "stream", "python", "python-stream", "post"}
ASSUME SizeAssumption == Size \in [Message -> Nat] /\ Budget \in Nat /\ MinNew \in Nat
ASSUME GapsAssumption == Gaps \subseteq Nat
ASSUME NoMessageAssumption == NoMessage \notin Message

VARIABLES
  place,    \* place[m]: when a message was stored, as a count and in milliseconds; count 0: not stored
  newest,   \* the place of the message stored last
  summary,  \* of the conversation record
  marker,   \* lastSummarizedMessageId of the conversation record
  pc,       \* pc[t]: where the handler of a turn is
  route,    \* route[t]: which handler it is
  known,    \* known[t]: summary and marker as the handler read them
  window,   \* window[t]: the history its model calls are given
  timer,    \* timer[t]: what the callback of its setTimeout has come to
  draft,    \* draft[t]: the summary that callback is about to write
  root      \* root[t]: the statuses of the chat root records of its trace

log == <<place, newest>>
record == <<summary, marker>>
vars == <<place, newest, summary, marker, pc, route, known, window, timer, draft, root>>

Place == [no : Nat, at : Nat]
Record == [summary : SUBSET Message, marker : Message \cup {NoMessage}]
Fresh == [summary |-> {}, marker |-> NoMessage]
Active == {"planning", "answering", "generating", "recording", "failing"}
Timers == {"none", "set", "writing", "skipped", "written", "failed"}

TypeOK ==
  /\ place \in [Message -> Place] /\ newest \in Place
  /\ summary \in SUBSET Message /\ marker \in Message \cup {NoMessage}
  /\ pc \in [Turns -> Active \cup {"idle", "done", "failed", "dead", "posted"}]
  /\ route \in [Turns -> Routes \cup {"none"}]
  /\ known \in [Turns -> Record]
  /\ window \in [Turns -> SUBSET Message]
  /\ timer \in [Turns -> Timers]
  /\ draft \in [Turns -> SUBSET Message]
  /\ root \in [Turns -> SUBSET {"succeeded", "failed"}]

Init ==
  /\ place = [m \in Message |-> [no |-> 0, at |-> 0]] /\ newest = [no |-> 0, at |-> 0]
  /\ summary = {} /\ marker = NoMessage
  /\ pc = [t \in Turns |-> "idle"] /\ route = [t \in Turns |-> "none"]
  /\ known = [t \in Turns |-> Fresh] /\ window = [t \in Turns |-> {}]
  /\ timer = [t \in Turns |-> "none"] /\ draft = [t \in Turns |-> {}]
  /\ root = [t \in Turns |-> {}]

-----------------------------------------------------------------------------
(* The messages as listByConversationId returns them *)

Stored == {m \in Message : place[m].no > 0}

\* m comes before n in the list.  The comparator of the sort calls either of
\* two messages of one millisecond the smaller one; V8 then puts the one
\* stored later first.
Listed(m, n) ==
  \/ place[m].at < place[n].at
  \/ place[m].at = place[n].at /\ place[m].no > place[n].no

After(m) == {n \in Stored : Listed(m, n)}

Cost(S) == MapThenSumSet(LAMBDA m : Size[m], S)

\* messagesAfterLastSummary: all of them when the marker is not among them.
Unsummarised(mark) == IF mark \in Stored THEN After(mark) ELSE Stored

Questions == {m \in Stored : m.role = "user"}

\* [variant] Every answer before the next question is taken.
PairToNext(q) ==
  {q} \cup {a \in After(q) : a.role = "assistant"
                             /\ ~ \E m \in After(q) : m.role = "user" /\ Listed(m, a)}

\* messagePairs: a user's message and the answer that directly follows it.
Pair(q) ==
  {q} \cup {a \in After(q) : a.role = "assistant" /\ ~ \E m \in After(q) : Listed(m, a)}

\* [variant] The pairs must cost less than that.
RecentBelow ==
  {q \in Questions :
     Cost(UNION {Pair(r) : r \in {q} \cup (After(q) \cap Questions)}) < Budget \div 2}

\* fitToBudget: the newest pairs, as long as they fit in half of the budget.
Recent ==
  {q \in Questions :
     Cost(UNION {Pair(r) : r \in {q} \cup (After(q) \cap Questions)}) <= Budget \div 2}

\* The history of a turn: the recent pairs, or the last six messages when the
\* newest pair alone is too long.
History ==
  IF Recent # {} THEN UNION {Pair(q) : q \in Recent}
                 ELSE {m \in Stored : Cardinality(After(m)) < 6}

-----------------------------------------------------------------------------
(* Storing messages *)

Later(p, gap) == [no |-> p.no + 1, at |-> p.at + gap]

\* messageRepository.append.
Store(m) ==
  \E gap \in Gaps :
    /\ newest' = Later(newest, gap)
    /\ place' = [place EXCEPT ![m] = newest']

MayArrive == Overlap \/ \A t \in Turns : pc[t] \notin Active

\* The handler of t has no await before its next write.  Only the branch that
\* proxies the stream of Python waits, for the last event, before it records.
AtWork(t) ==
  \/ pc[t] \in {"answering", "failing"}
  \/ pc[t] = "recording" /\ route[t] # "python-stream"

-----------------------------------------------------------------------------
(* The handlers *)

\* A request to either TypeScript handler: it reads the conversation, and
\* prepareChatTurn the messages, before the agent loop first awaits.
Arrive(t) ==
  /\ pc[t] = "idle" /\ MayArrive
  /\ \E r \in Routes \cap {"chat", "stream"} : route' = [route EXCEPT ![t] = r]
  /\ known' = [known EXCEPT ![t] = [summary |-> summary, marker |-> marker]]
  /\ window' = [window EXCEPT ![t] = History]
  /\ pc' = [pc EXCEPT ![t] = "planning"]
  /\ UNCHANGED <<log, record, timer, draft, root>>

\* A request in a Python branch: the user's message is stored first.
ArrivePython(t) ==
  /\ pc[t] = "idle" /\ MayArrive
  /\ \E r \in Routes \cap {"python", "python-stream"} : route' = [route EXCEPT ![t] = r]
  /\ Store(Question(t))
  /\ pc' = [pc EXCEPT ![t] = "generating"]
  /\ UNCHANGED <<record, known, window, timer, draft, root>>

\* A message of either role posted to /api/messages.
Post(t) ==
  /\ pc[t] = "idle" /\ MayArrive
  /\ "post" \in Routes /\ route' = [route EXCEPT ![t] = "post"]
  /\ Store(Question(t)) \/ Store(Answer(t))
  /\ pc' = [pc EXCEPT ![t] = "posted"]
  /\ UNCHANGED <<record, known, window, timer, draft, root>>

\* prepareChatTurn returns: the user's message is stored.  POST /api/chat goes
\* on at once when the agent loop left a text; else the model is called.
Ask(t) ==
  /\ pc[t] = "planning"
  /\ Store(Question(t))
  /\ window' = [window EXCEPT ![t] = {}]
  /\ \/ pc' = [pc EXCEPT ![t] = "generating"]
     \/ route[t] = "chat" /\ pc' = [pc EXCEPT ![t] = "answering"]
  /\ UNCHANGED <<record, route, known, timer, draft, root>>

\* prepareChatTurn throws, or the append of the question does: nothing of the
\* turn is stored.
PlanFails(t) ==
  /\ pc[t] = "planning"
  /\ window' = [window EXCEPT ![t] = {}]
  /\ pc' = [pc EXCEPT ![t] = "failed"]
  /\ UNCHANGED <<log, record, route, known, timer, draft, root>>

\* [variant] A write of the answer that fails is passed over.
ReplyAnyhow(t) ==
  /\ pc[t] \in {"answering", "generating"}
  /\ Store(Answer(t)) \/ UNCHANGED log
  /\ pc' = [pc EXCEPT ![t] = "recording"]
  /\ timer' = IF route[t] = "chat" THEN [timer EXCEPT ![t] = "set"] ELSE timer
  /\ UNCHANGED <<record, route, known, window, draft, root>>

\* The text is there, from the agent loop, the model or Python: it is stored,
\* and POST /api/chat sets the timer.
Reply(t) ==
  /\ pc[t] \in {"answering", "generating"}
  /\ Store(Answer(t))
  /\ pc' = [pc EXCEPT ![t] = "recording"]
  /\ timer' = IF route[t] = "chat" THEN [timer EXCEPT ![t] = "set"] ELSE timer
  /\ UNCHANGED <<record, route, known, window, draft, root>>

\* The stages of the trace and its chat root are written, in the branch that
\* proxies Python's stream when chat.completed comes.  The stream handler then
\* cannot send its last events if its reader has gone.
RecordSuccess(t) ==
  /\ pc[t] = "recording"
  /\ root' = [root EXCEPT ![t] = @ \cup {"succeeded"}]
  /\ \/ pc' = [pc EXCEPT ![t] = "done"]
     \/ route[t] = "stream" /\ pc' = [pc EXCEPT ![t] = "failing"]
  /\ UNCHANGED <<log, record, route, known, window, timer, draft>>

\* The model fails, the reader goes, or a write of the answer or of the trace
\* throws: the catch block is next.  A Python branch records nothing then, and
\* nothing when Python fails or its stream ends early; only at chat.error.
GenerationFails(t) ==
  /\ pc[t] \in {"answering", "generating", "recording"}
  /\ \/ route[t] # "python" /\ pc' = [pc EXCEPT ![t] = "failing"]
     \/ route[t] \in {"python", "python-stream"} /\ pc' = [pc EXCEPT ![t] = "failed"]
  /\ UNCHANGED <<log, record, route, known, window, timer, draft, root>>

\* The failure is recorded, unless that throws too.
RecordFailure(t) ==
  /\ pc[t] = "failing"
  /\ pc' = [pc EXCEPT ![t] = "failed"]
  /\ root' \in {root, [root EXCEPT ![t] = @ \cup {"failed"}]}
  /\ UNCHANGED <<log, record, route, known, window, timer, draft>>

-----------------------------------------------------------------------------
(* The callback of the timer *)

\* The messages as they are now, the conversation as the handler read it.
Input(t) == Unsummarised(known[t].marker)

NeedsSummary(t) == Cost(Stored) > Budget /\ Cardinality(Input(t)) >= MinNew

\* The copy of the record is not read again.
Forget(t) == known' = [known EXCEPT ![t] = Fresh]

\* [variant] Only the newest messages are summarised.
SummariseNewest(t) ==
  /\ timer[t] = "set" /\ NeedsSummary(t)
  /\ timer' = [timer EXCEPT ![t] = "writing"]
  /\ draft' = [draft EXCEPT ![t] =
                 known[t].summary \cup {m \in Stored : Cardinality(After(m)) < MinNew}]
  /\ Forget(t)
  /\ UNCHANGED <<log, record, pc, route, window, root>>

Summarise(t) ==
  /\ timer[t] = "set" /\ NeedsSummary(t)
  /\ timer' = [timer EXCEPT ![t] = "writing"]
  /\ draft' = [draft EXCEPT ![t] = known[t].summary \cup Input(t)]
  /\ Forget(t)
  /\ UNCHANGED <<log, record, pc, route, window, root>>

SkipSummary(t) ==
  /\ timer[t] = "set" /\ ~NeedsSummary(t)
  /\ timer' = [timer EXCEPT ![t] = "skipped"]
  /\ Forget(t)
  /\ UNCHANGED <<log, record, pc, route, window, draft, root>>

\* updateSummary once the model has answered: whatever the record holds by
\* now, and with this turn's answer as the marker.
WriteSummary(t) ==
  /\ timer[t] = "writing"
  /\ summary' = draft[t] /\ marker' = Answer(t)
  /\ timer' = [timer EXCEPT ![t] = "written"]
  /\ draft' = [draft EXCEPT ![t] = {}]
  /\ UNCHANGED <<log, pc, route, known, window, root>>

SummaryFails(t) ==
  /\ timer[t] = "writing"
  /\ timer' = [timer EXCEPT ![t] = "failed"]
  /\ draft' = [draft EXCEPT ![t] = {}]
  /\ UNCHANGED <<log, record, pc, route, known, window, root>>

-----------------------------------------------------------------------------
(* The server dies and is started again: what is stored stays. *)

Crash ==
  /\ \E t \in Turns : pc[t] \in Active \/ timer[t] \in {"set", "writing"}
  /\ pc' = [t \in Turns |-> IF pc[t] \in Active THEN "dead" ELSE pc[t]]
  /\ timer' = [t \in Turns |-> IF timer[t] \in {"set", "writing"} THEN "failed" ELSE timer[t]]
  /\ window' = [t \in Turns |-> {}] /\ draft' = [t \in Turns |-> {}]
  /\ known' = [t \in Turns |-> Fresh]
  /\ UNCHANGED <<log, record, route, root>>

HandlerStep(t) ==
  \/ Arrive(t) \/ ArrivePython(t) \/ Post(t)
  \/ Ask(t) \/ PlanFails(t) \/ Reply(t) \/ GenerationFails(t)
  \/ RecordSuccess(t) \/ RecordFailure(t)

CallbackStep(t) ==
  Summarise(t) \/ SkipSummary(t) \/ WriteSummary(t) \/ SummaryFails(t)

\* A handler at work is not interrupted, but by the end of the server.
Next ==
  \/ Crash
  \/ \E t \in Turns : HandlerStep(t) /\ \A u \in Turns : AtWork(u) => u = t
  \/ \E t \in Turns : CallbackStep(t) /\ \A u \in Turns : ~AtWork(u)

Spec == Init /\ [][Next]_vars

-----------------------------------------------------------------------------
(* Properties *)

\* A summary and a marker that leave nothing out: what is not listed after the
\* marker is in the summary.
Covers(r) == r.marker = NoMessage \/
             (r.marker \in Stored /\ Stored \ After(r.marker) \subseteq r.summary)

\* No message is skipped by the summaries (conversation-memory.ts:100-105):
\* whatever summarisers were at work at once, on whatever stale copy of the
\* record, the next one is given every message the summary does not hold.
NothingSkipped == Covers([summary |-> summary, marker |-> marker])

\* A turn whose question and answer are both stored keeps them as one unit of
\* its later context (conversation-memory.ts:108-109), also when its handler is
\* cut short before it has recorded the turn.
PairsKept ==
  \A t \in Turns :
    {Question(t), Answer(t)} \subseteq Stored => Pair(Question(t)) = {Question(t), Answer(t)}

\* What the trace of a turn says is so, at every moment and after any failing
\* write or end of the server (route.ts:320-340, 372-393): a success is recorded
\* only once both messages are stored, a failure only with the question; a turn
\* whose caller is told that it is complete has its success on record, and no
\* failure; and only the stream handler, when its reader has gone, records both.
VerdictIsTrue ==
  \A t \in Turns :
    /\ "succeeded" \in root[t] => {Question(t), Answer(t)} \subseteq Stored
    /\ "failed" \in root[t] => Question(t) \in Stored
    /\ pc[t] = "done" => root[t] = {"succeeded"}
    /\ root[t] = {"succeeded", "failed"} => route[t] = "stream"

\* A summary is merged into the one there was (route.ts:233).
SummaryGrows == [][summary \subseteq summary']_vars

\* A conversation that fits in the share of the budget the history has is
\* given to the model as a whole (token-budget.ts:48-67), whatever turns failed
\* or died in it; only an answer posted to no question may be missing.
ContextIsWhole ==
  \A t \in Turns :
    pc[t] = "planning" /\ Cost(Stored) <= Budget \div 2
      => \A m \in Stored \ window[t] : route[m.turn] = "post"

-----------------------------------------------------------------------------
(* The inductive invariant *)

\* A handler stores each of its messages once.
Unsent ==
  \A t \in Turns :
    /\ pc[t] \in {"idle", "planning"} => Question(t) \notin Stored
    /\ pc[t] \in {"idle", "planning", "answering", "generating"} => Answer(t) \notin Stored

\* Messages are counted as they are stored, and no two share a millisecond.
Clocked ==
  /\ \A m \in Stored : place[m].no <= newest.no /\ place[m].at <= newest.at
  /\ \A m, n \in Stored : place[m].no < place[n].no <=> place[m].at < place[n].at

KnownCovers == \A t \in Turns : Covers(known[t])

DraftCovers ==
  \A t \in Turns :
    /\ timer[t] \in {"set", "writing"} => Answer(t) \in Stored
    /\ timer[t] = "writing" => Covers([summary |-> draft[t], marker |-> Answer(t)])

IInv == TypeOK /\ Unsent /\ Clocked /\ NothingSkipped /\ KnownCovers /\ DraftCovers

\* What a handler has stored, and what its trace says, where it is.
Recorded ==
  \A t \in Turns :
    /\ pc[t] \in {"answering", "generating", "recording", "failing", "done"} => Question(t) \in Stored
    /\ pc[t] \in {"recording", "done"} => Answer(t) \in Stored
    /\ Answer(t) \in Stored /\ pc[t] # "posted" => Question(t) \in Stored
    /\ pc[t] = "done" => root[t] = {"succeeded"}
    /\ "succeeded" \in root[t] =>
         /\ Answer(t) \in Stored
         /\ pc[t] \in {"done", "failing", "failed", "dead"}
         /\ pc[t] = "done" \/ route[t] = "stream"
    /\ "failed" \in root[t] => pc[t] = "failed" /\ Question(t) \in Stored

VerdictInv == TypeOK /\ Unsent /\ Recorded

\* One request at a time, so that nothing is stored between a question and its answer.
OneAtATime == \A t, u \in Turns : pc[t] \in Active /\ pc[u] \in Active => t = u

Numbered == \A m, n \in Stored : place[m].no = place[n].no => m = n

Adjacent ==
  \A t \in Turns :
    /\ pc[t] \in {"answering", "generating"} => place[Question(t)].no = newest.no
    /\ {Question(t), Answer(t)} \subseteq Stored =>
         place[Answer(t)].no = place[Question(t)].no + 1

PairsInv == VerdictInv /\ Clocked /\ OneAtATime /\ Numbered /\ Adjacent

\* What a turn was given is still the history while its handler plans: nothing
\* is stored in between.
WindowsAreNew == \A t \in Turns : pc[t] = "planning" => window[t] = History

ContextInv ==
  /\ PairsInv /\ WindowsAreNew /\ IsFiniteSet(Stored)
  /\ \A t \in Turns : pc[t] = "posted" => route[t] = "post"
=============================================================================

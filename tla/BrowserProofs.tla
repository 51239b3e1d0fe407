---------------------------- MODULE BrowserProofs ----------------------------
(***************************************************************************)
(* What the user of a page may rely on, whatever the servers and the       *)
(* network do: theorems about the chat, the ingestion tasks and the        *)
(* shopping pages, for any conversations, tasks, products and bounds.      *)
(***************************************************************************)
EXTENDS MCBrowser, SequenceLemmas, FiniteSetTheorems

-----------------------------------------------------------------------------
(* The chat: the invariant *)

\* What is known of send s: its trace and its answer, as VerdictNeedsAnswer says, and
\* that its response tells the truth: an answer in it is stored, a completion follows an
\* answer, and a response that ended before a reader has an answer or an error in it.
Honest(s) ==
  /\ "succeeded" \in verdicts[s] => InStore(Reply(s))
  /\ lane # "local" => verdicts[s] \subseteq {"succeeded"}
  /\ told[s] = "answer" => InStore(Reply(s))
  /\ InStore(Reply(s)) => \E i, j \in DOMAIN store : i < j /\ store[i] = Ask(s) /\ store[j] = Reply(s)
  /\ handler[s] \in {"calling", "streaming"} => InStore(Ask(s))
  /\ \A i \in DOMAIN body[s] : body[s][i] = "answer" => InStore(Reply(s))
  /\ \A i \in DOMAIN body[s] : body[s][i] = "completed" => \E j \in DOMAIN body[s] : body[s][j] = "answer"
  /\ handler[s] = "closed" /\ line[s] => \E i \in DOMAIN body[s] : body[s][i] \in {"answer", "error"}
  /\ seen[s] <= Len(body[s])

\* What the shell has learnt of the message under way.
ShellKnows ==
  /\ call # "none" => sent > 0 /\ line[sent]
  /\ call # "none" => \A i \in 1..seen[sent] : /\ body[sent][i] = "answer" => told[sent] = "answer"
                                               /\ body[sent][i] = "error" => sendError
  /\ call = "listing" => told[sent] = "answer" \/ sendError
  /\ \A s \in Sends : s > sent => seen[s] = 0 /\ line[s]

ChatInv == ChatTypeOK /\ (\A s \in Sends : Honest(s)) /\ ShellKnows /\ NeverSilent

\* The invariant holds at the start.
LEMMA InitChatInv == ChatInit => ChatInv
<1> SUFFICES ASSUME ChatInit PROVE ChatInv
  OBVIOUS
<1>1. Asked(First) \in Load
  BY FirstAssumption DEF Asked, Load
<1>2. ChatTypeOK
  <2>1. loads \in Seq(Load) /\ store \in Seq(Utterance) /\ shown \in Seq(Utterance) /\ <<>> \in Seq(Kinds)
    BY <1>1 DEF ChatInit
  <2>2. /\ verdicts \in [Sends -> SUBSET {"succeeded", "failed"}]
        /\ handler \in [Sends -> {"idle", "calling", "streaming", "refused", "closed"}]
        /\ body \in [Sends -> Seq(Kinds)] /\ seen \in [Sends -> Nat]
        /\ line \in [Sends -> BOOLEAN] /\ to \in [Sends -> Conversations]
        /\ told \in [Sends -> {"nothing", "answer", "failure"}]
    BY <2>1, FirstAssumption DEF ChatInit
  <2>3. lane \in Lanes /\ sent \in 0..MaxSends /\ moves \in 0..MaxMoves
    BY ChatBounds DEF ChatInit
  <2>4. /\ call \in {"none", "fetching", "reading", "listing"}
        /\ active \in Conversations /\ status \in {"loading", "success", "error"}
        /\ sendError \in BOOLEAN /\ raced \in BOOLEAN
    BY FirstAssumption DEF ChatInit
  <2> QED
    BY <2>1, <2>2, <2>3, <2>4 DEF ChatTypeOK
<1>3. \A s \in Sends : Honest(s)
  BY DEF ChatInit, Honest, InStore
<1>4. ShellKnows /\ NeverSilent
  BY DEF ChatInit, ShellKnows, NeverSilent
<1> QED  BY <1>2, <1>3, <1>4 DEF ChatInv

-----------------------------------------------------------------------------
(* The chat: the handler *)

\* The store only grows at its end.
LEMMA StoreGrows ==
  ASSUME ChatTypeOK, NEW m \in Utterance, store' = Append(store, m)
  PROVE  /\ store' \in Seq(Utterance)
         /\ \A i \in DOMAIN store : i \in DOMAIN store' /\ store'[i] = store[i]
         /\ Len(store) + 1 \in DOMAIN store' /\ store'[Len(store) + 1] = m
         /\ \A i \in DOMAIN store' : i \in DOMAIN store \/ (i = Len(store) + 1)
         /\ \A i \in DOMAIN store : i < Len(store) + 1
<1>1. store \in Seq(Utterance) /\ Len(store) \in Nat /\ DOMAIN store = 1..Len(store)
  BY DEF ChatTypeOK
<1>2. /\ store' \in Seq(Utterance) /\ Len(store') = Len(store) + 1
      /\ \A i \in 1..Len(store) : store'[i] = store[i]
      /\ store'[Len(store) + 1] = m
  BY <1>1, AppendProperties
<1>3. DOMAIN store' = 1..(Len(store) + 1)
  BY <1>2
<1> QED  BY <1>1, <1>2, <1>3

\* Ask and Reply are different, and different for different sends.
LEMMA Utterances ==
  ASSUME NEW s \in Sends, NEW r \in Sends
  PROVE  /\ Ask(s) \in Utterance /\ Reply(s) \in Utterance /\ Ask(s) # Reply(r)
         /\ (Ask(s) = Ask(r) \/ Reply(s) = Reply(r)) => s = r
         /\ Ask(s).send = s /\ Reply(s).send = s
BY DEF Ask, Reply, Utterance

\* A step of the handler of send s, which may add to the store and to the response, keeps
\* the invariant if what is known of s stays known.
LEMMA HandlerStep ==
  ASSUME ChatInv, NEW s \in Sends, NEW b \in Seq(Kinds),
         NEW h \in {"idle", "calling", "streaming", "refused", "closed"},
         NEW v \in SUBSET {"succeeded", "failed"},
         store' = store \/ store' = Append(store, Ask(s)) \/ store' = Append(store, Reply(s)),
         body' = [body EXCEPT ![s] = b], handler' = [handler EXCEPT ![s] = h],
         verdicts' = [verdicts EXCEPT ![s] = v],
         Len(b) >= Len(body[s]), \A i \in DOMAIN body[s] : b[i] = body[s][i],
         moves' \in 0..MaxMoves,
         UNCHANGED <<line, to, lane, sent, call, seen, told, sendError, view, raced>>,
         Honest(s)'
  PROVE  ChatInv'
<1>1. Ask(s) \in Utterance /\ Reply(s) \in Utterance
  BY Utterances
<1>2. /\ store' \in Seq(Utterance)
      /\ \A i \in DOMAIN store : i \in DOMAIN store' /\ store'[i] = store[i]
      /\ \A i \in DOMAIN store' : i \in DOMAIN store \/ store'[i] \in {Ask(s), Reply(s)}
  BY <1>1, StoreGrows DEF ChatInv, ChatTypeOK
<1>3. /\ body'[s] = b /\ handler'[s] = h /\ verdicts'[s] = v
      /\ \A r \in Sends \ {s} : body'[r] = body[r] /\ handler'[r] = handler[r] /\ verdicts'[r] = verdicts[r]
  BY DEF ChatInv, ChatTypeOK
<1>4. ChatTypeOK'
  BY <1>2 DEF ChatInv, ChatTypeOK, view
<1>5. ASSUME NEW r \in Sends \ {s}
      PROVE  Honest(r)'
  <2>1. Honest(r) /\ r \in Sends
    BY DEF ChatInv
  <2>2. /\ InStore(Reply(r)) <=> InStore(Reply(r))'
        /\ InStore(Ask(r)) => InStore(Ask(r))'
    <3>1. \A i \in DOMAIN store' : store'[i] = Reply(r) => i \in DOMAIN store /\ store[i] = Reply(r)
      BY <1>2, Utterances
    <3> QED  BY <1>2, <3>1 DEF InStore
  <2>3. (\E i, j \in DOMAIN store : i < j /\ store[i] = Ask(r) /\ store[j] = Reply(r))
          => (\E i, j \in DOMAIN store' : i < j /\ store'[i] = Ask(r) /\ store'[j] = Reply(r))
    BY <1>2
  <2> QED  BY <1>3, <2>1, <2>2, <2>3 DEF Honest
<1>6. ShellKnows'
  <2>1. \A r \in Sends : \A i \in 1..seen[r] : body'[r][i] = body[r][i]
    <3>1. \A r \in Sends : seen[r] \in Nat /\ seen[r] <= Len(body[r]) /\ Len(body[r]) \in Nat
                           /\ DOMAIN body[r] = 1..Len(body[r])
      BY DEF ChatInv, ChatTypeOK, Honest
    <3> QED  BY <1>3, <3>1
  <2>2. call # "none" => sent \in Sends
    BY DEF ChatInv, ChatTypeOK, ShellKnows, Sends
  <2> QED  BY <2>1, <2>2 DEF ChatInv, ShellKnows
<1>7. NeverSilent'
  BY DEF ChatInv, NeverSilent, Ready
<1> QED  BY <1>4, <1>5, <1>6, <1>7 DEF ChatInv

\* What may come next in the response is known, and says what came last.
LEMMA Events ==
  ASSUME ChatTypeOK, NEW s \in Sends, NEW k \in NextEvents(s)
  PROVE  /\ k \in Kinds \ {"error"}
         /\ k = "completed" => \E i \in DOMAIN body[s] : body[s][i] = "answer"
<1>1. body[s] \in Seq(Kinds) /\ DOMAIN body[s] = 1..Len(body[s]) /\ Len(body[s]) \in Nat
  BY DEF ChatTypeOK
<1> DEFINE last == IF body[s] = <<>> THEN "none" ELSE body[s][Len(body[s])]
<1>2. k \in DefaultLane(last) \cup (IF last = "started" THEN {"answer"} ELSE {})
  BY DEF NextEvents, LocalLane, EcommerceLane
<1>3. last = "answer" => \E i \in DOMAIN body[s] : body[s][i] = "answer"
  BY <1>1
<1> HIDE DEF last
<1> QED
  BY <1>2, <1>3 DEF DefaultLane, Kinds

\* An event is written after those there are.
LEMMA Written ==
  ASSUME ChatTypeOK, NEW s \in Sends, NEW k \in Kinds
  PROVE  LET b == Append(body[s], k) IN
         /\ b \in Seq(Kinds) /\ Len(b) = Len(body[s]) + 1 /\ Len(body[s]) \in Nat
         /\ DOMAIN body[s] = 1..Len(body[s]) /\ DOMAIN b = 1..(Len(body[s]) + 1)
         /\ \A i \in DOMAIN body[s] : b[i] = body[s][i]
         /\ b[Len(body[s]) + 1] = k
<1>1. body[s] \in Seq(Kinds)
  BY DEF ChatTypeOK
<1> QED
  BY <1>1, AppendProperties

\* The question is stored.
LEMMA TakeStep ==
  ASSUME ChatInv, NEW s \in Sends, TakeForPython(s) \/ TakeLocally(s)
  PROVE  ChatInv'
<1>1. PICK h \in {"calling", "streaming"} : handler' = [handler EXCEPT ![s] = h]
  BY DEF TakeForPython, TakeLocally
<1>2. /\ store' = Append(store, Ask(s)) /\ body[s] \in Seq(Kinds) /\ verdicts[s] \in SUBSET {"succeeded", "failed"}
      /\ body' = [body EXCEPT ![s] = body[s]] /\ verdicts' = [verdicts EXCEPT ![s] = verdicts[s]]
      /\ handler'[s] = h /\ body' = body /\ verdicts' = verdicts /\ moves' \in 0..MaxMoves
      /\ UNCHANGED <<line, to, lane, sent, call, seen, told, sendError, view, raced>>
  BY <1>1 DEF ChatInv, ChatTypeOK, TakeForPython, TakeLocally
<1>3. Honest(s)'
  <2>1. Honest(s)
    BY DEF ChatInv
  <2>2. /\ \A i \in DOMAIN store : i \in DOMAIN store' /\ store'[i] = store[i]
        /\ Len(store) + 1 \in DOMAIN store' /\ store'[Len(store) + 1] = Ask(s)
        /\ \A i \in DOMAIN store' : i \in DOMAIN store \/ i = Len(store) + 1
    BY <1>2, Utterances, StoreGrows DEF ChatInv
  <2>3. /\ InStore(Ask(s))'
        /\ InStore(Reply(s)) <=> InStore(Reply(s))'
    BY <2>2, Utterances DEF InStore
  <2>4. (\E i, j \in DOMAIN store : i < j /\ store[i] = Ask(s) /\ store[j] = Reply(s))
          => (\E i, j \in DOMAIN store' : i < j /\ store'[i] = Ask(s) /\ store'[j] = Reply(s))
    BY <2>2
  <2> QED  BY <1>1, <1>2, <2>1, <2>3, <2>4 DEF Honest
<1>4. \A i \in DOMAIN body[s] : body[s][i] = body[s][i]
  OBVIOUS
<1>5. Len(body[s]) >= Len(body[s])
  BY <1>2
<1> QED
  BY <1>1, <1>2, <1>3, <1>4, <1>5, HandlerStep

\* A step that writes nothing and stores nothing: Python answers or refuses, or the stream is done.
LEMMA WaitStep ==
  ASSUME ChatInv, NEW s \in Sends, PythonAnswers(s) \/ RefuseSend(s) \/ StreamDone(s)
  PROVE  ChatInv'
<1>1. PICK h \in {"streaming", "refused", "closed"} :
        /\ handler' = [handler EXCEPT ![s] = h]
        /\ h = "streaming" => handler[s] = "calling"
        /\ h = "closed" => body[s] # <<>> /\ body[s][Len(body[s])] = "completed"
  BY DEF PythonAnswers, RefuseSend, StreamDone
<1>2. /\ store' = store /\ body[s] \in Seq(Kinds) /\ verdicts[s] \in SUBSET {"succeeded", "failed"}
      /\ body' = [body EXCEPT ![s] = body[s]] /\ verdicts' = [verdicts EXCEPT ![s] = verdicts[s]]
      /\ handler'[s] = h /\ body' = body /\ verdicts' = verdicts
      /\ UNCHANGED <<line, to, lane, sent, call, seen, told, sendError, view, raced>>
  BY <1>1 DEF ChatInv, ChatTypeOK, PythonAnswers, RefuseSend, StreamDone
<1>3. moves' \in 0..MaxMoves
  BY ChatBounds DEF ChatInv, ChatTypeOK, PythonAnswers, RefuseSend, StreamDone, Move
<1>4. Honest(s)'
  <2>1. Honest(s) /\ InStore(Ask(s))' = InStore(Ask(s)) /\ InStore(Reply(s))' = InStore(Reply(s))
    BY <1>2 DEF ChatInv, InStore
  <2>3. h = "closed" => \E i \in DOMAIN body[s] : body[s][i] = "completed"
    <3>1. DOMAIN body[s] = 1..Len(body[s]) /\ Len(body[s]) \in Nat
      BY <1>2
    <3> QED  BY <1>1, <1>2, <3>1
  <2>4. h = "closed" => \E i \in DOMAIN body[s] : body[s][i] = "answer"
    BY <2>1, <2>3 DEF Honest
  <2> QED  BY <1>1, <1>2, <2>1, <2>4 DEF Honest
<1>5. \A i \in DOMAIN body[s] : body[s][i] = body[s][i]
  OBVIOUS
<1>6. Len(body[s]) >= Len(body[s])
  BY <1>2
<1> QED
  BY <1>1, <1>2, <1>3, <1>4, <1>5, <1>6, HandlerStep

\* What a streaming handler has: the question in the store, and room for the answer after it.
LEMMA AnswerStored ==
  ASSUME ChatInv, NEW s \in Sends, handler[s] = "streaming", store' = Append(store, Reply(s))
  PROVE  /\ InStore(Ask(s))' /\ InStore(Reply(s))'
         /\ (\E i, j \in DOMAIN store : i < j /\ store[i] = Ask(s) /\ store[j] = Reply(s))'
<1>1. PICK i \in DOMAIN store : store[i] = Ask(s)
  BY DEF ChatInv, Honest, InStore
<1>2. /\ \A j \in DOMAIN store : j \in DOMAIN store' /\ store'[j] = store[j]
      /\ Len(store) + 1 \in DOMAIN store' /\ store'[Len(store) + 1] = Reply(s)
      /\ \A j \in DOMAIN store : j < Len(store) + 1
  BY Utterances, StoreGrows DEF ChatInv
<1>3. i \in DOMAIN store' /\ store'[i] = Ask(s) /\ i < Len(store) + 1
  BY <1>1, <1>2
<1> QED
  BY <1>2, <1>3 DEF InStore

\* An event is passed on, or the reader is found to be gone.
LEMMA PassOnStep ==
  ASSUME ChatInv, NEW s \in Sends, PassOn(s)
  PROVE  ChatInv'
<1>1. /\ handler[s] = "streaming" /\ store' = store /\ moves' \in 0..MaxMoves
      /\ UNCHANGED <<line, to, lane, sent, call, seen, told, sendError, view, raced>>
      /\ Honest(s) /\ ChatTypeOK
      /\ InStore(Ask(s))' = InStore(Ask(s)) /\ InStore(Reply(s))' = InStore(Reply(s))
  BY DEF PassOn, ChatInv, ChatTypeOK, InStore
<1>2. PICK k \in NextEvents(s) \ {"answer", "completed"} :
        \/ line[s] /\ body' = [body EXCEPT ![s] = Append(@, k)] /\ UNCHANGED <<handler, verdicts>>
        \/ ~line[s] /\ Gone(s)
  BY DEF PassOn
<1>3. k \in Kinds \ {"answer", "completed", "error"}
  BY <1>1, Events
<1>4. CASE line[s] /\ body' = [body EXCEPT ![s] = Append(@, k)] /\ UNCHANGED <<handler, verdicts>>
  <2> DEFINE b == Append(body[s], k)
  <2>1. /\ b \in Seq(Kinds) /\ Len(b) = Len(body[s]) + 1 /\ Len(body[s]) \in Nat
        /\ DOMAIN body[s] = 1..Len(body[s]) /\ DOMAIN b = 1..(Len(body[s]) + 1)
        /\ \A i \in DOMAIN body[s] : b[i] = body[s][i]
        /\ b[Len(body[s]) + 1] = k
    BY <1>1, <1>3, Written
  <2>2. body' = [body EXCEPT ![s] = b]
    BY <1>4
  <2> HIDE DEF b
  <2>3. /\ handler' = [handler EXCEPT ![s] = "streaming"] /\ verdicts' = [verdicts EXCEPT ![s] = verdicts[s]]
        /\ verdicts[s] \in SUBSET {"succeeded", "failed"} /\ handler' = handler /\ verdicts' = verdicts
        /\ body'[s] = b
    BY <1>1, <1>4, <2>2 DEF ChatTypeOK
  <2>4. Honest(s)'
    <3>1. /\ \A i \in DOMAIN b : b[i] = "answer" => \E j \in DOMAIN body[s] : body[s][j] = "answer"
          /\ \A i \in DOMAIN b : b[i] = "completed" => \E j \in DOMAIN body[s] : body[s][j] = "completed"
          /\ \A j \in DOMAIN body[s] : j \in DOMAIN b /\ b[j] = body[s][j]
      BY <1>3, <2>1
    <3>2. Len(b) >= Len(body[s]) /\ Len(b) \in Nat /\ seen[s] \in Nat
      BY <1>1, <2>1 DEF ChatTypeOK
    <3> QED  BY <1>1, <2>3, <2>1, <3>1, <3>2 DEF Honest
  <2>5. Len(b) >= Len(body[s])
    BY <2>1
  <2> QED
    BY <1>1, <2>1, <2>2, <2>3, <2>4, <2>5, HandlerStep
<1>5. CASE ~line[s] /\ Gone(s)
  <2> DEFINE v == IF lane = "local" THEN verdicts[s] \cup {"failed"} ELSE verdicts[s]
  <2>1. /\ handler' = [handler EXCEPT ![s] = "closed"] /\ verdicts' = [verdicts EXCEPT ![s] = v]
        /\ v \in SUBSET {"succeeded", "failed"} /\ handler'[s] = "closed" /\ verdicts'[s] = v
        /\ body' = [body EXCEPT ![s] = body[s]] /\ body' = body /\ body[s] \in Seq(Kinds)
    BY <1>1, <1>5 DEF ChatTypeOK, Gone
  <2>2. Honest(s)'
    BY <1>1, <1>5, <2>1 DEF Honest
  <2>3. Len(body[s]) >= Len(body[s])
    BY <2>1
  <2> HIDE DEF v
  <2> QED
    BY <1>1, <2>1, <2>2, <2>3, HandlerStep
<1> QED
  BY <1>2, <1>4, <1>5

\* The answer is stored and passed on.
LEMMA PassAnswerStep ==
  ASSUME ChatInv, NEW s \in Sends, PassAnswer(s)
  PROVE  ChatInv'
<1>1. /\ handler[s] = "streaming" /\ store' = Append(store, Reply(s)) /\ moves' \in 0..MaxMoves
      /\ UNCHANGED <<line, to, lane, sent, call, seen, told, sendError, view, raced>>
      /\ Honest(s) /\ ChatTypeOK
  BY DEF PassAnswer, ChatInv, ChatTypeOK
<1>2. /\ InStore(Ask(s))' /\ InStore(Reply(s))'
      /\ (\E i, j \in DOMAIN store : i < j /\ store[i] = Ask(s) /\ store[j] = Reply(s))'
  BY <1>1, AnswerStored
<1>3. CASE line[s] /\ body' = [body EXCEPT ![s] = Append(@, "answer")] /\ UNCHANGED <<handler, verdicts>>
  <2> DEFINE b == Append(body[s], "answer")
  <2>1. /\ b \in Seq(Kinds) /\ Len(b) = Len(body[s]) + 1 /\ Len(body[s]) \in Nat
        /\ DOMAIN body[s] = 1..Len(body[s]) /\ DOMAIN b = 1..(Len(body[s]) + 1)
        /\ \A i \in DOMAIN body[s] : b[i] = body[s][i]
        /\ b[Len(body[s]) + 1] = "answer"
    BY <1>1, Written DEF Kinds
  <2>2. body' = [body EXCEPT ![s] = b]
    BY <1>3
  <2> HIDE DEF b
  <2>3. /\ handler' = [handler EXCEPT ![s] = "streaming"] /\ verdicts' = [verdicts EXCEPT ![s] = verdicts[s]]
        /\ verdicts[s] \in SUBSET {"succeeded", "failed"} /\ handler' = handler /\ verdicts' = verdicts
        /\ body'[s] = b
    BY <1>1, <1>3, <2>2 DEF ChatTypeOK
  <2>4. Honest(s)'
    <3>1. \E j \in DOMAIN b : b[j] = "answer"
      BY <2>1
    <3>2. Len(b) >= Len(body[s]) /\ Len(b) \in Nat /\ seen[s] \in Nat
      BY <1>1, <2>1 DEF ChatTypeOK
    <3> QED  BY <1>1, <1>2, <2>3, <2>1, <3>1, <3>2 DEF Honest
  <2>5. Len(b) >= Len(body[s])
    BY <2>1
  <2> QED
    BY <1>1, <2>1, <2>2, <2>3, <2>4, <2>5, HandlerStep
<1>4. CASE ~line[s] /\ Gone(s)
  <2>1. /\ lane # "local"
        /\ handler' = [handler EXCEPT ![s] = "closed"] /\ verdicts' = [verdicts EXCEPT ![s] = verdicts[s]]
        /\ verdicts[s] \in SUBSET {"succeeded", "failed"} /\ handler'[s] = "closed" /\ verdicts' = verdicts
        /\ body' = [body EXCEPT ![s] = body[s]] /\ body' = body /\ body[s] \in Seq(Kinds)
    BY <1>1, <1>4 DEF ChatTypeOK, Gone, PassAnswer
  <2>2. Honest(s)'
    BY <1>1, <1>2, <1>4, <2>1 DEF Honest
  <2>3. Len(body[s]) >= Len(body[s])
    BY <2>1
  <2> QED
    BY <1>1, <2>1, <2>2, <2>3, HandlerStep
<1> QED
  BY <1>3, <1>4 DEF PassAnswer

\* The trace is recorded and the completion passed on.
LEMMA PassCompletionStep ==
  ASSUME ChatInv, NEW s \in Sends, PassCompletion(s)
  PROVE  ChatInv'
<1>1. /\ handler[s] = "streaming" /\ store' = store /\ moves' \in 0..MaxMoves
      /\ UNCHANGED <<line, to, lane, sent, call, seen, told, sendError, view, raced>>
      /\ Honest(s) /\ ChatTypeOK /\ "completed" \in NextEvents(s)
      /\ InStore(Ask(s))' = InStore(Ask(s)) /\ InStore(Reply(s))' = InStore(Reply(s))
  BY DEF PassCompletion, ChatInv, ChatTypeOK, InStore
<1>2. /\ \E i \in DOMAIN body[s] : body[s][i] = "answer"
      /\ InStore(Reply(s))
  BY <1>1, Events DEF Honest
<1> DEFINE v == verdicts[s] \cup {"succeeded"}
<1>3. /\ verdicts' = [verdicts EXCEPT ![s] = v] /\ v \in SUBSET {"succeeded", "failed"} /\ verdicts'[s] = v
      /\ lane # "local" => v \subseteq {"succeeded"}
  BY <1>1 DEF PassCompletion, ChatTypeOK, Honest
<1> HIDE DEF v
<1>4. CASE line[s]
  <2> DEFINE b == Append(body[s], "completed")
  <2>1. /\ b \in Seq(Kinds) /\ Len(b) = Len(body[s]) + 1 /\ Len(body[s]) \in Nat
        /\ DOMAIN body[s] = 1..Len(body[s]) /\ DOMAIN b = 1..(Len(body[s]) + 1)
        /\ \A i \in DOMAIN body[s] : b[i] = body[s][i]
        /\ b[Len(body[s]) + 1] = "completed"
    BY <1>1, Written DEF Kinds
  <2>2. body' = [body EXCEPT ![s] = b]
    BY <1>4 DEF PassCompletion
  <2> HIDE DEF b
  <2>3. /\ handler' = [handler EXCEPT ![s] = "streaming"] /\ handler' = handler /\ body'[s] = b
    BY <1>1, <1>4, <2>2 DEF ChatTypeOK, PassCompletion
  <2>4. Honest(s)'
    <3>1. \E j \in DOMAIN b : b[j] = "answer"
      BY <1>2, <2>1
    <3>2. Len(b) >= Len(body[s]) /\ Len(b) \in Nat /\ seen[s] \in Nat
      BY <1>1, <2>1 DEF ChatTypeOK
    <3>3. seen[s] <= Len(b)
      BY <1>1, <2>1, <3>2 DEF Honest
    <3>4. InStore(Reply(s))' /\ InStore(Ask(s))' /\ handler'[s] = "streaming"
          /\ (InStore(Reply(s)) => (\E i, j \in DOMAIN store : i < j /\ store[i] = Ask(s) /\ store[j] = Reply(s))')
      BY <1>1, <1>2, <2>3 DEF Honest
    <3> QED  BY <1>2, <1>1, <1>3, <2>3, <3>1, <3>3, <3>4 DEF Honest
  <2>5. Len(b) >= Len(body[s])
    BY <2>1
  <2> QED
    BY <1>1, <1>3, <2>1, <2>2, <2>3, <2>4, <2>5, HandlerStep
<1>5. CASE ~line[s]
  <2>1. /\ handler' = [handler EXCEPT ![s] = "closed"] /\ handler'[s] = "closed"
        /\ body' = [body EXCEPT ![s] = body[s]] /\ body' = body /\ body[s] \in Seq(Kinds)
    BY <1>1, <1>5 DEF ChatTypeOK, PassCompletion
  <2>2. Honest(s)'
    BY <1>1, <1>2, <1>3, <1>5, <2>1 DEF Honest
  <2>3. Len(body[s]) >= Len(body[s])
    BY <2>1
  <2> QED
    BY <1>1, <1>3, <2>1, <2>2, <2>3, HandlerStep
<1> QED
  BY <1>4, <1>5

\* The handler stores its own answer, records it and writes the end of the response.
LEMMA AnswerLocallyStep ==
  ASSUME ChatInv, NEW s \in Sends, AnswerLocally(s)
  PROVE  ChatInv'
<1>1. /\ handler[s] = "streaming" /\ store' = Append(store, Reply(s)) /\ moves' \in 0..MaxMoves
      /\ UNCHANGED <<line, to, lane, sent, call, seen, told, sendError, view, raced>>
      /\ Honest(s) /\ ChatTypeOK /\ lane = "local"
      /\ handler' = [handler EXCEPT ![s] = "closed"] /\ handler'[s] = "closed"
  BY DEF AnswerLocally, ChatInv, ChatTypeOK
<1>2. /\ InStore(Ask(s))' /\ InStore(Reply(s))'
      /\ (\E i, j \in DOMAIN store : i < j /\ store[i] = Ask(s) /\ store[j] = Reply(s))'
  BY <1>1, AnswerStored
<1>3. PICK v \in SUBSET {"succeeded", "failed"} :
        verdicts' = [verdicts EXCEPT ![s] = v] /\ verdicts'[s] = v
  <2> DEFINE w == verdicts[s] \cup {"succeeded"} \cup (IF line[s] THEN {} ELSE {"failed"})
  <2>1. w \in SUBSET {"succeeded", "failed"} /\ verdicts' = [verdicts EXCEPT ![s] = w] /\ verdicts'[s] = w
    BY <1>1 DEF AnswerLocally, ChatTypeOK
  <2> HIDE DEF w
  <2> QED  BY <2>1
<1>4. CASE line[s]
  <2> DEFINE b == body[s] \o <<"answer", "completed">>
  <2>1. /\ body[s] \in Seq(Kinds) /\ Len(body[s]) \in Nat /\ DOMAIN body[s] = 1..Len(body[s])
        /\ <<"answer", "completed">> \in Seq(Kinds) /\ Len(<<"answer", "completed">>) = 2
    BY <1>1 DEF ChatTypeOK, Kinds
  <2>2. /\ b \in Seq(Kinds) /\ Len(b) = Len(body[s]) + 2
        /\ \A i \in 1..(Len(body[s]) + 2) :
             b[i] = IF i <= Len(body[s]) THEN body[s][i] ELSE <<"answer", "completed">>[i - Len(body[s])]
    BY <2>1, ConcatProperties
  <2>3. body' = [body EXCEPT ![s] = b]
    BY <1>4 DEF AnswerLocally
  <2> HIDE DEF b
  <2>4. DOMAIN b = 1..(Len(body[s]) + 2) /\ Len(body[s]) + 1 \in DOMAIN b
    BY <2>1, <2>2
  <2>5. \A i \in DOMAIN body[s] : b[i] = body[s][i]
    BY <2>1, <2>2
  <2>6. b[Len(body[s]) + 1] = "answer"
    <3>1. (Len(body[s]) + 1) - Len(body[s]) = 1 /\ ~(Len(body[s]) + 1 <= Len(body[s]))
      BY <2>1
    <3> QED  BY <2>1, <2>2, <3>1
  <2>7. body'[s] = b
    BY <1>1, <2>3 DEF ChatTypeOK
  <2>8. Honest(s)'
    <3>1. \E j \in DOMAIN b : b[j] = "answer"
      BY <2>4, <2>6
    <3>2. Len(b) >= Len(body[s]) /\ Len(b) \in Nat /\ seen[s] \in Nat
      BY <1>1, <2>1, <2>2 DEF ChatTypeOK
    <3>3. seen[s] <= Len(b)
      BY <1>1, <2>1, <3>2 DEF Honest
    <3> QED  BY <1>1, <1>2, <2>7, <3>1, <3>3 DEF Honest
  <2>9. Len(b) >= Len(body[s])
    BY <2>1, <2>2
  <2> QED
    BY <1>1, <1>3, <2>2, <2>3, <2>5, <2>8, <2>9, HandlerStep
<1>5. CASE ~line[s]
  <2>1. body' = [body EXCEPT ![s] = body[s]] /\ body' = body /\ body[s] \in Seq(Kinds)
    BY <1>1, <1>5 DEF ChatTypeOK, AnswerLocally
  <2>2. Honest(s)'
    BY <1>1, <1>2, <1>5, <2>1 DEF Honest
  <2>3. Len(body[s]) >= Len(body[s])
    BY <2>1
  <2> QED
    BY <1>1, <1>3, <2>1, <2>2, <2>3, HandlerStep
<1> QED
  BY <1>4, <1>5

\* The producer fails, which ends the response with an error.
LEMMA ProducerFailsStep ==
  ASSUME ChatInv, NEW s \in Sends, ProducerFails(s)
  PROVE  ChatInv'
<1>1. /\ store' = store /\ handler' = [handler EXCEPT ![s] = "closed"] /\ handler'[s] = "closed"
      /\ UNCHANGED <<line, to, lane, sent, call, seen, told, sendError, view, raced>>
      /\ Honest(s) /\ ChatTypeOK
      /\ InStore(Ask(s))' = InStore(Ask(s)) /\ InStore(Reply(s))' = InStore(Reply(s))
  BY DEF ProducerFails, ChatInv, ChatTypeOK, InStore
<1>2. moves' \in 0..MaxMoves
  BY <1>1, ChatBounds DEF ProducerFails, Move, ChatTypeOK
<1> DEFINE v == IF lane = "local" THEN verdicts[s] \cup {"failed"} ELSE verdicts[s]
<1>3. /\ verdicts' = [verdicts EXCEPT ![s] = v] /\ v \in SUBSET {"succeeded", "failed"} /\ verdicts'[s] = v
      /\ "succeeded" \in v => "succeeded" \in verdicts[s]
      /\ lane # "local" => v = verdicts[s]
  BY <1>1 DEF ProducerFails, ChatTypeOK
<1> HIDE DEF v
<1>4. CASE line[s]
  <2> DEFINE b == Append(body[s], "error")
  <2>1. /\ b \in Seq(Kinds) /\ Len(b) = Len(body[s]) + 1 /\ Len(body[s]) \in Nat
        /\ DOMAIN body[s] = 1..Len(body[s]) /\ DOMAIN b = 1..(Len(body[s]) + 1)
        /\ \A i \in DOMAIN body[s] : b[i] = body[s][i]
        /\ b[Len(body[s]) + 1] = "error"
    BY <1>1, Written DEF Kinds
  <2>2. body' = [body EXCEPT ![s] = b]
    BY <1>4 DEF ProducerFails
  <2> HIDE DEF b
  <2>3. body'[s] = b
    BY <1>1, <2>2 DEF ChatTypeOK
  <2>4. Honest(s)'
    <3>1. /\ \A i \in DOMAIN b : b[i] = "answer" => \E j \in DOMAIN body[s] : body[s][j] = "answer"
          /\ \A i \in DOMAIN b : b[i] = "completed" => \E j \in DOMAIN body[s] : body[s][j] = "completed"
          /\ \A j \in DOMAIN body[s] : j \in DOMAIN b /\ b[j] = body[s][j]
          /\ \E j \in DOMAIN b : b[j] = "error"
      BY <2>1
    <3>2. Len(b) >= Len(body[s]) /\ Len(b) \in Nat /\ seen[s] \in Nat
      BY <1>1, <2>1 DEF ChatTypeOK
    <3> QED  BY <1>1, <1>3, <2>3, <2>1, <3>1, <3>2 DEF Honest
  <2>5. Len(b) >= Len(body[s])
    BY <2>1
  <2> QED
    BY <1>1, <1>2, <1>3, <2>1, <2>2, <2>4, <2>5, HandlerStep
<1>5. CASE ~line[s]
  <2>1. body' = [body EXCEPT ![s] = body[s]] /\ body' = body /\ body[s] \in Seq(Kinds)
    BY <1>1, <1>5 DEF ChatTypeOK, ProducerFails
  <2>2. Honest(s)'
    BY <1>1, <1>3, <1>5, <2>1 DEF Honest
  <2>3. Len(body[s]) >= Len(body[s])
    BY <2>1
  <2> QED
    BY <1>1, <1>2, <1>3, <2>1, <2>2, <2>3, HandlerStep
<1> QED
  BY <1>4, <1>5

-----------------------------------------------------------------------------
(* The chat: the shell *)

\* What is known of the sends stays known when neither their handlers nor their news change.
LEMMA HonestStays ==
  ASSUME ChatInv, UNCHANGED <<server, line, lane, seen, told>>
  PROVE  \A s \in Sends : Honest(s)'
BY DEF ChatInv, server, Honest, InStore

\* A message is sent.
LEMMA SendStep ==
  ASSUME ChatInv, Send
  PROVE  ChatInv'
<1>1. /\ sent < MaxSends /\ sent' = sent + 1 /\ call' = "fetching" /\ sendError' = FALSE
      /\ to' = [to EXCEPT ![sent + 1] = active] /\ raced' = (raced \/ status = "error")
      /\ UNCHANGED <<server, line, lane, seen, told, view>>
  BY DEF Send
<1>2. moves' \in 0..MaxMoves /\ sent + 1 \in Sends /\ sent' \in 0..MaxSends
  BY <1>1, ChatBounds DEF ChatInv, ChatTypeOK, Send, Move, Sends
<1>3. to' \in [Sends -> Conversations]
  BY <1>1, <1>2 DEF ChatInv, ChatTypeOK
<1>4. ChatTypeOK'
  BY <1>1, <1>2, <1>3 DEF ChatInv, ChatTypeOK, server, view
<1>5. \A s \in Sends : Honest(s)'
  BY <1>1, HonestStays
<1>6. ShellKnows'
  <2>1. sent \in Nat /\ sent' > 0 /\ \A s \in Sends : s \in Nat /\ (s > sent' => s > sent)
    BY <1>1, ChatBounds DEF ChatInv, ChatTypeOK, Sends
  <2>2. seen'[sent'] = 0 /\ line'[sent']
    BY <1>1, <1>2, <2>1 DEF ChatInv, ShellKnows
  <2>3. \A s \in Sends : s > sent' => seen'[s] = 0 /\ line'[s]
    BY <1>1, <2>1 DEF ChatInv, ShellKnows
  <2>4. 1..seen'[sent'] = {}
    BY <2>2
  <2> QED  BY <1>1, <2>1, <2>2, <2>3, <2>4 DEF ShellKnows
<1>7. NeverSilent'
  BY <1>1 DEF NeverSilent, Ready
<1> QED  BY <1>4, <1>5, <1>6, <1>7 DEF ChatInv

\* While a message is under way it is one of the sends.
LEMMA UnderWay == ChatInv /\ call # "none" => sent \in Sends /\ Honest(sent)
BY DEF ChatInv, ChatTypeOK, ShellKnows, Sends

\* The send ends with an error, with or without the connection.
LEMMA SendFailsStep ==
  ASSUME ChatInv, SendRefused \/ ConnectionBreaks
  PROVE  ChatInv'
<1>1. /\ call # "none" /\ call' = "none" /\ sendError' = TRUE
      /\ told' = [told EXCEPT ![sent] = IF @ = "answer" THEN @ ELSE "failure"]
      /\ line' = line \/ line' = [line EXCEPT ![sent] = FALSE]
      /\ UNCHANGED <<server, to, lane, sent, seen, view>>
  BY DEF SendRefused, ConnectionBreaks, SendFails
<1>2. sent \in Sends
  BY <1>1, UnderWay
<1>3. moves' \in 0..MaxMoves /\ raced' \in BOOLEAN
  <2>1. moves' \in 0..MaxMoves
    BY ChatBounds DEF ChatInv, ChatTypeOK, SendRefused, ConnectionBreaks, Move
  <2>2. raced' \in BOOLEAN
    BY DEF ChatInv, ChatTypeOK, SendRefused, ConnectionBreaks
  <2> QED  BY <2>1, <2>2
<1>4. /\ line' \in [Sends -> BOOLEAN] /\ told' \in [Sends -> {"nothing", "answer", "failure"}]
      /\ \A s \in Sends : /\ line'[s] => line[s]
                          /\ told'[s] = "answer" <=> told[s] = "answer"
                          /\ s # sent => line'[s] = line[s]
  BY <1>1, <1>2 DEF ChatInv, ChatTypeOK
<1>5. ChatTypeOK'
  BY <1>1, <1>3, <1>4 DEF ChatInv, ChatTypeOK, server, view
<1>6. ASSUME NEW s \in Sends
      PROVE  Honest(s)'
  <2>1. Honest(s)
    BY DEF ChatInv
  <2> QED
    BY <1>1, <1>4, <2>1 DEF Honest, server, InStore
<1>7. ShellKnows'
  <2>1. \A s \in Sends : s > sent => s # sent
    BY DEF ChatInv, ChatTypeOK, Sends
  <2> QED
    BY <1>1, <1>4, <2>1 DEF ChatInv, ShellKnows
<1>8. NeverSilent'
  BY <1>1 DEF NeverSilent
<1> QED  BY <1>5, <1>6, <1>7, <1>8 DEF ChatInv

\* The response begins.
LEMMA SendAcceptedStep ==
  ASSUME ChatInv, SendAccepted
  PROVE  ChatInv'
<1>1. /\ call = "fetching" /\ call' = "reading"
      /\ UNCHANGED <<server, line, to, lane, sent, seen, told, sendError, view, moves, raced>>
  BY DEF SendAccepted
<1>2. ChatTypeOK'
  BY <1>1 DEF ChatInv, ChatTypeOK, server, view
<1>3. \A s \in Sends : Honest(s)'
  BY <1>1, HonestStays
<1>4. ShellKnows' /\ NeverSilent'
  BY <1>1 DEF ChatInv, ShellKnows, NeverSilent, Ready, server
<1> QED  BY <1>2, <1>3, <1>4 DEF ChatInv

\* An event is handled: the shell has learnt what it says.
LEMMA HandleEventStep ==
  ASSUME ChatInv, HandleEvent
  PROVE  ChatInv'
<1> DEFINE n == seen[sent] + 1
           k == body[sent][n]
<1>1. /\ call = "reading" /\ seen[sent] < Len(body[sent])
      /\ shown' = (CASE k = "started" -> Append(shown, Ask(sent))
                     [] k = "answer" -> Append(shown, Reply(sent))
                     [] OTHER -> shown)
      /\ sendError' = (sendError \/ k = "error")
      /\ told' = (CASE k = "answer" -> [told EXCEPT ![sent] = "answer"]
                    [] k = "error" -> [told EXCEPT ![sent] = IF @ = "answer" THEN @ ELSE "failure"]
                    [] OTHER -> told)
      /\ seen' = [seen EXCEPT ![sent] = n]
      /\ UNCHANGED <<server, line, to, lane, sent, call, active, status, loads, moves, raced>>
  BY DEF HandleEvent
<1>2. sent \in Sends /\ Honest(sent) /\ ChatTypeOK /\ ShellKnows
  BY <1>1, UnderWay DEF ChatInv
<1>3. /\ body[sent] \in Seq(Kinds) /\ DOMAIN body[sent] = 1..Len(body[sent]) /\ Len(body[sent]) \in Nat
      /\ seen[sent] \in Nat /\ n \in DOMAIN body[sent] /\ n \in Nat /\ n <= Len(body[sent])
      /\ 1..n = 1..seen[sent] \cup {n}
  BY <1>1, <1>2 DEF ChatTypeOK
<1>4. shown' \in Seq(Utterance)
  BY <1>1, <1>2, Utterances DEF ChatTypeOK
<1>5. /\ told' \in [Sends -> {"nothing", "answer", "failure"}]
      /\ k = "answer" => told'[sent] = "answer"
      /\ \A s \in Sends : told[s] = "answer" => told'[s] = "answer"
      /\ \A s \in Sends : told'[s] = "answer" => told[s] = "answer" \/ (s = sent /\ k = "answer")
  BY <1>1, <1>2 DEF ChatTypeOK
<1>6. /\ seen' \in [Sends -> Nat] /\ seen'[sent] = n
      /\ \A s \in Sends : s # sent => seen'[s] = seen[s]
  BY <1>1, <1>2, <1>3 DEF ChatTypeOK
<1>7. sendError' \in BOOLEAN /\ (sendError => sendError') /\ (k = "error" => sendError')
  BY <1>1, <1>2 DEF ChatTypeOK
<1>8. k = "answer" => InStore(Reply(sent))
  BY <1>2, <1>3 DEF Honest
<1> HIDE DEF n, k
<1>9. UNCHANGED <<server, line, to, lane, sent, call, active, status, loads, moves, raced>>
  BY <1>1
<1>10. ChatTypeOK'
  BY <1>2, <1>4, <1>5, <1>6, <1>7, <1>9 DEF ChatTypeOK, server
<1>11. ASSUME NEW s \in Sends
       PROVE  Honest(s)'
  <2>1. Honest(s)
    BY DEF ChatInv
  <2>2. (told'[s] = "answer" => InStore(Reply(s))) /\ seen'[s] <= Len(body[s])
    BY <1>3, <1>5, <1>6, <1>8, <2>1 DEF Honest
  <2> QED
    BY <1>9, <2>1, <2>2 DEF Honest, server, InStore
<1>12. ShellKnows'
  <2>1. \A i \in 1..seen'[sent] : /\ body[sent][i] = "answer" => told'[sent] = "answer"
                                  /\ body[sent][i] = "error" => sendError'
    <3>1. \A i \in 1..seen[sent] : /\ body[sent][i] = "answer" => told[sent] = "answer"
                                   /\ body[sent][i] = "error" => sendError
      BY <1>1, <1>2 DEF ShellKnows
    <3> QED  BY <1>2, <1>3, <1>5, <1>6, <1>7, <3>1 DEF k
  <2>2. \A s \in Sends : s > sent => seen'[s] = 0 /\ line[s]
    BY <1>2, <1>6 DEF ShellKnows, ChatTypeOK, Sends
  <2> QED
    BY <1>1, <1>2, <1>9, <2>1, <2>2 DEF ShellKnows, server
<1>13. NeverSilent'
  BY <1>1, <1>9 DEF NeverSilent, Ready
<1> QED  BY <1>10, <1>11, <1>12, <1>13 DEF ChatInv

\* The response has ended, and the user has the answer or an error.
LEMMA ResponseEndsStep ==
  ASSUME ChatInv, ResponseEnds
  PROVE  ChatInv'
<1>1. /\ call = "reading" /\ handler[sent] = "closed" /\ seen[sent] = Len(body[sent]) /\ call' = "listing"
      /\ UNCHANGED <<server, line, to, lane, sent, seen, told, sendError, view, moves, raced>>
  BY DEF ResponseEnds
<1>2. sent \in Sends /\ Honest(sent) /\ ChatTypeOK /\ ShellKnows
  BY <1>1, UnderWay DEF ChatInv
<1>3. ChatTypeOK'
  BY <1>1, <1>2 DEF ChatTypeOK, server, view
<1>4. \A s \in Sends : Honest(s)'
  BY <1>1, HonestStays
<1>5. told[sent] = "answer" \/ sendError
  <2>1. PICK i \in DOMAIN body[sent] : body[sent][i] \in {"answer", "error"}
    BY <1>1, <1>2 DEF Honest, ShellKnows
  <2>2. i \in 1..seen[sent]
    BY <1>1, <1>2 DEF ChatTypeOK
  <2> QED  BY <1>1, <1>2, <2>1, <2>2 DEF ShellKnows
<1>6. ShellKnows' /\ NeverSilent'
  BY <1>1, <1>2, <1>5 DEF ShellKnows, NeverSilent, Ready, server
<1> QED  BY <1>3, <1>4, <1>6 DEF ChatInv

\* The requests that a conversation being opened adds to.
LEMMA OpenLoads ==
  ASSUME ChatTypeOK, NEW c \in Conversations, Open(c)
  PROVE  active' \in Conversations /\ loads' \in Seq(Load)
<1>1. Asked(c) \in Load /\ loads \in Seq(Load)
  BY DEF Asked, Load, ChatTypeOK
<1>2. Append(loads, Asked(c)) \in Seq(Load)
  BY <1>1
<1> QED  BY <1>1, <1>2 DEF Open

\* The conversations are listed again, or not: the shell is ready.
LEMMA ListStep ==
  ASSUME ChatInv, Listed \/ ListFails
  PROVE  ChatInv'
<1>1. /\ call = "listing" /\ call' = "none" /\ status' \in {"loading", "success", "error"}
      /\ UNCHANGED <<server, line, to, lane, sent, seen, told, sendError, shown>>
  BY DEF Listed, ListFails
<1>2. sent \in Sends /\ ChatTypeOK /\ ShellKnows
  BY <1>1, UnderWay DEF ChatInv
<1>3. moves' \in 0..MaxMoves /\ raced' \in BOOLEAN
  <2>1. moves' \in 0..MaxMoves
    BY <1>2, ChatBounds DEF ChatTypeOK, Listed, ListFails, Move
  <2>2. raced' \in BOOLEAN
    BY <1>2 DEF ChatTypeOK, Listed, ListFails
  <2> QED  BY <2>1, <2>2
<1>4. active' \in Conversations /\ loads' \in Seq(Load)
  BY <1>2, OpenLoads DEF ChatTypeOK, Listed, ListFails
<1>5. ChatTypeOK'
  BY <1>1, <1>2, <1>3, <1>4 DEF ChatTypeOK, server
<1>6. \A s \in Sends : Honest(s)'
  BY <1>1, HonestStays
<1>7. ShellKnows' /\ NeverSilent'
  BY <1>1, <1>2 DEF ShellKnows, NeverSilent, Ready, server
<1> QED  BY <1>5, <1>6, <1>7 DEF ChatInv

\* Conversations are opened and their messages arrive, or not: nothing is learnt of a send.
LEMMA LoadStep ==
  ASSUME ChatInv, \/ \E c \in Conversations : Select(c)
                  \/ \E i \in DOMAIN loads : ServeLoad(i) \/ ShowLoad(i) \/ LoadFails(i)
  PROVE  ChatInv'
<1>1. UNCHANGED <<server, line, to, lane, sent, call, seen, told, sendError>>
  BY DEF Select, ServeLoad, ShowLoad, LoadFails
<1>2. ChatTypeOK /\ loads \in Seq(Load) /\ DOMAIN loads = 1..Len(loads) /\ Len(loads) \in Nat
  BY DEF ChatInv, ChatTypeOK
<1> DEFINE ViewOK == /\ active \in Conversations /\ shown \in Seq(Utterance)
                     /\ status \in {"loading", "success", "error"} /\ loads \in Seq(Load)
                     /\ moves \in 0..MaxMoves /\ raced \in BOOLEAN
<1>3. ViewOK'
  <2>1. ASSUME NEW c \in Conversations, Select(c)
        PROVE  ViewOK'
    <3>1. active' \in Conversations /\ loads' \in Seq(Load)
      BY <1>2, <2>1, OpenLoads DEF Select
    <3>2. moves' \in 0..MaxMoves
      BY <1>2, <2>1, ChatBounds DEF ChatTypeOK, Select, Move
    <3> QED  BY <1>2, <2>1, <3>1, <3>2 DEF ChatTypeOK, Select
  <2>2. ASSUME NEW i \in DOMAIN loads, ServeLoad(i)
        PROVE  ViewOK'
    <3> DEFINE new == [of |-> loads[i].of, served |-> TRUE, items |-> MessagesOf(loads[i].of)]
    <3>1. MessagesOf(loads[i].of) \in Seq(Utterance)
      BY <1>2, SelectInType DEF ChatTypeOK, MessagesOf
    <3>2. new \in Load
      <4>1. loads[i] \in Load
        BY <1>2, ElementOfSeq
      <4> QED  BY <3>1, <4>1 DEF Load
    <3>3. loads' = [loads EXCEPT ![i] = new]
      BY <2>2 DEF ServeLoad
    <3> HIDE DEF new
    <3>4. loads' \in Seq(Load)
      BY <1>2, <3>2, <3>3, ExceptSeq
    <3> QED  BY <1>2, <2>2, <3>4 DEF ChatTypeOK, ServeLoad
  <2>3. ASSUME NEW i \in DOMAIN loads, ShowLoad(i) \/ LoadFails(i)
        PROVE  ViewOK'
    <3>1. loads' = Without(i)
      BY <2>3 DEF ShowLoad, LoadFails
    <3>2. loads' \in Seq(Load)
      BY <1>2, <3>1, WithoutOne DEF Without
    <3>3. loads[i].items \in Seq(Utterance)
      <4>1. loads[i] \in Load
        BY <1>2, ElementOfSeq
      <4> QED  BY <4>1 DEF Load
    <3>4. moves' \in 0..MaxMoves
      BY <1>2, <2>3, ChatBounds DEF ChatTypeOK, ShowLoad, LoadFails, Move
    <3>5. raced' \in BOOLEAN
      BY <1>2, <2>3 DEF ChatTypeOK, ShowLoad, LoadFails
    <3>6. /\ active' \in Conversations /\ shown' \in Seq(Utterance)
          /\ status' \in {"loading", "success", "error"}
      <4>1. /\ shown' = loads[i].items \/ shown' = <<>>
            /\ active' = active /\ status' \in {"success", "error"}
        BY <2>3 DEF ShowLoad, LoadFails
      <4>2. <<>> \in Seq(Utterance)
        OBVIOUS
      <4>3. active \in Conversations
        BY <1>2 DEF ChatTypeOK
      <4> QED  BY <3>3, <4>1, <4>2, <4>3
    <3> QED  BY <3>2, <3>4, <3>5, <3>6
  <2> QED  BY <2>1, <2>2, <2>3
<1>4. ChatTypeOK'
  BY <1>1, <1>2, <1>3 DEF ChatTypeOK, server
<1>5. \A s \in Sends : Honest(s)'
  BY <1>1, HonestStays
<1>6. ShellKnows' /\ NeverSilent'
  BY <1>1 DEF ChatInv, ShellKnows, NeverSilent, Ready, server
<1> QED  BY <1>4, <1>5, <1>6 DEF ChatInv

\* No step of the chat breaks the invariant.
LEMMA NextChatInv == ChatInv /\ [ChatNext]_chatVars => ChatInv'
<1> SUFFICES ASSUME ChatInv, [ChatNext]_chatVars PROVE ChatInv'
  OBVIOUS
<1>1. CASE \E s \in Sends : Handle(s)
  BY <1>1, TakeStep, WaitStep, PassOnStep, PassAnswerStep, PassCompletionStep, AnswerLocallyStep,
     ProducerFailsStep DEF Handle
<1>2. CASE Shell
  BY <1>2, SendFailsStep, SendAcceptedStep, HandleEventStep, ResponseEndsStep, ListStep DEF Shell
<1>3. CASE Send \/ ConnectionBreaks
  BY <1>3, SendStep, SendFailsStep
<1>4. CASE \/ \E c \in Conversations : Select(c)
           \/ \E i \in DOMAIN loads : ServeLoad(i) \/ ShowLoad(i) \/ LoadFails(i)
  BY <1>4, LoadStep
<1>5. CASE UNCHANGED chatVars
  BY <1>5 DEF ChatInv, ChatTypeOK, Honest, ShellKnows, NeverSilent, Ready, InStore, chatVars, server, view
<1> QED  BY <1>1, <1>2, <1>3, <1>4, <1>5 DEF ChatNext

\* The invariant says what SendsAreHonest does.
LEMMA ChatInvIsHonest == ChatInv => SendsAreHonest
<1> SUFFICES ASSUME ChatInv PROVE SendsAreHonest
  OBVIOUS
<1>1. \A s \in Sends : lane # "local" => verdicts[s] # {"succeeded", "failed"}
  BY DEF ChatInv, Honest
<1> QED  BY <1>1 DEF ChatInv, Honest, SendsAreHonest, VerdictNeedsAnswer

-----------------------------------------------------------------------------
(* The chat: what the user and the trace may rely on *)

\* What a message sent from the shell leaves behind is what happened: its trace says it
\* succeeded only if its answer is stored, after its question, and the user has the answer
\* or an error - whatever fails and whichever connection breaks, for any number of sends.
THEOREM SendsAreAlwaysHonest == ChatSpec => []SendsAreHonest
<1>1. ChatInit => ChatInv
  BY InitChatInv
<1>2. ChatInv /\ [ChatNext]_chatVars => ChatInv'
  BY NextChatInv
<1>3. ChatInv => SendsAreHonest
  BY ChatInvIsHonest
<1> QED  BY <1>1, <1>2, <1>3, PTL DEF ChatSpec

-----------------------------------------------------------------------------
(* The chat at rest: the invariant *)

\* In a store st there is m, and there is a before b.
StoredIn(st, m) == \E i \in DOMAIN st : st[i] = m
Precedes(st, a, b) == \E i, j \in DOMAIN st : i < j /\ st[i] = a /\ st[j] = b

\* The events of a response: the first says that it begins, an answer is followed by its end
\* alone, an error by nothing.
WellTold(b) ==
  \A i \in DOMAIN b :
    /\ b[i] = "started" => i = 1
    /\ b[1] \in {"started", "error"}
    /\ b[1] = "error" => i = 1
    /\ b[i] = "answer" => i > 1 /\ \A j \in DOMAIN b : j > i => b[j] \in {"completed", "error"}

\* What a handler has done: it begins with a message that was sent, and what it stores it
\* stores before it says so.
Recorded(s) ==
  /\ handler[s] = "idle" => ~StoredIn(store, Ask(s))
  /\ s > sent => handler[s] = "idle"
  /\ handler[s] \in {"idle", "calling"} => body[s] = <<>> /\ ~StoredIn(store, Reply(s))
  /\ handler[s] = "streaming" /\ StoredIn(store, Reply(s)) => \E i \in DOMAIN body[s] : body[s][i] = "answer"
  /\ WellTold(body[s])
  /\ \A i \in DOMAIN body[s] : /\ body[s][i] = "started" => StoredIn(store, Ask(s))
                               /\ body[s][i] = "error" => handler[s] = "closed"

\* What the user has learnt of a message is what the shell has read of it; of one that is over
\* it is something.
Learnt(s) ==
  /\ told[s] = "answer" <=> HandledReply(s)
  /\ \A i \in 1..seen[s] : body[s][i] = "error" => told[s] # "nothing"
  /\ s < sent \/ (s = sent /\ call \in {"none", "listing"}) => told[s] # "nothing"
  /\ s = sent /\ call = "fetching" => seen[s] = 0

\* The list that was served of a conversation: its messages in the order of the store, and
\* none of those before them missing.
Listing(st, dest, l) ==
  /\ \A i \in DOMAIN l.items : \E p \in DOMAIN st :
       /\ st[p] = l.items[i] /\ dest[l.items[i].send] = l.of
       /\ \A k \in 1..(p - 1) : dest[st[k].send] = l.of => \E j \in DOMAIN l.items : l.items[j] = st[k]
  /\ \A i, j \in DOMAIN l.items : i < j => Precedes(st, l.items[i], l.items[j])

\* What is shown when no list is under way: stored messages of the open conversation in their
\* order, or what the shell has read of the message under way for another; everything it has
\* read for this one, and that before what it has yet to read.
ShownIsStored ==
  \A i \in DOMAIN shown :
    /\ StoredIn(store, shown[i])
    /\ to[shown[i].send] = active \/ (call # "none" /\ shown[i].send = sent /\ shown[i] \in Handled)
ShownInOrder ==
  \A i, j \in DOMAIN shown :
    i < j /\ to[shown[i].send] = active /\ to[shown[j].send] = active => Precedes(store, shown[i], shown[j])
HandledIsShown == \A m \in Handled : to[m.send] = active => \E i \in DOMAIN shown : shown[i] = m
RestIsToCome ==
  call # "none" /\ to[sent] = active =>
    \A m \in {Ask(sent), Reply(sent)} :
      m \notin Handled /\ StoredIn(store, m) => \A i \in DOMAIN shown : Precedes(store, shown[i], m)
Shows == ShownIsStored /\ ShownInOrder /\ HandledIsShown /\ RestIsToCome

\* The list that is awaited last is of the open conversation, an error is never there while
\* a message is under way, and without both the messages are right.
LoadsOK == \A i \in DOMAIN loads : loads[i].served => Listing(store, to, loads[i])
ViewOK ==
  ~raced =>
    /\ loads # <<>> => loads[Len(loads)].of = active
    /\ call # "none" => status # "error"
    /\ loads = <<>> /\ status # "error" => Shows
ViewInv == NoneTwice(store) /\ (\A s \in Sends : Recorded(s) /\ Learnt(s)) /\ LoadsOK /\ ViewOK

\* It holds at the start.
LEMMA InitViewInv == ChatInit => ViewInv
<1> SUFFICES ASSUME ChatInit PROVE ViewInv
  OBVIOUS
<1>1. /\ store = <<>> /\ loads = <<Asked(First)>> /\ active = First /\ sent = 0 /\ call = "none"
      /\ \A s \in Sends : handler[s] = "idle" /\ body[s] = <<>> /\ seen[s] = 0 /\ told[s] = "nothing"
  BY DEF ChatInit
<1>2. NoneTwice(store)
  BY <1>1 DEF NoneTwice
<1>3. ASSUME NEW s \in Sends
      PROVE  Recorded(s) /\ Learnt(s)
  <2>1. ~StoredIn(store, Ask(s)) /\ ~StoredIn(store, Reply(s))
    BY <1>1 DEF StoredIn
  <2>2. Recorded(s)
    BY <1>1, <2>1 DEF Recorded, WellTold
  <2>3. ~HandledReply(s) /\ s > sent
    BY <1>1, ChatBounds DEF HandledReply, Sends
  <2> QED  BY <1>1, <2>2, <2>3 DEF Learnt, Sends
<1>4. LoadsOK
  BY <1>1 DEF LoadsOK, Asked
<1>5. ViewOK
  BY <1>1 DEF ViewOK, Asked
<1> QED  BY <1>2, <1>3, <1>4, <1>5 DEF ViewInv

-----------------------------------------------------------------------------
(* The chat at rest: the store *)

\* What is in the store stays there in its order, with a new message after all of it.
LEMMA LongerStore ==
  ASSUME NEW st \in Seq(Utterance), NEW m \in Utterance
  PROVE  LET longer == Append(st, m) IN
         /\ \A a : StoredIn(st, a) => StoredIn(longer, a) /\ Precedes(longer, a, m)
         /\ \A a : StoredIn(longer, a) => StoredIn(st, a) \/ a = m
         /\ \A a, b : Precedes(st, a, b) => Precedes(longer, a, b)
         /\ StoredIn(longer, m)
<1> DEFINE longer == Append(st, m)
<1>1. /\ Len(st) \in Nat /\ DOMAIN st = 1..Len(st) /\ DOMAIN longer = 1..(Len(st) + 1)
      /\ longer[Len(st) + 1] = m /\ \A i \in DOMAIN st : longer[i] = st[i]
  BY Appended
<1> HIDE DEF longer
<1>2. \A i \in DOMAIN st : i \in DOMAIN longer /\ i < Len(st) + 1
  BY <1>1
<1>3. Len(st) + 1 \in DOMAIN longer /\ \A i \in DOMAIN longer : i \in DOMAIN st \/ i = Len(st) + 1
  BY <1>1
<1>4. \A a : StoredIn(st, a) => StoredIn(longer, a) /\ Precedes(longer, a, m)
  BY <1>1, <1>2, <1>3 DEF StoredIn, Precedes
<1>5. \A a : StoredIn(longer, a) => StoredIn(st, a) \/ a = m
  BY <1>1, <1>3 DEF StoredIn
<1>6. \A a, b : Precedes(st, a, b) => Precedes(longer, a, b)
  BY <1>1, <1>2 DEF Precedes
<1>7. StoredIn(longer, m)
  BY <1>1, <1>3 DEF StoredIn
<1> QED  BY <1>4, <1>5, <1>6, <1>7 DEF longer

\* A list that was served stays one when the store grows, and when a conversation is chosen
\* for a message that is not stored yet.
LEMMA ListingStays ==
  ASSUME NEW st \in Seq(Utterance), NEW m \in Utterance, NEW dest, NEW other, NEW l,
         Listing(st, dest, l), \A i \in DOMAIN st : other[st[i].send] = dest[st[i].send]
  PROVE  Listing(st, other, l) /\ Listing(Append(st, m), dest, l)
<1>1. Len(st) \in Nat /\ DOMAIN st = 1..Len(st)
  BY Elements
<1>2. Listing(st, other, l)
  <2> SUFFICES ASSUME NEW i \in DOMAIN l.items
               PROVE  \E p \in DOMAIN st :
                        /\ st[p] = l.items[i] /\ other[l.items[i].send] = l.of
                        /\ \A k \in 1..(p - 1) : other[st[k].send] = l.of => \E j \in DOMAIN l.items : l.items[j] = st[k]
    BY DEF Listing
  <2>1. PICK p \in DOMAIN st :
          /\ st[p] = l.items[i] /\ dest[l.items[i].send] = l.of
          /\ \A k \in 1..(p - 1) : dest[st[k].send] = l.of => \E j \in DOMAIN l.items : l.items[j] = st[k]
    BY DEF Listing
  <2>2. 1..(p - 1) \subseteq DOMAIN st
    BY <1>1
  <2> QED  BY <2>1, <2>2
<1>3. Listing(Append(st, m), dest, l)
  <2> DEFINE longer == Append(st, m)
  <2>1. /\ DOMAIN longer = 1..(Len(st) + 1) /\ \A i \in DOMAIN st : longer[i] = st[i]
    BY Appended
  <2>2. \A a, b : Precedes(st, a, b) => Precedes(longer, a, b)
    BY LongerStore
  <2> HIDE DEF longer
  <2>3. ASSUME NEW i \in DOMAIN l.items
        PROVE  \E p \in DOMAIN longer :
                 /\ longer[p] = l.items[i] /\ dest[l.items[i].send] = l.of
                 /\ \A k \in 1..(p - 1) : dest[longer[k].send] = l.of => \E j \in DOMAIN l.items : l.items[j] = longer[k]
    <3>1. PICK p \in DOMAIN st :
            /\ st[p] = l.items[i] /\ dest[l.items[i].send] = l.of
            /\ \A k \in 1..(p - 1) : dest[st[k].send] = l.of => \E j \in DOMAIN l.items : l.items[j] = st[k]
      BY DEF Listing
    <3>2. 1..(p - 1) \subseteq DOMAIN st /\ p \in DOMAIN longer
      BY <1>1, <2>1
    <3> QED  BY <2>1, <3>1, <3>2
  <2>4. Listing(st, dest, l)
    OBVIOUS
  <2> QED  BY <2>2, <2>3, <2>4 DEF Listing, longer
<1> QED  BY <1>2, <1>3

\* The list of a conversation, when it is served.
LEMMA ListingServed ==
  ASSUME ChatTypeOK, NEW c \in Conversations, NoneTwice(store)
  PROVE  Listing(store, to, [of |-> c, served |-> TRUE, items |-> MessagesOf(c)])
<1> DEFINE T == {m \in Utterance : to[m.send] = c}
           items == SelectIn(store, T)
           l == [of |-> c, served |-> TRUE, items |-> items]
<1>1. store \in Seq(Utterance) /\ Len(store) \in Nat /\ DOMAIN store = 1..Len(store)
      /\ \A k \in DOMAIN store : store[k] \in Utterance
  BY DEF ChatTypeOK
<1>2. Range(items) = Range(store) \cap T
  BY <1>1, SelectInType
<1> HIDE DEF items
<1>3. ASSUME NEW i \in DOMAIN items
      PROVE  \E p \in DOMAIN store :
               /\ store[p] = items[i] /\ to[items[i].send] = c
               /\ \A k \in 1..(p - 1) : to[store[k].send] = c => \E j \in DOMAIN items : items[j] = store[k]
  <2>1. items[i] \in Range(store) /\ items[i] \in T
    BY <1>2 DEF Range
  <2>2. PICK p \in DOMAIN store : store[p] = items[i]
    BY <2>1 DEF Range
  <2>3. ASSUME NEW k \in 1..(p - 1), to[store[k].send] = c
        PROVE  \E j \in DOMAIN items : items[j] = store[k]
    <3>1. k \in DOMAIN store
      BY <1>1
    <3>2. store[k] \in Range(store) /\ store[k] \in T
      BY <1>1, <2>3, <3>1 DEF Range
    <3> QED  BY <1>2, <3>2 DEF Range
  <2> QED  BY <2>1, <2>2, <2>3
<1>4. ASSUME NEW i \in DOMAIN items, NEW j \in DOMAIN items, i < j
      PROVE  Precedes(store, items[i], items[j])
  <2>1. i \in DOMAIN SelectIn(store, T) /\ j \in DOMAIN SelectIn(store, T)
    BY DEF items
  <2> HIDE DEF T
  <2>2. \E k, n \in DOMAIN store : k < n /\ store[k] = SelectIn(store, T)[i] /\ store[n] = SelectIn(store, T)[j]
    BY <1>1, <1>4, <2>1, SelectInOrder
  <2> QED  BY <2>2 DEF Precedes, items
<1>5. Listing(store, to, l)
  BY <1>3, <1>4 DEF Listing
<1> QED
  BY <1>5 DEF items, MessagesOf

-----------------------------------------------------------------------------
(* The chat at rest: the handler *)

\* An event after those there are.
LEMMA WellToldGrows ==
  ASSUME NEW b \in Seq(Kinds), WellTold(b), NEW k \in Kinds,
         b = <<>> => k \in {"started", "error"},
         b # <<>> => k # "started" /\ b[Len(b)] # "error",
         k \notin {"completed", "error"} => \A i \in DOMAIN b : b[i] # "answer",
         k = "answer" => b # <<>>
  PROVE  WellTold(Append(b, k))
<1> DEFINE c == Append(b, k)
<1>1. /\ Len(b) \in Nat /\ DOMAIN b = 1..Len(b) /\ DOMAIN c = 1..(Len(b) + 1)
      /\ c[Len(b) + 1] = k /\ \A i \in DOMAIN b : c[i] = b[i]
  BY Appended
<1> HIDE DEF c
<1>2. CASE b = <<>>
  <2>1. DOMAIN c = {1} /\ c[1] = k
    BY <1>1, <1>2
  <2> QED
    BY <1>2, <2>1 DEF WellTold, c
<1>3. CASE b # <<>>
  <2>1. Len(b) > 0 /\ 1 \in DOMAIN b /\ Len(b) \in DOMAIN b /\ c[1] = b[1]
    BY <1>1, <1>3
  <2>2. b[1] = "started"
    BY <1>3, <2>1 DEF WellTold
  <2>3. ASSUME NEW i \in DOMAIN c
        PROVE  /\ c[i] = "started" => i = 1
               /\ c[i] = "answer" => i > 1 /\ \A j \in DOMAIN c : j > i => c[j] \in {"completed", "error"}
    <3>1. CASE i \in DOMAIN b
      <4>1. c[i] = b[i]
        BY <1>1, <3>1
      <4>2. ASSUME c[i] = "answer", NEW j \in DOMAIN c, j > i
            PROVE  c[j] \in {"completed", "error"}
        <5>1. CASE j \in DOMAIN b
          BY <1>1, <3>1, <4>1, <4>2, <5>1 DEF WellTold
        <5>2. CASE j = Len(b) + 1
          BY <1>1, <3>1, <4>1, <4>2, <5>2
        <5> QED  BY <1>1, <5>1, <5>2
      <4> QED  BY <3>1, <4>1, <4>2 DEF WellTold
    <3>2. CASE i = Len(b) + 1
      <4>1. c[i] = k /\ i > 1 /\ \A j \in DOMAIN c : ~(j > i)
        BY <1>1, <2>1, <3>2
      <4> QED  BY <1>3, <4>1
    <3> QED  BY <1>1, <3>1, <3>2
  <2> QED
    BY <2>1, <2>2, <2>3 DEF WellTold, c
<1> QED  BY <1>2, <1>3

\* What a streaming handler may write next goes with what it has written; before the answer is
\* written it is not stored.
LEMMA NextGoesOn ==
  ASSUME ChatTypeOK, NEW s \in Sends, Recorded(s), handler[s] = "streaming", NEW k \in NextEvents(s)
  PROVE  /\ body[s] = <<>> => k = "started"
         /\ body[s] # <<>> => k # "started"
         /\ k # "completed" => \A i \in DOMAIN body[s] : body[s][i] # "answer"
         /\ k = "answer" => body[s] # <<>> /\ ~StoredIn(store, Reply(s))
<1> DEFINE b == body[s]
           last == IF b = <<>> THEN "none" ELSE b[Len(b)]
<1>1. b \in Seq(Kinds) /\ DOMAIN b = 1..Len(b) /\ Len(b) \in Nat
  BY DEF ChatTypeOK
<1>2. k \in DefaultLane(last) \cup (IF last = "started" THEN {"answer"} ELSE {})
  BY DEF NextEvents, LocalLane, EcommerceLane
<1>3. WellTold(b)
  BY DEF Recorded
<1>4. b = <<>> => last = "none"
  OBVIOUS
<1>5. b # <<>> => last = b[Len(b)] /\ Len(b) \in DOMAIN b /\ last \in Kinds
  BY <1>1
<1> HIDE DEF last
<1>6. /\ last = "none" => k = "started"
      /\ last # "none" => k # "started"
      /\ last \in {"answer", "completed", "error"} => k = "completed"
      /\ last = "none" => k # "answer"
  BY <1>2 DEF DefaultLane
<1>7. b # <<>> => last # "none"
  BY <1>5 DEF Kinds
<1>8. k # "completed" => \A i \in DOMAIN b : b[i] # "answer"
  <2> SUFFICES ASSUME NEW i \in DOMAIN b, b[i] = "answer"
               PROVE  k = "completed"
    OBVIOUS
  <2>1. b # <<>>
    BY <1>1
  <2>2. last \in {"answer", "completed", "error"}
    <3>1. CASE i = Len(b)
      BY <1>5, <2>1, <3>1
    <3>2. CASE i # Len(b)
      <4>1. Len(b) > i
        BY <1>1, <3>2
      <4> QED  BY <1>3, <1>5, <2>1, <4>1 DEF WellTold
    <3> QED  BY <3>1, <3>2
  <2> QED  BY <1>6, <2>2
<1>9. k = "answer" => ~StoredIn(store, Reply(s))
  BY <1>8 DEF Recorded
<1> QED
  BY <1>4, <1>6, <1>7, <1>8, <1>9

\* What the handler of s stores and writes changes nothing that the shell has handled.
LEMMA HandledStays ==
  ASSUME ChatInv, NEW s \in Sends, NEW b \in Seq(Kinds), body' = [body EXCEPT ![s] = b],
         Len(b) >= Len(body[s]), \A i \in DOMAIN body[s] : b[i] = body[s][i], seen' = seen
  PROVE  /\ \A r \in Sends : (HandledReply(r)' <=> HandledReply(r)) /\ (HandledAsk(r)' <=> HandledAsk(r))
         /\ \A r \in Sends : \A i \in 1..seen[r] : body'[r][i] = body[r][i]
         /\ Handled' = Handled
<1>1. \A r \in Sends : seen[r] \in Nat /\ seen[r] <= Len(body[r]) /\ Len(body[r]) \in Nat
                       /\ DOMAIN body[r] = 1..Len(body[r])
  BY DEF ChatInv, ChatTypeOK, Honest
<1>2. body'[s] = b /\ \A r \in Sends : r # s => body'[r] = body[r]
  BY DEF ChatInv, ChatTypeOK
<1>3. \A r \in Sends : \A i \in 1..seen[r] : body'[r][i] = body[r][i]
  BY <1>1, <1>2
<1>4. \A r \in Sends : (HandledReply(r)' <=> HandledReply(r)) /\ (HandledAsk(r)' <=> HandledAsk(r))
  BY <1>3 DEF HandledReply, HandledAsk
<1>5. Handled' = Handled
  BY <1>4 DEF Handled, Ask, Reply
<1> QED  BY <1>3, <1>4, <1>5

\* A step of the handler of s, which may add to the store and to the response, keeps what is
\* known of the view, if what is known of the handler of s stays known.
LEMMA HandlerKeepsView ==
  ASSUME ChatInv, ViewInv, NEW s \in Sends, NEW b \in Seq(Kinds),
         NEW h \in {"idle", "calling", "streaming", "refused", "closed"},
         store' = store \/ \E m \in {Ask(s), Reply(s)} : store' = Append(store, m) /\ ~StoredIn(store, m),
         body' = [body EXCEPT ![s] = b], handler' = [handler EXCEPT ![s] = h],
         Len(b) >= Len(body[s]), \A i \in DOMAIN body[s] : b[i] = body[s][i],
         UNCHANGED <<line, to, lane, sent, call, seen, told, sendError, view, raced>>,
         Recorded(s)'
  PROVE  ViewInv'
<1>1. /\ store \in Seq(Utterance) /\ \A r \in Sends : Ask(r) \in Utterance /\ Reply(r) \in Utterance
      /\ \A i \in DOMAIN store : store[i] \in Utterance
  BY Utterances DEF ChatInv, ChatTypeOK
<1>2. /\ \A a : StoredIn(store, a) => StoredIn(store', a)
      /\ \A a : StoredIn(store', a) => StoredIn(store, a) \/ a \in {Ask(s), Reply(s)}
      /\ \A a, c : Precedes(store, a, c) => Precedes(store', a, c)
      /\ \A a, c : StoredIn(store, a) /\ StoredIn(store', c) => StoredIn(store, c) \/ Precedes(store', a, c)
  <2>1. CASE store' = store
    BY <2>1
  <2>2. CASE \E m \in {Ask(s), Reply(s)} : store' = Append(store, m)
    <3>1. PICK m \in {Ask(s), Reply(s)} : store' = Append(store, m)
      BY <2>2
    <3>2. m \in Utterance
      BY <1>1
    <3> QED
      BY <1>1, <3>1, <3>2, LongerStore
  <2> QED  BY <2>1, <2>2
<1>3. NoneTwice(store')
  <2>1. CASE store' = store
    BY <2>1 DEF ViewInv
  <2>2. CASE \E m \in {Ask(s), Reply(s)} : store' = Append(store, m) /\ ~StoredIn(store, m)
    <3>1. PICK m \in {Ask(s), Reply(s)} : store' = Append(store, m) /\ ~StoredIn(store, m)
      BY <2>2
    <3>2. m \in Utterance /\ m \notin Range(store) /\ NoneTwice(store)
      BY <1>1, <3>1 DEF StoredIn, Range, ViewInv
    <3> QED
      BY <1>1, <3>1, <3>2, AppendNew
  <2> QED  BY <2>1, <2>2
<1>4. /\ Handled' = Handled /\ \A r \in Sends : (HandledReply(r)' <=> HandledReply(r))
      /\ \A r \in Sends : \A i \in 1..seen[r] : body'[r][i] = body[r][i]
  BY HandledStays
<1>5. ASSUME NEW r \in Sends
      PROVE  Recorded(r)'
  <2>1. CASE r # s
    <3>1. Recorded(r) /\ handler'[r] = handler[r] /\ body'[r] = body[r] /\ sent' = sent
      BY <2>1 DEF ChatInv, ChatTypeOK, ViewInv
    <3>2. Ask(r) \notin {Ask(s), Reply(s)} /\ Reply(r) \notin {Ask(s), Reply(s)}
      BY <2>1, Utterances
    <3>3. (StoredIn(store', Ask(r)) <=> StoredIn(store, Ask(r))) /\ (StoredIn(store', Reply(r)) <=> StoredIn(store, Reply(r)))
      BY <1>2, <3>2
    <3> QED  BY <3>1, <3>3 DEF Recorded
  <2> QED  BY <2>1
<1>6. ASSUME NEW r \in Sends
      PROVE  Learnt(r)'
  <2>1. Learnt(r)
    BY DEF ViewInv
  <2> QED  BY <1>4, <2>1 DEF Learnt
<1>7. LoadsOK'
  <2>1. loads' = loads /\ to' = to
    BY DEF view
  <2>2. ASSUME NEW i \in DOMAIN loads, loads[i].served
        PROVE  Listing(store', to, loads[i])
    <3>1. Listing(store, to, loads[i])
      BY <2>2 DEF ViewInv, LoadsOK
    <3>2. CASE store' = store
      BY <3>1, <3>2
    <3>3. CASE \E m \in {Ask(s), Reply(s)} : store' = Append(store, m)
      <4>1. PICK m \in {Ask(s), Reply(s)} : store' = Append(store, m)
        BY <3>3
      <4>2. m \in Utterance
        BY <1>1
      <4>3. PICK l, dest : l = loads[i] /\ dest = to
        OBVIOUS
      <4>4. Listing(store, dest, l)
        BY <3>1, <4>3
      <4>5. Listing(Append(store, m), dest, l)
        BY <1>1, <4>2, <4>4, ListingStays
      <4> QED  BY <4>1, <4>3, <4>5
    <3> QED  BY <3>2, <3>3
  <2> QED
    BY <2>1, <2>2 DEF LoadsOK
<1>8. ViewOK'
  <2>1. UNCHANGED <<to, sent, call, active, shown, status, loads, raced>>
    BY DEF view
  <2>2. ASSUME Shows
        PROVE  Shows'
    <3>1. ShownIsStored'
      BY <1>2, <1>4, <2>1, <2>2 DEF Shows, ShownIsStored
    <3>2. ShownInOrder'
      BY <1>2, <2>1, <2>2 DEF Shows, ShownInOrder
    <3>3. HandledIsShown'
      BY <1>4, <2>1, <2>2 DEF Shows, HandledIsShown
    <3>4. RestIsToCome'
      <4> SUFFICES ASSUME call # "none", to[sent] = active, NEW m \in {Ask(sent), Reply(sent)},
                          m \notin Handled, StoredIn(store', m), NEW i \in DOMAIN shown
                   PROVE  Precedes(store', shown[i], m)
        BY <1>4, <2>1 DEF RestIsToCome, Ask, Reply
      <4>1. CASE StoredIn(store, m)
        BY <1>2, <2>2, <4>1 DEF Shows, RestIsToCome
      <4>2. CASE ~StoredIn(store, m)
        BY <1>2, <2>2, <4>2 DEF Shows, ShownIsStored
      <4> QED  BY <4>1, <4>2
    <3> QED  BY <3>1, <3>2, <3>3, <3>4 DEF Shows
  <2> QED
    BY <2>1, <2>2 DEF ViewInv, ViewOK
<1> QED
  BY <1>3, <1>5, <1>6, <1>7, <1>8 DEF ViewInv

\* The question is stored, once.
LEMMA TakeKeepsView ==
  ASSUME ChatInv, ViewInv, NEW s \in Sends, TakeForPython(s) \/ TakeLocally(s)
  PROVE  ViewInv'
<1>1. PICK h \in {"calling", "streaming"} : handler' = [handler EXCEPT ![s] = h]
  BY DEF TakeForPython, TakeLocally
<1>2. /\ s <= sent /\ handler[s] = "idle" /\ store' = Append(store, Ask(s))
      /\ UNCHANGED <<body, line, to, lane, sent, call, seen, told, sendError, view, raced>>
  BY DEF TakeForPython, TakeLocally
<1>3. /\ Recorded(s) /\ ChatTypeOK /\ body[s] = <<>> /\ ~StoredIn(store, Ask(s)) /\ ~StoredIn(store, Reply(s))
      /\ store \in Seq(Utterance) /\ Ask(s) \in Utterance /\ Ask(s) # Reply(s)
  BY <1>2, Utterances DEF ViewInv, Recorded, ChatInv, ChatTypeOK
<1>4. /\ body[s] \in Seq(Kinds) /\ body' = [body EXCEPT ![s] = body[s]] /\ handler'[s] = h
      /\ Len(body[s]) >= Len(body[s])
  BY <1>1, <1>2, <1>3 DEF ChatTypeOK
<1>5. StoredIn(store', Ask(s)) /\ ~StoredIn(store', Reply(s))
  BY <1>2, <1>3, LongerStore
<1>6. sent \in Nat /\ s \in Nat
  BY <1>3, ChatBounds DEF ChatTypeOK, Sends
<1>7. Recorded(s)'
  BY <1>1, <1>2, <1>3, <1>4, <1>5, <1>6 DEF Recorded, WellTold
<1>8. \E m \in {Ask(s), Reply(s)} : store' = Append(store, m) /\ ~StoredIn(store, m)
  BY <1>2, <1>3
<1>9. \A i \in DOMAIN body[s] : body[s][i] = body[s][i]
  OBVIOUS
<1>10. h \in {"idle", "calling", "streaming", "refused", "closed"}
  OBVIOUS
<1> QED
  BY <1>1, <1>2, <1>4, <1>7, <1>8, <1>9, <1>10, HandlerKeepsView

\* What a handler does that stores nothing and writes nothing.
LEMMA WaitKeepsView ==
  ASSUME ChatInv, ViewInv, NEW s \in Sends, NEW h \in {"streaming", "refused", "closed"},
         handler' = [handler EXCEPT ![s] = h],
         h = "streaming" => handler[s] = "calling", h = "refused" => handler[s] \in {"idle", "calling"},
         handler[s] # "idle" \/ s <= sent,
         UNCHANGED <<store, body, line, to, lane, sent, call, seen, told, sendError, view, raced>>
  PROVE  ViewInv'
<1>1. Recorded(s) /\ ChatTypeOK
  BY DEF ViewInv, ChatInv
<1>2. /\ body[s] \in Seq(Kinds) /\ body' = [body EXCEPT ![s] = body[s]] /\ handler'[s] = h
      /\ Len(body[s]) >= Len(body[s]) /\ sent \in Nat /\ s \in Nat
  BY <1>1, ChatBounds DEF ChatTypeOK, Sends
<1>3. Recorded(s)'
  BY <1>1, <1>2 DEF Recorded
<1>4. \A i \in DOMAIN body[s] : body[s][i] = body[s][i]
  OBVIOUS
<1>5. h \in {"idle", "calling", "streaming", "refused", "closed"} /\ store' = store
  OBVIOUS
<1> QED
  BY <1>2, <1>3, <1>4, <1>5, HandlerKeepsView

\* Python answers or refuses, or the stream is done.
LEMMA HandlerWaits ==
  ASSUME ChatInv, ViewInv, NEW s \in Sends, PythonAnswers(s) \/ RefuseSend(s) \/ StreamDone(s)
  PROVE  ViewInv'
<1>1. UNCHANGED <<store, body, line, to, lane, sent, call, seen, told, sendError, view, raced>>
  BY DEF PythonAnswers, RefuseSend, StreamDone
<1>2. CASE PythonAnswers(s)
  BY <1>1, <1>2, WaitKeepsView DEF PythonAnswers
<1>3. CASE RefuseSend(s)
  BY <1>1, <1>3, WaitKeepsView DEF RefuseSend
<1>4. CASE StreamDone(s)
  BY <1>1, <1>4, WaitKeepsView DEF StreamDone
<1> QED  BY <1>2, <1>3, <1>4

\* An event is written, or the reader is found to be gone; the answer was stored before.
LEMMA WriteKeepsView ==
  ASSUME ChatInv, ViewInv, NEW s \in Sends, handler[s] = "streaming", NEW k \in Kinds, k # "answer",
         k = "error" \/ k \in NextEvents(s), NEW h \in {"streaming", "closed"}, NEW b,
         \/ b = Append(body[s], k) /\ (k = "error" => h = "closed")
         \/ b = body[s] /\ h = "closed",
         handler' = [handler EXCEPT ![s] = h], body' = [body EXCEPT ![s] = b],
         UNCHANGED <<store, line, to, lane, sent, call, seen, told, sendError, view, raced>>
  PROVE  ViewInv'
<1>1. /\ Recorded(s) /\ ChatTypeOK /\ body[s] \in Seq(Kinds) /\ StoredIn(store, Ask(s))
      /\ DOMAIN body[s] = 1..Len(body[s]) /\ Len(body[s]) \in Nat
  BY DEF ViewInv, ChatInv, Honest, InStore, StoredIn, ChatTypeOK
<1>2. CASE b = Append(body[s], k) /\ (k = "error" => h = "closed")
  <2>1. /\ b \in Seq(Kinds) /\ Len(b) = Len(body[s]) + 1
        /\ DOMAIN b = 1..(Len(body[s]) + 1)
        /\ \A i \in DOMAIN body[s] : b[i] = body[s][i]
        /\ b[Len(body[s]) + 1] = k
    BY <1>1, <1>2, Written
  <2>2. WellTold(b)
    <3>1. WellTold(body[s])
      BY <1>1 DEF Recorded
    <3>2. body[s] = <<>> => k \in {"started", "error"}
      BY <1>1, NextGoesOn
    <3>3. body[s] # <<>> => k # "started" /\ body[s][Len(body[s])] # "error"
      BY <1>1, NextGoesOn DEF Recorded
    <3>4. k \notin {"completed", "error"} => \A i \in DOMAIN body[s] : body[s][i] # "answer"
      BY <1>1, NextGoesOn
    <3> QED
      BY <1>1, <1>2, <3>1, <3>2, <3>3, <3>4, WellToldGrows
  <2>3. body'[s] = b /\ handler'[s] = h /\ sent \in Nat /\ s \in Nat /\ s <= sent
    BY <1>1, ChatBounds DEF ChatTypeOK, Recorded, Sends
  <2>4. \A i \in DOMAIN b : b[i] = "error" => h = "closed"
    BY <1>1, <1>2, <2>1 DEF Recorded
  <2>5. (\E i \in DOMAIN body[s] : body[s][i] = "answer") => \E i \in DOMAIN b : b[i] = "answer"
    BY <1>1, <2>1
  <2>6. Recorded(s)'
    BY <1>1, <2>2, <2>3, <2>4, <2>5 DEF Recorded
  <2>7. Len(b) >= Len(body[s])
    BY <1>1, <2>1
  <2>8. h \in {"idle", "calling", "streaming", "refused", "closed"} /\ store' = store
    OBVIOUS
  <2> QED
    BY <2>1, <2>6, <2>7, <2>8, HandlerKeepsView
<1>3. CASE b = body[s] /\ h = "closed"
  <2>1. body' = body
    BY <1>1, <1>3 DEF ChatTypeOK
  <2> QED
    BY <1>3, <2>1, WaitKeepsView
<1> QED  BY <1>2, <1>3

\* The answer is stored and written, with its end or without.
LEMMA AnswerKeepsView ==
  ASSUME ChatInv, ViewInv, NEW s \in Sends, handler[s] = "streaming", "answer" \in NextEvents(s),
         store' = Append(store, Reply(s)), NEW h \in {"streaming", "closed"}, NEW b,
         \/ b = Append(body[s], "answer")
         \/ b = Append(Append(body[s], "answer"), "completed")
         \/ b = body[s] /\ h = "closed",
         handler' = [handler EXCEPT ![s] = h], body' = [body EXCEPT ![s] = b],
         UNCHANGED <<line, to, lane, sent, call, seen, told, sendError, view, raced>>
  PROVE  ViewInv'
<1>1. /\ Recorded(s) /\ ChatTypeOK /\ body[s] \in Seq(Kinds) /\ StoredIn(store, Ask(s))
      /\ DOMAIN body[s] = 1..Len(body[s]) /\ Len(body[s]) \in Nat /\ store \in Seq(Utterance)
  BY DEF ViewInv, ChatInv, Honest, InStore, StoredIn, ChatTypeOK
<1>2. /\ body[s] # <<>> /\ ~StoredIn(store, Reply(s))
      /\ \A i \in DOMAIN body[s] : body[s][i] # "answer"
  BY <1>1, NextGoesOn
<1>3. /\ StoredIn(store', Ask(s)) /\ StoredIn(store', Reply(s))
  BY <1>1, Utterances, LongerStore
<1>4. "answer" \in Kinds /\ "completed" \in Kinds
  BY DEF Kinds
<1> DEFINE one == Append(body[s], "answer")
           two == Append(one, "completed")
<1>5. /\ one \in Seq(Kinds) /\ Len(one) = Len(body[s]) + 1 /\ DOMAIN one = 1..(Len(body[s]) + 1)
      /\ one[Len(body[s]) + 1] = "answer" /\ \A i \in DOMAIN body[s] : one[i] = body[s][i]
  BY <1>1, <1>4, Written
<1> HIDE DEF one
<1>6. /\ two \in Seq(Kinds) /\ Len(two) = Len(body[s]) + 2 /\ DOMAIN two = 1..(Len(body[s]) + 2)
      /\ two[Len(body[s]) + 2] = "completed" /\ \A i \in DOMAIN one : two[i] = one[i]
  <2>1. two \in Seq(Kinds) /\ Len(two) = Len(one) + 1
    BY <1>4, <1>5
  <2>0. one \in Seq(Kinds) /\ "completed" \in Kinds
    BY <1>4, <1>5
  <2>2. /\ DOMAIN two = 1..(Len(one) + 1) /\ two[Len(one) + 1] = "completed" /\ \A i \in DOMAIN one : two[i] = one[i]
    BY ONLY <2>0, Appended
  <2> QED  BY <1>1, <1>5, <2>1, <2>2
<1> HIDE DEF two
<1>7. WellTold(body[s]) /\ body[s][Len(body[s])] # "error"
  <2>1. Len(body[s]) \in DOMAIN body[s]
    BY <1>1, <1>2
  <2> QED  BY <1>1, <2>1 DEF Recorded
<1>8. WellTold(one)
  BY <1>1, <1>2, <1>4, <1>7, WellToldGrows DEF one
<1>9. WellTold(two)
  <2>1. one # <<>> /\ one[Len(one)] # "error"
    BY <1>1, <1>5
  <2> QED
    BY <1>4, <1>5, <1>8, <2>1, WellToldGrows DEF two
<1> DEFINE n == Len(body[s])
           Fine(c) == /\ c \in Seq(Kinds) /\ Len(c) >= n /\ WellTold(c)
                      /\ \A i \in DOMAIN body[s] : c[i] = body[s][i]
                      /\ \A i \in DOMAIN c : c[i] # "error"
<1>10. n \in Nat /\ DOMAIN body[s] = 1..n /\ n >= n
  BY <1>1
<1>11. \A i \in DOMAIN body[s] : body[s][i] # "error"
  BY <1>1 DEF Recorded
<1>12. Len(one) = n + 1 /\ DOMAIN one = 1..(n + 1) /\ one[n + 1] = "answer"
  BY <1>5
<1>13. Len(two) = n + 2 /\ DOMAIN two = 1..(n + 2) /\ two[n + 2] = "completed"
  BY <1>6
<1> HIDE DEF n
<1>14. Fine(body[s])
  BY <1>1, <1>7, <1>10, <1>11 DEF n
<1>15. Fine(one) /\ n + 1 \in DOMAIN one
  <2>1. /\ n + 1 \in DOMAIN one /\ Len(one) >= n
        /\ \A i \in DOMAIN one : i \in DOMAIN body[s] \/ i = n + 1
    BY <1>10, <1>12
  <2>2. \A i \in DOMAIN one : one[i] # "error"
    BY <1>5, <1>11, <1>12, <2>1
  <2> QED  BY <1>5, <1>8, <2>1, <2>2
<1>16. Fine(two) /\ n + 1 \in DOMAIN two /\ two[n + 1] = "answer"
  <2>1. /\ n + 1 \in DOMAIN two /\ Len(two) >= n
        /\ \A i \in DOMAIN two : i \in DOMAIN one \/ i = n + 2
        /\ \A i \in DOMAIN body[s] : i \in DOMAIN one
    BY <1>10, <1>12, <1>13
  <2>2. \A i \in DOMAIN two : two[i] # "error"
    BY <1>6, <1>13, <1>15, <2>1
  <2>3. \A i \in DOMAIN body[s] : two[i] = body[s][i]
    BY <1>5, <1>6, <2>1
  <2>4. two[n + 1] = "answer"
    BY <1>6, <1>12, <1>15
  <2> QED  BY <1>6, <1>9, <2>1, <2>2, <2>3, <2>4
<1> HIDE DEF Fine
<1>17. Fine(b) /\ (h = "streaming" => \E i \in DOMAIN b : b[i] = "answer")
  <2>1. b = one \/ b = two \/ (b = body[s] /\ h = "closed")
    BY DEF one, two
  <2> QED  BY <1>12, <1>14, <1>15, <1>16, <2>1
<1>18. /\ b \in Seq(Kinds) /\ Len(b) >= Len(body[s]) /\ WellTold(b)
       /\ \A i \in DOMAIN body[s] : b[i] = body[s][i]
       /\ \A i \in DOMAIN b : b[i] # "error"
  BY <1>17 DEF Fine, n
<1>19. body'[s] = b /\ handler'[s] = h /\ sent \in Nat /\ s \in Nat /\ s <= sent
  BY <1>1, ChatBounds DEF ChatTypeOK, Recorded, Sends
<1>20. Recorded(s)'
  BY <1>1, <1>3, <1>19, <1>17, <1>18 DEF Recorded
<1>21. \E m \in {Ask(s), Reply(s)} : store' = Append(store, m) /\ ~StoredIn(store, m)
  BY <1>2
<1>22. h \in {"idle", "calling", "streaming", "refused", "closed"}
  OBVIOUS
<1> QED
  BY <1>20, <1>21, <1>22, <1>18, HandlerKeepsView

\* No step of a handler breaks it.
LEMMA HandleKeepsView ==
  ASSUME ChatInv, ViewInv, NEW s \in Sends, Handle(s)
  PROVE  ViewInv'
<1>0. ChatTypeOK /\ body[s] \in Seq(Kinds)
  BY DEF ChatInv, ChatTypeOK
<1>1. CASE TakeForPython(s) \/ TakeLocally(s)
  BY <1>1, TakeKeepsView
<1>2. CASE PythonAnswers(s) \/ RefuseSend(s) \/ StreamDone(s)
  BY <1>2, HandlerWaits
<1>3. CASE PassOn(s)
  <2>1. /\ handler[s] = "streaming"
        /\ UNCHANGED <<store, line, to, lane, sent, call, seen, told, sendError, view, raced>>
    BY <1>3 DEF PassOn
  <2>2. PICK k \in NextEvents(s) \ {"answer", "completed"} :
          \/ line[s] /\ body' = [body EXCEPT ![s] = Append(@, k)] /\ UNCHANGED <<handler, verdicts>>
          \/ ~line[s] /\ Gone(s)
    BY <1>3 DEF PassOn
  <2>3. k \in Kinds
    BY <1>0, Events
  <2>4. PICK b, h : /\ h \in {"streaming", "closed"} /\ (b = Append(body[s], k) \/ (b = body[s] /\ h = "closed"))
                    /\ handler' = [handler EXCEPT ![s] = h] /\ body' = [body EXCEPT ![s] = b]
    <3>1. CASE body' = [body EXCEPT ![s] = Append(@, k)] /\ UNCHANGED <<handler, verdicts>>
      <4>1. handler' = [handler EXCEPT ![s] = "streaming"]
        BY <1>0, <2>1, <3>1 DEF ChatTypeOK
      <4> QED  BY <3>1, <4>1
    <3>2. CASE Gone(s)
      <4>1. body' = [body EXCEPT ![s] = body[s]] /\ handler' = [handler EXCEPT ![s] = "closed"]
        BY <1>0, <3>2 DEF ChatTypeOK, Gone
      <4> QED  BY <4>1
    <3> QED  BY <2>2, <3>1, <3>2
  <2>5. k # "error"
    BY <1>0, Events
  <2> QED
    BY <2>1, <2>2, <2>3, <2>4, <2>5, WriteKeepsView
<1>4. CASE PassAnswer(s)
  <2>1. /\ handler[s] = "streaming" /\ "answer" \in NextEvents(s) /\ store' = Append(store, Reply(s))
        /\ UNCHANGED <<line, to, lane, sent, call, seen, told, sendError, view, raced>>
    BY <1>4 DEF PassAnswer
  <2>2. PICK b, h : /\ h \in {"streaming", "closed"} /\ (b = Append(body[s], "answer") \/ (b = body[s] /\ h = "closed"))
                    /\ handler' = [handler EXCEPT ![s] = h] /\ body' = [body EXCEPT ![s] = b]
    <3>1. CASE body' = [body EXCEPT ![s] = Append(@, "answer")] /\ UNCHANGED <<handler, verdicts>>
      <4>1. handler' = [handler EXCEPT ![s] = "streaming"]
        BY <1>0, <2>1, <3>1 DEF ChatTypeOK
      <4> QED  BY <3>1, <4>1
    <3>2. CASE Gone(s)
      <4>1. body' = [body EXCEPT ![s] = body[s]] /\ handler' = [handler EXCEPT ![s] = "closed"]
        BY <1>0, <3>2 DEF ChatTypeOK, Gone
      <4> QED  BY <4>1
    <3> QED  BY <1>4, <3>1, <3>2 DEF PassAnswer
  <2> QED
    BY <2>1, <2>2, AnswerKeepsView
<1>5. CASE PassCompletion(s)
  <2>1. /\ handler[s] = "streaming" /\ "completed" \in NextEvents(s) /\ "completed" \in Kinds
        /\ UNCHANGED <<store, line, to, lane, sent, call, seen, told, sendError, view, raced>>
    BY <1>5 DEF PassCompletion, Kinds
  <2>2. PICK b, h : /\ h \in {"streaming", "closed"} /\ (b = Append(body[s], "completed") \/ (b = body[s] /\ h = "closed"))
                    /\ handler' = [handler EXCEPT ![s] = h] /\ body' = [body EXCEPT ![s] = b]
    <3>1. CASE line[s]
      <4>1. handler' = [handler EXCEPT ![s] = "streaming"] /\ body' = [body EXCEPT ![s] = Append(@, "completed")]
        BY <1>0, <1>5, <2>1, <3>1 DEF ChatTypeOK, PassCompletion
      <4> QED  BY <4>1
    <3>2. CASE ~line[s]
      <4>1. body' = [body EXCEPT ![s] = body[s]] /\ handler' = [handler EXCEPT ![s] = "closed"]
        BY <1>0, <1>5, <3>2 DEF ChatTypeOK, PassCompletion
      <4> QED  BY <4>1
    <3> QED  BY <3>1, <3>2
  <2> QED
    BY <2>1, <2>2, WriteKeepsView
<1>6. CASE AnswerLocally(s)
  <2>1. /\ handler[s] = "streaming" /\ "answer" \in NextEvents(s) /\ store' = Append(store, Reply(s))
        /\ handler' = [handler EXCEPT ![s] = "closed"]
        /\ UNCHANGED <<line, to, lane, sent, call, seen, told, sendError, view, raced>>
    BY <1>6 DEF AnswerLocally
  <2>2. body[s] \o <<"answer", "completed">> = Append(Append(body[s], "answer"), "completed")
    <3>1. "answer" \in Kinds /\ "completed" \in Kinds
      BY DEF Kinds
    <3> QED  BY <1>0, <3>1, AppendTwo
  <2>3. PICK b : /\ b = Append(Append(body[s], "answer"), "completed") \/ b = body[s]
                 /\ body' = [body EXCEPT ![s] = b]
    <3>1. CASE line[s]
      <4>1. body' = [body EXCEPT ![s] = Append(Append(body[s], "answer"), "completed")]
        BY <1>6, <2>2, <3>1 DEF AnswerLocally
      <4> QED  BY <4>1
    <3>2. CASE ~line[s]
      <4>1. body' = [body EXCEPT ![s] = body[s]]
        BY <1>0, <1>6, <3>2 DEF ChatTypeOK, AnswerLocally
      <4> QED  BY <4>1
    <3> QED  BY <3>1, <3>2
  <2> QED
    BY <2>1, <2>3, AnswerKeepsView
<1>7. CASE ProducerFails(s)
  <2>1. /\ handler[s] = "streaming" /\ "error" \in Kinds /\ handler' = [handler EXCEPT ![s] = "closed"]
        /\ UNCHANGED <<store, line, to, lane, sent, call, seen, told, sendError, view, raced>>
    BY <1>7 DEF ProducerFails, Kinds
  <2>2. PICK b : /\ b = Append(body[s], "error") \/ b = body[s]
                 /\ body' = [body EXCEPT ![s] = b]
    <3>1. CASE line[s]
      <4>1. body' = [body EXCEPT ![s] = Append(body[s], "error")]
        BY <1>7, <3>1 DEF ProducerFails
      <4> QED  BY <4>1
    <3>2. CASE ~line[s]
      <4>1. body' = [body EXCEPT ![s] = body[s]]
        BY <1>0, <1>7, <3>2 DEF ChatTypeOK, ProducerFails
      <4> QED  BY <4>1
    <3> QED  BY <3>1, <3>2
  <2> QED
    BY <2>1, <2>2, WriteKeepsView
<1> QED
  BY <1>1, <1>2, <1>3, <1>4, <1>5, <1>6, <1>7 DEF Handle

-----------------------------------------------------------------------------
(* The chat at rest: the shell *)

\* What is stored was sent.
LEMMA StoredWasSent ==
  ASSUME ChatInv, ViewInv, NEW s \in Sends, s > sent
  PROVE  /\ ~StoredIn(store, Ask(s)) /\ ~StoredIn(store, Reply(s))
         /\ seen[s] = 0 /\ ~HandledAsk(s) /\ ~HandledReply(s)
<1>1. Recorded(s) /\ seen[s] = 0
  BY DEF ViewInv, ChatInv, ShellKnows
<1>2. ~StoredIn(store, Ask(s)) /\ ~StoredIn(store, Reply(s))
  BY <1>1 DEF Recorded
<1>3. 1..seen[s] = {}
  BY <1>1
<1> QED  BY <1>1, <1>2, <1>3 DEF HandledAsk, HandledReply

\* A message of the store is a question or an answer of a send.
LEMMA AskOrReply ==
  ASSUME NEW m \in Utterance
  PROVE  m.send \in Sends /\ (m = Ask(m.send) \/ m = Reply(m.send))
<1>1. m = [send |-> m.send, role |-> m.role] /\ m.send \in Sends /\ m.role \in {"user", "assistant"}
  BY DEF Utterance
<1> QED  BY <1>1 DEF Ask, Reply

\* Who has handled the answer has handled the question.
LEMMA AskFirst ==
  ASSUME ChatInv, ViewInv, NEW s \in Sends, HandledReply(s)
  PROVE  HandledAsk(s)
<1>1. /\ WellTold(body[s]) /\ seen[s] \in Nat /\ seen[s] <= Len(body[s])
      /\ DOMAIN body[s] = 1..Len(body[s]) /\ Len(body[s]) \in Nat
  BY DEF ViewInv, Recorded, ChatInv, ChatTypeOK, Honest
<1>2. PICK i \in 1..seen[s] : body[s][i] = "answer"
  BY DEF HandledReply
<1>3. i \in DOMAIN body[s] /\ 1 \in 1..seen[s]
  BY <1>1
<1>4. i > 1 /\ body[s][1] \in {"started", "error"} /\ (body[s][1] = "error" => i = 1)
  BY <1>1, <1>2, <1>3 DEF WellTold
<1>5. body[s][1] = "started"
  BY <1>3, <1>4
<1> QED  BY <1>3, <1>5 DEF HandledAsk

\* What is handled is a question or an answer of which the event was read.
LEMMA IsHandled ==
  ASSUME NEW s \in Sends
  PROVE  (Ask(s) \in Handled <=> HandledAsk(s)) /\ (Reply(s) \in Handled <=> HandledReply(s))
BY Utterances DEF Handled

\* What is handled is of a send.
LEMMA HandledIs ==
  ASSUME NEW m \in Handled
  PROVE  m \in Utterance /\ m.send \in Sends
         /\ ((m = Ask(m.send) /\ HandledAsk(m.send)) \/ (m = Reply(m.send) /\ HandledReply(m.send)))
<1>1. CASE \E s \in {r \in Sends : HandledAsk(r)} : m = Ask(s)
  BY <1>1, Utterances
<1>2. CASE \E s \in {r \in Sends : HandledReply(r)} : m = Reply(s)
  BY <1>2, Utterances
<1> QED  BY <1>1, <1>2 DEF Handled

\* A message is sent: it is stored by nobody yet and handled by nobody.
LEMMA SendKeepsView ==
  ASSUME ChatInv, ViewInv, Send
  PROVE  ViewInv'
<1>1. /\ call = "none" /\ sent < MaxSends /\ sent' = sent + 1 /\ call' = "fetching"
      /\ to' = [to EXCEPT ![sent + 1] = active] /\ raced' = (raced \/ status = "error")
      /\ store' = store /\ body' = body /\ handler' = handler /\ seen' = seen /\ told' = told
      /\ active' = active /\ shown' = shown /\ status' = status /\ loads' = loads
  BY DEF Send, Ready, server, view
<1>2. ChatTypeOK /\ sent \in Nat /\ sent + 1 \in Sends /\ \A s \in Sends : s \in Nat
  BY <1>1, ChatBounds DEF ChatInv, ChatTypeOK, Sends
<1>3. /\ to'[sent + 1] = active /\ \A s \in Sends : s # sent + 1 => to'[s] = to[s]
  BY <1>1, <1>2 DEF ChatTypeOK
<1>4. /\ ~StoredIn(store, Ask(sent + 1)) /\ ~StoredIn(store, Reply(sent + 1))
      /\ seen[sent + 1] = 0 /\ ~HandledAsk(sent + 1) /\ ~HandledReply(sent + 1)
  BY <1>2, StoredWasSent
<1>5. /\ \A s \in Sends : (HandledAsk(s)' <=> HandledAsk(s)) /\ (HandledReply(s)' <=> HandledReply(s))
      /\ Handled' = Handled
  BY <1>1 DEF Handled, HandledAsk, HandledReply, Ask, Reply
<1>6. ASSUME NEW m \in Utterance, StoredIn(store, m) \/ m \in Handled
      PROVE  to'[m.send] = to[m.send] /\ m.send # sent + 1
  <2>1. m.send # sent + 1
    <3>1. CASE StoredIn(store, m)
      BY <1>4, <3>1, AskOrReply
    <3>2. CASE m \in Handled
      BY <1>4, <3>2, HandledIs
    <3> QED  BY <1>6, <3>1, <3>2
  <2> QED  BY <1>3, <2>1, AskOrReply
<1>7. ASSUME NEW s \in Sends
      PROVE  Recorded(s)' /\ Learnt(s)'
  <2>1. Recorded(s) /\ Learnt(s)
    BY DEF ViewInv
  <2>2. Recorded(s)'
    BY <1>1, <1>2, <2>1 DEF Recorded
  <2>3. s < sent' => s < sent \/ s = sent
    BY <1>1, <1>2
  <2>4. s = sent' => seen'[s] = 0
    BY <1>1, <1>4
  <2>5. Learnt(s)'
    BY <1>1, <1>5, <2>1, <2>3, <2>4 DEF Learnt
  <2> QED  BY <2>2, <2>5
<1>8. LoadsOK'
  <2>1. store \in Seq(Utterance) /\ \A k \in DOMAIN store : store[k] \in Utterance /\ StoredIn(store, store[k])
    BY <1>2 DEF ChatTypeOK, StoredIn
  <2>2. \A k \in DOMAIN store : to'[store[k].send] = to[store[k].send]
    BY <1>6, <2>1
  <2>3. PICK dest, other : dest = to /\ other = to'
    OBVIOUS
  <2>4. ASSUME NEW i \in DOMAIN loads, loads[i].served
        PROVE  Listing(store, to', loads[i])
    <3>1. PICK l, st : l = loads[i] /\ st = store
      OBVIOUS
    <3>2. Listing(st, dest, l)
      BY <2>3, <2>4, <3>1 DEF ViewInv, LoadsOK
    <3>3. st \in Seq(Utterance) /\ Ask(sent + 1) \in Utterance /\ \A k \in DOMAIN st : other[st[k].send] = dest[st[k].send]
      BY <1>2, <2>1, <2>2, <2>3, <3>1, Utterances
    <3>4. PICK m \in Utterance : TRUE
      BY <3>3
    <3>5. Listing(st, other, l)
      BY <3>2, <3>3, <3>4, ListingStays
    <3> QED  BY <2>3, <3>1, <3>5
  <2> QED
    BY <1>1, <2>4 DEF LoadsOK
<1>9. ViewOK'
  <2>1. ASSUME ~raced', loads = <<>>, status # "error"
        PROVE  Shows'
    <3>1. Shows
      BY <1>1, <2>1 DEF ViewInv, ViewOK
    <3>2. \A i \in DOMAIN shown : /\ StoredIn(store, shown[i]) /\ shown[i] \in Utterance
                                  /\ to[shown[i].send] = active /\ to'[shown[i].send] = active
      BY <1>1, <1>2, <1>6, <3>1 DEF Shows, ShownIsStored, ChatTypeOK
    <3>3. ShownIsStored'
      BY <1>1, <3>2 DEF ShownIsStored
    <3>4. ShownInOrder'
      BY <1>1, <3>1, <3>2 DEF Shows, ShownInOrder
    <3>5. HandledIsShown'
      <4>1. \A m \in Handled : to'[m.send] = to[m.send]
        BY <1>6, HandledIs
      <4> QED  BY <1>1, <1>5, <3>1, <4>1 DEF Shows, HandledIsShown
    <3>6. RestIsToCome'
      BY <1>1, <1>4 DEF RestIsToCome, Ask, Reply
    <3> QED  BY <3>3, <3>4, <3>5, <3>6 DEF Shows
  <2> QED
    BY <1>1, <2>1 DEF ViewInv, ViewOK
<1> QED
  BY <1>1, <1>7, <1>8, <1>9 DEF ViewInv

\* What the shell does with a send that adds nothing to what is shown.
LEMMA CallKeepsView ==
  ASSUME ChatInv, ViewInv, call # "none", call' # "fetching",
         UNCHANGED <<store, handler, body, to, sent, seen, active, shown, loads>>,
         raced => raced', raced' \/ call' # "none" \/ active = to[sent] \/ seen[sent] = 0,
         status' \in {status, "success"},
         told' = told \/ (call' = "none" /\ told' = [told EXCEPT ![sent] = IF @ = "answer" THEN @ ELSE "failure"]),
         call' \in {"none", "listing"} => told'[sent] # "nothing"
  PROVE  ViewInv'
<1>1. ChatTypeOK /\ sent \in Sends /\ \A s \in Sends : s \in Nat
  BY UnderWay DEF ChatInv, Sends
<1>2. /\ \A s \in Sends : (HandledAsk(s)' <=> HandledAsk(s)) /\ (HandledReply(s)' <=> HandledReply(s))
      /\ Handled' = Handled
  BY DEF Handled, HandledAsk, HandledReply, Ask, Reply
<1>3. \A s \in Sends : (told'[s] = "answer" <=> told[s] = "answer") /\ (told[s] # "nothing" => told'[s] # "nothing")
  BY <1>1 DEF ChatTypeOK
<1>4. ASSUME NEW s \in Sends
      PROVE  Recorded(s)' /\ Learnt(s)'
  <2>1. Recorded(s) /\ Learnt(s)
    BY DEF ViewInv
  <2>2. Recorded(s)'
    BY <2>1 DEF Recorded
  <2>3. Learnt(s)'
    BY <1>2, <1>3, <2>1 DEF Learnt
  <2> QED  BY <2>2, <2>3
<1>5. LoadsOK'
  BY DEF ViewInv, LoadsOK
<1>6. ViewOK'
  <2> SUFFICES ASSUME ~raced'
               PROVE  /\ loads # <<>> => loads[Len(loads)].of = active
                      /\ call' # "none" => status' # "error"
                      /\ loads = <<>> => Shows'
    BY DEF ViewOK
  <2>1. ~raced /\ status # "error" /\ (active # to[sent] => call' # "none" \/ seen[sent] = 0)
    BY DEF ViewInv, ViewOK
  <2>2. ASSUME loads = <<>>
        PROVE  Shows'
    <3>1. Shows
      BY <2>1, <2>2 DEF ViewInv, ViewOK
    <3>2. ShownIsStored'
      <4> SUFFICES ASSUME NEW i \in DOMAIN shown
                   PROVE  /\ StoredIn(store, shown[i])
                          /\ to[shown[i].send] = active \/ (call' # "none" /\ shown[i].send = sent /\ shown[i] \in Handled)
        BY <1>2 DEF ShownIsStored
      <4>1. /\ StoredIn(store, shown[i])
            /\ to[shown[i].send] = active \/ (shown[i].send = sent /\ shown[i] \in Handled)
        BY <3>1 DEF Shows, ShownIsStored
      <4>2. CASE call' # "none" \/ active = to[sent]
        BY <4>1, <4>2
      <4>3. CASE seen[sent] = 0
        <5>1. ~HandledAsk(sent) /\ ~HandledReply(sent)
          <6>1. 1..seen[sent] = {}
            BY <4>3
          <6> QED  BY <6>1 DEF HandledAsk, HandledReply
        <5>2. ~(shown[i].send = sent /\ shown[i] \in Handled)
          BY <5>1, HandledIs
        <5> QED  BY <4>1, <5>2
      <4> QED  BY <2>1, <4>2, <4>3
    <3>3. ShownInOrder'
      BY <3>1 DEF Shows, ShownInOrder
    <3>4. HandledIsShown'
      BY <1>2, <3>1 DEF Shows, HandledIsShown
    <3>5. RestIsToCome'
      BY <1>2, <3>1 DEF Shows, RestIsToCome, Ask, Reply
    <3> QED  BY <3>2, <3>3, <3>4, <3>5 DEF Shows
  <2> QED
    BY <2>1, <2>2 DEF ViewInv, ViewOK
<1> QED
  BY <1>4, <1>5, <1>6 DEF ViewInv

\* The end of a send, of its response or of the list that follows it.
LEMMA CallStep ==
  ASSUME ChatInv, ViewInv,
         \/ SendRefused \/ ConnectionBreaks \/ SendAccepted \/ ResponseEnds \/ ListFails
         \/ Listed /\ active = to[sent]
  PROVE  ViewInv'
<1>1. /\ call # "none" /\ call' # "fetching" /\ (raced => raced')
      /\ UNCHANGED <<store, handler, body, to, sent, seen, active, shown, loads>>
      /\ status' \in {status, "success"}
  <2>1. CASE SendRefused
    BY <2>1 DEF SendRefused, SendFails, server, view
  <2>2. CASE ConnectionBreaks
    BY <2>2 DEF ConnectionBreaks, SendFails, server, view
  <2>3. CASE SendAccepted \/ ResponseEnds
    BY <2>3 DEF SendAccepted, ResponseEnds, server, view
  <2>4. CASE ListFails
    BY <2>4 DEF ListFails, server
  <2>5. CASE Listed /\ active = to[sent]
    BY <2>5 DEF Listed, Open, server
  <2> QED  BY <2>1, <2>2, <2>3, <2>4, <2>5
<1>2. ChatTypeOK /\ sent \in Sends /\ Learnt(sent) /\ Honest(sent) /\ ShellKnows
  BY <1>1, UnderWay DEF ChatInv, ViewInv
<1>3. raced' \/ call' # "none" \/ active = to[sent] \/ seen[sent] = 0
  BY <1>2 DEF SendRefused, ConnectionBreaks, SendAccepted, ResponseEnds, ListFails, Learnt
<1>4. told' = told \/ (call' = "none" /\ told' = [told EXCEPT ![sent] = IF @ = "answer" THEN @ ELSE "failure"])
  BY DEF SendRefused, ConnectionBreaks, SendAccepted, ResponseEnds, ListFails, Listed, SendFails
<1>5. call' \in {"none", "listing"} => told'[sent] # "nothing"
  <2>1. CASE SendRefused \/ ConnectionBreaks
    <3>1. told' = [told EXCEPT ![sent] = IF @ = "answer" THEN @ ELSE "failure"]
      BY <2>1 DEF SendRefused, ConnectionBreaks, SendFails
    <3>2. told'[sent] = IF told[sent] = "answer" THEN "answer" ELSE "failure"
      BY <1>2, <3>1 DEF ChatTypeOK
    <3> QED  BY <3>2
  <2>2. CASE SendAccepted
    BY <2>2 DEF SendAccepted
  <2>3. CASE ResponseEnds
    <3>1. /\ call = "reading" /\ handler[sent] = "closed" /\ seen[sent] = Len(body[sent]) /\ told' = told
      BY <2>3 DEF ResponseEnds
    <3>2. PICK i \in DOMAIN body[sent] : body[sent][i] \in {"answer", "error"}
      BY <1>2, <3>1 DEF Honest, ShellKnows
    <3>3. i \in 1..seen[sent]
      BY <1>2, <3>1 DEF ChatTypeOK
    <3>4. told[sent] # "nothing"
      BY <1>2, <3>2, <3>3 DEF Learnt, HandledReply
    <3> QED  BY <3>1, <3>4
  <2>4. CASE ListFails \/ Listed
    <3>1. call = "listing" /\ told' = told
      BY <2>4 DEF ListFails, Listed
    <3> QED  BY <1>2, <3>1 DEF Learnt
  <2> QED  BY <2>1, <2>2, <2>3, <2>4
<1> QED
  BY <1>1, <1>3, <1>4, <1>5, CallKeepsView

\* Another conversation is opened, by the user or by the list that follows a send: what is
\* shown does not matter before its messages have arrived.
LEMMA OpenKeepsView ==
  ASSUME ChatInv, ViewInv, NEW c \in Conversations, active' = c, loads' = Append(loads, Asked(c)),
         UNCHANGED <<store, handler, body, to, sent, seen, told, shown, raced>>, status' # "error",
         call' = call \/ (call = "listing" /\ call' = "none")
  PROVE  ViewInv'
<1>1. ChatTypeOK /\ loads \in Seq(Load) /\ Asked(c) \in Load
  BY DEF ChatInv, ChatTypeOK, Asked, Load
<1>2. /\ Len(loads) \in Nat /\ DOMAIN loads = 1..Len(loads) /\ DOMAIN loads' = 1..(Len(loads) + 1)
      /\ Len(loads') = Len(loads) + 1
      /\ loads'[Len(loads) + 1] = Asked(c) /\ \A i \in DOMAIN loads : loads'[i] = loads[i]
  <2>1. Len(loads') = Len(loads) + 1
    BY <1>1
  <2> QED  BY <1>1, <2>1, Appended
<1>3. \A s \in Sends : (HandledAsk(s)' <=> HandledAsk(s)) /\ (HandledReply(s)' <=> HandledReply(s))
  BY DEF HandledAsk, HandledReply
<1>4. ASSUME NEW s \in Sends
      PROVE  Recorded(s)' /\ Learnt(s)'
  <2>1. Recorded(s) /\ Learnt(s)
    BY DEF ViewInv
  <2>2. Recorded(s)'
    BY <2>1 DEF Recorded
  <2>3. Learnt(s)'
    BY <1>3, <2>1 DEF Learnt
  <2> QED  BY <2>2, <2>3
<1>5. LoadsOK'
  <2>1. ASSUME NEW i \in DOMAIN loads', loads'[i].served
        PROVE  Listing(store, to, loads'[i])
    <3>1. i \in DOMAIN loads
      <4>1. i # Len(loads) + 1
        BY <1>2, <2>1 DEF Asked
      <4> QED  BY <1>2, <4>1
    <3> QED  BY <1>2, <2>1, <3>1 DEF ViewInv, LoadsOK
  <2> QED  BY <2>1 DEF LoadsOK
<1>6. ViewOK'
  <2>1. loads'[Len(loads')].of = active' /\ loads' # <<>>
    BY <1>2 DEF Asked
  <2> QED
    BY <2>1 DEF ViewOK
<1> QED
  BY <1>4, <1>5, <1>6 DEF ViewInv

\* What the shell learns from the event it handles next: nothing that it had learnt before.
LEMMA EventHandled ==
  ASSUME ChatInv, ViewInv, call = "reading", seen[sent] < Len(body[sent]),
         seen' = [seen EXCEPT ![sent] = @ + 1], body' = body, sent' = sent
  PROVE  LET k == body[sent][seen[sent] + 1] IN
         /\ \A s \in Sends : s # sent => /\ HandledAsk(s)' <=> HandledAsk(s)
                                         /\ HandledReply(s)' <=> HandledReply(s)
         /\ HandledAsk(sent)' <=> HandledAsk(sent) \/ k = "started"
         /\ HandledReply(sent)' <=> HandledReply(sent) \/ k = "answer"
         /\ k = "started" => ~HandledAsk(sent)
         /\ k = "answer" => HandledAsk(sent) /\ ~HandledReply(sent)
         /\ 1..seen'[sent] = 1..seen[sent] \cup {seen[sent] + 1}
         /\ seen[sent] + 1 \in DOMAIN body[sent]
<1> DEFINE n == seen[sent] + 1
           k == body[sent][n]
<1>1. ChatTypeOK /\ sent \in Sends /\ Recorded(sent)
  BY UnderWay DEF ChatInv, ViewInv
<1>2. /\ seen[sent] \in Nat /\ Len(body[sent]) \in Nat /\ DOMAIN body[sent] = 1..Len(body[sent])
      /\ seen'[sent] = n /\ \A s \in Sends : s # sent => seen'[s] = seen[s]
  BY <1>1 DEF ChatTypeOK
<1>3. n \in DOMAIN body[sent] /\ 1..n = 1..seen[sent] \cup {n} /\ 1 \in 1..n /\ n \notin 1..seen[sent]
      /\ 1..seen[sent] \subseteq DOMAIN body[sent] /\ \A i \in 1..seen[sent] : n > i
      /\ \A j \in 1..seen[sent] : 1 \in 1..seen[sent]
  BY <1>2
<1> HIDE DEF n
<1>4. \A s \in Sends : s # sent => /\ HandledAsk(s)' <=> HandledAsk(s)
                                   /\ HandledReply(s)' <=> HandledReply(s)
  BY <1>2 DEF HandledAsk, HandledReply
<1>5. /\ HandledAsk(sent)' <=> HandledAsk(sent) \/ k = "started"
      /\ HandledReply(sent)' <=> HandledReply(sent) \/ k = "answer"
  <2>1. HandledAsk(sent)' <=> \E i \in 1..n : body[sent][i] = "started"
    BY <1>2 DEF HandledAsk
  <2>2. HandledReply(sent)' <=> \E i \in 1..n : body[sent][i] = "answer"
    BY <1>2 DEF HandledReply
  <2> QED  BY <1>3, <2>1, <2>2 DEF HandledAsk, HandledReply
<1>6. k = "started" => ~HandledAsk(sent)
  <2> SUFFICES ASSUME k = "started" PROVE ~HandledAsk(sent)
    OBVIOUS
  <2>1. n = 1
    BY <1>1, <1>3 DEF Recorded, WellTold
  <2>2. 1..seen[sent] = {}
    BY <1>2, <2>1 DEF n
  <2> QED  BY <2>2 DEF HandledAsk
<1>7. k = "answer" => HandledAsk(sent) /\ ~HandledReply(sent)
  <2> SUFFICES ASSUME k = "answer" PROVE HandledAsk(sent) /\ ~HandledReply(sent)
    OBVIOUS
  <2>1. n > 1 /\ body[sent][1] = "started"
    BY <1>1, <1>3 DEF Recorded, WellTold
  <2>2. 1 \in 1..seen[sent]
    BY <1>2, <2>1 DEF n
  <2>3. HandledAsk(sent)
    BY <2>1, <2>2 DEF HandledAsk
  <2>4. ~HandledReply(sent)
    <3> SUFFICES ASSUME NEW i \in 1..seen[sent], body[sent][i] = "answer" PROVE FALSE
      BY DEF HandledReply
    <3>1. k \in {"completed", "error"}
      BY <1>1, <1>3 DEF Recorded, WellTold
    <3> QED  BY <3>1
  <2> QED  BY <2>3, <2>4
<1> QED
  BY <1>2, <1>3, <1>4, <1>5, <1>6, <1>7 DEF n

\* An event that shows no message is handled.
LEMMA SilentEvent ==
  ASSUME ChatInv, ViewInv, HandleEvent, body[sent][seen[sent] + 1] \notin {"started", "answer"}
  PROVE  ViewInv'
<1> DEFINE n == seen[sent] + 1
           k == body[sent][n]
<1>1. /\ call = "reading" /\ shown' = shown
      /\ told' = told \/ (k = "error" /\ told' = [told EXCEPT ![sent] = IF @ = "answer" THEN @ ELSE "failure"])
      /\ k = "error" => told' = [told EXCEPT ![sent] = IF @ = "answer" THEN @ ELSE "failure"]
      /\ UNCHANGED <<store, handler, body, to, sent, call, active, status, loads, raced>>
  BY DEF HandleEvent, server
<1>2. ChatTypeOK /\ sent \in Sends /\ \A s \in Sends : s \in Nat
  BY <1>1, UnderWay DEF ChatInv, Sends
<1>3. /\ \A s \in Sends : (HandledAsk(s)' <=> HandledAsk(s)) /\ (HandledReply(s)' <=> HandledReply(s))
      /\ 1..seen'[sent] = 1..seen[sent] \cup {n}
      /\ \A s \in Sends : s # sent => seen'[s] = seen[s]
  <2>1. seen[sent] < Len(body[sent]) /\ seen' = [seen EXCEPT ![sent] = @ + 1]
    BY DEF HandleEvent
  <2>2. \A s \in Sends : s # sent => seen'[s] = seen[s]
    BY <1>2, <2>1 DEF ChatTypeOK
  <2> QED  BY <1>1, <2>1, <2>2, EventHandled
<1>4. Handled' = Handled
  BY <1>3 DEF Handled, Ask, Reply
<1>5. /\ \A s \in Sends : /\ told'[s] = "answer" <=> told[s] = "answer"
                          /\ told[s] # "nothing" => told'[s] # "nothing"
      /\ k = "error" => told'[sent] # "nothing"
  <2>1. CASE told' = [told EXCEPT ![sent] = IF @ = "answer" THEN @ ELSE "failure"]
    BY <1>2, <2>1 DEF ChatTypeOK
  <2>2. CASE told' = told /\ k # "error"
    BY <2>2
  <2> QED  BY <1>1, <2>1, <2>2
<1> HIDE DEF n, k
<1>6. ASSUME NEW s \in Sends
      PROVE  Recorded(s)' /\ Learnt(s)'
  <2>1. Recorded(s) /\ Learnt(s)
    BY DEF ViewInv
  <2>2. Recorded(s)'
    BY <1>1, <2>1 DEF Recorded
  <2>3. ASSUME NEW i \in 1..seen'[s], body[s][i] = "error"
        PROVE  told'[s] # "nothing"
    <3>1. CASE i \in 1..seen[s]
      BY <1>5, <2>1, <2>3, <3>1 DEF Learnt
    <3>2. CASE s = sent /\ i = n
      BY <1>5, <2>3, <3>2 DEF k
    <3> QED  BY <1>3, <2>3, <3>1, <3>2
  <2>4. Learnt(s)'
    BY <1>1, <1>3, <1>5, <2>1, <2>3 DEF Learnt
  <2> QED  BY <2>2, <2>4
<1>7. LoadsOK'
  BY <1>1 DEF ViewInv, LoadsOK
<1>8. ViewOK'
  <2>1. ASSUME Shows PROVE Shows'
    <3>1. ShownIsStored' /\ ShownInOrder'
      BY <1>1, <1>4, <2>1 DEF Shows, ShownIsStored, ShownInOrder
    <3>2. HandledIsShown' /\ RestIsToCome'
      BY <1>1, <1>4, <2>1 DEF Shows, HandledIsShown, RestIsToCome, Ask, Reply
    <3> QED  BY <3>1, <3>2 DEF Shows
  <2> QED
    BY <1>1, <2>1 DEF ViewInv, ViewOK
<1> QED
  BY <1>1, <1>6, <1>7, <1>8 DEF ViewInv

\* The first event or the answer is handled: its message joins what is shown, after all of
\* the open conversation.
LEMMA ShowingEvent ==
  ASSUME ChatInv, ViewInv, HandleEvent, body[sent][seen[sent] + 1] \in {"started", "answer"}
  PROVE  ViewInv'
<1> DEFINE n == seen[sent] + 1
           k == body[sent][n]
           m == IF k = "started" THEN Ask(sent) ELSE Reply(sent)
<1>1. /\ call = "reading" /\ shown' = Append(shown, m)
      /\ told' = IF k = "answer" THEN [told EXCEPT ![sent] = "answer"] ELSE told
      /\ seen[sent] < Len(body[sent]) /\ seen' = [seen EXCEPT ![sent] = @ + 1]
      /\ UNCHANGED <<store, handler, body, to, sent, call, active, status, loads, raced>>
  BY DEF HandleEvent, server
<1>2. /\ ChatTypeOK /\ sent \in Sends /\ (\A s \in Sends : s \in Nat) /\ Recorded(sent) /\ Honest(sent)
      /\ shown \in Seq(Utterance) /\ m \in Utterance /\ m.send = sent /\ m \in {Ask(sent), Reply(sent)}
  <2>1. ChatTypeOK /\ sent \in Sends /\ (\A s \in Sends : s \in Nat) /\ Recorded(sent) /\ Honest(sent)
    BY <1>1, UnderWay DEF ChatInv, ViewInv, Sends
  <2> QED  BY <2>1, Utterances DEF ChatTypeOK
<1>3. /\ \A s \in Sends : s # sent => /\ HandledAsk(s)' <=> HandledAsk(s)
                                      /\ HandledReply(s)' <=> HandledReply(s)
      /\ HandledAsk(sent)' <=> HandledAsk(sent) \/ k = "started"
      /\ HandledReply(sent)' <=> HandledReply(sent) \/ k = "answer"
      /\ k = "started" => ~HandledAsk(sent)
      /\ k = "answer" => HandledAsk(sent) /\ ~HandledReply(sent)
      /\ 1..seen'[sent] = 1..seen[sent] \cup {n}
      /\ n \in DOMAIN body[sent]
  BY <1>1, EventHandled
<1>4. \A s \in Sends : s # sent => seen'[s] = seen[s]
  BY <1>1, <1>2 DEF ChatTypeOK
<1>5. k \in {"started", "answer"}
  OBVIOUS
<1>6. k = "answer" => m = Reply(sent)
  OBVIOUS
<1>7. k = "started" => m = Ask(sent)
  OBVIOUS
<1> HIDE DEF k, m
<1>8. Handled' = Handled \cup {m} /\ m \notin Handled
  <2>1. /\ Ask(sent) \in Handled <=> HandledAsk(sent)
        /\ Reply(sent) \in Handled <=> HandledReply(sent)
    BY <1>2, IsHandled
  <2>2. m \notin Handled
    BY <1>3, <1>5, <1>6, <1>7, <2>1
  <2>3. /\ \A s \in Sends : HandledAsk(s)' <=> HandledAsk(s) \/ (s = sent /\ k = "started")
        /\ \A s \in Sends : HandledReply(s)' <=> HandledReply(s) \/ (s = sent /\ k = "answer")
    <3>1. ASSUME NEW s \in Sends
          PROVE  /\ HandledAsk(s)' <=> HandledAsk(s) \/ (s = sent /\ k = "started")
                 /\ HandledReply(s)' <=> HandledReply(s) \/ (s = sent /\ k = "answer")
      <4>1. CASE s = sent
        <5>1. /\ HandledAsk(sent)' <=> HandledAsk(s)'
              /\ HandledReply(sent)' <=> HandledReply(s)'
          BY <1>1, <4>1 DEF HandledAsk, HandledReply
        <5> QED  BY <1>3, <4>1, <5>1
      <4>2. CASE s # sent
        BY <1>3, <4>2
      <4> QED  BY <4>1, <4>2
    <3> QED  BY <3>1
  <2>4. Handled' = {Ask(s) : s \in {r \in Sends : HandledAsk(r)'}} \cup {Reply(s) : s \in {r \in Sends : HandledReply(r)'}}
    BY DEF Handled, Ask, Reply
  <2>5. Handled' = Handled \cup {m}
    BY <1>2, <1>5, <1>6, <1>7, <2>3, <2>4 DEF Handled
  <2> QED  BY <2>2, <2>5
<1>9. StoredIn(store, m)
  BY <1>2, <1>3, <1>5, <1>6, <1>7 DEF Recorded, Honest, InStore, StoredIn, k
<1>10. ASSUME NEW s \in Sends
       PROVE  Recorded(s)' /\ Learnt(s)'
  <2>1. Recorded(s) /\ Learnt(s)
    BY DEF ViewInv
  <2>2. Recorded(s)'
    BY <1>1, <2>1 DEF Recorded
  <2>3. told'[s] = (IF s = sent /\ k = "answer" THEN "answer" ELSE told[s])
    BY <1>1, <1>2, <1>5 DEF ChatTypeOK
  <2>4. HandledReply(s)' <=> HandledReply(s) \/ (s = sent /\ k = "answer")
    <3>1. CASE s = sent
      <4>1. HandledReply(sent)' <=> HandledReply(s)'
        BY <1>1, <3>1 DEF HandledReply
      <4> QED  BY <1>3, <3>1, <4>1
    <3>2. CASE s # sent
      BY <1>3, <3>2
    <3> QED  BY <3>1, <3>2
  <2>5. ASSUME NEW i \in 1..seen'[s], body[s][i] = "error"
        PROVE  told'[s] # "nothing"
    <3>1. CASE i \in 1..seen[s]
      BY <2>1, <2>3, <2>5, <3>1 DEF Learnt
    <3>2. CASE s = sent /\ i = n
      BY <1>5, <2>5, <3>2 DEF k
    <3> QED  BY <1>3, <1>4, <2>5, <3>1, <3>2
  <2>6. Learnt(s)'
    BY <1>1, <1>4, <2>1, <2>3, <2>4, <2>5 DEF Learnt
  <2> QED  BY <2>2, <2>6
<1>11. LoadsOK'
  BY <1>1 DEF ViewInv, LoadsOK
<1>12. ASSUME Shows PROVE Shows'
  <2>1. /\ Len(shown) \in Nat /\ DOMAIN shown = 1..Len(shown) /\ DOMAIN shown' = 1..(Len(shown) + 1)
        /\ shown'[Len(shown) + 1] = m /\ \A i \in DOMAIN shown : shown'[i] = shown[i]
    BY <1>1, <1>2, Appended
  <2>2. \A i \in DOMAIN shown : i \in DOMAIN shown'
    BY <2>1
  <2>3. \A i \in DOMAIN shown' : i \in DOMAIN shown \/ i = Len(shown) + 1
    BY <2>1
  <2>4. Len(shown) + 1 \in DOMAIN shown' /\ \A i, j \in DOMAIN shown' : i < j => i \in DOMAIN shown
    BY <2>1
  <2>5. ShownIsStored'
    <3> SUFFICES ASSUME NEW i \in DOMAIN shown'
                 PROVE  /\ StoredIn(store, shown'[i])
                        /\ to[shown'[i].send] = active \/ (shown'[i].send = sent /\ shown'[i] \in Handled')
      BY <1>1 DEF ShownIsStored
    <3>1. CASE i \in DOMAIN shown
      BY <1>8, <1>12, <2>1, <3>1 DEF Shows, ShownIsStored
    <3>2. CASE i = Len(shown) + 1
      BY <1>2, <1>8, <1>9, <2>1, <3>2
    <3> QED  BY <2>3, <3>1, <3>2
  <2>6. to[sent] = active => \A i \in DOMAIN shown : Precedes(store, shown[i], m)
    BY <1>1, <1>2, <1>8, <1>9, <1>12 DEF Shows, RestIsToCome
  <2>7. ShownInOrder'
    <3> SUFFICES ASSUME NEW i \in DOMAIN shown', NEW j \in DOMAIN shown', i < j,
                        to[shown'[i].send] = active, to[shown'[j].send] = active
                 PROVE  Precedes(store, shown'[i], shown'[j])
      BY <1>1 DEF ShownInOrder
    <3>1. CASE j \in DOMAIN shown
      BY <1>12, <2>1, <2>4, <3>1 DEF Shows, ShownInOrder
    <3>2. CASE j = Len(shown) + 1
      BY <1>2, <2>1, <2>4, <2>6, <3>2
    <3> QED  BY <2>3, <3>1, <3>2
  <2>8. HandledIsShown'
    <3> SUFFICES ASSUME NEW a \in Handled \cup {m}, to[a.send] = active
                 PROVE  \E i \in DOMAIN shown' : shown'[i] = a
      BY <1>1, <1>8 DEF HandledIsShown
    <3>1. CASE a = m
      BY <2>1, <2>4, <3>1
    <3>2. CASE a \in Handled
      BY <1>12, <2>1, <2>2, <3>2 DEF Shows, HandledIsShown
    <3> QED  BY <3>1, <3>2
  <2>9. RestIsToCome'
    <3> SUFFICES ASSUME to[sent] = active, NEW a \in {Ask(sent), Reply(sent)}, a \notin Handled \cup {m},
                        StoredIn(store, a), NEW i \in DOMAIN shown'
                 PROVE  Precedes(store, shown'[i], a)
      BY <1>1, <1>8 DEF RestIsToCome, Ask, Reply
    <3>1. CASE i \in DOMAIN shown
      BY <1>1, <1>12, <2>1, <3>1 DEF Shows, RestIsToCome
    <3>2. CASE i = Len(shown) + 1
      <4>1. k = "started"
        <5>1. k = "answer" => Ask(sent) \in Handled
          BY <1>2, <1>3, IsHandled
        <5> QED  BY <1>5, <1>6, <5>1
      <4>2. m = Ask(sent) /\ a = Reply(sent)
        BY <1>7, <4>1
      <4>3. Precedes(store, Ask(sent), Reply(sent))
        BY <1>2, <4>2 DEF Honest, InStore, StoredIn, Precedes
      <4> QED  BY <2>1, <3>2, <4>2, <4>3
    <3> QED  BY <2>3, <3>1, <3>2
  <2> QED  BY <2>5, <2>7, <2>8, <2>9 DEF Shows
<1>13. ViewOK'
  BY <1>1, <1>12 DEF ViewInv, ViewOK
<1> QED
  BY <1>1, <1>10, <1>11, <1>13 DEF ViewInv

-----------------------------------------------------------------------------
(* The chat at rest: the lists of messages *)

\* What nobody has handled or sent stays so while lists come and go.
LEMMA ListsLearnNothing ==
  ASSUME ChatInv, ViewInv, UNCHANGED <<store, handler, body, to, sent, call, seen, told>>
  PROVE  /\ NoneTwice(store') /\ \A s \in Sends : Recorded(s)' /\ Learnt(s)'
         /\ Handled' = Handled
<1>1. \A s \in Sends : (HandledAsk(s)' <=> HandledAsk(s)) /\ (HandledReply(s)' <=> HandledReply(s))
  BY DEF HandledAsk, HandledReply
<1>2. Handled' = Handled
  BY <1>1 DEF Handled, Ask, Reply
<1>3. \A s \in Sends : Recorded(s) /\ Learnt(s)
  BY DEF ViewInv
<1>4. \A s \in Sends : Recorded(s)'
  BY <1>3 DEF Recorded
<1>5. \A s \in Sends : Learnt(s)'
  BY <1>1, <1>3 DEF Learnt
<1> QED  BY <1>2, <1>4, <1>5 DEF ViewInv

\* A list is served.
LEMMA ServeKeepsView ==
  ASSUME ChatInv, ViewInv, NEW i \in DOMAIN loads, ServeLoad(i)
  PROVE  ViewInv'
<1> DEFINE new == [of |-> loads[i].of, served |-> TRUE, items |-> MessagesOf(loads[i].of)]
<1>1. /\ loads' = [loads EXCEPT ![i] = new]
      /\ UNCHANGED <<store, handler, body, to, sent, call, seen, told, active, shown, status, raced>>
  BY DEF ServeLoad, server
<1>2. ChatTypeOK /\ DOMAIN loads = 1..Len(loads) /\ Len(loads) \in Nat /\ loads[i].of \in Conversations
  <2>1. loads[i] \in Load
    BY ElementOfSeq DEF ChatInv, ChatTypeOK
  <2> QED  BY <2>1 DEF ChatInv, ChatTypeOK, Load
<1>3. Listing(store, to, new)
  BY <1>2, ListingServed DEF ViewInv
<1>4. new.of = loads[i].of
  OBVIOUS
<1> HIDE DEF new
<1>5. /\ DOMAIN loads' = DOMAIN loads /\ loads'[i] = new
      /\ \A j \in DOMAIN loads : j # i => loads'[j] = loads[j]
  BY <1>1
<1>6. Len(loads') = Len(loads)
  BY <1>1, <1>2, <1>5
<1>7. LoadsOK'
  <2>1. ASSUME NEW j \in DOMAIN loads, loads'[j].served
        PROVE  Listing(store, to, loads'[j])
    <3>1. CASE j = i
      BY <1>3, <1>5, <3>1
    <3>2. CASE j # i
      BY <1>5, <2>1, <3>2 DEF ViewInv, LoadsOK
    <3> QED  BY <3>1, <3>2
  <2> QED  BY <1>1, <1>5, <2>1 DEF LoadsOK
<1>8. ViewOK'
  <2>1. loads # <<>> /\ loads' # <<>>
    BY <1>2, <1>5
  <2>2. loads'[Len(loads')].of = loads[Len(loads)].of
    <3>1. Len(loads) \in DOMAIN loads
      BY <1>2
    <3>2. CASE Len(loads) = i
      BY <1>4, <1>5, <1>6, <3>2
    <3>3. CASE Len(loads) # i
      BY <1>5, <1>6, <3>1, <3>3
    <3> QED  BY <3>2, <3>3
  <2> QED
    BY <1>1, <2>1, <2>2 DEF ViewInv, ViewOK
<1> QED
  BY <1>1, <1>7, <1>8, ListsLearnNothing DEF ViewInv

\* What is left of the requests without one of them.
LEMMA LeftWithout ==
  ASSUME loads \in Seq(Load), NEW i \in DOMAIN loads
  PROVE  /\ Without(i) \in Seq(Load) /\ Len(Without(i)) = Len(loads) - 1 /\ Len(loads) \in Nat
         /\ \A j \in DOMAIN Without(i) : \E k \in DOMAIN loads : k # i /\ Without(i)[j] = loads[k]
         /\ \A j \in DOMAIN Without(i) : Without(i)[j] = IF j < i THEN loads[j] ELSE loads[j + 1]
         /\ DOMAIN Without(i) = 1..(Len(loads) - 1) /\ DOMAIN loads = 1..Len(loads)
BY WithoutOneElements DEF Without

\* The requests that are left when one is done with: if it was the first, the last is still
\* the last.
LEMMA LoadsLeft ==
  ASSUME ChatInv, ViewInv, NEW i \in DOMAIN loads, loads' = Without(i), UNCHANGED <<store, to>>
  PROVE  /\ LoadsOK'
         /\ i = 1 /\ loads' # <<>> => loads'[Len(loads')].of = loads[Len(loads)].of
         /\ i = 1 /\ loads' = <<>> => Len(loads) = 1
<1>1. loads \in Seq(Load)
  BY DEF ChatInv, ChatTypeOK
<1>2. /\ loads' \in Seq(Load) /\ Len(loads') = Len(loads) - 1 /\ Len(loads) \in Nat
      /\ \A j \in DOMAIN loads' : \E k \in DOMAIN loads : k # i /\ loads'[j] = loads[k]
      /\ \A j \in DOMAIN loads' : loads'[j] = IF j < i THEN loads[j] ELSE loads[j + 1]
      /\ DOMAIN loads' = 1..(Len(loads) - 1) /\ DOMAIN loads = 1..Len(loads)
  BY <1>1, LeftWithout
<1>3. LoadsOK'
  BY <1>2 DEF ViewInv, LoadsOK
<1>4. ASSUME i = 1, loads' # <<>>
      PROVE  loads'[Len(loads')].of = loads[Len(loads)].of
  <2> DEFINE n == Len(loads)
  <2>1. n \in Nat /\ Len(loads') = n - 1 /\ DOMAIN loads' = 1..(n - 1)
    BY <1>2
  <2>2. n - 1 # 0
    BY <1>2, <1>4
  <2> HIDE DEF n
  <2>3. n - 1 \in DOMAIN loads' /\ ~(n - 1 < i) /\ n - 1 + 1 = n
    BY <1>4, <2>1, <2>2
  <2>4. loads'[n - 1] = loads[n]
    BY <1>2, <2>3
  <2> QED  BY <2>1, <2>4 DEF n
<1>5. ASSUME i = 1, loads' = <<>>
      PROVE  Len(loads) = 1
  BY <1>2, <1>5
<1> QED  BY <1>3, <1>4, <1>5

\* A list arrives and is shown: if no race was lost it has what was handled and nothing that
\* is still to be handled.
LEMMA ShowKeepsView ==
  ASSUME ChatInv, ViewInv, NEW i \in DOMAIN loads, ShowLoad(i)
  PROVE  ViewInv'
<1>1. /\ loads[i].served /\ shown' = loads[i].items /\ status' = "success" /\ loads' = Without(i)
      /\ raced' = (raced \/ LoadRaces(i))
      /\ UNCHANGED <<store, handler, body, to, sent, call, seen, told, active>>
  BY DEF ShowLoad, server
<1>2. Listing(store, to, loads[i])
  BY <1>1 DEF ViewInv, LoadsOK
<1>3. /\ LoadsOK'
      /\ i = 1 /\ loads' # <<>> => loads'[Len(loads')].of = loads[Len(loads)].of
      /\ i = 1 /\ loads' = <<>> => Len(loads) = 1
  BY <1>1, LoadsLeft
<1>4. /\ NoneTwice(store') /\ \A s \in Sends : Recorded(s)' /\ Learnt(s)'
      /\ Handled' = Handled
  BY <1>1, ListsLearnNothing
<1>5. loads # <<>>
  OBVIOUS
<1>6. ASSUME ~raced'
      PROVE  i = 1 /\ ~raced /\ ~LoadRaces(i) /\ loads[Len(loads)].of = active
  <2>1. ~raced /\ ~LoadRaces(i)
    BY <1>1, <1>6
  <2>2. i = 1
    BY <2>1 DEF LoadRaces
  <2> QED  BY <1>5, <2>1, <2>2 DEF ViewInv, ViewOK
<1>7. ASSUME ~raced', loads' = <<>>
      PROVE  Shows'
  <2>1. loads[i].of = active /\ ~LoadRaces(i)
    BY <1>3, <1>6, <1>7
  <2> DEFINE items == loads[i].items
             has(m) == \E j \in DOMAIN items : items[j] = m
  <2>2. /\ \A m \in Handled : to[m.send] = active => has(m)
        /\ call # "none" => \A m \in {Ask(sent), Reply(sent)} : m \notin Handled => ~has(m)
    BY <2>1 DEF LoadRaces
  <2>3. /\ \A j \in DOMAIN items : \E p \in DOMAIN store :
             /\ store[p] = items[j] /\ to[items[j].send] = active
             /\ \A k \in 1..(p - 1) : to[store[k].send] = active => \E n \in DOMAIN items : items[n] = store[k]
        /\ \A j, k \in DOMAIN items : j < k => Precedes(store, items[j], items[k])
    BY <1>2, <2>1 DEF Listing
  <2>4. shown' = items
    BY <1>1
  <2> HIDE DEF items
  <2>5. ShownIsStored'
    BY <1>1, <2>3, <2>4 DEF ShownIsStored, StoredIn
  <2>6. ShownInOrder'
    BY <1>1, <2>3, <2>4 DEF ShownInOrder
  <2>7. HandledIsShown'
    BY <1>1, <1>4, <2>2, <2>4 DEF HandledIsShown
  <2>8. RestIsToCome'
    <3> SUFFICES ASSUME call # "none", to[sent] = active, NEW m \in {Ask(sent), Reply(sent)},
                        m \notin Handled, StoredIn(store, m), NEW j \in DOMAIN items
                 PROVE  Precedes(store, items[j], m)
      BY <1>1, <1>4, <2>4 DEF RestIsToCome, Ask, Reply
    <3>1. PICK p \in DOMAIN store :
             /\ store[p] = items[j]
             /\ \A k \in 1..(p - 1) : to[store[k].send] = active => \E n \in DOMAIN items : items[n] = store[k]
      BY <2>3
    <3>2. PICK q \in DOMAIN store : store[q] = m
      BY DEF StoredIn
    <3>3. DOMAIN store = 1..Len(store) /\ Len(store) \in Nat /\ m.send = sent
      BY UnderWay, Utterances DEF ChatInv, ChatTypeOK
    <3>4. ~has(m)
      BY <2>2
    <3>5. ~(q < p)
      <4> SUFFICES ASSUME q < p PROVE FALSE
        OBVIOUS
      <4>1. q \in 1..(p - 1)
        BY <3>3
      <4> QED  BY <3>1, <3>2, <3>3, <3>4, <4>1
    <3>6. q # p
      BY <3>1, <3>2, <3>4
    <3>7. p < q
      BY <3>3, <3>5, <3>6
    <3> QED  BY <3>1, <3>2, <3>7 DEF Precedes
  <2> QED  BY <2>5, <2>6, <2>7, <2>8 DEF Shows
<1>8. ViewOK'
  BY <1>1, <1>3, <1>6, <1>7 DEF ViewOK
<1> QED
  BY <1>3, <1>4, <1>8 DEF ViewInv

\* A list does not arrive: while a message is under way that is one of the races, otherwise
\* the shell shows the error.
LEMMA FailKeepsView ==
  ASSUME ChatInv, ViewInv, NEW i \in DOMAIN loads, LoadFails(i)
  PROVE  ViewInv'
<1>1. /\ status' = "error" /\ loads' = Without(i) /\ raced' = (raced \/ i # 1 \/ call # "none")
      /\ UNCHANGED <<store, handler, body, to, sent, call, seen, told, active>>
  BY DEF LoadFails, server
<1>2. /\ LoadsOK'
      /\ i = 1 /\ loads' # <<>> => loads'[Len(loads')].of = loads[Len(loads)].of
  BY <1>1, LoadsLeft
<1>3. NoneTwice(store') /\ \A s \in Sends : Recorded(s)' /\ Learnt(s)'
  BY <1>1, ListsLearnNothing
<1>4. ViewOK'
  <2>1. loads # <<>>
    OBVIOUS
  <2> QED  BY <1>1, <1>2, <2>1 DEF ViewInv, ViewOK
<1> QED
  BY <1>2, <1>3, <1>4 DEF ViewInv

\* No step of the chat breaks it.
LEMMA NextViewInv == ChatInv /\ ViewInv /\ [ChatNext]_chatVars => ViewInv'
<1> SUFFICES ASSUME ChatInv, ViewInv, [ChatNext]_chatVars PROVE ViewInv'
  OBVIOUS
<1>1. CASE \E s \in Sends : Handle(s)
  BY <1>1, HandleKeepsView
<1>2. CASE SendRefused \/ SendAccepted \/ ResponseEnds \/ ListFails \/ ConnectionBreaks
  BY <1>2, CallStep
<1>3. CASE HandleEvent
  <2>1. CASE body[sent][seen[sent] + 1] \in {"started", "answer"}
    BY <1>3, <2>1, ShowingEvent
  <2>2. CASE body[sent][seen[sent] + 1] \notin {"started", "answer"}
    BY <1>3, <2>2, SilentEvent
  <2> QED  BY <2>1, <2>2
<1>4. CASE Listed
  <2>1. CASE active = to[sent]
    BY <1>4, <2>1, CallStep
  <2>2. CASE active # to[sent]
    <3>1. /\ active' = to[sent] /\ loads' = Append(loads, Asked(to[sent])) /\ status' # "error"
          /\ call = "listing" /\ call' = "none"
          /\ UNCHANGED <<store, handler, body, to, sent, seen, told, shown, raced>>
      BY <1>4, <2>2 DEF Listed, Open, server
    <3>2. to[sent] \in Conversations
      BY <3>1, UnderWay DEF ChatInv, ChatTypeOK
    <3> QED  BY <3>1, <3>2, OpenKeepsView
  <2> QED  BY <2>1, <2>2
<1>5. CASE Send
  BY <1>5, SendKeepsView
<1>6. CASE \E c \in Conversations : Select(c)
  <2>1. PICK c \in Conversations : Select(c)
    BY <1>6
  <2>2. /\ active' = c /\ loads' = Append(loads, Asked(c)) /\ status' # "error" /\ call' = call
        /\ UNCHANGED <<store, handler, body, to, sent, seen, told, shown, raced>>
    BY <2>1 DEF Select, Open, server
  <2> QED  BY <2>2, OpenKeepsView
<1>7. CASE \E i \in DOMAIN loads : ServeLoad(i) \/ ShowLoad(i) \/ LoadFails(i)
  BY <1>7, ServeKeepsView, ShowKeepsView, FailKeepsView
<1>8. CASE UNCHANGED chatVars
  <2>1. UNCHANGED <<store, handler, body, to, sent, call, seen, told, active, shown, status, loads, raced>>
    BY <1>8 DEF chatVars, server, view
  <2>2. NoneTwice(store') /\ (\A s \in Sends : Recorded(s)' /\ Learnt(s)') /\ Handled' = Handled
    BY <2>1, ListsLearnNothing
  <2>3. LoadsOK'
    BY <2>1 DEF ViewInv, LoadsOK
  <2>4. Shows => Shows'
    BY <2>1, <2>2 DEF Shows, ShownIsStored, ShownInOrder, HandledIsShown, RestIsToCome, Ask, Reply
  <2>5. ViewOK'
    BY <2>1, <2>4 DEF ViewInv, ViewOK
  <2> QED  BY <2>2, <2>3, <2>5 DEF ViewInv
<1> QED
  BY <1>1, <1>2, <1>3, <1>4, <1>5, <1>6, <1>7, <1>8 DEF ChatNext, Shell

-----------------------------------------------------------------------------
(* The chat at rest: what is shown *)

\* At rest, every message of the open conversation that is not shown belongs to a send that
\* failed.
LEMMA RestIsComplete ==
  ASSUME ChatInv, ViewInv, Resting, ~raced, NEW m \in Utterance, StoredIn(store, m), to[m.send] = active
  PROVE  (\E i \in DOMAIN shown : shown[i] = m) \/ told[m.send] = "failure"
<1>1. Shows /\ call = "none" /\ ChatTypeOK
  BY DEF Resting, Ready, ViewInv, ViewOK, ChatInv
<1>2. m.send \in Sends /\ (m = Ask(m.send) \/ m = Reply(m.send))
  BY AskOrReply
<1>3. ~(m.send > sent)
  BY <1>2, StoredWasSent
<1>4. m.send < sent \/ m.send = sent
  BY <1>1, <1>2, <1>3 DEF ChatTypeOK, Sends
<1>5. told[m.send] # "nothing" /\ (told[m.send] = "answer" <=> HandledReply(m.send))
  BY <1>1, <1>2, <1>4 DEF ViewInv, Learnt
<1>6. CASE told[m.send] = "answer"
  <2>1. HandledReply(m.send) /\ HandledAsk(m.send)
    BY <1>2, <1>5, <1>6, AskFirst
  <2>2. m \in Handled
    BY <1>2, <2>1, IsHandled
  <2> QED  BY <1>1, <2>2 DEF Shows, HandledIsShown
<1>7. CASE told[m.send] # "answer"
  BY <1>1, <1>2, <1>5, <1>7 DEF ChatTypeOK
<1> QED  BY <1>6, <1>7

\* What the invariant says of the view at rest is what RestingViewIsTrue does.
LEMMA ViewInvIsTrue == ChatInv /\ ViewInv => RestingViewIsTrue
<1> SUFFICES ASSUME ChatInv, ViewInv, Resting, ~raced
             PROVE  LET items == MessagesOf(active)
                        position(i) == CHOOSE j \in DOMAIN items : items[j] = shown[i]
                    IN /\ \A i \in DOMAIN shown : \E j \in DOMAIN items : items[j] = shown[i]
                       /\ \A i, j \in DOMAIN shown : i < j => position(i) < position(j)
                       /\ \A j \in DOMAIN items :
                            \/ \E i \in DOMAIN shown : shown[i] = items[j]
                            \/ told[items[j].send] = "failure"
  BY DEF RestingViewIsTrue
<1> DEFINE T == {m \in Utterance : to[m.send] = active}
           items == SelectIn(store, T)
           position(i) == CHOOSE j \in DOMAIN items : items[j] = shown[i]
<1>1. /\ Shows /\ call = "none" /\ store \in Seq(Utterance) /\ NoneTwice(store)
      /\ Len(store) \in Nat /\ DOMAIN store = 1..Len(store) /\ shown \in Seq(Utterance)
      /\ \A i \in DOMAIN shown : shown[i] \in Utterance
      /\ \A k \in DOMAIN store : store[k] \in Utterance
  BY DEF Resting, Ready, ViewInv, ViewOK, ChatInv, ChatTypeOK
<1>2. Range(items) = Range(store) \cap T /\ items \in Seq(Utterance)
  BY <1>1, SelectInType
<1>3. ASSUME NEW i \in DOMAIN items, NEW j \in DOMAIN items, i < j
      PROVE  Precedes(store, items[i], items[j])
  <2>1. i \in DOMAIN SelectIn(store, T) /\ j \in DOMAIN SelectIn(store, T)
    OBVIOUS
  <2> HIDE DEF T
  <2>2. \E k, n \in DOMAIN store : k < n /\ store[k] = SelectIn(store, T)[i] /\ store[n] = SelectIn(store, T)[j]
    BY <1>1, <1>3, <2>1, SelectInOrder
  <2> QED  BY <2>2 DEF Precedes
<1>4. DOMAIN items = 1..Len(items) /\ Len(items) \in Nat
  BY <1>2
<1> HIDE DEF items
<1>5. \A a, b : Precedes(store, a, b) => ~Precedes(store, b, a) /\ a # b
  BY <1>1 DEF Precedes, NoneTwice
<1>6. ASSUME NEW i \in DOMAIN shown
      PROVE  \E j \in DOMAIN items : items[j] = shown[i]
  <2>1. StoredIn(store, shown[i]) /\ to[shown[i].send] = active
    BY <1>1 DEF Shows, ShownIsStored
  <2>2. shown[i] \in Range(store) /\ shown[i] \in T
    BY <1>1, <2>1 DEF StoredIn, Range
  <2> QED  BY <1>2, <2>2 DEF Range
<1>7. ASSUME NEW i \in DOMAIN shown
      PROVE  position(i) \in DOMAIN items /\ items[position(i)] = shown[i]
  BY <1>6
<1> HIDE DEF position
<1>8. ASSUME NEW i \in DOMAIN shown, NEW j \in DOMAIN shown, i < j
      PROVE  position(i) < position(j)
  <2>1. to[shown[i].send] = active /\ to[shown[j].send] = active
    BY <1>1 DEF Shows, ShownIsStored
  <2>2. Precedes(store, shown[i], shown[j])
    BY <1>1, <1>8, <2>1 DEF Shows, ShownInOrder
  <2>3. PICK a, b : a = position(i) /\ b = position(j)
    OBVIOUS
  <2>4. a \in DOMAIN items /\ b \in DOMAIN items /\ items[a] = shown[i] /\ items[b] = shown[j]
    BY <1>7, <2>3
  <2>5. a # b /\ ~(b < a)
    BY <1>3, <1>5, <2>2, <2>4
  <2>6. a < b
    BY <1>4, <2>4, <2>5
  <2> QED  BY <2>3, <2>6
<1>9. ASSUME NEW j \in DOMAIN items
      PROVE  (\E i \in DOMAIN shown : shown[i] = items[j]) \/ told[items[j].send] = "failure"
  <2>1. items[j] \in Range(store) /\ items[j] \in T
    BY <1>2 DEF Range
  <2>2. StoredIn(store, items[j])
    BY <2>1 DEF StoredIn, Range
  <2>3. PICK m : m = items[j]
    OBVIOUS
  <2>4. m \in Utterance /\ to[m.send] = active /\ StoredIn(store, m)
    BY <2>1, <2>2, <2>3
  <2>5. (\E i \in DOMAIN shown : shown[i] = m) \/ told[m.send] = "failure"
    BY <2>4, RestIsComplete
  <2> QED  BY <2>3, <2>5
<1>10. items = MessagesOf(active)
  BY DEF items, MessagesOf
<1> QED
  BY <1>6, <1>8, <1>9, <1>10 DEF position

\* When the shell is at rest it shows the conversation that is open, its messages once each
\* and in order, all but those of sends that failed, unless one of the races that the shell
\* leaves open was lost - for any conversations, sends and failures.
THEOREM RestingViewIsAlwaysTrue == ChatSpec => []RestingViewIsTrue
<1>1. ChatInit => ChatInv /\ ViewInv
  BY InitChatInv, InitViewInv
<1>2. ChatInv /\ ViewInv /\ [ChatNext]_chatVars => (ChatInv /\ ViewInv)'
  BY NextChatInv, NextViewInv
<1>3. ChatInv /\ ViewInv => RestingViewIsTrue
  BY ViewInvIsTrue
<1> QED  BY <1>1, <1>2, <1>3, PTL DEF ChatSpec

-----------------------------------------------------------------------------
(* The shopping pages: the invariant *)

\* The list: its brief is that of the last search, and unless the last answer taken was
\* overtaken, a workbench shows what the last search found once that is answered.
FindingOK ==
  /\ bench \in Benches /\ brief \in Briefs
  /\ searches \in Seq([of : Briefs, answered : BOOLEAN]) /\ Len(searches) \in 1..MaxSearches
  /\ searching \in BOOLEAN /\ wrongList \in BOOLEAN
  /\ listed.of \in Briefs /\ listed.products \in Seq(Products)
  /\ brief = searches[Len(searches)].of
  /\ bench # "preview" /\ searches[Len(searches)].answered /\ ~wrongList => listed.of = brief

\* The picks and the comparison: a workbench has a card of each pick, and a comparison of
\* the picks, unless it was answered after they had changed.
PickingOK ==
  /\ bench \in {"preview", "v2", "v3"}
  /\ picked \in Seq(Products) /\ Len(picked) <= SelectionLimit /\ cards \subseteq Products
  /\ compares \in Seq([of : Seq(Products), answered : BOOLEAN]) /\ Len(compares) <= MaxCompares
  /\ comparing \in BOOLEAN /\ wrongBoard \in BOOLEAN
  /\ Cardinality(board) <= 1
  /\ \A b \in board : b.of \in Seq(Products) /\ b.columns \in Seq(Products) /\ Len(b.columns) <= SelectionLimit
  /\ bench # "preview" => wrongBoard \/ \A b \in board : b.of = picked
  /\ bench = "v2" => cards = Range(picked)
  /\ bench = "v3" => Range(picked) \subseteq cards

\* The advisor: of the answers only that to the question goes on, but for the ends of local
\* ones, and the text is that of the question unless one of those came late.
AdvisingOK ==
  /\ question \in 0..MaxQuestions /\ said \in 0..question
  /\ advice \in {"idle", "streaming", "done", "error"}
  /\ streams \in [1..MaxQuestions -> {"none", "asked", "open", "local", "last", "over"}]
  /\ late \in BOOLEAN
  /\ \A n \in 1..MaxQuestions : /\ n > question => streams[n] = "none"
                                /\ n # question => streams[n] \in {"none", "last", "over"}
  /\ ~late => said \in {0, question}

BenchInv == FindingOK /\ PickingOK /\ AdvisingOK

\* The invariant holds at the start.
LEMMA InitBenchInv == BenchInit => BenchInv
<1> SUFFICES ASSUME BenchInit PROVE BenchInv
  OBVIOUS
<1>1. FindingOK
  <2> DEFINE first == [of |-> FirstBrief, answered |-> FALSE]
  <2>1. first \in [of : Briefs, answered : BOOLEAN] /\ first.of = FirstBrief /\ first.answered = FALSE
    BY BenchAssumption
  <2>2. searches = <<first>>
    BY DEF BenchInit
  <2> HIDE DEF first
  <2>3. /\ searches \in Seq([of : Briefs, answered : BOOLEAN]) /\ Len(searches) = 1
        /\ searches[1] = first
    BY <2>1, <2>2
  <2>4. 1 \in 1..MaxSearches
    BY BenchAssumption
  <2>5. bench \in Benches /\ brief = FirstBrief /\ searching = TRUE /\ wrongList = FALSE
        /\ listed = [of |-> FirstBrief, products |-> <<>>]
    BY DEF BenchInit
  <2>6. listed.of = FirstBrief /\ listed.products = <<>>
    BY <2>5
  <2>7. <<>> \in Seq(Products) /\ FirstBrief \in Briefs
    BY BenchAssumption
  <2>8. listed.of \in Briefs /\ listed.products \in Seq(Products) /\ brief \in Briefs
    BY <2>5, <2>6, <2>7
  <2>9. brief = searches[Len(searches)].of /\ listed.of = brief
    BY <2>1, <2>3, <2>5, <2>6
  <2> QED  BY <2>3, <2>4, <2>5, <2>8, <2>9 DEF FindingOK
<1>2. PickingOK
  <2>1. Range(<<>>) = {} /\ Cardinality({}) = 0 /\ Len(<<>>) = 0
    BY FS_EmptySet DEF Range
  <2>2. /\ picked = <<>> /\ cards = {} /\ compares = <<>> /\ comparing = FALSE /\ board = {}
        /\ wrongBoard = FALSE
    BY DEF BenchInit, NoBoard
  <2>3. 0 <= SelectionLimit /\ 0 <= MaxCompares
    BY BenchAssumption
  <2>4. picked \in Seq(Products) /\ compares \in Seq([of : Seq(Products), answered : BOOLEAN])
    BY <2>2
  <2>5. Len(picked) <= SelectionLimit /\ Len(compares) <= MaxCompares /\ cards \subseteq Products
    BY <2>1, <2>2, <2>3
  <2>6. Cardinality(board) <= 1 /\ \A b \in board : FALSE
    BY <2>1, <2>2
  <2>7. cards = Range(picked)
    BY <2>1, <2>2
  <2>8. comparing \in BOOLEAN /\ wrongBoard \in BOOLEAN
    BY <2>2
  <2>9. bench \in {"preview", "v2", "v3"}
    <3>1. bench \in Benches
      BY DEF BenchInit
    <3> QED  BY <3>1, BenchAssumption
  <2> QED  BY <2>4, <2>5, <2>6, <2>7, <2>8, <2>9 DEF PickingOK
<1>3. AdvisingOK
  <2>1. /\ question = 0 /\ said = 0 /\ advice = "idle" /\ streams = [n \in 1..MaxQuestions |-> "none"]
        /\ late = FALSE
    BY DEF BenchInit
  <2>2. 0 \in 0..MaxQuestions
    BY BenchAssumption
  <2>3. /\ streams \in [1..MaxQuestions -> {"none", "asked", "open", "local", "last", "over"}]
        /\ \A n \in 1..MaxQuestions : streams[n] = "none"
    BY <2>1
  <2>4. question \in 0..MaxQuestions /\ said \in 0..question /\ said \in {0, question}
    BY <2>1, <2>2
  <2>5. advice \in {"idle", "streaming", "done", "error"} /\ late \in BOOLEAN
    BY <2>1
  <2> QED  BY <2>3, <2>4, <2>5 DEF AdvisingOK
<1> QED  BY <1>1, <1>2, <1>3 DEF BenchInv

-----------------------------------------------------------------------------
(* The shopping pages: searching *)

\* A search begins: it is the last one, and of the brief.
LEMMA SearchBegins ==
  ASSUME FindingOK, NEW q \in Briefs, Len(searches) < MaxSearches,
         brief' = q, searching' = TRUE, searches' = Append(searches, [of |-> q, answered |-> FALSE]),
         UNCHANGED <<bench, listed, wrongList>>
  PROVE  FindingOK'
<1> DEFINE new == [of |-> q, answered |-> FALSE]
           Search == [of : Briefs, answered : BOOLEAN]
<1>1. new \in Search /\ new.of = q /\ new.answered = FALSE
  OBVIOUS
<1>2. searches \in Seq(Search) /\ searches' = Append(searches, new) /\ Len(searches) \in Nat
  BY DEF FindingOK
<1> HIDE DEF new
<1>3. /\ searches' \in Seq(Search) /\ Len(searches') = Len(searches) + 1
      /\ searches'[Len(searches) + 1] = new
  BY <1>1, <1>2, AppendProperties
<1>4. Len(searches') \in 1..MaxSearches /\ searches'[Len(searches')] = new
  BY <1>2, <1>3, BenchAssumption DEF FindingOK
<1> QED  BY <1>1, <1>3, <1>4 DEF FindingOK

\* A search ends, and its list is shown.
LEMMA SearchEnds ==
  ASSUME FindingOK, NEW n \in DOMAIN searches, ~searches[n].answered, EndSearch(n),
         UNCHANGED <<bench, brief>>,
         \/ bench = "preview" /\ UNCHANGED <<listed, wrongList>>
         \/ \E products \in Seq(Products) : List(n, products)
  PROVE  FindingOK'
<1> DEFINE Search == [of : Briefs, answered : BOOLEAN]
           new == [searches[n] EXCEPT !.answered = TRUE]
<1>1. searches \in Seq(Search) /\ Len(searches) \in Nat /\ DOMAIN searches = 1..Len(searches)
      /\ Len(searches) \in DOMAIN searches
  BY BenchAssumption DEF FindingOK
<1>2. new \in Search /\ new.of = searches[n].of /\ new.answered = TRUE /\ searches[n].of \in Briefs
  <2>1. searches[n] \in Search
    BY <1>1, ElementOfSeq
  <2> QED  BY <2>1
<1>3. searches' = [searches EXCEPT ![n] = new] /\ searching' = FALSE
  BY DEF EndSearch
<1> HIDE DEF new
<1>4. /\ searches' \in Seq(Search) /\ Len(searches') = Len(searches)
      /\ \A j \in 1..Len(searches) : searches'[j] = IF j = n THEN new ELSE searches[j]
  BY <1>1, <1>2, <1>3, ExceptSeq
<1>5. searches'[Len(searches')].of = searches[Len(searches)].of
  BY <1>1, <1>2, <1>4
<1>6. CASE bench = "preview" /\ UNCHANGED <<listed, wrongList>>
  BY <1>3, <1>4, <1>5, <1>6 DEF FindingOK
<1>7. CASE \E products \in Seq(Products) : List(n, products)
  <2>1. PICK products \in Seq(Products) : List(n, products)
    BY <1>7
  <2>2. listed' = [of |-> searches[n].of, products |-> products]
        /\ wrongList' = (\E m \in DOMAIN searches : m > n /\ searches[m].answered)
    BY <2>1 DEF List
  <2>3. listed'.of = searches[n].of /\ listed'.products = products
    BY <2>2
  <2>4. wrongList' \in BOOLEAN
    BY <2>2
  <2>5. searches'[Len(searches')].answered /\ ~wrongList' => listed'.of = brief
    <3>1. CASE n = Len(searches)
      BY <2>3, <3>1 DEF FindingOK
    <3>2. CASE n # Len(searches)
      <4>1. Len(searches) > n
        BY <1>1, <3>2
      <4>2. searches'[Len(searches')] = searches[Len(searches)]
        BY <1>1, <1>4, <3>2
      <4> QED  BY <1>1, <2>2, <4>1, <4>2
    <3> QED  BY <3>1, <3>2
  <2> QED  BY <1>2, <1>3, <1>4, <1>5, <2>1, <2>3, <2>4, <2>5 DEF FindingOK
<1> QED  BY <1>6, <1>7

-----------------------------------------------------------------------------
(* The shopping pages: the advisor *)

\* What the aborted answers leave: none goes on, but for the ends of local ones.
LEMMA AbortedLeaves ==
  ASSUME AdvisingOK
  PROVE  /\ Aborted \in [1..MaxQuestions -> {"none", "last", "over"}]
         /\ \A n \in 1..MaxQuestions : n > question => Aborted[n] = "none"
BY DEF AdvisingOK, Aborted

\* A question is asked, and replaces the one before.
LEMMA AskStep ==
  ASSUME AdvisingOK, askAdvisor
  PROVE  AdvisingOK'
<1>1. /\ question < MaxQuestions /\ question' = question + 1 /\ said' = 0 /\ advice' = "streaming"
      /\ streams' = [Aborted EXCEPT ![question + 1] = "asked"] /\ late' = late
  BY DEF askAdvisor
<1>2. question' \in 0..MaxQuestions /\ question' \in 1..MaxQuestions /\ question \in Nat
  BY <1>1, BenchAssumption DEF AdvisingOK
<1>3. /\ Aborted \in [1..MaxQuestions -> {"none", "last", "over"}]
      /\ \A n \in 1..MaxQuestions : n > question => Aborted[n] = "none"
  BY AbortedLeaves
<1> HIDE DEF Aborted
<1>4. /\ streams' \in [1..MaxQuestions -> {"none", "asked", "open", "local", "last", "over"}]
      /\ \A n \in 1..MaxQuestions : n # question' => streams'[n] = Aborted[n]
  BY <1>1, <1>2, <1>3
<1>5. \A n \in 1..MaxQuestions : n > question' => n > question /\ n # question'
  BY <1>1, <1>2
<1>6. \A n \in 1..MaxQuestions : /\ n > question' => streams'[n] = "none"
                                 /\ n # question' => streams'[n] \in {"none", "last", "over"}
  BY <1>3, <1>4, <1>5
<1>7. said' \in 0..question' /\ said' \in {0, question'}
  BY <1>1, <1>2
<1>8. late' \in BOOLEAN
  BY <1>1 DEF AdvisingOK
<1> QED  BY <1>1, <1>2, <1>4, <1>6, <1>7, <1>8 DEF AdvisingOK

\* A piece of an answer, or its end: the text becomes that of its question.
LEMMA AnswerStep ==
  ASSUME AdvisingOK, NEW n \in 1..MaxQuestions, UNCHANGED question,
         NEW place \in {"open", "local", "last", "over"}, streams' = [streams EXCEPT ![n] = place],
         streams[n] \in {"asked", "open", "local", "last"}, streams[n] = "last" => place = "over",
         Says(n) \/ UNCHANGED <<said, late>>,
         advice' \in {"idle", "streaming", "done", "error"}
  PROVE  AdvisingOK'
<1>1. question \in Nat /\ n \in Nat /\ n <= question /\ n >= 1
  BY BenchAssumption DEF AdvisingOK
<1>2. /\ streams' \in [1..MaxQuestions -> {"none", "asked", "open", "local", "last", "over"}]
      /\ streams'[n] = place /\ \A m \in 1..MaxQuestions : m # n => streams'[m] = streams[m]
  BY DEF AdvisingOK
<1>3. n # question => streams[n] = "last" /\ place = "over"
  BY DEF AdvisingOK
<1>4. \A m \in 1..MaxQuestions : /\ m > question => streams'[m] = "none"
                                 /\ m # question => streams'[m] \in {"none", "last", "over"}
  BY <1>1, <1>2, <1>3 DEF AdvisingOK
<1>5. said' \in 0..question /\ (~late' => said' \in {0, question}) /\ late' \in BOOLEAN
  <2>1. CASE Says(n)
    <3>1. said' = n /\ late' = (late \/ (streams[n] = "last" /\ n # question))
      BY <2>1 DEF Says
    <3>2. late' \in BOOLEAN
      BY <3>1 DEF AdvisingOK
    <3>3. ~late' => n = question
      BY <1>3, <3>1
    <3> QED  BY <1>1, <3>1, <3>2, <3>3
  <2>2. CASE UNCHANGED <<said, late>>
    BY <2>2 DEF AdvisingOK
  <2> QED  BY <2>1, <2>2
<1> QED  BY <1>2, <1>4, <1>5 DEF AdvisingOK

\* The steps of an answer.
LEMMA AdvisorStepOK ==
  ASSUME AdvisingOK, NEW n \in 1..MaxQuestions, AdvisorStep(n)
  PROVE  AdvisingOK'
<1>1. advice \in {"idle", "streaming", "done", "error"} /\ streams[n] \in {"none", "asked", "open", "local", "last", "over"}
  BY DEF AdvisingOK
<1>2. CASE StreamOpens(n)
  BY <1>1, <1>2, AnswerStep DEF StreamOpens, Becomes
<1>3. CASE StreamRefused(n)
  <2>1. PICK place \in {"local", "last", "over"} : streams' = [streams EXCEPT ![n] = place]
    BY <1>3 DEF StreamRefused, Becomes
  <2>2. /\ streams[n] = "asked" /\ question' = question /\ advice' \in {"idle", "streaming", "done", "error"}
        /\ Says(n) \/ UNCHANGED <<said, late>>
    BY <1>1, <1>3 DEF StreamRefused
  <2> QED  BY <2>1, <2>2, AnswerStep
<1>4. CASE DeltaArrives(n)
  <2>1. streams[n] = "open" /\ question' = question /\ advice' = advice /\ Says(n) /\ streams' = streams
    BY <1>4 DEF DeltaArrives
  <2>2. streams' = [streams EXCEPT ![n] = "open"]
    BY <2>1 DEF AdvisingOK
  <2> QED  BY <1>1, <2>1, <2>2, AnswerStep
<1>5. CASE LastPiece(n)
  BY <1>1, <1>5, AnswerStep DEF LastPiece, Becomes
<1>6. CASE DoneArrives(n)
  BY <1>1, <1>6, AnswerStep DEF DoneArrives, Becomes
<1>7. CASE StreamBreaks(n)
  BY <1>1, <1>7, AnswerStep DEF StreamBreaks, Becomes
<1> QED  BY <1>2, <1>3, <1>4, <1>5, <1>6, <1>7 DEF AdvisorStep

\* The advisor is cancelled.
LEMMA CancelStep ==
  ASSUME AdvisingOK, cancelAdvisor
  PROVE  AdvisingOK'
<1>1. /\ streams' = Aborted /\ advice' = "done" /\ UNCHANGED <<question, said, late>>
  BY DEF cancelAdvisor
<1> QED  BY <1>1, AbortedLeaves DEF AdvisingOK

-----------------------------------------------------------------------------
(* The shopping pages: picking and comparing *)

\* A product is picked, or put back.
LEMMA ToggleStep ==
  ASSUME PickingOK, NEW p \in Products, TogglePick(p)
  PROVE  PickingOK'
<1>1. /\ bench' = bench /\ UNCHANGED <<compares, comparing>> /\ bench # "v3"
      /\ IF bench = "v2" THEN board' = NoBoard /\ wrongBoard' = FALSE ELSE UNCHANGED <<board, wrongBoard>>
  BY DEF TogglePick
<1>2. /\ picked' \in Seq(Products) /\ Len(picked') <= SelectionLimit /\ cards' \subseteq Products
      /\ bench = "v2" => cards' = Range(picked')
  <2>1. picked \in Seq(Products) /\ Range(picked) \subseteq Products /\ Len(picked) \in Nat /\ SelectionLimit \in Nat
    BY RangeOfSeq, BenchAssumption DEF PickingOK
  <2>2. CASE /\ p \in Range(picked) /\ picked' = SelectIn(picked, Products \ {p}) /\ cards' = cards \ {p}
    <3>1. /\ picked' \in Seq(Products) /\ Len(picked') <= Len(picked)
          /\ Range(picked') = Range(picked) \cap (Products \ {p})
      BY <2>1, <2>2, SelectInType
    <3>2. Len(picked') \in Nat
      BY <3>1
    <3>3. Len(picked') <= SelectionLimit
      BY <2>1, <3>1, <3>2 DEF PickingOK
    <3>4. Range(picked') = Range(picked) \ {p}
      BY <2>1, <3>1
    <3> QED  BY <2>2, <3>1, <3>3, <3>4 DEF PickingOK
  <2>3. CASE /\ p \notin Range(picked) /\ HasRoom
             /\ picked' = Append(picked, p) /\ cards' = cards \cup (IF bench = "v2" THEN {p} ELSE {})
    <3>1. picked' \in Seq(Products) /\ Len(picked') = Len(picked) + 1
      BY <2>1, <2>3, AppendProperties
    <3>2. Range(picked') = Range(picked) \cup {p}
      BY <2>1, <2>3, RangeOfAppend
    <3>3. Len(picked') <= SelectionLimit
      BY <2>1, <2>3, <3>1 DEF HasRoom
    <3> QED  BY <2>3, <3>1, <3>2, <3>3 DEF PickingOK
  <2> QED  BY <2>2, <2>3 DEF TogglePick
<1>3. /\ wrongBoard' \in BOOLEAN /\ (board' = {} \/ board' = board)
      /\ bench = "v2" => board' = {}
  BY <1>1 DEF PickingOK, NoBoard
<1>4. bench # "preview" => bench = "v2"
  BY <1>1 DEF PickingOK
<1>5. Cardinality(board') <= 1 /\ \A b \in board' : b \in board
  <2>1. CASE board' = {}
    BY <2>1, FS_EmptySet
  <2>2. CASE board' = board
    BY <2>2 DEF PickingOK
  <2> QED  BY <1>3, <2>1, <2>2
<1> QED
  BY <1>1, <1>2, <1>3, <1>4, <1>5 DEF PickingOK

\* The picks and the comparison are dropped.
LEMMA ClearStep ==
  ASSUME PickingOK, UNCHANGED bench, picked' = <<>>, board' = NoBoard, wrongBoard' = FALSE,
         UNCHANGED <<compares, comparing>>,
         \/ cards' = {}
         \/ cards' = cards /\ bench = "v3"
  PROVE  PickingOK'
<1>1. picked' \in Seq(Products) /\ Len(picked') = 0 /\ Range(picked') = {} /\ SelectionLimit \in Nat
  BY BenchAssumption DEF Range
<1>2. board' = {} /\ Cardinality(board') = 0 /\ wrongBoard' \in BOOLEAN
  BY FS_EmptySet DEF NoBoard
<1>3. Len(picked') <= SelectionLimit /\ cards' \subseteq Products
  BY <1>1 DEF PickingOK
<1>4. (bench = "v2" => cards' = Range(picked')) /\ Range(picked') \subseteq cards'
  BY <1>1
<1> QED  BY <1>1, <1>2, <1>3, <1>4 DEF PickingOK

\* The comparisons begun are of products.
LEMMA CompareBegins ==
  ASSUME PickingOK, NEW ids \in Seq(Products), Compare(ids)
  PROVE  /\ compares' \in Seq([of : Seq(Products), answered : BOOLEAN]) /\ Len(compares') <= MaxCompares
         /\ comparing' = TRUE
<1> DEFINE new == [of |-> ids, answered |-> FALSE]
           All == [of : Seq(Products), answered : BOOLEAN]
<1>1. new \in All
  OBVIOUS
<1>2. compares' = Append(compares, new) /\ compares \in Seq(All) /\ Len(compares) \in Nat
      /\ Len(compares) < MaxCompares /\ comparing' = TRUE
  BY DEF Compare, PickingOK
<1> HIDE DEF new, All
<1>3. compares' \in Seq(All) /\ Len(compares') = Len(compares) + 1
  BY <1>1, <1>2, AppendProperties
<1>4. Len(compares') <= MaxCompares
  BY <1>2, <1>3, BenchAssumption
<1> QED  BY <1>2, <1>3, <1>4 DEF All

\* The picks of the tray are compared.
LEMMA ComparePickedStep ==
  ASSUME PickingOK, ComparePicked
  PROVE  PickingOK'
<1>1. Compare(picked) /\ UNCHANGED <<bench, picked, cards, board, wrongBoard>> /\ picked \in Seq(Products)
  BY DEF ComparePicked, PickingOK
<1>2. /\ compares' \in Seq([of : Seq(Products), answered : BOOLEAN]) /\ Len(compares') <= MaxCompares
      /\ comparing' = TRUE
  BY <1>1, CompareBegins
<1> QED  BY <1>1, <1>2 DEF PickingOK

\* The pair that v3 compares: the winner and another product, or the winner alone.
Pair(p) == IF p = listed.products[1] THEN <<listed.products[1]>> ELSE <<listed.products[1], p>>

\* It is a sequence of at most two products.
LEMMA PairType ==
  ASSUME FindingOK, NEW p \in Products, listed.products # <<>>
  PROVE  Pair(p) \in Seq(Products) /\ Len(Pair(p)) <= 2 /\ Range(Pair(p)) \subseteq Products
<1> DEFINE w == listed.products[1]
<1>1. w \in Products
  BY DEF FindingOK
<1> HIDE DEF w
<1>2. /\ <<w>> \in Seq(Products) /\ <<w, p>> \in Seq(Products)
      /\ Len(<<w>>) = 1 /\ Len(<<w, p>>) = 2
  BY <1>1
<1>3. Pair(p) = <<w>> \/ Pair(p) = <<w, p>>
  BY DEF Pair, w
<1>4. Pair(p) \in Seq(Products) /\ Len(Pair(p)) <= 2
  <2>1. CASE Pair(p) = <<w>>
    BY <1>2, <2>1
  <2>2. CASE Pair(p) = <<w, p>>
    BY <1>2, <2>2
  <2> QED  BY <1>3, <2>1, <2>2
<1> QED  BY <1>4, RangeOfSeq

\* v3 compares the winner with a product.
LEMMA CompareWithStep ==
  ASSUME FindingOK, PickingOK, NEW p \in Products, CompareWith(p)
  PROVE  PickingOK'
<1> DEFINE ids == Pair(p)
<1>1. /\ bench = "v3" /\ bench' = bench /\ listed.products # <<>>
      /\ picked' = ids /\ cards' = cards \cup Range(ids)
      /\ IF Len(ids) < 2
           THEN board' = NoBoard /\ wrongBoard' = FALSE /\ UNCHANGED <<compares, comparing>>
           ELSE Compare(ids) /\ UNCHANGED board /\ wrongBoard' = (board # NoBoard)
  BY DEF CompareWith, Pair
<1>2. ids \in Seq(Products) /\ Len(ids) <= 2 /\ Range(ids) \subseteq Products /\ Len(ids) \in Nat
  BY <1>1, PairType
<1> HIDE DEF ids
<1>3. picked' \in Seq(Products) /\ Len(picked') <= SelectionLimit /\ cards' \subseteq Products
      /\ Range(picked') \subseteq cards'
  BY <1>1, <1>2, BenchAssumption DEF PickingOK
<1>4. CASE Len(ids) < 2
  <2>1. board' = {} /\ Cardinality(board') = 0 /\ wrongBoard' = FALSE /\ UNCHANGED <<compares, comparing>>
    BY <1>1, <1>4, FS_EmptySet DEF NoBoard
  <2>2. Cardinality(board') <= 1 /\ \A b \in board' : FALSE
    BY <2>1
  <2>3. wrongBoard' \in BOOLEAN
    BY <2>1
  <2> QED  BY <1>1, <1>3, <2>1, <2>2, <2>3 DEF PickingOK
<1>5. CASE ~(Len(ids) < 2)
  <2>1. Compare(ids) /\ board' = board /\ wrongBoard' = (board # {})
    BY <1>1, <1>5 DEF NoBoard
  <2>2. /\ compares' \in Seq([of : Seq(Products), answered : BOOLEAN]) /\ Len(compares') <= MaxCompares
        /\ comparing' = TRUE
    BY <1>2, <2>1, CompareBegins
  <2>3. wrongBoard' \in BOOLEAN /\ (wrongBoard' \/ \A b \in board' : FALSE)
    BY <2>1
  <2> QED  BY <1>1, <1>3, <2>1, <2>2, <2>3 DEF PickingOK
<1> QED  BY <1>4, <1>5

\* The columns of a comparison are products, and not too many.
LEMMA ColumnsType ==
  ASSUME NEW source, NEW ids \in Seq(Products)
  PROVE  Columns(source, ids) \in Seq(Products) /\ Len(Columns(source, ids)) <= SelectionLimit
<1> DEFINE known == SelectIn(ids, Catalogue[source])
           n == IF Len(known) < SelectionLimit THEN Len(known) ELSE SelectionLimit
<1>1. known \in Seq(Products) /\ SelectionLimit \in Nat
  BY SelectInType, BenchAssumption
<1>2. Columns(source, ids) = SubSeq(known, 1, n)
  BY DEF Columns
<1> HIDE DEF known
<1>3. n \in Int /\ n <= SelectionLimit /\ n >= 0 /\ n <= Len(known)
  BY <1>1
<1>4. \A i \in 1..n : known[i] \in Products
  BY <1>1, <1>3, ElementOfSeq
<1> HIDE DEF n
<1>5. /\ SubSeq(known, 1, n) \in Seq(Products)
      /\ Len(SubSeq(known, 1, n)) = IF 1 <= n THEN n - 1 + 1 ELSE 0
  BY <1>3, <1>4, SubSeqProperties
<1>6. Len(SubSeq(known, 1, n)) <= SelectionLimit
  BY <1>1, <1>3, <1>5
<1> QED  BY <1>2, <1>5, <1>6

\* A comparison is answered, and its table put up or not.
LEMMA CompareEnds ==
  ASSUME PickingOK, NEW n \in DOMAIN compares, EndCompare(n), UNCHANGED <<bench, picked, cards>>,
         (\E source \in Sources : PutUp(n, source)) \/ UNCHANGED <<board, wrongBoard>>
  PROVE  PickingOK'
<1> DEFINE All == [of : Seq(Products), answered : BOOLEAN]
           new == [compares[n] EXCEPT !.answered = TRUE]
<1>1. compares \in Seq(All) /\ Len(compares) \in Nat /\ DOMAIN compares = 1..Len(compares)
  BY DEF PickingOK
<1>2. compares[n] \in All /\ compares[n].of \in Seq(Products) /\ new \in All
  <2>1. compares[n] \in All
    BY <1>1, ElementOfSeq
  <2> QED  BY <2>1
<1>3. compares' = [compares EXCEPT ![n] = new] /\ comparing' = FALSE
  BY DEF EndCompare
<1> HIDE DEF new, All
<1>4. compares' \in Seq(All) /\ Len(compares') = Len(compares)
  BY <1>1, <1>2, <1>3, ExceptSeq
<1>5. CASE \E source \in Sources : PutUp(n, source)
  <2>1. PICK source \in Sources : PutUp(n, source)
    BY <1>5
  <2> DEFINE ids == compares[n].of
             b == [of |-> ids, columns |-> Columns(source, ids)]
  <2>2. board' = {b} /\ wrongBoard' = (ids # picked)
    BY <2>1 DEF PutUp
  <2>3. Columns(source, ids) \in Seq(Products) /\ Len(Columns(source, ids)) <= SelectionLimit
    BY <1>2, ColumnsType
  <2>4. b.of = ids /\ b.columns = Columns(source, ids)
    OBVIOUS
  <2> HIDE DEF ids, b
  <2>5. Cardinality(board') = 1
    BY <2>2, FS_Singleton
  <2>6. ids \in Seq(Products)
    BY <1>2 DEF ids
  <2>7. \A c \in board' : c.of \in Seq(Products) /\ c.columns \in Seq(Products) /\ Len(c.columns) <= SelectionLimit
    BY <2>2, <2>3, <2>4, <2>6
  <2>8. wrongBoard' \in BOOLEAN /\ (wrongBoard' \/ \A c \in board' : c.of = picked)
    BY <2>2, <2>4
  <2>9. Cardinality(board') <= 1
    BY <2>5
  <2>11. comparing' \in BOOLEAN
    BY <1>3
  <2>10. /\ compares' \in Seq([of : Seq(Products), answered : BOOLEAN]) /\ Len(compares') <= MaxCompares
    BY <1>4 DEF PickingOK, All
  <2> QED  BY <2>7, <2>8, <2>9, <2>10, <2>11 DEF PickingOK
<1>6. CASE UNCHANGED <<board, wrongBoard>>
  BY <1>3, <1>4, <1>6 DEF PickingOK, All
<1> QED  BY <1>5, <1>6

\* v3 remembers the cards it has shown.
LEMMA RememberStep ==
  ASSUME PickingOK, UNCHANGED <<bench, picked, compares, comparing, board, wrongBoard>>,
         cards' = cards \/ \E products \in Seq(Products) : Remember(products)
  PROVE  PickingOK'
<1>1. cards' = cards \/ (bench = "v3" /\ cards \subseteq cards' /\ cards' \subseteq Products)
  BY RangeOfSeq DEF Remember, PickingOK
<1> QED  BY <1>1 DEF PickingOK

-----------------------------------------------------------------------------
(* The shopping pages: every step *)

\* No step of a shopping page breaks the invariant.
LEMMA NextBenchInv == BenchInv /\ [BenchNext]_benchVars => BenchInv'
<1> SUFFICES ASSUME BenchInv, [BenchNext]_benchVars PROVE BenchInv'
  OBVIOUS
<1>1. FindingOK /\ PickingOK /\ AdvisingOK
  BY DEF BenchInv
<1>2. UNCHANGED <<bench, finding>> => FindingOK'
  BY <1>1 DEF FindingOK, finding
<1>3. UNCHANGED <<bench, picking>> => PickingOK'
  BY <1>1 DEF PickingOK, picking
<1>4. UNCHANGED advising => AdvisingOK'
  BY <1>1 DEF AdvisingOK, advising
<1>5. ASSUME NEW q \in Briefs, ChangeBrief(q)
      PROVE  BenchInv'
  <2>1. Len(searches) < MaxSearches /\ runSearch(q) /\ UNCHANGED <<bench, advising>>
    BY <1>5 DEF ChangeBrief
  <2>2. FindingOK'
    BY <1>1, <2>1, SearchBegins DEF runSearch
  <2>3. PickingOK'
    <3>1. CASE bench = "v3"
      BY <1>1, <2>1, <3>1, ClearStep DEF runSearch
    <3>2. CASE bench # "v3"
      BY <1>3, <2>1, <3>2 DEF runSearch
    <3> QED  BY <3>1, <3>2
  <2> QED  BY <1>4, <2>1, <2>2, <2>3 DEF BenchInv
<1>6. ASSUME NEW q \in Briefs, PickTask(q)
      PROVE  BenchInv'
  <2>1. FindingOK'
    BY <1>1, <1>6, SearchBegins DEF PickTask
  <2>2. /\ board' = {} /\ wrongBoard' = FALSE
        /\ UNCHANGED <<bench, picked, cards, compares, comparing, advising>>
    BY <1>6 DEF PickTask, NoBoard
  <2>3. PickingOK'
    <3>1. Cardinality(board') <= 1 /\ \A b \in board' : FALSE
      BY <2>2, FS_EmptySet
    <3>2. wrongBoard' \in BOOLEAN
      BY <2>2
    <3> QED  BY <1>1, <2>2, <3>1, <3>2 DEF PickingOK
  <2> QED  BY <1>4, <2>1, <2>2, <2>3 DEF BenchInv
<1>7. ASSUME NEW n \in 1..MaxSearches, SearchStep(n)
      PROVE  BenchInv'
  <2>1. /\ n \in DOMAIN searches /\ ~searches[n].answered /\ EndSearch(n)
        /\ UNCHANGED <<bench, brief, picked, compares, comparing, board, wrongBoard, advising>>
    BY <1>7 DEF SearchStep, SearchFound, SearchFailed
  <2>2. \A source \in Sources : Ranking[source][searches[n].of] \in Seq(Products)
    <3>1. searches[n] \in [of : Briefs, answered : BOOLEAN]
      <4>1. searches \in Seq([of : Briefs, answered : BOOLEAN]) /\ n \in 1..Len(searches)
        BY <1>1, <2>1 DEF FindingOK
      <4> QED  BY <4>1, ElementOfSeq
    <3> QED  BY <3>1, BenchAssumption
  <2>3. <<>> \in Seq(Products) /\ "backend" \in Sources /\ "local" \in Sources
    BY DEF Sources
  <2>4. /\ \/ bench = "preview" /\ UNCHANGED <<listed, wrongList>>
           \/ \E products \in Seq(Products) : List(n, products)
        /\ cards' = cards \/ \E products \in Seq(Products) : Remember(products)
    BY <1>7, <2>2, <2>3 DEF SearchStep, SearchFound, SearchFailed
  <2>5. FindingOK'
    BY <1>1, <2>1, <2>4, SearchEnds
  <2>6. PickingOK'
    BY <1>1, <2>1, <2>4, RememberStep
  <2> QED  BY <1>4, <2>1, <2>5, <2>6 DEF BenchInv
<1>8. ASSUME NEW p \in Products, TogglePick(p) \/ CompareWith(p)
      PROVE  BenchInv'
  <2>1. PickingOK'
    BY <1>1, <1>8, ToggleStep, CompareWithStep
  <2>2. UNCHANGED <<bench, finding, advising>>
    BY <1>8 DEF TogglePick, CompareWith
  <2> QED  BY <1>2, <1>4, <2>1, <2>2 DEF BenchInv
<1>9. ASSUME ClearPicks \/ ComparePicked
      PROVE  BenchInv'
  <2>1. PickingOK'
    BY <1>1, <1>9, ClearStep, ComparePickedStep DEF ClearPicks
  <2>2. UNCHANGED <<bench, finding, advising>>
    BY <1>9 DEF ClearPicks, ComparePicked
  <2> QED  BY <1>2, <1>4, <2>1, <2>2 DEF BenchInv
<1>10. ASSUME NEW n \in 1..MaxCompares, CompareStep(n)
       PROVE  BenchInv'
  <2>1. /\ n \in DOMAIN compares /\ EndCompare(n) /\ UNCHANGED <<bench, picked, cards, finding>>
        /\ PutUp(n, "backend") \/ PutUp(n, "local") \/ UNCHANGED <<board, wrongBoard>>
        /\ ThenAsk
    BY <1>10 DEF CompareStep, CompareFound, CompareFailed
  <2>2. (\E source \in Sources : PutUp(n, source)) \/ UNCHANGED <<board, wrongBoard>>
    BY <2>1 DEF Sources
  <2>3. PickingOK'
    BY <1>1, <2>1, <2>2, CompareEnds
  <2>4. AdvisingOK'
    BY <1>1, <1>4, <2>1, AskStep DEF ThenAsk
  <2> QED  BY <1>2, <2>1, <2>3, <2>4 DEF BenchInv
<1>11. ASSUME Consult \/ cancelAdvisor
       PROVE  BenchInv'
  <2>1. AdvisingOK'
    BY <1>1, <1>11, AskStep, CancelStep DEF Consult
  <2>2. UNCHANGED <<bench, finding, picking>>
    BY <1>11 DEF Consult, cancelAdvisor
  <2> QED  BY <1>2, <1>3, <2>1, <2>2 DEF BenchInv
<1>12. ASSUME NEW n \in 1..MaxQuestions, AdvisorStep(n)
       PROVE  BenchInv'
  <2>1. AdvisingOK'
    BY <1>1, <1>12, AdvisorStepOK
  <2>2. UNCHANGED <<bench, finding, picking>>
    BY <1>12 DEF AdvisorStep, StreamOpens, StreamRefused, DeltaArrives, LastPiece, DoneArrives, StreamBreaks
  <2> QED  BY <1>2, <1>3, <2>1, <2>2 DEF BenchInv
<1>13. CASE UNCHANGED benchVars
  BY <1>2, <1>3, <1>4, <1>13 DEF benchVars, BenchInv
<1> QED
  BY <1>5, <1>6, <1>7, <1>8, <1>9, <1>10, <1>11, <1>12, <1>13 DEF BenchNext

\* The invariant says what WorkbenchIsTrue and BenchTypeOK do.
LEMMA BenchInvIsTrue == BenchInv => WorkbenchIsTrue /\ BenchTypeOK
<1> SUFFICES ASSUME BenchInv PROVE WorkbenchIsTrue /\ BenchTypeOK
  OBVIOUS
<1>1. FindingOK /\ PickingOK /\ AdvisingOK
  BY DEF BenchInv
<1>2. Answered(searches) => searches[Len(searches)].answered
  BY <1>1 DEF FindingOK, Answered
<1>3. BoardIsOfSelection
  BY <1>1, <1>2 DEF BoardIsOfSelection, FindingOK, PickingOK
<1>4. AdvisorAnswersQuestion
  BY <1>1 DEF AdvisorAnswersQuestion, AdvisingOK
<1>5. BenchTypeOK
  BY <1>1 DEF BenchTypeOK, FindingOK, PickingOK, AdvisingOK
<1> QED  BY <1>3, <1>4, <1>5 DEF WorkbenchIsTrue

\* A workbench with nothing under way shows what it was asked for: the list of its brief,
\* the comparison of its picks, a card of each of them, and the text of its question - in
\* whichever order the searches, comparisons and answers end, for any catalogue.
THEOREM WorkbenchIsAlwaysTrue == BenchSpec => []WorkbenchIsTrue
<1>1. BenchInit => BenchInv
  BY InitBenchInv
<1>2. BenchInv /\ [BenchNext]_benchVars => BenchInv'
  BY NextBenchInv
<1>3. BenchInv => WorkbenchIsTrue
  BY BenchInvIsTrue
<1> QED  BY <1>1, <1>2, <1>3, PTL DEF BenchSpec

-----------------------------------------------------------------------------
(* The ingestion tasks: the invariant *)

\* A fetch may be made of a task the user was told of, or one from elsewhere.
Known(t) == creating[t] = "told" \/ t \in Foreign

\* The copies: never ahead of the tasks, and there for each task the user was told of.
CopiesOK ==
  \A t \in Tasks :
    /\ Rank[mirror[t]] <= Rank[remote[t]]
    /\ t \in Foreign => creating[t] = "idle"
    /\ t \notin Foreign /\ creating[t] \in {"idle", "asked"} => remote[t] = "none"
    /\ creating[t] = "answered" => remote[t] # "none"
    /\ creating[t] = "told" => IF InOlderService(t) THEN t \in madeUp \/ mirror[t] # "none" ELSE remote[t] # "none"
    /\ t \in uploads => via = "python" /\ creating[t] # "idle"

\* The fetches: what they found is not ahead of the task, what they got is between what they
\* found and the task, and comes in the order of the answers; unless two of them were stored
\* in another order, the copy is not ahead of any answer.
FetchesOK ==
  /\ \A i \in DOMAIN asked : Known(asked[i].of) /\ Rank[asked[i].found] <= Rank[remote[asked[i].of]]
  /\ \A i \in DOMAIN fetched :
       /\ Known(fetched[i].of)
       /\ Rank[fetched[i].found] <= Rank[fetched[i].got]
       /\ Rank[fetched[i].got] <= Rank[remote[fetched[i].of]]
       /\ ~overlapped => Rank[mirror[fetched[i].of]] <= Rank[fetched[i].got]
  /\ \A i, j \in DOMAIN fetched :
       i < j /\ fetched[i].of = fetched[j].of => Rank[fetched[i].got] <= Rank[fetched[j].got]
  /\ stale = FALSE

MirrorInv == MirrorTypeOK /\ CopiesOK /\ FetchesOK

\* The ranks of the statuses.
LEMMA Ranks ==
  /\ TaskStatus = {"none", "pending", "running", "succeeded", "failed"}
  /\ \A s \in TaskStatus : Rank[s] \in 0..3 /\ (Rank[s] = 0 <=> s = "none")
  /\ Rank["none"] = 0 /\ Rank["pending"] = 1 /\ Rank["succeeded"] = 3 /\ Rank["failed"] = 3
BY DEF TaskStatus, Rank

\* The bounds are numbers, and the page may ask for its first list.
LEMMA MirrorConstants ==
  /\ MaxFetches \in Nat /\ MaxFailures \in Nat
  /\ \A b \in {"python", "go"} : MaxLists[b] \in Nat /\ 1 <= MaxLists[b]
BY MirrorBounds

\* The invariant holds at the start.
LEMMA InitMirrorInv == MirrorInit => MirrorInv
<1> SUFFICES ASSUME MirrorInit PROVE MirrorInv
  OBVIOUS
<1>1. Nothing \in Rows /\ \A t \in Tasks : Nothing[t] = "none"
  BY Ranks DEF Nothing, Rows
<1>2. /\ via \in {"python", "go"} /\ fallback \in BOOLEAN /\ uploads = {}
      /\ remote = Nothing /\ mirror = Nothing /\ madeUp = {}
      /\ creating = [t \in Tasks |-> "idle"] /\ asked = <<>> /\ fetched = <<>> /\ fetchCount = 0
      /\ overlapped = FALSE /\ stale = FALSE /\ rows = Nothing /\ awaited = 1 /\ arriving = <<>> /\ failures = 0
  BY DEF MirrorInit
<1> HIDE DEF Nothing
<1>3. MirrorTypeOK
  <2>1. asked \in Seq([of : Tasks, found : TaskStatus]) /\ arriving \in Seq(Rows)
        /\ fetched \in Seq([of : Tasks, found : TaskStatus, got : TaskStatus])
    BY <1>2
  <2>2. awaited \in Nat /\ awaited + Len(arriving) <= MaxLists[via]
    BY <1>2, MirrorConstants
  <2>3. creating \in [Tasks -> {"idle", "asked", "answered", "failed", "told", "error"}]
    BY <1>2
  <2>4. fetchCount \in 0..MaxFetches /\ failures \in 0..MaxFailures
    BY <1>2, MirrorConstants
  <2>5. overlapped \in BOOLEAN /\ stale \in BOOLEAN
    BY <1>2
  <2> QED  BY <1>1, <1>2, <2>1, <2>2, <2>3, <2>4, <2>5 DEF MirrorTypeOK
<1>4. CopiesOK
  BY <1>1, <1>2, Ranks DEF CopiesOK
<1>5. FetchesOK
  <2>1. DOMAIN asked = {} /\ DOMAIN fetched = {}
    BY <1>2
  <2> QED  BY <1>2, <2>1 DEF FetchesOK
<1> QED  BY <1>3, <1>4, <1>5 DEF MirrorInv

-----------------------------------------------------------------------------
(* The ingestion tasks: the backend *)

\* The types that steps of the backend, of a creation and of the page need.
LEMMA MirrorTypes ==
  ASSUME MirrorTypeOK
  PROVE  /\ \A t \in Tasks : /\ remote[t] \in TaskStatus /\ mirror[t] \in TaskStatus
                             /\ Rank[remote[t]] \in 0..3 /\ Rank[mirror[t]] \in 0..3
         /\ \A i \in DOMAIN asked : asked[i].of \in Tasks /\ asked[i].found \in TaskStatus
         /\ \A i \in DOMAIN fetched : /\ fetched[i].of \in Tasks /\ fetched[i].found \in TaskStatus
                                      /\ fetched[i].got \in TaskStatus
<1>1. \A t \in Tasks : remote[t] \in TaskStatus /\ mirror[t] \in TaskStatus
  BY DEF MirrorTypeOK, Rows
<1>2. \A t \in Tasks : Rank[remote[t]] \in 0..3 /\ Rank[mirror[t]] \in 0..3
  BY <1>1, Ranks
<1>3. \A i \in DOMAIN asked : asked[i] \in [of : Tasks, found : TaskStatus]
  <2>1. asked \in Seq([of : Tasks, found : TaskStatus])
    BY DEF MirrorTypeOK
  <2> QED  BY <2>1, Elements
<1>4. \A i \in DOMAIN fetched : fetched[i] \in [of : Tasks, found : TaskStatus, got : TaskStatus]
  <2>1. fetched \in Seq([of : Tasks, found : TaskStatus, got : TaskStatus])
    BY DEF MirrorTypeOK
  <2> QED  BY <2>1, Elements
<1> QED  BY <1>1, <1>2, <1>3, <1>4

\* Tasks only come further, and those the user was told of stay so: the fetches stay true.
LEMMA FetchesStay ==
  ASSUME MirrorTypeOK, FetchesOK,
         \A t \in Tasks : Rank[remote'[t]] \in 0..3 /\ Rank[remote[t]] <= Rank[remote'[t]],
         \A t \in Tasks : Known(t) => Known(t)' /\ mirror'[t] = mirror[t],
         UNCHANGED <<asked, fetched, overlapped, stale>>
  PROVE  FetchesOK'
<1>1. ASSUME NEW i \in DOMAIN asked
      PROVE  Known(asked[i].of)' /\ Rank[asked[i].found] <= Rank[remote'[asked[i].of]]
  <2>1. asked[i].of \in Tasks /\ Rank[asked[i].found] \in 0..3 /\ Rank[remote[asked[i].of]] \in 0..3
    BY MirrorTypes, Ranks
  <2>2. Known(asked[i].of) /\ Rank[asked[i].found] <= Rank[remote[asked[i].of]]
    BY DEF FetchesOK
  <2>3. Rank[remote'[asked[i].of]] \in 0..3 /\ Rank[remote[asked[i].of]] <= Rank[remote'[asked[i].of]]
    BY <2>1
  <2>4. Known(asked[i].of)'
    BY <2>1, <2>2 DEF Known
  <2> QED  BY <2>1, <2>2, <2>3, <2>4
<1>2. ASSUME NEW i \in DOMAIN fetched
      PROVE  /\ Known(fetched[i].of)' /\ Rank[fetched[i].found] <= Rank[fetched[i].got]
             /\ Rank[fetched[i].got] <= Rank[remote'[fetched[i].of]]
             /\ ~overlapped => Rank[mirror'[fetched[i].of]] <= Rank[fetched[i].got]
  <2>1. fetched[i].of \in Tasks /\ Rank[fetched[i].got] \in 0..3 /\ Rank[remote[fetched[i].of]] \in 0..3
    BY MirrorTypes, Ranks
  <2>2. /\ Known(fetched[i].of) /\ Rank[fetched[i].found] <= Rank[fetched[i].got]
        /\ Rank[fetched[i].got] <= Rank[remote[fetched[i].of]]
        /\ ~overlapped => Rank[mirror[fetched[i].of]] <= Rank[fetched[i].got]
    BY DEF FetchesOK
  <2>3. Rank[remote'[fetched[i].of]] \in 0..3 /\ Rank[remote[fetched[i].of]] <= Rank[remote'[fetched[i].of]]
    BY <2>1
  <2>4. Known(fetched[i].of)' /\ mirror'[fetched[i].of] = mirror[fetched[i].of]
    BY <2>1, <2>2 DEF Known
  <2> QED  BY <2>1, <2>2, <2>3, <2>4
<1> QED
  BY <1>1, <1>2 DEF FetchesOK, Known

\* A task of the backend goes on, comes into being, or is worked on to its end: none of
\* them goes back, and no creation is concerned that is not answered.
LEMMA BackendStep ==
  ASSUME MirrorInv, NEW new \in Rows, remote' = new,
         \A t \in Tasks : new[t] = remote[t] \/ (Rank[remote[t]] < Rank[new[t]] /\ (remote[t] # "none" \/ t \in Foreign)),
         UNCHANGED <<service, uploads, copies, creating, fetching>>, MirrorTypeOK'
  PROVE  MirrorInv'
<1>1. MirrorTypeOK /\ CopiesOK /\ FetchesOK
  BY DEF MirrorInv
<1>2. \A t \in Tasks : /\ new[t] \in TaskStatus /\ Rank[new[t]] \in 0..3 /\ Rank[remote[t]] \in 0..3
                       /\ Rank[mirror[t]] \in 0..3
  BY <1>1, MirrorTypes, Ranks DEF Rows
<1>3. \A t \in Tasks : /\ Rank[remote[t]] <= Rank[new[t]]
                       /\ remote[t] # "none" => new[t] # "none"
                       /\ remote[t] = "none" /\ t \notin Foreign => new[t] = "none"
  <2> TAKE t \in Tasks
  <2>1. CASE new[t] = remote[t]
    BY <1>2, <2>1
  <2>2. CASE Rank[remote[t]] < Rank[new[t]] /\ (remote[t] # "none" \/ t \in Foreign)
    <3>1. Rank[new[t]] # 0
      BY <1>2, <2>2
    <3> QED  BY <1>2, <2>2, <3>1, Ranks
  <2> QED  BY <2>1, <2>2
<1>4. CopiesOK'
  <2> SUFFICES ASSUME NEW t \in Tasks
               PROVE  /\ Rank[mirror[t]] <= Rank[new[t]]
                      /\ t \in Foreign => creating[t] = "idle"
                      /\ t \notin Foreign /\ creating[t] \in {"idle", "asked"} => new[t] = "none"
                      /\ creating[t] = "answered" => new[t] # "none"
                      /\ creating[t] = "told" => IF InOlderService(t) THEN t \in madeUp \/ mirror[t] # "none" ELSE new[t] # "none"
                      /\ t \in uploads => via = "python" /\ creating[t] # "idle"
    BY DEF CopiesOK, InOlderService, service, copies
  <2> QED
    BY <1>1, <1>2, <1>3 DEF CopiesOK
<1>5. FetchesOK'
  <2>1. \A t \in Tasks : Rank[remote'[t]] \in 0..3 /\ Rank[remote[t]] <= Rank[remote'[t]]
    BY <1>2, <1>3
  <2>2. \A t \in Tasks : Known(t) => Known(t)' /\ mirror'[t] = mirror[t]
    BY DEF Known, copies
  <2>3. UNCHANGED <<asked, fetched, overlapped, stale>>
    BY DEF fetching
  <2> QED  BY <1>1, <2>1, <2>2, <2>3, FetchesStay
<1> QED  BY <1>4, <1>5 DEF MirrorInv

\* The steps of the backend.
LEMMA BackendSteps ==
  ASSUME MirrorInv, (\E t \in Tasks : BackendMoves(t) \/ ForeignTask(t)) \/ RunWorker
  PROVE  MirrorInv'
<1>1. MirrorTypeOK /\ remote \in Rows /\ \A t \in Tasks : remote[t] \in TaskStatus
  BY DEF MirrorInv, MirrorTypeOK, Rows
<1>2. CASE \E t \in Tasks : BackendMoves(t) \/ ForeignTask(t)
  <2>1. PICK t \in Tasks : BackendMoves(t) \/ ForeignTask(t)
    BY <1>2
  <2>2. PICK s \in TaskStatus : /\ remote' = [remote EXCEPT ![t] = s] /\ Rank[s] = Rank[remote[t]] + 1
                                /\ remote[t] # "none" \/ t \in Foreign
    BY <2>1, Ranks DEF BackendMoves, ForeignTask, Active
  <2>3. UNCHANGED <<service, uploads, copies, creating, fetching, taskPage, failures>>
    BY <2>1 DEF BackendMoves, ForeignTask
  <2> DEFINE new == [remote EXCEPT ![t] = s]
  <2>4. new \in Rows /\ new[t] = s /\ \A u \in Tasks : u # t => new[u] = remote[u]
    BY <1>1 DEF Rows
  <2> HIDE DEF new
  <2>5. Rank[remote[t]] \in 0..3 /\ Rank[s] \in 0..3
    BY <1>1, Ranks
  <2>6. \A u \in Tasks : new[u] = remote[u] \/ (Rank[remote[u]] < Rank[new[u]] /\ (remote[u] # "none" \/ u \in Foreign))
    BY <2>2, <2>4, <2>5
  <2>7. remote' = new
    BY <2>2 DEF new
  <2>8. MirrorTypeOK'
    BY <1>1, <2>3, <2>4, <2>7 DEF MirrorTypeOK, service, copies, fetching, taskPage
  <2> QED  BY <2>3, <2>4, <2>6, <2>7, <2>8, BackendStep
<1>3. CASE RunWorker
  <2>1. PICK chosen \in SUBSET {t \in Tasks \ uploads : remote[t] = "pending"}, end \in {"succeeded", "failed"} :
          remote' = [t \in Tasks |-> IF t \in chosen THEN end ELSE remote[t]]
    BY <1>3 DEF RunWorker
  <2> DEFINE new == [t \in Tasks |-> IF t \in chosen THEN end ELSE remote[t]]
  <2>2. AskList /\ UNCHANGED <<service, uploads, copies, creating, fetching, rows, arriving, failures>>
    BY <1>3 DEF RunWorker
  <2>3. new \in Rows
    BY <1>1, Ranks DEF Rows
  <2>4. \A t \in Tasks : new[t] = IF t \in chosen THEN end ELSE remote[t]
    OBVIOUS
  <2>5. remote' = new
    BY <2>1
  <2> HIDE DEF new
  <2>6. Rank[end] = 3 /\ \A t \in chosen : remote[t] = "pending" /\ Rank[remote[t]] = 1
    BY Ranks
  <2>7. \A t \in Tasks : new[t] = remote[t] \/ (Rank[remote[t]] < Rank[new[t]] /\ (remote[t] # "none" \/ t \in Foreign))
    BY <2>4, <2>6
  <2>8. awaited' \in Nat /\ awaited' + Len(arriving') <= MaxLists[via']
    <3>1. awaited + Len(arriving) < MaxLists[via] /\ awaited' = awaited + 1 /\ arriving' = arriving /\ via' = via
      BY <2>2 DEF AskList, service
    <3>2. awaited \in Nat /\ Len(arriving) \in Nat /\ MaxLists[via] \in Nat
      BY <1>1, MirrorConstants DEF MirrorTypeOK
    <3> QED  BY <3>1, <3>2
  <2>9. MirrorTypeOK'
    BY <1>1, <2>2, <2>3, <2>5, <2>8 DEF MirrorTypeOK, service, copies, fetching
  <2> QED  BY <2>2, <2>3, <2>5, <2>7, <2>9, BackendStep
<1> QED  BY <1>2, <1>3

-----------------------------------------------------------------------------
(* The ingestion tasks: creating *)

\* A step of the creation of t, of which nothing was fetched yet, keeps the invariant if
\* the copy of t is not ahead and what is known of t stays true.
LEMMA CreationStep ==
  ASSUME MirrorInv, NEW t \in Tasks, t \notin Foreign, creating[t] # "told",
         NEW c \in {"idle", "asked", "answered", "failed", "told", "error"}, creating' = [creating EXCEPT ![t] = c],
         NEW r \in TaskStatus, remote' = [remote EXCEPT ![t] = r], Rank[remote[t]] <= Rank[r],
         NEW m \in TaskStatus, mirror' = [mirror EXCEPT ![t] = m], Rank[m] <= Rank[r],
         madeUp \subseteq madeUp', madeUp' \subseteq Tasks,
         uploads' = uploads \/ (uploads' = uploads \cup {t} /\ via = "python"), c # "idle",
         failures' \in 0..MaxFailures, UNCHANGED <<service, fetching, taskPage>>,
         c \in {"idle", "asked"} => r = "none",
         c = "answered" => r # "none",
         c = "told" => IF InOlderService(t)' THEN t \in madeUp' \/ m # "none" ELSE r # "none"
  PROVE  MirrorInv'
<1>1. MirrorTypeOK /\ CopiesOK /\ FetchesOK
  BY DEF MirrorInv
<1>2. /\ creating'[t] = c /\ remote'[t] = r /\ mirror'[t] = m
      /\ \A u \in Tasks : u # t => creating'[u] = creating[u] /\ remote'[u] = remote[u] /\ mirror'[u] = mirror[u]
      /\ creating' \in [Tasks -> {"idle", "asked", "answered", "failed", "told", "error"}]
      /\ remote' \in Rows /\ mirror' \in Rows
  BY <1>1 DEF MirrorTypeOK, Rows
<1>3. MirrorTypeOK'
  BY <1>1, <1>2 DEF MirrorTypeOK, service, fetching, taskPage
<1>4. CopiesOK'
  <2> SUFFICES ASSUME NEW u \in Tasks
               PROVE  /\ Rank[mirror'[u]] <= Rank[remote'[u]]
                      /\ u \in Foreign => creating'[u] = "idle"
                      /\ u \notin Foreign /\ creating'[u] \in {"idle", "asked"} => remote'[u] = "none"
                      /\ creating'[u] = "answered" => remote'[u] # "none"
                      /\ creating'[u] = "told"
                           => IF InOlderService(u)' THEN u \in madeUp' \/ mirror'[u] # "none" ELSE remote'[u] # "none"
                      /\ u \in uploads' => via = "python" /\ creating'[u] # "idle"
    BY DEF CopiesOK, InOlderService, service
  <2>1. CASE u = t
    BY <1>1, <1>2, <2>1 DEF CopiesOK
  <2>2. CASE u # t
    <3>1. (u \in uploads' <=> u \in uploads) /\ (InOlderService(u)' <=> InOlderService(u))
      BY <2>2 DEF InOlderService, service
    <3> QED  BY <1>1, <1>2, <2>2, <3>1 DEF CopiesOK
  <2> QED  BY <2>1, <2>2
<1>5. FetchesOK'
  <2>1. \A u \in Tasks : Rank[remote'[u]] \in 0..3 /\ Rank[remote[u]] <= Rank[remote'[u]]
    <3> TAKE u \in Tasks
    <3>1. Rank[remote[u]] \in 0..3 /\ Rank[r] \in 0..3
      BY <1>1, MirrorTypes, Ranks
    <3>2. Rank[remote[u]] <= Rank[remote[u]]
      BY <3>1
    <3> QED  BY <1>2, <3>1, <3>2
  <2>2. \A u \in Tasks : Known(u) => Known(u)' /\ mirror'[u] = mirror[u]
    <3>1. ~Known(t)
      BY DEF Known
    <3> QED  BY <1>2, <3>1 DEF Known
  <2>3. UNCHANGED <<asked, fetched, overlapped, stale>>
    BY DEF fetching
  <2> QED  BY <1>1, <2>1, <2>2, <2>3, FetchesStay
<1> QED  BY <1>3, <1>4, <1>5 DEF MirrorInv

\* One more failure.
LEMMA OneMoreFailure == MirrorTypeOK /\ (Fails \/ UNCHANGED failures) => failures' \in 0..MaxFailures
BY MirrorConstants DEF MirrorTypeOK, Fails

\* The steps of a creation.
LEMMA CreationSteps ==
  ASSUME MirrorInv, NEW t \in Tasks,
         AskToCreate(t) \/ BackendCreates(t) \/ BackendRefuses(t) \/ HandOnCreation(t) \/ StoreCreation(t)
  PROVE  MirrorInv'
<1>1. /\ MirrorTypeOK /\ CopiesOK /\ remote[t] \in TaskStatus /\ mirror[t] \in TaskStatus
      /\ creating[t] \in {"idle", "asked", "answered", "failed"}
      /\ remote \in [Tasks -> TaskStatus] /\ mirror \in [Tasks -> TaskStatus] /\ madeUp \subseteq Tasks
      /\ Rank[mirror[t]] \in 0..3 /\ Rank[remote[t]] \in 0..3 /\ via \in {"python", "go"}
  <2>1. MirrorTypeOK /\ CopiesOK
    BY DEF MirrorInv
  <2>2. creating[t] \in {"idle", "asked", "answered", "failed"}
    BY DEF AskToCreate, BackendCreates, BackendRefuses, HandOnCreation, StoreCreation
  <2> QED  BY <2>1, <2>2, MirrorTypes DEF MirrorTypeOK, Rows
<1>2. /\ Rank[mirror[t]] <= Rank[remote[t]]
      /\ t \in Foreign => creating[t] = "idle"
      /\ t \notin Foreign /\ creating[t] \in {"idle", "asked"} => remote[t] = "none"
      /\ creating[t] = "answered" => remote[t] # "none"
  BY <1>1 DEF CopiesOK
<1>3. t \notin Foreign
  BY <1>2 DEF AskToCreate, BackendCreates, BackendRefuses, HandOnCreation, StoreCreation
<1>4. /\ remote = [remote EXCEPT ![t] = remote[t]] /\ mirror = [mirror EXCEPT ![t] = mirror[t]]
      /\ Rank[remote[t]] <= Rank[remote[t]] /\ madeUp \subseteq madeUp
  BY <1>1
<1>5. failures' \in 0..MaxFailures
  BY <1>1, OneMoreFailure DEF AskToCreate, BackendCreates, BackendRefuses, HandOnCreation, StoreCreation
<1>6. UNCHANGED <<service, fetching, taskPage>>
  BY DEF AskToCreate, BackendCreates, BackendRefuses, HandOnCreation, StoreCreation
<1>7. \/ uploads' = uploads
      \/ uploads' = uploads \cup {t} /\ via = "python"
  BY DEF AskToCreate, BackendCreates, BackendRefuses, HandOnCreation, StoreCreation
<1>8. CASE AskToCreate(t)
  <2>1. creating' = [creating EXCEPT ![t] = "asked"] /\ creating[t] = "idle"
        /\ remote' = remote /\ mirror' = mirror /\ madeUp' = madeUp
    BY <1>8 DEF AskToCreate, copies
  <2>2. remote' = [remote EXCEPT ![t] = remote[t]] /\ mirror' = [mirror EXCEPT ![t] = mirror[t]]
        /\ madeUp \subseteq madeUp' /\ madeUp' \subseteq Tasks /\ creating[t] # "told"
    BY <1>1, <1>4, <2>1
  <2>3. remote[t] = "none"
    BY <1>2, <1>3, <2>1
  <2> QED  BY <1>1, <1>2, <1>3, <1>4, <1>5, <1>6, <1>7, <2>1, <2>2, <2>3, CreationStep
<1>9. CASE BackendCreates(t)
  <2>1. PICK c \in {"answered", "failed"} : creating' = [creating EXCEPT ![t] = c]
    BY <1>9 DEF BackendCreates
  <2>2. creating[t] = "asked" /\ remote' = [remote EXCEPT ![t] = "pending"] /\ mirror' = mirror /\ madeUp' = madeUp
    BY <1>9 DEF BackendCreates, copies
  <2>3. mirror' = [mirror EXCEPT ![t] = mirror[t]]
        /\ madeUp \subseteq madeUp' /\ madeUp' \subseteq Tasks /\ creating[t] # "told"
    BY <1>1, <1>4, <2>2
  <2>4. remote[t] = "none" /\ Rank[remote[t]] = 0 /\ Rank["pending"] = 1 /\ "pending" \in TaskStatus
    BY <1>2, <1>3, <2>2, Ranks
  <2>5. Rank[remote[t]] <= Rank["pending"] /\ Rank[mirror[t]] <= Rank["pending"]
    BY <1>1, <1>2, <2>4
  <2> QED  BY <1>1, <1>3, <1>5, <1>6, <1>7, <2>1, <2>2, <2>3, <2>4, <2>5, CreationStep
<1>10. CASE BackendRefuses(t)
  <2>1. creating' = [creating EXCEPT ![t] = "failed"] /\ creating[t] = "asked"
        /\ remote' = remote /\ mirror' = mirror /\ madeUp' = madeUp
    BY <1>10 DEF BackendRefuses, copies
  <2>2. remote' = [remote EXCEPT ![t] = remote[t]] /\ mirror' = [mirror EXCEPT ![t] = mirror[t]]
        /\ madeUp \subseteq madeUp' /\ madeUp' \subseteq Tasks /\ creating[t] # "told"
    BY <1>1, <1>4, <2>1
  <2> QED  BY <1>1, <1>2, <1>3, <1>4, <1>5, <1>6, <1>7, <2>1, <2>2, CreationStep
<1>11. CASE HandOnCreation(t)
  <2>1. PICK c \in {"told", "error"} : creating' = [creating EXCEPT ![t] = c] /\ (c = "told" => creating[t] = "answered")
    BY <1>11 DEF HandOnCreation, Told
  <2>2. creating[t] # "told" /\ remote' = remote /\ mirror' = mirror /\ madeUp' = madeUp /\ ~InOlderService(t)'
    BY <1>11 DEF HandOnCreation, InOlderService, service, copies
  <2>3. remote' = [remote EXCEPT ![t] = remote[t]] /\ mirror' = [mirror EXCEPT ![t] = mirror[t]]
        /\ madeUp \subseteq madeUp' /\ madeUp' \subseteq Tasks
    BY <1>1, <1>4, <2>2
  <2>4. c = "told" => IF InOlderService(t)' THEN t \in madeUp' \/ mirror[t] # "none" ELSE remote[t] # "none"
    BY <1>2, <2>1, <2>2
  <2> QED  BY <1>1, <1>2, <1>3, <1>4, <1>5, <1>6, <1>7, <2>1, <2>2, <2>3, <2>4, CreationStep
<1>12. CASE StoreCreation(t)
  <2> DEFINE m == IF creating[t] = "answered" THEN "pending" ELSE mirror[t]
             c == IF creating[t] = "answered" \/ fallback THEN "told" ELSE "error"
  <2>1. /\ InOlderService(t)' /\ creating[t] \in {"answered", "failed"} /\ creating' = [creating EXCEPT ![t] = c]
        /\ mirror' = IF creating[t] = "answered" THEN [mirror EXCEPT ![t] = "pending"] ELSE mirror
        /\ madeUp' = IF creating[t] = "failed" /\ fallback THEN madeUp \cup {t} ELSE madeUp
        /\ remote' = remote
    BY <1>12 DEF StoreCreation, Told, InOlderService, service
  <2>2. /\ remote' = [remote EXCEPT ![t] = remote[t]] /\ mirror' = [mirror EXCEPT ![t] = m]
        /\ madeUp \subseteq madeUp' /\ madeUp' \subseteq Tasks /\ creating[t] # "told"
    BY <1>1, <1>4, <2>1
  <2>3. m \in TaskStatus /\ Rank[m] <= Rank[remote[t]]
    <3>1. creating[t] = "answered" => Rank[remote[t]] # 0
      BY <1>1, <1>2, Ranks
    <3> QED  BY <1>1, <1>2, <3>1, Ranks
  <2>4. c \in {"told", "error"} /\ (c = "told" => m = "pending" \/ t \in madeUp')
    BY <2>1
  <2> HIDE DEF m, c
  <2>5. c = "told" => IF InOlderService(t)' THEN t \in madeUp' \/ m # "none" ELSE remote[t] # "none"
    BY <2>1, <2>4
  <2>6. c \in {"idle", "asked", "answered", "failed", "told", "error"} /\ c \notin {"idle", "asked", "answered"}
    BY <2>4
  <2> QED  BY <1>1, <1>3, <1>4, <1>5, <1>6, <1>7, <2>1, <2>2, <2>3, <2>5, <2>6, CreationStep
<1> QED  BY <1>8, <1>9, <1>10, <1>11, <1>12

-----------------------------------------------------------------------------
(* The ingestion tasks: fetching *)

\* What Drop leaves.
LEMMA Dropped ==
  ASSUME NEW E, NEW q \in Seq(E), NEW i \in DOMAIN q
  PROVE  /\ Drop(q, i) \in Seq(E) /\ Len(Drop(q, i)) = Len(q) - 1 /\ Len(q) \in Nat
         /\ \A j \in DOMAIN Drop(q, i) : \E k \in DOMAIN q : k # i /\ Drop(q, i)[j] = q[k]
         /\ \A j \in DOMAIN Drop(q, i) : Drop(q, i)[j] = IF j < i THEN q[j] ELSE q[j + 1]
         /\ DOMAIN Drop(q, i) = 1..(Len(q) - 1) /\ DOMAIN q = 1..Len(q)
BY WithoutOneElements DEF Drop

AskedFetch == [of : Tasks, found : TaskStatus]
AnsweredFetch == [of : Tasks, found : TaskStatus, got : TaskStatus]

\* A fetch begins.
LEMMA FetchBeginsStep ==
  ASSUME MirrorInv, NEW t \in Tasks, FetchBegins(t)
  PROVE  MirrorInv'
<1> DEFINE f == [of |-> t, found |-> IF t \in Foreign THEN "none" ELSE mirror[t]]
<1>1. /\ MirrorTypeOK /\ CopiesOK /\ FetchesOK /\ asked \in Seq(AskedFetch) /\ mirror[t] \in TaskStatus
      /\ Rank[remote[t]] \in 0..3
  BY MirrorTypes DEF MirrorInv, MirrorTypeOK, AskedFetch
<1>2. /\ fetchCount < MaxFetches /\ fetchCount' = fetchCount + 1 /\ Known(t) /\ asked' = Append(asked, f)
      /\ UNCHANGED <<service, uploads, remote, copies, creating, fetched, overlapped, stale, taskPage, failures>>
  BY DEF FetchBegins, Known
<1>3. f \in AskedFetch /\ f.of = t /\ Rank[f.found] <= Rank[remote[t]]
  BY <1>1, Ranks DEF AskedFetch, CopiesOK
<1> HIDE DEF f
<1>4. fetchCount' \in 0..MaxFetches
  BY <1>1, <1>2, MirrorConstants DEF MirrorTypeOK
<1>5. /\ asked' \in Seq(AskedFetch) /\ Len(asked) \in Nat
      /\ DOMAIN asked' = 1..(Len(asked) + 1) /\ DOMAIN asked = 1..Len(asked)
      /\ asked'[Len(asked) + 1] = f
      /\ \A j \in DOMAIN asked : asked'[j] = asked[j]
  BY <1>1, <1>2, <1>3, Appended
<1>6. MirrorTypeOK'
  BY <1>1, <1>2, <1>4, <1>5 DEF MirrorTypeOK, AskedFetch, service, copies, taskPage
<1>7. CopiesOK'
  BY <1>1, <1>2 DEF CopiesOK, InOlderService, service, copies
<1>8. FetchesOK'
  <2>1. ASSUME NEW i \in DOMAIN asked'
        PROVE  Known(asked'[i].of) /\ Rank[asked'[i].found] <= Rank[remote[asked'[i].of]]
    <3>1. CASE i = Len(asked) + 1
      BY <1>2, <1>3, <1>5, <3>1
    <3>2. CASE i # Len(asked) + 1
      BY <1>1, <1>5, <3>2 DEF FetchesOK
    <3> QED  BY <3>1, <3>2
  <2> QED  BY <1>1, <1>2, <2>1 DEF FetchesOK, Known, copies
<1> QED  BY <1>6, <1>7, <1>8 DEF MirrorInv

\* It fails.
LEMMA FetchFailsStep ==
  ASSUME MirrorInv, NEW i \in DOMAIN asked, FetchFails(i)
  PROVE  MirrorInv'
<1>1. /\ MirrorTypeOK /\ CopiesOK /\ FetchesOK /\ asked \in Seq(AskedFetch)
  BY DEF MirrorInv, MirrorTypeOK, AskedFetch
<1>2. /\ Fails /\ asked' = Drop(asked, i)
      /\ UNCHANGED <<service, uploads, remote, copies, creating, fetched, fetchCount, overlapped, stale, taskPage>>
  BY DEF FetchFails
<1>3. failures' \in 0..MaxFailures
  BY <1>1, <1>2, OneMoreFailure
<1>4. /\ asked' \in Seq(AskedFetch)
      /\ \A j \in DOMAIN asked' : \E k \in DOMAIN asked : k # i /\ asked'[j] = asked[k]
  BY <1>1, <1>2, Dropped
<1>5. MirrorTypeOK'
  BY <1>1, <1>2, <1>3, <1>4 DEF MirrorTypeOK, AskedFetch, service, copies, taskPage
<1>6. CopiesOK'
  BY <1>1, <1>2 DEF CopiesOK, InOlderService, service, copies
<1>7. FetchesOK'
  BY <1>1, <1>2, <1>4 DEF FetchesOK, Known, copies
<1> QED  BY <1>5, <1>6, <1>7 DEF MirrorInv

\* The backend answers it, with the task as it is.
LEMMA FetchAnsweredStep ==
  ASSUME MirrorInv, NEW i \in DOMAIN asked, FetchAnswered(i)
  PROVE  MirrorInv'
<1> DEFINE f == [of |-> asked[i].of, found |-> asked[i].found, got |-> remote[asked[i].of]]
<1>1. /\ MirrorTypeOK /\ CopiesOK /\ FetchesOK /\ asked \in Seq(AskedFetch) /\ fetched \in Seq(AnsweredFetch)
      /\ asked[i].of \in Tasks /\ asked[i].found \in TaskStatus /\ remote[asked[i].of] \in TaskStatus
      /\ Rank[remote[asked[i].of]] \in 0..3
  BY MirrorTypes DEF MirrorInv, MirrorTypeOK, AskedFetch, AnsweredFetch
<1>2. /\ asked' = Drop(asked, i) /\ fetched' = Append(fetched, f)
      /\ UNCHANGED <<service, uploads, remote, copies, creating, fetchCount, overlapped, stale, taskPage, failures>>
  BY DEF FetchAnswered
<1>3. /\ f \in AnsweredFetch /\ f.of \in Tasks /\ f.got = remote[f.of] /\ Known(f.of)
      /\ Rank[f.found] <= Rank[f.got] /\ Rank[f.got] \in 0..3 /\ Rank[mirror[f.of]] <= Rank[f.got]
  BY <1>1 DEF FetchesOK, CopiesOK, AnsweredFetch
<1> HIDE DEF f
<1>4. /\ asked' \in Seq(AskedFetch)
      /\ \A j \in DOMAIN asked' : \E k \in DOMAIN asked : k # i /\ asked'[j] = asked[k]
  BY <1>1, <1>2, Dropped
<1>5. /\ fetched' \in Seq(AnsweredFetch) /\ Len(fetched) \in Nat
      /\ DOMAIN fetched' = 1..(Len(fetched) + 1) /\ DOMAIN fetched = 1..Len(fetched)
      /\ fetched'[Len(fetched) + 1] = f
      /\ \A j \in DOMAIN fetched : fetched'[j] = fetched[j]
  BY <1>1, <1>2, <1>3, Appended
<1>6. MirrorTypeOK'
  BY <1>1, <1>2, <1>4, <1>5 DEF MirrorTypeOK, AskedFetch, AnsweredFetch, service, copies, taskPage
<1>7. CopiesOK'
  BY <1>1, <1>2 DEF CopiesOK, InOlderService, service, copies
<1>8. FetchesOK'
  <2>1. \A j \in DOMAIN asked' : Known(asked'[j].of) /\ Rank[asked'[j].found] <= Rank[remote[asked'[j].of]]
    BY <1>1, <1>4 DEF FetchesOK
  <2>2. ASSUME NEW j \in DOMAIN fetched'
        PROVE  /\ Known(fetched'[j].of) /\ Rank[fetched'[j].found] <= Rank[fetched'[j].got]
               /\ Rank[fetched'[j].got] <= Rank[remote[fetched'[j].of]]
               /\ ~overlapped => Rank[mirror[fetched'[j].of]] <= Rank[fetched'[j].got]
    <3>1. CASE j = Len(fetched) + 1
      BY <1>3, <1>5, <3>1
    <3>2. CASE j # Len(fetched) + 1
      BY <1>1, <1>5, <3>2 DEF FetchesOK
    <3> QED  BY <3>1, <3>2
  <2>3. ASSUME NEW j \in DOMAIN fetched', NEW k \in DOMAIN fetched', j < k, fetched'[j].of = fetched'[k].of
        PROVE  Rank[fetched'[j].got] <= Rank[fetched'[k].got]
    <3>1. j \in DOMAIN fetched /\ fetched'[j] = fetched[j]
      BY <1>5, <2>3
    <3>2. CASE k = Len(fetched) + 1
      <4>1. fetched'[k] = f
        BY <1>5, <3>2
      <4> QED  BY <1>1, <1>3, <2>3, <3>1, <4>1 DEF FetchesOK
    <3>3. CASE k # Len(fetched) + 1
      <4>1. k \in DOMAIN fetched /\ fetched'[k] = fetched[k]
        BY <1>5, <3>3
      <4> QED  BY <1>1, <2>3, <3>1, <4>1 DEF FetchesOK
    <3> QED  BY <3>2, <3>3
  <2> QED  BY <1>1, <1>2, <2>1, <2>2, <2>3 DEF FetchesOK, Known, copies
<1> QED  BY <1>6, <1>7, <1>8 DEF MirrorInv

\* The answer is stored: it takes nothing back, unless an answer that came later was stored before.
LEMMA FetchStoredStep ==
  ASSUME MirrorInv, NEW i \in DOMAIN fetched, FetchStored(i)
  PROVE  MirrorInv'
<1> DEFINE f == fetched[i]
           m == IF f.got # "none" THEN f.got ELSE mirror[f.of]
<1>1. /\ MirrorTypeOK /\ CopiesOK /\ FetchesOK /\ fetched \in Seq(AnsweredFetch)
      /\ f.of \in Tasks /\ f.got \in TaskStatus /\ f.found \in TaskStatus
      /\ Rank[f.got] \in 0..3 /\ Rank[f.found] \in 0..3 /\ Rank[mirror[f.of]] \in 0..3 /\ Rank[remote[f.of]] \in 0..3
      /\ mirror[f.of] \in TaskStatus /\ mirror \in [Tasks -> TaskStatus]
  BY MirrorTypes, Ranks DEF MirrorInv, MirrorTypeOK, AnsweredFetch, Rows
<1>2. /\ mirror' = IF f.got # "none" THEN [mirror EXCEPT ![f.of] = f.got] ELSE mirror
      /\ fetched' = Drop(fetched, i)
      /\ overlapped' = (overlapped \/ \E j \in 1..(i - 1) : fetched[j].of = f.of)
      /\ stale' = \/ stale
                  \/ f.got # "none" /\ Rank[f.got] < Rank[f.found]
                  \/ f.got # "none" /\ Rank[f.got] < Rank[mirror[f.of]] /\ ~overlapped'
      /\ UNCHANGED <<service, uploads, remote, madeUp, creating, asked, fetchCount, taskPage, failures>>
  BY DEF FetchStored
<1>3. /\ Known(f.of) /\ Rank[f.found] <= Rank[f.got] /\ Rank[f.got] <= Rank[remote[f.of]]
      /\ ~overlapped => Rank[mirror[f.of]] <= Rank[f.got]
      /\ stale = FALSE
  BY <1>1 DEF FetchesOK
<1>4. /\ m \in TaskStatus /\ Rank[m] <= Rank[remote[f.of]] /\ Rank[m] \in 0..3
      /\ mirror[f.of] # "none" => m # "none"
      /\ ~overlapped => Rank[m] <= Rank[f.got]
  <2>1. Rank[mirror[f.of]] <= Rank[remote[f.of]]
    BY <1>1 DEF CopiesOK
  <2> QED  BY <1>1, <1>3, <2>1
<1>5. /\ mirror' \in Rows /\ mirror'[f.of] = m
      /\ \A t \in Tasks : t # f.of => mirror'[t] = mirror[t]
  BY <1>1, <1>2 DEF Rows
<1>6. /\ fetched' \in Seq(AnsweredFetch) /\ Len(fetched) \in Nat
      /\ \A j \in DOMAIN fetched' : \E k \in DOMAIN fetched : k # i /\ fetched'[j] = fetched[k]
      /\ \A j \in DOMAIN fetched' : fetched'[j] = IF j < i THEN fetched[j] ELSE fetched[j + 1]
      /\ DOMAIN fetched' = 1..(Len(fetched) - 1) /\ DOMAIN fetched = 1..Len(fetched)
  <2>1. fetched \in Seq(AnsweredFetch) /\ i \in DOMAIN fetched
    BY <1>1
  <2>2. fetched' = Drop(fetched, i)
    BY <1>2
  <2> HIDE DEF f, m
  <2> DEFINE r == Drop(fetched, i)
  <2>3. /\ r \in Seq(AnsweredFetch) /\ Len(fetched) \in Nat
        /\ \A j \in DOMAIN r : \E k \in DOMAIN fetched : k # i /\ r[j] = fetched[k]
        /\ \A j \in DOMAIN r : r[j] = IF j < i THEN fetched[j] ELSE fetched[j + 1]
        /\ DOMAIN r = 1..(Len(fetched) - 1) /\ DOMAIN fetched = 1..Len(fetched)
    BY ONLY <2>1, Dropped
  <2>4. fetched' = r
    BY <2>2
  <2> HIDE DEF r
  <2> QED  BY ONLY <2>3, <2>4
<1>7. overlapped' \in BOOLEAN
  BY <1>1, <1>2 DEF MirrorTypeOK
<1>8. stale' = FALSE
  <2>1. ~(Rank[f.got] < Rank[f.found])
    BY <1>1, <1>3
  <2>2. overlapped => overlapped'
    BY <1>1, <1>2 DEF MirrorTypeOK
  <2>3. Rank[mirror[f.of]] <= Rank[f.got] => ~(Rank[f.got] < Rank[mirror[f.of]])
    BY <1>1
  <2> HIDE DEF f, m
  <2>4. ~(f.got # "none" /\ Rank[f.got] < Rank[mirror[f.of]] /\ ~overlapped')
    BY <1>3, <2>2, <2>3
  <2>5. ~(f.got # "none" /\ Rank[f.got] < Rank[f.found])
    BY <2>1
  <2> QED  BY <1>2, <1>3, <2>4, <2>5
<1> HIDE DEF f, m
<1>9. MirrorTypeOK'
  BY <1>1, <1>2, <1>5, <1>6, <1>7, <1>8 DEF MirrorTypeOK, AnsweredFetch, service, taskPage
<1>10. CopiesOK'
  <2> SUFFICES ASSUME NEW t \in Tasks
               PROVE  /\ Rank[mirror'[t]] <= Rank[remote[t]]
                      /\ t \in Foreign => creating[t] = "idle"
                      /\ t \notin Foreign /\ creating[t] \in {"idle", "asked"} => remote[t] = "none"
                      /\ creating[t] = "answered" => remote[t] # "none"
                      /\ creating[t] = "told" => IF InOlderService(t) THEN t \in madeUp \/ mirror'[t] # "none" ELSE remote[t] # "none"
                      /\ t \in uploads => via = "python" /\ creating[t] # "idle"
    BY <1>2 DEF CopiesOK, InOlderService, service
  <2>1. CASE t = f.of
    BY <1>1, <1>4, <1>5, <2>1 DEF CopiesOK
  <2>2. CASE t # f.of
    BY <1>1, <1>5, <2>2 DEF CopiesOK
  <2> QED  BY <2>1, <2>2
<1>11. FetchesOK'
  <2>1. ASSUME NEW j \in DOMAIN fetched'
        PROVE  /\ Known(fetched'[j].of) /\ Rank[fetched'[j].found] <= Rank[fetched'[j].got]
               /\ Rank[fetched'[j].got] <= Rank[remote[fetched'[j].of]]
               /\ ~overlapped' => Rank[mirror'[fetched'[j].of]] <= Rank[fetched'[j].got]
    <3>1. PICK k \in DOMAIN fetched : k # i /\ fetched'[j] = fetched[k]
      BY <1>6
    <3>2. fetched[k].of \in Tasks /\ Rank[fetched[k].got] \in 0..3
      BY <1>1, MirrorTypes, Ranks
    <3>3. /\ Known(fetched[k].of) /\ Rank[fetched[k].found] <= Rank[fetched[k].got]
          /\ Rank[fetched[k].got] <= Rank[remote[fetched[k].of]]
          /\ ~overlapped => Rank[mirror[fetched[k].of]] <= Rank[fetched[k].got]
      BY <1>1 DEF FetchesOK
    <3>4. ~overlapped' => Rank[mirror'[fetched[k].of]] <= Rank[fetched[k].got]
      <4>1. CASE fetched[k].of # f.of
        BY <1>2, <1>5, <3>2, <3>3, <4>1
      <4>2. CASE fetched[k].of = f.of
        <5>1. SUFFICES ASSUME ~overlapped' PROVE Rank[m] <= Rank[fetched[k].got]
          BY <1>5, <4>2
        <5>2. k \notin 1..(i - 1)
          BY <1>2, <4>2, <5>1
        <5>3. i < k
          BY <1>6, <3>1, <5>2
        <5>4. Rank[f.got] <= Rank[fetched[k].got]
          BY <1>1, <4>2, <5>3 DEF FetchesOK, f
        <5>5. Rank[m] <= Rank[f.got]
          BY <1>2, <1>4, <5>1
        <5> QED  BY <1>1, <1>4, <3>2, <5>4, <5>5
      <4> QED  BY <4>1, <4>2
    <3> QED  BY <3>1, <3>3, <3>4
  <2>2. ASSUME NEW j \in DOMAIN fetched', NEW k \in DOMAIN fetched', j < k, fetched'[j].of = fetched'[k].of
        PROVE  Rank[fetched'[j].got] <= Rank[fetched'[k].got]
    <3>1. PICK jj \in DOMAIN fetched : fetched'[j] = fetched[jj] /\ jj = IF j < i THEN j ELSE j + 1
      BY <1>6
    <3>2. PICK kk \in DOMAIN fetched : fetched'[k] = fetched[kk] /\ kk = IF k < i THEN k ELSE k + 1
      BY <1>6
    <3>3. jj < kk
      BY <1>6, <2>2, <3>1, <3>2
    <3> QED  BY <1>1, <2>2, <3>1, <3>2, <3>3 DEF FetchesOK
  <2> QED  BY <1>1, <1>2, <1>8, <2>1, <2>2 DEF FetchesOK, Known
<1> QED  BY <1>9, <1>10, <1>11 DEF MirrorInv

-----------------------------------------------------------------------------
(* The ingestion tasks: the page, and every step *)

\* What the page does changes neither the tasks nor the copies.
LEMMA TaskPageStep ==
  ASSUME MirrorInv, \/ PollTasks \/ ReloadTasks \/ ServeTasks \/ TasksFail
                    \/ \E i \in DOMAIN arriving : ShowTasks(i)
  PROVE  MirrorInv'
<1>1. /\ UNCHANGED <<service, uploads, remote, copies, creating, fetching>>
  BY DEF PollTasks, ReloadTasks, ServeTasks, TasksFail, ShowTasks
<1>2. /\ MirrorTypeOK /\ awaited \in Nat /\ arriving \in Seq(Rows) /\ Len(arriving) \in Nat /\ rows \in Rows
      /\ MaxLists[via] \in Nat /\ awaited + Len(arriving) <= MaxLists[via]
      /\ DOMAIN arriving = 1..Len(arriving)
  BY MirrorConstants DEF MirrorInv, MirrorTypeOK
<1>3. failures' \in 0..MaxFailures
  <2>1. Fails \/ UNCHANGED failures
    BY DEF PollTasks, ReloadTasks, ServeTasks, TasksFail, ShowTasks
  <2> QED  BY <1>2, <2>1, OneMoreFailure
<1> DEFINE PageOK == rows \in Rows /\ arriving \in Seq(Rows) /\ awaited \in Nat /\ awaited + Len(arriving) <= MaxLists[via]
<1>4. PageOK'
  <2>1. CASE PollTasks \/ ReloadTasks
    <3>1. awaited + Len(arriving) < MaxLists[via] /\ awaited' = awaited + 1 /\ UNCHANGED <<rows, arriving, via>>
      BY <2>1 DEF PollTasks, ReloadTasks, AskList, service
    <3> QED  BY <1>2, <3>1
  <2>2. CASE ServeTasks
    <3>1. awaited > 0 /\ awaited' = awaited - 1 /\ arriving' = Append(arriving, ListedTasks)
          /\ UNCHANGED <<rows, via>>
      BY <2>2 DEF ServeTasks, service
    <3>2. ListedTasks \in Rows
      <4>1. remote \in [Tasks -> TaskStatus] /\ mirror \in [Tasks -> TaskStatus]
            /\ "none" \in TaskStatus /\ FallbackStatus \in TaskStatus
        BY <1>2, Ranks DEF MirrorTypeOK, Rows, FallbackStatus
      <4>2. \A t \in Tasks : CopyOf(t) \in TaskStatus
        BY <4>1 DEF CopyOf
      <4>3. via \in {"python", "go"}
        BY <1>2 DEF MirrorTypeOK
      <4>4. \A t \in Tasks : (CASE t \in Foreign \cup uploads -> "none"
                                [] t \notin Foreign \cup uploads /\ via = "python" -> remote[t]
                                [] t \notin Foreign \cup uploads /\ via = "go" -> CopyOf(t)) \in TaskStatus
        BY <4>1, <4>2, <4>3
      <4> QED  BY <4>4 DEF ListedTasks, Rows
    <3>3. arriving' \in Seq(Rows) /\ Len(arriving') = Len(arriving) + 1
      BY <1>2, <3>1, <3>2, AppendProperties
    <3>4. awaited' \in Nat /\ awaited' + Len(arriving') = awaited + Len(arriving)
      BY <1>2, <3>1, <3>3
    <3> QED  BY <1>2, <3>1, <3>3, <3>4
  <2>3. CASE TasksFail
    <3>1. awaited > 0 /\ awaited' = awaited - 1 /\ UNCHANGED <<rows, arriving, via>>
      BY <2>3 DEF TasksFail, service
    <3> QED  BY <1>2, <3>1
  <2>4. ASSUME NEW i \in DOMAIN arriving, ShowTasks(i)
        PROVE  PageOK'
    <3>1. rows' = arriving[i] /\ arriving' = Drop(arriving, i) /\ UNCHANGED <<awaited, via>>
      BY <2>4 DEF ShowTasks, service
    <3>2. arriving' \in Seq(Rows) /\ Len(arriving') = Len(arriving) - 1
      BY <1>2, <3>1, Dropped
    <3>4. Len(arriving') \in Nat
      BY <3>2, LenProperties
    <3>3. rows' \in Rows
      BY <1>2, <3>1, Elements
    <3> QED  BY <1>2, <3>1, <3>2, <3>3, <3>4
  <2> QED  BY <2>1, <2>2, <2>3, <2>4
<1>5. MirrorTypeOK'
  BY <1>1, <1>2, <1>3, <1>4 DEF MirrorTypeOK, service, copies, fetching
<1>6. CopiesOK' /\ FetchesOK'
  BY <1>1 DEF MirrorInv, CopiesOK, InOlderService, FetchesOK, Known, service, copies, fetching
<1> QED  BY <1>5, <1>6 DEF MirrorInv

\* No step of the ingestion tasks breaks the invariant.
LEMMA NextMirrorInv == MirrorInv /\ [MirrorNext]_mirrorVars => MirrorInv'
<1> SUFFICES ASSUME MirrorInv, [MirrorNext]_mirrorVars PROVE MirrorInv'
  OBVIOUS
<1>1. CASE \E t \in Tasks : BackendMoves(t) \/ ForeignTask(t)
  BY <1>1, BackendSteps
<1>2. CASE \E t \in Tasks : AskToCreate(t) \/ BackendCreates(t) \/ BackendRefuses(t) \/ HandOnCreation(t) \/ StoreCreation(t)
  BY <1>2, CreationSteps
<1>3. CASE \E t \in Tasks : FetchBegins(t)
  BY <1>3, FetchBeginsStep
<1>4. CASE \E i \in DOMAIN asked : FetchAnswered(i) \/ FetchFails(i)
  BY <1>4, FetchAnsweredStep, FetchFailsStep
<1>5. CASE \E i \in DOMAIN fetched : FetchStored(i)
  BY <1>5, FetchStoredStep
<1>6. CASE RunWorker
  BY <1>6, BackendSteps
<1>7. CASE PollTasks \/ ReloadTasks \/ ServeTasks \/ TasksFail \/ \E i \in DOMAIN arriving : ShowTasks(i)
  BY <1>7, TaskPageStep
<1>8. CASE UNCHANGED mirrorVars
  BY <1>8 DEF MirrorInv, MirrorTypeOK, CopiesOK, InOlderService, FetchesOK, Known, mirrorVars, service, copies, fetching, taskPage
<1> QED  BY <1>1, <1>2, <1>3, <1>4, <1>5, <1>6, <1>7, <1>8 DEF MirrorNext

\* The invariant says what MirrorIsTrue does.
LEMMA MirrorInvIsTrue == MirrorInv => MirrorIsTrue
<1> SUFFICES ASSUME MirrorInv PROVE MirrorIsTrue
  OBVIOUS
<1>1. \A t \in Tasks :
        creating[t] = "told" => IF t \in uploads THEN CopyOf(t) # "none" ELSE ListedTasks[t] # "none"
  <2> SUFFICES ASSUME NEW t \in Tasks, creating[t] = "told"
               PROVE  IF t \in uploads THEN CopyOf(t) # "none" ELSE ListedTasks[t] # "none"
    OBVIOUS
  <2>1. /\ t \notin Foreign /\ via \in {"python", "go"}
        /\ IF InOlderService(t) THEN t \in madeUp \/ mirror[t] # "none" ELSE remote[t] # "none"
    BY DEF MirrorInv, MirrorTypeOK, CopiesOK
  <2>2. InOlderService(t) => CopyOf(t) # "none"
    BY <2>1 DEF CopyOf, FallbackStatus
  <2>3. CASE t \in uploads
    BY <2>2, <2>3 DEF InOlderService
  <2>4. CASE t \notin uploads
    BY <2>1, <2>2, <2>4 DEF InOlderService, ListedTasks
  <2> QED  BY <2>3, <2>4
<1>2. ~stale
  BY DEF MirrorInv, FetchesOK
<1> QED  BY <1>1, <1>2 DEF MirrorInv, CopiesOK, MirrorIsTrue

\* The copies of the ingestion tasks are never ahead of the tasks, a task the user was told of
\* is in the list, or among the copies if it was uploaded in front of Python, and a fetch takes
\* a copy back only where two of them overlap - for any tasks, whichever calls of the backend
\* fail and in whichever order its answers are stored.
THEOREM MirrorIsAlwaysTrue == MirrorSpec => []MirrorIsTrue
<1>1. MirrorInit => MirrorInv
  BY InitMirrorInv
<1>2. MirrorInv /\ [MirrorNext]_mirrorVars => MirrorInv'
  BY NextMirrorInv
<1>3. MirrorInv => MirrorIsTrue
  BY MirrorInvIsTrue
<1> QED  BY <1>1, <1>2, <1>3, PTL DEF MirrorSpec

-----------------------------------------------------------------------------
(* The three pages together *)

\* Whichever page a behaviour is about, the variables of all three keep the values that
\* their model gives them.  None of the three type invariants is inductive alone: the
\* parts above are what the invariant needs.
THEOREM BrowserTypesAreKept == Spec => []BrowserTypesOK
<1> DEFINE Inv == ChatInv /\ MirrorInv /\ BenchInv
<1>1. Init => Inv
  BY InitChatInv, InitMirrorInv, InitBenchInv DEF Init
<1>2. Inv /\ [Next]_<<part, chatVars, mirrorVars, benchVars>> => Inv'
  <2>1. Inv /\ [Next]_<<part, chatVars, mirrorVars, benchVars>>
          => [ChatNext]_chatVars /\ [MirrorNext]_mirrorVars /\ [BenchNext]_benchVars
    BY DEF Next
  <2> QED  BY <2>1, NextChatInv, NextMirrorInv, NextBenchInv
<1>3. Inv => BrowserTypesOK
  BY BenchInvIsTrue DEF ChatInv, MirrorInv, BrowserTypesOK
<1> QED  BY <1>1, <1>2, <1>3, PTL DEF Spec

\* The four theorems above, of the specification that composes the pages: it asks no more
\* of the chat, of the tasks and of the workbench than theirs do.
THEOREM EveryPageIsTrue == Spec => [](SendsAreHonest /\ RestingViewIsTrue /\ MirrorIsTrue /\ WorkbenchIsTrue)
<1>1. Init => ChatInit /\ MirrorInit /\ BenchInit
  BY DEF Init
<1>2. [Next]_<<part, chatVars, mirrorVars, benchVars>>
        => [ChatNext]_chatVars /\ [MirrorNext]_mirrorVars /\ [BenchNext]_benchVars
  BY DEF Next
<1>3. Spec => ChatSpec /\ MirrorSpec /\ BenchSpec
  BY <1>1, <1>2, PTL DEF Spec, ChatSpec, MirrorSpec, BenchSpec
<1> QED  BY <1>3, SendsAreAlwaysHonest, RestingViewIsAlwaysTrue, MirrorIsAlwaysTrue, WorkbenchIsAlwaysTrue, PTL
=============================================================================

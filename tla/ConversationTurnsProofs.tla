----------------------- MODULE ConversationTurnsProofs -----------------------
(***************************************************************************)
(* Theorems about ConversationTurns, for any set of turns, sizes and       *)
(* budgets, when no two messages are stored in the same millisecond.       *)
(***************************************************************************)
EXTENDS ConversationTurns, SequenceLemmas, FiniteSetTheorems

NoTies == 0 \notin Gaps

\* A step of a handler or of the callback of its timer, whatever else is at work.
TurnStep(t) == HandlerStep(t) \/ CallbackStep(t)

USE RoutesAssumption, GapsAssumption, NoMessageAssumption

-----------------------------------------------------------------------------
(* The list of messages *)

\* The question and the answer of a turn are two messages.
LEMMA MessagesOfTurn ==
  ASSUME NEW t \in Turns
  PROVE  Question(t) \in Message /\ Answer(t) \in Message /\ Question(t) # Answer(t)
BY DEF Question, Answer, Message, Roles

\* Without ties the list is in the order in which messages were stored.
LEMMA ListedByCount ==
  ASSUME TypeOK, Clocked, NEW m \in Stored, NEW n \in Stored
  PROVE  Listed(m, n) <=> place[m].no < place[n].no
BY DEF TypeOK, Clocked, Stored, Listed, Place

\* What is listed after a message was stored after it.
LEMMA AfterByCount ==
  ASSUME TypeOK, Clocked, NEW m \in Stored
  PROVE  After(m) = {n \in Stored : place[m].no < place[n].no}
BY ListedByCount DEF After

\* A step that stores new messages, later than those there are, and leaves those alone.
Extends ==
  /\ place' \in [Message -> Place] /\ newest' \in Place
  /\ newest.no <= newest'.no /\ newest.at <= newest'.at
  /\ \A m \in Stored : place'[m] = place[m]
  /\ \A m \in Message \ Stored :
       place'[m].no > 0 =>
         /\ newest.no < place'[m].no /\ place'[m].no <= newest'.no
         /\ newest.at < place'[m].at /\ place'[m].at <= newest'.at
  /\ \A m, n \in Message \ Stored :
       place'[m].no > 0 /\ place'[n].no > 0 =>
         (place'[m].no < place'[n].no <=> place'[m].at < place'[n].at)

\* Such a step keeps the order of the list.
LEMMA ExtendsClocked ==
  ASSUME TypeOK, Clocked, Extends
  PROVE  Clocked' /\ Stored \subseteq Stored'
<1>1. Stored \subseteq Stored'
  BY DEF Extends, Stored, TypeOK
<1>2. ASSUME NEW m \in Stored'
      PROVE  place'[m].no <= newest'.no /\ place'[m].at <= newest'.at
  <2>1. CASE m \in Stored
    BY <2>1 DEF Extends, Clocked, TypeOK, Place, Stored
  <2>2. CASE m \notin Stored
    BY <2>2 DEF Extends, Stored
  <2>. QED  BY <2>1, <2>2
<1>3. ASSUME NEW m \in Stored', NEW n \in Stored'
      PROVE  place'[m].no < place'[n].no <=> place'[m].at < place'[n].at
  <2>. m \in Message /\ n \in Message /\ place'[m].no > 0 /\ place'[n].no > 0
    BY DEF Stored
  <2>1. CASE m \in Stored /\ n \in Stored
    BY <2>1 DEF Extends, Clocked
  <2>2. CASE m \in Stored /\ n \notin Stored
    BY <2>2 DEF Extends, Clocked, TypeOK, Place, Stored
  <2>3. CASE m \notin Stored /\ n \in Stored
    BY <2>3 DEF Extends, Clocked, TypeOK, Place, Stored
  <2>4. CASE m \notin Stored /\ n \notin Stored
    BY <2>4 DEF Extends
  <2>. QED  BY <2>1, <2>2, <2>3, <2>4
<1>. QED  BY <1>1, <1>2, <1>3 DEF Clocked

\* Such a step leaves out nothing that a summary covered.
LEMMA ExtendsCovers ==
  ASSUME TypeOK, TypeOK', Clocked, Extends, NEW r \in Record, Covers(r)
  PROVE  Covers(r)'
<1>1. Clocked' /\ Stored \subseteq Stored'
  BY ExtendsClocked
<1>2. CASE r.marker = NoMessage
  BY <1>2 DEF Covers
<1>3. CASE r.marker \in Stored /\ Stored \ After(r.marker) \subseteq r.summary
  <2>. DEFINE k == r.marker
  <2>1. k \in Stored /\ k \in Stored' /\ place'[k] = place[k]
    BY <1>1, <1>3 DEF Extends
  <2>2. After(k)' = {n \in Stored' : place'[k].no < place'[n].no}
    <3>1. \A n \in Stored' : Listed(k, n)' <=> place'[k].no < place'[n].no
      BY <1>1, <2>1 DEF TypeOK, Clocked, Stored, Listed, Place
    <3>. QED  BY <3>1 DEF After
  <2>3. ASSUME NEW n \in Stored', n \notin After(k)'
        PROVE  n \in Stored /\ n \notin After(k)
    <3>1. ~(place'[k].no < place'[n].no)
      BY <2>2, <2>3
    <3>2. n \in Stored
      BY <2>1, <3>1 DEF Extends, Stored, Clocked, TypeOK, Place
    <3>3. place'[n] = place[n]
      BY <3>2 DEF Extends
    <3>. QED  BY <2>1, <3>1, <3>2, <3>3, AfterByCount
  <2>. QED  BY <1>3, <2>1, <2>3 DEF Covers
<1>. QED  BY <1>2, <1>3 DEF Covers

\* Storing a message that is not stored is such a step.
LEMMA StoreExtends ==
  ASSUME NoTies, TypeOK, Clocked, NEW m \in Message, m \notin Stored, Store(m)
  PROVE  Extends /\ Stored' = Stored \cup {m}
<1>1. PICK gap \in Gaps : newest' = Later(newest, gap) /\ place' = [place EXCEPT ![m] = newest']
  BY DEF Store
<1>2. gap \in Nat /\ gap > 0
  BY DEF NoTies
<1>3. /\ newest \in Place
      /\ newest' = [no |-> newest.no + 1, at |-> newest.at + gap]
  BY <1>1 DEF Later, TypeOK
<1>4. /\ newest' \in Place
      /\ newest'.no = newest.no + 1
      /\ newest'.at = newest.at + gap
      /\ newest.no \in Nat /\ newest.at \in Nat
  BY <1>2, <1>3 DEF Place
<1>5. /\ place' \in [Message -> Place]
      /\ place'[m] = newest'
      /\ \A n \in Message : n # m => place'[n] = place[n]
  BY <1>1, <1>4 DEF TypeOK
<1>6. Stored' = Stored \cup {m}
  BY <1>4, <1>5 DEF Stored
<1>7. Extends
  <2>1. \A n \in Stored : place'[n] = place[n]
    BY <1>5 DEF Stored
  <2>2. \A n \in Message \ Stored : place'[n].no > 0 => n = m
    BY <1>5 DEF Stored
  <2>. QED  BY <1>2, <1>4, <1>5, <2>1, <2>2 DEF Extends
<1>. QED  BY <1>6, <1>7

-----------------------------------------------------------------------------
(* Types *)

\* Every step is the end of the server or one of a turn.
LEMMA NextCases == Next => Crash \/ \E t \in Turns : TurnStep(t)
BY DEF Next, TurnStep

\* Storing a message keeps the type of the log.
LEMMA StoreType ==
  ASSUME TypeOK, NEW m \in Message, Store(m)
  PROVE  place' \in [Message -> Place] /\ newest' \in Place
<1>1. newest \in Place /\ place \in [Message -> Place]
  BY DEF TypeOK
<1>2. PICK gap \in Gaps : newest' = Later(newest, gap) /\ place' = [place EXCEPT ![m] = newest']
  BY DEF Store
<1>3. newest' \in Place
  BY <1>1, <1>2 DEF Later, Place
<1>. QED  BY <1>1, <1>2, <1>3

\* The type invariant holds at the start.
LEMMA InitType == Init => TypeOK
<1>. SUFFICES ASSUME Init PROVE TypeOK
  OBVIOUS
<1>1. [no |-> 0, at |-> 0] \in Place
  BY DEF Place
<1>2. Fresh \in Record
  BY DEF Fresh, Record
<1>. QED  BY <1>1, <1>2 DEF Init, TypeOK, Timers, Active

\* Every step keeps the type invariant.
LEMMA TypeStep == TypeOK /\ [Next]_vars => TypeOK'
<1>. SUFFICES ASSUME TypeOK, [Next]_vars PROVE TypeOK'
  OBVIOUS
<1>. USE DEF TypeOK
<1>1. Fresh \in Record
  BY DEF Fresh, Record
<1>2. CASE Crash
  BY <1>1, <1>2 DEF Crash, log, record, Active, Timers
<1>3. ASSUME NEW t \in Turns, TurnStep(t)
      PROVE  TypeOK'
  <2>. Question(t) \in Message /\ Answer(t) \in Message
    BY MessagesOfTurn
  <2>1. CASE Arrive(t)
    <3>1. [summary |-> summary, marker |-> marker] \in Record
      BY DEF Record
    <3>2. PICK r \in Routes \cap {"chat", "stream"} : route' = [route EXCEPT ![t] = r]
      BY <2>1 DEF Arrive
    <3>3. History \subseteq Message
      <4>1. \A q \in Questions : Pair(q) \subseteq Message
        BY DEF Pair, Questions, After, Stored
      <4>2. Recent \subseteq Questions
        BY DEF Recent
      <4>3. UNION {Pair(q) : q \in Recent} \subseteq Message
        BY <4>1, <4>2
      <4>4. {m \in Stored : Cardinality(After(m)) < 6} \subseteq Message
        BY DEF Stored
      <4>. QED  BY <4>3, <4>4 DEF History
    <3>. QED  BY <2>1, <3>1, <3>2, <3>3 DEF Arrive, log, record, Active
  <2>2. CASE ArrivePython(t)
    BY <2>2, StoreType DEF ArrivePython, record, Active
  <2>3. CASE Post(t)
    BY <2>3, StoreType DEF Post, record
  <2>4. CASE RecordSuccess(t)
    <3>1. root' = [root EXCEPT ![t] = @ \cup {"succeeded"}]
      BY <2>4 DEF RecordSuccess
    <3>2. pc' \in {[pc EXCEPT ![t] = "done"], [pc EXCEPT ![t] = "failing"]}
      BY <2>4 DEF RecordSuccess
    <3>. QED  BY <2>4, <3>1, <3>2 DEF RecordSuccess, log, record, Active
  <2>5. CASE RecordFailure(t)
    BY <2>5 DEF RecordFailure, log, record
  <2>6. CASE Ask(t)
    BY <2>6, StoreType DEF Ask, record, Active
  <2>7. CASE PlanFails(t)
    BY <2>7 DEF PlanFails, log, record
  <2>8. CASE Reply(t)
    BY <2>8, StoreType DEF Reply, record, Active, Timers
  <2>9. CASE GenerationFails(t)
    BY <2>9 DEF GenerationFails, log, record, Active
  <2>10. CASE Summarise(t)
    <3>1. Input(t) \subseteq Message /\ known[t].summary \subseteq Message
      BY DEF Input, Unsummarised, After, Stored, Record
    <3>. QED  BY <1>1, <2>10, <3>1 DEF Summarise, Forget, log, record, Timers
  <2>11. CASE SkipSummary(t)
    BY <1>1, <2>11 DEF SkipSummary, Forget, log, record, Timers
  <2>12. CASE WriteSummary(t)
    BY <2>12 DEF WriteSummary, log, Timers
  <2>13. CASE SummaryFails(t)
    BY <2>13 DEF SummaryFails, log, record, Timers
  <2>. QED  BY <1>3, <2>1, <2>2, <2>3, <2>4, <2>5, <2>6, <2>7, <2>8, <2>9, <2>10, <2>11,
               <2>12, <2>13 DEF TurnStep, HandlerStep, CallbackStep
<1>4. CASE UNCHANGED vars
  BY <1>4 DEF vars
<1>. QED  BY <1>2, <1>3, <1>4, NextCases

\* The types of the log and of every handler are kept, whatever the clock does.
THEOREM TypeCorrect == Spec => []TypeOK
<1>. QED  BY InitType, TypeStep, PTL DEF Spec

-----------------------------------------------------------------------------
(* The inductive invariant *)

\* The inductive invariant holds at the start.
LEMMA InitIInv == Init => IInv
<1>. SUFFICES ASSUME Init PROVE IInv
  OBVIOUS
<1>1. Stored = {}
  BY DEF Init, Stored
<1>2. Unsent /\ Clocked
  BY <1>1 DEF Unsent, Clocked
<1>3. NothingSkipped /\ KnownCovers /\ DraftCovers
  BY DEF Init, NothingSkipped, KnownCovers, DraftCovers, Covers, Fresh
<1>. QED  BY <1>2, <1>3, InitType DEF IInv

\* A step of a turn that stores messages of it, and sets at most its timer.
LEMMA StoringStep ==
  ASSUME IInv, TypeOK', Extends, UNCHANGED <<record, known, draft>>,
         NEW t \in Turns, NEW X \in SUBSET {Question(t), Answer(t)},
         Stored' = Stored \cup X,
         \A u \in Turns \ {t} : pc'[u] = pc[u],
         pc'[t] \notin {"idle", "planning"},
         pc'[t] \in {"answering", "generating"} => Answer(t) \notin Stored \cup X,
         \A u \in Turns : timer'[u] = timer[u]
                          \/ (u = t /\ timer'[u] = "set" /\ Answer(t) \in X)
  PROVE  IInv'
<1>1. Clocked' /\ Stored \subseteq Stored'
  BY ExtendsClocked DEF IInv
<1>2. ASSUME NEW r \in Record, Covers(r)
      PROVE  Covers(r)'
  BY <1>2, ExtendsCovers DEF IInv
<1>3. Unsent'
  <2>1. \A u \in Turns \ {t} : Question(u) \notin X /\ Answer(u) \notin X
    BY DEF Question, Answer
  <2>2. \A u \in Turns \ {t} : /\ Question(u) \in Stored' <=> Question(u) \in Stored
                               /\ Answer(u) \in Stored' <=> Answer(u) \in Stored
    BY <2>1
  <2>. QED  BY <2>2 DEF IInv, Unsent
<1>4. NothingSkipped'
  <2>1. [summary |-> summary, marker |-> marker] \in Record
    BY DEF IInv, TypeOK, Record
  <2>2. Covers([summary |-> summary, marker |-> marker])'
    <3>1. summary' = summary /\ marker' = marker
      BY DEF record
    <3>2. Covers([summary |-> summary, marker |-> marker])
      BY DEF IInv, NothingSkipped
    <3>3. \A r \in Record : Covers(r) => Covers(r)'
      BY <1>2
    <3>. QED  BY <2>1, <3>1, <3>2, <3>3 DEF Covers, After, Listed, Stored
  <2>. QED  BY <2>2 DEF NothingSkipped
<1>5. KnownCovers'
  <2>. SUFFICES ASSUME NEW u \in Turns PROVE Covers(known[u])'
    BY DEF KnownCovers
  <2>1. known[u] \in Record /\ Covers(known[u]) /\ known' = known
    BY DEF IInv, TypeOK, KnownCovers
  <2>. DEFINE k == known[u]
  <2>2. \A r \in Record : Covers(r) => Covers(r)'
    BY <1>2
  <2>. QED  BY <2>1, <2>2 DEF Covers
<1>6. DraftCovers'
  <2>. SUFFICES ASSUME NEW u \in Turns
                PROVE  /\ timer'[u] \in {"set", "writing"} => Answer(u) \in Stored'
                       /\ timer'[u] = "writing" => Covers([summary |-> draft[u], marker |-> Answer(u)])'
    BY DEF DraftCovers
  <2>1. timer'[u] \in {"set", "writing"} => Answer(u) \in Stored'
    BY <1>1 DEF IInv, DraftCovers
  <2>2. ASSUME timer'[u] = "writing"
        PROVE  Covers([summary |-> draft[u], marker |-> Answer(u)])'
    <3>1. timer[u] = "writing"
      BY <2>2
    <3>2. [summary |-> draft[u], marker |-> Answer(u)] \in Record
      BY MessagesOfTurn DEF IInv, TypeOK, Record
    <3>3. Covers([summary |-> draft[u], marker |-> Answer(u)])
      BY <3>1 DEF IInv, DraftCovers
    <3>. QED  BY <1>2, <3>2, <3>3
  <2>. QED  BY <2>1, <2>2
<1>. QED  BY <1>1, <1>3, <1>4, <1>5, <1>6 DEF IInv

\* A step that stores nothing keeps what is said of the log, and what was covered.
LEMMA LogKept ==
  ASSUME IInv, UNCHANGED log
  PROVE  /\ Stored' = Stored /\ Clocked'
         /\ \A r \in Record : Covers(r)' <=> Covers(r)
BY DEF IInv, log, Stored, Clocked, Covers, After, Listed

\* A step that stores nothing and sends no handler back.
LEMMA UnsentKept ==
  ASSUME IInv, UNCHANGED log,
         \A u \in Turns : \/ pc'[u] = pc[u]
                          \/ pc'[u] \notin {"idle", "planning", "answering", "generating"}
                          \/ pc[u] = "idle" /\ pc'[u] = "planning"
  PROVE  Unsent'
<1>1. Stored' = Stored
  BY LogKept
<1>. QED  BY <1>1 DEF IInv, Unsent

\* A step of the handlers or the callbacks that stores nothing: what it writes into
\* the record, its copies or the drafts covers as much as it must.
LEMMA QuietStep ==
  ASSUME IInv, TypeOK', UNCHANGED log,
         \A u \in Turns : \/ pc'[u] = pc[u]
                          \/ pc'[u] \notin {"idle", "planning", "answering", "generating"}
                          \/ pc[u] = "idle" /\ pc'[u] = "planning",
         NothingSkipped',
         \A u \in Turns : known'[u] = known[u] \/ Covers(known'[u]),
         \A u \in Turns :
           \/ timer'[u] = timer[u] /\ draft'[u] = draft[u]
           \/ timer'[u] \notin {"set", "writing"}
           \/ /\ timer[u] = "set" /\ timer'[u] = "writing"
              /\ Covers([summary |-> draft'[u], marker |-> Answer(u)])
  PROVE  IInv'
<1>1. Stored' = Stored /\ Clocked'
  BY LogKept
<1>2. place' = place
  BY DEF log
<1>3. KnownCovers'
  <2>. SUFFICES ASSUME NEW u \in Turns PROVE Covers(known[u])'
    BY DEF KnownCovers
  <2>1. Covers(known'[u])
    BY DEF IInv, KnownCovers
  <2>. QED  BY <1>2, <2>1 DEF Covers, After, Listed, Stored
<1>4. DraftCovers'
  <2>. SUFFICES ASSUME NEW u \in Turns
                PROVE  /\ timer'[u] \in {"set", "writing"} => Answer(u) \in Stored'
                       /\ timer'[u] = "writing" => Covers([summary |-> draft[u], marker |-> Answer(u)])'
    BY DEF DraftCovers
  <2>1. timer'[u] \in {"set", "writing"} => Answer(u) \in Stored'
    BY <1>1 DEF IInv, DraftCovers
  <2>2. timer'[u] = "writing" => Covers([summary |-> draft'[u], marker |-> Answer(u)])
    BY DEF IInv, DraftCovers
  <2>. QED  BY <1>2, <2>1, <2>2 DEF Covers, After, Listed, Stored
<1>. QED  BY <1>1, <1>3, <1>4, UnsentKept DEF IInv

\* Every step keeps the inductive invariant.
LEMMA IInvStep == NoTies /\ IInv /\ [Next]_vars => IInv'
<1>. SUFFICES ASSUME NoTies, IInv, [Next]_vars PROVE IInv'
  OBVIOUS
<1>1. TypeOK /\ TypeOK' /\ Clocked
  BY TypeStep DEF IInv
<1>2. Covers(Fresh)
  BY DEF Fresh, Covers
<1>3. ASSUME UNCHANGED <<log, record>>
      PROVE  NothingSkipped'
  BY <1>3 DEF IInv, NothingSkipped, Covers, After, Listed, Stored, log, record
<1>4. CASE Crash
  <2>1. UNCHANGED <<log, record>> /\ known' = [u \in Turns |-> Fresh]
    BY <1>4 DEF Crash
  <2>2. \A u \in Turns : pc'[u] = pc[u] \/ pc'[u] = "dead"
    BY <1>4 DEF Crash
  <2>3. \A u \in Turns : timer'[u] \notin {"set", "writing"}
    BY <1>4 DEF Crash
  <2>. QED  BY <1>1, <1>2, <1>3, <2>1, <2>2, <2>3, QuietStep
<1>5. ASSUME NEW t \in Turns, TurnStep(t)
      PROVE  IInv'
  <2>1. CASE Arrive(t)
    <3>1. /\ UNCHANGED <<log, record, timer, draft>>
          /\ known' = [known EXCEPT ![t] = [summary |-> summary, marker |-> marker]]
          /\ pc[t] = "idle" /\ pc' = [pc EXCEPT ![t] = "planning"]
      BY <2>1 DEF Arrive
    <3>2. \A u \in Turns : known'[u] = known[u] \/ Covers(known'[u])
      BY <1>1, <3>1 DEF IInv, NothingSkipped, TypeOK
    <3>. QED  BY <1>1, <1>3, <3>1, <3>2, QuietStep DEF TypeOK
  <2>2. CASE ArrivePython(t)
    <3>1. Extends /\ Stored' = Stored \cup {Question(t)}
      BY <1>1, <2>2, StoreExtends, MessagesOfTurn DEF IInv, Unsent, ArrivePython
    <3>2. Answer(t) \notin Stored \cup {Question(t)}
      BY <2>2, MessagesOfTurn DEF IInv, Unsent, ArrivePython
    <3>. QED  BY <1>1, <2>2, <3>1, <3>2, StoringStep DEF ArrivePython, TypeOK
  <2>3. CASE Post(t)
    <3>1. PICK m \in {Question(t), Answer(t)} : Store(m)
      BY <2>3 DEF Post
    <3>2. Extends /\ Stored' = Stored \cup {m}
      BY <1>1, <2>3, <3>1, StoreExtends, MessagesOfTurn DEF IInv, Unsent, Post
    <3>3. {m} \in SUBSET {Question(t), Answer(t)}
      BY <3>1
    <3>. QED  BY <1>1, <2>3, <3>2, <3>3, StoringStep DEF Post, TypeOK
  <2>4. CASE RecordSuccess(t)
    <3>1. pc' \in {[pc EXCEPT ![t] = "done"], [pc EXCEPT ![t] = "failing"]}
      BY <2>4 DEF RecordSuccess
    <3>. QED  BY <1>1, <1>3, <2>4, <3>1, QuietStep DEF RecordSuccess, TypeOK
  <2>5. CASE RecordFailure(t)
    BY <1>1, <1>3, <2>5, QuietStep DEF RecordFailure, TypeOK
  <2>6. CASE Ask(t)
    <3>1. Extends /\ Stored' = Stored \cup {Question(t)}
      BY <1>1, <2>6, StoreExtends, MessagesOfTurn DEF IInv, Unsent, Ask
    <3>2. Answer(t) \notin Stored \cup {Question(t)}
      BY <2>6, MessagesOfTurn DEF IInv, Unsent, Ask
    <3>. QED  BY <1>1, <2>6, <3>1, <3>2, StoringStep DEF Ask, TypeOK
  <2>7. CASE PlanFails(t)
    BY <1>1, <1>3, <2>7, QuietStep DEF PlanFails, TypeOK
  <2>8. CASE Reply(t)
    <3>1. Extends /\ Stored' = Stored \cup {Answer(t)}
      BY <1>1, <2>8, StoreExtends, MessagesOfTurn DEF IInv, Unsent, Reply
    <3>2. /\ pc' = [pc EXCEPT ![t] = "recording"] /\ UNCHANGED <<record, known, draft>>
          /\ timer' = timer \/ timer' = [timer EXCEPT ![t] = "set"]
      BY <2>8 DEF Reply
    <3>3. /\ \A u \in Turns \ {t} : pc'[u] = pc[u]
          /\ pc'[t] = "recording"
          /\ \A u \in Turns : timer'[u] = timer[u] \/ (u = t /\ timer'[u] = "set")
      BY <1>1, <3>2 DEF TypeOK
    <3>. QED  BY <1>1, <3>1, <3>2, <3>3, StoringStep
  <2>9. CASE GenerationFails(t)
    <3>1. pc' \in {[pc EXCEPT ![t] = "failed"], [pc EXCEPT ![t] = "failing"]}
      BY <2>9 DEF GenerationFails
    <3>. QED  BY <1>1, <1>3, <2>9, <3>1, QuietStep DEF GenerationFails, TypeOK
  <2>10. CASE Summarise(t)
    <3>1. /\ UNCHANGED <<log, record, pc>> /\ timer[t] = "set"
          /\ timer' = [timer EXCEPT ![t] = "writing"]
          /\ draft' = [draft EXCEPT ![t] = known[t].summary \cup Input(t)]
          /\ known' = [known EXCEPT ![t] = Fresh]
      BY <2>10 DEF Summarise, Forget
    <3>2. Stored \subseteq draft'[t]
      <4>1. Covers(known[t])
        BY DEF IInv, KnownCovers
      <4>2. known[t].marker \in Message \cup {NoMessage}
        BY <1>1 DEF TypeOK, Record
      <4>. QED  BY <1>1, <3>1, <4>1, <4>2 DEF Covers, Input, Unsummarised, TypeOK, Stored
    <3>3. Covers([summary |-> draft'[t], marker |-> Answer(t)])
      BY <3>1, <3>2 DEF Covers, IInv, DraftCovers
    <3>4. \A u \in Turns : known'[u] = known[u] \/ Covers(known'[u])
      BY <1>1, <1>2, <3>1 DEF TypeOK
    <3>. QED  BY <1>1, <1>3, <3>1, <3>3, <3>4, QuietStep DEF TypeOK
  <2>11. CASE SkipSummary(t)
    <3>1. \A u \in Turns : known'[u] = known[u] \/ Covers(known'[u])
      BY <1>1, <1>2, <2>11 DEF SkipSummary, Forget, TypeOK
    <3>. QED  BY <1>1, <1>3, <2>11, <3>1, QuietStep DEF SkipSummary, TypeOK
  <2>12. CASE WriteSummary(t)
    <3>1. Covers([summary |-> draft[t], marker |-> Answer(t)])
      BY <2>12 DEF IInv, DraftCovers, WriteSummary
    <3>2. NothingSkipped'
      BY <2>12, <3>1 DEF WriteSummary, NothingSkipped, Covers, After, Listed, Stored, log
    <3>. QED  BY <1>1, <2>12, <3>2, QuietStep DEF WriteSummary, TypeOK
  <2>13. CASE SummaryFails(t)
    BY <1>1, <1>3, <2>13, QuietStep DEF SummaryFails, TypeOK
  <2>. QED  BY <1>5, <2>1, <2>2, <2>3, <2>4, <2>5, <2>6, <2>7, <2>8, <2>9, <2>10, <2>11,
               <2>12, <2>13 DEF TurnStep, HandlerStep, CallbackStep
<1>6. CASE UNCHANGED vars
  BY <1>1, <1>3, <1>6, QuietStep DEF vars, log, record
<1>. QED  BY <1>4, <1>5, <1>6, NextCases

\* The inductive invariant holds whatever turns and summarisers do at once, if no two
\* messages share a millisecond.
THEOREM InductiveInvariant == NoTies => (Spec => []IInv)
<1>. SUFFICES ASSUME NoTies PROVE Spec => []IInv
  OBVIOUS
<1>1. IInv /\ [Next]_vars => IInv'
  BY IInvStep
<1>. QED  BY <1>1, InitIInv, PTL DEF Spec

\* No message is ever skipped by the summaries: what the summary lacks is listed
\* after the marker, where the next summariser finds it.
THEOREM NoMessageIsSkipped == NoTies => (Spec => []NothingSkipped)
<1>. SUFFICES ASSUME NoTies PROVE Spec => []NothingSkipped
  OBVIOUS
<1>1. IInv => NothingSkipped
  BY DEF IInv
<1>. QED  BY <1>1, InductiveInvariant, PTL

-----------------------------------------------------------------------------
(* The verdicts *)

\* What Store does to the log, whatever the clock does.
LEMMA StoreAdds ==
  ASSUME TypeOK, NEW m \in Message, Store(m)
  PROVE  /\ Stored' = Stored \cup {m} /\ newest'.no = newest.no + 1
         /\ place'[m].no = newest.no + 1
         /\ \A n \in Message : n # m => place'[n] = place[n]
<1>1. PICK gap \in Gaps : newest' = Later(newest, gap) /\ place' = [place EXCEPT ![m] = newest']
  BY DEF Store
<1>2. newest \in Place /\ newest.no \in Nat /\ newest'.no = newest.no + 1
  BY <1>1 DEF Later, TypeOK, Place
<1>3. place'[m] = newest' /\ \A n \in Message : n # m => place'[n] = place[n]
  BY <1>1 DEF TypeOK
<1>. QED  BY <1>2, <1>3 DEF Stored

\* The messages of two turns are different ones.
LEMMA TurnsApart ==
  ASSUME NEW t \in Turns, NEW u \in Turns \ {t}
  PROVE  {Question(u), Answer(u)} \cap {Question(t), Answer(t)} = {}
BY DEF Question, Answer

\* The invariant of the verdicts holds at the start.
LEMMA InitVerdictInv == Init => VerdictInv
<1>. SUFFICES ASSUME Init PROVE VerdictInv
  OBVIOUS
<1>1. Stored = {}
  BY DEF Init, Stored
<1>. QED  BY <1>1, InitType DEF VerdictInv, Unsent, Recorded, Init

\* What the invariant says of one turn.
TurnIsSound(t) ==
  /\ pc[t] \in {"idle", "planning"} => Question(t) \notin Stored
  /\ pc[t] \in {"idle", "planning", "answering", "generating"} => Answer(t) \notin Stored
  /\ pc[t] \in {"answering", "generating", "recording", "failing", "done"} => Question(t) \in Stored
  /\ pc[t] \in {"recording", "done"} => Answer(t) \in Stored
  /\ Answer(t) \in Stored /\ pc[t] # "posted" => Question(t) \in Stored
  /\ pc[t] = "done" => root[t] = {"succeeded"}
  /\ "succeeded" \in root[t] =>
       /\ Answer(t) \in Stored
       /\ pc[t] \in {"done", "failing", "failed", "dead"}
       /\ pc[t] = "done" \/ route[t] = "stream"
  /\ "failed" \in root[t] => pc[t] = "failed" /\ Question(t) \in Stored

\* It says the same of every turn.
LEMMA VerdictOfAll == VerdictInv <=> TypeOK /\ \A t \in Turns : TurnIsSound(t)
BY DEF VerdictInv, Unsent, Recorded, TurnIsSound

\* It is enough to look at the turn whose messages are stored.
LEMMA VerdictOfOne ==
  ASSUME VerdictInv, TypeOK', NEW t \in Turns, NEW X \in SUBSET {Question(t), Answer(t)},
         Stored' = Stored \cup X,
         \A u \in Turns \ {t} : pc'[u] = pc[u] /\ root'[u] = root[u] /\ route'[u] = route[u],
         TurnIsSound(t)'
  PROVE  VerdictInv'
<1>1. ASSUME NEW u \in Turns \ {t}
      PROVE  TurnIsSound(u)'
  <2>1. /\ Question(u) \in Stored' <=> Question(u) \in Stored
        /\ Answer(u) \in Stored' <=> Answer(u) \in Stored
    BY TurnsApart
  <2>. QED  BY <2>1, VerdictOfAll DEF TurnIsSound
<1>2. \A u \in Turns : TurnIsSound(u)'
  BY <1>1
<1>3. Unsent' /\ Recorded'
  BY <1>2 DEF Unsent, Recorded, TurnIsSound
<1>. QED  BY <1>3 DEF VerdictInv

\* A step of the handler of a turn that stores nothing.
LEMMA VerdictMoves ==
  ASSUME VerdictInv, TypeOK', NEW t \in Turns, UNCHANGED <<log, route>>,
         NEW P, pc' = [pc EXCEPT ![t] = P], NEW R, root' = [root EXCEPT ![t] = R],
         TurnIsSound(t)'
  PROVE  VerdictInv'
<1>1. Stored' = Stored \cup {}
  BY DEF log, Stored
<1>2. \A u \in Turns \ {t} : pc'[u] = pc[u] /\ root'[u] = root[u] /\ route'[u] = route[u]
  BY DEF VerdictInv, TypeOK
<1>. QED  BY <1>1, <1>2, VerdictOfOne

\* A step that stores nothing and touches no handler and no trace.
LEMMA VerdictKept ==
  ASSUME VerdictInv, TypeOK', UNCHANGED <<place, pc, root, route>>
  PROVE  VerdictInv'
BY DEF VerdictInv, Unsent, Recorded, Stored

\* Every step keeps the invariant of the verdicts.
LEMMA VerdictStep == VerdictInv /\ [Next]_vars => VerdictInv'
<1>. SUFFICES ASSUME VerdictInv, [Next]_vars PROVE VerdictInv'
  OBVIOUS
<1>1. TypeOK /\ TypeOK' /\ Unsent /\ Recorded
  BY TypeStep DEF VerdictInv
<1>2. CASE Crash
  <2>1. Stored' = Stored /\ root' = root /\ route' = route
    BY <1>2 DEF Crash, log, Stored
  <2>2. \A u \in Turns : pc'[u] = IF pc[u] \in Active THEN "dead" ELSE pc[u]
    BY <1>2 DEF Crash
  <2>3. Unsent'
    BY <1>1, <2>1, <2>2 DEF Unsent
  <2>4. Recorded'
    BY <1>1, <2>1, <2>2 DEF Unsent, Recorded, Active
  <2>. QED  BY <1>1, <2>3, <2>4 DEF VerdictInv
<1>3. ASSUME NEW t \in Turns, TurnStep(t)
      PROVE  VerdictInv'
  <2>. Question(t) \in Message /\ Answer(t) \in Message /\ Question(t) # Answer(t)
    BY MessagesOfTurn
  <2>. DEFINE q == {Question(t)}  a == {Answer(t)}  both == {Question(t), Answer(t)}
  <2>1. q \in SUBSET both /\ a \in SUBSET both
    OBVIOUS
  <2>2. ASSUME UNCHANGED log
        PROVE  Stored' = Stored
    BY <2>2 DEF log, Stored
  <2>. TurnIsSound(t)
    BY VerdictOfAll
  <2>3. CASE Arrive(t)
    <3>1. /\ pc[t] = "idle" /\ pc' = [pc EXCEPT ![t] = "planning"] /\ UNCHANGED <<log, root>>
      BY <2>3 DEF Arrive
    <3>2. PICK r : route' = [route EXCEPT ![t] = r]
      BY <2>3 DEF Arrive
    <3>3. Stored' = Stored /\ Stored' = Stored \cup {} /\ {} \in SUBSET both
      BY <2>2, <3>1
    <3>4. TurnIsSound(t)' /\ \A u \in Turns \ {t} : pc'[u] = pc[u] /\ route'[u] = route[u]
      BY <1>1, <3>1, <3>2, <3>3 DEF TypeOK, TurnIsSound
    <3>. QED  BY <1>1, <3>1, <3>3, <3>4, VerdictOfOne
  <2>4. CASE ArrivePython(t)
    <3>1. /\ pc[t] = "idle" /\ pc' = [pc EXCEPT ![t] = "generating"] /\ UNCHANGED root
      BY <2>4 DEF ArrivePython
    <3>2. PICK r : route' = [route EXCEPT ![t] = r]
      BY <2>4 DEF ArrivePython
    <3>3. Stored' = Stored \cup q
      BY <1>1, <2>4, StoreAdds DEF ArrivePython
    <3>4. TurnIsSound(t)' /\ \A u \in Turns \ {t} : pc'[u] = pc[u] /\ route'[u] = route[u]
      BY <1>1, <3>1, <3>2, <3>3 DEF TypeOK, TurnIsSound
    <3>. QED  BY <1>1, <2>1, <3>1, <3>3, <3>4, VerdictOfOne
  <2>5. CASE Post(t)
    <3>1. PICK m \in both : Store(m)
      BY <2>5 DEF Post
    <3>2. Stored' = Stored \cup {m} /\ {m} \in SUBSET both
      BY <1>1, <3>1, StoreAdds
    <3>3. /\ pc[t] = "idle" /\ pc' = [pc EXCEPT ![t] = "posted"] /\ UNCHANGED root
          /\ route' = [route EXCEPT ![t] = "post"]
      BY <2>5 DEF Post
    <3>4. TurnIsSound(t)' /\ \A u \in Turns \ {t} : pc'[u] = pc[u] /\ route'[u] = route[u]
      BY <1>1, <3>2, <3>3 DEF TypeOK, TurnIsSound
    <3>. QED  BY <1>1, <3>2, <3>3, <3>4, VerdictOfOne
  <2>6. CASE Ask(t)
    <3>1. /\ pc[t] = "planning" /\ UNCHANGED <<root, route>>
          /\ pc' \in {[pc EXCEPT ![t] = "generating"], [pc EXCEPT ![t] = "answering"]}
      BY <2>6 DEF Ask
    <3>2. Stored' = Stored \cup q
      BY <1>1, <2>6, StoreAdds DEF Ask
    <3>3. TurnIsSound(t)' /\ \A u \in Turns \ {t} : pc'[u] = pc[u]
      BY <1>1, <3>1, <3>2 DEF TypeOK, TurnIsSound
    <3>. QED  BY <1>1, <2>1, <3>1, <3>2, <3>3, VerdictOfOne
  <2>7. CASE PlanFails(t)
    <3>1. /\ pc[t] = "planning" /\ pc' = [pc EXCEPT ![t] = "failed"] /\ UNCHANGED <<log, root, route>>
      BY <2>7 DEF PlanFails
    <3>2. TurnIsSound(t)' /\ root' = [root EXCEPT ![t] = root[t]]
      BY <1>1, <2>2, <3>1 DEF TypeOK, TurnIsSound
    <3>. QED  BY <1>1, <3>1, <3>2, VerdictMoves
  <2>8. CASE Reply(t)
    <3>1. /\ pc[t] \in {"answering", "generating"} /\ UNCHANGED <<root, route>>
          /\ pc' = [pc EXCEPT ![t] = "recording"]
      BY <2>8 DEF Reply
    <3>2. Stored' = Stored \cup a
      BY <1>1, <2>8, StoreAdds DEF Reply
    <3>3. TurnIsSound(t)' /\ \A u \in Turns \ {t} : pc'[u] = pc[u]
      BY <1>1, <3>1, <3>2 DEF TypeOK, TurnIsSound
    <3>. QED  BY <1>1, <2>1, <3>1, <3>2, <3>3, VerdictOfOne
  <2>9. CASE RecordSuccess(t)
    <3>1. PICK P \in {"done", "failing"} :
            pc' = [pc EXCEPT ![t] = P] /\ (P = "failing" => route[t] = "stream")
      BY <2>9 DEF RecordSuccess
    <3>2. /\ pc[t] = "recording" /\ UNCHANGED <<log, route>>
          /\ root' = [root EXCEPT ![t] = @ \cup {"succeeded"}]
      BY <2>9 DEF RecordSuccess
    <3>3. root[t] = {} /\ root'[t] = {"succeeded"}
      BY <1>1, <3>2 DEF TypeOK, TurnIsSound
    <3>4. TurnIsSound(t)'
      BY <1>1, <2>2, <3>1, <3>2, <3>3 DEF TypeOK, TurnIsSound
    <3>. QED  BY <1>1, <3>1, <3>2, <3>4, VerdictMoves
  <2>10. CASE GenerationFails(t)
    <3>1. PICK P \in {"failing", "failed"} : pc' = [pc EXCEPT ![t] = P]
      BY <2>10 DEF GenerationFails
    <3>2. /\ pc[t] \in {"answering", "generating", "recording"} /\ UNCHANGED <<log, root, route>>
      BY <2>10 DEF GenerationFails
    <3>3. TurnIsSound(t)' /\ root' = [root EXCEPT ![t] = root[t]]
      BY <1>1, <2>2, <3>1, <3>2 DEF TypeOK, TurnIsSound
    <3>. QED  BY <1>1, <3>1, <3>2, <3>3, VerdictMoves
  <2>11. CASE RecordFailure(t)
    <3>1. /\ pc[t] = "failing" /\ pc' = [pc EXCEPT ![t] = "failed"] /\ UNCHANGED <<log, route>>
      BY <2>11 DEF RecordFailure
    <3>2. PICK R \in {root[t], root[t] \cup {"failed"}} : root' = [root EXCEPT ![t] = R]
      BY <1>1, <2>11 DEF RecordFailure, TypeOK
    <3>3. TurnIsSound(t)'
      BY <1>1, <2>2, <3>1, <3>2 DEF TypeOK, TurnIsSound
    <3>. QED  BY <1>1, <3>1, <3>2, <3>3, VerdictMoves
  <2>12. CASE CallbackStep(t)
    BY <1>1, <2>12, VerdictKept
       DEF CallbackStep, Summarise, SkipSummary, WriteSummary, SummaryFails, log
  <2>. QED  BY <1>3, <2>3, <2>4, <2>5, <2>6, <2>7, <2>8, <2>9, <2>10, <2>11, <2>12
            DEF TurnStep, HandlerStep
<1>4. CASE UNCHANGED vars
  BY <1>1, <1>4, VerdictKept DEF vars
<1>. QED  BY <1>2, <1>3, <1>4, NextCases

\* The trace of a turn tells the truth about it, whichever of the five handlers it was,
\* whichever of its writes failed, whenever the server died, and however many turns were
\* under way: what it says succeeded is stored, what is told as complete is on record.
THEOREM VerdictsAreTrue == Spec => []VerdictIsTrue
<1>1. ASSUME VerdictInv, NEW t \in Turns
      PROVE  /\ "succeeded" \in root[t] => {Question(t), Answer(t)} \subseteq Stored
             /\ "failed" \in root[t] => Question(t) \in Stored
             /\ pc[t] = "done" => root[t] = {"succeeded"}
             /\ root[t] = {"succeeded", "failed"} => route[t] = "stream"
  <2>1. TurnIsSound(t)
    BY <1>1, VerdictOfAll
  <2>. QED  BY <2>1 DEF TurnIsSound
<1>2. VerdictInv => VerdictIsTrue
  BY <1>1 DEF VerdictIsTrue
<1>. QED  BY <1>2, InitVerdictInv, VerdictStep, PTL DEF Spec

-----------------------------------------------------------------------------
(* The pairs *)

\* What is used of the log as it is: counts are natural, and no message is stored later
\* than the newest.
LEMMA Counts ==
  ASSUME TypeOK, Clocked
  PROVE  newest.no \in Nat /\ \A m \in Stored : place[m].no \in Nat /\ place[m].no <= newest.no
BY DEF TypeOK, Clocked, Stored, Place

\* The invariant of the pairs holds at the start.
LEMMA InitPairsInv == Init => PairsInv
<1>. SUFFICES ASSUME Init PROVE PairsInv
  OBVIOUS
<1>1. Stored = {}
  BY DEF Init, Stored
<1>2. \A t \in Turns : pc[t] = "idle"
  BY DEF Init
<1>. QED  BY <1>1, <1>2, InitVerdictInv DEF PairsInv, Clocked, OneAtATime, Numbered, Adjacent, Active

\* A step of a turn that stores a message of it, while no other turn is under way.
LEMMA PairsStored ==
  ASSUME PairsInv, VerdictInv', Clocked', NEW t \in Turns,
         NEW m \in {Question(t), Answer(t)},
         Stored' = Stored \cup {m},
         \A n \in Message \ {m} : place'[n] = place[n],
         place'[m].no = newest.no + 1, newest'.no = newest.no + 1,
         \A u \in Turns \ {t} : pc'[u] = pc[u] /\ pc[u] \notin Active,
         pc'[t] \in {"answering", "generating"} => m = Question(t),
         m = Question(t) => Answer(t) \notin Stored,
         m = Answer(t) => Question(t) \notin Stored \/ place[Question(t)].no = newest.no
  PROVE  PairsInv'
<1>. /\ Question(t) \in Message /\ Answer(t) \in Message /\ Question(t) # Answer(t)
     /\ m \in Message
  BY MessagesOfTurn
<1>1. TypeOK /\ Clocked /\ Numbered /\ Adjacent
  BY DEF PairsInv, VerdictInv
<1>2. newest.no \in Nat /\ \A n \in Stored : place[n].no \in Nat /\ place[n].no <= newest.no
  BY <1>1, Counts
<1>3. OneAtATime'
  BY DEF OneAtATime
<1>4. Numbered'
  <2>. SUFFICES ASSUME NEW n \in Stored', NEW k \in Stored', place'[n].no = place'[k].no
                PROVE  n = k
    BY DEF Numbered
  <2>. n \in Message /\ k \in Message
    BY DEF Stored
  <2>1. CASE n = m /\ k # m
    BY <1>2, <2>1
  <2>2. CASE n # m /\ k = m
    BY <1>2, <2>2
  <2>3. CASE n # m /\ k # m
    BY <1>1, <2>3 DEF Numbered
  <2>. QED  BY <2>1, <2>2, <2>3
<1>5. Adjacent'
  <2>1. ASSUME NEW u \in Turns \ {t}
        PROVE  /\ pc'[u] \notin {"answering", "generating"}
               /\ {Question(u), Answer(u)} \subseteq Stored' =>
                    place'[Answer(u)].no = place'[Question(u)].no + 1
    <3>1. /\ Question(u) \in Message \ {m} /\ Answer(u) \in Message \ {m}
      BY TurnsApart, MessagesOfTurn
    <3>2. place'[Question(u)] = place[Question(u)] /\ place'[Answer(u)] = place[Answer(u)]
      BY <3>1
    <3>. QED  BY <1>1, <2>1, <3>1, <3>2 DEF Adjacent, Active
  <2>2. pc'[t] \in {"answering", "generating"} => place'[Question(t)].no = newest'.no
    OBVIOUS
  <2>3. {Question(t), Answer(t)} \subseteq Stored' =>
          place'[Answer(t)].no = place'[Question(t)].no + 1
    OBVIOUS
  <2>. QED  BY <2>1, <2>2, <2>3 DEF Adjacent
<1>. QED  BY <1>3, <1>4, <1>5 DEF PairsInv

\* A step that stores nothing, and sends no handler back to where its question is the newest.
LEMMA PairsLeft ==
  ASSUME PairsInv, VerdictInv', UNCHANGED log, OneAtATime',
         \A u \in Turns : pc'[u] \in {"answering", "generating"} => pc'[u] = pc[u]
  PROVE  PairsInv'
<1>1. Clocked' /\ Numbered' /\ Adjacent'
  BY DEF PairsInv, Clocked, Numbered, Adjacent, Stored, log
<1>. QED  BY <1>1 DEF PairsInv

\* A step of the handler of a turn under way that stores nothing.
LEMMA PairsMove ==
  ASSUME PairsInv, VerdictInv', UNCHANGED log, NEW t \in Turns, pc[t] \in Active,
         NEW P \in {"done", "failing", "failed"}, pc' = [pc EXCEPT ![t] = P]
  PROVE  PairsInv'
<1>1. \A u \in Turns : pc'[u] = IF u = t THEN P ELSE pc[u]
  BY DEF PairsInv, VerdictInv, TypeOK
<1>2. OneAtATime'
  BY <1>1 DEF PairsInv, OneAtATime
<1>. QED  BY <1>1, <1>2, PairsLeft

\* If requests do not overlap, every step keeps the invariant of the pairs.
LEMMA PairsStep == NoTies /\ ~Overlap /\ PairsInv /\ [Next]_vars => PairsInv'
<1>. SUFFICES ASSUME NoTies, ~Overlap, PairsInv, [Next]_vars PROVE PairsInv'
  OBVIOUS
<1>1. TypeOK /\ VerdictInv /\ VerdictInv' /\ Unsent /\ Recorded /\ Clocked /\ OneAtATime /\ Adjacent
  BY VerdictStep DEF PairsInv, VerdictInv
<1>2. newest.no \in Nat /\ \A m \in Stored : place[m].no \in Nat /\ place[m].no <= newest.no
  BY <1>1, Counts
<1>3. CASE Crash
  <2>1. UNCHANGED log /\ \A u \in Turns : pc'[u] = IF pc[u] \in Active THEN "dead" ELSE pc[u]
    BY <1>3 DEF Crash
  <2>2. \A u \in Turns : pc'[u] \notin Active
    BY <2>1 DEF Active
  <2>. QED  BY <1>1, <2>1, <2>2, PairsLeft DEF OneAtATime, Active
<1>4. ASSUME NEW t \in Turns, TurnStep(t)
      PROVE  PairsInv'
  <2>. Question(t) \in Message /\ Answer(t) \in Message /\ Question(t) # Answer(t)
    BY MessagesOfTurn
  <2>. DEFINE both == {Question(t), Answer(t)}
  <2>1. ASSUME MayArrive
        PROVE  \A u \in Turns : pc[u] \notin Active
    BY <2>1 DEF MayArrive
  <2>2. ASSUME pc[t] \in Active
        PROVE  \A u \in Turns \ {t} : pc[u] \notin Active
    BY <1>1, <2>2 DEF OneAtATime
  <2>3. ASSUME NEW m \in both, Store(m), m \notin Stored
        PROVE  /\ Clocked' /\ {m} \in SUBSET both /\ Stored' = Stored \cup {m}
               /\ \A n \in Message \ {m} : place'[n] = place[n]
               /\ place'[m].no = newest.no + 1 /\ newest'.no = newest.no + 1
    <3>1. m \in Message
      OBVIOUS
    <3>2. Extends
      BY <1>1, <2>3, <3>1, StoreExtends
    <3>. QED  BY <1>1, <2>3, <3>1, <3>2, StoreAdds, ExtendsClocked
  <2>4. CASE Arrive(t)
    <3>1. pc' = [pc EXCEPT ![t] = "planning"] /\ UNCHANGED log /\ \A u \in Turns : pc[u] \notin Active
      BY <2>1, <2>4 DEF Arrive
    <3>2. \A u \in Turns \ {t} : pc'[u] = pc[u]
      BY <1>1, <3>1 DEF TypeOK
    <3>3. pc'[t] = "planning"
      BY <1>1, <3>1 DEF TypeOK
    <3>4. OneAtATime'
      BY <3>1, <3>2 DEF OneAtATime
    <3>. QED  BY <1>1, <3>1, <3>2, <3>3, <3>4, PairsLeft
  <2>5. CASE ArrivePython(t)
    <3>1. /\ Store(Question(t)) /\ pc[t] = "idle" /\ pc' = [pc EXCEPT ![t] = "generating"]
          /\ \A u \in Turns : pc[u] \notin Active
      BY <2>1, <2>5 DEF ArrivePython
    <3>2. /\ Question(t) \notin Stored /\ Answer(t) \notin Stored
          /\ pc'[t] = "generating" /\ \A u \in Turns \ {t} : pc'[u] = pc[u]
      BY <1>1, <3>1 DEF Unsent, TypeOK
    <3>3. /\ Clocked' /\ {Question(t)} \in SUBSET both /\ Stored' = Stored \cup {Question(t)}
          /\ \A n \in Message \ {Question(t)} : place'[n] = place[n]
          /\ place'[Question(t)].no = newest.no + 1 /\ newest'.no = newest.no + 1
      BY <2>3, <3>1, <3>2
    <3>. QED  BY <1>1, <3>1, <3>2, <3>3, PairsStored
  <2>6. CASE Post(t)
    <3>1. /\ pc[t] = "idle" /\ pc' = [pc EXCEPT ![t] = "posted"] /\ \A u \in Turns : pc[u] \notin Active
      BY <2>1, <2>6 DEF Post
    <3>2. PICK m \in both : Store(m)
      BY <2>6 DEF Post
    <3>3. Question(t) \notin Stored /\ Answer(t) \notin Stored /\ pc'[t] = "posted" /\ \A u \in Turns \ {t} : pc'[u] = pc[u]
      BY <1>1, <3>1 DEF Unsent, TypeOK
    <3>4. /\ Clocked' /\ {m} \in SUBSET both /\ Stored' = Stored \cup {m}
          /\ \A n \in Message \ {m} : place'[n] = place[n]
          /\ place'[m].no = newest.no + 1 /\ newest'.no = newest.no + 1
      BY <2>3, <3>2, <3>3
    <3>. QED  BY <1>1, <3>1, <3>3, <3>4, PairsStored
  <2>7. CASE Ask(t)
    <3>1. /\ Store(Question(t)) /\ pc[t] = "planning"
          /\ pc' \in {[pc EXCEPT ![t] = "generating"], [pc EXCEPT ![t] = "answering"]}
      BY <2>7 DEF Ask
    <3>2. /\ Question(t) \notin Stored /\ Answer(t) \notin Stored
          /\ \A u \in Turns \ {t} : pc'[u] = pc[u]
      BY <1>1, <3>1 DEF Unsent, TypeOK
    <3>3. /\ Clocked' /\ {Question(t)} \in SUBSET both /\ Stored' = Stored \cup {Question(t)}
          /\ \A n \in Message \ {Question(t)} : place'[n] = place[n]
          /\ place'[Question(t)].no = newest.no + 1 /\ newest'.no = newest.no + 1
      BY <2>3, <3>1, <3>2
    <3>4. \A u \in Turns \ {t} : pc[u] \notin Active
      BY <2>2, <3>1 DEF Active
    <3>. QED  BY <1>1, <3>2, <3>3, <3>4, PairsStored
  <2>8. CASE Reply(t)
    <3>1. /\ Store(Answer(t)) /\ pc[t] \in {"answering", "generating"}
          /\ pc' = [pc EXCEPT ![t] = "recording"]
      BY <2>8 DEF Reply
    <3>2. Answer(t) \notin Stored /\ place[Question(t)].no = newest.no
      BY <1>1, <3>1 DEF Unsent, Adjacent
    <3>3. /\ Clocked' /\ {Answer(t)} \in SUBSET both /\ Stored' = Stored \cup {Answer(t)}
          /\ \A n \in Message \ {Answer(t)} : place'[n] = place[n]
          /\ place'[Answer(t)].no = newest.no + 1 /\ newest'.no = newest.no + 1
      BY <2>3, <3>1, <3>2
    <3>4. \A u \in Turns \ {t} : pc[u] \notin Active
      BY <2>2, <3>1 DEF Active
    <3>5. pc'[t] = "recording" /\ \A u \in Turns \ {t} : pc'[u] = pc[u]
      BY <1>1, <3>1 DEF TypeOK
    <3>. QED  BY <1>1, <3>2, <3>3, <3>4, <3>5, PairsStored
  <2>9. CASE PlanFails(t) \/ RecordFailure(t)
    <3>1. pc' = [pc EXCEPT ![t] = "failed"] /\ UNCHANGED log /\ pc[t] \in Active
      BY <2>9 DEF PlanFails, RecordFailure, Active
    <3>. QED  BY <1>1, <3>1, PairsMove
  <2>10. CASE RecordSuccess(t)
    <3>1. UNCHANGED log /\ pc[t] \in Active
      BY <2>10 DEF RecordSuccess, Active
    <3>2. PICK P \in {"done", "failing"} : pc' = [pc EXCEPT ![t] = P]
      BY <2>10 DEF RecordSuccess
    <3>. QED  BY <1>1, <3>1, <3>2, PairsMove
  <2>11. CASE GenerationFails(t)
    <3>1. UNCHANGED log /\ pc[t] \in Active
      BY <2>11 DEF GenerationFails, Active
    <3>2. PICK P \in {"failing", "failed"} : pc' = [pc EXCEPT ![t] = P]
      BY <2>11 DEF GenerationFails
    <3>. QED  BY <1>1, <3>1, <3>2, PairsMove
  <2>12. CASE CallbackStep(t)
    <3>1. UNCHANGED <<log, pc>>
      BY <2>12 DEF CallbackStep, Summarise, SkipSummary, WriteSummary, SummaryFails
    <3>. QED  BY <1>1, <3>1, PairsLeft DEF OneAtATime
  <2>. QED  BY <1>4, <2>4, <2>5, <2>6, <2>7, <2>8, <2>9, <2>10, <2>11, <2>12
            DEF TurnStep, HandlerStep
<1>5. CASE UNCHANGED vars
  BY <1>1, <1>5, PairsLeft DEF vars, OneAtATime, log
<1>. QED  BY <1>3, <1>4, <1>5, NextCases

\* Of adjacent messages the list makes one pair.
LEMMA AdjacentIsPair ==
  ASSUME PairsInv, NEW t \in Turns, {Question(t), Answer(t)} \subseteq Stored
  PROVE  Pair(Question(t)) = {Question(t), Answer(t)}
<1>. DEFINE q == Question(t)  a == Answer(t)
<1>1. TypeOK /\ Clocked /\ Numbered
  BY DEF PairsInv, VerdictInv
<1>2. q \in Stored /\ a \in Stored /\ place[a].no = place[q].no + 1 /\ a.role = "assistant"
  BY DEF PairsInv, Adjacent, Answer
<1>. HIDE DEF q, a
<1>3. After(q) = {n \in Stored : place[q].no < place[n].no}
  BY <1>1, <1>2, AfterByCount
<1>4. \A m \in Stored : place[m].no \in Nat
  BY <1>1, Counts
<1>5. a \in After(q)
  BY <1>2, <1>3, <1>4
<1>6. \A m \in After(q) : ~Listed(m, a)
  BY <1>1, <1>2, <1>3, <1>4, ListedByCount
<1>7. ASSUME NEW m \in After(q), m # a
      PROVE  Listed(a, m)
  <2>1. place[m].no > place[a].no
    BY <1>1, <1>2, <1>3, <1>4, <1>7 DEF Numbered
  <2>. QED  BY <1>1, <1>2, <1>3, <2>1, ListedByCount
<1>. QED  BY <1>2, <1>5, <1>6, <1>7 DEF Pair, q, a

\* A turn whose question and answer are stored is one pair of the later context, even if
\* its handler died or failed before it recorded the turn, if the client waits for the
\* end of one request before it sends again and no two messages share a millisecond.
THEOREM PairsAreKept == NoTies /\ ~Overlap => (Spec => []PairsKept)
<1>. SUFFICES ASSUME NoTies, ~Overlap PROVE Spec => []PairsKept
  OBVIOUS
<1>1. PairsInv /\ [Next]_vars => PairsInv'
  BY PairsStep
<1>2. PairsInv => PairsKept
  BY AdjacentIsPair DEF PairsKept
<1>. QED  BY <1>1, <1>2, InitPairsInv, PTL DEF Spec

-----------------------------------------------------------------------------
(* The cost of a set of messages *)

USE SizeAssumption

\* What MapThenSumSet adds up, one message after another.
Picked(s) == CHOOSE m \in s : TRUE
Sum(f, s) == IF s = {} THEN 0 ELSE Size[Picked(s)] + f[s \ {Picked(s)}]
IsCost(f, S) == f = [s \in SUBSET S |-> IF s = {} THEN 0 ELSE Size[Picked(s)] + f[s \ {Picked(s)}]]
CostOf(S) == CHOOSE f : IsCost(f, S)

\* The cost is the value of the recursive function in MapThenFoldSet.
LEMMA CostIsFold ==
  ASSUME NEW S
  PROVE  Cost(S) = CostOf(S)[S]
BY Zenon DEF Cost, MapThenSumSet, MapThenFoldSet, CostOf, IsCost, Picked

\* A finite set without one of its elements.
LEMMA Smaller ==
  ASSUME NEW S, IsFiniteSet(S), NEW s \in SUBSET S
  PROVE  /\ IsFiniteSet(s) /\ Cardinality(s) \in Nat /\ Cardinality(s) <= Cardinality(S)
         /\ Cardinality(s) = 0 <=> s = {}
         /\ s # {} => Picked(s) \in s
         /\ \A x \in s : Cardinality(s \ {x}) = Cardinality(s) - 1 /\ s \ {x} \in SUBSET S
<1>1. IsFiniteSet(s) /\ Cardinality(s) \in Nat /\ Cardinality(s) <= Cardinality(S)
  BY FS_Subset, FS_CardinalityType
<1>2. Cardinality(s) = 0 <=> s = {}
  BY <1>1, FS_EmptySet
<1>3. \A x \in s : Cardinality(s \ {x}) = Cardinality(s) - 1
  BY <1>1, FS_RemoveElement
<1>4. s # {} => Picked(s) \in s
  BY DEF Picked
<1>. QED  BY <1>1, <1>2, <1>3, <1>4

\* The recursion has a solution on the subsets of a finite set.
LEMMA CostExists ==
  ASSUME NEW S \in SUBSET Message, IsFiniteSet(S)
  PROVE  \E f \in [SUBSET S -> Nat] : IsCost(f, S)
<1>. DEFINE N == Cardinality(S)
           Solves(g, n) == \A s \in SUBSET S : Cardinality(s) <= n => g[s] = Sum(g, s)
           Good == {n \in Nat : \E g \in [SUBSET S -> Nat] : Solves(g, n)}
<1>1. N \in Nat
  BY FS_CardinalityType
<1>2. 0 \in Good
  <2>. DEFINE g == [s \in SUBSET S |-> 0]
  <2>1. \A s \in SUBSET S : Cardinality(s) <= 0 => s = {}
    BY Smaller
  <2>2. g \in [SUBSET S -> Nat] /\ Solves(g, 0)
    BY <2>1 DEF Sum
  <2>. QED  BY <2>2
<1>3. ASSUME NEW n \in 0..(N - 1), n \in Good
      PROVE  n + 1 \in Good
  <2>1. PICK g \in [SUBSET S -> Nat] : Solves(g, n)
    BY <1>3
  <2>. DEFINE h == [s \in SUBSET S |-> IF Cardinality(s) <= n THEN g[s] ELSE Sum(g, s)]
  <2>2. ASSUME NEW s \in SUBSET S
        PROVE  Sum(g, s) \in Nat
    <3>1. CASE s = {}
      BY <3>1 DEF Sum
    <3>2. CASE s # {}
      <4>1. Picked(s) \in Message /\ s \ {Picked(s)} \in SUBSET S
        BY <3>2, Smaller
      <4>. QED  BY <3>2, <4>1 DEF Sum
    <3>. QED  BY <3>1, <3>2
  <2>3. h \in [SUBSET S -> Nat]
    BY <2>2
  <2>4. ASSUME NEW s \in SUBSET S, Cardinality(s) <= n + 1
        PROVE  h[s] = Sum(h, s)
    <3>1. h[s] = Sum(g, s)
      BY <2>1
    <3>2. CASE s = {}
      BY <3>1, <3>2 DEF Sum
    <3>3. CASE s # {}
      <4>. DEFINE r == s \ {Picked(s)}
      <4>1. r \in SUBSET S /\ Cardinality(r) <= n
        BY <1>3, <2>4, <3>3, Smaller
      <4>2. h[r] = g[r]
        BY <4>1
      <4>. QED  BY <3>1, <3>3, <4>2 DEF Sum
    <3>. QED  BY <3>2, <3>3
  <2>5. Solves(h, n + 1)
    BY <2>4
  <2>. HIDE DEF h, Solves
  <2>. QED  BY <1>3, <2>3, <2>5
<1>4. N \in Good
  <2>. HIDE DEF Good, N
  <2>. QED  BY <1>1, <1>2, <1>3, Induction
<1>5. PICK f \in [SUBSET S -> Nat] : Solves(f, N)
  BY <1>4
<1>6. \A s \in SUBSET S : f[s] = Sum(f, s)
  BY <1>5, Smaller
<1>7. IsCost(f, S)
  BY <1>6 DEF IsCost, Sum
<1>. QED  BY <1>7

\* Two solutions agree where both are defined.
LEMMA CostsAgree ==
  ASSUME NEW S, IsFiniteSet(S), NEW T, NEW f, NEW g, IsCost(f, S), IsCost(g, T),
         NEW s \in SUBSET S, s \in SUBSET T
  PROVE  f[s] = g[s]
<1>. DEFINE N == Cardinality(S)
           Good == {n \in Nat : \A r \in SUBSET (S \cap T) : Cardinality(r) <= n => f[r] = g[r]}
<1>0. \A r \in SUBSET (S \cap T) : f[r] = Sum(f, r) /\ g[r] = Sum(g, r)
  <2>1. \A r \in SUBSET S : f[r] = Sum(f, r)
    BY Zenon DEF IsCost, Sum
  <2>2. \A r \in SUBSET T : g[r] = Sum(g, r)
    BY Zenon DEF IsCost, Sum
  <2>. QED  BY <2>1, <2>2
<1>1. N \in Nat
  BY FS_CardinalityType
<1>2. 0 \in Good
  <2>1. ASSUME NEW r \in SUBSET (S \cap T), Cardinality(r) <= 0
        PROVE  f[r] = g[r]
    <3>1. r \in SUBSET S /\ r \in SUBSET T
      OBVIOUS
    <3>2. r = {}
      BY <2>1, <3>1, Smaller
    <3>. QED  BY <1>0, <2>1, <3>2 DEF Sum
  <2>. QED  BY <2>1
<1>3. ASSUME NEW n \in 0..(N - 1), n \in Good
      PROVE  n + 1 \in Good
  <2>1. ASSUME NEW r \in SUBSET (S \cap T), Cardinality(r) <= n + 1
        PROVE  f[r] = g[r]
    <3>1. r \in SUBSET S /\ r \in SUBSET T
      OBVIOUS
    <3>2. CASE r = {}
      BY <1>0, <2>1, <3>2 DEF Sum
    <3>3. CASE r # {}
      <4>1. r \ {Picked(r)} \in SUBSET (S \cap T) /\ Cardinality(r \ {Picked(r)}) <= n
        BY <1>3, <2>1, <3>1, <3>3, Smaller
      <4>2. f[r \ {Picked(r)}] = g[r \ {Picked(r)}]
        BY <1>3, <4>1
      <4>. QED  BY <1>0, <2>1, <3>3, <4>2 DEF Sum
    <3>. QED  BY <3>2, <3>3
  <2>. QED  BY <1>3, <2>1
<1>4. N \in Good
  <2>. HIDE DEF Good, N
  <2>. QED  BY <1>1, <1>2, <1>3, Induction
<1>. QED  BY <1>4, Smaller

\* The cost of a finite set: that of one of its messages and that of the rest.
LEMMA CostRecursion ==
  ASSUME NEW S \in SUBSET Message, IsFiniteSet(S)
  PROVE  /\ Cost(S) \in Nat /\ Cost({}) = 0
         /\ S # {} => Cost(S) = Size[Picked(S)] + Cost(S \ {Picked(S)})
<1>1. ASSUME NEW T \in SUBSET Message, IsFiniteSet(T)
      PROVE  IsCost(CostOf(T), T)
  BY <1>1, CostExists DEF CostOf
<1>2. PICK f \in [SUBSET S -> Nat] : IsCost(f, S)
  BY CostExists
<1>3. ASSUME NEW s \in SUBSET S
      PROVE  Cost(s) = f[s] /\ f[s] = Sum(f, s)
  <2>1. IsFiniteSet(s) /\ s \in SUBSET Message
    BY Smaller
  <2>2. IsCost(CostOf(s), s)
    BY <1>1, <2>1
  <2>3. CostOf(s)[s] = f[s]
    BY <1>2, <2>1, <2>2, CostsAgree
  <2>4. f[s] = Sum(f, s)
    BY <1>2, Zenon DEF IsCost, Sum
  <2>. QED  BY <2>3, <2>4, CostIsFold
<1>4. Cost(S) \in Nat /\ Cost({}) = 0
  BY <1>2, <1>3 DEF Sum
<1>5. S # {} => Cost(S) = Size[Picked(S)] + Cost(S \ {Picked(S)})
  BY <1>3 DEF Sum
<1>. QED  BY <1>4, <1>5

\* Whichever message is taken first.
LEMMA CostWithout ==
  ASSUME NEW S \in SUBSET Message, IsFiniteSet(S), NEW m \in S
  PROVE  Cost(S) = Size[m] + Cost(S \ {m})
<1>. DEFINE N == Cardinality(S)
           Good == {n \in Nat : \A s \in SUBSET S : Cardinality(s) <= n =>
                                  \A x \in s : Cost(s) = Size[x] + Cost(s \ {x})}
<1>1. N \in Nat
  BY FS_CardinalityType
<1>2. 0 \in Good
  BY Smaller
<1>3. ASSUME NEW n \in 0..(N - 1), n \in Good
      PROVE  n + 1 \in Good
  <2>1. ASSUME NEW s \in SUBSET S, Cardinality(s) <= n + 1, NEW x \in s
        PROVE  Cost(s) = Size[x] + Cost(s \ {x})
    <3>. DEFINE y == Picked(s)
    <3>1. y \in s /\ IsFiniteSet(s) /\ s \in SUBSET Message
      BY Smaller
    <3>2. Cost(s) = Size[y] + Cost(s \ {y})
      BY <3>1, CostRecursion
    <3>3. CASE x = y
      BY <3>2, <3>3
    <3>4. CASE x # y
      <4>. HIDE DEF y
      <4>1. s \ {y} \in SUBSET S /\ Cardinality(s \ {y}) <= n /\ x \in s \ {y}
        BY <1>3, <2>1, <3>1, <3>4, Smaller
      <4>2. s \ {x} \in SUBSET S /\ Cardinality(s \ {x}) <= n /\ y \in s \ {x}
        BY <1>3, <2>1, <3>1, <3>4, Smaller
      <4>3. Cost(s \ {y}) = Size[x] + Cost((s \ {y}) \ {x})
        BY <1>3, <4>1
      <4>4. Cost(s \ {x}) = Size[y] + Cost((s \ {x}) \ {y})
        BY <1>3, <4>2
      <4>5. (s \ {y}) \ {x} = (s \ {x}) \ {y} /\ IsFiniteSet((s \ {x}) \ {y})
            /\ (s \ {x}) \ {y} \in SUBSET Message
        BY <3>1, Smaller
      <4>6. Cost((s \ {x}) \ {y}) \in Nat
        BY <4>5, CostRecursion
      <4>7. Size[x] \in Nat /\ Size[y] \in Nat
        BY <3>1
      <4>8. Cost(s \ {y}) = Size[x] + Cost((s \ {x}) \ {y})
        BY <4>3, <4>5
      <4>9. \A i, j, k \in Nat : i + (j + k) = j + (i + k)
        OBVIOUS
      <4>10. Size[y] + (Size[x] + Cost((s \ {x}) \ {y})) = Size[x] + (Size[y] + Cost((s \ {x}) \ {y}))
        BY ONLY <4>6, <4>7, <4>9
      <4>. QED  BY ONLY <3>2, <4>4, <4>8, <4>10
    <3>. QED  BY <3>3, <3>4
  <2>. QED  BY <1>3, <2>1
<1>4. N \in Good
  <2>. HIDE DEF Good, N
  <2>. QED  BY <1>1, <1>2, <1>3, Induction
<1>. QED  BY <1>4, Smaller

\* A part of a set costs no more than the set.
LEMMA PartCostsLess ==
  ASSUME NEW T \in SUBSET Message, IsFiniteSet(T), NEW S \in SUBSET T
  PROVE  Cost(S) \in Nat /\ Cost(T) \in Nat /\ Cost(S) <= Cost(T)
<1>. DEFINE N == Cardinality(T)
           Good == {n \in Nat : \A s \in SUBSET T : Cardinality(s) <= n =>
                                  \A r \in SUBSET s : Cost(r) <= Cost(s)}
<1>0. \A s \in SUBSET T : Cost(s) \in Nat
  <2>1. \A s \in SUBSET T : s \in SUBSET Message /\ IsFiniteSet(s)
    BY Smaller
  <2>. QED  BY <2>1, CostRecursion
<1>1. N \in Nat
  BY FS_CardinalityType
<1>2. 0 \in Good
  <2>1. ASSUME NEW s \in SUBSET T, Cardinality(s) <= 0, NEW r \in SUBSET s
        PROVE  Cost(r) <= Cost(s)
    <3>1. s = {} /\ r = s
      <4>1. s = {}
        BY <2>1, Smaller
      <4>. QED  BY <4>1
    <3>. QED  BY <1>0, <3>1
  <2>. QED  BY <2>1
<1>3. ASSUME NEW n \in 0..(N - 1), n \in Good
      PROVE  n + 1 \in Good
  <2>1. ASSUME NEW s \in SUBSET T, Cardinality(s) <= n + 1, NEW r \in SUBSET s
        PROVE  Cost(r) <= Cost(s)
    <3>1. CASE r = s
      BY <1>0, <3>1
    <3>2. ASSUME NEW x \in s \ r
          PROVE  Cost(r) <= Cost(s)
      <4>1. s \ {x} \in SUBSET T /\ Cardinality(s \ {x}) <= n /\ r \in SUBSET (s \ {x})
        BY <1>3, <2>1, Smaller
      <4>2. Cost(r) <= Cost(s \ {x})
        BY <1>3, <4>1
      <4>3. Cost(s) = Size[x] + Cost(s \ {x})
        <5>1. s \in SUBSET Message /\ IsFiniteSet(s)
          BY Smaller
        <5>. QED  BY <5>1, CostWithout
      <4>4. Size[x] \in Nat /\ Cost(r) \in Nat /\ Cost(s) \in Nat /\ Cost(s \ {x}) \in Nat
        BY <1>0, <4>1
      <4>. QED  BY ONLY <4>2, <4>3, <4>4
    <3>. QED  BY <3>1, <3>2
  <2>. QED  BY <1>3, <2>1
<1>4. N \in Good
  <2>. HIDE DEF Good, N
  <2>. QED  BY <1>1, <1>2, <1>3, Induction
<1>. QED  BY <1>0, <1>4, Smaller

-----------------------------------------------------------------------------
(* The context *)

\* The history is made of what is stored.
LEMMA HistoryKept ==
  ASSUME UNCHANGED log
  PROVE  Stored' = Stored /\ History' = History
<1>1. Stored' = Stored
  BY DEF log, Stored
<1>2. \A m : After(m)' = After(m)
  BY <1>1 DEF log, After, Listed
<1>3. Questions' = Questions /\ \A q : Pair(q)' = Pair(q)
  BY <1>1, <1>2 DEF log, Questions, Pair, Listed
<1>4. Recent' = Recent
  BY <1>2, <1>3 DEF Recent
<1>. QED  BY <1>1, <1>2, <1>3, <1>4 DEF History

\* The invariant of the context holds at the start.
LEMMA InitContextInv == Init => ContextInv
<1>. SUFFICES ASSUME Init PROVE ContextInv
  OBVIOUS
<1>1. Stored = {}
  BY DEF Init, Stored
<1>2. IsFiniteSet(Stored)
  BY <1>1, FS_EmptySet
<1>3. \A t \in Turns : pc[t] = "idle"
  BY DEF Init
<1>. QED  BY <1>2, <1>3, InitPairsInv DEF ContextInv, WindowsAreNew

\* A step that stores nothing.
LEMMA ContextLeft ==
  ASSUME ContextInv, PairsInv', UNCHANGED log,
         \A t \in Turns : pc'[t] = "planning" => window'[t] = History,
         \A t \in Turns : pc'[t] = "posted" => route'[t] = "post"
  PROVE  ContextInv'
<1>1. Stored' = Stored /\ History' = History
  BY HistoryKept
<1>2. IsFiniteSet(Stored')
  BY <1>1 DEF ContextInv
<1>. QED  BY <1>1, <1>2 DEF ContextInv, WindowsAreNew

\* A step that stores a message, while no turn plans.
LEMMA ContextStored ==
  ASSUME ContextInv, PairsInv', NEW m, Stored' = Stored \cup {m},
         \A u \in Turns : pc'[u] # "planning",
         \A u \in Turns : pc'[u] = "posted" => route'[u] = "post"
  PROVE  ContextInv'
<1>1. IsFiniteSet(Stored) /\ IsFiniteSet({m})
  BY FS_Singleton DEF ContextInv
<1>2. IsFiniteSet(Stored')
  BY <1>1, FS_Union
<1>. QED  BY <1>2 DEF ContextInv, WindowsAreNew

\* If requests do not overlap, every step keeps the invariant of the context.
LEMMA ContextStep == NoTies /\ ~Overlap /\ ContextInv /\ [Next]_vars => ContextInv'
<1>. SUFFICES ASSUME NoTies, ~Overlap, ContextInv, [Next]_vars PROVE ContextInv'
  OBVIOUS
<1>1. PairsInv /\ PairsInv' /\ TypeOK /\ OneAtATime /\ WindowsAreNew
  BY PairsStep DEF ContextInv, PairsInv, VerdictInv
<1>2. \A u \in Turns : pc[u] = "posted" => route[u] = "post"
  BY DEF ContextInv
<1>3. CASE Crash
  <2>1. /\ UNCHANGED <<log, route>>
        /\ \A u \in Turns : pc'[u] = IF pc[u] \in Active THEN "dead" ELSE pc[u]
    BY <1>3 DEF Crash
  <2>2. \A u \in Turns : pc'[u] # "planning" /\ (pc'[u] = "posted" => pc[u] = "posted")
    BY <2>1 DEF Active
  <2>. QED  BY <1>1, <1>2, <2>1, <2>2, ContextLeft
<1>4. ASSUME NEW t \in Turns, TurnStep(t)
      PROVE  ContextInv'
  <2>. Question(t) \in Message /\ Answer(t) \in Message /\ Question(t) # Answer(t)
    BY MessagesOfTurn
  <2>1. ASSUME MayArrive
        PROVE  \A u \in Turns : pc[u] # "planning"
    BY <2>1 DEF MayArrive, Active
  <2>2. ASSUME pc[t] \in Active
        PROVE  \A u \in Turns \ {t} : pc[u] # "planning"
    BY <1>1, <2>2 DEF OneAtATime, Active
  <2>3. CASE Arrive(t)
    <3>1. /\ \A u \in Turns : pc[u] # "planning"
          /\ pc[t] = "idle" /\ pc' = [pc EXCEPT ![t] = "planning"] /\ UNCHANGED log
          /\ window' = [window EXCEPT ![t] = History]
      BY <2>1, <2>3 DEF Arrive
    <3>2. PICK r : route' = [route EXCEPT ![t] = r]
      BY <2>3 DEF Arrive
    <3>3. window'[t] = History /\ pc'[t] = "planning"
      BY <1>1, <3>1 DEF TypeOK
    <3>4. \A u \in Turns \ {t} : pc'[u] = pc[u] /\ route'[u] = route[u]
      BY <1>1, <3>1, <3>2 DEF TypeOK
    <3>. QED  BY <1>1, <1>2, <3>1, <3>3, <3>4, ContextLeft
  <2>4. CASE ArrivePython(t)
    <3>1. /\ \A u \in Turns : pc[u] # "planning"
          /\ pc' = [pc EXCEPT ![t] = "generating"] /\ Store(Question(t))
      BY <2>1, <2>4 DEF ArrivePython
    <3>2. PICK r : route' = [route EXCEPT ![t] = r]
      BY <2>4 DEF ArrivePython
    <3>3. Stored' = Stored \cup {Question(t)}
      BY <1>1, <3>1, StoreAdds
    <3>4. pc'[t] = "generating" /\ \A u \in Turns \ {t} : pc'[u] = pc[u] /\ route'[u] = route[u]
      BY <1>1, <3>1, <3>2 DEF TypeOK
    <3>5. /\ \A u \in Turns : pc'[u] # "planning"
          /\ \A u \in Turns : pc'[u] = "posted" => route'[u] = "post"
      BY <1>2, <3>1, <3>4
    <3>. QED  BY <1>1, <3>3, <3>5, ContextStored
  <2>5. CASE Post(t)
    <3>1. /\ \A u \in Turns : pc[u] # "planning"
          /\ pc' = [pc EXCEPT ![t] = "posted"] /\ route' = [route EXCEPT ![t] = "post"]
      BY <2>1, <2>5 DEF Post
    <3>2. PICK m \in {Question(t), Answer(t)} : Store(m)
      BY <2>5 DEF Post
    <3>3. Stored' = Stored \cup {m}
      BY <1>1, <3>2, StoreAdds
    <3>4. /\ pc'[t] = "posted" /\ route'[t] = "post"
          /\ \A u \in Turns \ {t} : pc'[u] = pc[u] /\ route'[u] = route[u]
      BY <1>1, <3>1 DEF TypeOK
    <3>5. /\ \A u \in Turns : pc'[u] # "planning"
          /\ \A u \in Turns : pc'[u] = "posted" => route'[u] = "post"
      BY <1>2, <3>1, <3>4
    <3>. QED  BY <1>1, <3>3, <3>5, ContextStored
  <2>6. ASSUME UNCHANGED route, pc[t] \in Active,
               NEW P \in (Active \ {"planning"}) \cup {"done", "failed"}, pc' = [pc EXCEPT ![t] = P]
        PROVE  /\ \A u \in Turns : pc'[u] # "planning"
               /\ \A u \in Turns : pc'[u] = "posted" => route'[u] = "post"
    <3>1. \A u \in Turns : pc'[u] = IF u = t THEN P ELSE pc[u]
      BY <1>1, <2>6 DEF TypeOK
    <3>. QED  BY <1>2, <2>2, <2>6, <3>1 DEF Active
  <2>7. ASSUME UNCHANGED <<log, route>>, pc[t] \in Active,
               NEW P \in {"done", "failing", "failed"}, pc' = [pc EXCEPT ![t] = P]
        PROVE  ContextInv'
    <3>1. P \in (Active \ {"planning"}) \cup {"done", "failed"}
      BY <2>7 DEF Active
    <3>2. /\ \A u \in Turns : pc'[u] # "planning"
          /\ \A u \in Turns : pc'[u] = "posted" => route'[u] = "post"
      BY <2>6, <2>7, <3>1
    <3>. QED  BY <1>1, <2>7, <3>2, ContextLeft
  <2>8. CASE Ask(t)
    <3>1. Store(Question(t)) /\ UNCHANGED route /\ pc[t] \in Active
      BY <2>8 DEF Ask, Active
    <3>2. PICK P \in {"generating", "answering"} : pc' = [pc EXCEPT ![t] = P]
      BY <2>8 DEF Ask
    <3>3. P \in (Active \ {"planning"}) \cup {"done", "failed"}
      BY DEF Active
    <3>4. Stored' = Stored \cup {Question(t)}
      BY <1>1, <3>1, StoreAdds
    <3>5. /\ \A u \in Turns : pc'[u] # "planning"
          /\ \A u \in Turns : pc'[u] = "posted" => route'[u] = "post"
      BY <2>6, <3>1, <3>2, <3>3
    <3>. QED  BY <1>1, <3>4, <3>5, ContextStored
  <2>9. CASE Reply(t)
    <3>1. /\ Store(Answer(t)) /\ UNCHANGED route /\ pc[t] \in Active
          /\ pc' = [pc EXCEPT ![t] = "recording"]
      BY <2>9 DEF Reply, Active
    <3>2. "recording" \in (Active \ {"planning"}) \cup {"done", "failed"}
      BY DEF Active
    <3>3. Stored' = Stored \cup {Answer(t)}
      BY <1>1, <3>1, StoreAdds
    <3>4. /\ \A u \in Turns : pc'[u] # "planning"
          /\ \A u \in Turns : pc'[u] = "posted" => route'[u] = "post"
      BY <2>6, <3>1, <3>2
    <3>. QED  BY <1>1, <3>3, <3>4, ContextStored
  <2>10. CASE PlanFails(t) \/ RecordFailure(t)
    <3>1. pc' = [pc EXCEPT ![t] = "failed"] /\ UNCHANGED <<log, route>> /\ pc[t] \in Active
      BY <2>10 DEF PlanFails, RecordFailure, Active
    <3>. QED  BY <2>7, <3>1
  <2>11. CASE RecordSuccess(t) \/ GenerationFails(t)
    <3>1. UNCHANGED <<log, route>> /\ pc[t] \in Active
      BY <2>11 DEF RecordSuccess, GenerationFails, Active
    <3>2. PICK P \in {"done", "failing", "failed"} : pc' = [pc EXCEPT ![t] = P]
      BY <2>11 DEF RecordSuccess, GenerationFails
    <3>. QED  BY <2>7, <3>1, <3>2
  <2>12. CASE CallbackStep(t)
    <3>1. UNCHANGED <<log, pc, route, window>>
      BY <2>12 DEF CallbackStep, Summarise, SkipSummary, WriteSummary, SummaryFails
    <3>. QED  BY <1>1, <1>2, <3>1, ContextLeft DEF WindowsAreNew
  <2>. QED  BY <1>4, <2>3, <2>4, <2>5, <2>8, <2>9, <2>10, <2>11, <2>12 DEF TurnStep, HandlerStep
<1>5. CASE UNCHANGED vars
  <2>1. UNCHANGED <<log, pc, route, window>>
    BY <1>5 DEF vars, log
  <2>. QED  BY <1>1, <1>2, <2>1, ContextLeft DEF WindowsAreNew
<1>. QED  BY <1>3, <1>4, <1>5, NextCases

\* A conversation that fits is its own history, but for answers posted to no question.
LEMMA HistoryIsWhole ==
  ASSUME ContextInv, Cost(Stored) <= Budget \div 2, NEW m \in Stored \ History
  PROVE  route[m.turn] = "post"
<1>1. PairsInv /\ VerdictInv /\ TypeOK /\ Unsent /\ Recorded /\ IsFiniteSet(Stored)
  BY DEF ContextInv, PairsInv, VerdictInv
<1>2. Stored \in SUBSET Message /\ Questions \in SUBSET Stored
  BY DEF Stored, Questions
<1>3. \A q \in Questions : q \in Pair(q) /\ Pair(q) \in SUBSET Stored
  BY <1>2 DEF Pair, After
<1>4. Recent = Questions
  <2>1. ASSUME NEW q \in Questions
        PROVE  Cost(UNION {Pair(r) : r \in {q} \cup (After(q) \cap Questions)}) <= Budget \div 2
    <3>. DEFINE S == UNION {Pair(r) : r \in {q} \cup (After(q) \cap Questions)}
    <3>1. S \in SUBSET Stored
      BY <1>3
    <3>. HIDE DEF S
    <3>2. Cost(S) \in Nat /\ Cost(Stored) \in Nat /\ Cost(S) <= Cost(Stored)
      BY <1>1, <1>2, <3>1, PartCostsLess
    <3>3. Cost(S) <= Budget \div 2
      BY <3>2
    <3>. QED  BY <3>3 DEF S
  <2>. QED  BY <2>1 DEF Recent
<1>5. PICK u \in Turns : m \in {Question(u), Answer(u)}
  BY <1>2 DEF Message, Roles, Question, Answer
<1>6. CASE Questions = {}
  <2>1. m.turn = u /\ (m = Question(u) => m \in Questions)
    BY <1>5 DEF Question, Answer, Questions
  <2>2. m = Answer(u) /\ Question(u) \notin Stored
    BY <1>5, <1>6, <2>1 DEF Question, Questions
  <2>3. pc[u] = "posted"
    BY <1>1, <2>2 DEF Recorded
  <2>. QED  BY <2>1, <2>3 DEF ContextInv
<1>7. CASE Questions # {}
  <2>1. History = UNION {Pair(q) : q \in Questions}
    BY <1>4, <1>7 DEF History
  <2>2. m # Question(u)
    BY <1>3, <2>1 DEF Questions, Question
  <2>3. m = Answer(u) /\ m.turn = u
    BY <1>5, <2>2 DEF Answer
  <2>4. Question(u) \notin Stored
    <3>. SUFFICES ASSUME Question(u) \in Stored PROVE FALSE
      OBVIOUS
    <3>1. Pair(Question(u)) = {Question(u), Answer(u)} /\ Question(u) \in Questions
      BY <1>1, <2>3, AdjacentIsPair DEF Questions, Question
    <3>. QED  BY <2>1, <2>3, <3>1
  <2>5. pc[u] = "posted"
    BY <1>1, <2>3, <2>4 DEF Recorded
  <2>. QED  BY <2>3, <2>5 DEF ContextInv
<1>. QED  BY <1>6, <1>7

\* A conversation whose messages fit in the budget's half for the history reaches the
\* model as a whole, whatever turns failed or died in it, if the client waits for the
\* answer before it sends again and no two messages share a millisecond.
THEOREM ContextIsAlwaysWhole == NoTies /\ ~Overlap => (Spec => []ContextIsWhole)
<1>. SUFFICES ASSUME NoTies, ~Overlap PROVE Spec => []ContextIsWhole
  OBVIOUS
<1>1. ContextInv /\ [Next]_vars => ContextInv'
  BY ContextStep
<1>2. ContextInv => ContextIsWhole
  BY HistoryIsWhole DEF ContextInv, WindowsAreNew, ContextIsWhole
<1>. QED  BY <1>1, <1>2, InitContextInv, PTL DEF Spec
=============================================================================

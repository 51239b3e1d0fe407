------------------------------ MODULE AgentLoop ------------------------------
(***************************************************************************)
(* The agent loop of the web server (web/lib/rag/agent-loop.ts): a model   *)
(* decides, up to MAX_STEPS times, between searches, tool calls and the    *)
(* answer; the messages it is shown grow by each call and its result and   *)
(* are trimmed after every decision; a last request writes the answer.     *)
(* Everything a run works on is its own, so the steps are what happens     *)
(* between the answer of one model and the request to the next.            *)
(*                                                                         *)
(* Of a message only its kind, the call it belongs to and its size by      *)
(* estimateMessagesTokens count.  What searches and tools find is left     *)
(* out: no step of the loop depends on it.                                 *)
(*                                                                         *)
(* A definition marked [variant] is a faulty form of the one after it.     *)
(* Nothing uses it: it is there to show that a property notices the fault. *)
(***************************************************************************)
EXTENDS Integers, Sequences, FiniteSetsExt

CONSTANTS
  MaxSteps,    \* MAX_STEPS, 5
  MaxRounds,   \* MAX_RETRIEVAL_ROUNDS, 3
  LoopBudget,  \* MAX_LOOP_TOKENS, 4000
  Models,      \* how many models resolveChatModels lists
  Tools,       \* names the model may pass to call_mcp_tool
  MaxCalls,    \* calls in one decision (a bound of the model only)
  Strict,      \* GO_RETRIEVAL_FALLBACK_ENABLED is false
  Thoughts,    \* sizes of the text next to the calls of a decision
  SystemSize,  \* of the system prompt with the summary
  History,     \* sizes of the messages of the history
  QuestionSize

ASSUME LimitsAssumption ==
  /\ MaxSteps \in Nat \ {0} /\ MaxRounds \in Nat /\ LoopBudget \in Nat
  /\ Models \in Nat \ {0} /\ MaxCalls \in Nat \ {0} /\ Strict \in BOOLEAN
ASSUME SizesAssumption ==
  /\ Thoughts \subseteq Nat /\ SystemSize \in Nat /\ QuestionSize \in Nat
  /\ History \in Seq(Nat)

VARIABLES
  debug,       \* shouldUseLocalGeneration
  pc,
  stepNumber,
  attempt,     \* the model a request is with
  thought,     \* the size of the text of the decision at hand
  pending,     \* the calls of it that are still to be made
  rounds,      \* retrievalRounds
  messages,    \* conversationMessages
  steps,       \* the recorded steps
  toolCalls,   \* accumulatedToolCalls
  answer       \* what finalAnswerText is

vars == <<debug, pc, stepNumber, attempt, thought, pending, rounds, messages,
          steps, toolCalls, answer>>

\* A call of a decision: a search, an MCP tool by its name, or something else.
Call == [kind : {"search", "unknown"}] \cup [kind : {"call_tool"}, name : Tools]
Decision == UNION {[1..n -> Call] : n \in 1..MaxCalls}

\* Messages; "of" is the step that recorded the call, 0 for the other kinds.
Message == [kind : {"system", "history", "question", "call", "result"}, of : Nat, size : Nat]

\* Recorded steps.  "answer" and "unknown" are final_answer in the code, the
\* latter with the reason "unknown tool requested".
Step == [no : Nat, action : {"search", "call_tool", "unknown", "answer"},
         status : {"succeeded", "failed"}]

ToolCall == [name : Tools, no : Nat, status : {"succeeded", "failed"}]

TypeOK ==
  /\ debug \in BOOLEAN
  /\ pc \in {"deciding", "acting", "answering", "returned", "thrown"}
  /\ stepNumber \in 0..MaxSteps /\ attempt \in 1..Models
  /\ thought \in Nat /\ pending \in Seq(Call)
  /\ rounds \in 0..MaxRounds
  /\ messages \in Seq(Message) /\ steps \in Seq(Step) /\ toolCalls \in Seq(ToolCall)
  /\ answer \in {"none", "text", "empty", "apology", "debug"}

Plain(kind, size) == [kind |-> kind, of |-> 0, size |-> size]

\* buildConversationMessages: system prompt, history, question.
Opening ==
  [i \in 1..(Len(History) + 2) |->
     IF i = 1 THEN Plain("system", SystemSize)
     ELSE IF i = Len(History) + 2 THEN Plain("question", QuestionSize)
     ELSE Plain("history", History[i - 1])]

Init ==
  /\ debug \in BOOLEAN
  /\ pc = "deciding" /\ stepNumber = 0 /\ attempt = 1
  /\ thought = 0 /\ pending = <<>> /\ rounds = 0
  /\ messages = Opening
  /\ steps = <<>> /\ toolCalls = <<>> /\ answer = "none"

-----------------------------------------------------------------------------
(* Trimming *)

Cost(s) == MapThenSumSet(LAMBDA i : s[i].size, DOMAIN s)

\* k times splice(1, 1).
Without(s, k) == [i \in 1..(Len(s) - k) |-> IF i = 1 THEN s[1] ELSE s[i + k]]

\* [variant] Trimming stops one message later.
EnoughButOne(s, k) == Cost(Without(s, k)) <= LoopBudget \/ Len(s) - k <= 2

\* The condition at which the loop of trimConversationMessages stops.
Enough(s, k) == Cost(Without(s, k)) <= LoopBudget \/ Len(s) - k <= 3

\* trimConversationMessages.
Trimmed(s) ==
  Without(s, CHOOSE k \in 0..Len(s) : Enough(s, k) /\ \A j \in 0..(k - 1) : ~Enough(s, j))

-----------------------------------------------------------------------------
(* The decisions *)

Record(action, status) ==
  [no |-> stepNumber + 1, action |-> action, status |-> status]

\* Without a remote model the first step is also the answer.
DebugAnswer ==
  /\ pc = "deciding" /\ debug
  /\ steps' = Append(steps, Record("answer", "succeeded"))
  /\ answer' = "debug"
  /\ pc' = "returned"
  /\ UNCHANGED <<debug, stepNumber, attempt, thought, pending, rounds, messages, toolCalls>>

\* [variant] After the last model the first one is asked again.
ModelFailsRoundRobin ==
  /\ pc \in {"deciding", "answering"} /\ ~debug
  /\ attempt' = IF attempt = Models THEN 1 ELSE attempt + 1
  /\ UNCHANGED <<debug, pc, stepNumber, thought, pending, rounds, messages, steps,
                 toolCalls, answer>>

\* generateWithFallback: a model fails and the next one is asked.
ModelFails ==
  /\ pc \in {"deciding", "answering"} /\ ~debug
  /\ attempt < Models /\ attempt' = attempt + 1
  /\ UNCHANGED <<debug, pc, stepNumber, thought, pending, rounds, messages, steps,
                 toolCalls, answer>>

\* The last model fails too: the loop ends with what has been gathered.
DecisionFails ==
  /\ pc = "deciding" /\ ~debug
  /\ attempt = Models /\ attempt' = 1
  /\ steps' = Append(steps, Record("answer", "failed"))
  /\ pc' = "answering"
  /\ UNCHANGED <<debug, stepNumber, thought, pending, rounds, messages, toolCalls, answer>>

\* The model asks for no tool.
DecideToAnswer ==
  /\ pc = "deciding" /\ ~debug
  /\ attempt' = 1
  /\ steps' = Append(steps, Record("answer", "succeeded"))
  /\ pc' = "answering"
  /\ UNCHANGED <<debug, stepNumber, thought, pending, rounds, messages, toolCalls, answer>>

\* The model asks for tools.
DecideToAct ==
  /\ pc = "deciding" /\ ~debug
  /\ attempt' = 1
  /\ pending' \in Decision
  /\ thought' \in Thoughts
  /\ pc' = "acting"
  /\ UNCHANGED <<debug, stepNumber, rounds, messages, steps, toolCalls, answer>>

-----------------------------------------------------------------------------
(* The calls *)

\* The step that is recorded when the loop ends without a final answer.
Forced(recorded) ==
  [no |-> Len(recorded) + 1, action |-> "answer", status |-> "succeeded"]

\* [variant] Nothing is recorded when the loop is exhausted.
ConcludeSilently(recorded) == recorded

\* What follows the loop when its steps are used up.
Conclude(recorded) ==
  IF recorded[Len(recorded)].action = "unknown" THEN recorded
                                                ELSE Append(recorded, Forced(recorded))

\* A call and its result are appended; the sizes of arguments and observations
\* are not counted.
Shown == Append(Append(messages, [kind |-> "call", of |-> Len(steps) + 1, size |-> thought]),
                [kind |-> "result", of |-> Len(steps) + 1, size |-> 0])

\* What follows every call: its step and its messages, and after the last call
\* of the decision the trimming and the next decision, or the end of the loop.
Observe(action) ==
  LET recorded == Append(steps, Record(action, "succeeded")) IN
  /\ pending' = Tail(pending)
  /\ \/ /\ Len(pending) > 1
        /\ messages' = Shown /\ steps' = recorded
        /\ UNCHANGED <<pc, stepNumber>>
     \/ /\ Len(pending) = 1
        /\ messages' = Trimmed(Shown)
        /\ stepNumber' = stepNumber + 1
        /\ \/ stepNumber' < MaxSteps /\ pc' = "deciding" /\ steps' = recorded
           \/ stepNumber' = MaxSteps /\ pc' = "answering" /\ steps' = Conclude(recorded)

Current == Head(pending)

\* A search beyond the limit is answered without being made.
SkipSearch ==
  /\ pc = "acting" /\ Current.kind = "search" /\ rounds >= MaxRounds
  /\ Observe("search")
  /\ UNCHANGED <<debug, attempt, thought, rounds, toolCalls, answer>>

\* executeSearch returns: no knowledge base matched, nothing was found, or
\* something was, by the backend or by the local adapter.
Search ==
  /\ pc = "acting" /\ Current.kind = "search" /\ rounds < MaxRounds
  /\ rounds' = rounds + 1
  /\ Observe("search")
  /\ UNCHANGED <<debug, attempt, thought, toolCalls, answer>>

\* The backend fails, or times out, and there is to be no fallback.
SearchThrows ==
  /\ pc = "acting" /\ Current.kind = "search" /\ rounds < MaxRounds
  /\ Strict
  /\ rounds' = rounds + 1
  /\ pc' = "thrown"
  /\ UNCHANGED <<debug, stepNumber, attempt, thought, pending, messages, steps, toolCalls, answer>>

\* The number in the toolCallId.
ToolId == Len(steps)

\* executeToolCall: a tool that is not registered, a guard that refuses, bad
\* arguments and an exception of the tool all make a failed call.
CallTool ==
  /\ pc = "acting" /\ Current.kind = "call_tool"
  /\ \E status \in {"succeeded", "failed"} :
       toolCalls' = Append(toolCalls, [name |-> Current.name, no |-> ToolId, status |-> status])
  /\ Observe("call_tool")
  /\ UNCHANGED <<debug, attempt, thought, rounds, answer>>

RefuseUnknown ==
  /\ pc = "acting" /\ Current.kind = "unknown"
  /\ Observe("unknown")
  /\ UNCHANGED <<debug, attempt, thought, rounds, toolCalls, answer>>

-----------------------------------------------------------------------------
(* The answer *)

\* A model writes the answer, which may be empty.
Answer ==
  /\ pc = "answering"
  /\ answer' \in {"text", "empty"}
  /\ pc' = "returned"
  /\ UNCHANGED <<debug, stepNumber, attempt, thought, pending, rounds, messages, steps, toolCalls>>

\* No model does: the answer is an apology with the evidence.
Apologise ==
  /\ pc = "answering" /\ attempt = Models
  /\ answer' = "apology"
  /\ pc' = "returned"
  /\ UNCHANGED <<debug, stepNumber, attempt, thought, pending, rounds, messages, steps, toolCalls>>

Next ==
  \/ DebugAnswer \/ ModelFails \/ DecisionFails \/ DecideToAnswer \/ DecideToAct
  \/ SkipSearch \/ Search \/ SearchThrows \/ CallTool \/ RefuseUnknown
  \/ Answer \/ Apologise

Spec == Init /\ [][Next]_vars

\* Every request is answered or fails some day, and the loop goes on.
FairSpec == Spec /\ WF_vars(Next)

-----------------------------------------------------------------------------
(* Correctness *)

\* A run ends, whatever models, tools and the retrieval backend do.
Terminates == <>(pc \in {"returned", "thrown"})

\* The id of a tool call is its own (agent-loop.ts:283): the updates sent to the
\* browser and the records of the trace are told apart by it.
ToolIdsDiffer ==
  \A i, j \in 1..Len(toolCalls) :
    i # j => toolCalls[i].no # toolCalls[j].no

\* The messages shown to a model hold a call and its result side by side, as
\* the interface of the models wants it; only trimming, which takes messages from
\* the front, can leave one result alone behind the system prompt.
PairsAreWhole ==
  /\ messages # <<>> /\ messages[1].kind = "system"
  /\ \A i \in 2..Len(messages) :
       /\ messages[i].kind = "call" =>
            /\ i < Len(messages)
            /\ messages[i + 1].kind = "result" /\ messages[i + 1].of = messages[i].of
       /\ messages[i].kind = "result" /\ i > 2 =>
            messages[i - 1].kind = "call" /\ messages[i - 1].of = messages[i].of

\* However much is trimmed, the next decision is made in view of the call made
\* last and its result.
LastResultIsShown ==
  pc \in {"deciding", "acting"} /\ steps # <<>> =>
    LET n == Len(messages) IN
      /\ n >= 3
      /\ messages[n].kind = "result" /\ messages[n].of = Len(steps)
      /\ messages[n - 1].kind = "call" /\ messages[n - 1].of = Len(steps)

Final == {"answer", "unknown"}

\* The recorded steps of a run that came to its answer end with the final
\* step, which is recorded once and is the only one that may have failed.
EndsWithAnswer ==
  /\ pc \in {"answering", "returned"} => steps # <<>> /\ steps[Len(steps)].action \in Final
  /\ \A i \in 1..Len(steps) :
       /\ steps[i].action = "answer" => i = Len(steps) /\ pc \in {"answering", "returned"}
       /\ steps[i].status = "failed" => steps[i].action = "answer"

\* The trace names a stage after the number of its step: the numbers never go
\* down, and the final step has one of its own, also when it is forced.
StepsInOrder ==
  \A i, j \in 1..Len(steps) :
    i < j => /\ steps[i].no <= steps[j].no
             /\ steps[j].action = "answer" => steps[i].no < steps[j].no

-----------------------------------------------------------------------------
(* The inductive invariant *)

\* A decision is being carried out while calls of it are left.
ActsOnCalls == pc = "acting" <=> pending # <<>> /\ pc # "thrown"

\* Every completed decision has recorded a step, with a number it has reached.
Numbered ==
  /\ Len(steps) >= stepNumber
  /\ pc \in {"deciding", "acting"} =>
       /\ stepNumber < MaxSteps
       /\ \A i \in 1..Len(steps) : steps[i].no <= stepNumber + 1
  /\ pc = "deciding" => \A i \in 1..Len(steps) : steps[i].no <= stepNumber

\* A tool call carries the position of its own step.
ToolIdsGrow ==
  /\ \A i \in 1..Len(toolCalls) : toolCalls[i].no < Len(steps)
  /\ \A i, j \in 1..Len(toolCalls) : i < j => toolCalls[i].no < toolCalls[j].no

IInv ==
  /\ TypeOK /\ ActsOnCalls /\ Numbered /\ ToolIdsGrow
  /\ PairsAreWhole /\ LastResultIsShown /\ EndsWithAnswer /\ StepsInOrder
=============================================================================

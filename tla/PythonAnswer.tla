------------------------------ MODULE PythonAnswer ------------------------------
(***************************************************************************)
(* How the Python backend answers one question: the routes of the chat and *)
(* of the shopping preview, the intent router that chooses between the two *)
(* lanes (core/router/intent_router.py), the resolver that chooses the     *)
(* model (infra/llm/resolver.py) and the adapters that call it, the chat   *)
(* service, and the bridge that retells the shopping lane in the events of *)
(* the chat (modules/ecommerce/chat_stream_bridge.py).                     *)
(*                                                                         *)
(* A stream is one event after another, and whoever reads it may leave     *)
(* between any two.  A text is the sequence of its pieces.  What the model *)
(* says, and how it fails, is its own choice; what was found and what a    *)
(* tool answered is chosen with the question.                              *)
(*                                                                         *)
(* A definition marked [variant] is a faulty form of the one after it.     *)
(* Nothing uses it: it is there to show that a property notices the fault. *)
(***************************************************************************)
EXTENDS Integers, Sequences, FiniteSets, Selections

CONSTANTS
  Patterns,   \* the registered intent patterns in order: name, module, weight
  Providers,  \* settings.llm_provider: the explicit choices looked at
  Chains,     \* settings.llm_fallback_chain: the chains looked at
  MaxFound,   \* bounds the products found
  MaxPieces   \* bounds what a model says

ASSUME AnswerAssumption ==
  /\ Patterns \in Seq([name : STRING, module : STRING, weight : Nat])
  /\ Providers \subseteq STRING /\ Chains \subseteq Seq(STRING)
  /\ MaxFound \in Nat /\ MaxPieces \in Nat \ {0}

VARIABLES
  question, \* what was asked, and what was found for it
  step,     \* what the generator does next
  model,    \* what the model has said, and how it ended
  buffer,   \* answer_buffer
  closed,   \* thinking_closed
  finish,   \* final_finish
  wire      \* the events sent, or the one response

answerVars == <<question, step, model, buffer, closed, finish, wire>>

FinishReasons == {"stop", "length", "tool_call", "content_filter", "error"}
\* What a message mentions, as far as a tool is planned for it.
Mentions == {"task", "task id", "knowledge base", "setting", "setting key"}

-----------------------------------------------------------------------------
(* The model *)

Builders == {"mock", "openai", "openai_compatible"}

\* Without a key there is only the mock.
is_available(name, keyed) == name = "mock" \/ keyed

ModelOf(name) == IF name = "mock" THEN "mock" ELSE "openai_compatible"

\* The explicit choice, else the first of the chain, that is available.
resolve_generation_adapter(settings) ==
  LET order == (IF settings.explicit = "auto" THEN <<>> ELSE <<settings.explicit>>) \o settings.chain
      fit == SelectIn(order, {n \in Builders : is_available(n, settings.keyed)})
  IN IF fit # <<>> THEN ModelOf(fit[1]) ELSE "mock"

\* What the backend's own reasons become.
FinishOf(raw) ==
  CASE raw = "tool_calls" -> "tool_call"
    [] raw \in {"length", "content_filter"} -> raw
    [] OTHER -> "stop"

RawReasons == {"stop", "length", "tool_calls", "content_filter", "none"}

-----------------------------------------------------------------------------
(* The router *)

\* The heaviest, and of those the one registered first: sorted() is stable.
Heaviest(S) ==
  CHOOSE i \in S : \A j \in S \ {i} :
    Patterns[j].weight < Patterns[i].weight \/ (Patterns[j].weight = Patterns[i].weight /\ i < j)

classify_for_module(matches, module) ==
  LET candidates == {i \in matches : Patterns[i].module = module}
  IN IF candidates = {} THEN "none" ELSE Patterns[Heaviest(candidates)].name

IntentOf(q) == IF q.mode = "ecommerce" THEN classify_for_module(q.matches, "ecommerce") ELSE "none"

\* Only the router looks at the intent; the preview has no other lane.
LaneOf(q) ==
  CASE q.surface \in {"preview", "preview turn"} -> q.surface
    [] q.surface = "chat turn" -> "turn"
    [] OTHER -> IF IntentOf(q) # "none" THEN "bridge" ELSE "chat"

lane == LaneOf(question)
provider == resolve_generation_adapter(question.settings)

-----------------------------------------------------------------------------
(* The chat service *)

\* A task needs its id, a setting has a default.
_plan_tool_call(mentioned) ==
  CASE {"task", "task id"} \subseteq mentioned -> "get_ingestion_task"
    [] "knowledge base" \in mentioned -> "list_knowledge_bases"
    [] "setting" \in mentioned -> "get_system_setting"
    [] OTHER -> "none"

\* What the runtime records of a call.  One that is refused, as it is not registered or for
\* administrators only, is not run.
CallRecord(tool, status) == [type |-> "tool.call", name |-> tool, outcome |-> status]
CallRecords(tool, outcome) ==
  IF outcome = "refused" THEN <<CallRecord(tool, "queued"), CallRecord(tool, outcome)>>
  ELSE <<CallRecord(tool, "queued"), CallRecord(tool, "running"), CallRecord(tool, outcome)>>

\* Retrieval and the tool are through before the first event.  A tool may succeed with a
\* summary, succeed without one, or fail.
create_chat_artifacts(q) ==
  LET tool == _plan_tool_call(q.mentioned)
      summed == tool # "none" /\ q.tool = "told"
  IN [content |-> <<"received">> \o (IF q.evidence THEN <<"evidence">> ELSE <<>>)
                                 \o (IF summed THEN <<"summary">> ELSE <<>>),
      tools |-> IF tool = "none" THEN <<>> ELSE CallRecords(tool, q.tool),
      ended |-> IF tool = "none" THEN <<>> ELSE <<CallRecord(tool, q.tool)>>,
      plan |-> [useRetrieval |-> q.evidence, useTools |-> tool # "none", intent |-> "none"]]

Event(type) == [type |-> type]
Delta(piece) == [type |-> "message.delta", piece |-> piece]

\* Chunks of 24 characters: here, pieces.
iter_chat_stream_events(q) ==
  LET artifacts == create_chat_artifacts(q)
  IN <<Event("chat.started"), Event("thinking.delta"), Event("thinking.completed")>>
     \o artifacts.tools
     \o [i \in DOMAIN artifacts.content |-> Delta(artifacts.content[i])]
     \o <<[type |-> "message.completed", content |-> artifacts.content, blocks |-> 0, provider |-> "python-backend"],
          [type |-> "chat.completed", plan |-> artifacts.plan]>>

-----------------------------------------------------------------------------
(* A question *)

Settings == [explicit : Providers, chain : Chains, keyed : BOOLEAN]
NoSettings == [explicit |-> "auto", chain |-> <<>>, keyed |-> FALSE]

Blank ==
  [surface |-> "chat", mode |-> "default", matches |-> {}, found |-> 0, settings |-> NoSettings,
   mentioned |-> {}, evidence |-> FALSE, tool |-> "silent"]

\* The parts a lane does not look at are left blank.
ChatQuestions ==
  [surface : {"chat", "chat turn"}, mode : {"default"}, matches : {{}}, found : {0}, settings : {NoSettings},
   mentioned : SUBSET Mentions, evidence : BOOLEAN, tool : {"told", "silent", "failed", "refused"}]
RoutedQuestions ==
  [surface : {"router"}, mode : {"default", "ecommerce"}, matches : SUBSET DOMAIN Patterns, found : {0},
   settings : {NoSettings}, mentioned : {{}}, evidence : {FALSE}, tool : {"silent"}]
ShoppingQuestions ==
  [surface : {"router"}, mode : {"ecommerce"}, matches : SUBSET DOMAIN Patterns, found : 0..MaxFound,
   settings : Settings, mentioned : {{}}, evidence : {FALSE}, tool : {"silent"}]
PreviewQuestions ==
  [surface : {"preview", "preview turn"}, mode : {"default"}, matches : {{}}, found : 0..MaxFound,
   settings : Settings, mentioned : {{}}, evidence : {FALSE}, tool : {"silent"}]

Questions == ChatQuestions \cup RoutedQuestions \cup ShoppingQuestions \cup PreviewQuestions

AnswerTypeOK ==
  /\ question \in Questions
  /\ step \in {"begin", "search", "model", "end", "over", "broken"}
  /\ model.said \in Seq(1..MaxPieces) /\ model.fate \in RawReasons \cup {"open", "failed", "broke"}
  /\ buffer \in Seq(1..MaxPieces)
  /\ closed \in BOOLEAN /\ finish \in FinishReasons

AnswerInit ==
  /\ question \in Questions /\ step = "begin"
  /\ model = [said |-> <<>>, fate |-> "open"]
  /\ buffer = <<>> /\ closed = FALSE /\ finish = "stop" /\ wire = <<>>

-----------------------------------------------------------------------------
(* The chat lane *)

ChatYields ==
  /\ lane = "chat" /\ step = "begin"
  /\ LET events == iter_chat_stream_events(question)
     IN /\ wire' = Append(wire, events[Len(wire) + 1])
        /\ step' = IF Len(wire) + 1 = Len(events) THEN "over" ELSE "begin"
  /\ UNCHANGED <<question, model, buffer, closed, finish>>

build_chat_turn_response ==
  /\ lane = "turn" /\ step = "begin"
  /\ LET artifacts == create_chat_artifacts(question)
     IN wire' = <<[type |-> "turn", content |-> artifacts.content, tools |-> artifacts.ended, plan |-> artifacts.plan]>>
  /\ step' = "over"
  /\ UNCHANGED <<question, model, buffer, closed, finish>>

-----------------------------------------------------------------------------
(* The shopping lane: the events of the preview, and what the bridge makes of them *)

Begin ==
  /\ lane \in {"bridge", "preview"} /\ step = "begin" /\ step' = "search"
  /\ wire' = IF lane = "bridge" THEN <<Event("chat.started"), Event("thinking.delta")>> ELSE <<>>
  /\ UNCHANGED <<question, model, buffer, closed, finish>>

Retrieved ==
  /\ step = "search" /\ step' = "model"
  /\ IF lane = "bridge"
       THEN wire' = wire \o <<Event("thinking.delta"), Event("thinking.completed")>> /\ closed' = TRUE
       ELSE wire' = wire \o <<[type |-> "retrieval", blocks |-> question.found]>> /\ UNCHANGED closed
  /\ UNCHANGED <<question, model, buffer, finish>>

\* The thinking ends before the first word, whatever came before it.
CloseThinking == IF lane = "bridge" /\ ~closed THEN <<Event("thinking.completed")>> ELSE <<>>

ModelSays ==
  /\ step = "model" /\ model.fate = "open" /\ Len(model.said) < MaxPieces
  /\ LET piece == Len(model.said) + 1
     IN /\ model' = [model EXCEPT !.said = Append(model.said, piece)]
        /\ buffer' = Append(buffer, piece)
        /\ wire' = wire \o CloseThinking \o <<Delta(piece)>>
  /\ closed' = (closed \/ lane = "bridge")
  /\ UNCHANGED <<question, step, finish>>

\* The mock says at least a word and ends as it should.
ModelEnds(raw) ==
  /\ step = "model" /\ step' = "end"
  /\ provider = "mock" => raw = "stop" /\ model.said # <<>>
  /\ model' = [model EXCEPT !.fate = raw] /\ finish' = FinishOf(raw)
  /\ UNCHANGED <<question, buffer, closed, wire>>

\* [variant] The failure is not passed on.
ModelFailsQuietly ==
  /\ step = "model" /\ step' = "end" /\ provider # "mock"
  /\ model' = [model EXCEPT !.fate = "failed"]
  /\ UNCHANGED <<question, buffer, closed, finish, wire>>

\* A timeout or an error of the API, at the call or in the middle, is a last chunk.
ModelFails ==
  /\ step = "model" /\ step' = "end" /\ provider # "mock"
  /\ model' = [model EXCEPT !.fate = "failed"] /\ finish' = "error"
  /\ UNCHANGED <<question, buffer, closed, wire>>

\* Any other exception ends the response there.
ModelBreaks ==
  /\ step = "model" /\ step' = "broken" /\ provider # "mock"
  /\ model' = [model EXCEPT !.fate = "broke"]
  /\ UNCHANGED <<question, buffer, closed, finish, wire>>

End ==
  /\ step = "end" /\ step' = "over"
  /\ wire' = wire \o
       (IF lane = "bridge"
          THEN CloseThinking \o
               <<[type |-> "message.completed", content |-> buffer, blocks |-> question.found, finish |-> finish, provider |-> provider],
                 [type |-> "chat.completed", plan |-> [useRetrieval |-> TRUE, useTools |-> FALSE, intent |-> IntentOf(question)]]>>
          ELSE <<[type |-> "done", finish |-> finish, provider |-> provider]>>)
  /\ UNCHANGED <<question, model, buffer, closed, finish>>

\* Without a stream a failed call leaves no text at all.
run_ecommerce_chat_turn ==
  /\ lane = "preview turn" /\ step = "begin"
  /\ \E n \in 0..MaxPieces, fate \in RawReasons \cup {"failed", "broke"} :
       LET said == [i \in 1..n |-> i]
       IN /\ provider = "mock" => fate = "stop" /\ n > 0
          /\ fate \in {"failed", "broke"} => n = 0
          /\ model' = [said |-> said, fate |-> fate]
          /\ finish' = IF fate = "failed" THEN "error" ELSE FinishOf(fate)
          /\ IF fate = "broke"
               THEN wire' = wire /\ step' = "broken"
               ELSE wire' = <<[type |-> "answer", blocks |-> question.found, content |-> said, finish |-> finish', provider |-> provider]>>
                    /\ step' = "over"
  /\ UNCHANGED <<question, buffer, closed>>

AnswerNext ==
  \/ ChatYields \/ build_chat_turn_response
  \/ Begin \/ Retrieved \/ ModelSays \/ (\E raw \in RawReasons : ModelEnds(raw))
  \/ ModelFails \/ ModelBreaks \/ End
  \/ run_ecommerce_chat_turn

AnswerSpec == AnswerInit /\ [][AnswerNext]_answerVars

-----------------------------------------------------------------------------
(* Properties *)

\* The order in which the chat is told: what is in the middle may be missing or repeated.
Grammar == <<"chat.started", "thinking.delta", "thinking.completed", "tool.call", "message.delta", "message.completed", "chat.completed">>
Once == {"chat.started", "thinking.completed", "message.completed", "chat.completed"}
Place(event) == CHOOSE i \in DOMAIN Grammar : Grammar[i] = event.type

InOrder ==
  \A i, j \in DOMAIN wire : i < j =>
    Place(wire[i]) < Place(wire[j]) \/ (wire[i].type = wire[j].type /\ wire[i].type \notin Once)

DeltasIn(events) == {events[i] : i \in {j \in DOMAIN events : events[j].type = "message.delta"}}
PiecesOf(events) ==
  LET deltas == SelectIn(events, DeltasIn(events)) IN [i \in DOMAIN deltas |-> deltas[i].piece]
Said == PiecesOf(wire)

\* Of the events sent, or of the one response.
Final(type) == CHOOSE e \in {wire[i] : i \in DOMAIN wire} : e.type = type

\* An answer of the model is whole: it is the text the reader saw come, and it says that the
\* model failed exactly if it did.  The mock speaks for a configured model only where the
\* settings name it first.
TrueToModel(answer) ==
  /\ answer.finish = "error" <=> model.fate = "failed"
  /\ answer.finish = "stop" <=> model.fate \in {"stop", "none"}
  /\ answer.provider = "mock" /\ question.settings.keyed =>
       \/ question.settings.explicit = "mock"
       \/ /\ question.settings.explicit \notin Builders \ {"mock"}
          /\ \A i \in DOMAIN question.settings.chain :
               question.settings.chain[i] \in Builders \ {"mock"} =>
                 \E j \in 1..(i - 1) : question.settings.chain[j] = "mock"

\* However far a stream has come, its events are in the order of the protocol and the
\* thinking is closed before the first word.  One that has come to its end has said all of
\* its text and nothing else, with the products found beside it and the intent it was routed
\* by, and of a tool it called how that ended; one that broke off never says it was complete.
AnswersAreWhole ==
  /\ lane \in {"chat", "bridge"} => InOrder
  /\ lane \in {"chat", "bridge"} /\ Said # <<>> => \E i \in DOMAIN wire : wire[i].type = "thinking.completed"
  /\ step = "broken" => \A i \in DOMAIN wire : wire[i].type \notin {"message.completed", "chat.completed", "done", "answer"}
  /\ step = "over" =>
       CASE lane = "chat" ->
              /\ Final("message.completed").content = Said
              /\ \E i \in DOMAIN Said : Said[i] = "received"
              /\ Final("chat.completed").plan.useTools <=> \E i \in DOMAIN wire : wire[i].type = "tool.call"
              /\ (\E i \in DOMAIN wire : wire[i].type = "tool.call") =>
                   \E i \in DOMAIN wire : wire[i].type = "tool.call" /\ wire[i].outcome \notin {"queued", "running"}
              /\ (\E i \in DOMAIN Said : Said[i] = "summary") =>
                   \E i \in DOMAIN wire : wire[i].type = "tool.call" /\ wire[i].outcome = "told"
         [] lane = "turn" -> Final("turn").plan.useTools <=> Final("turn").tools # <<>>
         [] lane = "bridge" ->
              LET answer == Final("message.completed")
                  intent == Final("chat.completed").plan.intent
              IN /\ answer.content = Said /\ Said = model.said /\ answer.blocks = question.found
                 /\ TrueToModel(answer)
                 /\ question.mode = "ecommerce"
                 /\ \E i \in question.matches :
                      /\ Patterns[i].name = intent /\ Patterns[i].module = "ecommerce"
                      /\ \A j \in question.matches : Patterns[j].module = "ecommerce" => Patterns[j].weight <= Patterns[i].weight
         [] lane = "preview" -> Said = model.said /\ TrueToModel(Final("done")) /\ Final("retrieval").blocks = question.found
         [] lane = "preview turn" -> Final("answer").content = model.said /\ TrueToModel(Final("answer"))
=============================================================================

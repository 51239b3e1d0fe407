------------------------------- MODULE Grounding -------------------------------
(***************************************************************************)
(* What the answer of a turn of the web server is grounded on.  Each       *)
(* search of the agent loop (web/lib/rag/agent-loop.ts) rewrites its       *)
(* query, plans which knowledge bases to look in, and asks the retrieval   *)
(* service or the few chunks the server has itself; what all of them find  *)
(* and what the tools return goes into the request for the answer and into *)
(* the trace of the turn.  AgentLoop is about when it searches, this is    *)
(* about what a search finds and what is said of it.                       *)
(*                                                                         *)
(* A text is the sequence of its words, its whitespace made one space      *)
(* each.  Gap stands for whatever separates two questions: one of "?!;",   *)
(* " and ", " also ".                                                      *)
(*                                                                         *)
(* A definition marked [variant] is a faulty form of the one after it.     *)
(* Nothing uses it: it is there to show that a property notices the fault. *)
(***************************************************************************)
EXTENDS Integers, FiniteSets, Sequences, Selections

CONSTANTS
  Message,         \* what the user asks: a text
  Texts,           \* what may be searched for: texts
  Pasts,           \* the histories: sequences of [role, text]
  FollowUpWords,   \* words that begin like one of FOLLOW_UP_PREFIXES
  QueryMappings,   \* mappings of terms, the longest source first
  BaseKeywords,    \* KB_KEYWORDS: a function from the ids of the bases to words
  GeneralWords,    \* words that ask for documents of no special base
  ToolWords,       \* keywords of the MCP tools
  LocalKnowledge,  \* LOCAL_KNOWLEDGE: a sequence of [base, words]
  VisibleBases,    \* sets of bases the scope of a user may show
  Intents,         \* sets of [term, bases, enabled] a scope may have
  ServiceAnswers,  \* [chunks, source] the retrieval service may answer
  EnabledSettings, \* GO_RETRIEVAL_ENABLED, a subset of {"true", "false", "unset"}
  ManyChunks, FewChunks,  \* topK, 6 and 4
  MaxSearchRounds, \* MAX_RETRIEVAL_ROUNDS
  MaxToolUses      \* bounds the tool calls

ASSUME GroundingAssumption ==
  /\ IsList(Message) /\ \A text \in Texts : IsList(text)
  /\ \A past \in Pasts : IsList(past) /\ \A n \in DOMAIN past : IsList(past[n].text)
  /\ IsList(LocalKnowledge) /\ \A answer \in ServiceAnswers : IsList(answer.chunks)
  /\ {ManyChunks, FewChunks, MaxSearchRounds, MaxToolUses} \subseteq Nat

Gap == "?"
Strategies == {"followup-merge", "multi-query", "passthrough"}
NoAdapter == "none"
LocalAdapter == "ts-local-retrieval-adapter"
ServiceAdapter == "go-http-retrieval-adapter"
Unnamed == "unnamed"

VARIABLES
  setup,      \* what the turn begins with and does not change: history, scope, settings
  turn,       \* where it is: "gathering", "prepared" or "thrown"
  looked,     \* what each search did, in order (not in the code)
  evidence,   \* accumulatedChunks
  toolUses,   \* accumulatedToolCalls, the status of each
  finalPlans, \* finalRewrite and finalRetrieval, <<>> before the first search
  execution,  \* retrievalTrace and retrievalSource
  strays,     \* stages recorded without the id of the turn, each a run of its own
  prepared    \* the PreparedChatTurn, at first <<>>

groundingVars == <<setup, turn, looked, evidence, toolUses, finalPlans, execution, strays, prepared>>

Nothing == [mode |-> "ts-local", adapter |-> NoAdapter, source |-> "ts-no-retrieval", failed |-> FALSE]

Setups ==
  [past : Pasts, visible : VisibleBases, intents : Intents,
   adapter : {LocalAdapter, ServiceAdapter}, enabled : EnabledSettings, fallback : BOOLEAN]

\* createEmptyState.
GroundingInit ==
  /\ setup \in Setups
  /\ turn = "gathering" /\ looked = <<>> /\ evidence = <<>> /\ toolUses = <<>>
  /\ finalPlans = <<>> /\ execution = Nothing /\ strays = <<>> /\ prepared = <<>>

-----------------------------------------------------------------------------
(* Rewriting *)

\* One mapping after the other over what the ones before made of the word.
MappedWord(w) ==
  LET said[n \in 0..Len(QueryMappings)] ==
        IF n = 0 THEN w
        ELSE IF QueryMappings[n].enabled /\ QueryMappings[n].source = said[n - 1] THEN QueryMappings[n].target
        ELSE said[n - 1]
  IN said[Len(QueryMappings)]

applyEnabledMappings(text) == [n \in DOMAIN text |-> MappedWord(text[n])]

\* Where the questions of a text begin, and the one that begins at n.
Starts(text) == {n \in DOMAIN text : text[n] # Gap /\ (n = 1 \/ text[n - 1] = Gap)}
PartAt(text, n) ==
  SubSeq(text, n, CHOOSE m \in n..Len(text) :
                    (m = Len(text) \/ text[m + 1] = Gap) /\ \A k \in n..m : text[k] # Gap)

\* [variant] The last three questions.
LastSubQueries(text) ==
  LET starts == Starts(text)
      few == IF Cardinality(starts) < 3 THEN Cardinality(starts) ELSE 3
  IN [k \in 1..few |-> PartAt(text, CHOOSE n \in starts : Cardinality({m \in starts : m > n}) = few - k)]

\* The first three questions.
splitIntoSubQueries(text) ==
  LET starts == Starts(text)
      few == IF Cardinality(starts) < 3 THEN Cardinality(starts) ELSE 3
  IN [k \in 1..few |-> PartAt(text, CHOOSE n \in starts : Cardinality({m \in starts : m < n}) = k - 1)]

\* The turns of the user, and the last of them.
UserTurns(past) == SelectIn(past, {t \in Elems(past) : t.role = "user" /\ t.text # <<>>})
findLastUserTurn(past) == UserTurns(past)[Len(UserTurns(past))].text

StartsFollowUp(word) == word \in FollowUpWords
looksLikeFollowUp(text) == text # <<>> /\ StartsFollowUp(text[1])

Rewrite(strategy, query, parts) == [strategy |-> strategy, query |-> query, parts |-> parts]

\* subQueries.join(" ; ")
Joined(parts) == Chained([n \in DOMAIN parts |-> IF n = 1 THEN parts[n] ELSE <<Gap>> \o parts[n]])

buildRewritePlan(text, past) ==
  LET mapped == applyEnabledMappings(text)
      parts == splitIntoSubQueries(mapped)
  IN CASE looksLikeFollowUp(mapped) /\ UserTurns(past) # <<>> ->
            Rewrite("followup-merge", findLastUserTurn(past) \o mapped, IF parts = <<>> THEN <<mapped>> ELSE parts)
       [] ~(looksLikeFollowUp(mapped) /\ UserTurns(past) # <<>>) /\ Len(parts) > 1 ->
            Rewrite("multi-query", Joined(parts), parts)
       [] OTHER -> Rewrite("passthrough", mapped, <<mapped>>)

-----------------------------------------------------------------------------
(* Planning *)

Words(text) == Elems(text)

KeywordBases(said) == {b \in DOMAIN BaseKeywords : BaseKeywords[b] \cap said # {}}

\* Intents that match win over keywords, even if no base of theirs is visible.
SelectedBases(said) ==
  LET meant == UNION {i.bases : i \in {j \in setup.intents : j.enabled /\ j.term \in said}}
      named == IF meant # {} THEN meant ELSE KeywordBases(said)
  IN named \cap setup.visible

\* buildToolPlan: only whether a tool is hinted at matters.
ToolsAreHinted(text) == Words(text) \cap ToolWords # {}

buildRetrievalPlan(text, rewrite) ==
  LET selected == SelectedBases(Words(text) \cup Words(rewrite.query))
  IN [retrieve |-> selected # {} \/ Words(text) \cap GeneralWords # {} \/ Len(rewrite.parts) > 1,
      bases |-> selected,
      topK |-> IF ToolsAreHinted(text) /\ selected = {} THEN FewChunks ELSE ManyChunks]

\* What the environment says, if it says anything, wins over the setting of the scope.
parseBool(value, default) == IF value = "unset" THEN default ELSE value = "true"

buildRetrievalBoundary ==
  IF parseBool(setup.enabled, setup.adapter = ServiceAdapter) THEN "go-executor" ELSE "ts-local"

-----------------------------------------------------------------------------
(* Looking *)

OwnChunks == DOMAIN LocalKnowledge

\* Of the selected bases, or of all if none is.
visibleCorpus(plan) == {i \in OwnChunks : plan.bases # {} => LocalKnowledge[i].base \in plan.bases}

\* A word that is said twice counts twice.  In tenths.
scoreChunk(i, query) == 10 * Cardinality({n \in DOMAIN query : query[n] \in LocalKnowledge[i].words})

\* [variant] The first chunks of the file that match, not the best.
FirstLocalChunks(rewrite, plan) ==
  LET hits == {i \in visibleCorpus(plan) : scoreChunk(i, rewrite.query) > 0}
      Before(i) == {j \in hits : j < i}
      shown == {i \in hits : Cardinality(Before(i)) < plan.topK}
  IN [n \in 1..Cardinality(shown) |->
        LET i == CHOOSE i \in shown : Cardinality(Before(i)) = n - 1
        IN [id |-> i, base |-> LocalKnowledge[i].base, score |-> scoreChunk(i, rewrite.query)]]

\* The best first; the sort is stable.
LocalChunks(rewrite, plan) ==
  LET score(i) == scoreChunk(i, rewrite.query)
      hits == {i \in visibleCorpus(plan) : score(i) > 0}
      Before(i) == {j \in hits : score(j) > score(i) \/ (score(j) = score(i) /\ j < i)}
      shown == {i \in hits : Cardinality(Before(i)) < plan.topK}
  IN [n \in 1..Cardinality(shown) |->
        LET i == CHOOSE i \in shown : Cardinality(Before(i)) = n - 1
        IN [id |-> i, base |-> LocalKnowledge[i].base, score |-> score(i)]]

Ran(mode, adapter, source, failed) == [mode |-> mode, adapter |-> adapter, source |-> source, failed |-> failed]

\* What the service answers is taken as it is, its source only if it names one.
SourceOf(answer) == IF answer.source = Unnamed THEN ServiceAdapter ELSE answer.source
AskService ==
  {[chunks |-> answer.chunks, by |-> Ran("go-executor", ServiceAdapter, SourceOf(answer), FALSE)] : answer \in ServiceAnswers}

\* executeResolvedRetrieval where it does not throw: what was found, and by whom.
Gathered(rewrite, plan) ==
  LET Local(mode, source, failed) ==
        [chunks |-> LocalChunks(rewrite, plan), by |-> Ran(mode, LocalAdapter, source, failed)]
  IN CASE buildRetrievalBoundary = "ts-local" -> {Local("ts-local", LocalAdapter, FALSE)}
       [] buildRetrievalBoundary # "ts-local" /\ setup.fallback ->
            AskService \cup {Local("go-executor", "fallback-ts-local", TRUE)}
       [] OTHER -> AskService

Weak(chunks) == \A n \in DOMAIN chunks : chunks[n].score < 3

\* executeSearch.  A search that plans not to look leaves the execution of the one before.
SearchKnowledge(text) ==
  /\ turn = "gathering" /\ Len(looked) < MaxSearchRounds
  /\ LET rewrite == buildRewritePlan(text, setup.past)
         plan == buildRetrievalPlan(text, rewrite)
         Did(chunks, by) == [text |-> text, rewrite |-> rewrite, plan |-> plan, chunks |-> chunks, by |-> by]
     IN /\ finalPlans' = <<rewrite, plan>>
        /\ IF plan.retrieve
             THEN \E found \in Gathered(rewrite, plan) :
                    /\ evidence' = evidence \o found.chunks
                    /\ execution' = found.by
                    /\ strays' = CASE found.chunks = <<>> -> Append(strays, "retrieval.no-results")
                                   [] found.chunks # <<>> /\ Weak(found.chunks) -> Append(strays, "retrieval.low-quality")
                                   [] OTHER -> strays
                    /\ looked' = Append(looked, Did(found.chunks, found.by))
             ELSE /\ UNCHANGED <<evidence, execution, strays>>
                  /\ looked' = Append(looked, Did(<<>>, Nothing))
  /\ UNCHANGED <<setup, turn, toolUses, prepared>>

\* The service fails and nothing stands in for it, or it answers with chunks that are no
\* list, which nobody checks: the turn fails with it.
RetrievalThrows(text) ==
  /\ turn = "gathering" /\ Len(looked) < MaxSearchRounds
  /\ buildRetrievalBoundary = "go-executor"
  /\ buildRetrievalPlan(text, buildRewritePlan(text, setup.past)).retrieve
  /\ turn' = "thrown"
  /\ UNCHANGED <<setup, looked, evidence, toolUses, finalPlans, execution, strays, prepared>>

\* executeToolCall.
UseTool ==
  /\ turn = "gathering" /\ Len(toolUses) < MaxToolUses
  /\ \E status \in {"succeeded", "failed"} : toolUses' = Append(toolUses, status)
  /\ UNCHANGED <<setup, turn, looked, evidence, finalPlans, execution, strays, prepared>>

-----------------------------------------------------------------------------
(* Preparing the answer *)

assembleContext ==
  CASE evidence # <<>> /\ toolUses # <<>> -> "mixed"
    [] evidence # <<>> /\ toolUses = <<>> -> "kb"
    [] evidence = <<>> /\ toolUses # <<>> -> "mcp"
    [] OTHER -> "direct"

\* assemblePrompt: the sections of the grounding.
Sections ==
  <<"query">> \o (IF evidence # <<>> THEN <<"knowledge">> ELSE <<>>) \o (IF toolUses # <<>> THEN <<"tools">> ELSE <<>>)

Says(kind) == [kind |-> kind, cut |-> FALSE]
Recalled == [n \in DOMAIN setup.past |-> Says("history")]

\* The request of the loop for the answer, which is cut if it is too long, ...
FinalMessages == <<Says("system"), Says("grounding")>> \o Recalled \o <<Says("question")>>
TrimGrounding(messages) == [messages EXCEPT ![2].cut = TRUE]

\* ... and that of the route, if the loop came to no answer.
buildModelMessages(summary) ==
  <<Says("system")>> \o (IF summary THEN <<Says("summary")>> ELSE <<>>)
  \o <<Says("grounding")>> \o Recalled \o <<Says("question")>>

buildOrchestrationTrace(steps) ==
  <<"agent.loop.start">> \o [n \in 1..steps |-> "agent.step"]
  \o <<"rewrite.plan", "tool.plan", "retrieval.plan", "retrieval.execute", "context.assembly", "prompt.assembly">>

\* A step for each search and each tool, and one for the answer; those of calls that were
\* skipped are left out.
traceStages == buildOrchestrationTrace(Len(looked) + Len(toolUses) + 1)

\* What the routes record: all of it if the answer was written, and a stream whose reader
\* leaves after that a failure as well.
Ended(outcome) == <<outcome, "chat">>
TurnStages ==
  {traceStages \o Ended("generation.completed"), Ended("generation.failed"),
   traceStages \o Ended("generation.completed") \o Ended("generation.failed")}

mapStageToNodeType(stage) ==
  CASE stage \in {"chat", "tool.plan", "retrieval.plan", "retrieval.execute", "context.assembly", "prompt.assembly"} -> stage
    [] stage = "rewrite.plan" -> "rewrite"
    [] stage \in {"generation.completed", "generation.failed"} -> "generation"
    [] OTHER -> "other"

\* Of these there is one node in a run, of the others as many as records.
Single == {"rewrite", "tool.plan", "retrieval.plan", "retrieval.execute", "context.assembly", "prompt.assembly"}
inferTraceNodeId(stage, n) ==
  LET type == mapStageToNodeType(stage)
  IN CASE type = "chat" -> <<"chat", "root">>
       [] type \in Single -> <<type, "single">>
       [] OTHER -> <<type, "random", n>>

NoNode == <<>>
inferTraceParentNodeId(stage) ==
  LET type == mapStageToNodeType(stage)
  IN CASE type = "retrieval.execute" -> <<"retrieval.plan", "single">>
       [] type \in (Single \cup {"generation"}) \ {"retrieval.execute"} -> <<"chat", "root">>
       [] OTHER -> NoNode

Nodes(stages) ==
  [n \in DOMAIN stages |-> [id |-> inferTraceNodeId(stages[n], n), parent |-> inferTraceParentNodeId(stages[n])]]

\* The plans of the last search, or what stands for them if there was none.
Plans ==
  IF finalPlans # <<>> THEN finalPlans
  ELSE <<Rewrite("passthrough", Message, <<Message>>), [retrieve |-> FALSE, bases |-> {}, topK |-> ManyChunks]>>

\* buildOrchestrationResult.
Result ==
  [scene |-> assembleContext, sections |-> Sections,
   useRetrieval |-> evidence # <<>>, useTools |-> toolUses # <<>>,
   rewrite |-> Plans[1], plan |-> Plans[2], execution |-> execution]

\* prepareChatTurn after the loop, and the trace of the route.
Prepare ==
  /\ turn = "gathering" /\ turn' = "prepared"
  /\ \E tooLong, summary \in BOOLEAN, stages \in TurnStages :
       prepared' =
         <<[result |-> Result,
            request |-> IF tooLong THEN TrimGrounding(FinalMessages) ELSE FinalMessages,
            second |-> buildModelMessages(summary),
            nodes |-> Nodes(stages)]>>
  /\ UNCHANGED <<setup, looked, evidence, toolUses, finalPlans, execution, strays>>

GroundingNext == (\E text \in Texts : SearchKnowledge(text) \/ RetrievalThrows(text)) \/ UseTool \/ Prepare

GroundingSpec == GroundingInit /\ [][GroundingNext]_groundingVars

GroundingTypeOK ==
  /\ turn \in {"gathering", "prepared", "thrown"}
  /\ Len(looked) <= MaxSearchRounds /\ Len(toolUses) <= MaxToolUses
  /\ \A n \in DOMAIN looked : looked[n].rewrite.strategy \in Strategies /\ looked[n].plan.bases \subseteq setup.visible
  /\ execution.adapter \in {NoAdapter, LocalAdapter, ServiceAdapter}

-----------------------------------------------------------------------------
(* Properties *)

\* The words of the first three questions of a text, and all of them.
AskedFirst(text) ==
  LET starts == Starts(text)
  IN {text[n] : n \in {m \in DOMAIN text : text[m] # Gap /\ Cardinality({k \in starts : k <= m}) <= 3}}
Asked(text) == Words(text) \ {Gap}

\* A search asks for all it was asked for, in the terms of the mappings, up to three
\* questions; if it is one question, or follows up on an earlier turn, whole, and in the
\* latter case with that turn.
QueriesAreWhole ==
  \A n \in DOMAIN looked :
    LET mapped == applyEnabledMappings(looked[n].text)
        query == looked[n].rewrite.query
    IN /\ AskedFirst(mapped) \subseteq Words(query)
       /\ looked[n].rewrite.strategy # "multi-query" => Asked(mapped) \subseteq Words(query)
       /\ looked[n].rewrite.strategy # "followup-merge" => Asked(query) \subseteq Asked(mapped)
       /\ looksLikeFollowUp(mapped) /\ UserTurns(setup.past) # <<>> =>
            \E t \in Elems(setup.past) : t.role = "user" /\ query = t.text \o mapped

\* What the chunks of the server itself answer is of the bases that were planned, if any
\* were, each chunk once, the better before the worse; and it leaves out a chunk of them
\* that says anything of the query only where it already has as many as it may, none worse.
LocalAnswersAreBest ==
  \A n \in DOMAIN looked :
    LET search == looked[n]
        Matches(i) == Cardinality({m \in DOMAIN search.rewrite.query : search.rewrite.query[m] \in LocalKnowledge[i].words})
        open == {i \in DOMAIN LocalKnowledge : Matches(i) > 0 /\ (search.plan.bases = {} \/ LocalKnowledge[i].base \in search.plan.bases)}
        shown == {search.chunks[m].id : m \in DOMAIN search.chunks}
    IN search.by.adapter = LocalAdapter =>
         /\ shown \subseteq open /\ Cardinality(shown) = Len(search.chunks) /\ Len(search.chunks) <= search.plan.topK
         /\ \A l, m \in DOMAIN search.chunks : l < m => Matches(search.chunks[l].id) >= Matches(search.chunks[m].id)
         /\ \A i \in open \ shown : Len(search.chunks) = search.plan.topK /\ \A j \in shown : Matches(i) <= Matches(j)

\* The answer is grounded on all that every search found, in order, whatever came of the
\* searches after it, and says by its scene whether that and tools are part of it.
EvidenceIsAll ==
  /\ evidence = Chained([n \in DOMAIN looked |-> looked[n].chunks])
  /\ turn = "prepared" =>
       /\ prepared[1].result.useRetrieval <=> \E n \in DOMAIN looked : looked[n].chunks # <<>>
       /\ "knowledge" \in Elems(prepared[1].result.sections) <=> prepared[1].result.scene \in {"kb", "mixed"}
       /\ "tools" \in Elems(prepared[1].result.sections) <=> prepared[1].result.scene \in {"mcp", "mixed"}
       /\ prepared[1].result.useRetrieval <=> prepared[1].result.scene \in {"kb", "mixed"}

\* The plans reported are those of the last search, the execution that of the last one that
\* looked: the two are of one search unless the last planned not to look.
ReportIsOfLastSearch ==
  turn = "prepared" /\ looked # <<>> =>
    LET last == looked[Len(looked)]
        ran == {n \in DOMAIN looked : looked[n].plan.retrieve}
    IN /\ prepared[1].result.rewrite = last.rewrite /\ prepared[1].result.plan = last.plan
       /\ prepared[1].result.plan.retrieve => prepared[1].result.execution = last.by
       /\ prepared[1].result.execution = Nothing <=> ran = {}
       /\ \A n \in ran : prepared[1].result.execution = looked[n].by \/ \E m \in ran : m > n

\* Neither request loses a message of the history or the question, in either the grounding
\* is there, and nothing but the grounding is ever cut.
RequestsAreWhole ==
  turn = "prepared" =>
    \A request \in {prepared[1].request, prepared[1].second} :
      LET Kind(kind) == {n \in DOMAIN request : request[n].kind = kind}
      IN /\ Cardinality(Kind("grounding")) = 1 /\ Cardinality(Kind("history")) = Len(setup.past)
         /\ Kind("question") = {Len(request)}
         /\ \A n \in DOMAIN request : request[n].cut => request[n].kind = "grounding"

\* In the trace of a turn every node is below one that is recorded too, whether the answer
\* was written or not, and no two are the same, but for the root and what ended it, of
\* which a stream that was left has one more.
TraceIsTree ==
  turn = "prepared" =>
    LET nodes == prepared[1].nodes
        ids == {nodes[n].id : n \in DOMAIN nodes}
    IN /\ \A n \in DOMAIN nodes : nodes[n].parent # NoNode => nodes[n].parent \in ids \ {nodes[n].id}
       /\ \A m, n \in DOMAIN nodes : nodes[m].id = nodes[n].id => m = n \/ nodes[m].id = <<"chat", "root">>

\* An answer rests on what was asked for and found, and its trace says so.
GroundingIsTrue ==
  /\ QueriesAreWhole /\ LocalAnswersAreBest /\ EvidenceIsAll
  /\ ReportIsOfLastSearch /\ RequestsAreWhole /\ TraceIsTree
=============================================================================

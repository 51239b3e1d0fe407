--------------------------------- MODULE Workbench ---------------------------------
(***************************************************************************)
(* The three shopping pages of the preview: the raw preview and the two    *)
(* workbenches, v2 and v3.  Each lists the products found for a brief,     *)
(* compares a few of them and streams the answer of an advisor.  Searches  *)
(* and comparisons are not aborted, and may be answered in any order; a    *)
(* question aborts the one before it.                                      *)
(*                                                                         *)
(* A brief stands for the query with its filter.  Two sources rank and     *)
(* know products: the Python backend and, for v3 alone, a catalogue in the *)
(* browser that steps in when the backend fails.                           *)
(*                                                                         *)
(* A definition marked [variant] is a faulty form of the one after it.     *)
(* Nothing uses it: it is there to show that a property notices the fault. *)
(***************************************************************************)
EXTENDS Integers, Sequences, FiniteSets, Functions, Selections

CONSTANTS
  Products,
  Briefs,
  FirstBrief,    \* what the page looks for when it is opened
  Ranking,       \* Ranking[source][q]: what a source finds for brief q, the best first
  Catalogue,     \* Catalogue[source]: the products it can compare
  SelectionLimit,\* how many may be picked, and the columns of a comparison
  Benches,       \* which of the pages are looked at
  MaxSearches, MaxCompares, MaxQuestions   \* bounds

Sources == {"backend", "local"}

ASSUME BenchAssumption ==
  /\ Benches \subseteq {"preview", "v2", "v3"} /\ FirstBrief \in Briefs
  /\ Ranking \in [Sources -> [Briefs -> Seq(Products)]]
  /\ Catalogue \in [Sources -> SUBSET Products]
  /\ SelectionLimit \in Nat \ {0, 1}   \* a comparison needs two
  /\ MaxSearches \in Nat \ {0} /\ MaxCompares \in Nat /\ MaxQuestions \in Nat
  /\ MaxCompares <= MaxQuestions   \* each comparison of v3 asks a question

VARIABLES
  bench,      \* which page it is
  brief,      \* what the page looks for
  searches,   \* the searches begun: their briefs, and whether they are answered
  searching,  \* isSearching
  listed,     \* the products on the page, and the brief they were found for
  picked,     \* selectedIds
  cards,      \* the keys of selectedById
  compares,   \* the comparisons begun
  comparing,  \* isComparing
  board,      \* compareBlock, as a set of at most one comparison
  question,   \* the question of the advisor, 0 for none
  said,       \* the question its text belongs to, 0 if there is no text
  advice,     \* its status
  streams,    \* streams[n]: what has become of the answer to question n
  wrongList,  \* the list was put in the place of that of a later search
  wrongBoard, \* the comparison was answered after other products had been picked
  late        \* an answer went on after its question had been replaced

finding == <<brief, searches, searching, listed, wrongList>>
picking == <<picked, cards, compares, comparing, board, wrongBoard>>
advising == <<question, said, advice, streams, late>>
benchVars == <<bench, finding, picking, advising>>

NoBoard == {}

BenchTypeOK ==
  /\ bench \in Benches /\ brief \in Briefs
  /\ searches \in Seq([of : Briefs, answered : BOOLEAN]) /\ Len(searches) \in 1..MaxSearches
  /\ searching \in BOOLEAN /\ comparing \in BOOLEAN
  /\ listed.of \in Briefs /\ listed.products \in Seq(Products)
  /\ picked \in Seq(Products) /\ Len(picked) <= SelectionLimit /\ cards \subseteq Products
  /\ compares \in Seq([of : Seq(Products), answered : BOOLEAN]) /\ Len(compares) <= MaxCompares
  /\ Cardinality(board) <= 1
  /\ \A b \in board : b.of \in Seq(Products) /\ b.columns \in Seq(Products) /\ Len(b.columns) <= SelectionLimit
  /\ question \in 0..MaxQuestions /\ said \in 0..question
  /\ advice \in {"idle", "streaming", "done", "error"}
  /\ streams \in [1..MaxQuestions -> {"none", "asked", "open", "local", "last", "over"}]
  /\ wrongList \in BOOLEAN /\ wrongBoard \in BOOLEAN /\ late \in BOOLEAN

\* The page is opened, and looks for something at once.
BenchInit ==
  /\ bench \in Benches /\ brief = FirstBrief
  /\ searches = <<[of |-> FirstBrief, answered |-> FALSE]>> /\ searching = TRUE
  /\ listed = [of |-> FirstBrief, products |-> <<>>]
  /\ picked = <<>> /\ cards = {} /\ compares = <<>> /\ comparing = FALSE /\ board = NoBoard
  /\ question = 0 /\ said = 0 /\ advice = "idle" /\ streams = [n \in 1..MaxQuestions |-> "none"]
  /\ wrongList = FALSE /\ wrongBoard = FALSE /\ late = FALSE

-----------------------------------------------------------------------------
(* Searching *)

\* In v3 a search begins by dropping the picks and the comparison.
runSearch(q) ==
  /\ brief' = q /\ searching' = TRUE
  /\ searches' = Append(searches, [of |-> q, answered |-> FALSE])
  /\ UNCHANGED <<listed, wrongList>>
  /\ IF bench = "v3"
       THEN picked' = <<>> /\ board' = NoBoard /\ wrongBoard' = FALSE /\ UNCHANGED <<cards, compares, comparing>>
       ELSE UNCHANGED picking

\* The preview waits for the search before; a chip of v2 and a reference of v3 do not.
ChangeBrief(q) ==
  /\ Len(searches) < MaxSearches
  /\ bench = "preview" => ~searching
  /\ runSearch(q)
  /\ UNCHANGED <<bench, advising>>

\* A task of v2 also closes the comparison.
PickTask(q) ==
  /\ bench = "v2" /\ Len(searches) < MaxSearches
  /\ brief' = q /\ searching' = TRUE
  /\ searches' = Append(searches, [of |-> q, answered |-> FALSE])
  /\ board' = NoBoard /\ wrongBoard' = FALSE
  /\ UNCHANGED <<bench, listed, wrongList, picked, cards, compares, comparing, advising>>

List(n, products) ==
  /\ listed' = [of |-> searches[n].of, products |-> products]
  /\ wrongList' = (\E m \in DOMAIN searches : m > n /\ searches[m].answered)

EndSearch(n) == searching' = FALSE /\ searches' = [searches EXCEPT ![n].answered = TRUE]

\* v3 remembers every card it has shown.
Remember(products) == cards' = (IF bench = "v3" THEN cards \cup Range(products) ELSE cards)

SearchFound(n) ==
  /\ ~searches[n].answered
  /\ EndSearch(n)
  /\ List(n, Ranking["backend"][searches[n].of])
  /\ Remember(Ranking["backend"][searches[n].of])
  /\ UNCHANGED <<bench, brief, picked, compares, comparing, board, wrongBoard, advising>>

\* The backend, or a route in front of it, fails: the preview keeps its list, v2 empties it, and v3 asks the catalogue in the browser.
SearchFailed(n) ==
  /\ ~searches[n].answered
  /\ EndSearch(n)
  /\ \/ bench = "preview" /\ UNCHANGED <<listed, wrongList, cards>>
     \/ bench = "v2" /\ List(n, <<>>) /\ UNCHANGED cards
     \/ bench = "v3" /\ List(n, Ranking["local"][searches[n].of]) /\ Remember(Ranking["local"][searches[n].of])
  /\ UNCHANGED <<bench, brief, picked, compares, comparing, board, wrongBoard, advising>>

-----------------------------------------------------------------------------
(* The advisor *)

\* What aborting the question before leaves of its answer: the local one that has shown
\* its last piece still reports the end after its pause.
Aborted == [n \in DOMAIN streams |-> IF streams[n] \in {"none", "last"} THEN streams[n] ELSE "over"]

\* [variant] The answer to the question before goes on.
AskBeside ==
  /\ question < MaxQuestions /\ question' = question + 1
  /\ said' = 0 /\ advice' = "streaming"
  /\ streams' = [streams EXCEPT ![question + 1] = "asked"]
  /\ UNCHANGED late

askAdvisor ==
  /\ question < MaxQuestions /\ question' = question + 1
  /\ said' = 0 /\ advice' = "streaming"
  /\ streams' = [Aborted EXCEPT ![question + 1] = "asked"]
  /\ UNCHANGED late

\* From a card, a prompt or the form; the preview waits for the answer before.
Consult ==
  /\ bench = "v2" \/ (bench = "preview" /\ advice # "streaming")
  /\ askAdvisor
  /\ UNCHANGED <<bench, finding, picking>>

cancelAdvisor ==
  /\ bench = "v2" /\ advice = "streaming"
  /\ streams' = Aborted /\ advice' = "done"
  /\ UNCHANGED <<bench, finding, picking, question, said, late>>

Becomes(n, place) == streams' = [streams EXCEPT ![n] = place]

\* Only the end of a local answer comes when its question may have been replaced.
Says(n) == said' = n /\ late' = (late \/ (streams[n] = "last" /\ n # question))

StreamOpens(n) ==
  /\ streams[n] = "asked" /\ Becomes(n, "open")
  /\ UNCHANGED <<bench, finding, picking, question, said, advice, late>>

\* No answer from the backend: v3 begins to tell its own, in one piece or several.
StreamRefused(n) ==
  /\ streams[n] = "asked"
  /\ IF bench = "v3"
       THEN (\E place \in {"local", "last"} : Becomes(n, place)) /\ Says(n) /\ UNCHANGED advice
       ELSE Becomes(n, "over") /\ advice' = "error" /\ UNCHANGED <<said, late>>
  /\ UNCHANGED <<bench, finding, picking, question>>

\* The first piece of the text; those after it change nothing here.
DeltaArrives(n) ==
  /\ streams[n] = "open" /\ said # n /\ Says(n)
  /\ UNCHANGED <<bench, finding, picking, question, advice, streams>>

LastPiece(n) ==
  /\ streams[n] = "local" /\ Becomes(n, "last") /\ Says(n)
  /\ UNCHANGED <<bench, finding, picking, question, advice>>

\* The done event, or the end of the local answer.
DoneArrives(n) ==
  /\ streams[n] \in {"open", "last"} /\ Becomes(n, "over")
  /\ advice' = "done" /\ Says(n)
  /\ UNCHANGED <<bench, finding, picking, question>>

\* [variant] The page does not notice.
StreamStops(n) ==
  /\ streams[n] = "open" /\ Becomes(n, "over")
  /\ UNCHANGED <<bench, finding, picking, question, said, advice, late>>

StreamBreaks(n) ==
  /\ streams[n] = "open" /\ Becomes(n, "over")
  /\ advice' = "error"
  /\ UNCHANGED <<bench, finding, picking, question, said, late>>

-----------------------------------------------------------------------------
(* Picking and comparing *)

\* [variant] Off by one.
RoomForOneMore == Len(picked) <= SelectionLimit
\* What enables the button of a card.
HasRoom == Len(picked) < SelectionLimit

\* [variant] The comparison stays when the picks change.
ToggleOnly(p) ==
  /\ bench # "v3" /\ p \in Range(listed.products) \cup (IF bench = "v2" THEN Range(picked) ELSE {})
  /\ \/ p \in Range(picked) /\ picked' = SelectIn(picked, Products \ {p}) /\ cards' = cards \ {p}
     \/ p \notin Range(picked) /\ HasRoom
        /\ picked' = Append(picked, p) /\ cards' = cards \cup (IF bench = "v2" THEN {p} ELSE {})
  /\ UNCHANGED <<bench, finding, compares, comparing, board, wrongBoard, advising>>

\* A card of the list, or of the tray of v2.  The preview keeps the comparison.
TogglePick(p) ==
  /\ bench # "v3" /\ p \in Range(listed.products) \cup (IF bench = "v2" THEN Range(picked) ELSE {})
  /\ \/ p \in Range(picked) /\ picked' = SelectIn(picked, Products \ {p}) /\ cards' = cards \ {p}
     \/ p \notin Range(picked) /\ HasRoom
        /\ picked' = Append(picked, p) /\ cards' = cards \cup (IF bench = "v2" THEN {p} ELSE {})
  /\ IF bench = "v2" THEN board' = NoBoard /\ wrongBoard' = FALSE ELSE UNCHANGED <<board, wrongBoard>>
  /\ UNCHANGED <<bench, finding, compares, comparing, advising>>

ClearPicks ==
  /\ bench # "v3" /\ (picked # <<>> \/ board # NoBoard)
  /\ picked' = <<>> /\ cards' = {} /\ board' = NoBoard /\ wrongBoard' = FALSE
  /\ UNCHANGED <<bench, finding, compares, comparing, advising>>

Compare(ids) ==
  /\ Len(compares) < MaxCompares
  /\ comparing' = TRUE /\ compares' = Append(compares, [of |-> ids, answered |-> FALSE])

\* The button of the tray.
ComparePicked ==
  /\ bench # "v3" /\ Len(picked) >= 2 /\ ~comparing
  /\ Compare(picked)
  /\ UNCHANGED <<bench, finding, picked, cards, board, wrongBoard, advising>>

\* The two alternatives v3 proposes: the second and the third, or else the winner itself.
Alternatives == {listed.products[IF i <= Len(listed.products) THEN i ELSE 1] : i \in {2, 3}}

\* v3 compares the winner with a product; only the buttons of the drawer wait.
CompareWith(p) ==
  /\ bench = "v3" /\ listed.products # <<>>
  /\ p \in Alternatives \/ (~comparing /\ p \in Range(listed.products) \ {listed.products[1]})
  /\ LET winner == listed.products[1]
         ids == IF p = winner THEN <<winner>> ELSE <<winner, p>>
     IN /\ picked' = ids /\ cards' = cards \cup Range(ids)
        /\ IF Len(ids) < 2
             THEN board' = NoBoard /\ wrongBoard' = FALSE /\ UNCHANGED <<compares, comparing>>
             ELSE /\ Compare(ids)
                  /\ UNCHANGED board /\ wrongBoard' = (board # NoBoard)
  /\ UNCHANGED <<bench, finding, advising>>

\* The columns of a table: what the source knows of the ids, up to its limit.
Columns(source, ids) ==
  LET known == SelectIn(ids, Catalogue[source])
  IN SubSeq(known, 1, IF Len(known) < SelectionLimit THEN Len(known) ELSE SelectionLimit)

PutUp(n, source) ==
  /\ board' = {[of |-> compares[n].of, columns |-> Columns(source, compares[n].of)]}
  /\ wrongBoard' = (compares[n].of # picked)

EndCompare(n) == comparing' = FALSE /\ compares' = [compares EXCEPT ![n].answered = TRUE]

\* v3 goes on to ask the advisor about the two.
ThenAsk == IF bench = "v3" THEN askAdvisor ELSE UNCHANGED advising

CompareFound(n) ==
  /\ ~compares[n].answered
  /\ EndCompare(n) /\ PutUp(n, "backend") /\ ThenAsk
  /\ UNCHANGED <<bench, finding, picked, cards>>

\* v3 compares in the browser, the others leave what there is.
CompareFailed(n) ==
  /\ ~compares[n].answered
  /\ EndCompare(n) /\ ThenAsk
  /\ IF bench = "v3" THEN PutUp(n, "local") ELSE UNCHANGED <<board, wrongBoard>>
  /\ UNCHANGED <<bench, finding, picked, cards>>

-----------------------------------------------------------------------------

SearchStep(n) == n \in DOMAIN searches /\ (SearchFound(n) \/ SearchFailed(n))
CompareStep(n) == n \in DOMAIN compares /\ (CompareFound(n) \/ CompareFailed(n))
AdvisorStep(n) ==
  \/ StreamOpens(n) \/ StreamRefused(n) \/ DeltaArrives(n) \/ LastPiece(n)
  \/ DoneArrives(n) \/ StreamBreaks(n)

BenchNext ==
  \/ \E q \in Briefs : ChangeBrief(q) \/ PickTask(q)
  \/ \E n \in 1..MaxSearches : SearchStep(n)
  \/ \E p \in Products : TogglePick(p) \/ CompareWith(p)
  \/ ClearPicks \/ ComparePicked
  \/ \E n \in 1..MaxCompares : CompareStep(n)
  \/ Consult \/ cancelAdvisor
  \/ \E n \in 1..MaxQuestions : AdvisorStep(n)

\* What of the specification the safety properties need.
BenchSpec == BenchInit /\ [][BenchNext]_benchVars

-----------------------------------------------------------------------------
(* Properties *)

Answered(requests) == \A n \in DOMAIN requests : requests[n].answered

\* When a workbench has nothing under way, its list is that of its brief, its comparison
\* is of the products picked, and every pick has a card, in v3 one of the list - unless
\* the last answer it took was overtaken, which nothing on the page prevents.
BoardIsOfSelection ==
  bench # "preview" /\ Answered(searches) /\ Answered(compares) =>
    /\ wrongList \/ listed.of = brief
    /\ wrongBoard \/ \A b \in board : b.of = picked
    /\ bench = "v2" => cards = Range(picked)
    /\ bench = "v3" => Range(picked) \subseteq cards

\* When the advisor rests, the text is of the question above it, unless the local answer
\* to an earlier one reported its end late.
AdvisorAnswersQuestion ==
  advice \in {"done", "error"} /\ ~late => said \in {0, question}

\* A workbench at rest shows what it was asked for.
WorkbenchIsTrue == BoardIsOfSelection /\ AdvisorAnswersQuestion

\* What the page waits for.
Working == searching \/ advice = "streaming"
=============================================================================

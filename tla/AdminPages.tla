------------------------------- MODULE AdminPages -------------------------------
(***************************************************************************)
(* The lists that administrators keep - users, settings, mappings, sample  *)
(* questions, intents, knowledge bases - as the web server stores them and *)
(* as one page of one administrator shows and changes them, while other    *)
(* administrators change them too.  Every handler is synchronous once it   *)
(* has its body, so each is one step; the requests of the page and their   *)
(* answers are not.  Of the contents of an entry only the parent of an     *)
(* intent is kept; changes are counted.                                    *)
(*                                                                         *)
(* A definition marked [variant] is a faulty form of the one after it.     *)
(* Nothing uses it: it is there to show that a property notices the fault. *)
(***************************************************************************)
EXTENDS Integers, Sequences, FiniteSets

CONSTANTS
  Scopes,      \* the tenants with their organisations, as administrators have them
  Own,         \* the scope of the administrator at the page
  Ids,         \* ids and keys of entries
  Pages,       \* which of the pages are looked at
  MaxWrites,   \* MaxWrites[p] bounds the changes while page p is looked at
  MaxRequests  \* bounds what the page asks for beyond its first list

Kinds == {"users", "settings", "mappings", "questions", "intents", "knowledge", "intent tree", "dashboard",
          "traces", "trace", "documents"}

ASSUME IdsAssumption == IsFiniteSet(Ids)
ASSUME OwnAssumption == Own \in Scopes
ASSUME PagesAssumption == Pages \subseteq Kinds
ASSUME AdminBounds == MaxWrites \in [Kinds -> Nat] /\ MaxRequests \in Nat

VARIABLES
  page,      \* the page that is open
  entries,   \* the entries of its kind in the platform state
  minted,    \* the ids that create has made up
  writes,    \* how many changes there were
  items,     \* what the page shows, and ...
  itemsAt,   \* ... how many changes there had been when it was served
  listState, \* status of useApiResource
  fetches,   \* the lists asked for and not yet received, in that order
  saves,     \* what the page has sent and not finished: see SaveForm
  confirmed, \* the number of the newest change the page was told of
  asks,      \* how much it has asked for
  overtaken  \* an answer arrived before that of an earlier request

adminVars == <<page, entries, minted, writes, items, itemsAt, listState, fetches, saves, confirmed, asks, overtaken>>
platform == <<entries, minted, writes>>
shownPart == <<items, itemsAt, listState>>

NoParent == "none"
Entry == [id : Ids, scope : Scopes, parent : Ids \cup {NoParent}]
Fetch == [rows : SUBSET Entry, at : {-1} \cup Nat, for : 0..MaxRequests]
\* A save is sent, then done or refused by the server, then waits for its list.
Save == [n : 1..MaxRequests, form : BOOLEAN, state : {"sent", "done", "refused", "listing"}, at : Nat]

AdminTypeOK ==
  /\ page \in Pages
  /\ entries \subseteq Entry /\ items \subseteq Entry /\ minted \subseteq Ids
  /\ writes \in 0..MaxWrites[page] /\ itemsAt \in 0..writes /\ confirmed \in 0..writes
  /\ listState \in {"loading", "success", "error"}
  /\ fetches \in Seq(Fetch) /\ saves \subseteq Save
  /\ asks \in 0..MaxRequests /\ overtaken \in BOOLEAN
  /\ \A e, f \in entries : e.id = f.id /\ (e.scope = f.scope \/ page = "users") => e = f

Asking(n) == [rows |-> {}, at |-> -1, for |-> n]

\* useApiResource asks for the list when the page appears.
AdminInit ==
  /\ page \in Pages
  /\ entries = {} /\ minted = {} /\ writes = 0
  /\ items = {} /\ itemsAt = 0 /\ listState = "loading"
  /\ fetches = <<Asking(0)>> /\ saves = {} /\ confirmed = 0 /\ asks = 0 /\ overtaken = FALSE

-----------------------------------------------------------------------------
(* The repositories *)

InScope(e, s) == e.scope = s
Listing(s) == {e \in entries : InScope(e, s)}
Made(id, s, parent) == [id |-> id, scope |-> s, parent |-> parent]

\* upsert of settings, mappings and sample questions: within a scope.
UpsertScoped(id, s) == {e \in entries : ~(e.id = id /\ InScope(e, s))} \cup {Made(id, s, NoParent)}

\* upsert of users: a user is in one scope, and moves with it.
UpsertUser(id, s) == {e \in entries : e.id # id} \cup {Made(id, s, NoParent)}

CreateEntry(id, s, parent) == entries \cup {Made(id, s, parent)}

UpdateIntent(id, s, parent) ==
  {IF e.id = id /\ InScope(e, s) THEN Made(id, s, parent) ELSE e : e \in entries}

RenameKnowledgeBase(id, s) == UpdateIntent(id, s, NoParent)

DeleteEntry(id, s) == {e \in entries : ~(e.id = id /\ InScope(e, s))}

-----------------------------------------------------------------------------
(* The handlers: what an administrator of scope s may make of the entries.  *)
(* Each yields a set of possible results, the empty set for a refusal.      *)

Fresh == Ids \ minted

PostUser(s) == {UpsertUser(id, t) : id \in {i \in Ids : \A e \in entries : e.id # i}, t \in Scopes}
PutUser(s) == {UpsertUser(id, t) : id \in Ids, t \in Scopes}
PostSetting(s) == {UpsertScoped(id, s) : id \in {i \in Ids : \A e \in Listing(s) : e.id # i}}
PutSetting(s) == {UpsertScoped(id, s) : id \in Ids}
PostMapping(s) == {UpsertScoped(id, s) : id \in Fresh}
PutMapping(s) == {UpsertScoped(id, s) : id \in minted}
PostQuestion(s) == {UpsertScoped(id, s) : id \in Fresh}
PutQuestion(s) == {UpsertScoped(id, s) : id \in minted}
PostIntent(s) == {CreateEntry(id, s, p) : id \in Fresh, p \in minted \cup {NoParent}}
PutIntent(s) == {UpdateIntent(id, s, p) : id \in minted, p \in minted \cup {NoParent}}
DeleteIntent(s) == {DeleteEntry(id, s) : id \in minted}
PostKnowledgeBase(s) == {CreateEntry(id, s, NoParent) : id \in Fresh}
PutKnowledgeBase(s) == {RenameKnowledgeBase(id, s) : id \in minted}
DeleteKnowledgeBase(s) == {DeleteEntry(id, s) : id \in minted}

FormResults(s) ==
  CASE page = "users" -> PostUser(s) \cup PutUser(s)
    [] page = "settings" -> PostSetting(s) \cup PutSetting(s)
    [] page = "mappings" -> PostMapping(s) \cup PutMapping(s)
    [] page = "questions" -> PostQuestion(s) \cup PutQuestion(s)
    [] page \in {"intents", "intent tree"} -> PostIntent(s) \cup PutIntent(s)
    [] OTHER -> {}

\* From a row of the list, or from one of the dialogs over it.
RowResults(s) ==
  CASE page \in {"intents", "intent tree"} -> DeleteIntent(s)
    [] page = "knowledge" -> PostKnowledgeBase(s) \cup PutKnowledgeBase(s) \cup DeleteKnowledgeBase(s)
    [] OTHER -> {}

\* One of the results becomes the state.
Apply(results) ==
  /\ writes < MaxWrites[page] /\ writes' = writes + 1
  /\ entries' \in results
  /\ minted' = minted \cup {e.id : e \in entries'}

\* Somebody else, of any scope, changes the lists.
OthersChange ==
  /\ \E s \in Scopes : Apply(FormResults(s) \cup RowResults(s))
  /\ UNCHANGED <<page, items, itemsAt, listState, fetches, saves, confirmed, asks, overtaken>>

-----------------------------------------------------------------------------
(* The page *)

AskMore == asks < MaxRequests /\ asks' = asks + 1

\* reload
Reload(n) ==
  /\ fetches' = Append(fetches, Asking(n)) /\ listState' = "loading"
  /\ UNCHANGED <<items, itemsAt>>

\* The Refresh button is never disabled.
Refresh ==
  /\ AskMore /\ Reload(0)
  /\ UNCHANGED <<page, platform, saves, confirmed, overtaken>>

\* handleCreate, handleUpdate and handleDelete; the form's buttons are disabled while one is
\* under way, those of a row and of a dialog opened anew are not.
SaveForm(form) ==
  /\ form => \A s \in saves : ~s.form
  /\ AskMore
  /\ saves' = saves \cup {[n |-> asks + 1, form |-> form, state |-> "sent", at |-> 0]}
  /\ UNCHANGED <<page, platform, items, itemsAt, listState, fetches, confirmed, overtaken>>

UsersPage == page = "users" /\ (Refresh \/ SaveForm(TRUE))
SettingsPage == page = "settings" /\ (Refresh \/ SaveForm(TRUE))
MappingsPage == page = "mappings" /\ (Refresh \/ SaveForm(TRUE))
SampleQuestionsPage == page = "questions" /\ (Refresh \/ SaveForm(TRUE))
IntentListPage == page = "intents" /\ (Refresh \/ SaveForm(TRUE) \/ SaveForm(FALSE))
KnowledgePage == page = "knowledge" /\ (Refresh \/ SaveForm(FALSE))
IntentTreePage == page = "intent tree" /\ Refresh
DashboardPage == page = "dashboard" /\ Refresh
TracesPage == page = "traces" /\ Refresh
TracePage == page = "trace" /\ Refresh
DocumentsPage == page = "documents" /\ Refresh

Becomes(s, state, at) == saves' = (saves \ {s}) \cup {[s EXCEPT !.state = state, !.at = at]}

\* The server has the request: the change is made, ...
ServeSave(s) ==
  /\ s.state = "sent"
  /\ Apply(IF s.form THEN FormResults(Own) ELSE RowResults(Own))
  /\ Becomes(s, "done", writes + 1)
  /\ UNCHANGED <<page, shownPart, fetches, confirmed, asks, overtaken>>

\* ... or refused, as invalid or because the key is taken.
RefuseSave(s) ==
  /\ s.state = "sent"
  /\ Becomes(s, "refused", 0)
  /\ UNCHANGED <<page, platform, shownPart, fetches, confirmed, asks, overtaken>>

\* [variant] The page is content with the answer.
SaveConfirmedOnly(s) ==
  /\ s.state = "done" /\ saves' = saves \ {s}
  /\ confirmed' = IF s.at > confirmed THEN s.at ELSE confirmed
  /\ UNCHANGED <<page, platform, shownPart, fetches, asks, overtaken>>

\* The answer arrives: the page says so and asks for the list.
SaveConfirmed(s) ==
  /\ s.state = "done" /\ Reload(s.n)
  /\ Becomes(s, "listing", s.at)
  /\ confirmed' = IF s.at > confirmed THEN s.at ELSE confirmed
  /\ UNCHANGED <<page, platform, asks, overtaken>>

\* The answer is an error, or gets lost: the page shows an error and its old list.
SaveFails(s) ==
  /\ s.state \in {"sent", "refused", "done"}
  /\ saves' = saves \ {s}
  /\ UNCHANGED <<page, platform, shownPart, fetches, confirmed, asks, overtaken>>

ServeList(i) ==
  /\ fetches[i].at = -1
  /\ fetches' = [fetches EXCEPT ![i] = [@ EXCEPT !.rows = Listing(Own), !.at = writes]]
  /\ UNCHANGED <<page, platform, shownPart, saves, confirmed, asks, overtaken>>

\* A list or an error arrives: the save it was asked for is finished with it.
ListEnds(i) ==
  /\ fetches' = SubSeq(fetches, 1, i - 1) \o SubSeq(fetches, i + 1, Len(fetches))
  /\ saves' = {s \in saves : ~(s.state = "listing" /\ s.n = fetches[i].for)}
  /\ overtaken' = (overtaken \/ i # 1)
  /\ UNCHANGED <<page, platform, confirmed, asks>>

ShowList(i) ==
  /\ fetches[i].at # -1
  /\ items' = fetches[i].rows /\ itemsAt' = fetches[i].at /\ listState' = "success"
  /\ ListEnds(i)

ListFailed(i) ==
  /\ listState' = "error" /\ UNCHANGED <<items, itemsAt>>
  /\ ListEnds(i)

AdminNext ==
  \/ OthersChange
  \/ UsersPage \/ SettingsPage \/ MappingsPage \/ SampleQuestionsPage
  \/ IntentListPage \/ KnowledgePage \/ IntentTreePage \/ DashboardPage
  \/ TracesPage \/ TracePage \/ DocumentsPage
  \/ \E s \in saves : ServeSave(s) \/ RefuseSave(s) \/ SaveConfirmed(s) \/ SaveFails(s)
  \/ \E i \in DOMAIN fetches : ServeList(i) \/ ShowList(i) \/ ListFailed(i)

AdminSpec == AdminInit /\ [][AdminNext]_adminVars

-----------------------------------------------------------------------------
(* What the intent tree draws *)

IdsOf(rows) == {e.id : e \in rows}

\* [variant] Only an intent without a parent is a root.
ParentlessRoots(rows) == {e \in rows : e.parent = NoParent}

\* An intent whose parent is not listed is a root, as one without a parent is.
TreeRoots(rows) == {e \in rows : e.parent \notin IdsOf(rows)}

\* The nodes of depth n.
TreeLevel(rows) ==
  LET level[n \in 0..Cardinality(Ids)] ==
        IF n = 0 THEN TreeRoots(rows) ELSE {e \in rows : e.parent \in IdsOf(level[n - 1])}
  IN level

Drawn(rows) == UNION {TreeLevel(rows)[n] : n \in 0..Cardinality(Ids)}

-----------------------------------------------------------------------------
(* Properties *)

\* When the page is at rest it shows a list that was made after every change it
\* was told has been made, unless a later answer came before an earlier one,
\* which useApiResource does not notice.
RestingPageIsFresh ==
  saves = {} /\ fetches = <<>> /\ listState = "success" /\ ~overtaken => confirmed <= itemsAt

\* Whatever was deleted or moved below whatever, the tree draws every intent
\* that is listed once, except those that are below each other in a circle: of
\* these and what hangs from them it draws nothing.
TreeIsComplete ==
  page = "intent tree" =>
    LET circles == UNION {S \in SUBSET items : \A e \in S : \E f \in S : e.parent = f.id}
        depths(e) == {n \in 0..Cardinality(Ids) : e \in TreeLevel(items)[n]}
    IN /\ Drawn(items) = items \ circles
       /\ \A e \in Drawn(items) : Cardinality(depths(e)) = 1
=============================================================================

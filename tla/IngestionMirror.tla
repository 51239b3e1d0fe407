----------------------------- MODULE IngestionMirror -----------------------------
(***************************************************************************)
(* Ingestion tasks as the web server hands them on: created through it in  *)
(* a backend, which is either Python (see Ingestion) or the older service  *)
(* behind go-ingestion.ts, of whose tasks the server keeps copies in its   *)
(* own state.  When the older service fails, the server makes up a         *)
(* finished task.  An upload goes to the older service whatever the        *)
(* backend is.  The page that lists the tasks polls while one of them is   *)
(* not finished.                                                           *)
(*                                                                         *)
(* A definition marked [variant] is a faulty form of the one after it.     *)
(* Nothing uses it: it is there to show that a property notices the fault. *)
(***************************************************************************)
EXTENDS Integers, Sequences, FiniteSets

CONSTANTS
  Tasks,       \* the tasks anybody may create
  Foreign,     \* those of another tenant, created elsewhere
  MaxLists,    \* MaxLists[b] bounds the lists the page has asked for and not received from backend b
  MaxFetches,  \* bounds the fetches of single tasks
  MaxFailures  \* bounds the failures

ASSUME ForeignAssumption == Foreign \subseteq Tasks
ASSUME MirrorBounds == MaxLists \in [{"python", "go"} -> Nat \ {0}] /\ MaxFetches \in Nat /\ MaxFailures \in Nat

VARIABLES
  via,       \* the backend: "python" or "go"
  fallback,  \* GO_INGESTION_FALLBACK_ENABLED
  uploads,   \* the tasks of uploads that the server took while Python was its backend
  remote,    \* remote[t]: the status of t where it is worked on
  mirror,    \* mirror[t]: its status in the platform state
  madeUp,    \* the tasks the server made up in its place, finished
  creating,  \* creating[t]: where its creation is
  asked,     \* fetches of a task that the backend has not answered: a sequence
  fetched,   \* fetches it has answered, in the order of the answers
  fetchCount,\* how many there were
  overlapped,\* a fetch was stored after one that was answered later
  stale,     \* a fetch was answered with less than the copy it found, or overwrote more, see FetchStored
  rows,      \* what the page shows: rows[t] is a status
  awaited,   \* how many lists it has asked for that were not served
  arriving,  \* those that were, in that order
  failures   \* how often something failed

service == <<via, fallback>>
copies == <<mirror, madeUp>>
fetching == <<asked, fetched, fetchCount, overlapped, stale>>
taskPage == <<rows, awaited, arriving>>
mirrorVars == <<service, uploads, remote, copies, creating, fetching, taskPage, failures>>

Rank == [none |-> 0, pending |-> 1, running |-> 2, succeeded |-> 3, failed |-> 3]
TaskStatus == DOMAIN Rank
Active(s) == s \in {"pending", "running"}
Rows == [Tasks -> TaskStatus]

MirrorTypeOK ==
  /\ via \in {"python", "go"} /\ fallback \in BOOLEAN /\ uploads \subseteq Tasks
  /\ remote \in Rows /\ mirror \in Rows /\ madeUp \subseteq Tasks
  /\ creating \in [Tasks -> {"idle", "asked", "answered", "failed", "told", "error"}]
  /\ asked \in Seq([of : Tasks, found : TaskStatus])
  /\ fetched \in Seq([of : Tasks, found : TaskStatus, got : TaskStatus])
  /\ fetchCount \in 0..MaxFetches /\ overlapped \in BOOLEAN /\ stale \in BOOLEAN
  /\ rows \in Rows /\ arriving \in Seq(Rows) /\ awaited \in Nat /\ awaited + Len(arriving) <= MaxLists[via]
  /\ failures \in 0..MaxFailures

Nothing == [t \in Tasks |-> "none"]

MirrorInit ==
  /\ via \in {"python", "go"} /\ fallback \in BOOLEAN /\ uploads = {}
  /\ remote = Nothing /\ mirror = Nothing /\ madeUp = {}
  /\ creating = [t \in Tasks |-> "idle"]
  /\ asked = <<>> /\ fetched = <<>> /\ fetchCount = 0 /\ overlapped = FALSE /\ stale = FALSE
  /\ rows = Nothing /\ awaited = 1 /\ arriving = <<>>
  /\ failures = 0

Fails == failures < MaxFailures /\ failures' = failures + 1
Drop(q, i) == SubSeq(q, 1, i - 1) \o SubSeq(q, i + 1, Len(q))

-----------------------------------------------------------------------------
(* The backend *)

BackendMoves(t) ==
  /\ Active(remote[t])
  /\ \E s \in TaskStatus :
       /\ Rank[s] = Rank[remote[t]] + 1
       /\ remote' = [remote EXCEPT ![t] = s]
  /\ UNCHANGED <<service, uploads, copies, creating, fetching, taskPage, failures>>

\* A task of another tenant comes into being; Python lists none of those.
ForeignTask(t) ==
  /\ via = "go" /\ t \in Foreign /\ remote[t] = "none"
  /\ remote' = [remote EXCEPT ![t] = "pending"]
  /\ UNCHANGED <<service, uploads, copies, creating, fetching, taskPage, failures>>

-----------------------------------------------------------------------------
(* Creating a task *)

\* The button of the page, or the upload route; in front of the older service both do
\* the same.
AskToCreate(t) ==
  /\ t \notin Foreign /\ creating[t] = "idle"
  /\ creating' = [creating EXCEPT ![t] = "asked"]
  /\ uploads' \in {uploads} \cup (IF via = "python" THEN {uploads \cup {t}} ELSE {})
  /\ UNCHANGED <<service, remote, copies, fetching, taskPage, failures>>

\* The upload route does not ask which backend there is.
InOlderService(t) == via = "go" \/ t \in uploads

\* The service it goes to creates it; the answer may get lost.
BackendCreates(t) ==
  /\ creating[t] = "asked"
  /\ remote' = [remote EXCEPT ![t] = "pending"]
  /\ \/ /\ creating' = [creating EXCEPT ![t] = "answered"]
        /\ UNCHANGED failures
     \/ /\ creating' = [creating EXCEPT ![t] = "failed"] /\ Fails
  /\ UNCHANGED <<service, uploads, copies, fetching, taskPage>>

\* It cannot be reached, or refuses.
BackendRefuses(t) ==
  /\ creating[t] = "asked" /\ Fails
  /\ creating' = [creating EXCEPT ![t] = "failed"]
  /\ UNCHANGED <<service, uploads, remote, copies, fetching, taskPage>>

Told(t, what) == creating' = [creating EXCEPT ![t] = what]

\* POST of the route in front of Python.
HandOnCreation(t) ==
  /\ ~InOlderService(t) /\ creating[t] \in {"answered", "failed"}
  /\ Told(t, IF creating[t] = "answered" THEN "told" ELSE "error")
  /\ UNCHANGED <<service, uploads, remote, copies, fetching, taskPage, failures>>

\* [variant] What was made up is only handed on.
StoreCreationOrNot(t) ==
  /\ InOlderService(t) /\ creating[t] \in {"answered", "failed"}
  /\ mirror' = IF creating[t] = "answered" THEN [mirror EXCEPT ![t] = "pending"] ELSE mirror
  /\ Told(t, IF creating[t] = "answered" \/ fallback THEN "told" ELSE "error")
  /\ UNCHANGED <<service, uploads, remote, madeUp, fetching, taskPage, failures>>

\* createIngestionTask, of both routes: the task, or the one made up for it, is stored.
StoreCreation(t) ==
  /\ InOlderService(t) /\ creating[t] \in {"answered", "failed"}
  /\ mirror' = IF creating[t] = "answered" THEN [mirror EXCEPT ![t] = "pending"] ELSE mirror
  /\ madeUp' = IF creating[t] = "failed" /\ fallback THEN madeUp \cup {t} ELSE madeUp
  /\ Told(t, IF creating[t] = "answered" \/ fallback THEN "told" ELSE "error")
  /\ UNCHANGED <<service, uploads, remote, fetching, taskPage, failures>>

-----------------------------------------------------------------------------
(* GET of a single task, in front of the older service.  Its id is known   *)
(* once the creation was answered, or from elsewhere.                      *)

FetchBegins(t) ==
  /\ via = "go" /\ fetchCount < MaxFetches /\ fetchCount' = fetchCount + 1
  /\ (creating[t] = "told" \/ t \in Foreign)
  /\ asked' = Append(asked, [of |-> t, found |-> IF t \in Foreign THEN "none" ELSE mirror[t]])
  /\ UNCHANGED <<service, uploads, remote, copies, creating, fetched, overlapped, stale, taskPage, failures>>

FetchAnswered(i) ==
  /\ asked' = Drop(asked, i)
  /\ fetched' = Append(fetched, [of |-> asked[i].of, found |-> asked[i].found, got |-> remote[asked[i].of]])
  /\ UNCHANGED <<service, uploads, remote, copies, creating, fetchCount, overlapped, stale, taskPage, failures>>

\* The copy found at the beginning is the answer.
FetchFails(i) ==
  /\ Fails
  /\ asked' = Drop(asked, i)
  /\ UNCHANGED <<service, uploads, remote, copies, creating, fetched, fetchCount, overlapped, stale, taskPage>>

\* The answer is stored as it is, whatever the copy holds by now; if the backend
\* does not know the task the copy found at the beginning is returned.
FetchStored(i) ==
  LET f == fetched[i] IN
  /\ mirror' = IF f.got # "none" THEN [mirror EXCEPT ![f.of] = f.got] ELSE mirror
  /\ fetched' = Drop(fetched, i)
  /\ overlapped' = (overlapped \/ \E j \in 1..(i - 1) : fetched[j].of = f.of)
  /\ stale' = \/ stale
              \/ f.got # "none" /\ Rank[f.got] < Rank[f.found]
              \/ f.got # "none" /\ Rank[f.got] < Rank[mirror[f.of]] /\ ~overlapped'
  /\ UNCHANGED <<service, uploads, remote, madeUp, creating, asked, fetchCount, taskPage, failures>>

-----------------------------------------------------------------------------
(* The page *)

\* buildFallbackStatus: the task made up has gone through every stage.
FallbackStatus == "succeeded"

CopyOf(t) == IF t \in madeUp THEN FallbackStatus ELSE mirror[t]

\* GET of the list: Python's own, which knows nothing of the uploads, or the copies.
ListedTasks ==
  [t \in Tasks |->
     CASE t \in Foreign \cup uploads -> "none"
       [] t \notin Foreign \cup uploads /\ via = "python" -> remote[t]
       [] t \notin Foreign \cup uploads /\ via = "go" -> CopyOf(t)]

hasActiveTasks == \E t \in Tasks : Active(rows[t])

AskList == awaited + Len(arriving) < MaxLists[via] /\ awaited' = awaited + 1

\* [variant] Only tasks that wait are polled for.
PollPending ==
  /\ \E t \in Tasks : rows[t] = "pending"
  /\ AskList
  /\ UNCHANGED <<service, uploads, remote, copies, creating, fetching, rows, arriving, failures>>

\* The interval, while there are active tasks.
PollTasks ==
  /\ hasActiveTasks /\ AskList
  /\ UNCHANGED <<service, uploads, remote, copies, creating, fetching, rows, arriving, failures>>

\* Refresh, and the reload after a creation.
ReloadTasks ==
  /\ AskList
  /\ UNCHANGED <<service, uploads, remote, copies, creating, fetching, rows, arriving, failures>>

ServeTasks ==
  /\ awaited > 0 /\ awaited' = awaited - 1
  /\ arriving' = Append(arriving, ListedTasks)
  /\ UNCHANGED <<service, uploads, remote, copies, creating, fetching, rows, failures>>

ShowTasks(i) ==
  /\ rows' = arriving[i]
  /\ arriving' = Drop(arriving, i)
  /\ UNCHANGED <<service, uploads, remote, copies, creating, fetching, awaited, failures>>

\* The rows stay, and with them the interval.
TasksFail ==
  /\ awaited > 0 /\ Fails
  /\ awaited' = awaited - 1
  /\ UNCHANGED <<service, uploads, remote, copies, creating, fetching, rows, arriving>>

\* Run worker, by the button or after a creation: only Python has a worker to
\* trigger, which works on waiting tasks of its own to their end.  The list follows.
RunWorker ==
  /\ via = "python" /\ AskList
  /\ \E chosen \in SUBSET {t \in Tasks \ uploads : remote[t] = "pending"}, end \in {"succeeded", "failed"} :
       remote' = [t \in Tasks |-> IF t \in chosen THEN end ELSE remote[t]]
  /\ UNCHANGED <<service, uploads, copies, creating, fetching, rows, arriving, failures>>

MirrorNext ==
  \/ \E t \in Tasks :
       \/ BackendMoves(t) \/ ForeignTask(t) \/ AskToCreate(t) \/ BackendCreates(t) \/ BackendRefuses(t)
       \/ HandOnCreation(t) \/ StoreCreation(t) \/ FetchBegins(t)
  \/ \E i \in DOMAIN asked : FetchAnswered(i) \/ FetchFails(i)
  \/ \E i \in DOMAIN fetched : FetchStored(i)
  \/ PollTasks \/ ReloadTasks \/ RunWorker
  \/ ServeTasks \/ TasksFail \/ \E i \in DOMAIN arriving : ShowTasks(i)

\* What of the specification the safety properties need.
MirrorSpec == MirrorInit /\ [][MirrorNext]_mirrorVars

-----------------------------------------------------------------------------
(* Properties *)

\* The copy of a task is never ahead of the task; a task the user was told of is in
\* the list, made up if need be, but for an upload in front of Python, which has a
\* copy that the list does not show; a fetch never answers with less than the copy
\* it found, and takes a copy back only where two fetches of the task overlap.
MirrorIsTrue ==
  /\ \A t \in Tasks : Rank[mirror[t]] <= Rank[remote[t]]
  /\ \A t \in Tasks :
       creating[t] = "told" => IF t \in uploads THEN CopyOf(t) # "none" ELSE ListedTasks[t] # "none"
  /\ ~stale

\* What the page waits for in front of Python.  In front of the older service it may
\* poll for ever: nothing there refreshes the copies that the list is made of.
Polling == via = "python" /\ hasActiveTasks
=============================================================================

-------------------------------- MODULE MCBrowser --------------------------------
(***************************************************************************)
(* The three pages of the web application that keep state of their own     *)
(* against servers that answer late, out of order or not at all: the chat, *)
(* the ingestion tasks and the e-commerce workbench.  They share nothing:  *)
(* part says which of them a behaviour is about, the others stay as they   *)
(* are at the beginning.                                                   *)
(***************************************************************************)
EXTENDS ChatStream, IngestionMirror, Workbench

CONSTANTS x, y, z, q1, q2

RankingDef ==
  [backend |-> [q \in Briefs |-> IF q = q1 THEN <<x, y>> ELSE <<z>>],
   local |-> [q \in Briefs |-> IF q = q1 THEN <<y, x>> ELSE <<>>]]
CatalogueDef == [backend |-> {x, y, z}, local |-> {x, y}]

\* The order of the lists matters where the tasks shown come to an end.
ListsDef == [python |-> 2, go |-> 1]

VARIABLE part

chatStays == lane = CHOOSE l \in Lanes : TRUE
mirrorStays == via = "python" /\ fallback
benchStays == bench = CHOOSE b \in Benches : TRUE

Init ==
  /\ part \in {"chat", "mirror", "bench"}
  /\ ChatInit /\ (part # "chat" => chatStays)
  /\ MirrorInit /\ (part # "mirror" => mirrorStays)
  /\ BenchInit /\ (part # "bench" => benchStays)

Next ==
  \/ part = "chat" /\ ChatNext /\ UNCHANGED <<part, mirrorVars, benchVars>>
  \/ part = "mirror" /\ MirrorNext /\ UNCHANGED <<part, chatVars, benchVars>>
  \/ part = "bench" /\ BenchNext /\ UNCHANGED <<part, chatVars, mirrorVars>>

Fairness ==
  /\ WF_chatVars(part = "chat" /\ Shell)
  /\ \A s \in Sends : WF_chatVars(part = "chat" /\ Handle(s))
  /\ WF_mirrorVars(part = "mirror" /\ PollTasks)
  /\ WF_mirrorVars(part = "mirror" /\ ServeTasks)
  /\ WF_mirrorVars(part = "mirror" /\ \E i \in DOMAIN arriving : ShowTasks(i))
  /\ \A t \in Tasks : WF_mirrorVars(part = "mirror" /\ BackendMoves(t))
  /\ \A n \in 1..MaxSearches : WF_benchVars(part = "bench" /\ SearchStep(n))
  /\ \A n \in 1..MaxQuestions : WF_benchVars(part = "bench" /\ AdvisorStep(n))

Spec == Init /\ [][Next]_<<part, chatVars, mirrorVars, benchVars>> /\ Fairness

BrowserTypesOK == ChatTypeOK /\ MirrorTypeOK /\ BenchTypeOK

Waiting == CASE part = "chat" -> Sending [] part = "mirror" -> Polling [] part = "bench" -> Working

\* Each page comes to rest once its user does, if the server and the network answer,
\* one way or the other: the chat can send again, nothing is polled for any more, and
\* neither a search nor the advisor is waited for.
BrowserSettles == Waiting ~> ~Waiting
=============================================================================

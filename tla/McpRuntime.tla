-------------------------------- MODULE McpRuntime --------------------------------
(***************************************************************************)
(* The execution of planned tool calls, in the Python backend and in the   *)
(* web server: each call is looked up, guarded and run, what happens is    *)
(* reported and traced, and no failure stops the calls after it.  The      *)
(* records the tools read belong to a tenant and an organisation, and      *)
(* other processes change them meanwhile.                                  *)
(*                                                                         *)
(* A definition marked [variant] is a faulty form of the one after it.     *)
(* Nothing uses it: it is there to show that a property notices the fault. *)
(***************************************************************************)
EXTENDS Integers, Sequences, SequencesExt, Selections

CONSTANTS
  TenantIds, OrgIds,
  Records,     \* the settings or tasks asked for
  BuiltIn,     \* the settings the Python backend has a value for itself
  MaxPlan      \* bounds the calls of a plan

ASSUME McpBounds == BuiltIn \subseteq Records /\ MaxPlan \in Nat

\* The absence of a tenant, of an organisation, of an argument.
Nil == "nil"
\* No owner: the record is not there.
Gone == [tenant |-> "gone", org |-> "gone"]

McpSides == {"python", "web"}
Tools == {"list_knowledge_bases", "get_system_setting", "get_ingestion_task", "other"}
Actor == [admin : BOOLEAN, tenant : TenantIds \cup {Nil}, org : OrgIds \cup {Nil}]
Owner == [tenant : TenantIds \cup {Nil}, org : OrgIds \cup {Nil}]
\* A call of a tool, with the record it names.
PlannedCall ==
  [tool : {"get_system_setting", "get_ingestion_task"}, names : Records \cup {Nil}]
    \cup [tool : {"list_knowledge_bases", "other"}, names : {Nil}]

VARIABLES
  side, actor, plan,
  owner,     \* owner[r]: whose record r is, nothing if it is not there
  taken,     \* how many calls have been begun
  running,   \* the last of them has passed its guard and is not finished
  log,       \* the states of the calls, as they are reported
  stages,    \* the stages traced
  given      \* given[n]: whose record call n has returned, for the property

mcpVars == <<side, actor, plan, owner, taken, running, log, stages, given>>

Terminal == {"succeeded", "failed"}
Reports == [call : 1..Len(plan), status : {"queued", "running"} \cup Terminal]
Stages == [call : 1..Len(plan), stage : {"started", "completed", "failed"}]

McpTypeOK ==
  /\ side \in McpSides /\ actor \in Actor /\ plan \in BoundedSeq(PlannedCall, MaxPlan)
  /\ owner \in [Records -> Owner \cup {Gone}]
  /\ taken \in 0..Len(plan) /\ running \in BOOLEAN
  /\ log \in Seq(Reports) /\ stages \in Seq(Stages)
  /\ given \in [1..Len(plan) -> Owner \cup {Gone}]

McpInit ==
  /\ side \in McpSides /\ actor \in Actor
  /\ plan \in BoundedSeq(PlannedCall, MaxPlan)
  /\ owner \in [Records -> Owner \cup {Gone}]
  /\ taken = 0 /\ running = FALSE /\ log = <<>> /\ stages = <<>>
  /\ given = [n \in 1..Len(plan) |-> Gone]

\* The tool calls returned: Python lists every state, the web server the last ones.
toolCalls == IF side = "python" THEN log ELSE SelectIn(log, {e \in Reports : e.status \in Terminal})

Known(tool) == tool # "other"

\* Python asks for the role alone, the web server for the scope as well.
requiresAdmin(tool) == tool \in {"get_system_setting", "get_ingestion_task"}

allowSignedIn == actor.tenant # Nil
allowAdminWithScope == actor.admin /\ actor.tenant # Nil /\ actor.org # Nil

Admitted(tool) ==
  IF side = "python" THEN requiresAdmin(tool) => actor.admin
  ELSE IF requiresAdmin(tool) THEN allowAdminWithScope ELSE allowSignedIn

Logged(status) == [call |-> taken', status |-> status]
Traced(what) == [call |-> taken', stage |-> what]

\* [variant] A call that is not admitted is reported, and run all the same.
RefuseAndGoOn ==
  /\ taken < Len(plan) /\ ~running /\ taken' = taken + 1
  /\ ~Admitted(plan[taken'].tool)
  /\ log' = log \o <<Logged("queued"), Logged("failed")>> /\ stages' = Append(stages, Traced("failed"))
  /\ running' = TRUE
  /\ UNCHANGED <<side, actor, plan, owner, given>>

\* Not registered, or not admitted: the call fails and the next one has its turn.
RefuseCall ==
  /\ taken < Len(plan) /\ ~running /\ taken' = taken + 1
  /\ ~Known(plan[taken'].tool) \/ ~Admitted(plan[taken'].tool)
  /\ log' = log \o <<Logged("queued"), Logged("failed")>> /\ stages' = Append(stages, Traced("failed"))
  /\ UNCHANGED <<side, actor, plan, owner, running, given>>

StartCall ==
  /\ taken < Len(plan) /\ ~running /\ taken' = taken + 1
  /\ Known(plan[taken'].tool) /\ Admitted(plan[taken'].tool)
  /\ log' = log \o <<Logged("queued"), Logged("running")>> /\ stages' = Append(stages, Traced("started"))
  /\ running' = TRUE
  /\ UNCHANGED <<side, actor, plan, owner, given>>

\* Python compares what the actor has; the web server always the tenant, and the
\* organisation, which its guard has seen.
Visible(r) ==
  /\ owner[r] # Gone
  /\ side = "python" => actor.tenant \in {Nil, owner[r].tenant} /\ actor.org \in {Nil, owner[r].org}
  /\ side = "web" => actor.tenant = owner[r].tenant /\ actor.org = owner[r].org

HasDefault(call) == side = "python" /\ call.tool = "get_system_setting" /\ call.names \in BuiltIn

CallSucceeds ==
  /\ running
  /\ LET call == plan[taken] IN
       /\ \/ call.tool = "list_knowledge_bases"
          \/ call.names # Nil /\ (Visible(call.names) \/ HasDefault(call))
       /\ given' = [given EXCEPT ![taken] =
                      IF call.names # Nil /\ Visible(call.names) THEN owner[call.names] ELSE Gone]
  /\ running' = FALSE /\ taken' = taken
  /\ log' = Append(log, Logged("succeeded")) /\ stages' = Append(stages, Traced("completed"))
  /\ UNCHANGED <<side, actor, plan, owner>>

\* No such record for this actor, no argument, or anything the tool raises.
CallFails ==
  /\ running
  /\ running' = FALSE /\ taken' = taken
  /\ log' = Append(log, Logged("failed")) /\ stages' = Append(stages, Traced("failed"))
  /\ UNCHANGED <<side, actor, plan, owner, given>>

\* Another process creates, moves or removes a record.
RecordChanges(r) ==
  /\ taken < Len(plan) \/ running
  /\ \E o \in Owner \cup {Gone} : o # owner[r] /\ owner' = [owner EXCEPT ![r] = o]
  /\ UNCHANGED <<side, actor, plan, taken, running, log, stages, given>>

McpNext == RefuseCall \/ StartCall \/ CallSucceeds \/ CallFails \/ \E r \in Records : RecordChanges(r)

McpSpec == McpInit /\ [][McpNext]_mcpVars

-----------------------------------------------------------------------------
(* Properties *)

StatesOf(n) == LET mine == SelectIn(log, {e \in Reports : e.call = n}) IN [i \in DOMAIN mine |-> mine[i].status]
StagesOf(n) == LET mine == SelectIn(stages, {s \in Stages : s.call = n}) IN [i \in DOMAIN mine |-> mine[i].stage]

\* A call that is over has exactly one outcome in its log and the same in its trace,
\* after the states that lead to it and before the next call begins; it succeeds only
\* for an actor who may use the tool, and with nothing of another tenant or organisation
\* than the actor's own, if he has one.
EachCallEndsOnce ==
  \A n \in 1..taken :
    /\ \/ n = taken /\ running /\ StatesOf(n) = <<"queued", "running">> /\ StagesOf(n) = <<"started">>
       \/ StatesOf(n) = <<"queued", "failed">> /\ StagesOf(n) = <<"failed">>
       \/ StatesOf(n) = <<"queued", "running", "failed">> /\ StagesOf(n) = <<"started", "failed">>
       \/ /\ StatesOf(n) = <<"queued", "running", "succeeded">> /\ StagesOf(n) = <<"started", "completed">>
          /\ Known(plan[n].tool) /\ Admitted(plan[n].tool)
    /\ \A i, j \in DOMAIN toolCalls : i < j => toolCalls[i].call <= toolCalls[j].call
    /\ given[n] # Gone => actor.tenant \in {Nil, given[n].tenant} /\ actor.org \in {Nil, given[n].org}
=============================================================================

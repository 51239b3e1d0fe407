------------------------------- MODULE RequestGuards -------------------------------
(***************************************************************************)
(* Who a request is from and what it may reach: the pages, which send away *)
(* whom they do not serve, and the APIs those pages call, which answer 401 *)
(* or 403.  A page looks at the cookie, an API at the headers of a gateway *)
(* before it; where neither says who it is, a process may make a user up,  *)
(* for development.  Meanwhile somebody signs in or out in another tab, or *)
(* an administrator changes a user.                                        *)
(*                                                                         *)
(* A definition marked [variant] is a faulty form of the one after it.     *)
(* Nothing uses it: it is there to show that a property notices the fault. *)
(***************************************************************************)
EXTENDS Login

CONSTANTS
  People,        \* the users
  Environments,  \* what the variables of the process may be set to
  Directories,   \* what the user repository may hold
  Bearers,       \* what a cookie or the headers may say of a user
  MaxSwaps       \* bounds what happens meanwhile

Explicit == {"true", "false", Unset}
Environment == [mode : {"oidc", "mock"}, production : BOOLEAN, fallback : Explicit, headers : Explicit,
                role : Roles \cup {Unset}, user : People]
Stored == [role : Roles, tenant : Tenants, org : Tenants]
Identity == [user : People, role : Roles \cup {Unset}, tenant : Tenants \cup {Unset}, org : Tenants \cup {Unset}]
CookieForms == {"signed", "unsigned", "garbled"}

ASSUME GuardAssumption ==
  /\ Environments \subseteq Environment
  /\ Directories \subseteq [People -> {Unknown} \cup Stored]
  /\ Bearers \subseteq Identity
  /\ MaxSwaps \in Nat

Sites == {"home", "chat", "admin", "login"}
Stays == "stays"   \* the page is served
NoReply == [status |-> 0, from |-> {}]

VARIABLES
  env,       \* the variables of the process
  directory, \* directory[p]: what the user repository has of p
  gateway,   \* who the headers of the requests name, as a set of at most one
  cookie,    \* the session cookie: its form and who it names
  aim,       \* the page the browser was told to open
  site,      \* where it was sent since
  served,    \* that page is there
  hops,      \* how often it was sent on
  viewer,    \* whom the page was served to
  apiReply,  \* the last answer to an API call of the page
  meanwhile, \* something has changed since the page was opened
  swaps      \* how often something has

who == <<env, directory, gateway, cookie>>
guardVars == <<who, aim, site, served, hops, viewer, apiReply, meanwhile, swaps>>

-----------------------------------------------------------------------------
(* Who a request is from: a set of at most one *)

\* Never where a real provider signs the users of a production server in.
isMockFallbackEnabled ==
  /\ ~(env.mode = "oidc" /\ env.production)
  /\ IF env.fallback # Unset THEN env.fallback = "true" ELSE env.mode = "mock" \/ ~env.production

isHeaderAuthEnabled == IF env.headers # Unset THEN env.headers = "true" ELSE ~env.production

\* No role stands for any part that a session needs and that is not there.
readHeaderSession == {h \in gateway : h.role # Unset}

\* A cookie from before they were signed is read like one that is signed.
decodeCookiePayload == {u \in {c.names : c \in {d \in cookie : d.form # "garbled"}} : u.role # Unset}

fromUserReadModel(p) == [user |-> p, role |-> directory[p].role, tenant |-> directory[p].tenant, org |-> directory[p].org]

\* The one that is set, or one of the role, or one that is in no repository.
readDefaultMockSession ==
  LET holders == {p \in People : directory[p].role = env.role}
  IN IF ~isMockFallbackEnabled \/ env.role = Unset THEN {}
     ELSE IF env.user \in holders THEN {fromUserReadModel(env.user)}
     ELSE IF holders # {} THEN {fromUserReadModel(CHOOSE p \in holders : TRUE)}
     ELSE {[user |-> env.user, role |-> env.role, tenant |-> DefaultTenant, org |-> DefaultTenant]}

getCurrentUser == IF decodeCookiePayload # {} THEN decodeCookiePayload ELSE readDefaultMockSession

\* [variant] Whom the process makes up goes before the cookie.
RequestUserMadeUp ==
  IF isHeaderAuthEnabled /\ readHeaderSession # {} THEN readHeaderSession
  ELSE IF readDefaultMockSession # {} THEN readDefaultMockSession
  ELSE decodeCookiePayload

getRequestUser ==
  IF isHeaderAuthEnabled /\ readHeaderSession # {} THEN readHeaderSession
  ELSE IF decodeCookiePayload # {} THEN decodeCookiePayload
  ELSE readDefaultMockSession

-----------------------------------------------------------------------------
(* What it may reach *)

Lacks(people, part) == \E u \in people : u[part] = Unset
OfAdmin(people) == \A u \in people : u.role = "admin"

\* The guards of the pages: where the browser is sent.
requireOrgScope == IF Lacks(getCurrentUser, "org") THEN "login" ELSE Stays
requireTenantScope(then) == IF Lacks(getCurrentUser, "tenant") THEN "login" ELSE then
requireSignedIn(then) == IF getCurrentUser = {} THEN "login" ELSE then
requireAdmin(then) == requireSignedIn(IF OfAdmin(getCurrentUser) THEN then ELSE "chat")

SentTo(page) ==
  CASE page = "home" -> "chat"
    [] page = "chat" -> requireSignedIn(requireTenantScope(Stays))
    [] page = "admin" -> requireAdmin(requireTenantScope(requireOrgScope))
    [] page = "login" -> Stays

\* Those of the APIs: the status of the answer.
requireOrgScopeApi == IF Lacks(getRequestUser, "org") THEN 403 ELSE 200
requireTenantScopeApi(then) == IF Lacks(getRequestUser, "tenant") THEN 403 ELSE then
requireSignedInApi(then) == IF getRequestUser = {} THEN 401 ELSE then
requireAdminApi(then) == requireSignedInApi(IF OfAdmin(getRequestUser) THEN then ELSE 403)

StatusOf(page) ==
  IF page = "admin" THEN requireAdminApi(requireTenantScopeApi(requireOrgScopeApi))
  ELSE requireSignedInApi(requireTenantScopeApi(200))

toAuthErrorResponse(status) == [status |-> status, from |-> IF status = 200 THEN getRequestUser ELSE {}]

-----------------------------------------------------------------------------

GuardInit ==
  /\ env \in Environments /\ directory \in Directories
  /\ gateway \in {{}} \cup {{b} : b \in Bearers}
  /\ cookie \in {{}} \cup {{[form |-> f, names |-> b]} : f \in CookieForms, b \in Bearers}
  /\ aim = "login" /\ site = "login" /\ served = TRUE /\ hops = 0 /\ viewer = {}
  /\ apiReply = NoReply /\ meanwhile = FALSE /\ swaps = 0

\* A link, an address, or where the login page leads.
OpenPage ==
  /\ served
  /\ \E page \in Sites : aim' = page /\ site' = page
  /\ served' = FALSE /\ hops' = 0 /\ viewer' = {} /\ apiReply' = NoReply /\ meanwhile' = FALSE
  /\ UNCHANGED <<who, swaps>>

SentOn ==
  /\ ~served /\ SentTo(site) # Stays
  /\ site' = SentTo(site) /\ hops' = hops + 1
  /\ UNCHANGED <<who, aim, served, viewer, apiReply, meanwhile, swaps>>

PageIsServed ==
  /\ ~served /\ SentTo(site) = Stays
  /\ served' = TRUE /\ viewer' = getCurrentUser
  /\ UNCHANGED <<who, aim, site, hops, apiReply, meanwhile, swaps>>

CallApi ==
  /\ served /\ site \in {"chat", "admin"}
  /\ apiReply' = toAuthErrorResponse(StatusOf(site))
  /\ UNCHANGED <<who, aim, site, served, hops, viewer, meanwhile, swaps>>

\* An answer from before the change says nothing of the state after it.
Swap ==
  /\ swaps < MaxSwaps /\ swaps' = swaps + 1
  /\ meanwhile' = TRUE /\ apiReply' = NoReply
  /\ UNCHANGED <<env, gateway, aim, site, served, hops, viewer>>

\* In another tab; the cookie is signed, as all are that are set now.
CookieChanges ==
  /\ Swap /\ cookie' \in {{}} \cup {{[form |-> "signed", names |-> b]} : b \in Bearers}
  /\ UNCHANGED directory

DirectoryChanges == Swap /\ directory' \in Directories /\ UNCHANGED cookie

GuardNext == OpenPage \/ SentOn \/ PageIsServed \/ CallApi \/ CookieChanges \/ DirectoryChanges

GuardSpec == GuardInit /\ [][GuardNext]_guardVars

GuardTypeOK ==
  /\ env \in Environments /\ directory \in Directories
  /\ gateway \subseteq Bearers /\ Cardinality(gateway) <= 1
  /\ cookie \subseteq [form : CookieForms, names : Bearers] /\ Cardinality(cookie) <= 1
  /\ aim \in Sites /\ site \in Sites /\ served \in BOOLEAN /\ hops \in Nat
  /\ viewer \subseteq Identity /\ apiReply.status \in {0, 200, 401, 403} /\ apiReply.from \subseteq Identity
  /\ meanwhile \in BOOLEAN /\ swaps \in 0..MaxSwaps

-----------------------------------------------------------------------------
(* Properties *)

\* The redirects come to an end, whatever changes under way: from any page in two.
RedirectsEnd == hops <= 2

\* A page and its APIs know the same user: where no gateway names one, what a page calls is
\* answered, and answered for the user the page was served to.
PageAndApiAgree ==
  apiReply # NoReply /\ ~meanwhile /\ readHeaderSession = {} => apiReply = [status |-> 200, from |-> viewer]

\* Nobody is sent elsewhere than need be: to the login page only without a session or for a
\* session that lacks its tenant or organisation, from the administration to the chat only
\* who is no administrator; and who is there is one.
SentWhereDue ==
  served /\ ~meanwhile =>
    /\ site = "login" /\ aim # "login" =>
         viewer = {} \/ Lacks(viewer, "tenant") \/ (aim = "admin" /\ Lacks(viewer, "org"))
    /\ site = "chat" /\ aim = "admin" => \E u \in viewer : u.role # "admin"
    /\ site = "admin" => \E u \in viewer : u.role = "admin" /\ u.tenant # Unset /\ u.org # Unset

\* A production server with a real provider makes nobody up, whatever else is set (the rule
\* stated in isMockFallbackEnabled): it serves those the cookie or the gateway names.
NobodyIsMadeUp ==
  env.mode = "oidc" /\ env.production =>
    /\ ~meanwhile /\ site # "login" => \A u \in viewer : \E c \in cookie : u = c.names
    /\ \A u \in apiReply.from : u \in gateway \/ \E c \in cookie : u = c.names

VisitsAreTrue == RedirectsEnd /\ PageAndApiAgree /\ SentWhereDue /\ NobodyIsMadeUp

\* Who is let in: sign-ins end as they should, and a session reaches what it is for.
AccessIsTrue == SignInsAreTrue /\ VisitsAreTrue
=============================================================================

---------------------------------- MODULE Login ----------------------------------
(***************************************************************************)
(* Signing in: the tabs of one browser, which share its cookies, the web   *)
(* server, whose sessions are nothing but a signed cookie, and an identity *)
(* provider.  A sign-in goes through three redirects; the state that ties  *)
(* them together is in one cookie, of which there is one for all tabs.     *)
(* In development users may also be picked from a list.  A tenant stands   *)
(* for tenant and organisation, which are treated alike.                   *)
(*                                                                         *)
(* A definition marked [variant] is a faulty form of the one after it.     *)
(* Nothing uses it: it is there to show that a property notices the fault. *)
(***************************************************************************)
EXTENDS Integers, FiniteSets

CONSTANTS
  Tabs,       \* the tabs of the browser
  Accounts,   \* the users the identity provider knows
  MaxLogins,  \* bounds the sign-ins
  MaxUpsets   \* bounds failures, expiries, restarts and changes made by administrators, together

ASSUME LoginBounds == MaxLogins \in Nat /\ MaxUpsets \in Nat

Roles == {"user", "admin"}
Unset == "unset"
DefaultTenant == "tenant_demo"  \* which the repository puts for none
Tenants == {"acme", DefaultTenant}
Unknown == [role |-> Unset, tenant |-> Unset]

VARIABLES
  mode,        \* the ways to sign in: "oidc", "mock" (development only) or "both" (oidc in development)
  known,       \* known[a]: the record of a in the user repository
  edits,       \* edits[a]: how often that record was written
  discovered,  \* the discovery document the process has cached: "none", "whole" or "empty"
  stateCookie, \* the number of the sign-in it was set by, 0 if there is none
  session,     \* the user of the session cookie, as a set of at most one
  tab,         \* tab[t]: where it is in a sign-in
  outcome,     \* outcome[t]: how its last sign-in ended
  logins,      \* how many sign-ins there were
  upsets       \* how many failures, expiries, restarts and changes

cookieJar == <<stateCookie, session>>
users == <<known, edits>>
loginVars == <<mode, users, discovered, cookieJar, tab, outcome, logins, upsets>>

\* A user as the session cookie has it, and how often the record had been
\* written when it was issued.
SessionUser == [user : Accounts, role : Roles, tenant : Tenants \cup {Unset}, seen : Nat]

\* For the properties: `disturbed` that the state cookie was replaced or removed
\* under way, `newcomer` that the user was not known, `listed` what the page of
\* the tab shows of the users.
Idle == [at |-> "idle", state |-> 0, offers |-> {}, disturbed |-> FALSE, newcomer |-> FALSE, listed |-> {}]

LoginTypeOK ==
  /\ mode \in {"oidc", "mock", "both"}
  /\ known \in [Accounts -> {Unknown} \cup [role : Roles, tenant : Tenants]]
  /\ edits \in [Accounts -> Nat]
  /\ discovered \in {"none", "whole", "empty"}
  /\ stateCookie \in 0..MaxLogins
  /\ session \subseteq SessionUser /\ Cardinality(session) <= 1
  /\ \A t \in Tabs :
       /\ tab[t].at \in {"idle", "asking", "provider", "callback", "exchanging", "refused", "failed", "accepted", "picking"}
       /\ tab[t].state \in 0..MaxLogins /\ tab[t].disturbed \in BOOLEAN /\ tab[t].newcomer \in BOOLEAN
       /\ Cardinality(tab[t].offers) <= 1 /\ tab[t].listed \subseteq [user : Accounts, role : Roles]
  /\ outcome \in [Tabs -> {"none", "config", "invalid_state", "callback_failed", "landed", "bounced"}]
  /\ logins \in 0..MaxLogins /\ upsets \in 0..MaxUpsets

LoginInit ==
  /\ mode \in {"oidc", "mock", "both"}
  /\ known = [a \in Accounts |-> Unknown] /\ edits = [a \in Accounts |-> 0]
  /\ discovered = "none" /\ stateCookie = 0 /\ session = {}
  /\ tab = [t \in Tabs |-> Idle] /\ outcome = [t \in Tabs |-> "none"]
  /\ logins = 0 /\ upsets = 0

Upset == upsets < MaxUpsets /\ upsets' = upsets + 1

\* The repository: null is normalised to the default tenant.
UpsertRecord(a, role, tenant) ==
  /\ known' = [known EXCEPT ![a] = [role |-> role, tenant |-> IF tenant = Unset THEN DefaultTenant ELSE tenant]]
  /\ edits' = [edits EXCEPT ![a] = @ + 1]

Goes(t, place) == tab' = [tab EXCEPT ![t].at = place]

\* A response replaces the state cookie: the sign-ins of other tabs that wait for it lose theirs.
Replaces(t, value, mine) ==
  /\ stateCookie' = value
  /\ tab' = [u \in Tabs |->
       IF u = t THEN mine
       ELSE IF tab[u].at \in {"provider", "callback"} THEN [tab[u] EXCEPT !.disturbed = TRUE] ELSE tab[u]]

-----------------------------------------------------------------------------
(* The login route *)

\* A link, so any tab may follow it.
FollowLogin(t) ==
  /\ mode # "mock" /\ tab[t].at = "idle" /\ logins < MaxLogins
  /\ logins' = logins + 1
  /\ tab' = [tab EXCEPT ![t] = [Idle EXCEPT !.at = "asking", !.state = logins + 1]]
  /\ outcome' = [outcome EXCEPT ![t] = "none"]
  /\ UNCHANGED <<mode, users, discovered, cookieJar, upsets>>

\* The document is fetched once; one that cannot be parsed counts as an empty one.
Discover(document) ==
  \/ discovered # "none" /\ document = discovered /\ UNCHANGED upsets
  \/ discovered = "none" /\ document = "whole" /\ UNCHANGED upsets
  \/ discovered = "none" /\ document = "empty" /\ Upset

\* [variant] A state cookie that is there already is left alone.
RedirectIfNew(t) ==
  /\ tab[t].at = "asking" /\ Discover("whole") /\ discovered' = "whole"
  /\ IF stateCookie = 0 THEN Replaces(t, tab[t].state, [tab[t] EXCEPT !.at = "provider"])
     ELSE Goes(t, "provider") /\ UNCHANGED stateCookie
  /\ UNCHANGED <<mode, users, session, outcome, logins>>

\* The redirect to the provider arrives, with the state cookie.
Redirect(t) ==
  /\ tab[t].at = "asking" /\ Discover("whole") /\ discovered' = "whole"
  /\ Replaces(t, tab[t].state, [tab[t] EXCEPT !.at = "provider"])
  /\ UNCHANGED <<mode, users, session, outcome, logins>>

Ends(t, how) == outcome' = [outcome EXCEPT ![t] = how]

\* The document lacks an endpoint, and is kept until the process ends, or the
\* provider does not answer: a 500.
ConfigInvalid(t) ==
  /\ tab[t].at = "asking"
  /\ \/ Discover("empty") /\ discovered' = "empty"
     \/ discovered = "none" /\ Upset /\ UNCHANGED discovered
  /\ tab' = [tab EXCEPT ![t] = Idle] /\ Ends(t, "config")
  /\ UNCHANGED <<mode, users, cookieJar, logins>>

-----------------------------------------------------------------------------
(* The provider *)

\* It authenticates one of its accounts and sends the tab back with a code,
\* for which it will give these claims.
Authenticate(t) ==
  /\ tab[t].at = "provider"
  /\ \E a \in Accounts, role \in Roles \cup {Unset}, tenant \in {"acme", Unset} :
       tab' = [tab EXCEPT ![t].at = "callback", ![t].offers = {[user |-> a, role |-> role, tenant |-> tenant]}]
  /\ UNCHANGED <<mode, users, discovered, cookieJar, outcome, logins, upsets>>

\* Or the user gives up there: no code.
GiveUp(t) ==
  /\ tab[t].at = "provider" /\ Upset
  /\ tab' = [tab EXCEPT ![t].at = "refused", ![t].disturbed = TRUE]
  /\ UNCHANGED <<mode, users, discovered, cookieJar, outcome, logins>>

-----------------------------------------------------------------------------
(* The callback route *)

\* The request brings the cookie there is now, which must hold the state of the URL.
CheckState(t) ==
  /\ tab[t].at = "callback"
  /\ Goes(t, IF stateCookie = tab[t].state THEN "exchanging" ELSE "refused")
  /\ UNCHANGED <<mode, users, discovered, cookieJar, outcome, logins, upsets>>

\* mapOidcClaimsToSessionUser: a claim, or what is stored, or the default, which
\* for the tenant is none.
Mapped(c) ==
  [user |-> c.user,
   role |-> CASE c.role # Unset -> c.role
              [] c.role = Unset /\ known[c.user] # Unknown -> known[c.user].role
              [] OTHER -> "user",
   tenant |-> IF c.tenant # Unset THEN c.tenant ELSE known[c.user].tenant]

\* [variant] A record that is there already is left alone.
UpsertNewcomer(t) ==
  /\ tab[t].at = "exchanging" /\ discovered \in {"none", "whole"} /\ discovered' = "whole"
  /\ \E c \in tab[t].offers :
       LET user == Mapped(c) IN
       /\ IF known[c.user] = Unknown THEN UpsertRecord(c.user, user.role, user.tenant)
          ELSE UNCHANGED known /\ edits' = [edits EXCEPT ![c.user] = @ + 1]
       /\ tab' = [tab EXCEPT ![t].at = "accepted", ![t].newcomer = (known[c.user] = Unknown),
                             ![t].offers = {[user |-> c.user, role |-> user.role, tenant |-> user.tenant,
                                             seen |-> edits[c.user] + 1]}]
  /\ UNCHANGED <<mode, cookieJar, outcome, logins, upsets>>

\* The provider has exchanged the code and the token; the rest is synchronous.
Accept(t) ==
  /\ tab[t].at = "exchanging" /\ discovered \in {"none", "whole"} /\ discovered' = "whole"
  /\ \E c \in tab[t].offers :
       LET user == Mapped(c) IN
       /\ UpsertRecord(c.user, user.role, user.tenant)
       /\ tab' = [tab EXCEPT ![t].at = "accepted", ![t].newcomer = (known[c.user] = Unknown),
                             ![t].offers = {[user |-> c.user, role |-> user.role, tenant |-> user.tenant,
                                             seen |-> edits[c.user] + 1]}]
  /\ UNCHANGED <<mode, cookieJar, outcome, logins, upsets>>

\* Any of the requests to the provider fails, or its document is an empty one.
CallbackFails(t) ==
  /\ tab[t].at = "exchanging"
  /\ \/ Upset /\ discovered' \in IF discovered = "none" THEN {"none", "whole", "empty"} ELSE {discovered}
     \/ discovered = "empty" /\ UNCHANGED <<discovered, upsets>>
  /\ Goes(t, "failed")
  /\ UNCHANGED <<mode, users, cookieJar, outcome, logins>>

-----------------------------------------------------------------------------
(* The answers arrive *)

\* requireTenantScope on the page the callback leads to; requireAdmin is satisfied there.
Bounces(user) == user.tenant = Unset

\* redirectWithError
ErrorArrives(t) ==
  /\ tab[t].at \in {"refused", "failed"}
  /\ Replaces(t, 0, [Idle EXCEPT !.disturbed = tab[t].disturbed])
  /\ Ends(t, IF tab[t].at = "refused" THEN "invalid_state" ELSE "callback_failed")
  /\ UNCHANGED <<mode, users, discovered, session, logins, upsets>>

\* The redirect sets one cookie and clears the other; the browser follows it at once.
SessionArrives(t) ==
  /\ tab[t].at = "accepted"
  /\ session' = tab[t].offers
  /\ Replaces(t, 0, [Idle EXCEPT !.newcomer = tab[t].newcomer])
  /\ Ends(t, IF \E u \in tab[t].offers : Bounces(u) THEN "bounced" ELSE "landed")
  /\ UNCHANGED <<mode, users, discovered, logins, upsets>>

-----------------------------------------------------------------------------
(* The list of users, in development *)

ListUsers(t) ==
  /\ mode # "oidc" /\ tab[t].at = "idle" /\ logins < MaxLogins
  /\ logins' = logins + 1
  /\ tab' = [tab EXCEPT ![t] = [Idle EXCEPT !.at = "picking",
               !.listed = {[user |-> a, role |-> known[a].role] : a \in {b \in Accounts : known[b] # Unknown}}]]
  /\ outcome' = [outcome EXCEPT ![t] = "none"]
  /\ UNCHANGED <<mode, users, discovered, cookieJar, upsets>>

\* resolveStoredUser: who was picked, if still of that role, or any of that role.
StoredUser(role, a) ==
  IF known[a].role = role THEN {a} ELSE {b \in Accounts : known[b].role = role}

SignIn(t, b, role, tenant) ==
  /\ UpsertRecord(b, role, tenant)
  /\ session' = {[user |-> b, role |-> role, tenant |-> tenant, seen |-> edits[b] + 1]}
  /\ tab' = [tab EXCEPT ![t] = Idle]
  /\ Ends(t, "landed")
  /\ UNCHANGED <<mode, discovered, stateCookie, logins, upsets>>

\* POST of the session; the page picks from its list.
Pick(t) ==
  /\ tab[t].at = "picking"
  /\ \E l \in tab[t].listed :
       \/ \E b \in StoredUser(l.role, l.user) : SignIn(t, b, l.role, known[b].tenant)
       \/ StoredUser(l.role, l.user) = {} /\ SignIn(t, l.user, l.role, DefaultTenant)

\* The buttons without a user: anybody of the role, or the user made up for it.
PickRole(t) ==
  /\ tab[t].at = "picking"
  /\ \E role \in Roles :
       LET holders == {b \in Accounts : known[b].role = role} IN
       \/ \E b \in holders : SignIn(t, b, role, known[b].tenant)
       \/ holders = {} /\ \E b \in Accounts : SignIn(t, b, role, DefaultTenant)

-----------------------------------------------------------------------------
(* What happens meanwhile *)

\* An administrator writes the record of a user.
EditUser(a) ==
  /\ Upset
  /\ \E role \in Roles, tenant \in Tenants : UpsertRecord(a, role, tenant)
  /\ UNCHANGED <<mode, discovered, cookieJar, tab, outcome, logins>>

\* After ten minutes.
StateExpires ==
  /\ stateCookie # 0 /\ Upset
  /\ stateCookie' = 0
  /\ tab' = [u \in Tabs |->
       IF tab[u].at \in {"provider", "callback"} THEN [tab[u] EXCEPT !.disturbed = TRUE] ELSE tab[u]]
  /\ UNCHANGED <<mode, users, discovered, session, outcome, logins>>

\* After eight hours, or DELETE of the session.
SessionEnds ==
  /\ session # {} /\ Upset
  /\ session' = {}
  /\ UNCHANGED <<mode, users, discovered, stateCookie, tab, outcome, logins>>

\* The cached document is gone.
ServerRestarts ==
  /\ discovered # "none" /\ Upset
  /\ discovered' = "none"
  /\ UNCHANGED <<mode, users, cookieJar, tab, outcome, logins>>

LoginNext ==
  \/ \E t \in Tabs :
       \/ FollowLogin(t) \/ Redirect(t) \/ ConfigInvalid(t) \/ Authenticate(t) \/ GiveUp(t)
       \/ CheckState(t) \/ Accept(t) \/ CallbackFails(t) \/ ErrorArrives(t) \/ SessionArrives(t)
       \/ ListUsers(t) \/ Pick(t) \/ PickRole(t)
  \/ \E a \in Accounts : EditUser(a)
  \/ StateExpires \/ SessionEnds \/ ServerRestarts

LoginSpec == LoginInit /\ [][LoginNext]_loginVars

-----------------------------------------------------------------------------
(* Properties *)

\* A sign-in is refused for its state only if something took its cookie while
\* the user was with the provider: another tab that began or ended a sign-in,
\* ten minutes, or the user, who came back without a code.
RefusedIfDisturbed ==
  \A t \in Tabs : outcome[t] = "invalid_state" => tab[t].disturbed

\* Until its record is written again, the session is that of the record: the
\* user has the role the user pages show.  It lacks the tenant in one case
\* only, the first sign-in of a user whose claims name none; then, and only then, the page the
\* callback leads to sends the user back to the login page.
SessionIsRecord ==
  /\ \A s \in session :
       s.seen = edits[s.user] =>
         s.role = known[s.user].role /\ s.tenant \in {known[s.user].tenant, Unset}
  /\ \A t \in Tabs : outcome[t] = "bounced" => tab[t].newcomer

\* A sign-in ends as it should: refused only for a cause, and else with the session of the
\* record.
SignInsAreTrue == RefusedIfDisturbed /\ SessionIsRecord
=============================================================================

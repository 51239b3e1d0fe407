------------------------------ MODULE ComponentProofs ------------------------------
(***************************************************************************)
(* What the components behind the pages guarantee: theorems about signing  *)
(* in and the guards of pages and APIs, the files of the platform state,   *)
(* the collection of the vector index, the administration pages, the tool  *)
(* calls, the registry of the modules, the hybrid search and the answer of *)
(* the Python backend, for any tabs, processes, entries, modules, settings *)
(* and bounds.                                                             *)
(***************************************************************************)
EXTENDS MCComponents, SequenceLemmas, FiniteSetTheorems

-----------------------------------------------------------------------------
(* Signing in *)

Claims == [user : Accounts, role : Roles \cup {Unset}, tenant : {"acme", Unset}]
Record == [role : Roles, tenant : Tenants]
Places == {"idle", "asking", "provider", "callback", "exchanging", "refused", "failed", "accepted", "picking"}
Endings == {"none", "config", "invalid_state", "callback_failed", "landed", "bounced"}
Tab ==
  [at : Places, state : Int, offers : SUBSET (Claims \cup SessionUser), disturbed : BOOLEAN, newcomer : BOOLEAN,
   listed : SUBSET [user : Accounts, role : Roles]]

LoginShapes ==
  /\ known \in [Accounts -> {Unknown} \cup Record] /\ edits \in [Accounts -> Nat]
  /\ session \subseteq SessionUser /\ logins \in Nat
  /\ tab \in [Tabs -> Tab] /\ outcome \in [Tabs -> Endings]

\* The user of a cookie is the one of the record, unless that was written since.
IsOfRecord(u) ==
  /\ u.seen <= edits[u.user]
  /\ u.seen = edits[u.user] => u.role = known[u.user].role /\ u.tenant \in {known[u.user].tenant, Unset}

\* What a tab carries from one request of its sign-in to the next.
CarriesTruth(t) ==
  /\ tab[t].at \in {"callback", "exchanging"} => tab[t].offers \subseteq Claims
  /\ tab[t].at = "accepted" =>
       /\ tab[t].offers \subseteq SessionUser
       /\ \A u \in tab[t].offers : IsOfRecord(u) /\ (u.tenant = Unset => tab[t].newcomer)
  /\ tab[t].at = "refused" => tab[t].disturbed
  /\ tab[t].at \in {"provider", "callback"} /\ ~tab[t].disturbed => stateCookie = tab[t].state

\* How it ended, once it has.
EndedTrue(t) ==
  /\ tab[t].at # "idle" => outcome[t] = "none"
  /\ outcome[t] = "invalid_state" => tab[t].disturbed
  /\ outcome[t] = "bounced" => tab[t].newcomer

TabIsTrue(t) == CarriesTruth(t) /\ EndedTrue(t)

LoginInv ==
  /\ LoginShapes
  /\ \A t \in Tabs : TabIsTrue(t)
  /\ \A s \in session : IsOfRecord(s)

-----------------------------------------------------------------------------
\* The invariant says of each tab and of the session what the property says of a sign-in.
LEMMA InvIsTrue == LoginInv => SignInsAreTrue
BY DEF LoginInv, TabIsTrue, EndedTrue, IsOfRecord, SignInsAreTrue, RefusedIfDisturbed, SessionIsRecord

\* At first nobody is known and no tab signs in.
LEMMA InitLogin == LoginInit => LoginInv
BY DEF LoginInit, LoginInv, LoginShapes, TabIsTrue, CarriesTruth, EndedTrue, IsOfRecord, Idle, Tab, Places, Endings,
       Record, Unknown

\* A record that is written again makes the cookies issued before it older, never wrong.
LEMMA WritingAges ==
  ASSUME LoginShapes, NEW a \in Accounts, NEW role \in Roles, NEW tenant \in Tenants \cup {Unset},
         UpsertRecord(a, role, tenant)
  PROVE  /\ known' \in [Accounts -> {Unknown} \cup Record] /\ edits' \in [Accounts -> Nat]
         /\ \A u \in SessionUser : IsOfRecord(u) => IsOfRecord(u)'
<1> USE DEF LoginShapes, UpsertRecord
<1>1. known' \in [Accounts -> {Unknown} \cup Record]
  BY DEF Record, Roles, Tenants, DefaultTenant, Unset
<1>2. edits' \in [Accounts -> Nat] /\ edits'[a] = edits[a] + 1 /\ \A b \in Accounts \ {a} : edits'[b] = edits[b] /\ known'[b] = known[b]
  OBVIOUS
<1>3. \A u \in SessionUser : u.seen \in Nat /\ u.user \in Accounts
  BY DEF SessionUser
<1>4. ASSUME NEW u \in SessionUser, IsOfRecord(u) PROVE IsOfRecord(u)'
  <2>1. CASE u.user = a
    <3>1. u.seen <= edits[a] /\ edits[a] \in Nat /\ u.seen \in Nat
      BY <1>3, <1>4, <2>1 DEF IsOfRecord
    <3>2. u.seen < edits'[u.user]
      BY <1>2, <2>1, <3>1
    <3>3. edits'[u.user] \in Nat
      BY <1>2, <1>3
    <3> QED
      BY <1>3, <3>1, <3>2, <3>3 DEF IsOfRecord
  <2>2. CASE u.user # a
    <3>1. edits'[u.user] = edits[u.user] /\ known'[u.user] = known[u.user]
      BY <1>2, <1>3, <2>2
    <3> QED
      BY <1>4, <3>1 DEF IsOfRecord
  <2> QED
    BY <2>1, <2>2
<1> QED
  BY <1>1, <1>2, <1>4

\* A tab that is left alone, or only loses the state cookie, stays true.
LEMMA OtherTab ==
  ASSUME LoginInv, NEW u \in Tabs, outcome'[u] = outcome[u],
         \A x \in SessionUser : IsOfRecord(x) => IsOfRecord(x)',
         \/ tab'[u] = tab[u] /\ stateCookie' = stateCookie
         \/ tab'[u] = tab[u] /\ tab[u].at \notin {"provider", "callback"}
         \/ tab'[u] = [tab[u] EXCEPT !.disturbed = TRUE] /\ tab[u].at \in {"provider", "callback"}
  PROVE  TabIsTrue(u)' /\ tab'[u] \in Tab /\ outcome'[u] \in Endings
<1>1. tab[u] \in Tab /\ outcome[u] \in Endings /\ TabIsTrue(u)
  BY DEF LoginInv, LoginShapes
<1>2. tab'[u] \in Tab /\ outcome'[u] \in Endings
  BY <1>1 DEF Tab
<1>3. /\ tab'[u].at = tab[u].at /\ tab'[u].offers = tab[u].offers /\ tab'[u].newcomer = tab[u].newcomer
      /\ tab'[u].state = tab[u].state /\ (tab[u].disturbed => tab'[u].disturbed)
  BY <1>1 DEF Tab
<1>4. EndedTrue(u)'
  BY <1>1, <1>3 DEF TabIsTrue, EndedTrue
<1>5. tab'[u].at = "accepted" => /\ tab'[u].offers \subseteq SessionUser
                                 /\ \A x \in tab'[u].offers : IsOfRecord(x)' /\ (x.tenant = Unset => tab'[u].newcomer)
  BY <1>1, <1>3 DEF TabIsTrue, CarriesTruth
<1>6. tab'[u].at \in {"provider", "callback"} /\ ~tab'[u].disturbed => stateCookie' = tab'[u].state
  BY <1>1, <1>3 DEF TabIsTrue, CarriesTruth, Tab
<1>7. CarriesTruth(u)'
  BY <1>1, <1>3, <1>5, <1>6 DEF TabIsTrue, CarriesTruth
<1> QED
  BY <1>2, <1>4, <1>7 DEF TabIsTrue

\* A step of one tab keeps the invariant if it leaves that tab true, the others as OtherTab
\* has it, and the session of the record.
LEMMA TabStep ==
  ASSUME LoginInv, NEW t \in Tabs, DOMAIN tab' = Tabs, DOMAIN outcome' = Tabs,
         tab' = [u \in Tabs |-> tab'[u]], outcome' = [u \in Tabs |-> outcome'[u]],
         tab'[t] \in Tab, outcome'[t] \in Endings, TabIsTrue(t)',
         \A u \in Tabs \ {t} :
           /\ outcome'[u] = outcome[u]
           /\ \/ tab'[u] = tab[u] /\ stateCookie' = stateCookie
              \/ tab'[u] = tab[u] /\ tab[u].at \notin {"provider", "callback"}
              \/ tab'[u] = [tab[u] EXCEPT !.disturbed = TRUE] /\ tab[u].at \in {"provider", "callback"},
         known' \in [Accounts -> {Unknown} \cup Record], edits' \in [Accounts -> Nat], logins' \in Nat,
         \A x \in SessionUser : IsOfRecord(x) => IsOfRecord(x)',
         session' \subseteq SessionUser, \A s \in session' : s \in session \/ IsOfRecord(s)'
  PROVE  LoginInv'
<1>1. \A u \in Tabs : TabIsTrue(u)' /\ tab'[u] \in Tab /\ outcome'[u] \in Endings
  BY OtherTab
<1>2. tab' \in [Tabs -> Tab] /\ outcome' \in [Tabs -> Endings]
  BY <1>1
<1>3. LoginShapes'
  BY <1>2 DEF LoginShapes
<1>4. \A s \in session' : IsOfRecord(s)'
  BY DEF LoginInv, LoginShapes
<1> QED
  BY <1>1, <1>3, <1>4 DEF LoginInv

\* Of a step that touches neither cookies nor records only what the tab becomes matters.
LEMMA QuietStep ==
  ASSUME LoginInv, NEW t \in Tabs, NEW r \in Tab, NEW o \in Endings,
         tab' = [tab EXCEPT ![t] = r], outcome' = [outcome EXCEPT ![t] = o], logins' \in Nat,
         UNCHANGED <<known, edits, stateCookie, session>>,
         r.at \in {"callback", "exchanging"} => r.offers \subseteq Claims,
         r.at # "accepted",
         r.at = "refused" => r.disturbed,
         r.at \in {"provider", "callback"} /\ ~r.disturbed => stateCookie = r.state,
         r.at # "idle" => o = "none",
         o = "invalid_state" => r.disturbed,
         o = "bounced" => r.newcomer
  PROVE  LoginInv'
<1>1. tab \in [Tabs -> Tab] /\ outcome \in [Tabs -> Endings]
  BY DEF LoginInv, LoginShapes
<1>2. tab'[t] = r /\ outcome'[t] = o /\ \A u \in Tabs \ {t} : tab'[u] = tab[u] /\ outcome'[u] = outcome[u]
  BY <1>1
<1>3. TabIsTrue(t)'
  BY <1>2 DEF TabIsTrue, CarriesTruth, EndedTrue
<1>4. \A x : IsOfRecord(x) => IsOfRecord(x)'
  BY DEF IsOfRecord
<1>5. DOMAIN tab' = Tabs /\ DOMAIN outcome' = Tabs /\ tab' = [u \in Tabs |-> tab'[u]] /\ outcome' = [u \in Tabs |-> outcome'[u]]
  BY <1>1
<1>6. /\ known' \in [Accounts -> {Unknown} \cup Record] /\ edits' \in [Accounts -> Nat]
      /\ session' \subseteq SessionUser /\ \A s \in session' : s \in session
  BY DEF LoginInv, LoginShapes
<1> QED
  BY <1>2, <1>3, <1>4, <1>5, <1>6, TabStep

\* The steps of a sign-in that do so.
LEMMA QuietSteps ==
  ASSUME LoginInv, NEW t \in Tabs,
         \/ FollowLogin(t) \/ ConfigInvalid(t) \/ Authenticate(t) \/ GiveUp(t) \/ CheckState(t) \/ CallbackFails(t) \/ ListUsers(t)
  PROVE  LoginInv'
<1>1. /\ tab[t] \in Tab /\ outcome[t] \in Endings /\ TabIsTrue(t)
      /\ tab \in [Tabs -> Tab] /\ outcome \in [Tabs -> Endings] /\ logins \in Nat
  BY DEF LoginInv, LoginShapes
<1>2. outcome = [outcome EXCEPT ![t] = outcome[t]]
  BY <1>1
<1>0. Idle \in Tab
  BY DEF Tab, Idle, Places
<1> USE DEF cookieJar, users
<1>3. CASE FollowLogin(t)
  <2> DEFINE r == [Idle EXCEPT !.at = "asking", !.state = logins + 1]
  <2>1. r \in Tab /\ r.at = "asking"
    <3> DEFINE n == logins + 1
    <3>1. n \in Int
      BY <1>1
    <3> HIDE DEF n
    <3>2. [Idle EXCEPT !.at = "asking", !.state = n] \in Tab
      BY <1>0, <3>1 DEF Tab, Places
    <3>3. [Idle EXCEPT !.at = "asking", !.state = n].at = "asking"
      BY <1>0 DEF Tab
    <3> QED
      BY <3>2, <3>3 DEF n
  <2>2. tab' = [tab EXCEPT ![t] = r] /\ outcome' = [outcome EXCEPT ![t] = "none"] /\ logins' \in Nat
        /\ UNCHANGED <<known, edits, stateCookie, session>>
    BY <1>1, <1>3 DEF FollowLogin
  <2>3. "none" \in Endings
    BY DEF Endings
  <2> QED
    BY <2>1, <2>2, <2>3, QuietStep
<1>4. CASE ConfigInvalid(t)
  <2>1. Idle \in Tab /\ Idle.at = "idle"
    BY <1>0 DEF Idle
  <2>2. tab' = [tab EXCEPT ![t] = Idle] /\ outcome' = [outcome EXCEPT ![t] = "config"] /\ logins' \in Nat
        /\ UNCHANGED <<known, edits, stateCookie, session>>
    BY <1>1, <1>4 DEF ConfigInvalid, Ends
  <2>3. "config" \in Endings
    BY DEF Endings
  <2> QED
    BY <2>1, <2>2, <2>3, QuietStep
<1>5. CASE Authenticate(t)
  <2>1. PICK a \in Accounts, role \in Roles \cup {Unset}, tenant \in {"acme", Unset} :
          tab' = [tab EXCEPT ![t].at = "callback", ![t].offers = {[user |-> a, role |-> role, tenant |-> tenant]}]
    BY <1>5 DEF Authenticate
  <2> DEFINE c == [user |-> a, role |-> role, tenant |-> tenant]
             r == [tab[t] EXCEPT !.at = "callback", !.offers = {c}]
  <2>2. c \in Claims
    BY DEF Claims
  <2>3. tab' = [tab EXCEPT ![t] = r]
    BY <1>1, <2>1 DEF Tab
  <2> HIDE DEF c
  <2>4. r \in Tab /\ r.at = "callback" /\ r.offers \subseteq Claims /\ r.disturbed = tab[t].disturbed /\ r.state = tab[t].state
    BY <1>1, <2>2 DEF Tab, Places
  <2>5. tab[t].at = "provider" /\ outcome' = [outcome EXCEPT ![t] = outcome[t]] /\ logins' \in Nat
        /\ UNCHANGED <<known, edits, stateCookie, session>>
    BY <1>1, <1>2, <1>5 DEF Authenticate
  <2>6. outcome[t] = "none" /\ (~r.disturbed => stateCookie = r.state)
    BY <1>1, <2>4, <2>5 DEF TabIsTrue, CarriesTruth, EndedTrue
  <2> HIDE DEF r
  <2> QED
    BY <1>1, <2>3, <2>4, <2>5, <2>6, QuietStep
<1>6. CASE GiveUp(t)
  <2> DEFINE r == [tab[t] EXCEPT !.at = "refused", !.disturbed = TRUE]
  <2>1. r \in Tab /\ r.at = "refused" /\ r.disturbed
    BY <1>1 DEF Tab, Places
  <2>2. tab' = [tab EXCEPT ![t] = r] /\ tab[t].at = "provider" /\ outcome' = [outcome EXCEPT ![t] = outcome[t]] /\ logins' \in Nat
        /\ UNCHANGED <<known, edits, stateCookie, session>>
    BY <1>1, <1>2, <1>6 DEF GiveUp, Tab
  <2>3. outcome[t] = "none"
    BY <1>1, <2>2 DEF TabIsTrue, EndedTrue
  <2> HIDE DEF r
  <2> QED
    BY <1>1, <2>1, <2>2, <2>3, QuietStep
<1>7. CASE CheckState(t)
  <2> DEFINE r == [tab[t] EXCEPT !.at = IF stateCookie = tab[t].state THEN "exchanging" ELSE "refused"]
  <2>1. r \in Tab /\ r.offers = tab[t].offers /\ r.disturbed = tab[t].disturbed /\ r.at \in {"exchanging", "refused"}
        /\ (r.at = "refused" => stateCookie # tab[t].state)
    BY <1>1 DEF Tab, Places
  <2>2. tab' = [tab EXCEPT ![t] = r] /\ tab[t].at = "callback" /\ outcome' = [outcome EXCEPT ![t] = outcome[t]] /\ logins' \in Nat
        /\ UNCHANGED <<known, edits, stateCookie, session>>
    BY <1>1, <1>2, <1>7 DEF CheckState, Goes, Tab
  <2>3. outcome[t] = "none" /\ tab[t].offers \subseteq Claims /\ (~tab[t].disturbed => stateCookie = tab[t].state)
        /\ tab[t].disturbed \in BOOLEAN
    BY <1>1, <2>2 DEF TabIsTrue, EndedTrue, CarriesTruth, Tab
  <2> HIDE DEF r
  <2> QED
    BY <1>1, <2>1, <2>2, <2>3, QuietStep
<1>8. CASE CallbackFails(t)
  <2> DEFINE r == [tab[t] EXCEPT !.at = "failed"]
  <2>1. r \in Tab /\ r.at = "failed"
    BY <1>1 DEF Tab, Places
  <2>2. tab' = [tab EXCEPT ![t] = r] /\ tab[t].at = "exchanging" /\ outcome' = [outcome EXCEPT ![t] = outcome[t]] /\ logins' \in Nat
        /\ UNCHANGED <<known, edits, stateCookie, session>>
    BY <1>1, <1>2, <1>8 DEF CallbackFails, Goes, Tab
  <2>3. outcome[t] = "none"
    BY <1>1, <2>2 DEF TabIsTrue, EndedTrue
  <2> HIDE DEF r
  <2> QED
    BY <1>1, <2>1, <2>2, <2>3, QuietStep
<1>9. CASE ListUsers(t)
  <2> DEFINE L == {[user |-> a, role |-> known[a].role] : a \in {b \in Accounts : known[b] # Unknown}}
             r == [Idle EXCEPT !.at = "picking", !.listed = L]
  <2>1. L \subseteq [user : Accounts, role : Roles]
    <3>1. \A a \in Accounts : known[a] # Unknown => known[a].role \in Roles
      BY DEF LoginInv, LoginShapes, Record
    <3> QED
      BY <3>1
  <2>2. tab' = [tab EXCEPT ![t] = r] /\ outcome' = [outcome EXCEPT ![t] = "none"] /\ logins' \in Nat
        /\ UNCHANGED <<known, edits, stateCookie, session>>
    BY <1>1, <1>9 DEF ListUsers
  <2> HIDE DEF L
  <2>3. r \in Tab /\ r.at = "picking" /\ "none" \in Endings
    BY <1>0, <2>1 DEF Tab, Places, Endings
  <2> HIDE DEF r
  <2> QED
    BY <2>2, <2>3, QuietStep
<1> QED
  BY <1>3, <1>4, <1>5, <1>6, <1>7, <1>8, <1>9

\* A response that sets or clears the state cookie: the sign-ins of other tabs that wait for it lose it.
LEMMA ReplacingStep ==
  ASSUME LoginInv, NEW t \in Tabs, NEW r \in Tab, NEW o \in Endings, NEW value,
         Replaces(t, value, r), outcome' = [outcome EXCEPT ![t] = o], logins' = logins,
         UNCHANGED <<known, edits>>,
         session' \subseteq SessionUser, \A s \in session' : IsOfRecord(s),
         r.at \in {"idle", "provider"},
         r.at = "provider" => stateCookie' = r.state /\ o = "none",
         o = "invalid_state" => r.disturbed,
         o = "bounced" => r.newcomer
  PROVE  LoginInv'
<1>1. tab \in [Tabs -> Tab] /\ outcome \in [Tabs -> Endings]
  BY DEF LoginInv, LoginShapes
<1>2. /\ tab'[t] = r /\ outcome'[t] = o
      /\ \A u \in Tabs \ {t} : /\ outcome'[u] = outcome[u]
                               /\ tab'[u] = IF tab[u].at \in {"provider", "callback"} THEN [tab[u] EXCEPT !.disturbed = TRUE] ELSE tab[u]
  BY <1>1 DEF Replaces
<1>3. TabIsTrue(t)'
  BY <1>2 DEF TabIsTrue, CarriesTruth, EndedTrue
<1>4. \A x : IsOfRecord(x) => IsOfRecord(x)'
  BY DEF IsOfRecord
<1>5. DOMAIN tab' = Tabs /\ DOMAIN outcome' = Tabs /\ tab' = [u \in Tabs |-> tab'[u]] /\ outcome' = [u \in Tabs |-> outcome'[u]]
  BY <1>1 DEF Replaces
<1>6. known' \in [Accounts -> {Unknown} \cup Record] /\ edits' \in [Accounts -> Nat] /\ logins' \in Nat
  BY DEF LoginInv, LoginShapes
<1>7. \A s \in session' : IsOfRecord(s)'
  BY <1>4
<1> QED
  BY <1>2, <1>3, <1>4, <1>5, <1>6, <1>7, TabStep

\* The redirect to the provider, and the two answers of the callback.
LEMMA ReplacingSteps ==
  ASSUME LoginInv, NEW t \in Tabs, Redirect(t) \/ ErrorArrives(t) \/ SessionArrives(t)
  PROVE  LoginInv'
<1>1. /\ tab[t] \in Tab /\ outcome[t] \in Endings /\ TabIsTrue(t) /\ logins \in Nat
      /\ tab \in [Tabs -> Tab] /\ outcome \in [Tabs -> Endings]
      /\ session \subseteq SessionUser /\ \A s \in session : IsOfRecord(s)
  BY DEF LoginInv, LoginShapes
<1>2. outcome = [outcome EXCEPT ![t] = outcome[t]]
  BY <1>1
<1>3. Idle \in Tab /\ Idle.at = "idle"
  BY DEF Tab, Idle, Places
<1> USE DEF cookieJar, users
<1>4. CASE Redirect(t)
  <2> DEFINE r == [tab[t] EXCEPT !.at = "provider"]
  <2>1. r \in Tab /\ r.at = "provider" /\ r.state = tab[t].state
    BY <1>1 DEF Tab, Places
  <2>2. Replaces(t, tab[t].state, r) /\ outcome' = [outcome EXCEPT ![t] = outcome[t]] /\ logins' = logins
        /\ UNCHANGED <<known, edits, session>> /\ tab[t].at = "asking"
    BY <1>2, <1>4 DEF Redirect
  <2>3. outcome[t] = "none"
    BY <1>1, <2>2 DEF TabIsTrue, EndedTrue
  <2>4. stateCookie' = r.state
    BY <2>1, <2>2 DEF Replaces
  <2> HIDE DEF r
  <2> QED
    BY <1>1, <2>1, <2>2, <2>3, <2>4, ReplacingStep
<1>5. CASE ErrorArrives(t)
  <2> DEFINE r == [Idle EXCEPT !.disturbed = tab[t].disturbed]
             o == IF tab[t].at = "refused" THEN "invalid_state" ELSE "callback_failed"
  <2>1. r \in Tab /\ r.at = "idle" /\ r.disturbed = tab[t].disturbed
    BY <1>1, <1>3 DEF Tab
  <2>2. Replaces(t, 0, r) /\ outcome' = [outcome EXCEPT ![t] = o] /\ logins' = logins
        /\ UNCHANGED <<known, edits, session>>
    BY <1>5 DEF ErrorArrives, Ends
  <2>3. o \in Endings /\ o # "bounced" /\ (o = "invalid_state" => tab[t].disturbed)
    BY <1>1 DEF TabIsTrue, CarriesTruth, Endings
  <2> HIDE DEF r, o
  <2> QED
    BY <1>1, <2>1, <2>2, <2>3, ReplacingStep
<1>6. CASE SessionArrives(t)
  <2> DEFINE r == [Idle EXCEPT !.newcomer = tab[t].newcomer]
             o == IF \E u \in tab[t].offers : Bounces(u) THEN "bounced" ELSE "landed"
  <2>1. r \in Tab /\ r.at = "idle" /\ r.newcomer = tab[t].newcomer
    BY <1>1, <1>3 DEF Tab
  <2>2. Replaces(t, 0, r) /\ outcome' = [outcome EXCEPT ![t] = o] /\ logins' = logins
        /\ UNCHANGED <<known, edits>> /\ session' = tab[t].offers /\ tab[t].at = "accepted"
    BY <1>6 DEF SessionArrives, Ends
  <2>3. session' \subseteq SessionUser /\ \A s \in session' : IsOfRecord(s) /\ (s.tenant = Unset => tab[t].newcomer)
    BY <1>1, <2>2 DEF TabIsTrue, CarriesTruth
  <2>4. o \in Endings /\ o # "invalid_state" /\ (o = "bounced" => tab[t].newcomer)
    BY <2>2, <2>3 DEF Bounces, Endings
  <2> HIDE DEF r, o
  <2> QED
    BY <1>1, <2>1, <2>2, <2>3, <2>4, ReplacingStep
<1> QED
  BY <1>4, <1>5, <1>6

\* The provider has answered: the record is written, and a session with it.
LEMMA AcceptStep ==
  ASSUME LoginInv, NEW t \in Tabs, Accept(t)
  PROVE  LoginInv'
<1>1. /\ tab[t] \in Tab /\ TabIsTrue(t) /\ logins \in Nat /\ LoginShapes
      /\ tab \in [Tabs -> Tab] /\ outcome \in [Tabs -> Endings]
      /\ session \subseteq SessionUser /\ \A s \in session : IsOfRecord(s)
  BY DEF LoginInv, LoginShapes
<1>2. PICK c \in tab[t].offers :
        /\ UpsertRecord(c.user, Mapped(c).role, Mapped(c).tenant)
        /\ tab' = [tab EXCEPT ![t].at = "accepted", ![t].newcomer = (known[c.user] = Unknown),
                              ![t].offers = {[user |-> c.user, role |-> Mapped(c).role, tenant |-> Mapped(c).tenant,
                                              seen |-> edits[c.user] + 1]}]
  BY <1>1 DEF Accept
<1>3. /\ tab[t].at = "exchanging" /\ UNCHANGED <<outcome, logins, stateCookie, session>>
  BY DEF Accept, cookieJar
<1>4. c \in Claims /\ outcome[t] = "none"
  BY <1>1, <1>2, <1>3 DEF TabIsTrue, CarriesTruth, EndedTrue
<1> DEFINE user == Mapped(c)
<1>0. PICK u : u = [user |-> c.user, role |-> user.role, tenant |-> user.tenant, seen |-> edits[c.user] + 1]
  OBVIOUS
<1> DEFINE r == [tab[t] EXCEPT !.at = "accepted", !.newcomer = (known[c.user] = Unknown), !.offers = {u}]
<1>5. c.user \in Accounts /\ user.role \in Roles /\ user.tenant \in Tenants \cup {Unset}
      /\ (user.tenant = Unset => known[c.user] = Unknown)
  <2>1. c.user \in Accounts /\ c.role \in Roles \cup {Unset} /\ c.tenant \in {"acme", Unset}
    BY <1>4 DEF Claims
  <2>2. known[c.user] = Unknown \/ (known[c.user].role \in Roles /\ known[c.user].tenant \in Tenants)
    <3>1. known[c.user] \in {Unknown} \cup Record
      BY <1>1, <2>1 DEF LoginShapes
    <3> QED
      BY <3>1, SMT DEF Record
  <2>3. Unset \notin Tenants /\ "acme" \in Tenants /\ "user" \in Roles
    BY DEF Unset, Tenants, DefaultTenant, Roles
  <2>4. user.role \in Roles
    BY <2>1, <2>2, <2>3 DEF Mapped
  <2>5. user.tenant \in Tenants \cup {Unset} /\ (user.tenant = Unset => known[c.user] = Unknown)
    BY <2>1, <2>2, <2>3 DEF Mapped, Unknown
  <2> QED
    BY <2>1, <2>4, <2>5
<1>6. /\ known' \in [Accounts -> {Unknown} \cup Record] /\ edits' \in [Accounts -> Nat]
      /\ \A x \in SessionUser : IsOfRecord(x) => IsOfRecord(x)'
  <2> HIDE DEF user
  <2> QED
    BY <1>1, <1>2, <1>5, WritingAges DEF user
<1>7. u \in SessionUser /\ IsOfRecord(u)' /\ (u.tenant = Unset => known[c.user] = Unknown)
  <2>1. edits[c.user] \in Nat
    BY <1>1, <1>5 DEF LoginShapes
  <2>2. edits'[c.user] = edits[c.user] + 1
    BY <1>1, <1>2, <1>5 DEF UpsertRecord, LoginShapes
  <2>3. known'[c.user] = [role |-> user.role, tenant |-> IF user.tenant = Unset THEN DefaultTenant ELSE user.tenant]
    BY <1>1, <1>2, <1>5 DEF UpsertRecord, LoginShapes
  <2> HIDE DEF user
  <2>4. u \in SessionUser
    BY <1>0, <1>5, <2>1 DEF SessionUser
  <2>5. u.user = c.user /\ u.seen = edits'[c.user] /\ u.role = user.role /\ u.tenant = user.tenant
    BY <1>0, <2>2
  <2>6. edits'[c.user] \in Nat
    BY <2>1, <2>2
  <2>7. IsOfRecord(u)'
    BY <2>3, <2>5, <2>6 DEF IsOfRecord
  <2> QED
    BY <1>5, <2>4, <2>5, <2>7
<1>8. tab' = [tab EXCEPT ![t] = r]
  BY <1>0, <1>1, <1>2 DEF Tab
<1> HIDE DEF user
<1>9. r \in Tab /\ r.at = "accepted" /\ r.offers = {u} /\ r.newcomer = (known[c.user] = Unknown)
  BY <1>1, <1>7 DEF Tab, Places
<1> HIDE DEF r
<1>10. tab'[t] = r /\ \A v \in Tabs \ {t} : tab'[v] = tab[v]
  BY <1>1, <1>8
<1>11. TabIsTrue(t)'
  <2>1. tab'[t].at = "accepted" /\ tab'[t].offers = {u} /\ tab'[t].newcomer = (known[c.user] = Unknown) /\ outcome'[t] = "none"
    BY <1>3, <1>4, <1>9, <1>10
  <2>2. CarriesTruth(t)'
    BY <1>7, <2>1 DEF CarriesTruth
  <2>3. EndedTrue(t)'
    BY <2>1 DEF EndedTrue
  <2> QED
    BY <2>2, <2>3 DEF TabIsTrue
<1>12. DOMAIN tab' = Tabs /\ DOMAIN outcome' = Tabs /\ tab' = [v \in Tabs |-> tab'[v]] /\ outcome' = [v \in Tabs |-> outcome'[v]]
  BY <1>1, <1>3, <1>8
<1> QED
  BY <1>1, <1>3, <1>6, <1>9, <1>10, <1>11, <1>12, TabStep

\* In development a session is issued with the record it is issued for.
LEMMA SignInStep ==
  ASSUME LoginInv, NEW t \in Tabs, NEW b \in Accounts, NEW role \in Roles, NEW tenant \in Tenants,
         SignIn(t, b, role, tenant)
  PROVE  LoginInv'
<1>1. /\ LoginShapes /\ tab \in [Tabs -> Tab] /\ outcome \in [Tabs -> Endings] /\ edits[b] \in Nat /\ logins \in Nat
  BY DEF LoginInv, LoginShapes
<1>2. PICK s : s = [user |-> b, role |-> role, tenant |-> tenant, seen |-> edits[b] + 1]
  OBVIOUS
<1>3. /\ UpsertRecord(b, role, tenant) /\ session' = {s} /\ tab' = [tab EXCEPT ![t] = Idle]
      /\ outcome' = [outcome EXCEPT ![t] = "landed"] /\ UNCHANGED <<stateCookie, logins>>
  BY <1>2 DEF SignIn, Ends
<1>4. /\ known' \in [Accounts -> {Unknown} \cup Record] /\ edits' \in [Accounts -> Nat]
      /\ \A x \in SessionUser : IsOfRecord(x) => IsOfRecord(x)'
  BY <1>1, <1>3, WritingAges
<1>5. s \in SessionUser /\ IsOfRecord(s)'
  <2>1. Unset \notin Tenants
    BY DEF Unset, Tenants, DefaultTenant
  <2>2. edits'[b] = edits[b] + 1 /\ known'[b] = [role |-> role, tenant |-> tenant]
    BY <1>1, <1>3, <2>1 DEF UpsertRecord, LoginShapes
  <2>3. s.user = b /\ s.seen = edits'[b] /\ edits'[b] \in Nat /\ s.role = role /\ s.tenant = tenant
    BY <1>1, <1>2, <2>2
  <2>4. IsOfRecord(s)'
    BY <2>2, <2>3 DEF IsOfRecord
  <2> QED
    BY <1>1, <1>2, <2>4 DEF SessionUser
<1>6. Idle \in Tab /\ Idle.at = "idle"
  BY DEF Tab, Idle, Places
<1>7. tab'[t] = Idle /\ outcome'[t] = "landed" /\ \A u \in Tabs \ {t} : tab'[u] = tab[u] /\ outcome'[u] = outcome[u]
  BY <1>1, <1>3
<1>8. TabIsTrue(t)'
  BY <1>6, <1>7 DEF TabIsTrue, CarriesTruth, EndedTrue
<1>9. DOMAIN tab' = Tabs /\ DOMAIN outcome' = Tabs /\ tab' = [u \in Tabs |-> tab'[u]] /\ outcome' = [u \in Tabs |-> outcome'[u]]
  BY <1>1, <1>3
<1>10. "landed" \in Endings
  BY DEF Endings
<1> QED
  BY <1>1, <1>3, <1>4, <1>5, <1>6, <1>7, <1>8, <1>9, <1>10, TabStep

\* Whoever is picked is known by then, or gets the default tenant.
LEMMA PickSteps ==
  ASSUME LoginInv, NEW t \in Tabs, Pick(t) \/ PickRole(t)
  PROVE  LoginInv'
<1>1. \A a \in Accounts : known[a] = Unknown \/ (known[a].role \in Roles /\ known[a].tenant \in Tenants)
  <2> SUFFICES ASSUME NEW a \in Accounts
               PROVE  known[a] = Unknown \/ (known[a].role \in Roles /\ known[a].tenant \in Tenants)
    OBVIOUS
  <2>1. known[a] \in {Unknown} \cup Record
    BY DEF LoginInv, LoginShapes
  <2> QED
    BY <2>1 DEF Record
<1>2. DefaultTenant \in Tenants /\ Unset \notin Roles /\ Unknown.role = Unset
  BY DEF Tenants, Unset, Roles, Unknown
<1>3. \A role \in Roles, b \in Accounts : known[b].role = role => known[b].tenant \in Tenants
  BY <1>1, <1>2
<1>4. CASE Pick(t)
  <2>1. PICK l \in tab[t].listed :
          \/ \E b \in StoredUser(l.role, l.user) : SignIn(t, b, l.role, known[b].tenant)
          \/ StoredUser(l.role, l.user) = {} /\ SignIn(t, l.user, l.role, DefaultTenant)
    BY <1>4 DEF Pick
  <2>2. l.user \in Accounts /\ l.role \in Roles
    <3>1. tab[t].listed \subseteq [user : Accounts, role : Roles]
      BY DEF LoginInv, LoginShapes, Tab
    <3> QED
      BY <3>1
  <2>3. ASSUME NEW b \in StoredUser(l.role, l.user), SignIn(t, b, l.role, known[b].tenant) PROVE LoginInv'
    <3>1. b \in Accounts /\ known[b].role = l.role
      BY <2>2 DEF StoredUser
    <3> QED
      BY <1>3, <2>2, <2>3, <3>1, SignInStep
  <2>4. CASE SignIn(t, l.user, l.role, DefaultTenant)
    BY <1>2, <2>2, <2>4, SignInStep
  <2> QED
    BY <2>1, <2>3, <2>4
<1>5. CASE PickRole(t)
  <2>1. PICK role \in Roles :
          \/ \E b \in {a \in Accounts : known[a].role = role} : SignIn(t, b, role, known[b].tenant)
          \/ \E b \in Accounts : SignIn(t, b, role, DefaultTenant)
    BY <1>5 DEF PickRole
  <2>2. ASSUME NEW b \in {a \in Accounts : known[a].role = role}, SignIn(t, b, role, known[b].tenant) PROVE LoginInv'
    BY <1>3, <2>2, SignInStep
  <2>3. ASSUME NEW b \in Accounts, SignIn(t, b, role, DefaultTenant) PROVE LoginInv'
    BY <1>2, <2>3, SignInStep
  <2> QED
    BY <2>1, <2>2, <2>3
<1> QED
  BY <1>4, <1>5

\* What happens besides the sign-ins: records are written, cookies and the discovery document go.
LEMMA OtherSteps ==
  ASSUME LoginInv, (\E a \in Accounts : EditUser(a)) \/ StateExpires \/ SessionEnds \/ ServerRestarts
  PROVE  LoginInv'
<1>1. /\ LoginShapes /\ tab \in [Tabs -> Tab] /\ outcome \in [Tabs -> Endings] /\ session \subseteq SessionUser
      /\ \A s \in session : IsOfRecord(s)
  BY DEF LoginInv, LoginShapes
<1>2. ASSUME \A u \in Tabs :
               /\ outcome'[u] = outcome[u]
               /\ \/ tab'[u] = tab[u] /\ stateCookie' = stateCookie
                  \/ tab'[u] = tab[u] /\ tab[u].at \notin {"provider", "callback"}
                  \/ tab'[u] = [tab[u] EXCEPT !.disturbed = TRUE] /\ tab[u].at \in {"provider", "callback"},
             tab' = [u \in Tabs |-> tab'[u]], outcome' = outcome, logins' = logins,
             known' \in [Accounts -> {Unknown} \cup Record], edits' \in [Accounts -> Nat], session' \subseteq session,
             \A x \in SessionUser : IsOfRecord(x) => IsOfRecord(x)'
      PROVE  LoginInv'
  <2>1. \A u \in Tabs : TabIsTrue(u)' /\ tab'[u] \in Tab
    BY <1>2, OtherTab
  <2>2. tab' \in [Tabs -> Tab]
    BY <1>2, <2>1
  <2>3. LoginShapes'
    BY <1>1, <1>2, <2>2 DEF LoginShapes
  <2>4. \A s \in session' : IsOfRecord(s)'
    BY <1>1, <1>2
  <2> QED
    BY <2>1, <2>3, <2>4 DEF LoginInv
<1>3. /\ known \in [Accounts -> {Unknown} \cup Record] /\ edits \in [Accounts -> Nat]
      /\ tab = [u \in Tabs |-> tab[u]]
  BY <1>1 DEF LoginShapes
<1>4. ASSUME NEW a \in Accounts, EditUser(a) PROVE LoginInv'
  <2>1. PICK role \in Roles, tenant \in Tenants : UpsertRecord(a, role, tenant)
    BY <1>4 DEF EditUser
  <2>2. /\ known' \in [Accounts -> {Unknown} \cup Record] /\ edits' \in [Accounts -> Nat]
        /\ \A x \in SessionUser : IsOfRecord(x) => IsOfRecord(x)'
    BY <1>1, <2>1, WritingAges
  <2>3. UNCHANGED <<tab, outcome, logins, stateCookie, session>>
    BY <1>4 DEF EditUser, cookieJar
  <2> QED
    BY <1>2, <1>3, <2>2, <2>3
<1>5. CASE StateExpires
  <2>1. /\ tab' = [u \in Tabs |-> IF tab[u].at \in {"provider", "callback"} THEN [tab[u] EXCEPT !.disturbed = TRUE] ELSE tab[u]]
        /\ UNCHANGED <<known, edits, session, outcome, logins>>
    BY <1>5 DEF StateExpires, users
  <2>2. \A x : IsOfRecord(x) => IsOfRecord(x)'
    BY <2>1 DEF IsOfRecord
  <2> QED
    BY <1>2, <1>3, <2>1, <2>2
<1>6. CASE SessionEnds \/ ServerRestarts
  <2>1. session' \subseteq session /\ UNCHANGED <<known, edits, stateCookie, tab, outcome, logins>>
    BY <1>6 DEF SessionEnds, ServerRestarts, users, cookieJar
  <2>2. \A x : IsOfRecord(x) => IsOfRecord(x)'
    BY <2>1 DEF IsOfRecord
  <2> QED
    BY <1>2, <1>3, <2>1, <2>2
<1> QED
  BY <1>4, <1>5, <1>6

\* Tabs, records and the session keep their truth, whatever the order of requests and failures.
THEOREM LoginInvariant == LoginSpec => []LoginInv
<1>1. LoginInit => LoginInv
  BY InitLogin
<1>2. LoginInv /\ [LoginNext]_loginVars => LoginInv'
  <2> SUFFICES ASSUME LoginInv, [LoginNext]_loginVars PROVE LoginInv'
    OBVIOUS
  <2>1. CASE LoginNext
    BY <2>1, QuietSteps, ReplacingSteps, AcceptStep, PickSteps, OtherSteps DEF LoginNext
  <2>2. CASE UNCHANGED loginVars
    BY <2>2 DEF LoginInv, LoginShapes, TabIsTrue, CarriesTruth, EndedTrue, IsOfRecord, loginVars, users, cookieJar
  <2> QED
    BY <2>1, <2>2
<1> QED
  BY <1>1, <1>2, PTL DEF LoginSpec

\* A sign-in is refused only if something took its cookie, and a session is that of the record
\* until that is written again.
THEOREM SignInsStayTrue == LoginSpec => []SignInsAreTrue
BY InvIsTrue, LoginInvariant, PTL

\* No element, or one.
AtMostOne(S) == S = {} \/ \E x : S = {x}

\* Such a set has a size of at most 1.
LEMMA OneAtMost ==
  ASSUME NEW S, AtMostOne(S)
  PROVE  Cardinality(S) <= 1
<1>1. CASE S = {}
  BY <1>1, FS_EmptySet
<1>2. CASE \E x : S = {x}
  <2>1. PICK x : S = {x}
    BY <1>2
  <2>2. Cardinality({x}) = 1
    BY FS_Singleton
  <2> QED
    BY <2>1, <2>2
<1> QED
  BY <1>1, <1>2 DEF AtMostOne

\* What the types say beyond the shapes.
LoginBounded ==
  /\ mode \in {"oidc", "mock", "both"} /\ discovered \in {"none", "whole", "empty"}
  /\ stateCookie \in 0..MaxLogins /\ logins \in 0..MaxLogins /\ upsets \in 0..MaxUpsets
  /\ AtMostOne(session) /\ \A t \in Tabs : tab[t].state \in 0..MaxLogins /\ AtMostOne(tab[t].offers)

\* Shapes and bounds are the types.
LEMMA LoginTyped == LoginInv /\ LoginBounded => LoginTypeOK
<1> SUFFICES ASSUME LoginInv, LoginBounded PROVE LoginTypeOK
  OBVIOUS
<1>1. Cardinality(session) <= 1 /\ \A t \in Tabs : Cardinality(tab[t].offers) <= 1
  BY OneAtMost DEF LoginBounded
<1>2. \A t \in Tabs : /\ tab[t].at \in Places /\ tab[t].disturbed \in BOOLEAN /\ tab[t].newcomer \in BOOLEAN
                      /\ tab[t].listed \subseteq [user : Accounts, role : Roles]
  BY DEF LoginInv, LoginShapes, Tab
<1> QED
  BY <1>1, <1>2 DEF LoginInv, LoginShapes, LoginBounded, LoginTypeOK, Places, Endings, Record

\* At first all is small.
LEMMA InitBounded == LoginInit => LoginBounded
BY LoginBounds DEF LoginInit, LoginBounded, AtMostOne, Idle

\* A tab that takes a place, and the others that lose their cookie at most.
LEMMA ReplacedBounded ==
  ASSUME LoginInv, LoginBounded, NEW t \in Tabs, NEW value \in 0..MaxLogins, NEW mine,
         mine.state \in 0..MaxLogins, AtMostOne(mine.offers), Replaces(t, value, mine)
  PROVE  stateCookie' \in 0..MaxLogins /\ \A u \in Tabs : tab'[u].state \in 0..MaxLogins /\ AtMostOne(tab'[u].offers)
<1>1. tab \in [Tabs -> Tab]
  BY DEF LoginInv, LoginShapes
<1>2. \A u \in Tabs : [tab[u] EXCEPT !.disturbed = TRUE].state = tab[u].state
                      /\ [tab[u] EXCEPT !.disturbed = TRUE].offers = tab[u].offers
  BY <1>1 DEF Tab
<1>3. ASSUME NEW u \in Tabs
      PROVE  tab'[u].state \in 0..MaxLogins /\ AtMostOne(tab'[u].offers)
  <2>1. tab'[u] = IF u = t THEN mine
                  ELSE IF tab[u].at \in {"provider", "callback"} THEN [tab[u] EXCEPT !.disturbed = TRUE] ELSE tab[u]
    BY DEF Replaces
  <2> QED
    BY <1>2, <2>1 DEF LoginBounded
<1> QED
  BY <1>3 DEF Replaces

\* What a tab is where one of them changes its place.
LEMMA OneTabBounded ==
  ASSUME LoginInv, LoginBounded, NEW t \in Tabs, NEW mine, tab' = [tab EXCEPT ![t] = mine],
         mine.state \in 0..MaxLogins, AtMostOne(mine.offers)
  PROVE  \A u \in Tabs : tab'[u].state \in 0..MaxLogins /\ AtMostOne(tab'[u].offers)
BY DEF LoginInv, LoginShapes, LoginBounded

\* Every step keeps to the bounds.
LEMMA NextBounded == LoginInv /\ LoginBounded /\ [LoginNext]_loginVars => LoginBounded'
<1> SUFFICES ASSUME LoginInv, LoginBounded, [LoginNext]_loginVars PROVE LoginBounded'
  OBVIOUS
<1> USE LoginBounds
<1>1. tab \in [Tabs -> Tab] /\ logins \in 0..MaxLogins /\ upsets \in 0..MaxUpsets /\ stateCookie \in 0..MaxLogins
      /\ \A t \in Tabs : tab[t].state \in 0..MaxLogins /\ AtMostOne(tab[t].offers)
  BY DEF LoginInv, LoginShapes, LoginBounded
<1>1a. Idle.state = 0 /\ Idle.offers = {} /\ 0 \in 0..MaxLogins /\ AtMostOne({})
  BY DEF Idle, AtMostOne
<1>2. Upset => upsets' \in 0..MaxUpsets
  BY <1>1 DEF Upset
<1>3. ASSUME NEW t \in Tabs, FollowLogin(t) \/ ListUsers(t) PROVE LoginBounded'
  <2>1. logins' \in 0..MaxLogins
    BY <1>1, <1>3 DEF FollowLogin, ListUsers
  <2>2. PICK mine : tab' = [tab EXCEPT ![t] = mine] /\ mine.state \in 0..MaxLogins /\ AtMostOne(mine.offers)
    <3>1. CASE FollowLogin(t)
      <4> DEFINE mine == [Idle EXCEPT !.at = "asking", !.state = logins + 1]
      <4>1. tab' = [tab EXCEPT ![t] = mine] /\ logins' = logins + 1
        BY <3>1 DEF FollowLogin
      <4>2. mine.state = logins + 1 /\ mine.offers = {}
        BY DEF Idle
      <4> HIDE DEF mine
      <4> QED
        BY <1>1a, <2>1, <4>1, <4>2
    <3>2. CASE ListUsers(t)
      <4> DEFINE Picking(rows) == [Idle EXCEPT !.at = "picking", !.listed = rows]
      <4>1. PICK rows : tab' = [tab EXCEPT ![t] = Picking(rows)]
        BY <3>2 DEF ListUsers
      <4>2. Picking(rows).state = 0 /\ Picking(rows).offers = {}
        BY DEF Idle
      <4> HIDE DEF Picking
      <4> QED
        BY <1>1a, <4>1, <4>2
    <3> QED
      BY <1>3, <3>1, <3>2
  <2>3. \A u \in Tabs : tab'[u].state \in 0..MaxLogins /\ AtMostOne(tab'[u].offers)
    BY <1>1, <2>2
  <2> QED
    BY <1>3, <2>1, <2>3 DEF FollowLogin, ListUsers, LoginBounded, cookieJar, users
<1>4. ASSUME NEW t \in Tabs, Redirect(t) PROVE LoginBounded'
  <2>1. [tab[t] EXCEPT !.at = "provider"].state \in 0..MaxLogins /\ AtMostOne([tab[t] EXCEPT !.at = "provider"].offers)
    BY <1>1 DEF Tab
  <2>2. stateCookie' \in 0..MaxLogins /\ \A u \in Tabs : tab'[u].state \in 0..MaxLogins /\ AtMostOne(tab'[u].offers)
    BY <1>1, <1>4, <2>1, ReplacedBounded DEF Redirect
  <2>3. upsets' \in 0..MaxUpsets
    BY <1>1, <1>2, <1>4 DEF Redirect, Discover
  <2> QED
    BY <1>4, <2>2, <2>3 DEF Redirect, LoginBounded, users
<1>5. ASSUME NEW t \in Tabs, ConfigInvalid(t) PROVE LoginBounded'
  <2>1. \A u \in Tabs : tab'[u].state \in 0..MaxLogins /\ AtMostOne(tab'[u].offers)
    <3>1. tab' = [tab EXCEPT ![t] = Idle]
      BY <1>5 DEF ConfigInvalid
    <3> QED
      BY <1>1, <1>1a, <3>1
  <2>2. upsets' \in 0..MaxUpsets /\ discovered' \in {"none", "whole", "empty"}
    BY <1>1, <1>2, <1>5 DEF ConfigInvalid, Discover, LoginBounded
  <2> QED
    BY <1>5, <2>1, <2>2 DEF ConfigInvalid, LoginBounded, users, cookieJar
<1>6. ASSUME NEW t \in Tabs, Authenticate(t) PROVE LoginBounded'
  <2>1. PICK c : tab' = [tab EXCEPT ![t].at = "callback", ![t].offers = {c}]
    BY <1>6 DEF Authenticate
  <2>2. \A u \in Tabs : tab'[u].state \in 0..MaxLogins /\ AtMostOne(tab'[u].offers)
    BY <1>1, <2>1 DEF Tab, AtMostOne
  <2> QED
    BY <1>6, <2>2 DEF Authenticate, LoginBounded, users, cookieJar
<1>7. ASSUME NEW t \in Tabs, GiveUp(t) \/ CheckState(t) \/ CallbackFails(t) PROVE LoginBounded'
  <2>1. \A u \in Tabs : tab'[u].state \in 0..MaxLogins /\ AtMostOne(tab'[u].offers)
    BY <1>1, <1>7 DEF GiveUp, CheckState, CallbackFails, Goes, Tab
  <2>2. upsets' \in 0..MaxUpsets /\ discovered' \in {"none", "whole", "empty"}
    BY <1>1, <1>2, <1>7 DEF GiveUp, CheckState, CallbackFails, LoginBounded
  <2> QED
    BY <1>7, <2>1, <2>2 DEF GiveUp, CheckState, CallbackFails, LoginBounded, users, cookieJar
<1>8. ASSUME NEW t \in Tabs, Accept(t) PROVE LoginBounded'
  <2>1. PICK c, fresh : tab' = [tab EXCEPT ![t].at = "accepted", ![t].newcomer = fresh, ![t].offers = {c}]
    BY <1>8 DEF Accept
  <2>2. \A u \in Tabs : tab'[u].state \in 0..MaxLogins /\ AtMostOne(tab'[u].offers)
    BY <1>1, <2>1 DEF Tab, AtMostOne
  <2> QED
    BY <1>8, <2>2 DEF Accept, LoginBounded, cookieJar
<1>9. ASSUME NEW t \in Tabs, ErrorArrives(t) PROVE LoginBounded'
  <2>1. PICK mine : mine.state = 0 /\ mine.offers = {} /\ Replaces(t, 0, mine)
    BY <1>9 DEF ErrorArrives, Idle
  <2>2. stateCookie' \in 0..MaxLogins /\ \A u \in Tabs : tab'[u].state \in 0..MaxLogins /\ AtMostOne(tab'[u].offers)
    BY <1>1a, <2>1, ReplacedBounded
  <2> QED
    BY <1>9, <2>2 DEF ErrorArrives, LoginBounded, users
<1>10. ASSUME NEW t \in Tabs, SessionArrives(t) PROVE LoginBounded'
  <2>1. PICK mine : mine.state = 0 /\ mine.offers = {} /\ Replaces(t, 0, mine)
    BY <1>10 DEF SessionArrives, Idle
  <2>2. stateCookie' \in 0..MaxLogins /\ \A u \in Tabs : tab'[u].state \in 0..MaxLogins /\ AtMostOne(tab'[u].offers)
    BY <1>1a, <2>1, ReplacedBounded
  <2>3. AtMostOne(session')
    BY <1>1, <1>10 DEF SessionArrives
  <2> QED
    BY <1>10, <2>2, <2>3 DEF SessionArrives, LoginBounded, users
<1>11. ASSUME NEW t \in Tabs, Pick(t) \/ PickRole(t) PROVE LoginBounded'
  <2>1. PICK b, role, tenant : SignIn(t, b, role, tenant)
    BY <1>11 DEF Pick, PickRole
  <2>2. \A u \in Tabs : tab'[u].state \in 0..MaxLogins /\ AtMostOne(tab'[u].offers)
    <3>1. tab' = [tab EXCEPT ![t] = Idle]
      BY <2>1 DEF SignIn
    <3> QED
      BY <1>1, <1>1a, <3>1
  <2>3. AtMostOne(session')
    BY <2>1 DEF SignIn, AtMostOne
  <2> QED
    BY <2>1, <2>2, <2>3 DEF SignIn, LoginBounded
<1>12. ASSUME NEW a \in Accounts, EditUser(a) PROVE LoginBounded'
  BY <1>2, <1>12 DEF EditUser, LoginBounded, cookieJar
<1>13. CASE StateExpires
  <2>1. \A u \in Tabs : tab'[u].state \in 0..MaxLogins /\ AtMostOne(tab'[u].offers)
    BY <1>1, <1>13 DEF StateExpires, Tab
  <2> QED
    BY <1>2, <1>13, <2>1 DEF StateExpires, LoginBounded, users
<1>14. CASE SessionEnds \/ ServerRestarts
  BY <1>2, <1>14 DEF SessionEnds, ServerRestarts, LoginBounded, AtMostOne, users, cookieJar
<1>15. CASE UNCHANGED loginVars
  BY <1>15 DEF LoginBounded, loginVars, users, cookieJar
<1> QED
  BY <1>3, <1>4, <1>5, <1>6, <1>7, <1>8, <1>9, <1>10, <1>11, <1>12, <1>13, <1>14, <1>15 DEF LoginNext

\* Type correctness of signing in, for any tabs, accounts, numbers of sign-ins and failures
\* (module Login).
THEOREM LoginTypesAreKept == LoginSpec => []LoginTypeOK
<1>1. LoginInit => LoginBounded
  BY InitBounded
<1>2. LoginInv /\ LoginBounded /\ [LoginNext]_loginVars => LoginBounded'
  BY NextBounded
<1>3. LoginInv /\ LoginBounded => LoginTypeOK
  BY LoginTyped
<1> QED
  BY <1>1, <1>2, <1>3, LoginInvariant, PTL DEF LoginSpec

-----------------------------------------------------------------------------
(* The guards of pages and APIs *)

\* How often the browser was sent on before it came to a page.
HopsBefore(here) == IF here = "login" THEN 2 ELSE IF here = "chat" THEN 1 ELSE 0

\* How it came to the page where it is, if nothing has changed since: the guards that sent it there
\* would send it there again.
SentThere ==
  CASE site = aim -> TRUE
    [] site # aim /\ site = "chat" -> aim = "home" \/ (aim = "admin" /\ SentTo("admin") = "chat")
    [] site # aim /\ site = "login" ->
         \/ SentTo("chat") = "login" /\ aim # "admin"
         \/ aim = "admin" /\ SentTo("admin") = "login"
         \/ aim = "admin" /\ SentTo("admin") = "chat" /\ SentTo("chat") = "login"
    [] OTHER -> FALSE

GuardInv ==
  /\ site \in Sites /\ aim \in Sites /\ served \in BOOLEAN
  /\ hops \in 0..2 /\ hops <= HopsBefore(site)
  /\ ~meanwhile => SentThere
  /\ served /\ ~meanwhile /\ aim # "login" => viewer = getCurrentUser /\ SentTo(site) = Stays
  /\ aim = "login" => site = "login"
  /\ ~served => viewer = {}
  /\ apiReply # NoReply =>
       /\ served /\ site \in {"chat", "admin"} /\ apiReply = toAuthErrorResponse(StatusOf(site))

\* Who a request is from, and so where it is sent and what it is answered, is a matter of what it
\* brings and of what the process has.
LEMMA SameAnswers ==
  ASSUME UNCHANGED who
  PROVE  /\ getCurrentUser' = getCurrentUser /\ getRequestUser' = getRequestUser
         /\ \A here \in Sites : SentTo(here)' = SentTo(here)
         /\ \A here \in Sites : toAuthErrorResponse(StatusOf(here))' = toAuthErrorResponse(StatusOf(here))
<1>1. /\ readHeaderSession' = readHeaderSession /\ decodeCookiePayload' = decodeCookiePayload
      /\ isHeaderAuthEnabled' = isHeaderAuthEnabled /\ isMockFallbackEnabled' = isMockFallbackEnabled
  BY DEF who, readHeaderSession, decodeCookiePayload, isHeaderAuthEnabled, isMockFallbackEnabled
<1>2. readDefaultMockSession' = readDefaultMockSession
  BY <1>1 DEF who, readDefaultMockSession, fromUserReadModel
<1>3. getCurrentUser' = getCurrentUser /\ getRequestUser' = getRequestUser
  BY <1>1, <1>2 DEF getCurrentUser, getRequestUser
<1>4. \A here \in Sites : SentTo(here)' = SentTo(here)
  BY <1>3 DEF SentTo, requireOrgScope, requireTenantScope, requireSignedIn, requireAdmin, Lacks, OfAdmin
<1>5. \A here \in Sites : StatusOf(here)' = StatusOf(here)
  BY <1>3 DEF StatusOf, requireOrgScopeApi, requireTenantScopeApi, requireSignedInApi, requireAdminApi, Lacks, OfAdmin
<1> QED
  BY <1>3, <1>4, <1>5 DEF toAuthErrorResponse

\* Where the guards may send a request.
LEMMA WhereSent ==
  /\ SentTo("home") = "chat" /\ SentTo("login") = Stays
  /\ SentTo("chat") \in {Stays, "login"} /\ SentTo("admin") \in {Stays, "login", "chat"}
BY DEF SentTo, requireOrgScope, requireTenantScope, requireSignedIn, requireAdmin, Stays

\* A page that serves a user has an API that answers the same user.
LEMMA AnsweredWhereServed ==
  ASSUME NEW here \in {"chat", "admin"}, SentTo(here) = Stays, readHeaderSession = {}
  PROVE  toAuthErrorResponse(StatusOf(here)) = [status |-> 200, from |-> getCurrentUser]
<1>1. getRequestUser = getCurrentUser
  BY DEF getRequestUser, getCurrentUser
<1>2. StatusOf(here) = 200
  <2>1. CASE here = "chat"
    BY <1>1, <2>1 DEF SentTo, StatusOf, requireTenantScope, requireSignedIn, requireTenantScopeApi, requireSignedInApi, Stays
  <2>2. CASE here = "admin"
    BY <1>1, <2>2 DEF SentTo, StatusOf, requireOrgScope, requireTenantScope, requireSignedIn, requireAdmin,
                      requireOrgScopeApi, requireTenantScopeApi, requireSignedInApi, requireAdminApi, Stays
  <2> QED
    BY <2>1, <2>2
<1> QED
  BY <1>1, <1>2 DEF toAuthErrorResponse

\* Whoever the login page is shown to lacks something; whoever is sent to the chat is no
\* administrator; whoever has the administration is one.
LEMMA WhySent ==
  /\ SentTo("chat") = "login" => getCurrentUser = {} \/ Lacks(getCurrentUser, "tenant")
  /\ SentTo("admin") = "login" => getCurrentUser = {} \/ Lacks(getCurrentUser, "tenant") \/ Lacks(getCurrentUser, "org")
  /\ SentTo("admin") = "chat" => \E u \in getCurrentUser : u.role # "admin"
  /\ SentTo("admin") = Stays => \E u \in getCurrentUser : u.role = "admin" /\ u.tenant # Unset /\ u.org # Unset
<1> USE DEF SentTo, requireOrgScope, requireTenantScope, requireSignedIn, requireAdmin, Stays
<1>1. SentTo("chat") = "login" => getCurrentUser = {} \/ Lacks(getCurrentUser, "tenant")
  OBVIOUS
<1>2. SentTo("admin") = "login" => getCurrentUser = {} \/ Lacks(getCurrentUser, "tenant") \/ Lacks(getCurrentUser, "org")
  OBVIOUS
<1>3. SentTo("admin") = "chat" => \E u \in getCurrentUser : u.role # "admin"
  BY DEF OfAdmin
<1>4. SentTo("admin") = Stays => \E u \in getCurrentUser : u.role = "admin" /\ u.tenant # Unset /\ u.org # Unset
  BY DEF OfAdmin, Lacks
<1> QED
  BY <1>1, <1>2, <1>3, <1>4

\* Where a provider signs in for production, every user is the one of a cookie or of the gateway.
LEMMA NamedByWhatItBrings ==
  ASSUME env.mode = "oidc", env.production
  PROVE  /\ \A u \in getCurrentUser : \E c \in cookie : u = c.names
         /\ \A u \in getRequestUser : u \in gateway \/ \E c \in cookie : u = c.names
<1>1. readDefaultMockSession = {}
  BY DEF readDefaultMockSession, isMockFallbackEnabled
<1>2. \A u \in decodeCookiePayload : \E c \in cookie : u = c.names
  BY DEF decodeCookiePayload
<1>3. \A u \in readHeaderSession : u \in gateway
  BY DEF readHeaderSession
<1> QED
  BY <1>1, <1>2, <1>3 DEF getCurrentUser, getRequestUser

\* A browser at rest on the login page has been sent nowhere.
LEMMA InitGuards == GuardInit => GuardInv
BY DEF GuardInit, GuardInv, Sites, HopsBefore, SentThere

\* Every step keeps it: the redirects lead down from the administration and the front page to the chat,
\* and from the chat to the login page.
LEMMA NextGuards == GuardInv /\ [GuardNext]_guardVars => GuardInv'
<1> SUFFICES ASSUME GuardInv, [GuardNext]_guardVars PROVE GuardInv'
  OBVIOUS
<1>0. /\ site \in Sites /\ aim \in Sites /\ served \in BOOLEAN /\ hops \in 0..2 /\ hops <= HopsBefore(site)
      /\ (~meanwhile => SentThere) /\ (aim = "login" => site = "login") /\ (~served => viewer = {})
      /\ (served /\ ~meanwhile /\ aim # "login" => viewer = getCurrentUser /\ SentTo(site) = Stays)
      /\ (apiReply # NoReply => served /\ site \in {"chat", "admin"} /\ apiReply = toAuthErrorResponse(StatusOf(site)))
  BY DEF GuardInv
<1>1. CASE OpenPage
  <2>1. /\ aim' \in Sites /\ site' = aim' /\ served' = FALSE /\ hops' = 0 /\ viewer' = {} /\ apiReply' = NoReply
    BY <1>1 DEF OpenPage
  <2>2. hops' \in 0..2 /\ hops' <= HopsBefore(site')
    BY <2>1 DEF HopsBefore
  <2>3. SentThere'
    BY <2>1 DEF SentThere
  <2> QED
    BY <2>1, <2>2, <2>3 DEF GuardInv
<1>2. CASE SentOn
  <2>1. /\ UNCHANGED who /\ site' = SentTo(site) /\ hops' = hops + 1 /\ ~served /\ SentTo(site) # Stays
        /\ UNCHANGED <<aim, served, viewer, apiReply, meanwhile>>
    BY <1>2 DEF SentOn
  <2>2. /\ SentTo("chat")' = SentTo("chat") /\ SentTo("admin")' = SentTo("admin")
    BY <2>1, SameAnswers DEF Sites
  <2>3. site # "login" /\ site' \in {"chat", "login"}
    BY <1>0, <2>1, WhereSent DEF Sites
  <2>4. site = "chat" => site' = "login" /\ SentTo("chat") = "login"
    BY <2>1, WhereSent
  <2>5. site = "home" => site' = "chat"
    BY <2>1, WhereSent
  <2>6. hops' \in 0..2 /\ hops' <= HopsBefore(site')
    <3>1. CASE site = "chat"
      BY <1>0, <2>1, <2>4, <3>1 DEF HopsBefore
    <3>2. CASE site # "chat"
      <4>1. hops = 0 /\ hops' = 1
        BY <1>0, <2>1, <2>3, <3>2 DEF HopsBefore
      <4> QED
        BY <2>3, <4>1 DEF HopsBefore
    <3> QED
      BY <3>1, <3>2
  <2>7. ~meanwhile => SentThere'
    <3> SUFFICES ASSUME ~meanwhile PROVE SentThere'
      OBVIOUS
    <3>1. SentThere
      BY <1>0
    <3>2. site \in {"home", "chat", "admin"}
      BY <1>0, <2>3 DEF Sites
    <3>3. CASE site = "home"
      BY <2>1, <2>5, <3>1, <3>3 DEF SentThere
    <3>4. CASE site = "chat"
      BY <2>1, <2>2, <2>4, <3>1, <3>4 DEF SentThere
    <3>5. CASE site = "admin"
      BY <2>1, <2>2, <2>3, <3>1, <3>5 DEF SentThere
    <3> QED
      BY <3>2, <3>3, <3>4, <3>5
  <2>8. aim # "login" /\ apiReply = NoReply
    BY <1>0, <2>1, <2>3
  <2> QED
    BY <1>0, <2>1, <2>3, <2>6, <2>7, <2>8 DEF GuardInv, Sites
<1>3. CASE PageIsServed
  <2>1. /\ UNCHANGED who /\ served' = TRUE /\ viewer' = getCurrentUser /\ SentTo(site) = Stays /\ ~served
        /\ UNCHANGED <<aim, site, hops, apiReply, meanwhile>>
    BY <1>3 DEF PageIsServed
  <2>2. viewer' = getCurrentUser' /\ SentTo(site)' = Stays
    BY <1>0, <2>1, SameAnswers
  <2>3. SentThere' = SentThere
    BY <2>1, SameAnswers DEF SentThere, Sites
  <2>4. apiReply' = NoReply
    BY <1>0, <2>1
  <2> QED
    BY <1>0, <2>1, <2>2, <2>3, <2>4 DEF GuardInv
<1>4. CASE CallApi
  <2>1. /\ UNCHANGED who /\ served /\ site \in {"chat", "admin"} /\ apiReply' = toAuthErrorResponse(StatusOf(site))
        /\ UNCHANGED <<aim, site, served, hops, viewer, meanwhile>>
    BY <1>4 DEF CallApi
  <2>2. apiReply' = toAuthErrorResponse(StatusOf(site))'
    BY <1>0, <2>1, SameAnswers
  <2>3. getCurrentUser' = getCurrentUser /\ SentTo(site)' = SentTo(site)
    BY <1>0, <2>1, SameAnswers
  <2>4. SentThere' = SentThere
    BY <2>1, SameAnswers DEF SentThere, Sites
  <2> QED
    BY <1>0, <2>1, <2>2, <2>3, <2>4 DEF GuardInv
<1>5. CASE CookieChanges \/ DirectoryChanges
  BY <1>0, <1>5 DEF CookieChanges, DirectoryChanges, Swap, GuardInv
<1>6. CASE UNCHANGED guardVars
  <2>1. UNCHANGED who /\ UNCHANGED <<aim, site, served, hops, viewer, apiReply, meanwhile>>
    BY <1>6 DEF guardVars
  <2>2. getCurrentUser' = getCurrentUser /\ SentTo(site)' = SentTo(site)
        /\ toAuthErrorResponse(StatusOf(site))' = toAuthErrorResponse(StatusOf(site))
    BY <1>0, <2>1, SameAnswers
  <2>3. SentThere' = SentThere
    BY <2>1, SameAnswers DEF SentThere, Sites
  <2> QED
    BY <1>0, <2>1, <2>2, <2>3 DEF GuardInv
<1> QED
  BY <1>1, <1>2, <1>3, <1>4, <1>5, <1>6 DEF GuardNext

\* What the invariant says of the way here, the guards make true of the user.
LEMMA GuardInvIsTrue == GuardInv => VisitsAreTrue
<1> SUFFICES ASSUME GuardInv PROVE VisitsAreTrue
  OBVIOUS
<1>0. /\ site \in Sites /\ aim \in Sites /\ served \in BOOLEAN /\ hops \in 0..2
      /\ (~meanwhile => SentThere) /\ (aim = "login" => site = "login") /\ (~served => viewer = {})
      /\ (served /\ ~meanwhile /\ aim # "login" => viewer = getCurrentUser /\ SentTo(site) = Stays)
      /\ (apiReply # NoReply => served /\ site \in {"chat", "admin"} /\ apiReply = toAuthErrorResponse(StatusOf(site)))
  BY DEF GuardInv
<1>1. RedirectsEnd
  BY <1>0 DEF RedirectsEnd
<1>2. PageAndApiAgree
  <2> SUFFICES ASSUME apiReply # NoReply, ~meanwhile, readHeaderSession = {}
               PROVE  apiReply = [status |-> 200, from |-> viewer]
    BY DEF PageAndApiAgree
  <2>1. site \in {"chat", "admin"} /\ served /\ aim # "login" /\ apiReply = toAuthErrorResponse(StatusOf(site))
    BY <1>0
  <2>2. viewer = getCurrentUser /\ SentTo(site) = Stays
    BY <1>0, <2>1
  <2> QED
    BY <2>1, <2>2, AnsweredWhereServed
<1>3. SentWhereDue
  <2> SUFFICES ASSUME served, ~meanwhile
               PROVE  /\ site = "login" /\ aim # "login" =>
                           viewer = {} \/ Lacks(viewer, "tenant") \/ (aim = "admin" /\ Lacks(viewer, "org"))
                      /\ site = "chat" /\ aim = "admin" => \E u \in viewer : u.role # "admin"
                      /\ site = "admin" => \E u \in viewer : u.role = "admin" /\ u.tenant # Unset /\ u.org # Unset
    BY DEF SentWhereDue
  <2>1. SentThere
    BY <1>0
  <2>2. aim # "login" => viewer = getCurrentUser /\ SentTo(site) = Stays
    BY <1>0
  <2>3. ASSUME site = "login", aim # "login"
        PROVE  viewer = {} \/ Lacks(viewer, "tenant") \/ (aim = "admin" /\ Lacks(viewer, "org"))
    BY <2>1, <2>2, <2>3, WhySent DEF SentThere
  <2>4. ASSUME site = "chat", aim = "admin" PROVE \E u \in viewer : u.role # "admin"
    BY <2>1, <2>2, <2>4, WhySent DEF SentThere
  <2>5. ASSUME site = "admin" PROVE \E u \in viewer : u.role = "admin" /\ u.tenant # Unset /\ u.org # Unset
    BY <1>0, <2>2, <2>5, WhySent
  <2> QED
    BY <2>3, <2>4, <2>5
<1>4. NobodyIsMadeUp
  <2> SUFFICES ASSUME env.mode = "oidc", env.production
               PROVE  /\ ~meanwhile /\ site # "login" => \A u \in viewer : \E c \in cookie : u = c.names
                      /\ \A u \in apiReply.from : u \in gateway \/ \E c \in cookie : u = c.names
    BY DEF NobodyIsMadeUp
  <2>1. apiReply.from \subseteq getRequestUser
    BY <1>0 DEF toAuthErrorResponse, NoReply
  <2>2. ~meanwhile /\ site # "login" => viewer \in {{}, getCurrentUser}
    BY <1>0
  <2> QED
    BY <2>1, <2>2, NamedByWhatItBrings
<1> QED
  BY <1>1, <1>2, <1>3, <1>4 DEF VisitsAreTrue

\* Whatever a request brings and whatever changes under way: the redirects end, a page and the
\* APIs it calls know the same user, nobody is sent elsewhere than need be, and a production
\* server with a real provider makes nobody up.
THEOREM VisitsAreAlwaysTrue == GuardSpec => []VisitsAreTrue
<1>1. GuardInit => GuardInv
  BY InitGuards
<1>2. GuardInv /\ [GuardNext]_guardVars => GuardInv'
  BY NextGuards
<1>3. GuardInv => VisitsAreTrue
  BY GuardInvIsTrue
<1> QED
  BY <1>1, <1>2, <1>3, PTL DEF GuardSpec

\* What a page may see of the process, the repository, the headers and the cookie.
GuardSurroundings ==
  /\ env \in Environments /\ directory \in Directories
  /\ gateway \subseteq Bearers /\ AtMostOne(gateway)
  /\ cookie \subseteq [form : CookieForms, names : Bearers] /\ AtMostOne(cookie)

\* Whoever a request is from is somebody.
LEMMA RequestsAreOfSomebody ==
  ASSUME GuardSurroundings
  PROVE  getCurrentUser \subseteq Identity /\ getRequestUser \subseteq Identity
<1>1. readHeaderSession \subseteq Identity
  BY GuardAssumption DEF GuardSurroundings, readHeaderSession
<1>2. decodeCookiePayload \subseteq Identity
  BY GuardAssumption DEF GuardSurroundings, decodeCookiePayload
<1>3. readDefaultMockSession \subseteq Identity
  <2>1. env.user \in People /\ env.role \in Roles \cup {Unset}
    BY GuardAssumption DEF GuardSurroundings, Environment
  <2>2. \A p \in People : directory[p] \in {Unknown} \cup Stored
    BY GuardAssumption DEF GuardSurroundings
  <2>3. Unknown.role = Unset
    BY DEF Unknown
  <2>4. ASSUME NEW p \in People, directory[p].role = env.role, env.role # Unset
        PROVE  fromUserReadModel(p) \in Identity
    <3>1. directory[p] \in Stored
      BY <2>2, <2>3, <2>4
    <3> QED
      BY <3>1 DEF Stored, Identity, fromUserReadModel
  <2>5. env.role # Unset =>
          [user |-> env.user, role |-> env.role, tenant |-> DefaultTenant, org |-> DefaultTenant] \in Identity
    BY <2>1 DEF Identity, Tenants
  <2> DEFINE holders == {p \in People : directory[p].role = env.role}
  <2>6. env.role # Unset => \A p \in holders : fromUserReadModel(p) \in Identity
    BY <2>4
  <2>7. holders # {} => (CHOOSE p \in holders : TRUE) \in holders
    OBVIOUS
  <2>8. readDefaultMockSession =
          IF ~isMockFallbackEnabled \/ env.role = Unset THEN {}
          ELSE IF env.user \in holders THEN {fromUserReadModel(env.user)}
          ELSE IF holders # {} THEN {fromUserReadModel(CHOOSE p \in holders : TRUE)}
          ELSE {[user |-> env.user, role |-> env.role, tenant |-> DefaultTenant, org |-> DefaultTenant]}
    BY DEF readDefaultMockSession
  <2> HIDE DEF holders
  <2> QED
    BY <2>5, <2>6, <2>7, <2>8
<1> QED
  BY <1>1, <1>2, <1>3 DEF getCurrentUser, getRequestUser

\* The types, and what they rest on.
GuardTyped ==
  /\ GuardSurroundings
  /\ viewer \subseteq Identity /\ apiReply.status \in {0, 200, 401, 403} /\ apiReply.from \subseteq Identity
  /\ meanwhile \in BOOLEAN /\ swaps \in 0..MaxSwaps

\* With what the invariant says of the page they are the types.
LEMMA GuardsTyped == GuardInv /\ GuardTyped => GuardTypeOK
<1> SUFFICES ASSUME GuardInv, GuardTyped PROVE GuardTypeOK
  OBVIOUS
<1>1. Cardinality(gateway) <= 1 /\ Cardinality(cookie) <= 1
  BY OneAtMost DEF GuardTyped, GuardSurroundings
<1>2. aim \in Sites /\ site \in Sites /\ served \in BOOLEAN /\ hops \in Nat
  BY DEF GuardInv
<1> QED
  BY <1>1, <1>2 DEF GuardTyped, GuardSurroundings, GuardTypeOK

\* At first.
LEMMA InitGuardTyped == GuardInit => GuardTyped
<1> SUFFICES ASSUME GuardInit PROVE GuardTyped
  OBVIOUS
<1>1. AtMostOne(gateway) /\ gateway \subseteq Bearers
  BY DEF GuardInit, AtMostOne
<1>2. AtMostOne(cookie) /\ cookie \subseteq [form : CookieForms, names : Bearers]
  <2>1. CASE cookie = {}
    BY <2>1 DEF AtMostOne
  <2>2. CASE cookie # {}
    <3>1. PICK f \in CookieForms, b \in Bearers : cookie = {[form |-> f, names |-> b]}
      BY <2>2 DEF GuardInit
    <3> QED
      BY <3>1 DEF AtMostOne
  <2> QED
    BY <2>1, <2>2
<1>3. viewer = {} /\ apiReply.status = 0 /\ apiReply.from = {} /\ swaps = 0 /\ meanwhile = FALSE
  BY DEF GuardInit, NoReply
<1>4. 0 \in 0..MaxSwaps
  BY GuardAssumption
<1> QED
  <2>1. env \in Environments /\ directory \in Directories
    BY DEF GuardInit
  <2>2. GuardSurroundings
    BY <1>1, <1>2, <2>1 DEF GuardSurroundings
  <2>3. viewer \subseteq Identity /\ apiReply.from \subseteq Identity
    BY <1>3
  <2> QED
    BY <1>3, <1>4, <2>2, <2>3 DEF GuardTyped

\* And after every step.
LEMMA NextGuardTyped == GuardTyped /\ [GuardNext]_guardVars => GuardTyped'
<1> SUFFICES ASSUME GuardTyped, [GuardNext]_guardVars PROVE GuardTyped'
  OBVIOUS
<1>1. getCurrentUser \subseteq Identity /\ getRequestUser \subseteq Identity
  BY RequestsAreOfSomebody DEF GuardTyped
<1>2. NoReply.status = 0 /\ NoReply.from = {}
  BY DEF NoReply
<1>3. CASE OpenPage
  BY <1>2, <1>3 DEF OpenPage, GuardTyped, GuardSurroundings, who
<1>4. CASE SentOn
  BY <1>4 DEF SentOn, GuardTyped, GuardSurroundings, who
<1>5. CASE PageIsServed
  BY <1>1, <1>5 DEF PageIsServed, GuardTyped, GuardSurroundings, who
<1>6. CASE CallApi
  <2>1. StatusOf(site) \in {200, 401, 403}
    BY DEF StatusOf, requireAdminApi, requireSignedInApi, requireTenantScopeApi, requireOrgScopeApi
  <2>2. apiReply'.status \in {200, 401, 403} /\ apiReply'.from \subseteq Identity
    BY <1>1, <1>6, <2>1 DEF CallApi, toAuthErrorResponse
  <2> QED
    BY <1>6, <2>2 DEF CallApi, GuardTyped, GuardSurroundings, who
<1>7. Swap => /\ viewer' = viewer /\ env' = env /\ gateway' = gateway /\ meanwhile' = TRUE
              /\ swaps' \in 0..MaxSwaps /\ apiReply'.status = 0 /\ apiReply'.from = {}
  BY <1>2, GuardAssumption DEF Swap, GuardTyped
<1>8. CASE CookieChanges
  <2>1. cookie' = {} \/ \E b \in Bearers : cookie' = {[form |-> "signed", names |-> b]}
    BY <1>8 DEF CookieChanges
  <2>2. AtMostOne(cookie') /\ cookie' \subseteq [form : CookieForms, names : Bearers]
    BY <2>1 DEF AtMostOne, CookieForms
  <2> QED
    BY <1>7, <1>8, <2>2 DEF CookieChanges, GuardTyped, GuardSurroundings
<1>9. CASE DirectoryChanges
  BY <1>7, <1>9 DEF DirectoryChanges, GuardTyped, GuardSurroundings
<1>10. CASE UNCHANGED guardVars
  BY <1>10 DEF guardVars, who, GuardTyped, GuardSurroundings
<1> QED
  BY <1>3, <1>4, <1>5, <1>6, <1>8, <1>9, <1>10 DEF GuardNext

\* Type correctness of the guards, for any users, settings of the process, repositories,
\* headers and cookies (module RequestGuards): whoever a page is served to is somebody the
\* cookie, the repository or the process names.
THEOREM GuardTypesAreKept == GuardSpec => []GuardTypeOK
<1>1. GuardInit => GuardInv /\ GuardTyped
  BY InitGuards, InitGuardTyped
<1>2. GuardInv /\ GuardTyped /\ [GuardNext]_guardVars => GuardInv' /\ GuardTyped'
  BY NextGuards, NextGuardTyped
<1>3. GuardInv /\ GuardTyped => GuardTypeOK
  BY GuardsTyped
<1> QED
  BY <1>1, <1>2, <1>3, PTL DEF GuardSpec

\* Of the sign-ins and the visits together.
THEOREM AccessIsAlwaysTrue == LoginSpec /\ GuardSpec => []AccessIsTrue
<1>1. SignInsAreTrue /\ VisitsAreTrue => AccessIsTrue
  BY DEF AccessIsTrue
<1> QED
  BY <1>1, SignInsStayTrue, VisitsAreAlwaysTrue, PTL

-----------------------------------------------------------------------------
(* The files of the platform state *)

InCall(p) == at[p] \in {"looked", "read", "opened"}

\* The types, with the sets of at most one element written out.
Shapes ==
  /\ backend \in Backends
  /\ file = {} \/ \E S \in Content : file = {S}
  /\ torn \in BOOLEAN /\ clashed \in BOOLEAN /\ acked \in Content
  /\ at \in [Servers -> {"idle", "looked", "read", "opened", "dead"}]
  /\ got \in [Servers -> Content] /\ doing \in [Servers -> Content]
  /\ \A p \in Servers : doing[p] = {} \/ \E m \in Changes : doing[p] = {m}
  /\ lockedBy = {} \/ \E p \in Servers : lockedBy = {p}

\* What each backend does not use, and whom the lock of SQLite belongs to.
Lanes ==
  /\ backend = "sqlite" =>
       /\ ~torn
       /\ \A p \in Servers : at[p] # "opened" /\ (at[p] = "read" <=> p \in lockedBy)
  /\ backend = "json" => lockedBy = {}

\* One call at a time in the JSON file, unless it clashed.
Alone == backend = "json" /\ ~clashed => \A p, q \in Servers : InCall(p) /\ InCall(q) => p = q

\* A call that will write works on everything acknowledged: on nothing, if it found no file.
GotIsCurrent ==
  ~clashed => \A p \in Servers :
    /\ at[p] \in {"read", "opened"} => acked \subseteq got[p]
    /\ backend = "json" /\ at[p] = "looked" => acked = {}

Kept == Lanes /\ Alone /\ GotIsCurrent /\ AcknowledgedStays

FilesInv == Shapes /\ Kept

-----------------------------------------------------------------------------
\* The shapes are what the type invariant says.
LEMMA ShapesAreTypes == Shapes => FilesTypeOK
<1> SUFFICES ASSUME Shapes PROVE FilesTypeOK
  OBVIOUS
<1>1. ASSUME NEW S, S = {} \/ \E x : S = {x} PROVE Cardinality(S) <= 1
  <2>1. CASE S = {}
    BY <2>1, FS_EmptySet
  <2>2. ASSUME NEW x, S = {x} PROVE Cardinality(S) <= 1
    <3>1. Cardinality({x}) = 1
      BY FS_Singleton
    <3> QED
      BY <2>2, <3>1
  <2> QED
    BY <1>1, <2>1, <2>2
<1>2. Cardinality(file) <= 1 /\ Cardinality(lockedBy) <= 1
  <2>1. file = {} \/ \E S : file = {S}
    BY DEF Shapes
  <2>2. lockedBy = {} \/ \E p : lockedBy = {p}
    BY DEF Shapes
  <2> QED
    BY <1>1, <2>1, <2>2
<1>3. ASSUME NEW p \in Servers PROVE Cardinality(doing[p]) <= 1
  <2>1. doing[p] = {} \/ \E m : doing[p] = {m}
    BY DEF Shapes
  <2> QED
    BY <1>1, <2>1
<1>4. doing \in [Servers -> {S \in Content : Cardinality(S) <= 1}]
  BY <1>3 DEF Shapes
<1> QED
  BY <1>2, <1>4 DEF Shapes, FilesTypeOK, Content

\* At first nothing is acknowledged.
LEMMA InitFiles == FilesInit => FilesInv
BY DEF FilesInit, FilesInv, Shapes, Kept, Lanes, Alone, GotIsCurrent, AcknowledgedStays, InCall, Content, SeedState, Found

\* A step keeps the shapes.
LEMMA NextShapes == Shapes /\ FilesNext => Shapes'
<1> SUFFICES ASSUME Shapes, NEW p \in Servers,
                    \/ \E m \in Changes : JsonRead(p, m) \/ JsonMisses(p, {m}) \/ SqliteBegin(p, m)
                    \/ JsonMisses(p, {})
                    \/ JsonSeed(p) \/ JsonOpen(p) \/ JsonWrite(p) \/ JsonWriteFails(p)
                    \/ SqliteCommit(p) \/ SqliteRollback(p) \/ SqliteMisses(p) \/ SqliteSeed(p) \/ SqliteSeedBusy(p)
                    \/ Die(p) \/ Restart(p)
             PROVE  Shapes'
  BY DEF FilesNext
<1> USE DEF Shapes, Content, Step, SeedState
<1>0. Found \in Content
  BY DEF Found
<1>1. ASSUME NEW m \in Changes, JsonRead(p, m) PROVE Shapes'
  BY <1>0, <1>1 DEF JsonRead, Overlaps
<1>2. ASSUME NEW S \in SUBSET Changes, S = {} \/ (\E m \in Changes : S = {m}), JsonMisses(p, S) PROVE Shapes'
  BY <1>2 DEF JsonMisses, Overlaps
<1>3. ASSUME NEW m \in Changes, SqliteBegin(p, m) PROVE Shapes'
  BY <1>0, <1>3 DEF SqliteBegin
<1>4. CASE JsonSeed(p) \/ JsonOpen(p) \/ JsonWriteFails(p)
  BY <1>4 DEF JsonSeed, JsonOpen, JsonWriteFails
<1>5. CASE JsonWrite(p) \/ SqliteCommit(p)
  <2>1. got[p] \cup doing[p] \in Content /\ acked \cup doing[p] \in Content
    OBVIOUS
  <2>2. file' = {got[p] \cup doing[p]} /\ acked' \in Content
    BY <1>5, <2>1 DEF JsonWrite, SqliteCommit
  <2>3. doing' \in [Servers -> Content] /\ \A q \in Servers : doing'[q] = {} \/ doing'[q] = doing[q]
    BY <1>5 DEF JsonWrite, SqliteCommit
  <2>4. torn' \in BOOLEAN /\ at' \in [Servers -> {"idle", "looked", "read", "opened", "dead"}]
        /\ UNCHANGED <<backend, got, clashed>>
    BY <1>5 DEF JsonWrite, SqliteCommit
  <2>5. lockedBy' = lockedBy \/ lockedBy' = lockedBy \ {p}
    BY <1>5 DEF JsonWrite, SqliteCommit
  <2>6. lockedBy' = {} \/ \E q \in Servers : lockedBy' = {q}
    BY <2>5
  <2> QED
    BY <2>1, <2>2, <2>3, <2>4, <2>6
<1>6. lockedBy \ {p} = {} \/ lockedBy \ {p} = lockedBy
  OBVIOUS
<1>7. CASE SqliteRollback(p)
  BY <1>6, <1>7 DEF SqliteRollback
<1>8. CASE SqliteMisses(p) \/ SqliteSeed(p) \/ SqliteSeedBusy(p)
  BY <1>8 DEF SqliteMisses, SqliteSeed, SqliteSeedBusy
<1>9. CASE Die(p)
  BY <1>6, <1>9 DEF Die
<1>10. CASE Restart(p)
  BY <1>10 DEF Restart
<1> QED
  BY <1>1, <1>2, <1>3, <1>4, <1>5, <1>7, <1>8, <1>9, <1>10

\* A step of a process on the JSON file keeps calls apart and what is acknowledged.
LEMMA JsonStep ==
  ASSUME FilesInv, NEW p \in Servers, NEW S \in SUBSET Changes,
         (\E m \in Changes : JsonRead(p, m)) \/ JsonMisses(p, S) \/ JsonSeed(p) \/ JsonOpen(p) \/ JsonWrite(p) \/ JsonWriteFails(p)
  PROVE  Kept'
<1> USE DEF FilesInv, Shapes, Kept, Lanes, Alone, GotIsCurrent, AcknowledgedStays, InCall, Content, Step, SeedState, Overlaps
<1>1. ASSUME NEW m \in Changes, JsonRead(p, m) PROVE Kept'
  BY <1>1 DEF JsonRead, Found
<1>2. CASE JsonMisses(p, S)
  BY <1>2 DEF JsonMisses, Found
<1>3. CASE JsonSeed(p)
  BY <1>3 DEF JsonSeed, Found
<1>4. CASE JsonOpen(p)
  BY <1>4 DEF JsonOpen, Found
<1>5. CASE JsonWrite(p)
  BY <1>5 DEF JsonWrite, Found
<1>6. CASE JsonWriteFails(p)
  BY <1>6 DEF JsonWriteFails, Found
<1> QED
  BY <1>1, <1>2, <1>3, <1>4, <1>5, <1>6

\* So does a step on the SQLite row, where the lock keeps the calls apart.
LEMMA SqliteStep ==
  ASSUME FilesInv, NEW p \in Servers,
         (\E m \in Changes : SqliteBegin(p, m)) \/ SqliteCommit(p) \/ SqliteRollback(p)
         \/ SqliteMisses(p) \/ SqliteSeed(p) \/ SqliteSeedBusy(p)
  PROVE  Kept'
<1> USE DEF FilesInv, Shapes, Kept, Lanes, Alone, GotIsCurrent, AcknowledgedStays, InCall, Content, Step, SeedState
<1>1. ASSUME NEW m \in Changes, SqliteBegin(p, m) PROVE Kept'
  BY <1>1 DEF SqliteBegin, Found
<1>2. CASE SqliteCommit(p)
  BY <1>2 DEF SqliteCommit, Found
<1>3. CASE SqliteRollback(p)
  BY <1>3 DEF SqliteRollback, Found
<1>4. CASE SqliteMisses(p)
  BY <1>4 DEF SqliteMisses, Found
<1>5. CASE SqliteSeed(p)
  BY <1>5 DEF SqliteSeed, Found
<1>6. CASE SqliteSeedBusy(p)
  BY <1>6 DEF SqliteSeedBusy, Found
<1> QED
  BY <1>1, <1>2, <1>3, <1>4, <1>5, <1>6

\* A process that dies leaves its lock and, in the middle of a write, a torn file.
LEMMA LifeStep ==
  ASSUME FilesInv, NEW p \in Servers, Die(p) \/ Restart(p)
  PROVE  Kept'
<1> USE DEF FilesInv, Shapes, Kept, Lanes, Alone, GotIsCurrent, AcknowledgedStays, InCall, Content, Step
<1>1. CASE Die(p)
  BY <1>1 DEF Die, Found
<1>2. CASE Restart(p)
  BY <1>2 DEF Restart, Found
<1> QED
  BY <1>1, <1>2

\* The invariant of both backends.
THEOREM FilesInvariant == FilesSpec => []FilesInv
<1>1. FilesInit => FilesInv
  BY InitFiles
<1>2. FilesInv /\ [FilesNext]_filesVars => FilesInv'
  <2> SUFFICES ASSUME FilesInv, [FilesNext]_filesVars PROVE FilesInv'
    OBVIOUS
  <2>1. CASE FilesNext
    <3>1. Shapes'
      BY <2>1, NextShapes DEF FilesInv
    <3>2. PICK p \in Servers :
            \/ \E m \in Changes : JsonRead(p, m) \/ JsonMisses(p, {m}) \/ SqliteBegin(p, m)
            \/ JsonMisses(p, {})
            \/ JsonSeed(p) \/ JsonOpen(p) \/ JsonWrite(p) \/ JsonWriteFails(p)
            \/ SqliteCommit(p) \/ SqliteRollback(p) \/ SqliteMisses(p) \/ SqliteSeed(p) \/ SqliteSeedBusy(p)
            \/ Die(p) \/ Restart(p)
      BY <2>1 DEF FilesNext
    <3>3. ASSUME NEW S \in SUBSET Changes, JsonMisses(p, S) PROVE Kept'
      BY <3>3, JsonStep
    <3>4. ASSUME (\E m \in Changes : JsonRead(p, m)) \/ JsonSeed(p) \/ JsonOpen(p) \/ JsonWrite(p) \/ JsonWriteFails(p)
          PROVE  Kept'
      <4>1. {} \in SUBSET Changes
        OBVIOUS
      <4> QED
        BY <3>4, <4>1, JsonStep
    <3>5. ASSUME (\E m \in Changes : SqliteBegin(p, m)) \/ SqliteCommit(p) \/ SqliteRollback(p)
                 \/ SqliteMisses(p) \/ SqliteSeed(p) \/ SqliteSeedBusy(p)
          PROVE  Kept'
      BY <3>5, SqliteStep
    <3>6. ASSUME Die(p) \/ Restart(p) PROVE Kept'
      BY <3>6, LifeStep
    <3>7. {} \in SUBSET Changes /\ \A m \in Changes : {m} \in SUBSET Changes
      OBVIOUS
    <3> QED
      BY <3>1, <3>2, <3>3, <3>4, <3>5, <3>6, <3>7 DEF FilesInv
  <2>2. CASE UNCHANGED filesVars
    BY <2>2 DEF FilesInv, Shapes, Kept, Lanes, Alone, GotIsCurrent, AcknowledgedStays, InCall, Found, filesVars
  <2> QED
    BY <2>1, <2>2
<1> QED
  BY <1>1, <1>2, PTL DEF FilesSpec

\* The variables of the file-based storages stay what they should be.
THEOREM FilesTypeCorrect == FilesSpec => []FilesTypeOK
<1>1. FilesInv => FilesTypeOK
  BY ShapesAreTypes DEF FilesInv
<1> QED
  BY <1>1, FilesInvariant, PTL

\* An update that has returned is in the state for good, unless what the files cannot stand
\* has happened: calls of two processes on the JSON file at once, a failed or torn write of it, or
\* a first read that seeds a row of SQLite over one that is there.
THEOREM AcknowledgedIsKept == FilesSpec => []AcknowledgedStays
BY FilesInvariant, PTL DEF FilesInv, Kept

-----------------------------------------------------------------------------
(* The collection of the vector index *)

\* What a call is about to fail of has its cause before it fails: the use of a collection that
\* is gone, and the creation of one that is there.
DoomHasCause ==
  \A c \in Callers :
    (phase[c] = "using" /\ ~exists) \/ (phase[c] = "missing" /\ exists) => cause[c] # {}

CauseInv == CollectionTypeOK /\ DoomHasCause /\ CollectionFailureHasCause

-----------------------------------------------------------------------------
\* Before the first call nothing has failed.
LEMMA InitCause == CollectionInit => CauseInv
BY CollectionBounds DEF CollectionInit, CauseInv, CollectionTypeOK, DoomHasCause, CollectionFailureHasCause, Phases

\* A step keeps the types.
LEMMA NextTypes == CollectionTypeOK /\ CollectionNext => CollectionTypeOK'
<1> SUFFICES ASSUME CollectionTypeOK, CollectionNext PROVE CollectionTypeOK'
  OBVIOUS
<1> USE HomeAssumption, CollectionBounds DEF CollectionTypeOK, Phases, Phase, Explain, SetReady, Busy
<1>1. ASSUME NEW c \in Callers, BeginCall(c) PROVE CollectionTypeOK'
  BY <1>1 DEF BeginCall
<1>2. ASSUME NEW c \in Callers, AskCollection(c) PROVE CollectionTypeOK'
  BY <1>2 DEF AskCollection
<1>3. ASSUME NEW c \in Callers, CreateCollection(c) \/ CreationUnanswered(c) PROVE CollectionTypeOK'
  <2>1. CASE CreateCollection(c)
    BY <2>1 DEF CreateCollection
  <2>2. CASE CreationUnanswered(c)
    BY <2>2 DEF CreationUnanswered
  <2>. QED  BY <1>3, <2>1, <2>2
<1>4. ASSUME NEW c \in Callers, CreationRefused(c) \/ UseCollection(c) \/ UseFails(c) PROVE CollectionTypeOK'
  BY <1>4 DEF CreationRefused, UseCollection, UseFails
<1>5. ASSUME NEW c \in Callers, QdrantDown(c) PROVE CollectionTypeOK'
  BY <1>5 DEF QdrantDown
<1>6. CASE DeleteCollection
  <2>1. cause' \in [Callers -> SUBSET {"deleted", "created", "down"}]
    BY <1>6 DEF DeleteCollection
  <2>2. exists' = FALSE /\ deletes' \in 0..MaxDeletes /\ UNCHANGED <<ready, phase, downs>>
    BY <1>6 DEF DeleteCollection
  <2> QED
    BY <2>1, <2>2
<1>7. ASSUME NEW p \in Processes, ProcessRestarts(p) PROVE CollectionTypeOK'
  BY <1>7 DEF ProcessRestarts
<1> QED
  BY <1>1, <1>2, <1>3, <1>4, <1>5, <1>6, <1>7 DEF CollectionNext

\* A step leaves no call without the cause of its failure, the failures to come included.
LEMMA NextCause == CauseInv /\ CollectionNext => (DoomHasCause /\ CollectionFailureHasCause)'
<1> SUFFICES ASSUME CauseInv, CollectionNext PROVE (DoomHasCause /\ CollectionFailureHasCause)'
  OBVIOUS
<1> USE HomeAssumption DEF CauseInv, CollectionTypeOK, Phases, DoomHasCause, CollectionFailureHasCause, Phase, Explain, SetReady, Busy
<1>1. ASSUME NEW c \in Callers, BeginCall(c) PROVE (DoomHasCause /\ CollectionFailureHasCause)'
  BY <1>1 DEF BeginCall
<1>2. ASSUME NEW c \in Callers, AskCollection(c) PROVE (DoomHasCause /\ CollectionFailureHasCause)'
  BY <1>2 DEF AskCollection
<1>3. ASSUME NEW c \in Callers, CreateCollection(c) \/ CreationUnanswered(c)
      PROVE  (DoomHasCause /\ CollectionFailureHasCause)'
  BY <1>3 DEF CreateCollection, CreationUnanswered
<1>4. ASSUME NEW c \in Callers, CreationRefused(c) \/ UseCollection(c) \/ UseFails(c)
      PROVE  (DoomHasCause /\ CollectionFailureHasCause)'
  BY <1>4 DEF CreationRefused, UseCollection, UseFails
<1>5. ASSUME NEW c \in Callers, QdrantDown(c) PROVE (DoomHasCause /\ CollectionFailureHasCause)'
  BY <1>5 DEF QdrantDown
<1>6. CASE DeleteCollection
  BY <1>6 DEF DeleteCollection
<1>7. ASSUME NEW p \in Processes, ProcessRestarts(p) PROVE (DoomHasCause /\ CollectionFailureHasCause)'
  BY <1>7 DEF ProcessRestarts
<1> QED
  BY <1>1, <1>2, <1>3, <1>4, <1>5, <1>6, <1>7 DEF CollectionNext

\* The invariant holds from the first call on, whatever the processes, an operator and Qdrant do.
THEOREM CauseIsInvariant == CollectionSpec => []CauseInv
<1>1. CollectionInit => CauseInv
  BY InitCause
<1>2. CauseInv /\ [CollectionNext]_collectionVars => CauseInv'
  <2>1. CASE CollectionNext
    BY <2>1, NextTypes, NextCause DEF CauseInv
  <2>2. CASE UNCHANGED collectionVars
    BY <2>2 DEF CauseInv, CollectionTypeOK, DoomHasCause, CollectionFailureHasCause, collectionVars
  <2> QED
    BY <2>1, <2>2
<1> QED
  BY <1>1, <1>2, PTL DEF CollectionSpec

\* A call of the index provider fails only for an outage, a deletion it could not know of, or a
\* creation it lost against another call.
THEOREM FailuresHaveCauses == CollectionSpec => []CollectionFailureHasCause
BY CauseIsInvariant, PTL DEF CauseInv

-----------------------------------------------------------------------------
(* The administration pages *)

\* The newest list the page has asked for is not older than the newest change it was told
\* of; where none is under way, the list it shows is not, unless asking for it failed.
NewestIsFresh ==
  ~overtaken =>
    /\ fetches # <<>> => fetches[Len(fetches)].at \in {-1} \cup confirmed..writes
    /\ fetches = <<>> /\ listState = "success" => confirmed <= itemsAt

\* Every entry has an id that was made up; nothing was answered before it was made.
NothingAhead ==
  /\ \A e \in entries : e.id \in minted
  /\ \A s \in saves : s.at <= writes
  /\ \A i \in DOMAIN fetches : fetches[i].at <= writes

AdminInv == AdminTypeOK /\ NothingAhead /\ NewestIsFresh

\* Before anything was asked for but the first list.
LEMMA InitAdminInv == AdminInit => AdminInv
<1> SUFFICES ASSUME AdminInit PROVE AdminInv
  OBVIOUS
<1>1. Asking(0) \in Fetch
  BY AdminBounds DEF Asking, Fetch
<1>2. fetches \in Seq(Fetch) /\ Len(fetches) = 1 /\ fetches[1] = Asking(0) /\ DOMAIN fetches = {1}
  BY <1>1 DEF AdminInit
<1>3. page \in Kinds /\ MaxWrites[page] \in Nat
  BY AdminBounds, PagesAssumption DEF AdminInit
<1>4. AdminTypeOK
  <2>1. page \in Pages /\ writes \in 0..MaxWrites[page] /\ itemsAt \in 0..writes /\ confirmed \in 0..writes /\ asks \in 0..MaxRequests
    BY <1>3, AdminBounds DEF AdminInit
  <2>2. /\ entries \subseteq Entry /\ items \subseteq Entry /\ minted \subseteq Ids /\ saves \subseteq Save
        /\ \A e, f \in entries : e.id = f.id /\ (e.scope = f.scope \/ page = "users") => e = f
    BY DEF AdminInit
  <2>3. listState \in {"loading", "success", "error"} /\ overtaken \in BOOLEAN
    BY DEF AdminInit
  <2> QED  BY <1>2, <2>1, <2>2, <2>3 DEF AdminTypeOK
<1>5. NothingAhead
  BY <1>2 DEF AdminInit, NothingAhead, Asking
<1>6. NewestIsFresh
  BY <1>2 DEF AdminInit, NewestIsFresh, Asking
<1> QED  BY <1>4, <1>5, <1>6 DEF AdminInv

\* The lists, as they must be kept: an id stands once in a scope, a user once in all of them.
OneEach(S) == S \subseteq Entry /\ \A e, f \in S : e.id = f.id /\ (e.scope = f.scope \/ page = "users") => e = f

\* Whatever a handler makes of the lists, they are kept so.
LEMMA HandlersKeepLists ==
  ASSUME AdminTypeOK, NothingAhead, NEW s \in Scopes, NEW S \in FormResults(s) \cup RowResults(s)
  PROVE  OneEach(S)
<1>1. entries \subseteq Entry /\ minted \subseteq Ids /\ OneEach(entries) /\ \A e \in entries : e.id \in minted
  BY DEF AdminTypeOK, NothingAhead, OneEach
<1>2. \A id \in Ids, t \in Scopes, p \in Ids \cup {NoParent} :
        /\ Made(id, t, p) \in Entry /\ Made(id, t, p).id = id /\ Made(id, t, p).scope = t
  BY DEF Made, Entry
<1>3. ASSUME NEW id \in Ids, NEW t \in Scopes PROVE OneEach(UpsertUser(id, t))
  BY <1>1, <1>2, <1>3 DEF OneEach, UpsertUser
<1>4. ASSUME NEW id \in Ids, page # "users" PROVE OneEach(UpsertScoped(id, s))
  BY <1>1, <1>2, <1>4 DEF OneEach, UpsertScoped, InScope
<1>5. ASSUME NEW id \in Ids \ minted, NEW p \in Ids \cup {NoParent} PROVE OneEach(CreateEntry(id, s, p))
  BY <1>1, <1>2, <1>5 DEF OneEach, CreateEntry
<1>6. ASSUME NEW id \in Ids, NEW p \in Ids \cup {NoParent}, page # "users" PROVE OneEach(UpdateIntent(id, s, p))
  <2> DEFINE new(e) == IF e.id = id /\ e.scope = s THEN Made(id, s, p) ELSE e
  <2>1. \A e \in entries : new(e) \in Entry /\ new(e).id = e.id /\ new(e).scope = e.scope
    BY <1>1, <1>2
  <2>2. UpdateIntent(id, s, p) = {new(e) : e \in entries}
    BY DEF UpdateIntent, InScope
  <2> HIDE DEF new
  <2> QED  BY <1>1, <1>6, <2>1, <2>2 DEF OneEach
<1>7. ASSUME NEW id \in Ids PROVE OneEach(DeleteEntry(id, s))
  BY <1>1 DEF OneEach, DeleteEntry
<1>8. CASE page = "users"
  BY <1>3, <1>8 DEF FormResults, RowResults, PostUser, PutUser
<1>9. CASE page \in {"settings", "mappings", "questions"}
  BY <1>1, <1>4, <1>9 DEF FormResults, RowResults, PostSetting, PutSetting, PostMapping, PutMapping, PostQuestion, PutQuestion, Fresh
<1>10. CASE page \in {"intents", "intent tree"}
  <2>1. minted \cup {NoParent} \subseteq Ids \cup {NoParent} /\ page # "users"
    BY <1>1, <1>10
  <2>2. \A T \in PostIntent(s) : OneEach(T)
    BY <1>5, <2>1 DEF PostIntent, Fresh
  <2>3. \A T \in PutIntent(s) : OneEach(T)
    BY <1>1, <1>6, <2>1 DEF PutIntent
  <2>4. \A T \in DeleteIntent(s) : OneEach(T)
    BY <1>1, <1>7 DEF DeleteIntent
  <2>5. S \in PostIntent(s) \cup PutIntent(s) \cup DeleteIntent(s)
    BY <1>10 DEF FormResults, RowResults
  <2> QED  BY <2>2, <2>3, <2>4, <2>5
<1>11. CASE page = "knowledge"
  BY <1>1, <1>5, <1>6, <1>7, <1>11 DEF FormResults, RowResults, PostKnowledgeBase, PutKnowledgeBase, DeleteKnowledgeBase,
       RenameKnowledgeBase, Fresh
<1> QED  BY <1>8, <1>9, <1>10, <1>11 DEF FormResults, RowResults

\* A change of the lists keeps them in order, and makes nothing that was answered wrong.
LEMMA ApplyKeepsLists ==
  ASSUME AdminTypeOK, NothingAhead, NEW s \in Scopes, NEW R \in SUBSET (FormResults(s) \cup RowResults(s)), Apply(R)
  PROVE  /\ OneEach(entries') /\ minted' \subseteq Ids /\ \A e \in entries' : e.id \in minted'
         /\ writes \in Nat /\ writes' = writes + 1 /\ writes' <= MaxWrites[page] /\ MaxWrites[page] \in Nat
<1>1. OneEach(entries')
  BY HandlersKeepLists DEF Apply
<1>2. minted' \subseteq Ids /\ \A e \in entries' : e.id \in minted'
  BY <1>1 DEF Apply, AdminTypeOK, OneEach, Entry
<1>3. page \in Kinds /\ MaxWrites[page] \in Nat
  BY AdminBounds, PagesAssumption DEF AdminTypeOK
<1> QED  BY <1>1, <1>2, <1>3 DEF Apply, AdminTypeOK

\* Somebody else changes the lists.
LEMMA OthersChangeStep ==
  ASSUME AdminInv, OthersChange
  PROVE  AdminInv'
<1>1. PICK scope \in Scopes : Apply(FormResults(scope) \cup RowResults(scope))
  BY DEF OthersChange
<1>2. /\ OneEach(entries') /\ minted' \subseteq Ids /\ \A e \in entries' : e.id \in minted'
      /\ writes \in Nat /\ writes' = writes + 1 /\ writes' <= MaxWrites[page] /\ MaxWrites[page] \in Nat
  BY <1>1, ApplyKeepsLists DEF AdminInv
<1>3. UNCHANGED <<page, items, itemsAt, listState, fetches, saves, confirmed, asks, overtaken>>
  BY DEF OthersChange
<1>4. AdminTypeOK'
  BY <1>2, <1>3 DEF AdminInv, AdminTypeOK, OneEach
<1>5. NothingAhead'
  <2>1. \A s \in saves : s.at \in Nat /\ s.at <= writes
    BY DEF AdminInv, AdminTypeOK, NothingAhead, Save
  <2>2. \A i \in DOMAIN fetches : fetches[i].at \in Int /\ fetches[i].at <= writes
    <3>1. fetches \in Seq(Fetch)
      BY DEF AdminInv, AdminTypeOK
    <3>2. \A i \in DOMAIN fetches : fetches[i] \in Fetch
      BY <3>1, Elements
    <3> QED  BY <3>2 DEF AdminInv, NothingAhead, Fetch
  <2> QED  BY <1>2, <1>3, <2>1, <2>2 DEF NothingAhead
<1>6. NewestIsFresh'
  BY <1>2, <1>3 DEF AdminInv, NewestIsFresh, AdminTypeOK
<1> QED  BY <1>4, <1>5, <1>6 DEF AdminInv

\* What the invariant says of types, as the steps need it.
LEMMA AdminTypes ==
  ASSUME AdminInv
  PROVE  /\ AdminTypeOK /\ NothingAhead /\ NewestIsFresh
         /\ fetches \in Seq(Fetch) /\ Len(fetches) \in Nat /\ DOMAIN fetches = 1..Len(fetches)
         /\ fetches # <<>> => Len(fetches) \in DOMAIN fetches
         /\ \A i \in DOMAIN fetches : /\ fetches[i] \in Fetch /\ fetches[i].rows \subseteq Entry
                                      /\ fetches[i].at \in {-1} \cup Nat /\ fetches[i].at <= writes
                                      /\ fetches[i].for \in 0..MaxRequests
         /\ \A s \in saves : /\ s \in Save /\ s.n \in 1..MaxRequests /\ s.at \in Nat /\ s.at <= writes
         /\ writes \in Nat /\ itemsAt \in 0..writes /\ confirmed \in 0..writes /\ asks \in 0..MaxRequests
         /\ MaxRequests \in Nat /\ MaxWrites[page] \in Nat /\ writes <= MaxWrites[page]
<1>1. AdminTypeOK /\ NothingAhead /\ NewestIsFresh
  BY DEF AdminInv
<1>2. fetches \in Seq(Fetch)
  BY <1>1 DEF AdminTypeOK
<1>3. Len(fetches) \in Nat /\ DOMAIN fetches = 1..Len(fetches) /\ \A i \in DOMAIN fetches : fetches[i] \in Fetch
  BY <1>2, Elements
<1>4. fetches # <<>> => Len(fetches) \in DOMAIN fetches
  BY <1>2, <1>3
<1>5. \A i \in DOMAIN fetches : /\ fetches[i].rows \subseteq Entry /\ fetches[i].at \in {-1} \cup Nat
                                /\ fetches[i].at <= writes /\ fetches[i].for \in 0..MaxRequests
  BY <1>1, <1>3 DEF NothingAhead, Fetch
<1>6. \A s \in saves : s \in Save /\ s.n \in 1..MaxRequests /\ s.at \in Nat /\ s.at <= writes
  BY <1>1 DEF NothingAhead, AdminTypeOK, Save
<1>7. MaxRequests \in Nat /\ MaxWrites[page] \in Nat
  BY <1>1, AdminBounds, PagesAssumption DEF AdminTypeOK
<1> QED  BY <1>1, <1>2, <1>3, <1>4, <1>5, <1>6, <1>7 DEF AdminTypeOK

\* One list more is asked for: it is the newest, and will be served as it is then.
LEMMA ReloadAsks ==
  ASSUME AdminInv, NEW n \in 0..MaxRequests, Reload(n)
  PROVE  /\ fetches' \in Seq(Fetch) /\ fetches' # <<>> /\ fetches'[Len(fetches')].at = -1
         /\ \A i \in DOMAIN fetches' : fetches'[i].at <= writes
         /\ listState' = "loading" /\ UNCHANGED <<items, itemsAt>>
<1>1. Asking(n) \in Fetch /\ Asking(n).at = -1
  BY DEF Asking, Fetch
<1>2. fetches \in Seq(Fetch) /\ fetches' = Append(fetches, Asking(n)) /\ writes \in Nat
      /\ \A i \in DOMAIN fetches : fetches[i].at <= writes
  BY AdminTypes DEF Reload
<1>3. /\ Append(fetches, Asking(n)) \in Seq(Fetch) /\ Len(fetches) \in Nat
      /\ DOMAIN Append(fetches, Asking(n)) = 1..(Len(fetches) + 1) /\ DOMAIN fetches = 1..Len(fetches)
      /\ Append(fetches, Asking(n))[Len(fetches) + 1] = Asking(n)
      /\ \A j \in DOMAIN fetches : Append(fetches, Asking(n))[j] = fetches[j]
  BY <1>1, <1>2, Appended
<1>4. fetches' \in Seq(Fetch) /\ DOMAIN fetches' = 1..(Len(fetches) + 1) /\ fetches'[Len(fetches) + 1] = Asking(n)
      /\ \A j \in DOMAIN fetches : fetches'[j] = fetches[j]
  BY <1>2, <1>3
<1>5. Len(fetches') = Len(fetches) + 1 /\ fetches' # <<>>
  <2>1. Len(fetches') \in Nat /\ DOMAIN fetches' = 1..Len(fetches')
    BY <1>4, Elements
  <2> QED  BY <1>3, <1>4, <2>1
<1>6. ASSUME NEW i \in DOMAIN fetches' PROVE fetches'[i].at <= writes
  <2>1. CASE i = Len(fetches) + 1
    BY <1>1, <1>2, <1>4, <2>1
  <2>2. CASE i # Len(fetches) + 1
    <3>1. i \in DOMAIN fetches
      BY <1>3, <1>4, <2>2
    <3> QED  BY <1>2, <1>4, <3>1
  <2> QED  BY <2>1, <2>2
<1> QED  BY <1>1, <1>4, <1>5, <1>6 DEF Reload

\* A list is asked for by hand.
LEMMA RefreshStep ==
  ASSUME AdminInv, Refresh
  PROVE  AdminInv'
<1>1. /\ Reload(0) /\ asks' \in 0..MaxRequests /\ 0 \in 0..MaxRequests
      /\ UNCHANGED <<page, entries, minted, writes, saves, confirmed, overtaken>>
  BY AdminTypes DEF Refresh, AskMore, platform
<1>2. /\ fetches' \in Seq(Fetch) /\ fetches' # <<>> /\ fetches'[Len(fetches')].at = -1
      /\ \A i \in DOMAIN fetches' : fetches'[i].at <= writes
      /\ listState' = "loading" /\ UNCHANGED <<items, itemsAt>>
  BY <1>1, ReloadAsks
<1>3. AdminTypeOK'
  BY <1>1, <1>2, AdminTypes DEF AdminTypeOK
<1>4. NothingAhead'
  BY <1>1, <1>2, AdminTypes DEF NothingAhead
<1>5. NewestIsFresh'
  BY <1>1, <1>2 DEF NewestIsFresh
<1> QED  BY <1>3, <1>4, <1>5 DEF AdminInv

\* A form is sent.
LEMMA SaveFormStep ==
  ASSUME AdminInv, NEW form \in BOOLEAN, SaveForm(form)
  PROVE  AdminInv'
<1> DEFINE s == [n |-> asks + 1, form |-> form, state |-> "sent", at |-> 0]
<1>1. /\ saves' = saves \cup {s} /\ asks' = asks + 1 /\ asks < MaxRequests
      /\ UNCHANGED <<page, entries, minted, writes, items, itemsAt, listState, fetches, confirmed, overtaken>>
  BY DEF SaveForm, AskMore, platform
<1>2. s \in Save /\ s.at = 0 /\ asks' \in 0..MaxRequests
  BY <1>1, AdminTypes DEF Save
<1> HIDE DEF s
<1>3. saves' \subseteq Save /\ \A t \in saves' : t.at <= writes
  BY <1>1, <1>2, AdminTypes
<1>4. AdminTypeOK'
  BY <1>1, <1>2, <1>3, AdminTypes DEF AdminTypeOK
<1>5. NothingAhead' /\ NewestIsFresh'
  BY <1>1, <1>3, AdminTypes DEF NothingAhead, NewestIsFresh
<1> QED  BY <1>4, <1>5 DEF AdminInv

\* One save gets further.
LEMMA SavesBecome ==
  ASSUME AdminInv, NEW s \in saves, NEW state \in {"sent", "done", "refused", "listing"}, NEW moment \in Nat, Becomes(s, state, moment)
  PROVE  saves' \subseteq Save /\ \A t \in saves' : t \in saves \/ t.at = moment
<1> DEFINE t == [s EXCEPT !.state = state, !.at = moment]
<1>1. s \in Save
  BY AdminTypes
<1>2. t \in Save /\ t.at = moment
  BY <1>1 DEF Save
<1>3. saves' = (saves \ {s}) \cup {t}
  BY DEF Becomes
<1> HIDE DEF t
<1> QED  BY <1>2, <1>3, AdminTypes

\* The server makes the change.
LEMMA ServeSaveStep ==
  ASSUME AdminInv, NEW s \in saves, ServeSave(s)
  PROVE  AdminInv'
<1>1. PICK R \in SUBSET (FormResults(Own) \cup RowResults(Own)) : Apply(R)
  BY DEF ServeSave
<1>2. /\ OneEach(entries') /\ minted' \subseteq Ids /\ \A e \in entries' : e.id \in minted'
      /\ writes \in Nat /\ writes' = writes + 1 /\ writes' <= MaxWrites[page] /\ MaxWrites[page] \in Nat
  BY <1>1, ApplyKeepsLists, OwnAssumption, AdminTypes
<1>3. UNCHANGED <<page, items, itemsAt, listState, fetches, confirmed, asks, overtaken>>
  BY DEF ServeSave, shownPart
<1>4. saves' \subseteq Save /\ \A t \in saves' : t \in saves \/ t.at = writes + 1
  BY <1>2, SavesBecome DEF ServeSave
<1>5. AdminTypeOK'
  BY <1>2, <1>3, <1>4, AdminTypes DEF AdminTypeOK, OneEach
<1>6. NothingAhead'
  <2>1. \A t \in saves' : t.at <= writes'
    BY <1>2, <1>4, AdminTypes
  <2>2. \A i \in DOMAIN fetches : fetches[i].at <= writes'
    BY <1>2, AdminTypes
  <2> QED  BY <1>2, <1>3, <2>1, <2>2 DEF NothingAhead
<1>7. NewestIsFresh'
  BY <1>2, <1>3, AdminTypes DEF NewestIsFresh
<1> QED  BY <1>5, <1>6, <1>7 DEF AdminInv

\* It refuses it, or the page learns of an error.
LEMMA SaveEndsStep ==
  ASSUME AdminInv, NEW s \in saves, RefuseSave(s) \/ SaveFails(s)
  PROVE  AdminInv'
<1>1. UNCHANGED <<page, entries, minted, writes, items, itemsAt, listState, fetches, confirmed, asks, overtaken>>
  BY DEF RefuseSave, SaveFails, platform, shownPart
<1>2. saves' \subseteq Save /\ \A t \in saves' : t \in saves \/ t.at = 0
  <2>1. CASE RefuseSave(s)
    BY <2>1, SavesBecome DEF RefuseSave
  <2>2. CASE SaveFails(s)
    BY <2>2, AdminTypes DEF SaveFails
  <2> QED  BY <2>1, <2>2
<1>3. AdminTypeOK' /\ NothingAhead' /\ NewestIsFresh'
  BY <1>1, <1>2, AdminTypes DEF AdminTypeOK, NothingAhead, NewestIsFresh
<1> QED  BY <1>3 DEF AdminInv

\* The page is told, and asks for the list.
LEMMA SaveConfirmedStep ==
  ASSUME AdminInv, NEW s \in saves, SaveConfirmed(s)
  PROVE  AdminInv'
<1>1. /\ Reload(s.n) /\ Becomes(s, "listing", s.at) /\ s.n \in 0..MaxRequests /\ s.at \in Nat /\ s.at <= writes
      /\ confirmed' = IF s.at > confirmed THEN s.at ELSE confirmed
      /\ UNCHANGED <<page, entries, minted, writes, asks, overtaken>>
  BY AdminTypes DEF SaveConfirmed, platform
<1>2. /\ fetches' \in Seq(Fetch) /\ fetches' # <<>> /\ fetches'[Len(fetches')].at = -1
      /\ \A i \in DOMAIN fetches' : fetches'[i].at <= writes
      /\ listState' = "loading" /\ UNCHANGED <<items, itemsAt>>
  BY <1>1, ReloadAsks
<1>3. saves' \subseteq Save /\ \A t \in saves' : t \in saves \/ t.at = s.at
  BY <1>1, SavesBecome
<1>4. confirmed' \in 0..writes
  BY <1>1, AdminTypes
<1>5. AdminTypeOK'
  BY <1>1, <1>2, <1>3, <1>4, AdminTypes DEF AdminTypeOK
<1>6. NothingAhead' /\ NewestIsFresh'
  BY <1>1, <1>2, <1>3, AdminTypes DEF NothingAhead, NewestIsFresh
<1> QED  BY <1>5, <1>6 DEF AdminInv

\* A list is served: it is as new as the changes.
LEMMA ServeListStep ==
  ASSUME AdminInv, NEW i \in DOMAIN fetches, ServeList(i)
  PROVE  AdminInv'
<1> DEFINE f == [fetches[i] EXCEPT !.rows = Listing(Own), !.at = writes]
<1>1. /\ fetches' = [fetches EXCEPT ![i] = f]
      /\ UNCHANGED <<page, entries, minted, writes, items, itemsAt, listState, saves, confirmed, asks, overtaken>>
  BY DEF ServeList, platform, shownPart
<1>2. f \in Fetch /\ f.at = writes
  <2>1. fetches[i] \in Fetch /\ Listing(Own) \subseteq Entry /\ writes \in Nat
    BY AdminTypes DEF Listing, AdminTypeOK
  <2> QED  BY <2>1 DEF Fetch
<1> HIDE DEF f
<1>3. /\ fetches' \in Seq(Fetch) /\ Len(fetches') = Len(fetches) /\ DOMAIN fetches' = DOMAIN fetches
      /\ \A j \in DOMAIN fetches : fetches'[j] = IF j = i THEN f ELSE fetches[j]
      /\ fetches # <<>> /\ fetches' # <<>>
  <2>1. fetches \in Seq(Fetch) /\ i \in 1..Len(fetches)
    BY AdminTypes
  <2>2. [fetches EXCEPT ![i] = f] \in Seq(Fetch) /\ Len([fetches EXCEPT ![i] = f]) = Len(fetches)
        /\ \A j \in 1..Len(fetches) : [fetches EXCEPT ![i] = f][j] = IF j = i THEN f ELSE fetches[j]
    BY <1>2, <2>1, ExceptSeq
  <2>3. Len(fetches) # 0
    BY <2>1, AdminTypes
  <2> QED  BY <1>1, <2>1, <2>2, <2>3, AdminTypes, EmptySeq
<1>4. AdminTypeOK'
  BY <1>1, <1>3, AdminTypes DEF AdminTypeOK
<1>5. NothingAhead'
  BY <1>1, <1>2, <1>3, AdminTypes DEF NothingAhead
<1>6. NewestIsFresh'
  <2> SUFFICES ASSUME ~overtaken PROVE fetches'[Len(fetches')].at \in {-1} \cup confirmed..writes
    BY <1>1, <1>3 DEF NewestIsFresh
  <2>1. Len(fetches) \in DOMAIN fetches /\ fetches[Len(fetches)].at \in {-1} \cup confirmed..writes
    BY <1>1, <1>3, AdminTypes DEF NewestIsFresh
  <2>2. writes \in confirmed..writes
    BY AdminTypes
  <2> QED  BY <1>2, <1>3, <2>1, <2>2
<1> QED  BY <1>4, <1>5, <1>6 DEF AdminInv

\* A list or an error arrives.
LEMMA ListEndsStep ==
  ASSUME AdminInv, NEW i \in DOMAIN fetches, ShowList(i) \/ ListFailed(i)
  PROVE  AdminInv'
<1>1. /\ ListEnds(i)
      /\ UNCHANGED <<page, entries, minted, writes, confirmed, asks>>
      /\ listState' \in {"success", "error"}
      /\ items' = items \/ items' = fetches[i].rows
      /\ itemsAt' = itemsAt \/ (fetches[i].at # -1 /\ itemsAt' = fetches[i].at)
      /\ listState' = "success" => fetches[i].at # -1 /\ itemsAt' = fetches[i].at
  BY DEF ShowList, ListFailed, ListEnds, platform
<1>2. /\ fetches' \in Seq(Fetch) /\ Len(fetches') = Len(fetches) - 1
      /\ \A j \in DOMAIN fetches' : fetches'[j] = IF j < i THEN fetches[j] ELSE fetches[j + 1]
      /\ \A j \in DOMAIN fetches' : \E k \in DOMAIN fetches : k # i /\ fetches'[j] = fetches[k]
      /\ DOMAIN fetches' = 1..(Len(fetches) - 1)
  <2> DEFINE r == SubSeq(fetches, 1, i - 1) \o SubSeq(fetches, i + 1, Len(fetches))
  <2>1. fetches \in Seq(Fetch)
    BY AdminTypes
  <2>2. fetches' = r
    BY <1>1 DEF ListEnds
  <2>3. /\ r \in Seq(Fetch) /\ Len(r) = Len(fetches) - 1 /\ Len(fetches) \in Nat
        /\ \A j \in DOMAIN r : \E k \in DOMAIN fetches : k # i /\ r[j] = fetches[k]
        /\ \A j \in DOMAIN r : r[j] = IF j < i THEN fetches[j] ELSE fetches[j + 1]
        /\ DOMAIN r = 1..(Len(fetches) - 1) /\ DOMAIN fetches = 1..Len(fetches)
    BY ONLY <2>1, i \in DOMAIN fetches, WithoutOneElements
  <2> HIDE DEF r
  <2> QED  BY <2>2, <2>3
<1>3. saves' \subseteq saves /\ overtaken' = (overtaken \/ i # 1)
  BY <1>1 DEF ListEnds
<1>4. items' \subseteq Entry /\ itemsAt' \in 0..writes
  BY <1>1, AdminTypes DEF AdminTypeOK
<1>5. overtaken' \in BOOLEAN
  BY <1>3
<1>6. AdminTypeOK'
  BY <1>1, <1>2, <1>3, <1>4, <1>5, AdminTypes DEF AdminTypeOK
<1>7. NothingAhead'
  BY <1>1, <1>2, <1>3, AdminTypes DEF NothingAhead
<1>8. NewestIsFresh'
  <2> SUFFICES ASSUME ~overtaken'
               PROVE  /\ fetches' # <<>> => fetches'[Len(fetches')].at \in {-1} \cup confirmed..writes
                      /\ fetches' = <<>> /\ listState' = "success" => confirmed <= itemsAt'
    BY <1>1 DEF NewestIsFresh
  <2>1. i = 1 /\ Len(fetches) \in DOMAIN fetches /\ fetches[Len(fetches)].at \in {-1} \cup confirmed..writes
    <3>1. i = 1 /\ ~overtaken
      BY <1>3
    <3>2. Len(fetches) \in DOMAIN fetches /\ fetches # <<>>
      BY AdminTypes
    <3> QED  BY <3>1, <3>2, AdminTypes DEF NewestIsFresh
  <2>2. ASSUME fetches' # <<>> PROVE fetches'[Len(fetches')].at \in {-1} \cup confirmed..writes
    <3>1. Len(fetches') \in DOMAIN fetches'
      BY <1>2, <2>2, EmptySeq, LenProperties
    <3>2. ~(Len(fetches') < i) /\ Len(fetches') + 1 = Len(fetches)
      <4>1. Len(fetches) \in Nat /\ Len(fetches') = Len(fetches) - 1 /\ Len(fetches') \in 1..(Len(fetches) - 1)
        BY <1>2, <3>1, AdminTypes
      <4> QED  BY <2>1, <4>1
    <3>3. fetches'[Len(fetches')] = fetches[Len(fetches') + 1]
      BY <1>2, <3>1, <3>2
    <3> QED  BY <2>1, <3>2, <3>3
  <2>3. ASSUME fetches' = <<>>, listState' = "success" PROVE confirmed <= itemsAt'
    <3>1. Len(fetches') = 0
      BY <2>3
    <3>2. Len(fetches) = 1
      BY <1>2, <3>1, AdminTypes
    <3> QED  BY <1>1, <2>1, <2>3, <3>2, AdminTypes
  <2> QED  BY <2>2, <2>3
<1> QED  BY <1>6, <1>7, <1>8 DEF AdminInv

\* No step of the page, of the server or of another administrator breaks the invariant.
LEMMA NextAdminInv == AdminInv /\ [AdminNext]_adminVars => AdminInv'
<1> SUFFICES ASSUME AdminInv, [AdminNext]_adminVars PROVE AdminInv'
  OBVIOUS
<1>1. CASE OthersChange
  BY <1>1, OthersChangeStep
<1>2. CASE Refresh
  BY <1>2, RefreshStep
<1>3. CASE \E form \in BOOLEAN : SaveForm(form)
  BY <1>3, SaveFormStep
<1>4. CASE \E s \in saves : ServeSave(s) \/ RefuseSave(s) \/ SaveConfirmed(s) \/ SaveFails(s)
  BY <1>4, ServeSaveStep, SaveEndsStep, SaveConfirmedStep
<1>5. CASE \E i \in DOMAIN fetches : ServeList(i) \/ ShowList(i) \/ ListFailed(i)
  BY <1>5, ServeListStep, ListEndsStep
<1>6. CASE UNCHANGED adminVars
  BY <1>6 DEF AdminInv, AdminTypeOK, NothingAhead, NewestIsFresh, adminVars
<1>7. AdminNext => \/ OthersChange \/ Refresh \/ \E form \in BOOLEAN : SaveForm(form)
                   \/ \E s \in saves : ServeSave(s) \/ RefuseSave(s) \/ SaveConfirmed(s) \/ SaveFails(s)
                   \/ \E i \in DOMAIN fetches : ServeList(i) \/ ShowList(i) \/ ListFailed(i)
  BY DEF AdminNext, UsersPage, SettingsPage, MappingsPage, SampleQuestionsPage, IntentListPage, KnowledgePage,
         IntentTreePage, DashboardPage, TracesPage, TracePage, DocumentsPage
<1> QED  BY <1>1, <1>2, <1>3, <1>4, <1>5, <1>6, <1>7

\* A page at rest shows every change it was told of, whatever other administrators change and
\* whichever requests are lost, unless an answer came before that of an earlier request - for
\* any pages, entries, tenants and bounds.
THEOREM RestingPageIsAlwaysFresh == AdminSpec => []RestingPageIsFresh
<1>1. AdminInit => AdminInv
  BY InitAdminInv
<1>2. AdminInv /\ [AdminNext]_adminVars => AdminInv'
  BY NextAdminInv
<1>3. AdminInv => RestingPageIsFresh
  BY DEF AdminInv, NewestIsFresh, RestingPageIsFresh
<1> QED  BY <1>1, <1>2, <1>3, PTL DEF AdminSpec


-----------------------------------------------------------------------------
(* The intent tree *)

\* What comes of a when advance is applied to it again and again, up to N times.
Iterations(D, a, advance, N) == {g \in [0..N -> D] : g[0] = a /\ \A n \in 1..N : g[n] = advance[g[n - 1]]}

\* There is such a sequence: the recursion has a solution.
LEMMA Iteration ==
  ASSUME NEW D, NEW a \in D, NEW advance \in [D -> D], NEW N \in Nat
  PROVE  Iterations(D, a, advance, N) # {}
<1> DEFINE Solves(g, M) == g = [n \in 0..M |-> IF n = 0 THEN a ELSE advance[g[n - 1]]] /\ g \in [0..M -> D]
           Solved == {M \in Nat : \E g : Solves(g, M)}
<1>1. 0 \in Solved
  <2>1. Solves([n \in 0..0 |-> a], 0)
    OBVIOUS
  <2> QED  BY <2>1
<1>2. ASSUME NEW M \in 0..(N - 1), M \in Solved
      PROVE  M + 1 \in Solved
  <2>1. PICK g : Solves(g, M)
    BY <1>2
  <2> DEFINE h == [n \in 0..(M + 1) |-> IF n <= M THEN g[n] ELSE advance[g[M]]]
  <2>2. M \in Nat /\ M + 1 \in Nat /\ \A n \in 0..(M + 1) : (n <= M => n \in 0..M) /\ (~(n <= M) => n = M + 1)
    OBVIOUS
  <2>3. \A n \in 0..M : g[n] = (IF n = 0 THEN a ELSE advance[g[n - 1]]) /\ g[n] \in D
    BY <2>1
  <2>4. \A n \in 0..(M + 1) : h[n] = (IF n = 0 THEN a ELSE advance[h[n - 1]]) /\ h[n] \in D
    <3> TAKE n \in 0..(M + 1)
    <3>1. CASE n <= M
      <4>1. n \in 0..M /\ (n # 0 => n - 1 \in 0..(M + 1) /\ n - 1 <= M)
        BY <2>2, <3>1
      <4>2. h[n] = g[n] /\ (n # 0 => h[n - 1] = g[n - 1])
        BY <3>1, <4>1
      <4> HIDE DEF h
      <4> QED  BY <2>3, <4>1, <4>2
    <3>2. CASE ~(n <= M)
      <4>1. n = M + 1 /\ n # 0 /\ n - 1 = M /\ M \in 0..(M + 1) /\ M <= M /\ M \in 0..M
        BY <2>2, <3>2
      <4>2. h[n] = advance[g[M]] /\ h[n - 1] = g[M] /\ g[M] \in D
        BY <2>3, <3>2, <4>1
      <4> HIDE DEF h
      <4> QED  BY <4>1, <4>2
    <3> QED  BY <3>1, <3>2
  <2>5. Solves(h, M + 1)
    <3>1. h = [n \in 0..(M + 1) |-> h[n]]
      OBVIOUS
    <3> HIDE DEF h
    <3> QED  BY <2>4, <3>1
  <2> HIDE DEF Solves, h
  <2> QED  BY <2>2, <2>5
<1> HIDE DEF Solved
<1>3. N \in Solved
  <2>1. \A n \in 0..(N - 1) : n \in Solved => n + 1 \in Solved
    BY <1>2
  <2>2. \A n \in 0..N : n \in Solved
    BY <1>1, <2>1, Induction
  <2> QED  BY <2>2
<1>4. PICK g : Solves(g, N)
  BY <1>3 DEF Solved
<1>5. g \in [0..N -> D]
  BY <1>4
<1>6. \A n \in 0..N : g[n] = IF n = 0 THEN a ELSE advance[g[n - 1]]
  BY <1>4
<1>7. 0 \in 0..N /\ \A n \in 1..N : n \in 0..N /\ n # 0
  OBVIOUS
<1>8. g[0] = a /\ \A n \in 1..N : g[n] = advance[g[n - 1]]
  BY ONLY <1>6, <1>7
<1> HIDE DEF Solves
<1> QED  BY <1>5, <1>8 DEF Iterations

\* A list in which no id stands twice.
Distinct(rows) == \A e, f \in rows : e.id = f.id => e = f

\* The levels go down from the roots, each from the one above it.
LEMMA Levels ==
  ASSUME NEW rows \in SUBSET Entry
  PROVE  /\ Cardinality(Ids) \in Nat
         /\ TreeLevel(rows)[0] = TreeRoots(rows)
         /\ \A n \in 1..Cardinality(Ids) : TreeLevel(rows)[n] = {e \in rows : e.parent \in IdsOf(TreeLevel(rows)[n - 1])}
         /\ \A n \in 0..Cardinality(Ids) : TreeLevel(rows)[n] \subseteq rows
<1> DEFINE N == Cardinality(Ids)
           advance == [S \in SUBSET rows |-> {e \in rows : e.parent \in IdsOf(S)}]
           Is(g) == g = [n \in 0..N |-> IF n = 0 THEN TreeRoots(rows) ELSE {e \in rows : e.parent \in IdsOf(g[n - 1])}]
<1>1. N \in Nat
  BY IdsAssumption, FS_CardinalityType
<1> HIDE DEF N
<1>2. TreeRoots(rows) \in SUBSET rows /\ advance \in [SUBSET rows -> SUBSET rows]
  BY DEF TreeRoots
<1>3. \E g : Is(g)
  <2> DEFINE a == TreeRoots(rows)  D == SUBSET rows
  <2>1. a \in D /\ advance \in [D -> D]
    BY <1>2
  <2> HIDE DEF a, D, advance
  <2>2. PICK g : g \in Iterations(D, a, advance, N)
    BY ONLY <1>1, <2>1, Iteration
  <2>3. g \in [0..N -> D] /\ g[0] = a /\ \A n \in 1..N : g[n] = advance[g[n - 1]]
    BY <2>2 DEF Iterations
  <2>4. \A n \in 1..N : n - 1 \in 0..N /\ g[n - 1] \in D
    BY <1>1, <2>3
  <2>5. \A n \in 1..N : advance[g[n - 1]] = {e \in rows : e.parent \in IdsOf(g[n - 1])}
    BY <2>4 DEF advance, D
  <2>6. \A n \in 0..N : g[n] = IF n = 0 THEN TreeRoots(rows) ELSE {e \in rows : e.parent \in IdsOf(g[n - 1])}
    <3>1. \A n \in 0..N : n = 0 \/ n \in 1..N
      BY <1>1
    <3> QED  BY <2>3, <2>5, <3>1 DEF a
  <2>7. g = [n \in 0..N |-> g[n]]
    BY <2>3
  <2>8. Is(g)
    BY <2>6, <2>7
  <2> QED  BY <2>8
<1>4. Is(TreeLevel(rows))
  <2>1. TreeLevel(rows) = CHOOSE g : Is(g)
    BY DEF TreeLevel, N
  <2> HIDE DEF Is
  <2> QED  BY <1>3, <2>1
<1> DEFINE L == TreeLevel(rows)
<1>5. L = [n \in 0..N |-> IF n = 0 THEN TreeRoots(rows) ELSE {e \in rows : e.parent \in IdsOf(L[n - 1])}]
  BY <1>4
<1> HIDE DEF L
<1>6. L[0] = TreeRoots(rows) /\ \A n \in 1..N : L[n] = {e \in rows : e.parent \in IdsOf(L[n - 1])}
  <2>1. 0 \in 0..N /\ \A n \in 1..N : n \in 0..N /\ n # 0
    BY <1>1
  <2> QED  BY <1>5, <2>1
<1>7. \A n \in 0..N : L[n] \subseteq rows
  <2>1. \A n \in 0..N : n = 0 \/ n \in 1..N
    BY <1>1
  <2> QED  BY <1>2, <1>6, <2>1
<1> QED  BY <1>1, <1>6, <1>7 DEF L, N

\* No entry is on two levels.
LEMMA LevelsDiffer ==
  ASSUME NEW rows \in SUBSET Entry, Distinct(rows)
  PROVE  \A n, m \in 0..Cardinality(Ids) : n < m => TreeLevel(rows)[n] \cap TreeLevel(rows)[m] = {}
<1> DEFINE N == Cardinality(Ids)
           L == TreeLevel(rows)
           Apart == {n \in Nat : \A m \in 0..N : n < m => L[n] \cap L[m] = {}}
<1>1. /\ N \in Nat /\ L[0] = TreeRoots(rows)
      /\ \A n \in 1..N : L[n] = {e \in rows : e.parent \in IdsOf(L[n - 1])}
      /\ \A n \in 0..N : L[n] \subseteq rows
  BY Levels
<1> HIDE DEF N, L
<1>2. 0 \in Apart
  <2>1. ASSUME NEW m \in 0..N, 0 < m PROVE L[0] \cap L[m] = {}
    <3>1. m \in 1..N /\ m - 1 \in 0..N
      BY <1>1, <2>1
    <3>2. L[m] = {e \in rows : e.parent \in IdsOf(L[m - 1])} /\ L[m - 1] \subseteq rows
      BY <1>1, <3>1
    <3> QED  BY <1>1, <3>2 DEF TreeRoots, IdsOf
  <2> QED  BY <2>1
<1>3. ASSUME NEW n \in 0..(N - 1), n \in Apart PROVE n + 1 \in Apart
  <2>1. ASSUME NEW m \in 0..N, n + 1 < m, NEW e \in L[n + 1] \cap L[m] PROVE FALSE
    <3>1. n + 1 \in 1..N /\ m \in 1..N /\ (n + 1) - 1 = n /\ m - 1 \in 0..N /\ n \in 0..N /\ n < m - 1
      BY <1>1, <2>1
    <3>2. e.parent \in IdsOf(L[n]) /\ e.parent \in IdsOf(L[m - 1])
      BY <1>1, <2>1, <3>1
    <3>3. PICK f \in L[n] : e.parent = f.id
      BY <3>2 DEF IdsOf
    <3>4. PICK g \in L[m - 1] : e.parent = g.id
      BY <3>2 DEF IdsOf
    <3>5. f = g
      BY <1>1, <3>1, <3>3, <3>4 DEF Distinct
    <3> QED  BY <1>3, <3>1, <3>3, <3>4, <3>5
  <2>2. n + 1 \in Nat
    OBVIOUS
  <2> QED  BY <2>1, <2>2
<1>4. \A n \in 0..N : n \in Apart
  <2>1. \A n \in 0..(N - 1) : n \in Apart => n + 1 \in Apart
    BY <1>3
  <2> HIDE DEF Apart
  <2> QED  BY <1>1, <1>2, <2>1, Induction
<1> QED  BY <1>4 DEF N, L

\* The levels are enough: what hangs from an entry that is drawn is drawn.
LEMMA EnoughLevels ==
  ASSUME NEW rows \in SUBSET Entry, Distinct(rows), NEW f \in Drawn(rows), NEW e \in rows, e.parent = f.id
  PROVE  e \in Drawn(rows)
<1> DEFINE N == Cardinality(Ids)
           L == TreeLevel(rows)
           Filled == {k \in Nat : k <= N => L[N - k] # {}}
<1>1. /\ N \in Nat /\ L[0] = TreeRoots(rows)
      /\ \A n \in 1..N : L[n] = {x \in rows : x.parent \in IdsOf(L[n - 1])}
      /\ \A n \in 0..N : L[n] \subseteq rows
  BY Levels
<1>2. \A n, m \in 0..N : n < m => L[n] \cap L[m] = {}
  BY LevelsDiffer
<1>3. Drawn(rows) = UNION {L[n] : n \in 0..N}
  BY DEF Drawn
<1>4. IsFiniteSet(Ids)
  BY IdsAssumption
<1> HIDE DEF L
<1>5. PICK n \in 0..N : f \in L[n]
  BY <1>3
<1>6. CASE n < N
  <2>1. n + 1 \in 1..N /\ n + 1 \in 0..N /\ (n + 1) - 1 = n
    BY <1>1, <1>6
  <2>2. e \in L[n + 1]
    BY <1>1, <1>5, <2>1 DEF IdsOf
  <2> QED  BY <1>3, <2>1, <2>2
<1>7. CASE ~(n < N)
  <2>1. n = N
    BY <1>1, <1>7
  <2>2. 0 \in Filled
    BY <1>1, <1>5, <2>1
  <2>3. ASSUME NEW k \in 0..(N - 1), k \in Filled PROVE k + 1 \in Filled
    <3>1. k \in Nat /\ k <= N /\ N - k \in 1..N /\ (N - k) - 1 = N - (k + 1)
      BY <1>1
    <3>2. PICK x \in L[N - k] : TRUE
      BY <2>3, <3>1
    <3>3. L[N - k] = {y \in rows : y.parent \in IdsOf(L[(N - k) - 1])}
      BY <1>1, <3>1
    <3>4. x.parent \in IdsOf(L[N - (k + 1)])
      BY <3>1, <3>2, <3>3
    <3>5. L[N - (k + 1)] # {}
      BY <3>4 DEF IdsOf
    <3> QED  BY <3>1, <3>5
  <2>4. \A k \in 0..N : L[k] # {}
    <3>1. \A k \in 0..(N - 1) : k \in Filled => k + 1 \in Filled
      BY <2>3
    <3>2. \A k \in 0..N : k \in Filled
      <4> HIDE DEF Filled, N
      <4> QED  BY <1>1, <2>2, <3>1, Induction
    <3>3. \A k \in 0..N : N - k \in 0..N /\ N - (N - k) = k
      BY <1>1
    <3> QED  BY <1>1, <3>2, <3>3
  <2> DEFINE g == [k \in 0..N |-> (CHOOSE x \in L[k] : TRUE).id]
  <2>5. \A k \in 0..N : \E x \in L[k] : g[k] = x.id
    BY <2>4
  <2>6. g \in Injection(0..N, Ids)
    <3>1. \A k \in 0..N : g[k] \in Ids
      BY <1>1, <2>5 DEF Entry
    <3>2. g \in [0..N -> Ids]
      BY <3>1
    <3>3. ASSUME NEW j \in 0..N, NEW k \in 0..N, g[j] = g[k] PROVE j = k
      <4>1. PICK x \in L[j] : g[j] = x.id
        BY <2>5
      <4>2. PICK y \in L[k] : g[k] = y.id
        BY <2>5
      <4> HIDE DEF g
      <4>3. x = y
        BY <1>1, <3>3, <4>1, <4>2 DEF Distinct
      <4> QED  BY <1>1, <1>2, <4>1, <4>2, <4>3
    <3> HIDE DEF g
    <3> QED  BY <3>2, <3>3 DEF Injection, IsInjective
  <2> HIDE DEF g
  <2>7. IsFiniteSet(0..N) /\ Cardinality(0..N) = N + 1
    <3> HIDE DEF N
    <3>1. 0 <= N /\ 0 \in Int /\ N \in Int
      BY <1>1
    <3>2. IsFiniteSet(0..N) /\ Cardinality(0..N) = IF 0 > N THEN 0 ELSE N - 0 + 1
      BY <3>1, FS_Interval
    <3> QED  BY <3>1, <3>2
  <2>8. Cardinality(0..N) <= N
    BY <1>4, <2>6, FS_Injection
  <2> QED  BY <1>1, <2>7, <2>8
<1> QED  BY <1>6, <1>7

\* What the tree draws of a list without duplicates, as TreeIsComplete says it.
LEMMA TreeOfList ==
  ASSUME NEW rows \in SUBSET Entry, Distinct(rows)
  PROVE  LET circles == UNION {S \in SUBSET rows : \A e \in S : \E f \in S : e.parent = f.id}
             depths(e) == {n \in 0..Cardinality(Ids) : e \in TreeLevel(rows)[n]}
         IN /\ Drawn(rows) = rows \ circles
            /\ \A e \in Drawn(rows) : Cardinality(depths(e)) = 1
<1> DEFINE N == Cardinality(Ids)
           L == TreeLevel(rows)
           circles == UNION {S \in SUBSET rows : \A e \in S : \E f \in S : e.parent = f.id}
           depths(e) == {n \in 0..N : e \in L[n]}
<1>1. /\ N \in Nat /\ L[0] = TreeRoots(rows)
      /\ \A n \in 1..N : L[n] = {x \in rows : x.parent \in IdsOf(L[n - 1])}
      /\ \A n \in 0..N : L[n] \subseteq rows
  BY Levels
<1>2. \A n, m \in 0..N : n < m => L[n] \cap L[m] = {}
  BY LevelsDiffer
<1>3. Drawn(rows) = UNION {L[n] : n \in 0..N}
  BY DEF Drawn
<1> HIDE DEF L, N
<1>4. Drawn(rows) \subseteq rows
  BY <1>1, <1>3
<1>5. rows \ Drawn(rows) \subseteq circles
  <2> DEFINE U == rows \ Drawn(rows)
  <2>1. ASSUME NEW e \in U PROVE \E f \in U : e.parent = f.id
    <3>1. e \notin L[0]
      BY <1>1, <1>3
    <3>2. PICK f \in rows : e.parent = f.id
      BY <1>1, <3>1 DEF TreeRoots, IdsOf
    <3>3. f \notin Drawn(rows)
      BY <2>1, <3>2, EnoughLevels
    <3> QED  BY <3>2, <3>3
  <2>2. U \in {S \in SUBSET rows : \A e \in S : \E f \in S : e.parent = f.id}
    BY <2>1
  <2> QED  BY <2>2
<1>6. ASSUME NEW S \in SUBSET rows, \A e \in S : \E f \in S : e.parent = f.id
      PROVE  S \cap Drawn(rows) = {}
  <2> DEFINE Clear == {n \in Nat : S \cap L[n] = {}}
  <2>1. 0 \in Clear
    BY <1>1, <1>6 DEF TreeRoots, IdsOf
  <2>2. ASSUME NEW n \in 0..(N - 1), n \in Clear PROVE n + 1 \in Clear
    <3>1. n + 1 \in 1..N /\ n + 1 \in Nat /\ (n + 1) - 1 = n /\ n \in 0..N
      BY <1>1
    <3>2. ASSUME NEW e \in S \cap L[n + 1] PROVE FALSE
      <4>1. PICK f \in S : e.parent = f.id
        BY <1>6
      <4>2. PICK g \in L[n] : e.parent = g.id
        BY <1>1, <3>1, <3>2 DEF IdsOf
      <4>3. f = g
        BY <1>1, <3>1, <4>1, <4>2 DEF Distinct
      <4> QED  BY <2>2, <4>1, <4>2, <4>3
    <3> QED  BY <3>1, <3>2
  <2>3. \A n \in 0..N : n \in Clear
    <3>1. \A n \in 0..(N - 1) : n \in Clear => n + 1 \in Clear
      BY <2>2
    <3> HIDE DEF Clear
    <3> QED  BY <1>1, <2>1, <3>1, Induction
  <2> QED  BY <1>3, <2>3
<1>7. Drawn(rows) = rows \ circles
  <2>1. \A e \in circles : e \notin Drawn(rows)
    BY <1>6
  <2> QED  BY <1>4, <1>5, <2>1
<1>8. ASSUME NEW e \in Drawn(rows) PROVE Cardinality(depths(e)) = 1
  <2>1. PICK n \in 0..N : e \in L[n]
    BY <1>3
  <2>2. ASSUME NEW m \in 0..N, e \in L[m] PROVE m = n
    BY <1>1, <1>2, <2>1, <2>2
  <2>3. depths(e) = {n}
    BY <2>1, <2>2
  <2> QED  BY <2>3, FS_Singleton
<1> QED  BY <1>7, <1>8 DEF L, N

\* Every list on its way, and the one that is shown, is one of the administrator's own scope,
\* in which no id stands twice.
RowsDiffer == Distinct(items) /\ \A i \in DOMAIN fetches : Distinct(fetches[i].rows)

\* Any advance keeps it so.
LEMMA NextRowsDiffer == AdminInv /\ RowsDiffer /\ [AdminNext]_adminVars => RowsDiffer'
<1> SUFFICES ASSUME AdminInv, RowsDiffer, [AdminNext]_adminVars PROVE RowsDiffer'
  OBVIOUS
<1>1. Distinct({}) /\ Distinct(Listing(Own))
  BY AdminTypes DEF Distinct, Listing, InScope, AdminTypeOK
<1>2. ASSUME NEW n \in 0..MaxRequests, Reload(n) PROVE RowsDiffer'
  <2>1. Asking(n) \in Fetch /\ Asking(n).rows = {}
    BY DEF Asking, Fetch
  <2>2. fetches \in Seq(Fetch) /\ fetches' = Append(fetches, Asking(n)) /\ items' = items
    BY <1>2, AdminTypes DEF Reload
  <2>3. /\ DOMAIN Append(fetches, Asking(n)) = 1..(Len(fetches) + 1) /\ DOMAIN fetches = 1..Len(fetches)
        /\ Append(fetches, Asking(n))[Len(fetches) + 1] = Asking(n) /\ Len(fetches) \in Nat
        /\ \A j \in DOMAIN fetches : Append(fetches, Asking(n))[j] = fetches[j]
    BY <2>1, <2>2, Appended
  <2>4. \A i \in DOMAIN fetches' : (i \in DOMAIN fetches /\ fetches'[i] = fetches[i]) \/ fetches'[i] = Asking(n)
    BY <2>2, <2>3
  <2> QED  BY <1>1, <2>1, <2>2, <2>4 DEF RowsDiffer
<1>3. CASE UNCHANGED <<items, fetches>>
  BY <1>3 DEF RowsDiffer
<1>4. ASSUME NEW i \in DOMAIN fetches, ServeList(i) PROVE RowsDiffer'
  <2>1. \A j \in DOMAIN fetches' : j \in DOMAIN fetches /\ (fetches'[j].rows = fetches[j].rows \/ fetches'[j].rows = Listing(Own))
    BY <1>4, AdminTypes DEF ServeList, Fetch
  <2>2. items' = items
    BY <1>4 DEF ServeList, shownPart
  <2> QED  BY <1>1, <2>1, <2>2 DEF RowsDiffer
<1>5. ASSUME NEW i \in DOMAIN fetches, ShowList(i) \/ ListFailed(i) PROVE RowsDiffer'
  <2> DEFINE r == SubSeq(fetches, 1, i - 1) \o SubSeq(fetches, i + 1, Len(fetches))
  <2>1. fetches \in Seq(Fetch)
    BY AdminTypes
  <2>2. fetches' = r /\ (items' = items \/ items' = fetches[i].rows)
    BY <1>5 DEF ShowList, ListFailed, ListEnds
  <2>3. \A j \in DOMAIN r : \E k \in DOMAIN fetches : k # i /\ r[j] = fetches[k]
    BY ONLY <2>1, i \in DOMAIN fetches, WithoutOneElements
  <2> HIDE DEF r
  <2> QED  BY <2>2, <2>3 DEF RowsDiffer
<1>6. CASE OthersChange \/ (\E form \in BOOLEAN : SaveForm(form)) \/ \E s \in saves : ServeSave(s) \/ RefuseSave(s) \/ SaveFails(s)
  BY <1>3, <1>6 DEF OthersChange, SaveForm, ServeSave, RefuseSave, SaveFails, shownPart
<1>7. CASE Refresh
  BY <1>2, <1>7, AdminTypes DEF Refresh
<1>8. CASE \E s \in saves : SaveConfirmed(s)
  <2>1. PICK s \in saves : SaveConfirmed(s)
    BY <1>8
  <2>2. Reload(s.n) /\ s.n \in 0..MaxRequests
    BY <2>1, AdminTypes DEF SaveConfirmed
  <2> QED  BY <1>2, <2>2
<1>9. CASE UNCHANGED adminVars
  BY <1>3, <1>9 DEF adminVars
<1>10. AdminNext => \/ OthersChange \/ Refresh \/ \E form \in BOOLEAN : SaveForm(form)
                    \/ \E s \in saves : ServeSave(s) \/ RefuseSave(s) \/ SaveConfirmed(s) \/ SaveFails(s)
                    \/ \E i \in DOMAIN fetches : ServeList(i) \/ ShowList(i) \/ ListFailed(i)
  BY DEF AdminNext, UsersPage, SettingsPage, MappingsPage, SampleQuestionsPage, IntentListPage, KnowledgePage,
         IntentTreePage, DashboardPage, TracesPage, TracePage, DocumentsPage
<1> QED  BY <1>4, <1>5, <1>6, <1>7, <1>8, <1>9, <1>10

\* The intent tree draws every intent of its list once, but those of circles and what hangs
\* from them - for any finite set of ids, so that however deep the tree is, and whatever
\* administrators move below whatever, it has levels enough.
THEOREM TreeIsAlwaysComplete == AdminSpec => []TreeIsComplete
<1>1. AdminInit => AdminInv /\ RowsDiffer
  <2>1. AdminInit => RowsDiffer
    BY DEF AdminInit, RowsDiffer, Distinct, Asking
  <2> QED  BY <2>1, InitAdminInv
<1>2. AdminInv /\ RowsDiffer /\ [AdminNext]_adminVars => (AdminInv /\ RowsDiffer)'
  BY NextAdminInv, NextRowsDiffer
<1>3. AdminInv /\ RowsDiffer => TreeIsComplete
  <2> SUFFICES ASSUME AdminInv, RowsDiffer PROVE TreeIsComplete
    OBVIOUS
  <2>1. items \in SUBSET Entry /\ Distinct(items)
    BY DEF AdminInv, AdminTypeOK, RowsDiffer
  <2> QED  BY <2>1, TreeOfList DEF TreeIsComplete
<1> QED  BY <1>1, <1>2, <1>3, PTL DEF AdminSpec

-----------------------------------------------------------------------------
(* The tool calls *)

LastReports == {e \in Reports : e.status \in Terminal}

\* The states of call n among reports q, and the stages among q.
StatusesIn(q, n) == LET mine == SelectIn(q, {e \in Reports : e.call = n}) IN [i \in DOMAIN mine |-> mine[i].status]
StagesIn(q, n) == LET mine == SelectIn(q, {s \in Stages : s.call = n}) IN [i \in DOMAIN mine |-> mine[i].stage]

\* No report comes before one of an earlier call, and none is of a call after the t-th.
InCallOrder(q, t) ==
  /\ \A i, j \in DOMAIN q : i < j => q[i].call <= q[j].call
  /\ \A i \in DOMAIN q : q[i].call <= t

IsOver(n) ==
  \/ StatesOf(n) = <<"queued", "failed">> /\ StagesOf(n) = <<"failed">>
  \/ StatesOf(n) = <<"queued", "running", "failed">> /\ StagesOf(n) = <<"started", "failed">>
  \/ /\ StatesOf(n) = <<"queued", "running", "succeeded">> /\ StagesOf(n) = <<"started", "completed">>
     /\ Known(plan[n].tool) /\ Admitted(plan[n].tool)

IsUnderWay(n) ==
  /\ StatesOf(n) = <<"queued", "running">> /\ StagesOf(n) = <<"started">>
  /\ Known(plan[n].tool) /\ Admitted(plan[n].tool)

IsToCome(n) == StatesOf(n) = <<>> /\ StagesOf(n) = <<>>

CallsHaveTheirPlace ==
  \A n \in 1..Len(plan) :
    /\ n > taken => IsToCome(n)
    /\ n = taken /\ running => IsUnderWay(n)
    /\ n < taken \/ (n = taken /\ ~running) => IsOver(n)

GivenIsOwn ==
  \A n \in 1..Len(plan) :
    given[n] # Gone => actor.tenant \in {Nil, given[n].tenant} /\ actor.org \in {Nil, given[n].org}

McpInv ==
  /\ McpTypeOK /\ (running => taken >= 1)
  /\ CallsHaveTheirPlace /\ GivenIsOwn
  /\ InCallOrder(log, taken) /\ InCallOrder(SelectIn(log, LastReports), taken)

\* What the types say of the plan and of what is reported and traced.
LEMMA McpTypes ==
  ASSUME McpTypeOK
  PROVE  /\ Len(plan) \in Nat /\ taken \in 0..Len(plan) /\ log \in Seq(Reports) /\ stages \in Seq(Stages)
<1>1. PICK m \in 0..MaxPlan : plan \in [1..m -> PlannedCall]
  BY McpBounds DEF McpTypeOK, BoundedSeq, SeqOf
<1>2. Len(plan) = m /\ m \in Nat
  BY <1>1, McpBounds
<1> QED  BY <1>2 DEF McpTypeOK

\* One report more changes the states of its call, and of no other.
LEMMA StatusAfter ==
  ASSUME NEW q \in Seq(Reports), NEW e \in Reports, NEW n
  PROVE  StatusesIn(Append(q, e), n) = IF e.call = n THEN Append(StatusesIn(q, n), e.status) ELSE StatusesIn(q, n)
<1> DEFINE T == {r \in Reports : r.call = n}
           f == [r \in Reports |-> r.status]
           V == {"queued", "running"} \cup Terminal
           s == SelectIn(q, T)
           Read(x) == [i \in DOMAIN x |-> f[x[i]]]
<1>1. SelectIn(Append(q, e), T) = IF e \in T THEN Append(s, e) ELSE s
  BY SelectInAppend
<1>2. s \in Seq(Reports)
  BY SelectInType
<1>3. f \in [Reports -> V]
  BY DEF Reports
<1>4. Append(s, e) \in Seq(Reports)
  BY <1>2, AppendProperties
<1>5. \A x \in Seq(Reports) : [i \in DOMAIN x |-> x[i].status] = Read(x)
  <2> TAKE x \in Seq(Reports)
  <2>1. \A i \in DOMAIN x : x[i] \in Reports
    BY Elements
  <2> QED  BY <2>1
<1>6. Read(Append(s, e)) = Append(Read(s), f[e])
  <2> HIDE DEF s, f, V
  <2>1. [i \in DOMAIN Append(s, e) |-> f[Append(s, e)[i]]] = Append([i \in DOMAIN s |-> f[s[i]]], f[e])
    BY ONLY <1>2, <1>3, e \in Reports, ReadAppend
  <2> QED  BY <2>1
<1>7. f[e] = e.status /\ (e \in T <=> e.call = n)
  OBVIOUS
<1>8. StatusesIn(q, n) = Read(s) /\ StatusesIn(Append(q, e), n) = Read(SelectIn(Append(q, e), T))
  <2>1. SelectIn(Append(q, e), T) \in Seq(Reports)
    BY <1>1, <1>2, <1>4
  <2>2. StatusesIn(q, n) = [i \in DOMAIN s |-> s[i].status]
    BY DEF StatusesIn
  <2>3. StatusesIn(Append(q, e), n) = [i \in DOMAIN SelectIn(Append(q, e), T) |-> SelectIn(Append(q, e), T)[i].status]
    BY DEF StatusesIn
  <2> HIDE DEF T, s, f, Read
  <2> QED  BY <1>2, <1>5, <2>1, <2>2, <2>3
<1> HIDE DEF T, s, f, Read
<1> QED  BY <1>1, <1>6, <1>7, <1>8

\* One stage more changes the stages of its call, and of no other.
LEMMA StageAfter ==
  ASSUME NEW q \in Seq(Stages), NEW e \in Stages, NEW n
  PROVE  StagesIn(Append(q, e), n) = IF e.call = n THEN Append(StagesIn(q, n), e.stage) ELSE StagesIn(q, n)
<1> DEFINE T == {r \in Stages : r.call = n}
           f == [r \in Stages |-> r.stage]
           V == {"started", "completed", "failed"}
           s == SelectIn(q, T)
           Read(x) == [i \in DOMAIN x |-> f[x[i]]]
<1>1. SelectIn(Append(q, e), T) = IF e \in T THEN Append(s, e) ELSE s
  BY SelectInAppend
<1>2. s \in Seq(Stages)
  BY SelectInType
<1>3. f \in [Stages -> V]
  BY DEF Stages
<1>4. Append(s, e) \in Seq(Stages)
  BY <1>2, AppendProperties
<1>5. \A x \in Seq(Stages) : [i \in DOMAIN x |-> x[i].stage] = Read(x)
  <2> TAKE x \in Seq(Stages)
  <2>1. \A i \in DOMAIN x : x[i] \in Stages
    BY Elements
  <2> QED  BY <2>1
<1>6. Read(Append(s, e)) = Append(Read(s), f[e])
  <2> HIDE DEF s, f, V
  <2>1. [i \in DOMAIN Append(s, e) |-> f[Append(s, e)[i]]] = Append([i \in DOMAIN s |-> f[s[i]]], f[e])
    BY ONLY <1>2, <1>3, e \in Stages, ReadAppend
  <2> QED  BY <2>1
<1>7. f[e] = e.stage /\ (e \in T <=> e.call = n)
  OBVIOUS
<1>8. StagesIn(q, n) = Read(s) /\ StagesIn(Append(q, e), n) = Read(SelectIn(Append(q, e), T))
  <2>1. SelectIn(Append(q, e), T) \in Seq(Stages)
    BY <1>1, <1>2, <1>4
  <2>2. StagesIn(q, n) = [i \in DOMAIN s |-> s[i].stage]
    BY DEF StagesIn
  <2>3. StagesIn(Append(q, e), n) = [i \in DOMAIN SelectIn(Append(q, e), T) |-> SelectIn(Append(q, e), T)[i].stage]
    BY DEF StagesIn
  <2> HIDE DEF T, s, f, Read
  <2> QED  BY <1>2, <1>5, <2>1, <2>2, <2>3
<1> HIDE DEF T, s, f, Read
<1> QED  BY <1>1, <1>6, <1>7, <1>8

\* A report of the t-th call keeps the order, among all reports and among the last ones.
LEMMA OrderAfter ==
  ASSUME Len(plan) \in Nat, NEW q \in Seq(Reports), NEW e \in Reports, NEW t \in Nat, InCallOrder(q, t), t <= e.call
  PROVE  InCallOrder(Append(q, e), e.call)
<1> DEFINE r == Append(q, e)
<1>1. DOMAIN q = 1..Len(q) /\ Len(q) \in Nat /\ \A i \in DOMAIN q : q[i] \in Reports
  BY Elements
<1>2. DOMAIN r = 1..(Len(q) + 1) /\ r[Len(q) + 1] = e /\ \A i \in DOMAIN q : r[i] = q[i]
  BY Appended
<1> HIDE DEF r
<1>3. e.call \in Nat /\ \A i \in DOMAIN q : q[i].call \in Nat
  BY <1>1 DEF Reports
<1>4. \A i \in DOMAIN r : i \in DOMAIN q \/ (i = Len(q) + 1 /\ r[i] = e)
  BY <1>1, <1>2
<1>5. \A i \in DOMAIN q : q[i].call <= e.call
  BY <1>3 DEF InCallOrder
<1>6. \A i \in DOMAIN r : r[i].call <= e.call
  BY <1>2, <1>3, <1>4, <1>5
<1>7. \A i, j \in DOMAIN r : i < j => r[i].call <= r[j].call
  <2> TAKE i, j \in DOMAIN r
  <2> HAVE i < j
  <2>1. CASE j \in DOMAIN q
    <3>1. i \in DOMAIN q
      BY <1>1, <1>2, <2>1
    <3>2. r[i] = q[i] /\ r[j] = q[j]
      BY <1>2, <2>1, <3>1
    <3> QED  BY <2>1, <3>1, <3>2 DEF InCallOrder
  <2>2. CASE r[j] = e
    BY <1>6, <2>2
  <2> QED  BY <1>4, <2>1, <2>2
<1>8. InCallOrder(r, e.call)
  BY <1>6, <1>7 DEF InCallOrder
<1> QED  BY <1>8 DEF r

\* The same for the reports and the last ones among them.
LEMMA OrdersAfter ==
  ASSUME Len(plan) \in Nat, NEW q \in Seq(Reports), NEW e \in Reports, NEW t \in Nat, t <= e.call,
         InCallOrder(q, t), InCallOrder(SelectIn(q, LastReports), t)
  PROVE  InCallOrder(Append(q, e), e.call) /\ InCallOrder(SelectIn(Append(q, e), LastReports), e.call)
<1> DEFINE s == SelectIn(q, LastReports)
<1>1. s \in Seq(Reports)
  BY SelectInType
<1>2. SelectIn(Append(q, e), LastReports) = IF e \in LastReports THEN Append(s, e) ELSE s
  BY SelectInAppend
<1>3. InCallOrder(s, t)
  OBVIOUS
<1> HIDE DEF s
<1>4. InCallOrder(Append(s, e), e.call)
  BY <1>1, <1>3, OrderAfter
<1>5. InCallOrder(s, e.call)
  <2>1. \A i \in DOMAIN s : s[i] \in Reports
    BY <1>1, Elements
  <2>2. \A r \in Reports : r.call \in Nat
    BY DEF Reports
  <2> QED  BY <1>3, <2>1, <2>2 DEF InCallOrder
<1>6. InCallOrder(Append(q, e), e.call)
  BY OrderAfter
<1> QED  BY <1>2, <1>4, <1>5, <1>6

\* What the first two reports of the next call change.
LEMMA FirstReports ==
  ASSUME McpInv, taken < Len(plan), NEW a \in Reports, NEW b \in Reports, a.call = taken + 1, b.call = taken + 1
  PROVE  /\ log \o <<a, b>> \in Seq(Reports)
         /\ \A n : StatusesIn(log \o <<a, b>>, n) =
                     IF n = taken + 1 THEN Append(Append(StatusesIn(log, n), a.status), b.status) ELSE StatusesIn(log, n)
         /\ InCallOrder(log \o <<a, b>>, taken + 1) /\ InCallOrder(SelectIn(log \o <<a, b>>, LastReports), taken + 1)
<1>1. Len(plan) \in Nat /\ taken \in Nat /\ log \in Seq(Reports) /\ taken + 1 \in Nat /\ taken <= taken + 1
  BY McpTypes DEF McpInv
<1> DEFINE q == Append(log, a)
<1>2. log \o <<a, b>> = Append(q, b) /\ q \in Seq(Reports)
  BY <1>1, AppendTwo
<1>3. InCallOrder(q, a.call) /\ InCallOrder(SelectIn(q, LastReports), a.call)
  BY <1>1, OrdersAfter DEF McpInv
<1>4. \A n : StatusesIn(q, n) = IF a.call = n THEN Append(StatusesIn(log, n), a.status) ELSE StatusesIn(log, n)
  BY <1>1, StatusAfter
<1> HIDE DEF q
<1>5. Append(q, b) \in Seq(Reports)
  BY <1>2, AppendProperties
<1>6. taken + 1 <= b.call
  BY <1>1
<1>7. InCallOrder(Append(q, b), b.call) /\ InCallOrder(SelectIn(Append(q, b), LastReports), b.call)
  BY <1>1, <1>2, <1>3, <1>6, OrdersAfter
<1>8. \A n : StatusesIn(Append(q, b), n) = IF b.call = n THEN Append(StatusesIn(q, n), b.status) ELSE StatusesIn(q, n)
  BY <1>2, StatusAfter
<1> QED  BY <1>2, <1>4, <1>5, <1>7, <1>8

\* What another report of the last call changes.
LEMMA NextReport ==
  ASSUME McpInv, NEW e \in Reports, e.call = taken
  PROVE  /\ Append(log, e) \in Seq(Reports)
         /\ \A n : StatusesIn(Append(log, e), n) =
                     IF n = taken THEN Append(StatusesIn(log, n), e.status) ELSE StatusesIn(log, n)
         /\ InCallOrder(Append(log, e), taken) /\ InCallOrder(SelectIn(Append(log, e), LastReports), taken)
<1>1. Len(plan) \in Nat /\ taken \in Nat /\ log \in Seq(Reports) /\ taken <= e.call
  BY McpTypes DEF McpInv
<1>2. Append(log, e) \in Seq(Reports)
  BY <1>1, AppendProperties
<1>3. InCallOrder(Append(log, e), e.call) /\ InCallOrder(SelectIn(Append(log, e), LastReports), e.call)
  BY <1>1, OrdersAfter DEF McpInv
<1>4. \A n : StatusesIn(Append(log, e), n) = IF e.call = n THEN Append(StatusesIn(log, n), e.status) ELSE StatusesIn(log, n)
  BY <1>1, StatusAfter
<1> QED  BY <1>2, <1>3, <1>4

\* What another stage changes.
LEMMA NextStage ==
  ASSUME McpTypeOK, NEW e \in Stages
  PROVE  /\ Append(stages, e) \in Seq(Stages)
         /\ \A n : StagesIn(Append(stages, e), n) =
                     IF n = e.call THEN Append(StagesIn(stages, n), e.stage) ELSE StagesIn(stages, n)
<1>1. stages \in Seq(Stages)
  BY DEF McpTypeOK
<1>2. Append(stages, e) \in Seq(Stages)
  BY <1>1, AppendProperties
<1>3. \A n : StagesIn(Append(stages, e), n) = IF e.call = n THEN Append(StagesIn(stages, n), e.stage) ELSE StagesIn(stages, n)
  BY <1>1, StageAfter
<1> QED  BY <1>2, <1>3

\* The sequences of states and stages a call goes through.
LEMMA Courses ==
  /\ Append(Append(<<>>, "queued"), "failed") = <<"queued", "failed">>
  /\ Append(Append(<<>>, "queued"), "running") = <<"queued", "running">>
  /\ Append(<<"queued", "running">>, "failed") = <<"queued", "running", "failed">>
  /\ Append(<<"queued", "running">>, "succeeded") = <<"queued", "running", "succeeded">>
  /\ Append(<<>>, "failed") = <<"failed">> /\ Append(<<>>, "started") = <<"started">>
  /\ Append(<<"started">>, "failed") = <<"started", "failed">>
  /\ Append(<<"started">>, "completed") = <<"started", "completed">>
<1> DEFINE S == {"queued", "running", "failed", "succeeded", "started", "completed"}
<1>1. "queued" \in S /\ "running" \in S /\ "failed" \in S /\ "succeeded" \in S /\ "started" \in S /\ "completed" \in S
  OBVIOUS
<1> HIDE DEF S
<1>2. Append(<<>>, "queued") = <<"queued">> /\ Append(<<>>, "failed") = <<"failed">> /\ Append(<<>>, "started") = <<"started">>
  BY AppendTo0
<1>3. Append(<<"queued">>, "failed") = <<"queued", "failed">>
  BY <1>1, AppendTo1
<1>4. Append(<<"queued">>, "running") = <<"queued", "running">>
  BY <1>1, AppendTo1
<1>5. Append(<<"started">>, "failed") = <<"started", "failed">>
  BY <1>1, AppendTo1
<1>6. Append(<<"started">>, "completed") = <<"started", "completed">>
  BY <1>1, AppendTo1
<1>7. Append(<<"queued", "running">>, "failed") = <<"queued", "running", "failed">>
  BY <1>1, AppendTo2
<1>8. Append(<<"queued", "running">>, "succeeded") = <<"queued", "running", "succeeded">>
  BY <1>1, AppendTo2
<1> QED  BY <1>2, <1>3, <1>4, <1>5, <1>6, <1>7, <1>8

\* While the plan stays, the states and stages after a step are read off the log and the
\* trace after it.
LEMMA ReadAfter ==
  ASSUME UNCHANGED <<plan, side, actor>>
  PROVE  /\ Reports' = Reports /\ Stages' = Stages /\ LastReports' = LastReports
         /\ \A n : StatesOf(n)' = StatusesIn(log', n) /\ StagesOf(n)' = StagesIn(stages', n)
         /\ \A n : StatesOf(n) = StatusesIn(log, n) /\ StagesOf(n) = StagesIn(stages, n)
<1>1. Reports' = Reports /\ Stages' = Stages
  BY DEF Reports, Stages
<1>2. LastReports' = LastReports
  BY <1>1 DEF LastReports
<1>3. \A n : StatesOf(n)' = StatusesIn(log', n) /\ StagesOf(n)' = StagesIn(stages', n)
  BY <1>1 DEF StatesOf, StagesOf, StatusesIn, StagesIn
<1>4. \A n : StatesOf(n) = StatusesIn(log, n) /\ StagesOf(n) = StagesIn(stages, n)
  BY DEF StatesOf, StagesOf, StatusesIn, StagesIn
<1> QED  BY <1>1, <1>2, <1>3, <1>4

\* The first state.
LEMMA InitMcpInv ==
  ASSUME McpInit
  PROVE  McpInv
<1>1. Len(plan) \in Nat
  <2>1. PICK m \in 0..MaxPlan : plan \in [1..m -> PlannedCall]
    BY McpBounds DEF McpInit, BoundedSeq, SeqOf
  <2> QED  BY <2>1, McpBounds
<1>2. McpTypeOK
  <2>1. log \in Seq(Reports) /\ stages \in Seq(Stages)
    BY DEF McpInit
  <2>2. given \in [1..Len(plan) -> Owner \cup {Gone}] /\ taken \in 0..Len(plan) /\ running \in BOOLEAN
    <3>1. given \in [1..Len(plan) -> Owner \cup {Gone}]
      BY DEF McpInit
    <3>2. taken \in 0..Len(plan)
      BY <1>1 DEF McpInit
    <3> QED  BY <3>1, <3>2 DEF McpInit
  <2> QED  BY <2>1, <2>2 DEF McpInit, McpTypeOK
<1>3. \A T : SelectIn(log, T) = <<>>
  <2> SUFFICES ASSUME NEW T PROVE SelectIn(log, T) = <<>>
    OBVIOUS
  <2>1. log = <<>> /\ log \in Seq({}) /\ Len(log) = 0
    BY DEF McpInit
  <2>2. SelectInOf(log, T)[0] = <<>>
    BY <2>1, SelectInNone
  <2> QED  BY <2>1, <2>2 DEF SelectIn
<1>4. stages = log
  BY DEF McpInit
<1>5. \A n : StatesOf(n) = <<>> /\ StagesOf(n) = <<>>
  <2>1. \A n : StatesOf(n) = [i \in DOMAIN <<>> |-> <<>>[i].status]
    BY <1>3 DEF StatesOf
  <2>2. \A n : StagesOf(n) = [i \in DOMAIN <<>> |-> <<>>[i].stage]
    BY <1>3, <1>4 DEF StagesOf
  <2> QED  BY <2>1, <2>2
<1>6. CallsHaveTheirPlace
  BY <1>1, <1>5 DEF CallsHaveTheirPlace, IsToCome, McpInit
<1>7. GivenIsOwn
  BY DEF GivenIsOwn, McpInit
<1>8. InCallOrder(log, taken) /\ InCallOrder(SelectIn(log, LastReports), taken)
  <2>1. log = <<>> /\ SelectIn(log, LastReports) = <<>>
    BY <1>3 DEF McpInit
  <2> QED  BY <2>1 DEF InCallOrder
<1> QED  BY <1>2, <1>6, <1>7, <1>8 DEF McpInv, McpInit

\* A call begins: b is its second report, e its stage, and either it is under way
\* afterwards or it is over.
LEMMA CallBegins ==
  ASSUME McpInv, taken < Len(plan), ~running, taken' = taken + 1, running' \in BOOLEAN,
         UNCHANGED <<side, actor, plan, owner, given>>,
         NEW b \in Reports, NEW e \in Stages,
         log' = log \o <<Logged("queued"), b>>, stages' = Append(stages, e), b.call = taken + 1, e.call = taken + 1,
         running' => b.status = "running" /\ e.stage = "started" /\ Known(plan[taken + 1].tool) /\ Admitted(plan[taken + 1].tool),
         ~running' => b.status = "failed" /\ e.stage = "failed"
  PROVE  McpInv'
<1>1. Len(plan) \in Nat /\ taken \in Nat /\ taken + 1 \in 1..Len(plan) /\ taken' \in 0..Len(plan) /\ McpTypeOK
  BY McpTypes DEF McpInv
<1> DEFINE a == Logged("queued")
<1>2. a \in Reports /\ a.call = taken + 1 /\ a.status = "queued"
  BY <1>1 DEF Logged, Reports
<1>3. /\ Reports' = Reports /\ Stages' = Stages /\ LastReports' = LastReports
      /\ \A n : StatesOf(n)' = StatusesIn(log', n) /\ StagesOf(n)' = StagesIn(stages', n)
      /\ \A n : StatesOf(n) = StatusesIn(log, n) /\ StagesOf(n) = StagesIn(stages, n)
  BY ReadAfter
<1> HIDE DEF a
<1>4. /\ log' \in Seq(Reports)
      /\ \A n : StatusesIn(log', n) = IF n = taken + 1 THEN Append(Append(StatusesIn(log, n), "queued"), b.status) ELSE StatusesIn(log, n)
      /\ InCallOrder(log', taken + 1) /\ InCallOrder(SelectIn(log', LastReports), taken + 1)
  <2>1. log' = log \o <<a, b>>
    BY DEF a
  <2>2. /\ log \o <<a, b>> \in Seq(Reports)
        /\ \A n : StatusesIn(log \o <<a, b>>, n) =
                    IF n = taken + 1 THEN Append(Append(StatusesIn(log, n), a.status), b.status) ELSE StatusesIn(log, n)
        /\ InCallOrder(log \o <<a, b>>, taken + 1) /\ InCallOrder(SelectIn(log \o <<a, b>>, LastReports), taken + 1)
    BY <1>2, FirstReports
  <2> QED  BY <1>2, <2>1, <2>2
<1>5. /\ stages' \in Seq(Stages)
      /\ \A n : StagesIn(stages', n) = IF n = taken + 1 THEN Append(StagesIn(stages, n), e.stage) ELSE StagesIn(stages, n)
  BY <1>1, NextStage
<1>6. McpTypeOK'
  BY <1>1, <1>3, <1>4, <1>5 DEF McpTypeOK
<1>7. CallsHaveTheirPlace'
  <2>1. ASSUME NEW n \in 1..Len(plan), n # taken + 1
        PROVE  StatesOf(n)' = StatesOf(n) /\ StagesOf(n)' = StagesOf(n)
    BY <1>3, <1>4, <1>5, <2>1
  <2>2. ASSUME NEW n \in 1..Len(plan), n # taken + 1
        PROVE  /\ n > taken' => IsToCome(n)'
               /\ n < taken' => IsOver(n)'
    <3>1. n > taken => IsToCome(n)
      BY DEF McpInv, CallsHaveTheirPlace
    <3>2. n <= taken => IsOver(n)
      BY <1>1 DEF McpInv, CallsHaveTheirPlace
    <3>3. (IsToCome(n) => IsToCome(n)') /\ (IsOver(n) => IsOver(n)')
      BY <2>1, <2>2 DEF IsToCome, IsOver, Admitted, allowAdminWithScope, allowSignedIn
    <3>4. (n > taken' => n > taken) /\ (n < taken' => n <= taken)
      BY <1>1
    <3> QED  BY <3>1, <3>2, <3>3, <3>4
  <2> PICK m : m = taken + 1
    OBVIOUS
  <2>3. StatesOf(m) = <<>> /\ StagesOf(m) = <<>>
    BY <1>1 DEF McpInv, CallsHaveTheirPlace, IsToCome
  <2>4. /\ StatesOf(m)' = Append(Append(<<>>, "queued"), b.status)
        /\ StagesOf(m)' = Append(<<>>, e.stage)
    BY <1>3, <1>4, <1>5, <2>3
  <2>5. running' => IsUnderWay(m)'
    BY <2>4, Courses DEF IsUnderWay, Admitted, allowAdminWithScope, allowSignedIn
  <2>6. ~running' => IsOver(m)'
    BY <2>4, Courses DEF IsOver
  <2>7. \A n \in 1..Len(plan) :
          /\ n > taken' => IsToCome(n)'
          /\ n = taken' /\ running' => IsUnderWay(n)'
          /\ n < taken' \/ (n = taken' /\ ~running') => IsOver(n)'
    <3> TAKE n \in 1..Len(plan)
    <3>1. CASE n = m
      <4>1. ~(n > taken') /\ ~(n < taken') /\ n = taken'
        BY <1>1, <3>1
      <4> QED  BY <2>5, <2>6, <3>1, <4>1
    <3>2. CASE n # m
      <4>1. n # taken' /\ n # taken + 1
        BY <3>2
      <4> QED  BY <2>2, <3>2, <4>1
    <3> QED  BY <3>1, <3>2
  <2> QED  BY <2>7 DEF CallsHaveTheirPlace
<1>8. GivenIsOwn'
  BY DEF GivenIsOwn, McpInv
<1>9. InCallOrder(log, taken)' /\ InCallOrder(SelectIn(log, LastReports), taken)'
  BY <1>3, <1>4 DEF InCallOrder
<1>10. (running => taken >= 1)'
  BY <1>1
<1> QED  BY <1>6, <1>7, <1>8, <1>9, <1>10 DEF McpInv

\* The last call ends.
LEMMA CallEnds ==
  ASSUME McpInv, running, taken' = taken, ~running', running' \in BOOLEAN,
         UNCHANGED <<side, actor, plan, owner>>,
         given' \in [1..Len(plan) -> Owner \cup {Gone}], GivenIsOwn',
         NEW b \in Reports, NEW e \in Stages,
         log' = Append(log, b), stages' = Append(stages, e), b.call = taken, e.call = taken,
         \/ b.status = "failed" /\ e.stage = "failed"
         \/ b.status = "succeeded" /\ e.stage = "completed"
  PROVE  McpInv'
<1>1. Len(plan) \in Nat /\ taken \in 1..Len(plan) /\ McpTypeOK
  BY McpTypes DEF McpInv
<1>3. /\ Reports' = Reports /\ Stages' = Stages /\ LastReports' = LastReports
      /\ \A n : StatesOf(n)' = StatusesIn(log', n) /\ StagesOf(n)' = StagesIn(stages', n)
      /\ \A n : StatesOf(n) = StatusesIn(log, n) /\ StagesOf(n) = StagesIn(stages, n)
  BY ReadAfter
<1>4. /\ log' \in Seq(Reports)
      /\ \A n : StatusesIn(log', n) = IF n = taken THEN Append(StatusesIn(log, n), b.status) ELSE StatusesIn(log, n)
      /\ InCallOrder(log', taken) /\ InCallOrder(SelectIn(log', LastReports), taken)
  BY NextReport
<1>5. /\ stages' \in Seq(Stages)
      /\ \A n : StagesIn(stages', n) = IF n = taken THEN Append(StagesIn(stages, n), e.stage) ELSE StagesIn(stages, n)
  BY <1>1, NextStage
<1>6. McpTypeOK'
  BY <1>1, <1>3, <1>4, <1>5 DEF McpTypeOK
<1>7. CallsHaveTheirPlace'
  <2>1. ASSUME NEW n \in 1..Len(plan), n # taken
        PROVE  StatesOf(n)' = StatesOf(n) /\ StagesOf(n)' = StagesOf(n)
    BY <1>1, <1>3, <1>4, <1>5, <2>1
  <2>2. ASSUME NEW n \in 1..Len(plan), n # taken
        PROVE  /\ n > taken' => IsToCome(n)'
               /\ n < taken' => IsOver(n)'
    <3>1. n > taken => IsToCome(n)
      BY DEF McpInv, CallsHaveTheirPlace
    <3>2. n < taken => IsOver(n)
      BY <1>1 DEF McpInv, CallsHaveTheirPlace
    <3>3. (IsToCome(n) => IsToCome(n)') /\ (IsOver(n) => IsOver(n)')
      BY <2>1, <2>2 DEF IsToCome, IsOver, Admitted, allowAdminWithScope, allowSignedIn
    <3> QED  BY <3>1, <3>2, <3>3
  <2>3. IsUnderWay(taken)
    BY <1>1 DEF McpInv, CallsHaveTheirPlace
  <2>4. /\ StatesOf(taken) = <<"queued", "running">> /\ StagesOf(taken) = <<"started">>
        /\ Known(plan[taken].tool) /\ Admitted(plan[taken].tool)
    BY <2>3 DEF IsUnderWay
  <2>5. /\ StatusesIn(log', taken) = Append(<<"queued", "running">>, b.status)
        /\ StagesIn(stages', taken) = Append(<<"started">>, e.stage)
    BY <1>3, <1>4, <1>5, <2>4
  <2>6. StatesOf(taken)' = StatusesIn(log', taken) /\ StagesOf(taken)' = StagesIn(stages', taken)
    BY <1>3 DEF StatesOf, StagesOf, StatusesIn, StagesIn
  <2>7. IsOver(taken)'
    BY <2>4, <2>5, <2>6, Courses DEF IsOver, Admitted, allowAdminWithScope, allowSignedIn
  <2>8. \A n \in 1..Len(plan) :
          /\ n > taken' => IsToCome(n)'
          /\ n = taken' /\ running' => IsUnderWay(n)'
          /\ n < taken' \/ (n = taken' /\ ~running') => IsOver(n)'
    <3> TAKE n \in 1..Len(plan)
    <3>1. CASE n = taken
      <4>1. ~(n > taken')
        BY <1>1, <3>1
      <4>2. IsOver(n)'
        BY <2>7, <3>1 DEF IsOver, StatesOf, StagesOf, Admitted, Known, allowAdminWithScope, allowSignedIn
      <4> QED  BY <4>1, <4>2
    <3>2. CASE n # taken
      BY <2>2, <3>2
    <3> QED  BY <3>1, <3>2
  <2> QED  BY <2>8 DEF CallsHaveTheirPlace
<1>9. InCallOrder(log, taken)' /\ InCallOrder(SelectIn(log, LastReports), taken)'
  BY <1>3, <1>4 DEF InCallOrder
<1>10. (running => taken >= 1)'
  BY <1>1
<1> QED  BY <1>6, <1>7, <1>9, <1>10 DEF McpInv

\* A step of the tool calls.
LEMMA NextMcpInv ==
  ASSUME McpInv, [McpNext]_mcpVars
  PROVE  McpInv'
<1>1. Len(plan) \in Nat /\ taken \in 0..Len(plan) /\ McpTypeOK
  BY McpTypes DEF McpInv
<1>2. CASE RefuseCall
  <2>1. /\ taken < Len(plan) /\ ~running /\ taken' = taken + 1 /\ taken + 1 \in 1..Len(plan)
        /\ UNCHANGED <<side, actor, plan, owner, running, given>>
    BY <1>1, <1>2 DEF RefuseCall
  <2>2. Logged("failed") \in Reports /\ Logged("failed").call = taken + 1 /\ Logged("failed").status = "failed"
    BY <2>1 DEF Logged, Reports, Terminal
  <2>3. Traced("failed") \in Stages /\ Traced("failed").call = taken + 1 /\ Traced("failed").stage = "failed"
    BY <2>1 DEF Traced, Stages
  <2>4. log' = log \o <<Logged("queued"), Logged("failed")>> /\ stages' = Append(stages, Traced("failed"))
    BY <1>2 DEF RefuseCall
  <2>5. running' \in BOOLEAN /\ ~running'
    <3>1. running \in BOOLEAN /\ running' = running /\ ~running
      BY <1>1, <2>1 DEF McpTypeOK
    <3> QED  BY <3>1
  <2> QED  BY <2>1, <2>2, <2>3, <2>4, <2>5, CallBegins
<1>3. CASE StartCall
  <2>1. /\ taken < Len(plan) /\ ~running /\ taken' = taken + 1 /\ taken + 1 \in 1..Len(plan)
        /\ UNCHANGED <<side, actor, plan, owner, given>>
    BY <1>1, <1>3 DEF StartCall
  <2>2. Logged("running") \in Reports /\ Logged("running").call = taken + 1 /\ Logged("running").status = "running"
    BY <2>1 DEF Logged, Reports, Terminal
  <2>3. Traced("started") \in Stages /\ Traced("started").call = taken + 1 /\ Traced("started").stage = "started"
    BY <2>1 DEF Traced, Stages
  <2>4. log' = log \o <<Logged("queued"), Logged("running")>> /\ stages' = Append(stages, Traced("started"))
    BY <1>3 DEF StartCall
  <2>5. running' /\ running' \in BOOLEAN
    BY <1>3 DEF StartCall
  <2>6. Known(plan[taken + 1].tool) /\ Admitted(plan[taken + 1].tool)
    BY <1>3, <2>1 DEF StartCall
  <2> QED  BY <2>1, <2>2, <2>3, <2>4, <2>5, <2>6, CallBegins
<1>4. CASE CallSucceeds
  <2>1. running /\ taken' = taken /\ ~running' /\ UNCHANGED <<side, actor, plan, owner>> /\ running' \in BOOLEAN
    BY <1>4 DEF CallSucceeds
  <2>2. taken \in 1..Len(plan)
    BY <1>1, <2>1 DEF McpInv
  <2>3. Logged("succeeded") \in Reports /\ Logged("succeeded").call = taken /\ Logged("succeeded").status = "succeeded"
    BY <2>1, <2>2 DEF Logged, Reports, Terminal
  <2>4. Traced("completed") \in Stages /\ Traced("completed").call = taken /\ Traced("completed").stage = "completed"
    BY <2>1, <2>2 DEF Traced, Stages
  <2>5. log' = Append(log, Logged("succeeded")) /\ stages' = Append(stages, Traced("completed"))
    BY <1>4 DEF CallSucceeds
  <2> DEFINE r == plan[taken].names
             o == IF r # Nil /\ Visible(r) THEN owner[r] ELSE Gone
  <2>6. given' = [given EXCEPT ![taken] = o] /\ given \in [1..Len(plan) -> Owner \cup {Gone}]
    BY <1>1, <1>4 DEF CallSucceeds, McpTypeOK
  <2>7. r \in Records \cup {Nil}
    <3>1. PICK m \in 0..MaxPlan : plan \in [1..m -> PlannedCall]
      BY <1>1 DEF McpTypeOK, BoundedSeq, SeqOf
    <3>2. taken \in 1..m
      BY <2>2, <3>1, McpBounds
    <3>3. plan[taken] \in PlannedCall
      BY <3>1, <3>2
    <3> QED  BY <3>3 DEF PlannedCall
  <2>8. o \in Owner \cup {Gone}
    BY <1>1, <2>7 DEF McpTypeOK
  <2>9. o # Gone => actor.tenant \in {Nil, o.tenant} /\ actor.org \in {Nil, o.org}
    <3>1. side \in {"python", "web"}
      BY <1>1 DEF McpTypeOK, McpSides
    <3> QED  BY <3>1 DEF Visible
  <2> HIDE DEF o, r
  <2>10. given' \in [1..Len(plan) -> Owner \cup {Gone}]
    BY <2>6, <2>8
  <2>11. \A n \in 1..Len(plan) : given'[n] = IF n = taken THEN o ELSE given[n]
    BY <2>6
  <2>12. GivenIsOwn'
    BY <2>1, <2>9, <2>11 DEF GivenIsOwn, McpInv
  <2> QED  BY <2>1, <2>3, <2>4, <2>5, <2>10, <2>12, CallEnds
<1>5. CASE CallFails
  <2>1. running /\ taken' = taken /\ ~running' /\ UNCHANGED <<side, actor, plan, owner, given>> /\ running' \in BOOLEAN
    BY <1>5 DEF CallFails
  <2>2. taken \in 1..Len(plan)
    BY <1>1, <2>1 DEF McpInv
  <2>3. Logged("failed") \in Reports /\ Logged("failed").call = taken /\ Logged("failed").status = "failed"
    BY <2>1, <2>2 DEF Logged, Reports, Terminal
  <2>4. Traced("failed") \in Stages /\ Traced("failed").call = taken /\ Traced("failed").stage = "failed"
    BY <2>1, <2>2 DEF Traced, Stages
  <2>5. log' = Append(log, Logged("failed")) /\ stages' = Append(stages, Traced("failed"))
    BY <1>5 DEF CallFails
  <2>6. given' \in [1..Len(plan) -> Owner \cup {Gone}]
    BY <1>1, <2>1 DEF McpTypeOK
  <2>7. GivenIsOwn'
    BY <2>1 DEF GivenIsOwn, McpInv
  <2> QED  BY <2>1, <2>3, <2>4, <2>5, <2>6, <2>7, CallEnds
<1>6. ASSUME owner' \in [Records -> Owner \cup {Gone}],
             UNCHANGED <<side, actor, plan, taken, running, log, stages, given>>
      PROVE  McpInv'
  <2>1. /\ Reports' = Reports /\ Stages' = Stages /\ LastReports' = LastReports
        /\ \A n : StatesOf(n)' = StatusesIn(log', n) /\ StagesOf(n)' = StagesIn(stages', n)
        /\ \A n : StatesOf(n) = StatusesIn(log, n) /\ StagesOf(n) = StagesIn(stages, n)
    BY <1>6, ReadAfter
  <2>2. McpTypeOK'
    BY <1>1, <1>6, <2>1 DEF McpTypeOK
  <2>3. \A n : StatesOf(n)' = StatesOf(n) /\ StagesOf(n)' = StagesOf(n)
    BY <1>6, <2>1
  <2>4. CallsHaveTheirPlace'
    BY <1>6, <2>3 DEF McpInv, CallsHaveTheirPlace, IsToCome, IsUnderWay, IsOver, Admitted, allowAdminWithScope, allowSignedIn
  <2>5. GivenIsOwn'
    BY <1>6 DEF McpInv, GivenIsOwn
  <2>6. InCallOrder(log, taken)' /\ InCallOrder(SelectIn(log, LastReports), taken)'
    BY <1>6, <2>1 DEF McpInv, InCallOrder
  <2> QED  BY <1>6, <2>2, <2>4, <2>5, <2>6 DEF McpInv
<1>7. ASSUME NEW r \in Records, RecordChanges(r)
      PROVE  McpInv'
  <2>1. UNCHANGED <<side, actor, plan, taken, running, log, stages, given>>
    BY <1>7 DEF RecordChanges
  <2>2. owner' \in [Records -> Owner \cup {Gone}]
    BY <1>1, <1>7 DEF RecordChanges, McpTypeOK
  <2> QED  BY <1>6, <2>1, <2>2
<1>8. CASE UNCHANGED mcpVars
  BY <1>1, <1>6, <1>8 DEF mcpVars, McpTypeOK
<1> QED  BY <1>2, <1>3, <1>4, <1>5, <1>7, <1>8 DEF McpNext

\* What the invariant says of the calls made so far.
LEMMA InvGivesCalls ==
  ASSUME McpInv
  PROVE  EachCallEndsOnce
<1>1. Len(plan) \in Nat /\ taken \in 0..Len(plan) /\ log \in Seq(Reports)
  BY McpTypes DEF McpInv
<1>2. \A i, j \in DOMAIN toolCalls : i < j => toolCalls[i].call <= toolCalls[j].call
  <2>1. toolCalls = log \/ toolCalls = SelectIn(log, LastReports)
    BY DEF toolCalls, LastReports
  <2> QED  BY <2>1 DEF McpInv, InCallOrder
<1>3. ASSUME NEW n \in 1..taken
      PROVE  /\ \/ n = taken /\ running /\ StatesOf(n) = <<"queued", "running">> /\ StagesOf(n) = <<"started">>
                \/ IsOver(n)
             /\ given[n] # Gone => actor.tenant \in {Nil, given[n].tenant} /\ actor.org \in {Nil, given[n].org}
  <2>1. n \in 1..Len(plan) /\ (n = taken \/ n < taken)
    BY <1>1
  <2>2. running \in BOOLEAN
    BY DEF McpInv, McpTypeOK
  <2>3. (n = taken /\ running) \/ n < taken \/ (n = taken /\ ~running)
    BY <2>1, <2>2
  <2>4. n = taken /\ running => IsUnderWay(n)
    BY <2>1 DEF McpInv, CallsHaveTheirPlace
  <2>5. n < taken \/ (n = taken /\ ~running) => IsOver(n)
    BY <2>1 DEF McpInv, CallsHaveTheirPlace
  <2>6. given[n] # Gone => actor.tenant \in {Nil, given[n].tenant} /\ actor.org \in {Nil, given[n].org}
    BY <2>1 DEF McpInv, GivenIsOwn
  <2> QED  BY <2>3, <2>4, <2>5, <2>6 DEF IsUnderWay
<1> QED  BY <1>2, <1>3 DEF EachCallEndsOnce, IsOver

\* Each planned call has one outcome, in the log, in the trace and in the answer alike,
\* before the next call begins, and an actor is given nothing of another tenant or
\* organisation, whatever other processes do to the records meanwhile.
THEOREM EachCallHasOneEnd == McpSpec => []EachCallEndsOnce
<1>1. McpInit => McpInv
  BY InitMcpInv
<1>2. McpInv /\ [McpNext]_mcpVars => McpInv'
  BY NextMcpInv
<1>3. McpInv => EachCallEndsOnce
  BY InvGivesCalls
<1> QED  BY <1>1, <1>2, <1>3, PTL DEF McpSpec

-----------------------------------------------------------------------------
(* The registry of the modules *)

\* The first n elements of a sequence.
StartOf(s, n) == {s[i] : i \in 1..n}
Done == Cardinality(bootstrapped)

MarkedAreFirst ==
  /\ IsFiniteSet(bootstrapped) /\ Done \in 0..Len(modules)
  /\ bootstrapped = StartOf(modules, Done)

NothingIsPassedOver ==
  IF Done = Len(modules)
  THEN contributed = OfferOf(bootstrapped)
  ELSE \E k \in 0..Len(offer[modules[Done + 1]]) :
         contributed = OfferOf(bootstrapped) \cup StartOf(offer[modules[Done + 1]], k)

RegistryInv ==
  /\ RegistryTypeOK /\ MarkedAreFirst /\ NothingIsPassedOver
  /\ (applying => ToSet(Defaults) \subseteq ToSet(modules))
  /\ (bootOutcome = "whole" => OfferOf(ToSet(Defaults)) \subseteq contributed)

\* The first k elements as a set.
LEMMA StartIs ==
  ASSUME NEW E, NEW q \in Seq(E), NEW k \in 0..Len(q)
  PROVE  ToSet(SubSeq(q, 1, k)) = StartOf(q, k)
<1> DEFINE r == SubSeq(q, 1, k)
<1>1. Len(q) \in Nat /\ k \in Nat /\ k <= Len(q) /\ \A j \in 1..k : q[j] \in E
  BY ElementOfSeq
<1>2. r \in Seq(E) /\ Len(r) = k /\ \A j \in 1..k : r[j] = q[j]
  <2>1. /\ r \in Seq(E)
        /\ Len(r) = IF 1 <= k THEN k - 1 + 1 ELSE 0
        /\ \A j \in 1..(k - 1 + 1) : r[j] = q[1 + j - 1]
    BY <1>1, SubSeqProperties
  <2> HIDE DEF r
  <2> QED  BY <1>1, <2>1
<1> HIDE DEF r
<1>3. DOMAIN r = 1..k
  BY <1>2, Elements
<1> QED  BY <1>2, <1>3 DEF ToSet, StartOf, r

\* All of them, and one more than the first k.
LEMMA StartGrows ==
  ASSUME NEW E, NEW q \in Seq(E)
  PROVE  /\ StartOf(q, Len(q)) = ToSet(q) /\ StartOf(q, 0) = {}
         /\ \A k \in 0..Len(q) : StartOf(q, k) \subseteq ToSet(q) /\ ToSet(q) \subseteq E
         /\ \A k \in 0..Len(q) : StartOf(q, k + 1) = StartOf(q, k) \cup {q[k + 1]}
         /\ \A k, j \in 0..Len(q) : StartOf(q, k) \cup StartOf(q, j) = StartOf(q, IF k <= j THEN j ELSE k)
<1>1. DOMAIN q = 1..Len(q) /\ Len(q) \in Nat /\ \A i \in DOMAIN q : q[i] \in E
  BY Elements
<1>2. StartOf(q, Len(q)) = ToSet(q) /\ StartOf(q, 0) = {} /\ ToSet(q) \subseteq E
  BY <1>1 DEF StartOf, ToSet
<1>3. \A k \in 0..Len(q) : StartOf(q, k) \subseteq ToSet(q)
  BY <1>1 DEF StartOf, ToSet
<1>4. ASSUME NEW k \in 0..Len(q)
      PROVE  StartOf(q, k + 1) = StartOf(q, k) \cup {q[k + 1]}
  <2>1. k \in Nat /\ 1..(k + 1) = (1..k) \cup {k + 1}
    OBVIOUS
  <2> QED  BY <2>1 DEF StartOf
<1>5. ASSUME NEW k \in 0..Len(q), NEW j \in 0..Len(q)
      PROVE  StartOf(q, k) \cup StartOf(q, j) = StartOf(q, IF k <= j THEN j ELSE k)
  <2>1. CASE k <= j
    BY <2>1 DEF StartOf
  <2>2. CASE ~(k <= j)
    BY <2>2 DEF StartOf
  <2> QED  BY <2>1, <2>2
<1> QED  BY <1>2, <1>3, <1>4, <1>5

\* What is known of the registered modules, of their offers and of the next of them.
LEMMA RegistryTypes ==
  ASSUME RegistryTypeOK, MarkedAreFirst
  PROVE  /\ modules \in Seq(ModuleNames) /\ Len(modules) \in Nat /\ DOMAIN modules = 1..Len(modules)
         /\ \A i \in 1..Len(modules) : modules[i] \in ModuleNames
         /\ \A m \in ModuleNames : offer[m] \in Seq(Offerable) /\ Len(offer[m]) \in Nat
         /\ Done \in 0..Len(modules) /\ (AllBootstrapped <=> Done = Len(modules))
         /\ Done # Len(modules) =>
              /\ Done + 1 \in 1..Len(modules) /\ modules[Done + 1] \in ModuleNames \ bootstrapped
              /\ NextModule = modules[Done + 1]
<1>1. modules \in Seq(ModuleNames) /\ Len(modules) \in Nat /\ DOMAIN modules = 1..Len(modules)
      /\ \A i \in 1..Len(modules) : modules[i] \in ModuleNames
  <2>1. modules \in Seq(ModuleNames)
    BY DEF RegistryTypeOK
  <2> QED  BY <2>1, Elements
<1>2. ASSUME NEW m \in ModuleNames
      PROVE  offer[m] \in Seq(Offerable) /\ Len(offer[m]) \in Nat
  <2>1. offer[m] \in BoundedSeq(Offerable, 2)
    BY DEF RegistryTypeOK
  <2>2. PICK n \in 0..2 : offer[m] \in [1..n -> Offerable]
    BY <2>1 DEF BoundedSeq, SeqOf
  <2> QED  BY <2>2
<1>3. Done \in 0..Len(modules) /\ bootstrapped = StartOf(modules, Done)
  BY DEF MarkedAreFirst
<1>4. \A i, j \in 1..Len(modules) : modules[i] = modules[j] => i = j
  BY <1>1 DEF RegistryTypeOK, IsInjective
<1>5. ASSUME Done # Len(modules)
      PROVE  /\ Done + 1 \in 1..Len(modules) /\ modules[Done + 1] \in ModuleNames \ bootstrapped
             /\ NextModule = modules[Done + 1] /\ ~AllBootstrapped
  <2> DEFINE b == Done + 1
  <2>1. b \in 1..Len(modules) /\ \A i \in 1..Done : i \in 1..Len(modules) /\ i # b
    <3>1. Len(modules) \in Nat /\ Done \in 0..Len(modules)
      BY <1>1, <1>3
    <3>2. Done < Len(modules)
      BY ONLY <1>5, <3>1
    <3> QED  BY ONLY <3>1, <3>2
  <2>2. modules[b] \notin bootstrapped
    BY <1>3, <1>4, <2>1 DEF StartOf
  <2>3. modules[b] \in ModuleNames \ bootstrapped
    BY <1>1, <2>1, <2>2
  <2>4. \A i \in 1..(b - 1) : modules[i] \notin ModuleNames \ bootstrapped
    <3>1. b - 1 = Done
      BY <1>3
    <3> QED  BY <1>3, <3>1 DEF StartOf
  <2>5. modules[b] \in ToSet(modules)
    BY <1>1, <2>1 DEF ToSet
  <2> HIDE DEF b
  <2>6. SelectIn(modules, ModuleNames \ bootstrapped)[1] = modules[b]
    BY <1>1, <2>1, <2>3, <2>4, SelectInFirst
  <2> QED  BY <2>1, <2>2, <2>3, <2>5, <2>6 DEF NextModule, AllBootstrapped, b
<1>6. ASSUME Done = Len(modules)
      PROVE  AllBootstrapped
  BY <1>1, <1>3, <1>6, StartGrows DEF AllBootstrapped
<1> QED  BY <1>1, <1>2, <1>3, <1>5, <1>6

\* How many contributions are taken is between none and all.
LEMMA AcceptedIs ==
  ASSUME NEW m, offer[m] \in Seq(Offerable)
  PROVE  AcceptedOf(m) \in 0..Len(offer[m])
<1> DEFINE L == Len(offer[m])
           before(k) == ToSet(SubSeq(offer[m], 1, k))
           Stops(k) == k < L => Refused(offer[m][k + 1], contributed \cup before(k))
           Fits(k) == (\A i \in 1..k : ~Refused(offer[m][i], contributed \cup before(i - 1))) /\ Stops(k)
           K == {k \in 0..L : Stops(k)}
<1>1. L \in Nat
  OBVIOUS
<1>2. L \in K
  BY <1>1
<1>3. K \in SUBSET Nat /\ K # {}
  BY <1>2
<1>4. PICK k \in K : \A j \in K : k <= j
  <2> HIDE DEF K
  <2> QED  BY <1>3, LeastNumber
<1>5. ASSUME NEW i \in 1..k
      PROVE  ~Refused(offer[m][i], contributed \cup before(i - 1))
  <2>1. k \in 0..L /\ i - 1 \in 0..L /\ i - 1 < k /\ i - 1 < L /\ (i - 1) + 1 = i
    BY <1>1, <1>4
  <2>2. i - 1 \notin K
    <3> HIDE DEF K
    <3>1. k \in Int /\ i - 1 \in Int /\ ~(k <= i - 1)
      BY <2>1
    <3> QED  BY <1>4, <3>1
  <2>3. ~Stops(i - 1)
    <3> HIDE DEF Stops
    <3> QED  BY <2>1, <2>2
  <2> QED  BY <2>1, <2>3
<1>6. k \in 0..L /\ Fits(k)
  <2> HIDE DEF Stops
  <2> QED  BY <1>4, <1>5
<1>7. AcceptedOf(m) = CHOOSE j \in 0..L : Fits(j)
  BY DEF AcceptedOf
<1> HIDE DEF Fits
<1> QED  BY <1>6, <1>7

\* More registered modules, and the same contributions.
LEMMA MoreModules ==
  ASSUME RegistryInv, RegistryTypeOK', UNCHANGED <<offer, bootstrapped, contributed>>,
         Len(modules) <= Len(modules'), \A i \in 1..Len(modules) : modules'[i] = modules[i]
  PROVE  MarkedAreFirst' /\ NothingIsPassedOver'
<1>1. /\ Len(modules) \in Nat /\ Done \in 0..Len(modules)
      /\ \A m \in ModuleNames : offer[m] \in Seq(Offerable) /\ Len(offer[m]) \in Nat
  BY RegistryTypes DEF RegistryInv
<1>2. modules' \in Seq(ModuleNames) /\ Len(modules') \in Nat /\ \A i \in 1..Len(modules') : modules'[i] \in ModuleNames
  <2>1. modules' \in Seq(ModuleNames)
    BY DEF RegistryTypeOK
  <2> QED  BY <2>1, Elements
<1>3. Done' = Done /\ OfferOf(bootstrapped)' = OfferOf(bootstrapped)
  BY DEF Done, OfferOf
<1>4. StartOf(modules', Done) = StartOf(modules, Done)
  BY <1>1 DEF StartOf
<1>5. MarkedAreFirst'
  <2>1. IsFiniteSet(bootstrapped) /\ bootstrapped = StartOf(modules, Done)
    BY DEF RegistryInv, MarkedAreFirst
  <2>2. Done \in 0..Len(modules')
    BY <1>1, <1>2
  <2> QED  BY <1>3, <1>4, <2>1, <2>2 DEF MarkedAreFirst, StartOf
<1>6. CASE Done = Len(modules')
  <2>1. Done = Len(modules)
    BY <1>1, <1>2, <1>6
  <2>2. contributed = OfferOf(bootstrapped)
    BY <2>1 DEF RegistryInv, NothingIsPassedOver
  <2> QED  BY <1>3, <1>5, <1>6, <2>2 DEF NothingIsPassedOver
<1>7. CASE Done # Len(modules') /\ Done = Len(modules)
  <2> DEFINE m == modules'[Done + 1]
  <2>1. Done + 1 \in 1..Len(modules')
    BY <1>1, <1>2, <1>7
  <2>2. m \in ModuleNames
    BY <1>2, <2>1
  <2>3. contributed = OfferOf(bootstrapped)
    BY <1>7 DEF RegistryInv, NothingIsPassedOver
  <2> HIDE DEF m
  <2>4. 0 \in 0..Len(offer[m]) /\ StartOf(offer[m], 0) = {}
    BY <1>1, <2>2, StartGrows
  <2>5. contributed = OfferOf(bootstrapped) \cup StartOf(offer[m], 0)
    BY <2>3, <2>4
  <2> QED  BY <1>3, <1>5, <1>7, <2>4, <2>5 DEF NothingIsPassedOver, m, StartOf
<1>8. CASE Done # Len(modules') /\ Done # Len(modules)
  <2>1. Done + 1 \in 1..Len(modules)
    BY <1>1, <1>8
  <2>2. modules'[Done + 1] = modules[Done + 1]
    BY <2>1
  <2>3. \E k \in 0..Len(offer[modules[Done + 1]]) :
          contributed = OfferOf(bootstrapped) \cup StartOf(offer[modules[Done + 1]], k)
    BY <1>8 DEF RegistryInv, NothingIsPassedOver
  <2>4. (\E k \in 0..Len(offer[modules[Done + 1]]) :
           contributed = OfferOf(bootstrapped) \cup StartOf(offer[modules[Done + 1]], k))'
    BY <1>3, <2>2, <2>3 DEF StartOf
  <2>5. (Done # Len(modules))'
    BY <1>3, <1>8
  <2>6. NothingIsPassedOver'
    BY ONLY <2>4, <2>5 DEF NothingIsPassedOver
  <2> QED  BY <1>5, <2>6
<1> QED  BY <1>5, <1>6, <1>7, <1>8

\* A module is registered, by itself or among the defaults.
LEMMA MoreRegistered ==
  ASSUME RegistryInv, NEW t \in Seq(ModuleNames), NoneTwice(t), ToSet(modules) \cap ToSet(t) = {},
         modules' = modules \o t, UNCHANGED <<offer, bootstrapped, contributed, clears>>,
         applying' \in BOOLEAN, bootOutcome' \in {"none", "whole", "raised"}
  PROVE  /\ RegistryTypeOK' /\ MarkedAreFirst' /\ NothingIsPassedOver'
         /\ ToSet(modules') = ToSet(modules) \cup ToSet(t)
<1>1. modules \in Seq(ModuleNames) /\ Len(modules) \in Nat /\ Len(t) \in Nat /\ RegistryTypeOK
  BY RegistryTypes DEF RegistryInv
<1>2. NoneTwice(modules)
  BY <1>1 DEF RegistryTypeOK, IsInjective, NoneTwice
<1>3. ToSet(modules) = Range(modules) /\ ToSet(t) = Range(t)
  BY DEF ToSet, Range
<1>4. /\ NoneTwice(modules \o t) /\ modules \o t \in Seq(ModuleNames) /\ Len(modules \o t) = Len(modules) + Len(t)
      /\ \A i \in 1..Len(modules) : (modules \o t)[i] = modules[i]
      /\ Range(modules \o t) = Range(modules) \cup Range(t)
  BY <1>1, <1>2, <1>3, ConcatDistinct
<1>5. ToSet(modules') = ToSet(modules) \cup ToSet(t)
  <2>1. ToSet(modules') = Range(modules \o t)
    BY DEF ToSet, Range
  <2> QED  BY <1>3, <1>4, <2>1
<1>6. IsInjective(modules')
  BY <1>4 DEF IsInjective, NoneTwice
<1>7. bootstrapped \subseteq ToSet(modules')
  BY <1>1, <1>5 DEF RegistryTypeOK
<1>8. RegistryTypeOK'
  BY <1>1, <1>4, <1>6, <1>7 DEF RegistryTypeOK
<1>9. Len(modules) <= Len(modules') /\ \A i \in 1..Len(modules) : modules'[i] = modules[i]
  BY <1>1, <1>4
<1> QED  BY <1>5, <1>8, <1>9, MoreModules

\* The contributions of the next module are taken, all of them or some.
LEMMA ApplyKeepsInv ==
  ASSUME RegistryInv, ApplyModule
  PROVE  RegistryInv'
<1> DEFINE m == NextModule
           k == AcceptedOf(m)
           b == Done + 1
           All == OfferOf(bootstrapped)
<1>1. /\ Len(modules) \in Nat /\ Done \in 0..Len(modules) /\ modules \in Seq(ModuleNames) /\ DOMAIN modules = 1..Len(modules)
      /\ \A i \in 1..Len(modules) : modules[i] \in ModuleNames
      /\ \A n \in ModuleNames : offer[n] \in Seq(Offerable) /\ Len(offer[n]) \in Nat
  BY RegistryTypes DEF RegistryInv
<1>2. Done # Len(modules)
  BY RegistryTypes DEF RegistryInv, ApplyModule
<1>3. b \in 1..Len(modules) /\ m \in ModuleNames \ bootstrapped /\ m = modules[b]
  BY <1>2, RegistryTypes DEF RegistryInv
<1>4. offer[m] \in Seq(Offerable) /\ Len(offer[m]) \in Nat
  BY <1>1, <1>3
<1>5. k \in 0..Len(offer[m])
  BY <1>4, AcceptedIs
<1>6. /\ applying
      /\ contributed' = contributed \cup ToSet(SubSeq(offer[m], 1, k))
      /\ IF k = Len(offer[m])
         THEN bootstrapped' = bootstrapped \cup {m} /\ UNCHANGED <<applying, bootOutcome>>
         ELSE applying' = FALSE /\ bootOutcome' = "raised" /\ UNCHANGED bootstrapped
      /\ UNCHANGED <<offer, modules, clears>>
  BY DEF ApplyModule
<1> HIDE DEF k, m
<1>7. ToSet(SubSeq(offer[m], 1, k)) = StartOf(offer[m], k)
  BY <1>4, <1>5, StartIs
<1>8. PICK j \in 0..Len(offer[m]) : contributed = All \cup StartOf(offer[m], j)
  BY <1>2, <1>3 DEF RegistryInv, NothingIsPassedOver
<1>9. PICK l \in 0..Len(offer[m]) : contributed' = All \cup StartOf(offer[m], l) /\ l >= k
  <2> DEFINE l == IF j <= k THEN k ELSE j
  <2>1. l \in 0..Len(offer[m]) /\ l >= k
    BY <1>4, <1>5
  <2>2. StartOf(offer[m], j) \cup StartOf(offer[m], k) = StartOf(offer[m], l)
    BY <1>4, <1>5, StartGrows
  <2> HIDE DEF l
  <2>3. contributed' = All \cup StartOf(offer[m], l)
    BY <1>6, <1>7, <1>8, <2>2
  <2> QED  BY <2>1, <2>3
<1>10. contributed \subseteq contributed' /\ contributed' \subseteq Offerable
  <2>1. StartOf(offer[m], k) \subseteq Offerable
    BY <1>4, <1>5, StartGrows
  <2>2. contributed \subseteq Offerable
    BY DEF RegistryInv, RegistryTypeOK
  <2> QED  BY <1>6, <1>7, <2>1, <2>2
<1>11. (applying' => ToSet(Defaults) \subseteq ToSet(modules')) /\ (bootOutcome' = "whole" => OfferOf(ToSet(Defaults))' \subseteq contributed')
  <2>1. OfferOf(ToSet(Defaults))' = OfferOf(ToSet(Defaults))
    BY <1>6 DEF OfferOf
  <2>2. applying => ToSet(Defaults) \subseteq ToSet(modules)
    BY DEF RegistryInv
  <2>3. bootOutcome = "whole" => OfferOf(ToSet(Defaults)) \subseteq contributed
    BY DEF RegistryInv
  <2> QED  BY <1>6, <1>10, <2>1, <2>2, <2>3
<1>12. CASE k = Len(offer[m])
  <2>1. bootstrapped' = bootstrapped \cup {m} /\ UNCHANGED <<applying, bootOutcome, offer, modules, clears>>
    BY <1>6, <1>12
  <2>2. IsFiniteSet(bootstrapped) /\ bootstrapped = StartOf(modules, Done)
    BY DEF RegistryInv, MarkedAreFirst
  <2>3. IsFiniteSet(bootstrapped') /\ Done' = b
    <3>1. m \notin bootstrapped
      BY <1>3
    <3>2. IsFiniteSet(bootstrapped \cup {m}) /\ Cardinality(bootstrapped \cup {m}) = Cardinality(bootstrapped) + 1
      BY ONLY <2>2, <3>1, FS_AddElement
    <3> QED  BY <2>1, <3>2 DEF Done
  <2>4. StartOf(modules, b) = bootstrapped'
    BY <1>1, <1>3, <2>1, <2>2, StartGrows
  <2>5. MarkedAreFirst'
    <3>1. b \in 0..Len(modules')
      BY <1>3, <2>1
    <3>2. bootstrapped' = StartOf(modules', Done')
      BY <2>1, <2>3, <2>4
    <3> QED  BY <2>3, <3>1, <3>2 DEF MarkedAreFirst, StartOf
  <2>6. RegistryTypeOK'
    <3>1. m \in ToSet(modules)
      BY <1>1, <1>3 DEF ToSet
    <3> QED  BY <1>10, <2>1, <3>1 DEF RegistryInv, RegistryTypeOK
  <2>7. contributed' = OfferOf(bootstrapped)'
    <3>1. l = k
      BY <1>4, <1>5, <1>9, <1>12
    <3>2. StartOf(offer[m], k) = ToSet(offer[m])
      BY <1>4, <1>12, StartGrows
    <3>3. OfferOf(bootstrapped)' = All \cup ToSet(offer[m])
      BY <2>1 DEF OfferOf
    <3> QED  BY <1>9, <3>1, <3>2, <3>3
  <2>8. NothingIsPassedOver'
    <3>1. CASE b = Len(modules)
      BY <2>1, <2>3, <2>7, <3>1 DEF NothingIsPassedOver
    <3>2. CASE b # Len(modules)
      <4> DEFINE n == modules[b + 1]
      <4>1. b + 1 \in 1..Len(modules)
        BY <1>1, <1>3, <3>2
      <4>2. n \in ModuleNames
        BY <1>1, <4>1
      <4> HIDE DEF n
      <4>3. 0 \in 0..Len(offer[n]) /\ StartOf(offer[n], 0) = {}
        BY <1>1, <4>2, StartGrows
      <4>4. contributed' = OfferOf(bootstrapped)' \cup StartOf(offer[n], 0)
        BY <2>7, <4>3
      <4> QED  BY <2>1, <2>3, <3>2, <4>3, <4>4 DEF NothingIsPassedOver, n, StartOf
    <3> QED  BY <3>1, <3>2
  <2> QED  BY <1>11, <2>5, <2>6, <2>8 DEF RegistryInv
<1>13. CASE k # Len(offer[m])
  <2>1. UNCHANGED <<bootstrapped, offer, modules, clears>> /\ applying' = FALSE /\ bootOutcome' = "raised"
    BY <1>6, <1>13
  <2>2. RegistryTypeOK'
    BY <1>10, <2>1 DEF RegistryInv, RegistryTypeOK
  <2>3. MarkedAreFirst' /\ Done' = Done /\ OfferOf(bootstrapped)' = All
    BY <2>1 DEF RegistryInv, MarkedAreFirst, Done, OfferOf, StartOf
  <2>4. NothingIsPassedOver'
    BY <1>2, <1>3, <1>9, <2>1, <2>3 DEF NothingIsPassedOver, StartOf
  <2> QED  BY <1>11, <2>2, <2>3, <2>4 DEF RegistryInv
<1> QED  BY <1>12, <1>13

\* The first state.
LEMMA InitRegistryInv ==
  ASSUME RegistryInit
  PROVE  RegistryInv
<1>1. modules = <<>> /\ Len(modules) = 0 /\ DOMAIN modules = {} /\ bootstrapped = {} /\ contributed = {}
  BY DEF RegistryInit
<1>2. modules \in Seq(ModuleNames)
  BY <1>1
<1>3. RegistryTypeOK
  <2>1. IsInjective(modules)
    BY <1>1 DEF IsInjective
  <2>2. clears \in 0..MaxClears
    BY RegistryBounds DEF RegistryInit
  <2> QED  BY <1>1, <1>2, <2>1, <2>2 DEF RegistryInit, RegistryTypeOK
<1>4. IsFiniteSet(bootstrapped) /\ Done = 0
  BY <1>1, FS_EmptySet DEF Done
<1>5. MarkedAreFirst
  BY <1>1, <1>4 DEF MarkedAreFirst, StartOf
<1>6. NothingIsPassedOver
  BY <1>1, <1>4 DEF NothingIsPassedOver, OfferOf
<1> QED  BY <1>3, <1>5, <1>6 DEF RegistryInv, RegistryInit

\* A step of the registry.
LEMMA NextRegistryInv ==
  ASSUME RegistryInv, [RegistryNext]_registryVars
  PROVE  RegistryInv'
<1>1. /\ RegistryTypeOK /\ Len(modules) \in Nat /\ (AllBootstrapped <=> Done = Len(modules))
      /\ (applying => ToSet(Defaults) \subseteq ToSet(modules))
      /\ (bootOutcome = "whole" => OfferOf(ToSet(Defaults)) \subseteq contributed)
  BY RegistryTypes DEF RegistryInv
<1>2. ASSUME UNCHANGED <<offer, modules, bootstrapped, contributed, clears>>,
             applying' \in BOOLEAN, bootOutcome' \in {"none", "whole", "raised"},
             applying' => ToSet(Defaults) \subseteq ToSet(modules),
             bootOutcome' = "whole" => OfferOf(ToSet(Defaults)) \subseteq contributed
      PROVE  RegistryInv'
  <2>1. RegistryTypeOK'
    BY <1>1, <1>2 DEF RegistryTypeOK
  <2>2. Len(modules) <= Len(modules') /\ \A i \in 1..Len(modules) : modules'[i] = modules[i]
    BY <1>1, <1>2
  <2>3. MarkedAreFirst' /\ NothingIsPassedOver'
    BY <1>2, <2>1, <2>2, MoreModules
  <2>4. OfferOf(ToSet(Defaults))' = OfferOf(ToSet(Defaults))
    BY <1>2 DEF OfferOf
  <2> QED  BY <1>2, <2>1, <2>3, <2>4 DEF RegistryInv
<1>3. ASSUME NEW m \in Plugins, RegisterPlugin(m)
      PROVE  RegistryInv'
  <2>1. /\ ~applying /\ m \in Plugins \ ToSet(modules) /\ modules' = Append(modules, m)
        /\ UNCHANGED <<offer, bootstrapped, contributed, applying, bootOutcome, clears>>
    BY <1>3 DEF RegisterPlugin
  <2>2. m \in ModuleNames
    BY DEF ModuleNames
  <2>3. modules' = modules \o <<m>>
    BY <1>1, <2>1, <2>2, AppendIsConcat DEF RegistryTypeOK
  <2>4. <<m>> \in Seq(ModuleNames) /\ NoneTwice(<<m>>) /\ ToSet(<<m>>) = {m}
    BY <2>2 DEF NoneTwice, ToSet
  <2>5. ToSet(modules) \cap ToSet(<<m>>) = {}
    BY <2>1, <2>4
  <2>6. applying' \in BOOLEAN /\ bootOutcome' \in {"none", "whole", "raised"}
    BY <1>1, <2>1 DEF RegistryTypeOK
  <2>7. RegistryTypeOK' /\ MarkedAreFirst' /\ NothingIsPassedOver' /\ ToSet(modules') = ToSet(modules) \cup ToSet(<<m>>)
    BY <2>1, <2>3, <2>4, <2>5, <2>6, MoreRegistered
  <2>8. OfferOf(ToSet(Defaults))' = OfferOf(ToSet(Defaults))
    BY <2>1 DEF OfferOf
  <2> QED  BY <1>1, <2>1, <2>7, <2>8 DEF RegistryInv
<1>4. CASE BootstrapDefaultModules
  <2> DEFINE t == SelectIn(Defaults, ModuleNames \ ToSet(modules))
  <2>1. /\ ~applying /\ applying' = TRUE /\ modules' = modules \o t
        /\ UNCHANGED <<offer, bootstrapped, contributed, bootOutcome, clears>>
    BY <1>4 DEF BootstrapDefaultModules
  <2>2. Defaults \in Seq(ToSet(Defaults)) /\ NoneTwice(Defaults)
    BY RegistryBounds DEF IsInjective, NoneTwice
  <2>3. t \in Seq(ToSet(Defaults)) /\ Range(t) = Range(Defaults) \cap (ModuleNames \ ToSet(modules)) /\ NoneTwice(t)
    BY <2>2, SelectInType, SelectInDistinct
  <2> HIDE DEF t
  <2>4. Range(Defaults) = ToSet(Defaults) /\ Range(t) = ToSet(t) /\ ToSet(Defaults) \subseteq ModuleNames
    BY DEF Range, ToSet, ModuleNames
  <2>5. t \in Seq(ModuleNames)
    BY <2>3, <2>4, SeqMonotonic
  <2>6. ToSet(modules) \cap ToSet(t) = {}
    BY <2>3, <2>4
  <2>7. applying' \in BOOLEAN /\ bootOutcome' \in {"none", "whole", "raised"}
    BY <1>1, <2>1 DEF RegistryTypeOK
  <2>8. RegistryTypeOK' /\ MarkedAreFirst' /\ NothingIsPassedOver' /\ ToSet(modules') = ToSet(modules) \cup ToSet(t)
    BY <2>1, <2>3, <2>5, <2>6, <2>7, MoreRegistered
  <2>9. ToSet(Defaults) \subseteq ToSet(modules')
    BY <2>3, <2>4, <2>8
  <2>10. OfferOf(ToSet(Defaults))' = OfferOf(ToSet(Defaults))
    BY <2>1 DEF OfferOf
  <2> QED  BY <1>1, <2>1, <2>8, <2>9, <2>10 DEF RegistryInv
<1>5. CASE ApplyModule
  BY <1>5, ApplyKeepsInv
<1>6. CASE ModuleRaises
  <2>1. applying' = FALSE /\ bootOutcome' = "raised" /\ UNCHANGED <<offer, modules, bootstrapped, contributed, clears>>
    BY <1>6 DEF ModuleRaises
  <2> QED  BY <1>2, <2>1
<1>7. CASE BootstrapReturns
  <2>1. /\ applying /\ AllBootstrapped /\ applying' = FALSE /\ bootOutcome' = "whole"
        /\ UNCHANGED <<offer, modules, bootstrapped, contributed, clears>>
    BY <1>7 DEF BootstrapReturns
  <2>2. contributed = OfferOf(bootstrapped)
    BY <1>1, <2>1 DEF RegistryInv, NothingIsPassedOver
  <2>3. ToSet(Defaults) \subseteq bootstrapped
    BY <1>1, <2>1 DEF AllBootstrapped
  <2>4. OfferOf(ToSet(Defaults)) \subseteq contributed
    BY <2>2, <2>3 DEF OfferOf
  <2> QED  BY <1>2, <2>1, <2>4
<1>8. CASE ClearRegistry
  <2>1. /\ ~applying /\ clears' \in 0..MaxClears
        /\ modules' = <<>> /\ bootstrapped' = {} /\ contributed' = {} /\ bootOutcome' = "none"
        /\ UNCHANGED <<offer, applying>>
    BY <1>1, <1>8, RegistryBounds DEF ClearRegistry, RegistryTypeOK
  <2>2. modules' \in Seq(ModuleNames) /\ Len(modules') = 0 /\ DOMAIN modules' = {}
    BY <2>1
  <2>3. IsInjective(modules')
    BY <2>2 DEF IsInjective
  <2>4. RegistryTypeOK'
    BY <1>1, <2>1, <2>2, <2>3 DEF RegistryTypeOK
  <2>5. IsFiniteSet(bootstrapped') /\ Done' = 0
    BY <2>1, FS_EmptySet DEF Done
  <2>6. MarkedAreFirst'
    BY <2>1, <2>2, <2>5 DEF MarkedAreFirst, StartOf
  <2>7. NothingIsPassedOver'
    BY <2>1, <2>2, <2>5 DEF NothingIsPassedOver, OfferOf
  <2> QED  BY <2>1, <2>4, <2>6, <2>7 DEF RegistryInv
<1>9. CASE UNCHANGED registryVars
  BY <1>1, <1>2, <1>9 DEF registryVars, RegistryTypeOK
<1> QED  BY <1>3, <1>4, <1>5, <1>6, <1>7, <1>8, <1>9 DEF RegistryNext

\* What the invariant says of the marked modules.
LEMMA InvGivesWhole ==
  ASSUME RegistryInv
  PROVE  BootstrappedAreWhole
<1>1. /\ modules \in Seq(ModuleNames) /\ Len(modules) \in Nat /\ Done \in 0..Len(modules)
      /\ \A i \in 1..Len(modules) : modules[i] \in ModuleNames
      /\ \A m \in ModuleNames : offer[m] \in Seq(Offerable) /\ Len(offer[m]) \in Nat
      /\ (AllBootstrapped <=> Done = Len(modules))
      /\ Done # Len(modules) => Done + 1 \in 1..Len(modules) /\ NextModule = modules[Done + 1]
  BY RegistryTypes DEF RegistryInv
<1>2. bootstrapped = ToSet(SubSeq(modules, 1, Cardinality(bootstrapped)))
  BY <1>1, StartIs DEF RegistryInv, MarkedAreFirst, Done
<1>3. CASE AllBootstrapped
  BY <1>1, <1>2, <1>3 DEF RegistryInv, NothingIsPassedOver, BootstrappedAreWhole
<1>4. CASE ~AllBootstrapped
  <2> DEFINE m == NextModule
  <2>1. offer[m] \in Seq(Offerable) /\ m = modules[Done + 1] /\ Done # Len(modules)
    BY <1>1, <1>4
  <2> HIDE DEF m
  <2>2. PICK k \in 0..Len(offer[m]) : contributed = OfferOf(bootstrapped) \cup StartOf(offer[m], k)
    BY <2>1 DEF RegistryInv, NothingIsPassedOver
  <2>3. StartOf(offer[m], k) = ToSet(SubSeq(offer[m], 1, k))
    BY <2>1, StartIs
  <2>4. \E j \in 0..Len(offer[m]) : contributed = OfferOf(bootstrapped) \cup ToSet(SubSeq(offer[m], 1, j))
    BY <2>2, <2>3
  <2> QED  BY <1>2, <1>4, <2>4 DEF RegistryInv, BootstrappedAreWhole, m
<1> QED  BY <1>3, <1>4

\* Whatever is registered, refused or raised, in whatever order and however often: a
\* marked module has all it offers in the registries, none is passed over, and a
\* bootstrap that returns has brought in every default module.
THEOREM MarkedModulesAreWhole == RegistrySpec => []BootstrappedAreWhole
<1>1. RegistryInit => RegistryInv
  BY InitRegistryInv
<1>2. RegistryInv /\ [RegistryNext]_registryVars => RegistryInv'
  BY NextRegistryInv
<1>3. RegistryInv => BootstrappedAreWhole
  BY InvGivesWhole
<1> QED  BY <1>1, <1>2, <1>3, PTL DEF RegistrySpec

-----------------------------------------------------------------------------
(* The hybrid search *)

\* A number that divides another evenly.
LEMMA Divides ==
  ASSUME NEW n \in Nat, NEW d \in Nat \ {0}, n % d = 0
  PROVE  n = d * (n \div d) /\ n \div d \in Nat
BY SMT

\* Multiplication is monotone.
LEMMA TimesMore ==
  ASSUME NEW a \in Nat, NEW b \in Nat, NEW k \in Nat
  PROVE  /\ a <= b => a * k <= b * k /\ k * a <= k * b
         /\ a < b /\ k > 0 => a * k < b * k
         /\ a * k \in Nat /\ k * a \in Nat
<1>1. a * k \in Nat /\ k * a \in Nat /\ b * k \in Nat /\ k * b \in Nat
  BY SMT
<1>2. a <= b => a * k <= b * k
  BY SMT
<1>3. a <= b => k * a <= k * b
  BY SMT
<1>4. a < b /\ k > 0 => a * k < b * k
  BY SMT
<1>. QED  BY <1>1, <1>2, <1>3, <1>4

\* The further down a list, the smaller the share.
LEMMA ReciprocalFalls ==
  ASSUME NEW i \in 1..Cardinality(Chunks), NEW j \in 1..Cardinality(Chunks), Cardinality(Chunks) \in Nat, i < j
  PROVE  Reciprocal(j) < Reciprocal(i)
<1>. DEFINE a == 60 + i  b == 60 + j  m == CommonUnit \div a  n == CommonUnit \div b
<1>1. /\ a \in Nat \ {0} /\ b \in Nat \ {0} /\ a < b
      /\ CommonUnit \in Nat \ {0} /\ CommonUnit % a = 0 /\ CommonUnit % b = 0
  BY HybridBounds
<1>2. Reciprocal(i) = m /\ Reciprocal(j) = n
  BY DEF Reciprocal
<1>. HIDE DEF a, b
<1>3. CommonUnit = a * m /\ CommonUnit = b * n /\ m \in Nat /\ n \in Nat
  BY <1>1, Divides
<1>. HIDE DEF m, n
<1>4. n # 0
  BY <1>1, <1>3
<1>5. a * n < b * n
  BY <1>1, <1>3, <1>4, TimesMore
<1>6. ~(m <= n)
  <2>1. m <= n => a * m <= a * n
    BY <1>1, <1>3, TimesMore
  <2>2. a * m \in Int /\ a * n \in Int /\ b * n \in Int
    BY <1>1, <1>3
  <2>. QED  BY ONLY <1>3, <1>5, <2>1, <2>2
<1>. QED  BY <1>2, <1>3, <1>6

\* Shares are natural numbers.
LEMMA ReciprocalType ==
  ASSUME NEW i \in 1..Cardinality(Chunks), Cardinality(Chunks) \in Nat
  PROVE  Reciprocal(i) \in Nat /\ Reciprocal(i) > 0
<1>. DEFINE a == 60 + i  m == CommonUnit \div a
<1>1. a \in Nat \ {0} /\ CommonUnit \in Nat \ {0} /\ CommonUnit % a = 0
  BY HybridBounds
<1>2. Reciprocal(i) = m
  BY DEF Reciprocal
<1>. HIDE DEF a
<1>3. CommonUnit = a * m /\ m \in Nat
  BY <1>1, Divides
<1>. HIDE DEF m
<1>. QED  BY <1>1, <1>2, <1>3

\* An order of a set is a list of each of its elements.
LEMMA OrdersList ==
  ASSUME NEW E, IsFiniteSet(E), NEW S \in SUBSET E, NEW s \in Orders(S)
  PROVE  /\ s \in Seq(E) /\ s \in Seq(S) /\ NoneTwice(s)
         /\ Len(s) = Cardinality(S) /\ DOMAIN s = 1..Cardinality(S)
         /\ Cardinality(S) \in Nat /\ Cardinality(S) <= Cardinality(E) /\ Cardinality(E) \in Nat
         /\ \A i \in DOMAIN s : s[i] \in S
         /\ \A c \in S : Has(s, c)
<1>1. /\ IsFiniteSet(S) /\ Cardinality(S) \in Nat /\ Cardinality(S) <= Cardinality(E)
      /\ Cardinality(E) \in Nat
  BY FS_Subset, FS_CardinalityType
<1>. DEFINE D == 1..Cardinality(S)
<1>2. s \in [D -> S] /\ \A i, j \in D : i # j => s[i] # s[j]
  BY DEF Orders, SetToSeqs
<1>3. IsFiniteSet(D) /\ Cardinality(D) = Cardinality(S)
  BY <1>1, FS_Interval
<1>4. s \in Injection(D, S)
  BY <1>2 DEF Injection, IsInjective
<1>5. s \in Surjection(D, S)
  BY <1>1, <1>3, <1>4, FS_Injection
<1>6. s \in Seq(S) /\ s \in Seq(E) /\ Len(s) = Cardinality(S)
  BY <1>1, <1>2
<1>7. NoneTwice(s)
  BY <1>2 DEF NoneTwice
<1>8. \A c \in S : \E i \in D : s[i] = c
  BY <1>5 DEF Surjection
<1>. QED  BY <1>1, <1>2, <1>6, <1>7, <1>8 DEF Has

\* Where an element of a list stands.
LEMMA Ranks ==
  ASSUME NEW s, NoneTwice(s)
  PROVE  /\ \A i \in DOMAIN s : RankIn(s, s[i]) = i /\ Has(s, s[i])
         /\ \A c : Has(s, c) => RankIn(s, c) \in DOMAIN s /\ s[RankIn(s, c)] = c
BY DEF RankIn, Has, NoneTwice

\* One element stands before another.
Ahead(s, a, b) == \E i, j \in DOMAIN s : i < j /\ s[i] = a /\ s[j] = b

\* For an element the list has, this is what Before says.
LEMMA BeforeIsAhead ==
  ASSUME NEW E, NEW s \in Seq(E), NoneTwice(s), NEW a, NEW b, Has(s, b)
  PROVE  Before(s, a, b) <=> Ahead(s, a, b)
<1>1. ASSUME Before(s, a, b) PROVE Ahead(s, a, b)
  <2>1. Has(s, a) /\ RankIn(s, a) < RankIn(s, b)
    BY <1>1 DEF Before
  <2>2. RankIn(s, a) \in DOMAIN s /\ s[RankIn(s, a)] = a /\ RankIn(s, b) \in DOMAIN s /\ s[RankIn(s, b)] = b
    BY <2>1, Ranks
  <2>. QED  BY <2>1, <2>2 DEF Ahead
<1>2. ASSUME Ahead(s, a, b) PROVE Before(s, a, b)
  <2>1. PICK i \in DOMAIN s, j \in DOMAIN s : i < j /\ s[i] = a /\ s[j] = b
    BY <1>2 DEF Ahead
  <2>2. RankIn(s, a) = i /\ RankIn(s, b) = j /\ Has(s, a)
    BY <2>1, Ranks
  <2>. QED  BY <2>1, <2>2 DEF Before
<1>. QED  BY <1>1, <1>2

\* The first of a list.
LEMMA Firsts ==
  ASSUME NEW E, NEW s \in Seq(E), NoneTwice(s), NEW n \in Nat
  PROVE  LET p == FirstOf(s, n)  m == IF n < Len(s) THEN n ELSE Len(s) IN
         /\ m \in Nat /\ m <= Len(s) /\ p \in Seq(E) /\ Len(p) = m /\ DOMAIN p = 1..m /\ NoneTwice(p)
         /\ DOMAIN s = 1..Len(s) /\ Len(s) \in Nat
         /\ \A i \in 1..m : p[i] = s[i] /\ i \in DOMAIN s
<1>. DEFINE m == IF n < Len(s) THEN n ELSE Len(s)
           p == FirstOf(s, n)
<1>1. DOMAIN s = 1..Len(s) /\ Len(s) \in Nat /\ \A i \in DOMAIN s : s[i] \in E
  BY Elements
<1>2. m \in Nat /\ m <= Len(s) /\ p = SubSeq(s, 1, m)
  BY <1>1 DEF FirstOf
<1>. HIDE DEF m, p
<1>3. p \in Seq(E) /\ Len(p) = m /\ \A i \in 1..m : p[i] = s[i]
  <2>1. \A i \in 1..m : s[i] \in E
    BY <1>1, <1>2
  <2>2. /\ SubSeq(s, 1, m) \in Seq(E)
        /\ Len(SubSeq(s, 1, m)) = IF 1 <= m THEN m - 1 + 1 ELSE 0
        /\ \A i \in 1..(m - 1 + 1) : SubSeq(s, 1, m)[i] = s[1 + i - 1]
    BY <1>1, <1>2, SubSeqProperties
  <2>3. \A i \in 1..m : i \in 1..(m - 1 + 1) /\ 1 + i - 1 = i
    BY <1>2
  <2>. QED  BY <1>2, <2>2, <2>3
<1>4. DOMAIN p = 1..m
  BY <1>3, Elements
<1>5. NoneTwice(p)
  BY <1>1, <1>2, <1>3, <1>4 DEF NoneTwice
<1>. QED  BY <1>1, <1>2, <1>3, <1>4, <1>5 DEF m, p

\* What is first of a list stands there as it stands in the list.
LEMMA FirstsAhead ==
  ASSUME NEW E, NEW s \in Seq(E), NoneTwice(s), NEW n \in Nat, NEW a, NEW b
  PROVE  /\ Ahead(FirstOf(s, n), a, b) => Ahead(s, a, b)
         /\ Ahead(s, a, b) /\ Has(FirstOf(s, n), b) => Ahead(FirstOf(s, n), a, b)
         /\ Has(FirstOf(s, n), b) => Has(s, b)
         /\ Len(s) <= n /\ Has(s, b) => Has(FirstOf(s, n), b)
<1>. DEFINE p == FirstOf(s, n)
           m == IF n < Len(s) THEN n ELSE Len(s)
<1>1. /\ m \in Nat /\ m <= Len(s) /\ DOMAIN p = 1..m
      /\ DOMAIN s = 1..Len(s) /\ Len(s) \in Nat
      /\ \A i \in 1..m : p[i] = s[i] /\ i \in DOMAIN s
  BY Firsts
<1>2. Len(s) <= n => m = Len(s)
  <2>1. Len(s) \in Nat
    BY Elements
  <2>. QED  BY ONLY <2>1, n \in Nat
<1>. HIDE DEF m, p
<1>3. Ahead(p, a, b) => Ahead(s, a, b)
  BY <1>1 DEF Ahead
<1>4. ASSUME Ahead(s, a, b), Has(p, b) PROVE Ahead(p, a, b)
  <2>1. PICK i \in DOMAIN s, j \in DOMAIN s : i < j /\ s[i] = a /\ s[j] = b
    BY <1>4 DEF Ahead
  <2>2. PICK k \in DOMAIN p : p[k] = b
    BY <1>4 DEF Has
  <2>3. k = j
    BY <1>1, <2>1, <2>2 DEF NoneTwice
  <2>4. i \in 1..m
    BY <1>1, <2>1, <2>2, <2>3
  <2>. QED  BY <1>1, <2>1, <2>2, <2>3, <2>4 DEF Ahead
<1>5. (Has(p, b) => Has(s, b)) /\ (Len(s) <= n /\ Has(s, b) => Has(p, b))
  BY <1>1, <1>2 DEF Has
<1>. QED  BY <1>3, <1>4, <1>5 DEF p

\* A finite set of numbers is bounded.
LEMMA Bounded ==
  ASSUME NEW V \in SUBSET Nat, IsFiniteSet(V)
  PROVE  \E n \in Nat : \A w \in V : w <= n
<1>. DEFINE N == Cardinality(V)
           Good == {k \in Nat : \A S \in SUBSET V : Cardinality(S) <= k => \E n \in Nat : \A w \in S : w <= n}
<1>1. N \in Nat
  BY FS_CardinalityType
<1>2. 0 \in Good
  <2>1. ASSUME NEW S \in SUBSET V, Cardinality(S) <= 0
        PROVE  \A w \in S : w <= 0
    <3>1. IsFiniteSet(S) /\ Cardinality(S) \in Nat
      BY FS_Subset, FS_CardinalityType
    <3>2. S = {}
      BY <2>1, <3>1, FS_EmptySet
    <3>. QED  BY <3>2
  <2>. QED  BY <2>1
<1>3. ASSUME NEW k \in 0..(N - 1), k \in Good
      PROVE  k + 1 \in Good
  <2>1. ASSUME NEW S \in SUBSET V, Cardinality(S) <= k + 1
        PROVE  \E n \in Nat : \A w \in S : w <= n
    <3>1. CASE S = {}
      BY <3>1
    <3>2. ASSUME NEW x \in S
          PROVE  \E n \in Nat : \A w \in S : w <= n
      <4>1. IsFiniteSet(S) /\ Cardinality(S) \in Nat
        BY FS_Subset, FS_CardinalityType
      <4>2. Cardinality(S \ {x}) = Cardinality(S) - 1
        BY <4>1, FS_RemoveElement
      <4>3. S \ {x} \in SUBSET V /\ Cardinality(S \ {x}) <= k
        BY <2>1, <4>1, <4>2
      <4>4. PICK n \in Nat : \A w \in S \ {x} : w <= n
        BY <1>3, <4>3
      <4>5. x \in Nat /\ \A w \in S : w \in Nat
        OBVIOUS
      <4>6. n + x \in Nat /\ \A w \in S : w <= n + x
        BY <4>4, <4>5
      <4>. QED  BY <4>6
    <3>. QED  BY <3>1, <3>2
  <2>. QED  BY <1>3, <2>1
<1>4. N \in Good
  <2>. HIDE DEF Good, N
  <2>. QED  BY <1>1, <1>2, <1>3, Induction
<1>. QED  BY <1>1, <1>4

\* The two lists, as they are once both are there.
ListsOK ==
  /\ \A s \in {dense, keyword} : s \in Seq(Chunks) /\ NoneTwice(s)

\* A list without repetitions is no longer than the set of what may be in it.
LEMMA NotLonger ==
  ASSUME NEW S, IsFiniteSet(S), NEW s \in Seq(S), NoneTwice(s)
  PROVE  Len(s) \in Nat /\ Len(s) <= Cardinality(S) /\ DOMAIN s = 1..Len(s) /\ Cardinality(S) \in Nat
<1>1. DOMAIN s = 1..Len(s) /\ Len(s) \in Nat /\ \A i \in DOMAIN s : s[i] \in S
  BY Elements
<1>2. Cardinality(S) \in Nat
  BY FS_CardinalityType
<1>3. s \in [1..Len(s) -> S]
  BY <1>1
<1>4. s \in Injection(1..Len(s), S)
  BY <1>1, <1>3 DEF Injection, IsInjective, NoneTwice
<1>5. Cardinality(1..Len(s)) <= Cardinality(S)
  BY <1>4, FS_Injection
<1>6. Cardinality(1..Len(s)) = Len(s)
  BY <1>1, FS_Interval
<1>. QED  BY <1>1, <1>2, <1>5, <1>6

\* What a list adds to the score of a chunk, and of one that it has further down.
LEMMA Shares ==
  ASSUME NEW s \in Seq(Chunks), NoneTwice(s), NEW a, NEW b
  PROVE  /\ Share(s, a) \in Nat /\ Share(s, b) \in Nat
         /\ Has(s, b) /\ Before(s, a, b) => Share(s, b) < Share(s, a)
         /\ ~Has(s, b) => Share(s, b) = 0
<1>1. Len(s) \in Nat /\ Len(s) <= Cardinality(Chunks) /\ DOMAIN s = 1..Len(s) /\ Cardinality(Chunks) \in Nat
  BY NotLonger, HybridBounds
<1>2. ASSUME NEW c, Has(s, c)
      PROVE  RankIn(s, c) \in 1..Cardinality(Chunks)
  BY <1>1, <1>2, Ranks
<1>3. ASSUME NEW c
      PROVE  Share(s, c) \in Nat
  BY <1>1, <1>2, ReciprocalType DEF Share
<1>4. ASSUME Has(s, b), Before(s, a, b)
      PROVE  Share(s, b) < Share(s, a)
  <2>1. Has(s, a) /\ RankIn(s, a) < RankIn(s, b)
    BY <1>4 DEF Before
  <2>2. Reciprocal(RankIn(s, b)) < Reciprocal(RankIn(s, a))
    BY <1>1, <1>2, <1>4, <2>1, ReciprocalFalls
  <2>. QED  BY <1>4, <2>1, <2>2 DEF Share
<1>. QED  BY <1>3, <1>4 DEF Share

\* A chunk that is ahead of another in every list that has the other scores higher.
LEMMA AheadScoresHigher ==
  ASSUME ListsOK, NEW a, NEW b, \A s \in {dense, keyword} : Has(s, b) => Before(s, a, b)
  PROVE  /\ FusedScore(a) \in Nat /\ FusedScore(b) \in Nat
         /\ Has(dense, b) \/ Has(keyword, b) => FusedScore(b) < FusedScore(a)
<1>1. /\ Share(dense, a) \in Nat /\ Share(dense, b) \in Nat
      /\ Has(dense, b) => Share(dense, b) < Share(dense, a)
      /\ ~Has(dense, b) => Share(dense, b) = 0
  BY Shares DEF ListsOK
<1>2. /\ Share(keyword, a) \in Nat /\ Share(keyword, b) \in Nat
      /\ Has(keyword, b) => Share(keyword, b) < Share(keyword, a)
      /\ ~Has(keyword, b) => Share(keyword, b) = 0
  BY Shares DEF ListsOK
<1>. QED  BY <1>1, <1>2 DEF FusedScore

\* So it is ahead of the other in the fused list.
LEMMA AheadIsFusedAhead ==
  ASSUME ListsOK, fused \in SortedBy(InALists, FusedScore),
         NEW a \in Chunks, NEW b \in Chunks, \A s \in {dense, keyword} : Has(s, b) => Before(s, a, b),
         Has(dense, b) \/ Has(keyword, b)
  PROVE  Ahead(fused, a, b) /\ FusedScore(b) < FusedScore(a)
<1>1. FusedScore(a) \in Nat /\ FusedScore(b) \in Nat /\ FusedScore(b) < FusedScore(a)
  BY AheadScoresHigher
<1>2. a \in InALists /\ b \in InALists
  BY DEF InALists, Before
<1>3. fused \in Orders(InALists) /\ \A i, j \in DOMAIN fused : i < j => FusedScore(fused[i]) >= FusedScore(fused[j])
  BY DEF SortedBy
<1>4. Has(fused, a) /\ Has(fused, b) /\ DOMAIN fused = 1..Cardinality(InALists)
  BY <1>2, <1>3, OrdersList, HybridBounds, InALists \in SUBSET Chunks DEF InALists
<1>5. PICK i \in DOMAIN fused, j \in DOMAIN fused : fused[i] = a /\ fused[j] = b
  BY <1>4 DEF Has
<1>6. i \in Int /\ j \in Int
  BY <1>4, <1>5
<1>7. ~(j < i)
  <2>1. j < i => FusedScore(b) >= FusedScore(a)
    BY <1>3, <1>5
  <2>. QED  BY <1>1, <2>1
<1>8. i # j
  <2>1. i = j => FusedScore(a) = FusedScore(b)
    BY <1>5
  <2>. QED  BY <1>1, <2>1
<1>. QED  BY <1>1, <1>5, <1>6, <1>7, <1>8 DEF Ahead

\* A finite list of numbers has a least and a greatest one.
LEMMA LeastAndMost ==
  ASSUME NEW S, IsFiniteSet(S), S # {}, NEW f \in [S -> Nat]
  PROVE  /\ Least(f) \in Nat /\ Most(f) \in Nat
         /\ \A c \in S : Least(f) <= f[c] /\ f[c] <= Most(f)
<1>. DEFINE V == {f[c] : c \in S}
<1>1. DOMAIN f = S /\ V \in SUBSET Nat /\ V # {}
  OBVIOUS
<1>2. PICK v \in V : \A w \in V : v <= w
  BY <1>1, LeastNumber
<1>3. Least(f) \in V /\ \A c \in S : Least(f) <= f[c]
  BY <1>1, <1>2 DEF Least
<1>4. \E v1 \in V : \A w \in V : v1 >= w
  <2>1. IsFiniteSet(V)
    <3>1. f \in Surjection(S, V)
      BY DEF Surjection
    <3>. QED  BY <3>1, FS_Surjection
  <2>. HIDE DEF V
  <2>2. PICK n \in Nat : \A w \in V : w <= n
    BY <1>1, <2>1, Bounded
  <2>. DEFINE G == {n - w : w \in V}
  <2>3. G \in SUBSET Nat /\ G # {}
    BY <1>1, <2>2
  <2>4. PICK g \in G : \A h \in G : g <= h
    BY <2>3, LeastNumber
  <2>5. PICK x \in V : g = n - x
    BY <2>4
  <2>6. ASSUME NEW w \in V
        PROVE  x >= w
    <3>1. n - w \in G
      OBVIOUS
    <3>2. n - x <= n - w
      BY <2>4, <2>5, <3>1
    <3>3. w \in Nat /\ x \in Nat
      BY <1>1
    <3>. QED  BY ONLY <3>2, <3>3, n \in Nat
  <2>. QED  BY <2>6
<1>5. Most(f) \in V /\ \A c \in S : Most(f) >= f[c]
  BY <1>1, <1>4 DEF Most
<1>. QED  BY <1>1, <1>3, <1>5

\* Every score is a number.
LEMMA SharesAreNumbers ==
  ASSUME ListsOK
  PROVE  \A c : FusedScore(c) \in Nat
<1>1. \A c : Share(dense, c) \in Nat /\ Share(keyword, c) \in Nat
  BY Shares DEF ListsOK
<1>. QED  BY <1>1 DEF FusedScore

\* A sequence is one of whatever its elements are in.
LEMMA SequenceOf ==
  ASSUME NEW E, NEW S, NEW s \in Seq(E), \A i \in 1..Len(s) : s[i] \in S
  PROVE  s \in Seq(S)
OBVIOUS

\* The scores of a chunk the reranker prefers to one that was fused below it.
LEMMA PreferredBlendsHigher ==
  ASSUME ListsOK, NEW candidates \in SUBSET Chunks, NEW answered \in SUBSET candidates,
         NEW scores \in [answered -> 0..MaxScore], NEW a \in answered, NEW b \in answered,
         \A c \in candidates : FusedScore(c) \in Nat,
         FusedScore(b) < FusedScore(a), scores[a] >= scores[b]
  PROVE  /\ BlendedScore(candidates, scores, a) \in Nat /\ BlendedScore(candidates, scores, b) \in Nat
         /\ BlendedScore(candidates, scores, b) < BlendedScore(candidates, scores, a)
<1>. DEFINE f == [d \in candidates |-> FusedScore(d)]
<1>1. IsFiniteSet(candidates) /\ IsFiniteSet(answered) /\ candidates # {} /\ answered # {}
  <2>1. IsFiniteSet(candidates)
    BY HybridBounds, FS_Subset
  <2>. QED  BY <2>1, FS_Subset
<1>2. f \in [candidates -> Nat] /\ f[b] < f[a] /\ a \in candidates /\ b \in candidates
  OBVIOUS
<1>3. scores \in [answered -> Nat] /\ scores[b] <= scores[a] /\ scores[a] \in Nat /\ scores[b] \in Nat
  BY HybridBounds
<1>. HIDE DEF f
<1>4. /\ Least(f) \in Nat /\ Most(f) \in Nat
      /\ Least(f) <= f[b] /\ f[a] <= Most(f) /\ f[a] \in Nat /\ f[b] \in Nat
  BY <1>1, <1>2, LeastAndMost
<1>5. /\ Least(scores) \in Nat /\ Most(scores) \in Nat
      /\ Least(scores) <= scores[b] /\ scores[a] <= Most(scores)
      /\ Least(scores) <= scores[a] /\ scores[b] <= Most(scores)
  BY <1>1, <1>3, LeastAndMost
<1>6. Above(f, a) \in Nat /\ Above(f, b) \in Nat /\ Above(f, b) < Above(f, a) /\ Spread(f) \in Nat
  BY <1>2, <1>4 DEF Above, Spread
<1>7. /\ Above(scores, a) \in Nat /\ Above(scores, b) \in Nat /\ Above(scores, b) <= Above(scores, a)
      /\ Spread(scores) \in Nat /\ Spread(scores) > 0
  <2>1. CASE Most(scores) <= Least(scores)
    <3>1. scores[a] = scores[b]
      BY <1>3, <1>5, <2>1
    <3>. QED  BY <2>1, <3>1 DEF Above, Spread
  <2>2. CASE ~(Most(scores) <= Least(scores))
    BY <1>3, <1>5, <2>2 DEF Above, Spread
  <2>. QED  BY <2>1, <2>2
<1>. DEFINE ua == Above(f, a)  ub == Above(f, b)  va == Above(scores, a)  vb == Above(scores, b)
           p == Spread(scores)  q == Spread(f)
<1>8. /\ BlendedScore(candidates, scores, a) = 3 * ua * p + 7 * va * q
      /\ BlendedScore(candidates, scores, b) = 3 * ub * p + 7 * vb * q
  BY DEF BlendedScore, f
<1>9. /\ ua \in Nat /\ ub \in Nat /\ va \in Nat /\ vb \in Nat /\ p \in Nat /\ q \in Nat
      /\ ub < ua /\ vb <= va /\ p > 0
  BY <1>6, <1>7
<1>. HIDE DEF ua, ub, va, vb, p, q
<1>10. 3 * ub < 3 * ua /\ 7 * vb <= 7 * va /\ 3 * ua \in Nat /\ 3 * ub \in Nat /\ 7 * va \in Nat /\ 7 * vb \in Nat
  BY <1>9
<1>11. 3 * ub * p < 3 * ua * p /\ 3 * ub * p \in Nat /\ 3 * ua * p \in Nat
  <2>. DEFINE x == 3 * ub  y == 3 * ua
  <2>1. x \in Nat /\ y \in Nat /\ x < y
    BY <1>10
  <2>. HIDE DEF x, y
  <2>2. x * p < y * p /\ x * p \in Nat /\ y * p \in Nat
    BY <1>9, <2>1, TimesMore
  <2>. QED  BY <2>2 DEF x, y
<1>12. 7 * vb * q <= 7 * va * q /\ 7 * vb * q \in Nat /\ 7 * va * q \in Nat
  <2>. DEFINE x == 7 * vb  y == 7 * va
  <2>1. x \in Nat /\ y \in Nat /\ x <= y
    BY <1>10
  <2>. HIDE DEF x, y
  <2>2. x * q <= y * q /\ x * q \in Nat /\ y * q \in Nat
    BY <1>9, <2>1, TimesMore
  <2>. QED  BY <2>2 DEF x, y
<1>13. /\ 3 * ub * p + 7 * vb * q < 3 * ua * p + 7 * va * q
       /\ 3 * ub * p + 7 * vb * q \in Nat /\ 3 * ua * p + 7 * va * q \in Nat
  <2>. DEFINE w == 3 * ub * p  x == 3 * ua * p  y == 7 * vb * q  z == 7 * va * q
  <2>1. w \in Nat /\ x \in Nat /\ y \in Nat /\ z \in Nat /\ w < x /\ y <= z
    BY <1>11, <1>12
  <2>. HIDE DEF w, x, y, z
  <2>2. w + y < x + z /\ w + y \in Nat /\ x + z \in Nat
    BY <2>1
  <2>. QED  BY <2>2 DEF w, x, y, z
<1>. QED  BY <1>8, <1>13

\* What is asked of a response.
ResponseSound(scores, response) ==
  /\ \A a, b \in Chunks :
       /\ \A s \in {dense, keyword} : Has(s, b) => Before(s, a, b)
       /\ Has(dense, b) \/ Has(keyword, b)
       /\ {a, b} \subseteq DOMAIN scores => scores[a] >= scores[b]
       /\ Has(response, a) /\ Has(response, b)
       => Before(response, a, b)
  /\ \A c \in Chunks :
       /\ Has(dense, c) \/ Has(keyword, c)
       /\ c \in DOMAIN scores \/ DOMAIN scores = {} \/ ~Has(FirstOf(fused, Candidates), c)
       /\ Len(fused) <= TopK
       => Has(response, c)

\* A fused list has each chunk of the two lists.
LEMMA FusedLists ==
  ASSUME fused \in SortedBy(InALists, FusedScore)
  PROVE  /\ fused \in Seq(Chunks) /\ NoneTwice(fused) /\ Len(fused) \in Nat /\ Len(fused) = Cardinality(InALists)
         /\ Range(fused) = InALists /\ IsFiniteSet(InALists)
         /\ \A c \in Chunks : Has(fused, c) <=> Has(dense, c) \/ Has(keyword, c)
<1>1. InALists \in SUBSET Chunks /\ fused \in Orders(InALists) /\ IsFiniteSet(Chunks)
  BY HybridBounds DEF InALists, SortedBy
<1>2. /\ fused \in Seq(Chunks) /\ NoneTwice(fused) /\ Len(fused) = Cardinality(InALists)
      /\ Cardinality(InALists) \in Nat
      /\ \A i \in DOMAIN fused : fused[i] \in InALists
      /\ \A c \in InALists : Has(fused, c)
  BY <1>1, OrdersList
<1>3. \A c : Has(fused, c) <=> c \in InALists
  BY <1>2 DEF Has
<1>4. Range(fused) = InALists
  BY <1>3 DEF Range, Has
<1>. QED  BY <1>1, <1>2, <1>3, <1>4, FS_Subset DEF InALists

\* The fused list, cut, is a sound response.
LEMMA FusedIsSound ==
  ASSUME ListsOK, fused \in SortedBy(InALists, FusedScore), NEW scores, NEW n \in Nat, TopK <= n
  PROVE  ResponseSound(scores, FirstOf(fused, n))
<1>. DEFINE p == FirstOf(fused, n)
<1>1. fused \in Seq(Chunks) /\ NoneTwice(fused) /\ p \in Seq(Chunks) /\ NoneTwice(p) /\ Len(fused) \in Nat
  BY FusedLists, Firsts
<1>2. ASSUME NEW a \in Chunks, NEW b \in Chunks, \A s \in {dense, keyword} : Has(s, b) => Before(s, a, b),
             Has(dense, b) \/ Has(keyword, b), Has(p, b)
      PROVE  Before(p, a, b)
  <2>1. Ahead(fused, a, b)
    BY <1>2, AheadIsFusedAhead
  <2>2. Ahead(p, a, b)
    BY <1>1, <1>2, <2>1, FirstsAhead
  <2>. QED  BY <1>1, <1>2, <2>2, BeforeIsAhead
<1>3. ASSUME NEW c \in Chunks, Has(dense, c) \/ Has(keyword, c), Len(fused) <= TopK
      PROVE  Has(p, c)
  <2>1. Has(fused, c)
    BY <1>3, FusedLists
  <2>2. Len(fused) <= n
    BY <1>1, <1>3, HybridBounds
  <2>. QED  BY <1>1, <2>1, <2>2, FirstsAhead
<1>. HIDE DEF p
<1>4. ResponseSound(scores, p)
  BY <1>2, <1>3 DEF ResponseSound
<1>. QED  BY <1>4 DEF p

\* One list after another.
LEMMA OneAfterAnother ==
  ASSUME NEW E, NEW s \in Seq(E), NEW t \in Seq(E), NoneTwice(s), NoneTwice(t), Range(s) \cap Range(t) = {},
         NEW a, NEW b
  PROVE  /\ Ahead(s, a, b) \/ Ahead(t, a, b) \/ (Has(s, a) /\ Has(t, b)) => Ahead(s \o t, a, b)
         /\ Has(s \o t, a) <=> Has(s, a) \/ Has(t, a)
<1>. DEFINE w == s \o t  m == Len(s)
<1>1. /\ w \in Seq(E) /\ Len(w) = m + Len(t)
      /\ \A i \in 1..(m + Len(t)) : w[i] = IF i <= m THEN s[i] ELSE t[i - m]
  BY ConcatProperties
<1>2. DOMAIN s = 1..m /\ m \in Nat /\ DOMAIN t = 1..Len(t) /\ Len(t) \in Nat
  BY Elements
<1>. HIDE DEF w
<1>3. DOMAIN w = 1..(m + Len(t))
  BY <1>1, Elements
<1>4. \A i \in DOMAIN s : i \in DOMAIN w /\ w[i] = s[i]
  BY <1>1, <1>2, <1>3
<1>5. \A i \in DOMAIN t : m + i \in DOMAIN w /\ w[m + i] = t[i]
  <2>1. ASSUME NEW i \in DOMAIN t
        PROVE  m + i \in DOMAIN w /\ w[m + i] = t[i]
    <3>1. m + i \in 1..(m + Len(t)) /\ ~(m + i <= m) /\ (m + i) - m = i
      BY <1>2
    <3>. QED  BY <1>1, <1>3, <3>1
  <2>. QED  BY <2>1
<1>6. ASSUME Ahead(s, a, b) PROVE Ahead(w, a, b)
  BY <1>4, <1>6 DEF Ahead
<1>7. ASSUME Ahead(t, a, b) PROVE Ahead(w, a, b)
  <2>1. PICK i \in DOMAIN t, j \in DOMAIN t : i < j /\ t[i] = a /\ t[j] = b
    BY <1>7 DEF Ahead
  <2>2. m + i < m + j
    BY <1>2, <2>1
  <2>3. m + i \in DOMAIN w /\ w[m + i] = a /\ m + j \in DOMAIN w /\ w[m + j] = b
    BY <1>5, <2>1
  <2>. QED  BY <2>2, <2>3 DEF Ahead
<1>8. ASSUME Has(s, a), Has(t, b) PROVE Ahead(w, a, b)
  <2>1. PICK i \in DOMAIN s, j \in DOMAIN t : s[i] = a /\ t[j] = b
    BY <1>8 DEF Has
  <2>2. i < m + j
    BY <1>2, <2>1
  <2>3. i \in DOMAIN w /\ w[i] = a /\ m + j \in DOMAIN w /\ w[m + j] = b
    BY <1>4, <1>5, <2>1
  <2>. QED  BY <2>2, <2>3 DEF Ahead
<1>9. Has(w, a) <=> a \in Range(w)
  BY DEF Has, Range
<1>10. Range(w) = Range(s) \cup Range(t)
  BY ConcatDistinct DEF w
<1>11. Has(w, a) <=> Has(s, a) \/ Has(t, a)
  BY <1>9, <1>10 DEF Has, Range
<1>. QED  BY <1>6, <1>7, <1>8, <1>11 DEF w

\* In a list without repetitions one of two elements is ahead.
LEMMA OneIsAhead ==
  ASSUME NEW E, NEW s \in Seq(E), NoneTwice(s), NEW a, NEW b, Has(s, a), Has(s, b), a # b
  PROVE  (Ahead(s, a, b) \/ Ahead(s, b, a)) /\ ~(Ahead(s, a, b) /\ Ahead(s, b, a))
<1>1. PICK i \in DOMAIN s, j \in DOMAIN s : s[i] = a /\ s[j] = b
  BY DEF Has
<1>2. i \in Int /\ j \in Int /\ i # j
  BY <1>1, Elements
<1>3. i < j \/ j < i
  BY <1>2
<1>4. Ahead(s, a, b) \/ Ahead(s, b, a)
  BY <1>1, <1>3 DEF Ahead
<1>5. ~(Ahead(s, a, b) /\ Ahead(s, b, a))
  <2>. SUFFICES ASSUME Ahead(s, a, b), Ahead(s, b, a) PROVE FALSE
    OBVIOUS
  <2>1. \A k, l \in DOMAIN s : (s[k] = a => k = i) /\ (s[l] = b => l = j)
    BY <1>1 DEF NoneTwice
  <2>2. i < j /\ j < i
    BY <2>1 DEF Ahead
  <2>. QED  BY <1>2, <2>2
<1>. QED  BY <1>4, <1>5

\* What the reranker leaves behind, cut, is a sound response, whatever it answers.
LEMMA RerankedIsSound ==
  ASSUME ListsOK, fused \in SortedBy(InALists, FusedScore),
         NEW candidates, candidates = {c \in Chunks : Has(FirstOf(fused, Candidates), c)},
         NEW scores \in RerankerAnswers(candidates), NEW s \in Orders(DOMAIN scores),
         \A i, j \in DOMAIN s : i < j => BlendedScore(candidates, scores, s[i]) >= BlendedScore(candidates, scores, s[j]),
         NEW n \in Nat, TopK <= n
  PROVE  LET w == s \o SelectIn(fused, Chunks \ candidates) IN
         /\ w \in Seq(Chunks) /\ NoneTwice(w)
         /\ ResponseSound(scores, FirstOf(w, n))
         /\ DOMAIN scores \subseteq Chunks /\ \A c \in DOMAIN scores : scores[c] \in 0..MaxScore
<1>. DEFINE rest == SelectIn(fused, Chunks \ candidates)
           w == s \o rest
           p == FirstOf(w, n)
           first == FirstOf(fused, Candidates)
<1>1. /\ fused \in Seq(Chunks) /\ NoneTwice(fused) /\ Len(fused) \in Nat /\ Len(fused) = Cardinality(InALists)
      /\ Range(fused) = InALists /\ IsFiniteSet(InALists)
      /\ \A c \in Chunks : Has(fused, c) <=> Has(dense, c) \/ Has(keyword, c)
  BY FusedLists
<1>2. PICK answered \in SUBSET candidates : answered # {} /\ scores \in [answered -> 0..MaxScore]
  BY DEF RerankerAnswers
<1>3. /\ DOMAIN scores = answered /\ answered # {} /\ answered \in SUBSET candidates /\ candidates \in SUBSET Chunks
      /\ \A c \in answered : scores[c] \in 0..MaxScore
  BY <1>2
<1>4. /\ IsFiniteSet(Chunks) /\ Candidates \in Nat /\ TopK \in Nat
  BY HybridBounds
<1>5. /\ s \in Seq(Chunks) /\ NoneTwice(s)
      /\ \A i \in DOMAIN s : s[i] \in answered
      /\ \A c \in answered : Has(s, c)
  BY <1>3, <1>4, OrdersList
<1>6. Range(s) = answered /\ \A c : Has(s, c) <=> c \in answered
  BY <1>5 DEF Has, Range
<1>7. rest \in Seq(Chunks) /\ NoneTwice(rest) /\ Range(rest) = InALists \cap (Chunks \ candidates)
  BY <1>1, SelectInType, SelectInDistinct
<1>8. \A c : Has(rest, c) <=> c \in InALists /\ c \in Chunks \ candidates
  <2>. HIDE DEF rest
  <2>. QED  BY <1>7 DEF Has, Range
<1>9. \A c : c \in candidates => c \in InALists
  <2>1. \A c : Has(first, c) => Has(fused, c)
    BY <1>1, <1>4, FirstsAhead
  <2>. QED  BY <1>1, <2>1 DEF InALists
<1>10. \A a, b : Ahead(rest, a, b) => Ahead(fused, a, b)
  <2>1. ASSUME NEW a, NEW b, Ahead(rest, a, b) PROVE Ahead(fused, a, b)
    <3>1. PICK i \in DOMAIN rest, j \in DOMAIN rest : i < j /\ rest[i] = a /\ rest[j] = b
      BY <2>1 DEF Ahead
    <3>2. \E k, l \in DOMAIN fused : k < l /\ fused[k] = rest[i] /\ fused[l] = rest[j]
      <4>1. i \in DOMAIN SelectIn(fused, Chunks \ candidates) /\ j \in DOMAIN SelectIn(fused, Chunks \ candidates)
        BY <3>1
      <4>. HIDE DEF rest
      <4>2. rest = SelectIn(fused, Chunks \ candidates)
        BY DEF rest
      <4>. QED  BY <1>1, <3>1, <4>1, <4>2, SelectInOrder
    <3>. QED  BY <3>1, <3>2 DEF Ahead
  <2>. QED  BY <2>1
<1>. HIDE DEF rest
<1>11. Range(s) \cap Range(rest) = {}
  BY <1>3, <1>6, <1>7
<1>12. /\ w \in Seq(Chunks) /\ NoneTwice(w) /\ Range(w) = answered \cup (InALists \cap (Chunks \ candidates))
  BY <1>5, <1>6, <1>7, <1>11, ConcatDistinct
<1>13. \A a, b : /\ Ahead(s, a, b) \/ Ahead(rest, a, b) \/ (Has(s, a) /\ Has(rest, b)) => Ahead(w, a, b)
                 /\ Has(w, a) <=> Has(s, a) \/ Has(rest, a)
  BY <1>5, <1>7, <1>11, OneAfterAnother
<1>14. Len(w) <= Len(fused)
  <2>1. Range(w) \subseteq InALists
    BY <1>3, <1>9, <1>12
  <2>2. w \in Seq(InALists)
    <3>1. DOMAIN w = 1..Len(w) /\ Len(w) \in Nat
      BY <1>12, Elements
    <3>2. \A i \in 1..Len(w) : w[i] \in InALists
      BY <2>1, <3>1 DEF Range
    <3>. HIDE DEF w
    <3>. QED  BY <1>12, <3>1, <3>2, SequenceOf
  <2>3. Len(w) <= Cardinality(InALists)
    BY <1>1, <1>12, <2>2, NotLonger
  <2>. QED  BY <1>1, <2>3
<1>. HIDE DEF w
<1>15. ASSUME NEW a \in Chunks, NEW b \in Chunks, \A t \in {dense, keyword} : Has(t, b) => Before(t, a, b),
              Has(dense, b) \/ Has(keyword, b), {a, b} \subseteq answered => scores[a] >= scores[b],
              Has(p, a), Has(p, b)
       PROVE  Before(p, a, b)
  <2>1. Ahead(fused, a, b) /\ FusedScore(b) < FusedScore(a)
    BY <1>15, AheadIsFusedAhead
  <2>2. a # b /\ Has(fused, a) /\ Has(fused, b) /\ ~Ahead(fused, b, a)
    <3>1. FusedScore(a) \in Nat /\ FusedScore(b) \in Nat
      BY <1>15, AheadScoresHigher
    <3>2. a # b
      <4>1. a = b => FusedScore(a) = FusedScore(b)
        OBVIOUS
      <4>. QED  BY <2>1, <3>1, <4>1
    <3>3. Has(fused, a) /\ Has(fused, b)
      BY <2>1 DEF Ahead, Has
    <3>. QED  BY <1>1, <2>1, <3>2, <3>3, OneIsAhead
  <2>3. Has(w, a) /\ Has(w, b)
    BY <1>12, <1>15, FirstsAhead
  <2>4. CASE a \in answered /\ b \in answered
    <3>1. \A c \in candidates : FusedScore(c) \in Nat
      BY SharesAreNumbers
    <3>2. /\ BlendedScore(candidates, scores, a) \in Nat /\ BlendedScore(candidates, scores, b) \in Nat
          /\ BlendedScore(candidates, scores, b) < BlendedScore(candidates, scores, a)
      BY <1>2, <1>3, <1>15, <2>1, <2>4, <3>1, PreferredBlendsHigher
    <3>3. ~Ahead(s, b, a)
      <4>. SUFFICES ASSUME Ahead(s, b, a) PROVE FALSE
        OBVIOUS
      <4>1. PICK i \in DOMAIN s, j \in DOMAIN s : i < j /\ s[i] = b /\ s[j] = a
        BY DEF Ahead
      <4>2. BlendedScore(candidates, scores, b) >= BlendedScore(candidates, scores, a)
        BY <4>1
      <4>. QED  BY <3>2, <4>2
    <3>4. Ahead(s, a, b)
      BY <1>5, <1>6, <2>2, <2>4, <3>3, OneIsAhead
    <3>. QED  BY <1>12, <1>13, <1>15, <3>4, FirstsAhead, Firsts, BeforeIsAhead
  <2>5. CASE a \in answered /\ b \notin answered
    <3>1. Has(s, a) /\ Has(rest, b)
      BY <1>6, <1>13, <2>3, <2>5
    <3>2. Ahead(w, a, b)
      BY <1>13, <3>1
    <3>. QED  BY <1>12, <1>15, <3>2, FirstsAhead, Firsts, BeforeIsAhead
  <2>6. CASE a \notin answered
    <3>1. Has(rest, a) /\ a \notin candidates
      BY <1>6, <1>8, <1>13, <2>3, <2>6
    <3>2. b \notin candidates
      <4>. SUFFICES ASSUME Has(first, b) PROVE FALSE
        OBVIOUS
      <4>1. Ahead(first, a, b)
        BY <1>1, <1>4, <2>1, FirstsAhead
      <4>2. Has(first, a)
        BY <4>1 DEF Ahead, Has
      <4>. QED  BY <3>1, <4>2
    <3>3. Has(rest, b)
      BY <1>3, <1>6, <1>13, <2>3, <3>2
    <3>4. ~Ahead(rest, b, a)
      BY <1>10, <2>2
    <3>5. Ahead(rest, a, b)
      BY <1>7, <2>2, <3>1, <3>3, <3>4, OneIsAhead
    <3>6. Ahead(w, a, b)
      BY <1>13, <3>5
    <3>. QED  BY <1>12, <1>15, <3>6, FirstsAhead, Firsts, BeforeIsAhead
  <2>. QED  BY <2>4, <2>5, <2>6
<1>16. ASSUME NEW c \in Chunks, Has(dense, c) \/ Has(keyword, c),
              c \in answered \/ answered = {} \/ ~Has(first, c), Len(fused) <= TopK
       PROVE  Has(p, c)
  <2>1. Has(w, c)
    <3>1. CASE c \in answered
      BY <1>6, <1>13, <3>1
    <3>2. CASE ~Has(first, c)
      <4>1. c \in InALists /\ c \in Chunks \ candidates
        BY <1>16, <3>2 DEF InALists
      <4>. QED  BY <1>8, <1>13, <4>1
    <3>. QED  BY <1>3, <1>16, <3>1, <3>2
  <2>2. Len(w) <= n
    <3>1. Len(w) \in Nat
      BY <1>12, Elements
    <3>. QED  BY <1>1, <1>4, <1>14, <1>16, <3>1
  <2>. QED  BY <1>12, <2>1, <2>2, FirstsAhead
<1>. HIDE DEF p, first
<1>17. ResponseSound(scores, p)
  BY <1>3, <1>15, <1>16 DEF ResponseSound, first
<1>. QED  BY <1>3, <1>12, <1>17 DEF p, w, rest

\* What holds at every stage: the lists are lists of chunks, the fused list is the two
\* lists in the order of the scores, and what has been answered is sound.
FusedOK ==
  /\ stage \in {"dense", "keyword", "fuse", "fallback"} => fused = <<>>
  /\ stage # "done" => DOMAIN scored = {}
  /\ fused # <<>> =>
       /\ fused \in Orders(InALists)
       /\ \A i, j \in DOMAIN fused : i < j => FusedScore(fused[i]) >= FusedScore(fused[j])

HybridInv == HybridTypeOK /\ FusedOK /\ SearchIsSound

\* The types, one by one.
LEMMA HybridTypes ==
  HybridTypeOK <=>
    /\ titles \in Occurrences /\ texts \in Occurrences
    /\ stage \in {"dense", "keyword", "fuse", "rerank", "fallback", "done"}
    /\ dense \in Seq(Chunks) /\ keyword \in Seq(Chunks) /\ fused \in Seq(Chunks) /\ found \in Seq(Chunks)
    /\ NoneTwice(dense) /\ NoneTwice(keyword) /\ NoneTwice(fused) /\ NoneTwice(found)
    /\ DOMAIN scored \subseteq Chunks /\ \A c \in DOMAIN scored : scored[c] \in 0..MaxScore
BY DEF HybridTypeOK, NoneTwice

\* A step that leaves the lists alone and after which the response is sound.
LEMMA SoundAfter ==
  ASSUME UNCHANGED <<dense, keyword, fused>>, fused # <<>> => ResponseSound(scored', found')
  PROVE  SearchIsSound'
BY DEF SearchIsSound, ResponseSound, Before

\* A step that leaves the lists alone leaves their order alone.
LEMMA ScoresAfter ==
  ASSUME UNCHANGED <<dense, keyword>>
  PROVE  InALists' = InALists /\ \A c : FusedScore(c)' = FusedScore(c)
BY DEF InALists, FusedScore, Share

\* How many chunks a response may have.
LEMMA Limit ==
  LET n == IF TopK > 1 THEN TopK ELSE 1 IN n \in Nat /\ TopK <= n
BY HybridBounds

\* The invariant holds at the start.
LEMMA InitHybridInv == HybridInit => HybridInv
<1>. SUFFICES ASSUME HybridInit PROVE HybridInv
  OBVIOUS
<1>1. <<>> \in Seq(Chunks) /\ NoneTwice(<<>>)
  BY DEF NoneTwice
<1>2. DOMAIN scored = {}
  BY DEF HybridInit
<1>3. HybridTypeOK
  BY <1>1, <1>2, HybridTypes DEF HybridInit
<1>. QED  BY <1>2, <1>3 DEF HybridInit, HybridInv, FusedOK, SearchIsSound

\* Every step keeps the invariant.
LEMMA NextHybridInv == HybridInv /\ [HybridNext]_hybridVars => HybridInv'
<1>. SUFFICES ASSUME HybridInv, [HybridNext]_hybridVars PROVE HybridInv'
  OBVIOUS
<1>1. HybridTypeOK /\ FusedOK /\ SearchIsSound /\ ListsOK
  BY HybridTypes DEF HybridInv, ListsOK
<1>2. /\ titles \in Occurrences /\ texts \in Occurrences
      /\ dense \in Seq(Chunks) /\ keyword \in Seq(Chunks) /\ fused \in Seq(Chunks) /\ found \in Seq(Chunks)
      /\ NoneTwice(dense) /\ NoneTwice(keyword) /\ NoneTwice(fused) /\ NoneTwice(found)
      /\ DOMAIN scored \subseteq Chunks /\ \A c \in DOMAIN scored : scored[c] \in 0..MaxScore
  BY <1>1, HybridTypes
<1>. DEFINE n == IF TopK > 1 THEN TopK ELSE 1
<1>3. n \in Nat /\ TopK <= n
  BY Limit
<1>4. ASSUME NEW S \in SUBSET Chunks, NEW s \in Orders(S)
      PROVE  s \in Seq(Chunks) /\ NoneTwice(s)
  BY OrdersList, HybridBounds
<1>5. ASSUME NEW s \in Seq(Chunks), NoneTwice(s)
      PROVE  FirstOf(s, n) \in Seq(Chunks) /\ NoneTwice(FirstOf(s, n))
  BY <1>3, <1>5, Firsts
<1>6. CASE DenseSearch
  <2>1. PICK S \in SUBSET Chunks : dense' \in Orders(S)
    BY <1>6 DEF DenseSearch
  <2>2. stage = "dense" /\ stage' = "keyword" /\ UNCHANGED <<corpus, keyword, fused, scored, found>>
    BY <1>6 DEF DenseSearch
  <2>3. dense' \in Seq(Chunks) /\ NoneTwice(dense')
    BY <1>4, <2>1
  <2>4. HybridTypeOK'
    BY <1>2, <2>2, <2>3 DEF HybridTypeOK, NoneTwice, corpus
  <2>5. FusedOK'
    BY <1>1, <2>2 DEF FusedOK
  <2>. QED  BY <2>2, <2>4, <2>5 DEF HybridInv, SearchIsSound
<1>7. CASE KeywordSearch \/ KeywordFails
  <2>1. stage = "keyword" /\ stage' = "fuse" /\ UNCHANGED <<corpus, dense, fused, scored, found>>
    BY <1>7 DEF KeywordSearch, KeywordFails
  <2>2. keyword' \in Seq(Chunks) /\ NoneTwice(keyword')
    <3>1. CASE KeywordSearch
      <4>1. {c \in Chunks : ScoresByKeyword(c)} \in SUBSET Chunks
        OBVIOUS
      <4>2. keyword' \in Orders({c \in Chunks : ScoresByKeyword(c)})
        BY <3>1 DEF KeywordSearch
      <4>. QED  BY <1>4, <4>1, <4>2
    <3>2. CASE KeywordFails
      BY <1>2, <3>2 DEF KeywordFails
    <3>. QED  BY <1>7, <3>1, <3>2
  <2>3. HybridTypeOK'
    BY <1>2, <2>1, <2>2 DEF HybridTypeOK, NoneTwice, corpus
  <2>4. FusedOK'
    BY <1>1, <2>1 DEF FusedOK
  <2>. QED  BY <2>1, <2>3, <2>4 DEF HybridInv, SearchIsSound
<1>8. CASE Fuse
  <2>1. /\ stage = "fuse" /\ stage' = IF InALists = {} THEN "fallback" ELSE "rerank"
        /\ UNCHANGED <<corpus, dense, keyword, scored, found>>
    BY <1>8 DEF Fuse
  <2>2. /\ fused' \in Orders(InALists) /\ InALists \in SUBSET Chunks
        /\ \A i, j \in DOMAIN fused' : i < j => FusedScore(fused'[i]) >= FusedScore(fused'[j])
    BY <1>8 DEF Fuse, SortedBy, InALists
  <2>3. fused' \in Seq(Chunks) /\ NoneTwice(fused')
    BY <1>4, <2>2
  <2>4. HybridTypeOK'
    BY <1>2, <2>1, <2>3 DEF HybridTypeOK, NoneTwice, corpus
  <2>5. InALists = {} => fused' = <<>>
    <3>1. Len(fused') = Cardinality(InALists)
      BY <2>2, OrdersList, HybridBounds
    <3>2. InALists = {} => Len(fused') = 0
      BY <3>1, FS_EmptySet
    <3>. QED  BY <2>3, <3>2
  <2>6. InALists' = InALists /\ \A c : FusedScore(c)' = FusedScore(c)
    BY <2>1, ScoresAfter
  <2>7. FusedOK'
    BY <1>1, <2>1, <2>2, <2>5, <2>6 DEF FusedOK, Orders
  <2>. QED  BY <2>1, <2>4, <2>7 DEF HybridInv, SearchIsSound
<1>9. CASE RerankFails
  <2>1. /\ stage = "rerank" /\ stage' = "done" /\ found' = FirstOf(fused, n)
        /\ UNCHANGED <<corpus, dense, keyword, fused, scored>>
    BY <1>9 DEF RerankFails, Respond
  <2>. HIDE DEF n
  <2>2. found' \in Seq(Chunks) /\ NoneTwice(found')
    BY <1>2, <1>5, <2>1
  <2>3. HybridTypeOK'
    BY <1>2, <2>1, <2>2 DEF HybridTypeOK, NoneTwice, corpus
  <2>4. FusedOK'
    BY <1>1, <2>1, ScoresAfter DEF FusedOK
  <2>5. fused # <<>> => ResponseSound(scored', found')
    <3>1. ASSUME fused # <<>> PROVE fused \in SortedBy(InALists, FusedScore)
      BY <1>1, <3>1 DEF FusedOK, SortedBy
    <3>. QED  BY <1>1, <1>3, <2>1, <3>1, FusedIsSound
  <2>6. SearchIsSound'
    BY <2>1, <2>5, SoundAfter
  <2>. QED  BY <2>3, <2>4, <2>6 DEF HybridInv
<1>10. CASE Rerank
  <2>. DEFINE candidates == {c \in Chunks : Has(FirstOf(fused, Candidates), c)}
              rest == SelectIn(fused, Chunks \ candidates)
  <2>1. PICK scores \in RerankerAnswers(candidates) : \E s \in Orders(DOMAIN scores) :
          /\ scored' = scores
          /\ \A i, j \in DOMAIN s : i < j => BlendedScore(candidates, scores, s[i]) >= BlendedScore(candidates, scores, s[j])
          /\ Respond(s \o rest)
    BY <1>10 DEF Rerank, SortedBy
  <2>2. PICK s \in Orders(DOMAIN scores) :
          /\ scored' = scores
          /\ \A i, j \in DOMAIN s : i < j => BlendedScore(candidates, scores, s[i]) >= BlendedScore(candidates, scores, s[j])
          /\ stage' = "done" /\ found' = FirstOf(s \o rest, n)
    BY <2>1 DEF Respond
  <2>3. stage = "rerank" /\ UNCHANGED <<corpus, dense, keyword, fused>>
    BY <1>10 DEF Rerank
  <2>. HIDE DEF n
  <2>4. CASE fused = <<>>
    <3>1. candidates = {}
      <4>1. Candidates \in Nat /\ fused \in Seq(Chunks) /\ NoneTwice(fused)
        BY <1>2, HybridBounds
      <4>2. \A c : Has(FirstOf(fused, Candidates), c) => Has(fused, c)
        BY <4>1, FirstsAhead
      <4>3. \A c : ~Has(fused, c)
        BY <2>4 DEF Has
      <4>. QED  BY <4>2, <4>3
    <3>. QED  BY <2>1, <3>1 DEF RerankerAnswers
  <2>5. CASE fused # <<>>
    <3>1. fused \in SortedBy(InALists, FusedScore)
      BY <1>1, <2>5 DEF FusedOK, SortedBy
    <3>2. /\ s \o rest \in Seq(Chunks) /\ NoneTwice(s \o rest)
          /\ ResponseSound(scores, FirstOf(s \o rest, n))
          /\ DOMAIN scores \subseteq Chunks /\ \A c \in DOMAIN scores : scores[c] \in 0..MaxScore
      BY <1>1, <1>3, <2>2, <3>1, RerankedIsSound
    <3>3. found' \in Seq(Chunks) /\ NoneTwice(found')
      BY <1>5, <2>2, <3>2
    <3>4. HybridTypeOK'
      BY <1>2, <2>1, <2>2, <2>3, <3>2, <3>3 DEF HybridTypeOK, NoneTwice, corpus
    <3>5. FusedOK'
      BY <1>1, <2>2, <2>3, ScoresAfter DEF FusedOK
    <3>6. SearchIsSound'
      BY <2>1, <2>2, <2>3, <3>2, SoundAfter
    <3>. QED  BY <3>4, <3>5, <3>6 DEF HybridInv
  <2>. QED  BY <2>4, <2>5
<1>11. CASE Fallback \/ FallbackFails
  <2>1. PICK S \in SUBSET Chunks : \E s \in Orders(S) : stage' = "done" /\ found' = FirstOf(s, n)
    <3>1. {c \in Chunks : MatchesTerm(c)} \in SUBSET Chunks
      OBVIOUS
    <3>2. CASE Fallback
      BY <3>1, <3>2 DEF Fallback, Respond
    <3>3. CASE FallbackFails
      BY <3>1, <3>3 DEF FallbackFails, Respond
    <3>. QED  BY <1>11, <3>2, <3>3
  <2>2. stage = "fallback" /\ UNCHANGED <<corpus, dense, keyword, fused, scored>>
    BY <1>11 DEF Fallback, FallbackFails
  <2>. HIDE DEF n
  <2>3. found' \in Seq(Chunks) /\ NoneTwice(found')
    BY <1>4, <1>5, <2>1
  <2>4. HybridTypeOK'
    BY <1>2, <2>1, <2>2, <2>3 DEF HybridTypeOK, NoneTwice, corpus
  <2>5. FusedOK'
    BY <1>1, <2>1, <2>2 DEF FusedOK
  <2>6. fused = <<>>
    BY <1>1, <2>2 DEF FusedOK
  <2>. QED  BY <2>2, <2>4, <2>5, <2>6, SoundAfter DEF HybridInv
<1>12. CASE UNCHANGED hybridVars
  <2>1. UNCHANGED <<titles, texts, stage, dense, keyword, fused, scored, found>>
    BY <1>12 DEF hybridVars, corpus
  <2>2. HybridTypeOK' /\ FusedOK'
    BY <1>1, <2>1, ScoresAfter DEF HybridTypeOK, FusedOK
  <2>3. SearchIsSound'
    BY <1>1, <2>1 DEF SearchIsSound, Before
  <2>. QED  BY <2>2, <2>3 DEF HybridInv
<1>. QED  BY <1>6, <1>7, <1>8, <1>9, <1>10, <1>11, <1>12 DEF HybridNext

\* A chunk that is ahead in every list that has either of two is ahead in the response,
\* however many chunks there are, however the lists came out and whatever the reranker
\* answered, unless it scored the chunk lower or left it out; and what was found is only
\* lost where the reranker leaves it out or the response is cut.
THEOREM SearchIsAlwaysSound == HybridSpec => []SearchIsSound
<1>1. HybridInv => SearchIsSound
  BY DEF HybridInv
<1>. QED  BY <1>1, InitHybridInv, NextHybridInv, PTL DEF HybridSpec

\* A finite set of numbers has a greatest.
LEMMA GreatestNumber ==
  ASSUME NEW V \in SUBSET Nat, IsFiniteSet(V), V # {}
  PROVE  \E v \in V : \A w \in V : w <= v
<1>1. PICK n \in Nat : \A w \in V : w <= n
  BY Bounded
<1>. DEFINE G == {n - w : w \in V}
<1>2. G \in SUBSET Nat /\ G # {}
  <2>1. \A w \in V : w \in Nat /\ n - w \in Nat
    BY <1>1
  <2>. QED  BY <2>1
<1>3. PICK g \in G : \A h \in G : g <= h
  BY <1>2, LeastNumber
<1>4. PICK x \in V : g = n - x
  BY <1>3
<1>5. ASSUME NEW w \in V
      PROVE  w <= x
  <2>1. n - w \in G
    OBVIOUS
  <2>2. n - x <= n - w
    BY <1>3, <1>4, <2>1
  <2>3. w \in Nat /\ x \in Nat
    OBVIOUS
  <2>. QED  BY ONLY <2>2, <2>3, n \in Nat
<1>. QED  BY <1>5

-----------------------------------------------------------------------------
(* The answer of the Python backend *)

\* What is selected depends on the set only as far as the elements tell.
LEMMA SameSelection ==
  ASSUME NEW E, NEW s \in Seq(E), NEW T, NEW U, \A i \in DOMAIN s : s[i] \in T <=> s[i] \in U
  PROVE  SelectIn(s, T) = SelectIn(s, U)
<1>. DEFINE S == {n \in 0..Len(s) : SelectInOf(s, T)[n] = SelectInOf(s, U)[n]}
<1>1. Len(s) \in Nat /\ DOMAIN s = 1..Len(s)
  OBVIOUS
<1>2. 0 \in S
  <2>1. SelectInOf(s, T)[0] = <<>> /\ SelectInOf(s, U)[0] = <<>>
    BY SelectInNone
  <2>. QED  BY <1>1, <2>1
<1>3. \A n \in 0..(Len(s) - 1) : n \in S => n + 1 \in S
  <2>. SUFFICES ASSUME NEW n \in 0..(Len(s) - 1), n \in S PROVE n + 1 \in S
    OBVIOUS
  <2>. DEFINE m == n + 1
  <2>1. m \in 1..Len(s) /\ m - 1 = n
    BY <1>1
  <2>2. SelectInOf(s, T)[m] = IF s[m] \in T THEN Append(SelectInOf(s, T)[m - 1], s[m]) ELSE SelectInOf(s, T)[m - 1]
    BY <2>1, SelectInStep
  <2>3. SelectInOf(s, U)[m] = IF s[m] \in U THEN Append(SelectInOf(s, U)[m - 1], s[m]) ELSE SelectInOf(s, U)[m - 1]
    BY <2>1, SelectInStep
  <2>4. s[m] \in T <=> s[m] \in U
    BY <1>1, <2>1
  <2>5. SelectInOf(s, T)[n] = SelectInOf(s, U)[n]
    OBVIOUS
  <2>6. SelectInOf(s, T)[m] = SelectInOf(s, U)[m]
    BY <2>1, <2>2, <2>3, <2>4, <2>5
  <2>. QED  BY <1>1, <2>1, <2>6
<1>. HIDE DEF S
<1>4. \A n \in 0..Len(s) : n \in S
  BY <1>1, <1>2, <1>3, Induction
<1>5. Len(s) \in S
  BY <1>1, <1>4
<1>. QED  BY <1>5 DEF S, SelectIn

\* The text of a stream grows by the piece of a delta and by nothing else.
LEMMA PiecesAppend ==
  ASSUME NEW E, NEW s \in Seq(E), NEW e \in E
  PROVE  PiecesOf(Append(s, e)) = IF e.type = "message.delta" THEN Append(PiecesOf(s), e.piece) ELSE PiecesOf(s)
<1>. DEFINE r == Append(s, e)
            D == DeltasIn(s)
            D2 == DeltasIn(r)
            f == [x \in E |-> x.piece]
            V == {x.piece : x \in E}
            q == SelectIn(s, D)
<1>1. /\ r \in Seq(E) /\ Len(s) \in Nat /\ DOMAIN r = 1..(Len(s) + 1) /\ DOMAIN s = 1..Len(s)
      /\ r[Len(s) + 1] = e /\ \A j \in DOMAIN s : r[j] = s[j]
  BY Appended
<1>2. \A i \in DOMAIN s : s[i] \in D <=> s[i].type = "message.delta"
  BY DEF DeltasIn
<1>. HIDE DEF r
<1>3. \A i \in DOMAIN r : r[i] \in D2 <=> r[i].type = "message.delta"
  BY DEF DeltasIn
<1>4. \A i \in DOMAIN s : s[i] \in D <=> s[i] \in D2
  BY <1>1, <1>2, <1>3
<1>5. e \in D2 <=> e.type = "message.delta"
  BY <1>1, <1>3
<1>. HIDE DEF D, D2
<1>6. SelectIn(s, D) = SelectIn(s, D2)
  BY <1>4, SameSelection
<1>7. SelectIn(r, D2) = IF e \in D2 THEN Append(SelectIn(s, D2), e) ELSE SelectIn(s, D2)
  BY SelectInAppend DEF r
<1>8. q \in Seq(E)
  BY SelectInType
<1>9. f \in [E -> V]
  OBVIOUS
<1>. HIDE DEF q
<1>10. /\ [i \in DOMAIN Append(q, e) |-> f[Append(q, e)[i]]] = Append([i \in DOMAIN q |-> f[q[i]]], f[e])
       /\ \A i \in DOMAIN q : q[i] \in E
  <2>1. \A i \in DOMAIN q : q[i] \in E
    BY <1>8
  <2>. HIDE DEF f, V
  <2>. QED  BY <1>8, <1>9, <2>1, ReadAppend
<1>11. PiecesOf(s) = [i \in DOMAIN q |-> q[i].piece]
  BY DEF PiecesOf, q, D
<1>12. PiecesOf(s) = [i \in DOMAIN q |-> f[q[i]]]
  BY <1>10, <1>11
<1>13. PiecesOf(r) = [i \in DOMAIN SelectIn(r, D2) |-> SelectIn(r, D2)[i].piece]
  BY DEF PiecesOf, D2
<1>14. CASE e \in D2
  <2>1. SelectIn(r, D2) = Append(q, e)
    BY <1>6, <1>7, <1>14 DEF q
  <2>2. \A i \in DOMAIN Append(q, e) : Append(q, e)[i] \in E
    BY <1>8
  <2>3. PiecesOf(r) = [i \in DOMAIN Append(q, e) |-> f[Append(q, e)[i]]]
    BY <1>13, <2>1, <2>2
  <2>. QED  BY <1>5, <1>10, <1>12, <1>14, <2>3 DEF r
<1>15. CASE e \notin D2
  <2>1. SelectIn(r, D2) = q
    BY <1>6, <1>7, <1>15 DEF q
  <2>. QED  BY <1>5, <1>11, <1>13, <1>15, <2>1 DEF r
<1>. QED  BY <1>14, <1>15

\* The pieces of a text are those of its deltas.
LEMMA PiecesType ==
  ASSUME NEW E, NEW s \in Seq(E)
  PROVE  /\ PiecesOf(s) \in Seq({x.piece : x \in E})
         /\ \A i \in DOMAIN PiecesOf(s) : \E j \in DOMAIN s : s[j].type = "message.delta" /\ PiecesOf(s)[i] = s[j].piece
<1>. DEFINE q == SelectIn(s, DeltasIn(s))
<1>1. q \in Seq(E) /\ Range(q) = Range(s) \cap DeltasIn(s)
  BY SelectInType
<1>2. PiecesOf(s) = [i \in DOMAIN q |-> q[i].piece]
  BY DEF PiecesOf
<1>. HIDE DEF q
<1>3. \A i \in DOMAIN q : q[i] \in DeltasIn(s) /\ q[i] \in E
  BY <1>1 DEF Range
<1>4. DOMAIN q = 1..Len(q) /\ Len(q) \in Nat
  BY <1>1
<1>5. PiecesOf(s) \in Seq({x.piece : x \in E})
  BY <1>2, <1>3, <1>4
<1>6. \A i \in DOMAIN q : \E j \in DOMAIN s : s[j].type = "message.delta" /\ q[i].piece = s[j].piece
  BY <1>3 DEF DeltasIn
<1>. QED  BY <1>2, <1>5, <1>6

\* There is no text before the first event.
LEMMA NoPieces == PiecesOf(<<>>) = <<>>
<1>1. <<>> \in Seq({})
  OBVIOUS
<1>. DEFINE p == PiecesOf(<<>>)
           V == {x.piece : x \in {}}
<1>2. p \in Seq(V) /\ \A i \in DOMAIN p : \E j \in DOMAIN <<>> : p[i] = <<>>[j].piece
  BY <1>1, PiecesType
<1>. HIDE DEF p, V
<1>3. \A i \in DOMAIN p : FALSE
  BY <1>2
<1>4. Len(p) \in Nat /\ DOMAIN p = 1..Len(p)
  BY <1>2
<1>5. Len(p) = 0
  <2>1. Len(p) >= 1 => 1 \in DOMAIN p
    BY <1>4
  <2>. QED  BY <1>3, <1>4, <2>1
<1>6. p = <<>>
  BY <1>2, <1>5
<1>. QED  BY <1>6 DEF p

\* Where an event belongs in the order of the protocol.
LEMMA PlaceOfType ==
  ASSUME NEW e
  PROVE  /\ e.type = "chat.started" => Place(e) = 1
         /\ e.type = "thinking.delta" => Place(e) = 2
         /\ e.type = "thinking.completed" => Place(e) = 3
         /\ e.type = "tool.call" => Place(e) = 4
         /\ e.type = "message.delta" => Place(e) = 5
         /\ e.type = "message.completed" => Place(e) = 6
         /\ e.type = "chat.completed" => Place(e) = 7
<1>1. DOMAIN Grammar = 1..7 /\ Grammar[1] = "chat.started" /\ Grammar[2] = "thinking.delta" /\ Grammar[3] = "thinking.completed"
      /\ Grammar[4] = "tool.call" /\ Grammar[5] = "message.delta" /\ Grammar[6] = "message.completed" /\ Grammar[7] = "chat.completed"
  BY DEF Grammar
<1>2. \A i \in 1..7 : i = 1 \/ i = 2 \/ i = 3 \/ i = 4 \/ i = 5 \/ i = 6 \/ i = 7
  OBVIOUS
<1>3. \A i, j \in 1..7 : Grammar[i] = Grammar[j] => i = j
  BY <1>1, <1>2
<1>4. ASSUME NEW n \in 1..7, e.type = Grammar[n] PROVE Place(e) = n
  BY <1>1, <1>3, <1>4 DEF Place
<1>. QED  BY <1>1, <1>4

\* The mock speaks for a configured model only where the settings name it first.
LEMMA ModelIsConfigured ==
  ASSUME NEW settings, settings.chain \in Seq(STRING), settings.keyed = TRUE,
         resolve_generation_adapter(settings) = "mock"
  PROVE  \/ settings.explicit = "mock"
         \/ /\ settings.explicit \notin Builders \ {"mock"}
            /\ \A i \in DOMAIN settings.chain :
                 settings.chain[i] \in Builders \ {"mock"} => \E j \in 1..(i - 1) : settings.chain[j] = "mock"
<1>. DEFINE chain == settings.chain
            first == IF settings.explicit = "auto" THEN <<>> ELSE <<settings.explicit>>
            order == first \o chain
            T == {n \in Builders : is_available(n, settings.keyed)}
            fit == SelectIn(order, T)
            n == Len(first)
<1>. DEFINE Names == STRING \cup {settings.explicit}
<1>1. T = Builders /\ "auto" \notin Builders
  BY DEF is_available, Builders
<1>2. first \in Seq(Names) /\ chain \in Seq(Names) /\ Len(chain) \in Nat /\ n \in {0, 1}
      /\ (n = 0 <=> settings.explicit = "auto") /\ (n = 1 => first[1] = settings.explicit)
  <2>1. CASE settings.explicit = "auto"
    <3>1. first = <<>>
      BY <2>1
    <3>. QED  BY <2>1, <3>1
  <2>2. CASE settings.explicit # "auto"
    <3>1. first = <<settings.explicit>>
      BY <2>2
    <3>. DEFINE x == settings.explicit
    <3>2. x \in Names
      OBVIOUS
    <3>. HIDE DEF x, first
    <3>3. Len(<<x>>) = 1 /\ <<x>>[1] = x /\ <<x>> \in Seq(Names)
      BY <3>2
    <3>4. first = <<x>>
      BY <3>1 DEF x
    <3>5. n = 1 /\ first[1] = x /\ first \in Seq(Names)
      BY <3>3, <3>4
    <3>. QED  BY <2>2, <3>5 DEF x
  <2>. QED  BY <2>1, <2>2
<1>3. resolve_generation_adapter(settings) = IF fit # <<>> THEN ModelOf(fit[1]) ELSE "mock"
  BY DEF resolve_generation_adapter
<1>. HIDE DEF T, fit, first, Names
<1>4. /\ order \in Seq(Names) /\ Len(order) = n + Len(chain) /\ DOMAIN order = 1..(n + Len(chain))
      /\ n = 1 => order[1] = settings.explicit
      /\ DOMAIN chain = 1..Len(chain)
      /\ \A i \in DOMAIN chain : order[n + i] = chain[i]
  BY <1>2
<1>5. CASE \A k \in DOMAIN order : order[k] \notin Builders
  <2>1. settings.explicit \notin Builders
    <3>1. CASE n = 0
      BY <1>1, <1>2, <3>1
    <3>2. CASE n = 1
      BY <1>2, <1>4, <1>5, <3>2
    <3>. QED  BY <1>2, <3>1, <3>2
  <2>2. \A i \in DOMAIN chain : chain[i] \notin Builders
    <3>1. ASSUME NEW i \in DOMAIN chain PROVE chain[i] \notin Builders
      <4>1. n + i \in DOMAIN order
        BY <1>2, <1>4
      <4>. QED  BY <1>4, <1>5, <4>1
    <3>. QED  BY <3>1
  <2>. QED  BY <2>1, <2>2
<1>6. CASE \E k \in DOMAIN order : order[k] \in Builders
  <2>. DEFINE K == {k \in DOMAIN order : order[k] \in Builders}
  <2>1. K \in SUBSET Nat /\ K # {}
    BY <1>4, <1>2, <1>6
  <2>2. PICK k \in K : \A m \in K : k <= m
    BY <2>1, LeastNumber
  <2>3. k \in 1..Len(order) /\ order[k] \in T /\ \A m \in 1..(k - 1) : order[m] \notin T
    <3>1. \A m \in 1..(k - 1) : order[m] \notin Builders
      <4>1. ASSUME NEW m \in 1..(k - 1), order[m] \in Builders PROVE FALSE
        <5>1. m \in DOMAIN order /\ m < k
          BY <1>2, <1>4, <2>1
        <5>2. m \in K
          BY <4>1, <5>1
        <5>3. k \in Nat /\ m \in Nat /\ k <= m
          BY <2>1, <2>2, <5>2
        <5>. QED  BY <5>1, <5>3
      <4>. QED  BY <4>1
    <3>2. k \in 1..Len(order) /\ order[k] \in Builders
      BY <1>4, <2>2
    <3>. QED  BY <1>1, <3>1, <3>2
  <2>4. fit[1] = order[k]
    <3>. HIDE DEF order
    <3>1. order \in Seq(Names)
      BY <1>4
    <3>2. SelectIn(order, T)[1] = order[k]
      BY <2>3, <3>1, SelectInFirst
    <3>. QED  BY <3>2 DEF fit
  <2>5. fit # <<>>
    <3>1. Range(fit) = Range(order) \cap T
      <4>. HIDE DEF order
      <4>1. order \in Seq(Names)
        BY <1>4
      <4>2. Range(SelectIn(order, T)) = Range(order) \cap T
        BY <4>1, SelectInType
      <4>. QED  BY <4>2 DEF fit
    <3>2. order[k] \in Range(fit)
      BY <1>4, <2>3, <3>1 DEF Range
    <3>. QED  BY <3>2 DEF Range
  <2>6. order[k] = "mock"
    BY <1>3, <2>4, <2>5 DEF ModelOf
  <2>7. \A m \in DOMAIN order : order[m] \in Builders \ {"mock"} => k < m
    BY <1>2, <1>4, <2>2, <2>6
  <2>8. CASE n = 1 /\ k = 1
    BY <1>4, <2>6, <2>8
  <2>9. CASE n = 0 \/ k > 1
    <3>1. settings.explicit \notin Builders \ {"mock"}
      <4>1. CASE n = 0
        BY <1>1, <1>2, <4>1
      <4>2. CASE n = 1
        BY <1>2, <1>4, <2>7, <2>9, <4>2
      <4>. QED  BY <1>2, <4>1, <4>2
    <3>2. ASSUME NEW i \in DOMAIN chain, chain[i] \in Builders \ {"mock"}
          PROVE  \E j \in 1..(i - 1) : chain[j] = "mock"
      <4>1. n + i \in DOMAIN order /\ order[n + i] = chain[i]
        BY <1>2, <1>4
      <4>2. k < n + i
        BY <2>7, <3>2, <4>1
      <4>3. k - n \in DOMAIN chain /\ k - n \in 1..(i - 1) /\ n + (k - n) = k
        BY <1>2, <1>4, <2>3, <2>9, <4>2
      <4>4. order[n + (k - n)] = chain[k - n]
        BY <1>4, <4>3
      <4>. QED  BY <2>6, <4>3, <4>4
    <3>. QED  BY <3>1, <3>2
  <2>. QED  BY <1>2, <2>3, <2>8, <2>9
<1>. QED  BY <1>5, <1>6

\* The intent of a request that is routed is the one of a pattern it matches, and there is
\* none heavier.
LEMMA IntentIsMatched ==
  ASSUME NEW q, q.matches \in SUBSET DOMAIN Patterns, IntentOf(q) # "none"
  PROVE  /\ q.mode = "ecommerce"
         /\ \E i \in q.matches :
              /\ Patterns[i].name = IntentOf(q) /\ Patterns[i].module = "ecommerce"
              /\ \A j \in q.matches : Patterns[j].module = "ecommerce" => Patterns[j].weight <= Patterns[i].weight
<1>. DEFINE C == {i \in q.matches : Patterns[i].module = "ecommerce"}
            V == {Patterns[i].weight : i \in C}
            Wins(i, j) == Patterns[j].weight < Patterns[i].weight \/ (Patterns[j].weight = Patterns[i].weight /\ i < j)
<1>1. q.mode = "ecommerce" /\ C # {} /\ IntentOf(q) = Patterns[Heaviest(C)].name
  BY DEF IntentOf, classify_for_module
<1>2. Len(Patterns) \in Nat /\ DOMAIN Patterns = 1..Len(Patterns) /\ \A i \in DOMAIN Patterns : Patterns[i].weight \in Nat
  <2>. DEFINE R == [name : STRING, module : STRING, weight : Nat]
  <2>1. Patterns \in Seq(R)
    BY AnswerAssumption
  <2>2. \A r \in R : r.weight \in Nat
    OBVIOUS
  <2>. HIDE DEF R
  <2>3. Len(Patterns) \in Nat /\ DOMAIN Patterns = 1..Len(Patterns) /\ \A i \in DOMAIN Patterns : Patterns[i] \in R
    BY <2>1, Elements
  <2>. QED  BY <2>2, <2>3
<1>3. C \in SUBSET (1..Len(Patterns)) /\ IsFiniteSet(C)
  <2>1. IsFiniteSet(1..Len(Patterns))
    BY <1>2, FS_Interval
  <2>2. C \in SUBSET (1..Len(Patterns))
    BY <1>2
  <2>. QED  BY <2>1, <2>2, FS_Subset
<1>4. \E v \in V : \A w \in V : w <= v
  <2>1. IsFiniteSet(V)
    <3>. DEFINE f == [i \in C |-> Patterns[i].weight]
    <3>1. f \in Surjection(C, V)
      BY DEF Surjection
    <3>. QED  BY <1>3, <3>1, FS_Surjection
  <2>2. V \in SUBSET Nat /\ V # {}
    BY <1>1, <1>2
  <2>. HIDE DEF V
  <2>. QED  BY <2>1, <2>2, GreatestNumber
<1>5. PICK v \in V : \A w \in V : w <= v
  BY <1>4
<1>. DEFINE B == {i \in C : Patterns[i].weight = v}
<1>6. B \in SUBSET Nat /\ B # {}
  BY <1>3, <1>5
<1>7. PICK b \in B : \A m \in B : b <= m
  BY <1>6, LeastNumber
<1>8. \A j \in C \ {b} : Wins(b, j)
  <2>1. ASSUME NEW j \in C \ {b} PROVE Wins(b, j)
    <3>1. Patterns[j].weight \in Nat /\ Patterns[j].weight <= v /\ v \in Nat /\ Patterns[b].weight = v /\ b \in Nat /\ j \in Nat
      BY <1>2, <1>3, <1>5, <1>7
    <3>2. Patterns[j].weight = v => b < j
      BY <1>7, <2>1, <3>1
    <3>. QED  BY <3>1, <3>2
  <2>. QED  BY <2>1
<1>9. Heaviest(C) = CHOOSE i \in C : \A j \in C \ {i} : Wins(i, j)
  BY DEF Heaviest
<1>. HIDE DEF C
<1>10. b \in C
  BY <1>7
<1>11. Heaviest(C) \in C /\ \A j \in C \ {Heaviest(C)} : Wins(Heaviest(C), j)
  BY <1>8, <1>9, <1>10
<1>12. \A j \in C : Patterns[j].weight <= Patterns[Heaviest(C)].weight
  <2>1. ASSUME NEW j \in C PROVE Patterns[j].weight <= Patterns[Heaviest(C)].weight
    <3>1. Patterns[j].weight \in Nat /\ Patterns[Heaviest(C)].weight \in Nat
      BY <1>2, <1>3, <1>11
    <3>. QED  BY <1>11, <3>1
  <2>. QED  BY <2>1
<1>. QED  BY <1>1, <1>11, <1>12 DEF C

\* Two lists after one another, element by element.
LEMMA TwoParts ==
  ASSUME NEW E, NEW a \in Seq(E), NEW b \in Seq(E)
  PROVE  /\ a \o b \in Seq(E) /\ Len(a \o b) = Len(a) + Len(b)
         /\ Len(a) \in Nat /\ Len(b) \in Nat
         /\ \A i \in 1..Len(a) : (a \o b)[i] = a[i]
         /\ \A i \in 1..Len(b) : (a \o b)[Len(a) + i] = b[i]
OBVIOUS

\* A list made of four lists after one another, element by element.
MadeOf(E, a, b, c, d, s) ==
  /\ s \in Seq(E) /\ Len(s) = Len(a) + Len(b) + Len(c) + Len(d)
  /\ \A i \in 1..Len(a) : s[i] = a[i]
  /\ \A i \in 1..Len(b) : s[Len(a) + i] = b[i]
  /\ \A i \in 1..Len(c) : s[Len(a) + Len(b) + i] = c[i]
  /\ \A i \in 1..Len(d) : s[Len(a) + Len(b) + Len(c) + i] = d[i]

\* What that says is so.
LEMMA FourParts ==
  ASSUME NEW E, NEW a \in Seq(E), NEW b \in Seq(E), NEW c \in Seq(E), NEW d \in Seq(E)
  PROVE  MadeOf(E, a, b, c, d, a \o b \o c \o d)
<1>. DEFINE ab == a \o b
            abc == ab \o c
            s == abc \o d
<1>1. Len(a) \in Nat /\ Len(b) \in Nat /\ Len(c) \in Nat /\ Len(d) \in Nat
  OBVIOUS
<1>2. /\ ab \in Seq(E) /\ Len(ab) = Len(a) + Len(b)
      /\ \A i \in 1..Len(a) : ab[i] = a[i]
      /\ \A i \in 1..Len(b) : ab[Len(a) + i] = b[i]
  BY TwoParts
<1>. HIDE DEF ab
<1>11. ab \in Seq(E)
  BY <1>2
<1>3. /\ abc \in Seq(E) /\ Len(abc) = Len(ab) + Len(c)
      /\ \A i \in 1..Len(ab) : abc[i] = ab[i]
      /\ \A i \in 1..Len(c) : abc[Len(ab) + i] = c[i]
  <2>1. abc \in Seq(E) /\ Len(abc) = Len(ab) + Len(c)
    BY <1>11, TwoParts
  <2>2. \A i \in 1..Len(ab) : abc[i] = ab[i]
    BY <1>11, TwoParts
  <2>3. \A i \in 1..Len(c) : abc[Len(ab) + i] = c[i]
    BY <1>11, TwoParts
  <2>. HIDE DEF abc
  <2>. QED  BY <2>1, <2>2, <2>3
<1>. HIDE DEF abc
<1>12. abc \in Seq(E)
  BY <1>3
<1>4. /\ s \in Seq(E) /\ Len(s) = Len(abc) + Len(d)
      /\ \A i \in 1..Len(abc) : s[i] = abc[i]
      /\ \A i \in 1..Len(d) : s[Len(abc) + i] = d[i]
  <2>1. s \in Seq(E) /\ Len(s) = Len(abc) + Len(d)
    BY <1>12, TwoParts
  <2>2. \A i \in 1..Len(abc) : s[i] = abc[i]
    BY <1>12, TwoParts
  <2>3. \A i \in 1..Len(d) : s[Len(abc) + i] = d[i]
    BY <1>12, TwoParts
  <2>. HIDE DEF s
  <2>. QED  BY <2>1, <2>2, <2>3
<1>. HIDE DEF s
<1>5. s \in Seq(E) /\ Len(s) = Len(a) + Len(b) + Len(c) + Len(d)
  BY <1>1, <1>2, <1>3, <1>4
<1>6. ASSUME NEW i \in 1..Len(a) PROVE s[i] = a[i]
  <2>1. i \in 1..Len(ab) /\ i \in 1..Len(abc)
    BY <1>1, <1>2, <1>3
  <2>. QED  BY <1>2, <1>3, <1>4, <2>1
<1>7. ASSUME NEW i \in 1..Len(b) PROVE s[Len(a) + i] = b[i]
  <2>1. Len(a) + i \in 1..Len(ab) /\ Len(a) + i \in 1..Len(abc)
    BY <1>1, <1>2, <1>3
  <2>. QED  BY <1>2, <1>3, <1>4, <2>1
<1>8. ASSUME NEW i \in 1..Len(c) PROVE s[Len(a) + Len(b) + i] = c[i]
  <2>1. Len(ab) + i \in 1..Len(abc) /\ Len(ab) + i = Len(a) + Len(b) + i
    BY <1>1, <1>2, <1>3
  <2>2. s[Len(ab) + i] = c[i]
    BY <1>3, <1>4, <2>1
  <2>. QED  BY <2>1, <2>2
<1>9. ASSUME NEW i \in 1..Len(d) PROVE s[Len(a) + Len(b) + Len(c) + i] = d[i]
  <2>1. Len(abc) + i = Len(a) + Len(b) + Len(c) + i
    BY <1>1, <1>2, <1>3
  <2>. QED  BY <1>4, <2>1
<1>10. s = a \o b \o c \o d
  BY DEF s, abc, ab
<1>. QED  BY <1>5, <1>6, <1>7, <1>8, <1>9, <1>10 DEF MadeOf

\* What a question is made of.
LEMMA QuestionFacts ==
  ASSUME NEW q \in Questions
  PROVE  /\ q.mode \in {"default", "ecommerce"} /\ q.matches \in SUBSET DOMAIN Patterns
         /\ q.settings.chain \in Seq(STRING)
         /\ q.settings.keyed \in BOOLEAN
<1>1. ASSUME NEW x \in Settings \cup {NoSettings}
      PROVE  x.chain \in Seq(STRING) /\ x.keyed \in BOOLEAN
  <2>1. <<>> \in Seq(STRING) /\ Chains \subseteq Seq(STRING)
    BY AnswerAssumption
  <2>2. CASE x \in Settings
    <3>1. x.chain \in Chains /\ x.keyed \in BOOLEAN
      BY <2>2 DEF Settings
    <3>. QED  BY <2>1, <3>1
  <2>3. CASE x = NoSettings
    <3>1. x.chain = <<>> /\ x.keyed = FALSE
      BY <2>3 DEF NoSettings
    <3>2. FALSE \in BOOLEAN
      OBVIOUS
    <3>. QED  BY <2>1, <3>1, <3>2, Zenon
  <2>. QED  BY <2>2, <2>3
<1>2. q.mode \in {"default", "ecommerce"} /\ q.matches \in SUBSET DOMAIN Patterns /\ q.settings \in Settings \cup {NoSettings}
  BY DEF Questions, ChatQuestions, RoutedQuestions, ShoppingQuestions, PreviewQuestions
<1>. QED  BY <1>1, <1>2

\* The records of a call, the last of them how it ended.
CallTold(tools, ending) ==
  /\ tools \in Seq(Range(tools)) /\ Len(tools) \in {2, 3}
  /\ \A i \in 1..Len(tools) : tools[i].type = "tool.call"
  /\ tools[Len(tools)].outcome = ending

\* So the records of a call are not none.
LEMMA CallHasRecords ==
  ASSUME NEW tools, NEW ending, CallTold(tools, ending)
  PROVE  Len(tools) # 0 /\ tools # <<>>
<1>1. Len(tools) \in {2, 3}
  BY DEF CallTold
<1>2. Len(tools) # 0
  BY <1>1
<1>3. tools = <<>> => Len(tools) = 0
  OBVIOUS
<1>. QED  BY <1>2, <1>3

\* A call has two records or three.
LEMMA CallIsTold ==
  ASSUME NEW tool, NEW ending
  PROVE  CallTold(CallRecords(tool, ending), ending)
<1>. DEFINE a == CallRecord(tool, "queued")
            b == CallRecord(tool, "running")
            c == CallRecord(tool, ending)
            r == CallRecords(tool, ending)
<1>1. a.type = "tool.call" /\ b.type = "tool.call" /\ c.type = "tool.call" /\ c.outcome = ending
  BY DEF CallRecord
<1>2. r = <<a, c>> \/ r = <<a, b, c>>
  BY DEF CallRecords
<1>. HIDE DEF a, b, c, r
<1>3. r = <<a, c>> => CallTold(r, ending)
  <2>. HAVE r = <<a, c>>
  <2>1. Len(r) = 2 /\ r[1] = a /\ r[2] = c /\ r \in Seq({a, c})
    OBVIOUS
  <2>2. r \in Seq(Range(r))
    BY <2>1 DEF Range
  <2>3. \A i \in 1..2 : i = 1 \/ i = 2
    OBVIOUS
  <2>. QED  BY <1>1, <2>1, <2>2, <2>3 DEF CallTold
<1>4. r = <<a, b, c>> => CallTold(r, ending)
  <2>. HAVE r = <<a, b, c>>
  <2>1. Len(r) = 3 /\ r[1] = a /\ r[2] = b /\ r[3] = c /\ r \in Seq({a, b, c})
    OBVIOUS
  <2>2. r \in Seq(Range(r))
    BY <2>1 DEF Range
  <2>3. \A i \in 1..3 : i = 1 \/ i = 2 \/ i = 3
    OBVIOUS
  <2>. QED  BY <1>1, <2>1, <2>2, <2>3 DEF CallTold
<1>. QED  BY <1>2, <1>3, <1>4 DEF r

\* What the chat service has before the first event: the text starts with what was
\* received, there is at most one tool, and a summary only where the tool told one.
LEMMA Artifacts ==
  ASSUME NEW q \in Questions
  PROVE  LET a == create_chat_artifacts(q) IN
         /\ a.content \in Seq({"received", "evidence", "summary"}) /\ Len(a.content) \in 1..3
         /\ a.content[1] = "received"
         /\ a.plan.useTools <=> a.tools # <<>>
         /\ a.plan.useTools <=> a.ended # <<>>
         /\ q.tool \notin {"queued", "running"}
         /\ \/ a.tools = <<>> /\ \A i \in DOMAIN a.content : a.content[i] # "summary"
            \/ /\ CallTold(a.tools, q.tool)
               /\ \A i \in DOMAIN a.content : a.content[i] = "summary" => q.tool = "told"
<1>. DEFINE tool == _plan_tool_call(q.mentioned)
            summed == tool # "none" /\ q.tool = "told"
            S == {"received", "evidence", "summary"}
            b == IF q.evidence THEN <<"evidence">> ELSE <<>>
            c == IF summed THEN <<"summary">> ELSE <<>>
            a == create_chat_artifacts(q)
            content == <<"received">> \o b \o c
<1>20. q.evidence \in BOOLEAN /\ q.tool \notin {"queued", "running"}
  BY DEF Questions, ChatQuestions, RoutedQuestions, ShoppingQuestions, PreviewQuestions
<1>1. /\ a.content = content
      /\ a.tools = IF tool = "none" THEN <<>> ELSE CallRecords(tool, q.tool)
      /\ a.ended = IF tool = "none" THEN <<>> ELSE <<CallRecord(tool, q.tool)>>
      /\ a.plan.useTools = (tool # "none")
  BY DEF create_chat_artifacts
<1>2. /\ b \in Seq(S) /\ c \in Seq(S) /\ <<"received">> \in Seq(S)
      /\ Len(b) \in {0, 1} /\ Len(c) \in {0, 1} /\ (Len(c) = 1 => summed)
      /\ \A i \in 1..Len(b) : b[i] # "summary"
  <2>1. <<"evidence">> \in Seq(S) /\ <<"summary">> \in Seq(S) /\ <<>> \in Seq(S) /\ <<"received">> \in Seq(S)
    OBVIOUS
  <2>2. Len(<<"evidence">>) = 1 /\ <<"evidence">>[1] = "evidence" /\ Len(<<"summary">>) = 1 /\ Len(<<>>) = 0
    OBVIOUS
  <2>3. b = <<"evidence">> \/ b = <<>>
    OBVIOUS
  <2>4. (c = <<"summary">> /\ summed) \/ c = <<>>
    OBVIOUS
  <2>. HIDE DEF b, c, S, summed
  <2>5. b \in Seq(S) /\ Len(b) \in {0, 1} /\ \A i \in 1..Len(b) : b[i] # "summary"
    <3>1. CASE b = <<"evidence">>
      BY <2>1, <2>2, <3>1
    <3>2. CASE b = <<>>
      BY <2>1, <2>2, <3>2
    <3>. QED  BY <2>3, <3>1, <3>2
  <2>6. c \in Seq(S) /\ Len(c) \in {0, 1} /\ (Len(c) = 1 => summed)
    <3>1. CASE c = <<"summary">> /\ summed
      BY <2>1, <2>2, <3>1
    <3>2. CASE c = <<>>
      BY <2>1, <2>2, <3>2
    <3>. QED  BY <2>4, <3>1, <3>2
  <2>. QED  BY <2>1, <2>5, <2>6
<1>. HIDE DEF b, c, summed, tool
<1>3. /\ content \in Seq(S) /\ Len(content) = 1 + Len(b) + Len(c) /\ content[1] = "received"
      /\ \A i \in DOMAIN content : content[i] = "summary" => Len(c) = 1
  <2>. DEFINE d == <<"received">> \o b
  <2>1. Len(<<"received">>) = 1 /\ <<"received">>[1] = "received"
    OBVIOUS
  <2>2. /\ d \in Seq(S) /\ Len(d) = 1 + Len(b) /\ d[1] = "received"
        /\ \A i \in 1..Len(d) : d[i] # "summary"
    BY <1>2, <2>1
  <2>. HIDE DEF d
  <2>3. /\ d \o c \in Seq(S) /\ Len(d \o c) = Len(d) + Len(c) /\ (d \o c)[1] = "received"
        /\ DOMAIN (d \o c) = 1..(Len(d) + Len(c))
        /\ \A i \in 1..Len(d) : (d \o c)[i] # "summary"
    BY <1>2, <2>2
  <2>4. Len(c) = 0 => \A i \in DOMAIN (d \o c) : (d \o c)[i] # "summary"
    BY <2>2, <2>3
  <2>5. \A i \in DOMAIN (d \o c) : (d \o c)[i] = "summary" => Len(c) = 1
    BY <1>2, <2>4
  <2>6. content = d \o c
    BY DEF d
  <2>. QED  BY <2>2, <2>3, <2>5, <2>6
<1>. HIDE DEF content, a
<1>4. a.content \in Seq(S) /\ Len(a.content) \in 1..3 /\ a.content[1] = "received"
  <2>1. a.content \in Seq(S) /\ a.content[1] = "received" /\ Len(a.content) = 1 + Len(b) + Len(c)
    BY <1>1, <1>3
  <2>2. Len(b) \in {0, 1} /\ Len(c) \in {0, 1}
    BY <1>2
  <2>3. 1 + Len(b) + Len(c) \in 1..3
    <3>1. \A m, n \in {0, 1} : 1 + m + n \in 1..3
      OBVIOUS
    <3>. QED  BY <2>2, <3>1
  <2>. QED  BY <2>1, <2>3
<1>5. \A i \in DOMAIN a.content : a.content[i] = "summary" => tool # "none" /\ q.tool = "told"
  BY <1>1, <1>2, <1>3 DEF summed
<1>6. (a.plan.useTools <=> a.tools # <<>>) /\ (a.plan.useTools <=> a.ended # <<>>)
  <2>1. <<CallRecord(tool, q.tool)>> # <<>>
    OBVIOUS
  <2>2. CallTold(CallRecords(tool, q.tool), q.tool)
    BY CallIsTold
  <2>3. CallRecords(tool, q.tool) # <<>>
    BY <2>2, CallHasRecords
  <2>. QED  BY <1>1, <2>1, <2>3
<1>7. \/ a.tools = <<>> /\ \A i \in DOMAIN a.content : a.content[i] # "summary"
      \/ /\ CallTold(a.tools, q.tool)
         /\ \A i \in DOMAIN a.content : a.content[i] = "summary" => q.tool = "told"
  <2>1. CASE tool = "none"
    BY <1>1, <1>5, <2>1
  <2>2. CASE tool # "none"
    BY <1>1, <1>5, <2>2, CallIsTold
  <2>. QED  BY <2>1, <2>2
<1>. QED  BY <1>4, <1>6, <1>7, <1>20 DEF a, S

\* Events of which each may follow the ones before.
May(x, e) == Place(x) < Place(e) \/ (x.type = e.type /\ x.type \notin Once)
OrderedEvents(s) == \A i, j \in DOMAIN s : i < j => May(s[i], s[j])

\* The order is kept by an event that may follow all the others.
LEMMA OrderAppend ==
  ASSUME NEW E, NEW s \in Seq(E), NEW e \in E, OrderedEvents(s), \A i \in DOMAIN s : May(s[i], e)
  PROVE  OrderedEvents(Append(s, e))
<1>. DEFINE r == Append(s, e)
<1>1. /\ Len(s) \in Nat /\ DOMAIN r = 1..(Len(s) + 1) /\ DOMAIN s = 1..Len(s)
      /\ r[Len(s) + 1] = e /\ \A j \in DOMAIN s : r[j] = s[j]
  BY Appended
<1>. HIDE DEF r
<1>2. ASSUME NEW i \in DOMAIN r, NEW j \in DOMAIN r, i < j PROVE May(r[i], r[j])
  <2>1. i \in DOMAIN s
    BY <1>1, <1>2
  <2>2. CASE j \in DOMAIN s
    BY <1>1, <1>2, <2>1, <2>2 DEF OrderedEvents
  <2>3. CASE j \notin DOMAIN s
    <3>1. j = Len(s) + 1
      BY <1>1, <2>3
    <3>. QED  BY <1>1, <2>1, <3>1
  <2>. QED  BY <2>2, <2>3
<1>. QED  BY <1>2 DEF OrderedEvents, r

\* What is told once is found where it was told.
LEMMA FinalIs ==
  ASSUME NEW E, wire \in Seq(E), OrderedEvents(wire), NEW k \in DOMAIN wire, wire[k].type \in Once
  PROVE  Final(wire[k].type) = wire[k]
<1>1. DOMAIN wire = 1..Len(wire) /\ Len(wire) \in Nat
  OBVIOUS
<1>2. ASSUME NEW i \in DOMAIN wire, wire[i].type = wire[k].type PROVE i = k
  <2>1. Place(wire[i]) = Place(wire[k])
    BY <1>2 DEF Place
  <2>2. Place(wire[k]) \in Int
    <3>1. PICK n \in {1, 3, 6, 7} : Place(wire[k]) = n
      BY PlaceOfType DEF Once
    <3>. QED  BY <3>1
  <2>3. ~May(wire[i], wire[k]) /\ ~May(wire[k], wire[i])
    BY <1>2, <2>1, <2>2 DEF May
  <2>. QED  BY <1>1, <2>3 DEF OrderedEvents
<1>. QED  BY <1>2 DEF Final

-----------------------------------------------------------------------------
\* The events of the chat service, the number of its tools and of the pieces of its text.
Story(q) == iter_chat_stream_events(q)
ToolCount(q) == Len(create_chat_artifacts(q).tools)
PieceCount(q) == Len(create_chat_artifacts(q).content)
Completed(q) ==
  [type |-> "message.completed", content |-> create_chat_artifacts(q).content, blocks |-> 0, provider |-> "python-backend"]
Closing(q) == [type |-> "chat.completed", plan |-> create_chat_artifacts(q).plan]

\* What the chat service tells, event by event.
LEMMA StoryEvents ==
  ASSUME NEW q \in Questions
  PROVE  /\ ToolCount(q) \in {0, 2, 3} /\ PieceCount(q) \in 1..3
         /\ Story(q) \in Seq(Range(Story(q))) /\ Len(Story(q)) = 5 + ToolCount(q) + PieceCount(q)
         /\ Story(q)[1].type = "chat.started" /\ Story(q)[2].type = "thinking.delta" /\ Story(q)[3].type = "thinking.completed"
         /\ \A i \in 1..ToolCount(q) : Story(q)[3 + i].type = "tool.call"
         /\ ToolCount(q) # 0 => Story(q)[3 + ToolCount(q)].outcome = q.tool
         /\ \A i \in 1..PieceCount(q) : Story(q)[3 + ToolCount(q) + i] = Delta(create_chat_artifacts(q).content[i])
         /\ Story(q)[4 + ToolCount(q) + PieceCount(q)] = Completed(q)
         /\ Story(q)[5 + ToolCount(q) + PieceCount(q)] = Closing(q)
<1>. DEFINE a == create_chat_artifacts(q)
            n == ToolCount(q)
            m == PieceCount(q)
            notes == <<Event("chat.started"), Event("thinking.delta"), Event("thinking.completed")>>
            deltas == [i \in DOMAIN a.content |-> Delta(a.content[i])]
            ends == <<Completed(q), Closing(q)>>
            E == {Event("chat.started"), Event("thinking.delta"), Event("thinking.completed")}
                   \cup {Delta(x) : x \in {"received", "evidence", "summary"}} \cup {Completed(q), Closing(q)}
                   \cup Range(a.tools)
            s == notes \o a.tools \o deltas \o ends
<1>1. Story(q) = s
  BY DEF Story, iter_chat_stream_events, Completed, Closing
<1>2. /\ a.content \in Seq({"received", "evidence", "summary"}) /\ Len(a.content) \in 1..3
      /\ a.tools = <<>> \/ CallTold(a.tools, q.tool)
  BY Artifacts
<1>3. /\ n \in {0, 2, 3} /\ n = Len(a.tools) /\ m \in 1..3 /\ m = Len(a.content) /\ a.tools \in Seq(E)
      /\ \A i \in 1..n : a.tools[i].type = "tool.call"
      /\ n # 0 => a.tools[n].outcome = q.tool
  <2>1. m \in 1..3 /\ m = Len(a.content) /\ n = Len(a.tools)
    BY <1>2 DEF ToolCount, PieceCount
  <2>2. CASE a.tools = <<>>
    BY <2>1, <2>2
  <2>3. CASE CallTold(a.tools, q.tool)
    <3>1. /\ a.tools \in Seq(Range(a.tools)) /\ n \in {2, 3}
          /\ \A i \in 1..n : a.tools[i].type = "tool.call"
          /\ a.tools[n].outcome = q.tool
      BY <2>1, <2>3 DEF CallTold
    <3>2. Range(a.tools) \subseteq E
      OBVIOUS
    <3>. HIDE DEF E, n, a
    <3>3. a.tools \in Seq(E)
      BY <3>1, <3>2
    <3>. QED  BY <2>1, <3>1, <3>3
  <2>. QED  BY <1>2, <2>1, <2>2, <2>3
<1>4. notes \in Seq(E) /\ Len(notes) = 3 /\ notes[1] = Event("chat.started") /\ notes[2] = Event("thinking.delta")
      /\ notes[3] = Event("thinking.completed")
  OBVIOUS
<1>5. deltas \in Seq(E) /\ Len(deltas) = m /\ \A i \in 1..m : deltas[i] = Delta(a.content[i])
  <2>1. DOMAIN a.content = 1..m /\ m \in Nat /\ \A i \in 1..m : a.content[i] \in {"received", "evidence", "summary"}
    BY <1>2, <1>3
  <2>2. \A i \in 1..m : Delta(a.content[i]) \in E
    BY <2>1
  <2>. HIDE DEF E, a, m
  <2>. QED  BY <2>1, <2>2
<1>6. ends \in Seq(E) /\ Len(ends) = 2 /\ ends[1] = Completed(q) /\ ends[2] = Closing(q)
  OBVIOUS
<1>. HIDE DEF notes, deltas, ends, E, a, n, m
<1>. DEFINE tools == a.tools
<1>. HIDE DEF tools
<1>15. /\ Len(notes) = 3 /\ Len(tools) = n /\ Len(deltas) = m /\ Len(ends) = 2 /\ n \in Nat /\ m \in Nat
       /\ notes \in Seq(E) /\ tools \in Seq(E) /\ deltas \in Seq(E) /\ ends \in Seq(E)
  BY <1>3, <1>4, <1>5, <1>6 DEF tools
<1>16. s = notes \o tools \o deltas \o ends
  BY DEF tools
<1>. HIDE DEF s
<1>7. /\ s \in Seq(E) /\ Len(s) = Len(notes) + Len(tools) + Len(deltas) + Len(ends)
      /\ \A i \in 1..Len(notes) : s[i] = notes[i]
      /\ \A i \in 1..Len(tools) : s[Len(notes) + i] = tools[i]
      /\ \A i \in 1..Len(deltas) : s[Len(notes) + Len(tools) + i] = deltas[i]
      /\ \A i \in 1..Len(ends) : s[Len(notes) + Len(tools) + Len(deltas) + i] = ends[i]
  <2>1. notes \in Seq(E) /\ tools \in Seq(E) /\ deltas \in Seq(E) /\ ends \in Seq(E)
    BY <1>15
  <2>2. MadeOf(E, notes, tools, deltas, ends, notes \o tools \o deltas \o ends)
    BY <2>1, FourParts
  <2>. QED  BY <1>16, <2>2 DEF MadeOf
<1>8. Len(s) = 5 + n + m
  <2>1. Len(s) = 3 + n + m + 2
    BY <1>7, <1>15
  <2>. QED  BY ONLY <2>1, <1>15
<1>9. s[1] = notes[1] /\ s[2] = notes[2] /\ s[3] = notes[3]
  <2>1. 1 \in 1..Len(notes) /\ 2 \in 1..Len(notes) /\ 3 \in 1..Len(notes)
    BY <1>4
  <2>. QED  BY <1>7, <2>1
<1>10. ASSUME NEW i \in 1..n PROVE s[3 + i] = a.tools[i]
  <2>1. i \in 1..Len(tools) /\ Len(notes) + i = 3 + i
    BY <1>15
  <2>2. s[3 + i] = tools[i]
    BY <1>7, <2>1
  <2>. QED  BY <2>2 DEF tools
<1>17. n # 0 => n \in 1..n
  BY <1>3
<1>11. ASSUME NEW i \in 1..m PROVE s[3 + n + i] = Delta(a.content[i])
  <2>1. i \in 1..Len(deltas) /\ Len(notes) + Len(tools) + i = 3 + n + i
    BY <1>15
  <2>2. s[Len(notes) + Len(tools) + i] = deltas[i]
    BY <1>7, <2>1
  <2>. QED  BY <1>5, <2>1, <2>2
<1>12. s[4 + n + m] = Completed(q) /\ s[5 + n + m] = Closing(q)
  <2>1. 1 \in 1..Len(ends) /\ 2 \in 1..Len(ends) /\ Len(notes) + Len(tools) + Len(deltas) = 3 + n + m
    BY <1>15
  <2>2. s[3 + n + m + 1] = ends[1] /\ s[3 + n + m + 2] = ends[2]
    BY <1>7, <2>1
  <2>3. 3 + n + m + 1 = 4 + n + m /\ 3 + n + m + 2 = 5 + n + m
    BY ONLY <1>15
  <2>. QED  BY <1>6, <2>2, <2>3
<1>13. s \in Seq(Range(s))
  BY <1>7 DEF Range
<1>14. notes[1].type = "chat.started" /\ notes[2].type = "thinking.delta" /\ notes[3].type = "thinking.completed"
  BY <1>4 DEF Event
<1>. QED  BY <1>1, <1>3, <1>8, <1>9, <1>10, <1>11, <1>12, <1>13, <1>14, <1>17 DEF n, m, a

\* What kind of event comes where.
LEMMA StoryKinds ==
  ASSUME NEW q \in Questions, NEW i \in 1..Len(Story(q))
  PROVE  /\ i = 1 => Story(q)[i].type = "chat.started"
         /\ i = 2 => Story(q)[i].type = "thinking.delta"
         /\ i = 3 => Story(q)[i].type = "thinking.completed"
         /\ i > 3 /\ i <= 3 + ToolCount(q) => Story(q)[i].type = "tool.call"
         /\ i > 3 + ToolCount(q) /\ i <= 3 + ToolCount(q) + PieceCount(q) =>
              /\ Story(q)[i].type = "message.delta"
              /\ Story(q)[i].piece = create_chat_artifacts(q).content[i - 3 - ToolCount(q)]
         /\ i = 4 + ToolCount(q) + PieceCount(q) => Story(q)[i].type = "message.completed"
         /\ i = 5 + ToolCount(q) + PieceCount(q) => Story(q)[i].type = "chat.completed"
<1>. DEFINE n == ToolCount(q)
            m == PieceCount(q)
            s == Story(q)
<1>1. /\ n \in {0, 2, 3} /\ m \in 1..3 /\ Len(s) = 5 + n + m
      /\ s[1].type = "chat.started" /\ s[2].type = "thinking.delta" /\ s[3].type = "thinking.completed"
      /\ \A j \in 1..n : s[3 + j].type = "tool.call"
      /\ \A j \in 1..m : s[3 + n + j] = Delta(create_chat_artifacts(q).content[j])
      /\ s[4 + n + m] = Completed(q) /\ s[5 + n + m] = Closing(q)
  BY StoryEvents
<1>. HIDE DEF n, m, s
<1>2. i \in Nat
  OBVIOUS
<1>3. ASSUME i > 3, i <= 3 + n PROVE s[i].type = "tool.call"
  <2>1. i - 3 \in 1..n /\ 3 + (i - 3) = i
    BY <1>1, <1>2, <1>3
  <2>. QED  BY <1>1, <2>1
<1>4. ASSUME i > 3 + n, i <= 3 + n + m
      PROVE  s[i].type = "message.delta" /\ s[i].piece = create_chat_artifacts(q).content[i - 3 - n]
  <2>. DEFINE j == i - 3 - n
  <2>1. j \in 1..m /\ 3 + n + j = i
    BY <1>1, <1>2, <1>4
  <2>2. s[3 + n + j] = Delta(create_chat_artifacts(q).content[j])
    BY <1>1, <2>1
  <2>. QED  BY <2>1, <2>2 DEF Delta
<1>5. Completed(q).type = "message.completed" /\ Closing(q).type = "chat.completed"
  BY DEF Completed, Closing
<1>. QED  BY <1>1, <1>3, <1>4, <1>5 DEF n, m, s

\* It is told in the order of the protocol.
LEMMA StoryInOrder ==
  ASSUME NEW q \in Questions
  PROVE  OrderedEvents(Story(q))
<1>. DEFINE n == ToolCount(q)
            m == PieceCount(q)
            s == Story(q)
            Rank(i) == IF i <= 3 THEN i ELSE IF i <= 3 + n THEN 4 ELSE IF i <= 3 + n + m THEN 5 ELSE IF i = 4 + n + m THEN 6 ELSE 7
<1>1. n \in {0, 2, 3} /\ m \in 1..3 /\ Len(s) = 5 + n + m /\ DOMAIN s = 1..Len(s)
  BY StoryEvents
<1>2. ASSUME NEW i \in 1..Len(s)
      PROVE  Place(s[i]) = Rank(i) /\ (Rank(i) = 4 => s[i].type = "tool.call") /\ (Rank(i) = 5 => s[i].type = "message.delta")
  <2>1. /\ i = 1 => s[i].type = "chat.started"
        /\ i = 2 => s[i].type = "thinking.delta"
        /\ i = 3 => s[i].type = "thinking.completed"
        /\ i > 3 /\ i <= 3 + n => s[i].type = "tool.call"
        /\ i > 3 + n /\ i <= 3 + n + m => s[i].type = "message.delta"
        /\ i = 4 + n + m => s[i].type = "message.completed"
        /\ i = 5 + n + m => s[i].type = "chat.completed"
    BY StoryKinds
  <2>. HIDE DEF n, m, s
  <2>2. i = 1 \/ i = 2 \/ i = 3 \/ (i > 3 /\ i <= 3 + n) \/ (i > 3 + n /\ i <= 3 + n + m) \/ i = 4 + n + m \/ i = 5 + n + m
    BY <1>1
  <2>. QED  BY <1>1, <2>1, <2>2, PlaceOfType
<1>. HIDE DEF n, m, s
<1>3. ASSUME NEW i \in 1..Len(s), NEW j \in 1..Len(s), i < j
      PROVE  Rank(i) < Rank(j) \/ (Rank(i) = Rank(j) /\ Rank(i) \in {4, 5})
  BY <1>1, <1>3
<1>4. ASSUME NEW i \in DOMAIN s, NEW j \in DOMAIN s, i < j
      PROVE  May(s[i], s[j])
  <2>1. /\ Place(s[i]) = Rank(i) /\ (Rank(i) = 4 => s[i].type = "tool.call") /\ (Rank(i) = 5 => s[i].type = "message.delta")
        /\ Place(s[j]) = Rank(j) /\ (Rank(j) = 4 => s[j].type = "tool.call") /\ (Rank(j) = 5 => s[j].type = "message.delta")
    BY <1>1, <1>2
  <2>2. Rank(i) < Rank(j) \/ (Rank(i) = Rank(j) /\ Rank(i) \in {4, 5})
    BY <1>1, <1>3, <1>4
  <2>3. "message.delta" \notin Once /\ "tool.call" \notin Once
    BY DEF Once
  <2>. HIDE DEF Rank
  <2>. QED  BY <2>1, <2>2, <2>3 DEF May
<1>. QED  BY <1>4 DEF OrderedEvents, s

-----------------------------------------------------------------------------
\* The types, of the model as a record.
AnswerModels == [said : Seq(1..MaxPieces), fate : RawReasons \cup {"open", "failed", "broke"}]
AnswerSteps == {"begin", "search", "model", "end", "over", "broken"}
AnswerTypes ==
  /\ question \in Questions /\ step \in AnswerSteps /\ model \in AnswerModels
  /\ buffer \in Seq(1..MaxPieces) /\ closed \in BOOLEAN /\ finish \in FinishReasons

\* What the end says of the model is how the model ended.
FateTold ==
  /\ finish = "error" <=> model.fate = "failed"
  /\ finish = "stop" <=> model.fate \in {"stop", "none"}

\* How the model, the buffer and the step go together.
ModelInv ==
  /\ step \in {"begin", "search"} => model = [said |-> <<>>, fate |-> "open"]
  /\ step \in {"search", "model", "end"} => lane \in {"bridge", "preview"}
  /\ lane \in {"bridge", "preview"} => buffer = model.said
  /\ step = "end" => FateTold
  /\ step = "over" /\ lane \in {"bridge", "preview", "preview turn"} => FateTold

\* How many pieces of its text the chat service has told with n events.
ToldOf(q, n) ==
  IF n <= 3 + ToolCount(q) THEN 0
  ELSE IF n <= 3 + ToolCount(q) + PieceCount(q) THEN n - 3 - ToolCount(q)
  ELSE PieceCount(q)

\* The chat service has told the beginning of its story.
ChatInv ==
  lane = "chat" =>
    /\ step \in {"begin", "over"}
    /\ wire \in Seq(Range(Story(question))) /\ Len(wire) <= Len(Story(question))
    /\ \A i \in DOMAIN wire : wire[i] = Story(question)[i]
    /\ step = "begin" => Len(wire) < Len(Story(question))
    /\ step = "over" => Len(wire) = Len(Story(question))
    /\ Said \in Seq({"received", "evidence", "summary"}) /\ Len(Said) = ToldOf(question, Len(wire))
    /\ \A i \in DOMAIN Said : Said[i] = create_chat_artifacts(question).content[i]

\* The turn without a stream is one response.
TurnAnswer(q) ==
  [type |-> "turn", content |-> create_chat_artifacts(q).content, tools |-> create_chat_artifacts(q).ended,
   plan |-> create_chat_artifacts(q).plan]
TurnInv ==
  lane = "turn" =>
    /\ step \in {"begin", "over"}
    /\ step = "over" => wire = <<TurnAnswer(question)>>

\* What the bridge tells before the end, and the two events that end it.
BridgeWords ==
  {Event("chat.started"), Event("thinking.delta"), Event("thinking.completed")} \cup {Delta(p) : p \in 1..MaxPieces}
BridgeTold(s) ==
  /\ s \in Seq(BridgeWords) /\ OrderedEvents(s) /\ PiecesOf(s) = model.said
  /\ \E i \in DOMAIN s : s[i].type = "thinking.completed"
BridgeAnswer ==
  [type |-> "message.completed", content |-> buffer, blocks |-> question.found, finish |-> finish, provider |-> provider]
BridgeEnding ==
  [type |-> "chat.completed", plan |-> [useRetrieval |-> TRUE, useTools |-> FALSE, intent |-> IntentOf(question)]]

BridgeInv ==
  lane = "bridge" =>
    /\ step = "begin" => wire = <<>>
    /\ step = "search" => wire = <<Event("chat.started"), Event("thinking.delta")>>
    /\ step \in {"model", "end", "broken"} => closed = TRUE /\ BridgeTold(wire)
    /\ step = "over" => \E s : BridgeTold(s) /\ wire = s \o <<BridgeAnswer, BridgeEnding>>

\* What the preview tells before the end.
PreviewCard == [type |-> "retrieval", blocks |-> question.found]
PreviewWords == {PreviewCard} \cup {Delta(p) : p \in 1..MaxPieces}
PreviewTold(s) ==
  /\ s \in Seq(PreviewWords) /\ Len(s) >= 1 /\ s[1] = PreviewCard
  /\ \A i \in DOMAIN s : i > 1 => s[i].type = "message.delta"
  /\ PiecesOf(s) = model.said
PreviewDone == [type |-> "done", finish |-> finish, provider |-> provider]

PreviewInv ==
  lane = "preview" =>
    /\ step \in {"begin", "search"} => wire = <<>>
    /\ step \in {"model", "end", "broken"} => PreviewTold(wire)
    /\ step = "over" => \E s : PreviewTold(s) /\ wire = Append(s, PreviewDone)

\* The preview without a stream is one response, or none if the model breaks.
PreviewTurnInv ==
  lane = "preview turn" =>
    /\ step \in {"begin", "over", "broken"}
    /\ step \in {"begin", "broken"} => wire = <<>>
    /\ step = "over" =>
         wire = <<[type |-> "answer", blocks |-> question.found, content |-> model.said, finish |-> finish, provider |-> provider]>>

AnswerInv == AnswerTypes /\ ModelInv /\ ChatInv /\ TurnInv /\ BridgeInv /\ PreviewInv /\ PreviewTurnInv

\* Where a question goes.
LEMMA QuestionLanes == lane \in {"chat", "turn", "bridge", "preview", "preview turn"}
<1>1. /\ question.surface \in {"preview", "preview turn"} => lane = question.surface
      /\ question.surface = "chat turn" => lane = "turn"
      /\ question.surface \notin {"preview", "preview turn", "chat turn"} => lane = "bridge" \/ lane = "chat"
  BY DEF lane, LaneOf
<1>. QED  BY <1>1

\* A question keeps its lane and its model.
LEMMA SameQuestion ==
  ASSUME question' = question
  PROVE  lane' = lane /\ provider' = provider
BY DEF lane, provider

\* Before anything is asked.
LEMMA InitAnswerInv == AnswerInit => AnswerInv
<1>. SUFFICES ASSUME AnswerInit PROVE AnswerInv
  OBVIOUS
<1>1. /\ question \in Questions /\ step = "begin" /\ model = [said |-> <<>>, fate |-> "open"]
      /\ buffer = <<>> /\ closed = FALSE /\ finish = "stop" /\ wire = <<>>
  BY DEF AnswerInit
<1>2. AnswerTypes
  <2>1. <<>> \in Seq(1..MaxPieces)
    OBVIOUS
  <2>2. [said |-> <<>>, fate |-> "open"] \in AnswerModels
    BY <2>1 DEF AnswerModels
  <2>. QED  BY <1>1, <2>1, <2>2 DEF AnswerTypes, AnswerSteps, FinishReasons
<1>3. ModelInv
  BY <1>1 DEF ModelInv
<1>4. ChatInv
  <2>1. Said = <<>>
    BY <1>1, NoPieces DEF Said
  <2>2. /\ ToolCount(question) \in {0, 2, 3} /\ PieceCount(question) \in 1..3
        /\ Len(Story(question)) = 5 + ToolCount(question) + PieceCount(question)
    BY <1>1, StoryEvents
  <2>3. Len(wire) = 0 /\ wire \in Seq(Range(Story(question))) /\ \A i \in DOMAIN wire : FALSE
    BY <1>1
  <2>4. Len(Said) = 0 /\ Said \in Seq({"received", "evidence", "summary"}) /\ \A i \in DOMAIN Said : FALSE
    BY <2>1
  <2>5. ToldOf(question, 0) = 0 /\ 0 < Len(Story(question))
    BY <2>2 DEF ToldOf
  <2>. QED  BY <1>1, <2>3, <2>4, <2>5 DEF ChatInv
<1>5. TurnInv /\ BridgeInv /\ PreviewInv /\ PreviewTurnInv
  BY <1>1 DEF TurnInv, BridgeInv, PreviewInv, PreviewTurnInv
<1>. QED  BY <1>2, <1>3, <1>4, <1>5 DEF AnswerInv

\* The chat service tells its story, event by event.
LEMMA ChatYieldsKeeps == AnswerInv /\ ChatYields => AnswerInv'
<1>. SUFFICES ASSUME AnswerInv, ChatYields PROVE AnswerInv'
  OBVIOUS
<1>. DEFINE s == Story(question)
            n == ToolCount(question)
            m == PieceCount(question)
            k == Len(wire) + 1
            e == s[k]
            E == Range(s)
            content == create_chat_artifacts(question).content
<1>1. /\ lane = "chat" /\ step = "begin" /\ wire' = Append(wire, e)
      /\ step' = IF k = Len(s) THEN "over" ELSE "begin"
      /\ UNCHANGED <<question, model, buffer, closed, finish>>
  BY DEF ChatYields, Story
<1>2. /\ AnswerTypes /\ ModelInv /\ ChatInv /\ question \in Questions
  BY DEF AnswerInv, AnswerTypes
<1>3. /\ n \in {0, 2, 3} /\ m \in 1..3 /\ Len(s) = 5 + n + m
      /\ content \in Seq({"received", "evidence", "summary"}) /\ Len(content) = m
  <2>1. Len(content) = m
    BY DEF PieceCount
  <2>. QED  BY <1>2, <2>1, StoryEvents, Artifacts
<1>4. /\ wire \in Seq(E) /\ Len(wire) < Len(s) /\ \A i \in DOMAIN wire : wire[i] = s[i]
      /\ Said \in Seq({"received", "evidence", "summary"}) /\ Len(Said) = ToldOf(question, Len(wire))
      /\ \A i \in DOMAIN Said : Said[i] = content[i]
  BY <1>1, <1>2 DEF ChatInv
<1>5. k \in 1..Len(s) /\ Len(wire) \in Nat /\ Len(s) \in Nat /\ DOMAIN s = 1..Len(s)
  <2>1. Len(wire) \in Nat /\ Len(s) \in Nat
    BY <1>3, <1>4
  <2>2. DOMAIN s = 1..Len(s)
    BY <1>2, StoryEvents
  <2>. QED  BY <1>4, <2>1, <2>2
<1>6. e \in E
  BY <1>5 DEF Range
<1>7. /\ k > 3 + n /\ k <= 3 + n + m => e.type = "message.delta" /\ e.piece = content[k - 3 - n]
      /\ k <= 3 + n \/ k > 3 + n + m => e.type # "message.delta"
  <2>1. /\ k = 1 => e.type = "chat.started"
        /\ k = 2 => e.type = "thinking.delta"
        /\ k = 3 => e.type = "thinking.completed"
        /\ k > 3 /\ k <= 3 + n => e.type = "tool.call"
        /\ k > 3 + n /\ k <= 3 + n + m => e.type = "message.delta" /\ e.piece = content[k - 3 - n]
        /\ k = 4 + n + m => e.type = "message.completed"
        /\ k = 5 + n + m => e.type = "chat.completed"
    BY <1>2, <1>5, StoryKinds
  <2>. HIDE DEF n, m, s, k, e, content
  <2>2. n \in {0, 2, 3} /\ m \in 1..3 /\ k \in Nat /\ k >= 1 /\ k <= 5 + n + m
    BY <1>3, <1>5
  <2>3. k <= 3 + n => k = 1 \/ k = 2 \/ k = 3 \/ (k > 3 /\ k <= 3 + n)
    BY <2>2
  <2>4. k > 3 + n + m => k = 4 + n + m \/ k = 5 + n + m
    BY <2>2
  <2>. QED  BY <2>1, <2>3, <2>4
<1>. HIDE DEF s, n, m, e, E, content
<1>8. /\ wire' \in Seq(E) /\ Len(wire') = k /\ k <= Len(s)
      /\ \A i \in DOMAIN wire' : wire'[i] = s[i]
  <2>1. /\ Append(wire, e) \in Seq(E) /\ DOMAIN Append(wire, e) = 1..(Len(wire) + 1) /\ DOMAIN wire = 1..Len(wire)
        /\ Append(wire, e)[Len(wire) + 1] = e /\ \A j \in DOMAIN wire : Append(wire, e)[j] = wire[j]
    BY <1>4, <1>6, Appended
  <2>2. \A i \in 1..k : Append(wire, e)[i] = s[i]
    <3>1. ASSUME NEW i \in 1..k PROVE Append(wire, e)[i] = s[i]
      <4>1. CASE i = k
        BY <2>1, <4>1 DEF e
      <4>2. CASE i # k
        <5>1. i \in DOMAIN wire
          BY <1>5, <2>1, <4>2
        <5>. QED  BY <1>4, <2>1, <5>1
      <4>. QED  BY <4>1, <4>2
    <3>. QED  BY <3>1
  <2>3. Len(Append(wire, e)) = k /\ DOMAIN Append(wire, e) = 1..k
    BY <1>4, <1>6, <2>1
  <2>4. k <= Len(s)
    BY <1>5
  <2>. HIDE DEF k
  <2>. QED  BY <1>1, <2>1, <2>2, <2>3, <2>4
<1>9. Said' = IF e.type = "message.delta" THEN Append(Said, e.piece) ELSE Said
  BY <1>1, <1>4, <1>6, PiecesAppend DEF Said
<1>10. /\ Said' \in Seq({"received", "evidence", "summary"}) /\ Len(Said') = ToldOf(question, k)
       /\ \A i \in DOMAIN Said' : Said'[i] = content[i]
  <2>. DEFINE l == Len(Said)
              t == Said
              W == {"received", "evidence", "summary"}
  <2>1. l = (IF k - 1 <= 3 + n THEN 0 ELSE IF k - 1 <= 3 + n + m THEN k - 1 - 3 - n ELSE m) /\ l \in Nat
    BY <1>3, <1>4, <1>5 DEF ToldOf, n, m
  <2>2. ToldOf(question, k) = IF k <= 3 + n THEN 0 ELSE IF k <= 3 + n + m THEN k - 3 - n ELSE m
    BY DEF ToldOf, n, m
  <2>3. CASE k > 3 + n /\ k <= 3 + n + m
    <3>1. Said' = Append(t, content[k - 3 - n]) /\ l = k - 3 - n - 1 /\ k - 3 - n \in 1..m
      BY <1>3, <1>5, <1>7, <1>9, <2>1, <2>3
    <3>2. content[k - 3 - n] \in W
      BY <1>3, <3>1
    <3>. DEFINE x == content[k - 3 - n]
    <3>3. t \in Seq(W)
      BY <1>4
    <3>. HIDE DEF x, t, k
    <3>4. /\ Append(t, x) \in Seq(W) /\ DOMAIN Append(t, x) = 1..(Len(t) + 1) /\ DOMAIN t = 1..Len(t) /\ Len(t) \in Nat
          /\ Append(t, x)[Len(t) + 1] = x /\ \A j \in DOMAIN t : Append(t, x)[j] = t[j]
      BY <3>2, <3>3, Appended DEF x
    <3>5. \A i \in DOMAIN t : t[i] = content[i]
      BY <1>4 DEF t
    <3>6. Len(t) + 1 = k - 3 - n /\ Len(Append(t, x)) = k - 3 - n
      <4>1. Len(t) + 1 = k - 3 - n
        BY <1>3, <1>5, <3>1 DEF t
      <4>2. Len(Append(t, x)) = Len(t) + 1
        BY <3>2, <3>3 DEF x
      <4>. QED  BY <4>1, <4>2
    <3>7. \A i \in DOMAIN Append(t, x) : Append(t, x)[i] = content[i]
      <4>1. ASSUME NEW i \in 1..(Len(t) + 1) PROVE Append(t, x)[i] = content[i]
        <5>1. CASE i = Len(t) + 1
          BY <3>4, <3>6, <5>1 DEF x
        <5>2. CASE i # Len(t) + 1
          <6>1. i \in DOMAIN t
            BY <3>4, <5>2
          <6>. QED  BY <3>4, <3>5, <6>1
        <5>. QED  BY <5>1, <5>2
      <4>. QED  BY <3>4, <4>1
    <3>8. Said' = Append(t, x) /\ ToldOf(question, k) = k - 3 - n
      <4>1. ~(k <= 3 + n)
        BY <1>3, <1>5, <2>3 DEF k
      <4>. QED  BY <2>2, <2>3, <3>1, <4>1 DEF x
    <3>. QED  BY <3>4, <3>6, <3>7, <3>8
  <2>4. CASE k <= 3 + n \/ k > 3 + n + m
    <3>1. Said' = Said
      BY <1>7, <1>9, <2>4
    <3>2. ToldOf(question, k) = l
      BY <1>3, <1>5, <2>1, <2>2, <2>4
    <3>. QED  BY <1>4, <3>1, <3>2
  <2>. QED  BY <1>3, <1>5, <2>3, <2>4
<1>11. lane' = "chat" /\ question' = question /\ model' = model
  BY <1>1, SameQuestion
<1>. HIDE DEF k
<1>12. ChatInv'
  <2>1. Len(wire)' = k /\ Story(question)' = s /\ Range(Story(question))' = E /\ create_chat_artifacts(question)' = create_chat_artifacts(question)
    BY <1>8, <1>11 DEF s, E
  <2>2. step' \in {"begin", "over"} /\ (step' = "begin" => k < Len(s)) /\ (step' = "over" => k = Len(s))
    <3>1. CASE k = Len(s)
      <4>1. step' = "over"
        BY <1>1, <3>1
      <4>. QED  BY <3>1, <4>1
    <3>2. CASE k # Len(s)
      <4>1. step' = "begin"
        BY <1>1, <3>2
      <4>2. k \in 1..Len(s) /\ Len(s) \in Nat
        BY <1>5
      <4>3. k < Len(s)
        BY ONLY <3>2, <4>2
      <4>. QED  BY <3>2, <4>1, <4>3
    <3>. QED  BY <3>1, <3>2
  <2>3. ToldOf(question, Len(wire))' = ToldOf(question, k)
    BY <1>8, <1>11
  <2>. QED  BY <1>8, <1>10, <1>11, <2>1, <2>2, <2>3 DEF ChatInv, s, E, content
<1>13. AnswerTypes'
  BY <1>1, <1>2 DEF AnswerTypes, AnswerSteps
<1>14. ModelInv'
  BY <1>1, <1>2, <1>11 DEF ModelInv
<1>. QED  BY <1>11, <1>12, <1>13, <1>14 DEF AnswerInv, TurnInv, BridgeInv, PreviewInv, PreviewTurnInv

\* Adding one element at the end.
LEMMA AddOne ==
  ASSUME NEW E, NEW s \in Seq(E), NEW x \in E
  PROVE  s \o <<x>> = Append(s, x)
<1>. DEFINE r == s \o <<x>>
            t == Append(s, x)
<1>1. r \in Seq(E) /\ t \in Seq(E) /\ Len(r) = Len(s) + 1 /\ Len(t) = Len(s) + 1
  OBVIOUS
<1>2. \A i \in 1..(Len(s) + 1) : r[i] = t[i]
  OBVIOUS
<1>. HIDE DEF r, t
<1>3. r = t
  BY <1>1, <1>2
<1>. QED  BY <1>3 DEF r, t

\* The turn without a stream.
LEMMA TurnKeeps == AnswerInv /\ build_chat_turn_response => AnswerInv'
<1>. SUFFICES ASSUME AnswerInv, build_chat_turn_response PROVE AnswerInv'
  OBVIOUS
<1>1. /\ lane = "turn" /\ step' = "over" /\ wire' = <<TurnAnswer(question)>>
      /\ UNCHANGED <<question, model, buffer, closed, finish>>
  BY DEF build_chat_turn_response, TurnAnswer
<1>2. AnswerTypes
  BY DEF AnswerInv
<1>3. lane' = "turn" /\ question' = question
  BY <1>1, SameQuestion
<1>4. AnswerTypes'
  BY <1>1, <1>2 DEF AnswerTypes, AnswerSteps
<1>5. ModelInv'
  BY <1>1, <1>3 DEF ModelInv
<1>6. TurnInv'
  BY <1>1, <1>3 DEF TurnInv
<1>. QED  BY <1>3, <1>4, <1>5, <1>6 DEF AnswerInv, ChatInv, BridgeInv, PreviewInv, PreviewTurnInv

\* The bridge and the preview begin.
LEMMA BeginKeeps == AnswerInv /\ Begin => AnswerInv'
<1>. SUFFICES ASSUME AnswerInv, Begin PROVE AnswerInv'
  OBVIOUS
<1>1. /\ lane \in {"bridge", "preview"} /\ step = "begin" /\ step' = "search"
      /\ wire' = IF lane = "bridge" THEN <<Event("chat.started"), Event("thinking.delta")>> ELSE <<>>
      /\ UNCHANGED <<question, model, buffer, closed, finish>>
  BY DEF Begin
<1>2. AnswerTypes /\ ModelInv
  BY DEF AnswerInv
<1>3. lane' = lane /\ question' = question
  BY <1>1, SameQuestion
<1>4. AnswerTypes'
  BY <1>1, <1>2 DEF AnswerTypes, AnswerSteps
<1>5. ModelInv'
  BY <1>1, <1>2, <1>3 DEF ModelInv
<1>6. BridgeInv'
  BY <1>1, <1>3 DEF BridgeInv
<1>7. PreviewInv'
  BY <1>1, <1>3 DEF PreviewInv
<1>. QED  BY <1>1, <1>3, <1>4, <1>5, <1>6, <1>7 DEF AnswerInv, ChatInv, TurnInv, PreviewTurnInv

\* The first four events of the bridge: in order, without a word, and the thinking closed.
LEMMA BridgeOpening ==
  LET s == <<Event("chat.started"), Event("thinking.delta")>> \o <<Event("thinking.delta"), Event("thinking.completed")>> IN
  /\ s \in Seq(BridgeWords) /\ OrderedEvents(s) /\ PiecesOf(s) = <<>>
  /\ \E i \in DOMAIN s : s[i].type = "thinking.completed"
<1>. DEFINE a == Event("chat.started")
            b == Event("thinking.delta")
            c == Event("thinking.completed")
            s == <<a, b, b, c>>
            E == BridgeWords
<1>1. a \in E /\ b \in E /\ c \in E
  BY DEF BridgeWords
<1>2. a.type = "chat.started" /\ b.type = "thinking.delta" /\ c.type = "thinking.completed"
  BY DEF Event
<1>3. Place(a) = 1 /\ Place(b) = 2 /\ Place(c) = 3
  BY <1>2, PlaceOfType
<1>. HIDE DEF a, b, c, E
<1>4. s \in Seq(E) /\ DOMAIN s = 1..4 /\ s[1] = a /\ s[2] = b /\ s[3] = b /\ s[4] = c
  BY <1>1
<1>5. <<a, b>> \o <<b, c>> = s
  <2>1. <<a, b>> \in Seq(E)
    BY <1>1
  <2>2. <<a, b>> \o <<b, c>> = Append(Append(<<a, b>>, b), c)
    BY <1>1, <2>1, AppendTwo
  <2>3. Append(<<a, b>>, b) = <<a, b, b>>
    BY <1>1, AppendTo2
  <2>4. Append(<<a, b, b>>, c) = s
    BY <1>1, AppendTo3
  <2>. QED  BY <2>2, <2>3, <2>4
<1>6. PiecesOf(s) = <<>>
  <2>1. <<>> \in Seq(E) /\ <<a>> \in Seq(E) /\ <<a, b>> \in Seq(E) /\ <<a, b, b>> \in Seq(E)
    BY <1>1
  <2>2. Append(<<>>, a) = <<a>> /\ Append(<<a>>, b) = <<a, b>> /\ Append(<<a, b>>, b) = <<a, b, b>> /\ Append(<<a, b, b>>, c) = s
    <3>1. Append(<<>>, a) = <<a>>
      BY AppendTo0
    <3>2. Append(<<a>>, b) = <<a, b>>
      BY <1>1, AppendTo1
    <3>3. Append(<<a, b>>, b) = <<a, b, b>>
      BY <1>1, AppendTo2
    <3>4. Append(<<a, b, b>>, c) = s
      BY <1>1, AppendTo3
    <3>. QED  BY <3>1, <3>2, <3>3, <3>4
  <2>3. PiecesOf(<<a>>) = <<>>
    <3>1. PiecesOf(Append(<<>>, a)) = PiecesOf(<<>>)
      BY <1>1, <1>2, <2>1, PiecesAppend
    <3>. QED  BY <2>2, <3>1, NoPieces
  <2>4. PiecesOf(<<a, b>>) = <<>>
    <3>1. PiecesOf(Append(<<a>>, b)) = PiecesOf(<<a>>)
      BY <1>1, <1>2, <2>1, PiecesAppend
    <3>. QED  BY <2>2, <2>3, <3>1
  <2>5. PiecesOf(<<a, b, b>>) = <<>>
    <3>1. PiecesOf(Append(<<a, b>>, b)) = PiecesOf(<<a, b>>)
      BY <1>1, <1>2, <2>1, PiecesAppend
    <3>. QED  BY <2>2, <2>4, <3>1
  <2>6. PiecesOf(Append(<<a, b, b>>, c)) = PiecesOf(<<a, b, b>>)
    BY <1>1, <1>2, <2>1, PiecesAppend
  <2>. QED  BY <2>2, <2>5, <2>6
<1>. HIDE DEF s
<1>7. OrderedEvents(s)
  <2>1. ASSUME NEW i \in DOMAIN s, NEW j \in DOMAIN s, i < j PROVE May(s[i], s[j])
    <3>1. "thinking.delta" \notin Once
      BY DEF Once
    <3>2. (i = 1 /\ j \in {2, 3, 4}) \/ (i = 2 /\ j = 3) \/ (i \in {2, 3} /\ j = 4)
      BY <1>4, <2>1
    <3>3. May(a, b) /\ May(a, c) /\ May(b, c) /\ May(b, b)
      BY <1>2, <1>3, <3>1 DEF May
    <3>. QED  BY <1>4, <3>2, <3>3
  <2>. QED  BY <2>1 DEF OrderedEvents
<1>8. \E i \in DOMAIN s : s[i].type = "thinking.completed"
  BY <1>2, <1>4
<1>9. <<Event("chat.started"), Event("thinking.delta")>> \o <<Event("thinking.delta"), Event("thinking.completed")>> = s
  BY <1>5 DEF a, b, c
<1>. QED  BY <1>4, <1>6, <1>7, <1>8, <1>9 DEF E

\* What was found is told.
LEMMA RetrievedKeeps == AnswerInv /\ Retrieved => AnswerInv'
<1>. SUFFICES ASSUME AnswerInv, Retrieved PROVE AnswerInv'
  OBVIOUS
<1>1. /\ step = "search" /\ step' = "model" /\ UNCHANGED <<question, model, buffer, finish>>
      /\ lane = "bridge" => wire' = wire \o <<Event("thinking.delta"), Event("thinking.completed")>> /\ closed' = TRUE
      /\ lane # "bridge" => wire' = wire \o <<PreviewCard>> /\ closed' = closed
  BY DEF Retrieved, PreviewCard
<1>2. AnswerTypes /\ ModelInv /\ BridgeInv /\ PreviewInv
  BY DEF AnswerInv
<1>3. lane' = lane /\ question' = question /\ model' = model /\ lane \in {"bridge", "preview"}
  BY <1>1, <1>2, SameQuestion DEF ModelInv
<1>4. AnswerTypes'
  <2>1. closed' \in BOOLEAN
    BY <1>1, <1>2 DEF AnswerTypes
  <2>. QED  BY <1>1, <1>2, <2>1 DEF AnswerTypes, AnswerSteps
<1>5. ModelInv'
  BY <1>1, <1>2, <1>3 DEF ModelInv
<1>6. model.said = <<>>
  BY <1>1, <1>2 DEF ModelInv
<1>7. CASE lane = "bridge"
  <2>1. wire' = <<Event("chat.started"), Event("thinking.delta")>> \o <<Event("thinking.delta"), Event("thinking.completed")>>
    BY <1>1, <1>2, <1>7 DEF BridgeInv
  <2>2. BridgeTold(wire')
    BY <1>6, <2>1, BridgeOpening DEF BridgeTold
  <2>3. BridgeInv'
    BY <1>1, <1>3, <1>7, <2>2 DEF BridgeInv, BridgeTold
  <2>. QED  BY <1>3, <1>4, <1>5, <1>7, <2>3 DEF AnswerInv, ChatInv, TurnInv, PreviewInv, PreviewTurnInv
<1>8. CASE lane = "preview"
  <2>. DEFINE E == PreviewWords
              x == PreviewCard
  <2>1. x \in E /\ x.type # "message.delta"
    BY DEF PreviewWords, PreviewCard
  <2>2. wire' = <<>> \o <<x>>
    BY <1>1, <1>2, <1>8 DEF PreviewInv
  <2>. HIDE DEF E, x
  <2>3. wire' = <<x>> /\ <<>> \in Seq(E) /\ Append(<<>>, x) = <<x>>
    BY <2>2, AppendTo0
  <2>4. <<x>> \in Seq(E) /\ Len(<<x>>) = 1 /\ <<x>>[1] = x /\ DOMAIN <<x>> = {1}
    BY <2>1
  <2>5. PiecesOf(<<x>>) = <<>>
    <3>1. PiecesOf(Append(<<>>, x)) = PiecesOf(<<>>)
      BY <2>1, <2>3, PiecesAppend
    <3>. QED  BY <2>3, <3>1, NoPieces
  <2>6. PreviewTold(wire')
    BY <1>6, <2>3, <2>4, <2>5 DEF PreviewTold, E, x
  <2>7. PreviewTold(wire)'
    BY <1>3, <2>6 DEF PreviewTold, PreviewWords, PreviewCard
  <2>8. PreviewInv'
    BY <1>1, <1>3, <1>8, <2>7 DEF PreviewInv
  <2>. QED  BY <1>3, <1>4, <1>5, <1>8, <2>8 DEF AnswerInv, ChatInv, TurnInv, BridgeInv, PreviewTurnInv
<1>. QED  BY <1>3, <1>7, <1>8

\* The model says a word.
LEMMA ModelSaysKeeps == AnswerInv /\ ModelSays => AnswerInv'
<1>. SUFFICES ASSUME AnswerInv, ModelSays PROVE AnswerInv'
  OBVIOUS
<1>. DEFINE piece == Len(model.said) + 1
            d == Delta(piece)
<1>1. /\ step = "model" /\ model.fate = "open" /\ Len(model.said) < MaxPieces
      /\ model' = [model EXCEPT !.said = Append(model.said, piece)] /\ buffer' = Append(buffer, piece)
      /\ wire' = wire \o CloseThinking \o <<d>>
      /\ closed' = (closed \/ lane = "bridge")
      /\ UNCHANGED <<question, step, finish>>
  BY DEF ModelSays
<1>2. AnswerTypes /\ ModelInv /\ BridgeInv /\ PreviewInv
  BY DEF AnswerInv
<1>3. lane' = lane /\ question' = question /\ step' = step /\ lane \in {"bridge", "preview"}
  BY <1>1, <1>2, SameQuestion DEF ModelInv
<1>4. /\ model.said \in Seq(1..MaxPieces) /\ model.fate = "open" /\ buffer = model.said
      /\ model \in AnswerModels /\ MaxPieces \in Nat
  BY <1>1, <1>2, <1>3, AnswerAssumption DEF AnswerTypes, AnswerModels, ModelInv
<1>5. piece \in 1..MaxPieces
  <2>1. Len(model.said) \in Nat
    BY <1>4
  <2>. QED  BY <1>1, <1>4, <2>1
<1>6. d.type = "message.delta" /\ d.piece = piece /\ d \in BridgeWords /\ d \in PreviewWords
  BY <1>5 DEF Delta, BridgeWords, PreviewWords
<1>. HIDE DEF piece, d
<1>7. Append(model.said, piece) \in Seq(1..MaxPieces)
  BY <1>4, <1>5
<1>8. model' \in AnswerModels /\ model'.said = Append(model.said, piece) /\ model'.fate = "open"
  BY <1>1, <1>4, <1>7 DEF AnswerModels
<1>9. AnswerTypes'
  <2>1. closed' \in BOOLEAN
    BY <1>1
  <2>2. buffer' \in Seq(1..MaxPieces)
    BY <1>1, <1>4, <1>7
  <2>. QED  BY <1>1, <1>2, <1>8, <2>1, <2>2 DEF AnswerTypes, AnswerSteps
<1>10. ModelInv'
  BY <1>1, <1>3, <1>4, <1>8 DEF ModelInv
<1>11. CASE lane = "bridge"
  <2>1. closed = TRUE /\ BridgeTold(wire)
    BY <1>1, <1>2, <1>11 DEF BridgeInv
  <2>2. CloseThinking = <<>>
    BY <2>1 DEF CloseThinking
  <2>3. wire \in Seq(BridgeWords) /\ OrderedEvents(wire) /\ PiecesOf(wire) = model.said
    BY <2>1 DEF BridgeTold
  <2>4. wire' = Append(wire, d)
    <3>1. wire \o <<>> = wire
      BY <2>3
    <3>2. wire \o <<d>> = Append(wire, d)
      BY <1>6, <2>3, AddOne
    <3>. QED  BY <1>1, <2>2, <3>1, <3>2
  <2>5. \A i \in DOMAIN wire : May(wire[i], d)
    <3>1. ASSUME NEW x \in BridgeWords PROVE May(x, d)
      <4>1. x.type \in {"chat.started", "thinking.delta", "thinking.completed", "message.delta"}
        BY DEF BridgeWords, Event, Delta
      <4>2. Place(d) = 5 /\ "message.delta" \notin Once
        BY <1>6, PlaceOfType DEF Once
      <4>3. CASE x.type = "message.delta"
        BY <1>6, <4>2, <4>3 DEF May
      <4>4. CASE x.type \in {"chat.started", "thinking.delta", "thinking.completed"}
        <5>1. Place(x) \in {1, 2, 3}
          BY <4>4, PlaceOfType
        <5>. QED  BY <4>2, <5>1 DEF May
      <4>. QED  BY <4>1, <4>3, <4>4
    <3>. QED  BY <2>3, <3>1
  <2>6. Append(wire, d) \in Seq(BridgeWords) /\ OrderedEvents(Append(wire, d))
    <3>1. OrderedEvents(Append(wire, d))
      BY <1>6, <2>3, <2>5, OrderAppend
    <3>. QED  BY <1>6, <2>3, <3>1
  <2>7. PiecesOf(Append(wire, d)) = Append(model.said, piece)
    BY <1>6, <2>3, PiecesAppend
  <2>8. \E i \in DOMAIN Append(wire, d) : Append(wire, d)[i].type = "thinking.completed"
    <3>1. PICK i \in DOMAIN wire : wire[i].type = "thinking.completed"
      BY <2>1 DEF BridgeTold
    <3>2. i \in DOMAIN Append(wire, d) /\ Append(wire, d)[i] = wire[i]
      BY <1>6, <2>3
    <3>. QED  BY <3>1, <3>2
  <2>9. BridgeTold(wire)'
    BY <1>8, <2>4, <2>6, <2>7, <2>8 DEF BridgeTold
  <2>10. closed' = TRUE
    BY <1>1, <1>11
  <2>11. BridgeInv'
    BY <1>1, <1>3, <2>9, <2>10 DEF BridgeInv
  <2>. QED  BY <1>3, <1>9, <1>10, <1>11, <2>11 DEF AnswerInv, ChatInv, TurnInv, PreviewInv, PreviewTurnInv
<1>12. CASE lane = "preview"
  <2>1. PreviewTold(wire)
    BY <1>1, <1>2, <1>12 DEF PreviewInv
  <2>2. CloseThinking = <<>>
    BY <1>12 DEF CloseThinking
  <2>3. /\ wire \in Seq(PreviewWords) /\ PiecesOf(wire) = model.said /\ Len(wire) >= 1 /\ wire[1] = PreviewCard
        /\ \A i \in DOMAIN wire : i > 1 => wire[i].type = "message.delta"
    BY <2>1 DEF PreviewTold
  <2>4. wire' = Append(wire, d)
    <3>1. wire \o <<>> = wire
      BY <2>3
    <3>2. wire \o <<d>> = Append(wire, d)
      BY <1>6, <2>3, AddOne
    <3>. QED  BY <1>1, <2>2, <3>1, <3>2
  <2>5. /\ wire' \in Seq(PreviewWords) /\ Len(wire') >= 1 /\ wire'[1] = PreviewCard
        /\ \A i \in DOMAIN wire' : i > 1 => wire'[i].type = "message.delta"
    <3>1. /\ Append(wire, d) \in Seq(PreviewWords) /\ Len(wire) \in Nat
          /\ DOMAIN Append(wire, d) = 1..(Len(wire) + 1) /\ DOMAIN wire = 1..Len(wire)
          /\ Append(wire, d)[Len(wire) + 1] = d
          /\ \A j \in DOMAIN wire : Append(wire, d)[j] = wire[j]
      BY <1>6, <2>3, Appended
    <3>2. \A i \in 1..(Len(wire) + 1) : i \in DOMAIN wire \/ i = Len(wire) + 1
      BY <3>1
    <3>3. 1 \in DOMAIN wire /\ Len(Append(wire, d)) = Len(wire) + 1
      BY <1>6, <2>3, <3>1
    <3>. QED  BY <1>6, <2>3, <2>4, <3>1, <3>2, <3>3
  <2>6. PiecesOf(wire') = model'.said
    BY <1>6, <1>8, <2>3, <2>4, PiecesAppend
  <2>7. PreviewTold(wire)'
    BY <1>3, <2>5, <2>6 DEF PreviewTold, PreviewWords, PreviewCard
  <2>8. PreviewInv'
    BY <1>1, <1>3, <2>7 DEF PreviewInv
  <2>. QED  BY <1>3, <1>9, <1>10, <1>12, <2>8 DEF AnswerInv, ChatInv, TurnInv, BridgeInv, PreviewTurnInv
<1>. QED  BY <1>3, <1>11, <1>12

\* The model ends, fails or breaks.
LEMMA ModelStopsKeeps ==
  AnswerInv /\ ((\E raw \in RawReasons : ModelEnds(raw)) \/ ModelFails \/ ModelBreaks) => AnswerInv'
<1>. SUFFICES ASSUME AnswerInv, (\E raw \in RawReasons : ModelEnds(raw)) \/ ModelFails \/ ModelBreaks PROVE AnswerInv'
  OBVIOUS
<1>1. PICK fate \in RawReasons \cup {"failed", "broke"} :
        /\ step = "model" /\ model' = [model EXCEPT !.fate = fate]
        /\ UNCHANGED <<question, buffer, closed, wire>>
        /\ step' = IF fate = "broke" THEN "broken" ELSE "end"
        /\ finish' = IF fate = "broke" THEN finish ELSE IF fate = "failed" THEN "error" ELSE FinishOf(fate)
  <2>1. CASE \E raw \in RawReasons : ModelEnds(raw)
    <3>1. PICK raw \in RawReasons : ModelEnds(raw)
      BY <2>1
    <3>2. raw # "broke" /\ raw # "failed"
      BY DEF RawReasons
    <3>. QED  BY <3>1, <3>2 DEF ModelEnds
  <2>2. CASE ModelFails
    BY <2>2 DEF ModelFails
  <2>3. CASE ModelBreaks
    BY <2>3 DEF ModelBreaks
  <2>. QED  BY <2>1, <2>2, <2>3
<1>2. AnswerTypes /\ ModelInv /\ BridgeInv /\ PreviewInv
  BY DEF AnswerInv
<1>3. lane' = lane /\ question' = question /\ lane \in {"bridge", "preview"}
  BY <1>1, <1>2, SameQuestion DEF ModelInv
<1>4. model' \in AnswerModels /\ model'.said = model.said /\ model'.fate = fate
  BY <1>1, <1>2 DEF AnswerTypes, AnswerModels
<1>5. fate # "broke" => FateTold'
  BY <1>1, <1>4 DEF FateTold, RawReasons, FinishOf
<1>6. finish' \in FinishReasons
  BY <1>1, <1>2 DEF AnswerTypes, FinishReasons, RawReasons, FinishOf
<1>7. AnswerTypes'
  <2>1. step' \in AnswerSteps
    BY <1>1 DEF AnswerSteps
  <2>. QED  BY <1>1, <1>2, <1>4, <1>6, <2>1 DEF AnswerTypes
<1>8. step' \in {"end", "broken"} /\ (step' = "end" => FateTold')
  BY <1>1, <1>5
<1>9. ModelInv'
  BY <1>1, <1>2, <1>3, <1>4, <1>8 DEF ModelInv
<1>10. BridgeInv'
  BY <1>1, <1>2, <1>3, <1>4, <1>8 DEF BridgeInv, BridgeTold
<1>11. PreviewInv'
  BY <1>1, <1>2, <1>3, <1>4, <1>8 DEF PreviewInv, PreviewTold, PreviewWords, PreviewCard
<1>. QED  BY <1>3, <1>7, <1>9, <1>10, <1>11 DEF AnswerInv, ChatInv, TurnInv, PreviewTurnInv

\* The last events.
LEMMA EndKeeps == AnswerInv /\ End => AnswerInv'
<1>. SUFFICES ASSUME AnswerInv, End PROVE AnswerInv'
  OBVIOUS
<1>1. /\ step = "end" /\ step' = "over" /\ UNCHANGED <<question, model, buffer, closed, finish>>
      /\ lane = "bridge" => wire' = wire \o (CloseThinking \o <<BridgeAnswer, BridgeEnding>>)
      /\ lane # "bridge" => wire' = wire \o <<PreviewDone>>
  BY DEF End, BridgeAnswer, BridgeEnding, PreviewDone
<1>2. AnswerTypes /\ ModelInv /\ BridgeInv /\ PreviewInv
  BY DEF AnswerInv
<1>3. lane' = lane /\ provider' = provider /\ question' = question /\ lane \in {"bridge", "preview"}
  BY <1>1, <1>2, SameQuestion DEF ModelInv
<1>4. AnswerTypes'
  BY <1>1, <1>2 DEF AnswerTypes, AnswerSteps
<1>5. ModelInv'
  BY <1>1, <1>2, <1>3 DEF ModelInv, FateTold
<1>6. CASE lane = "bridge"
  <2>1. closed = TRUE /\ BridgeTold(wire)
    BY <1>1, <1>2, <1>6 DEF BridgeInv
  <2>2. CloseThinking \o <<BridgeAnswer, BridgeEnding>> = <<BridgeAnswer, BridgeEnding>>
    <3>1. CloseThinking = <<>>
      BY <2>1 DEF CloseThinking
    <3>. QED  BY <3>1
  <2>4. BridgeAnswer' = BridgeAnswer /\ BridgeEnding' = BridgeEnding
    BY <1>1, <1>3 DEF BridgeAnswer, BridgeEnding
  <2>5. BridgeInv'
    <3>1. wire' = wire \o <<BridgeAnswer', BridgeEnding'>>
      BY <1>1, <1>6, <2>2, <2>4
    <3>2. /\ wire \in Seq(BridgeWords) /\ OrderedEvents(wire) /\ PiecesOf(wire) = model'.said
          /\ \E i \in DOMAIN wire : wire[i].type = "thinking.completed"
      BY <1>1, <2>1 DEF BridgeTold
    <3>. QED  BY <1>1, <3>1, <3>2 DEF BridgeInv, BridgeTold
  <2>. QED  BY <1>3, <1>4, <1>5, <1>6, <2>5 DEF AnswerInv, ChatInv, TurnInv, PreviewInv, PreviewTurnInv
<1>7. CASE lane = "preview"
  <2>1. PreviewTold(wire)
    BY <1>1, <1>2, <1>7 DEF PreviewInv
  <2>2. wire' = Append(wire, PreviewDone)
    <3>. DEFINE E == PreviewWords \cup {PreviewDone}
    <3>1. wire \in Seq(E) /\ PreviewDone \in E
      BY <2>1 DEF PreviewTold
    <3>2. wire \o <<PreviewDone>> = Append(wire, PreviewDone)
      BY <3>1, AddOne
    <3>. QED  BY <1>1, <1>7, <3>2
  <2>3. PreviewDone' = PreviewDone
    BY <1>1, <1>3 DEF PreviewDone
  <2>4. PreviewInv'
    <3>1. wire' = Append(wire, PreviewDone')
      BY <2>2, <2>3
    <3>2. /\ wire \in Seq(PreviewWords') /\ Len(wire) >= 1 /\ wire[1] = PreviewCard'
          /\ \A i \in DOMAIN wire : i > 1 => wire[i].type = "message.delta"
          /\ PiecesOf(wire) = model'.said
      BY <1>1, <2>1 DEF PreviewTold, PreviewWords, PreviewCard
    <3>. QED  BY <1>1, <3>1, <3>2 DEF PreviewInv, PreviewTold
  <2>. QED  BY <1>3, <1>4, <1>5, <1>7, <2>4 DEF AnswerInv, ChatInv, TurnInv, BridgeInv, PreviewTurnInv
<1>. QED  BY <1>3, <1>6, <1>7

\* The preview without a stream.
LEMMA PreviewTurnKeeps == AnswerInv /\ run_ecommerce_chat_turn => AnswerInv'
<1>. SUFFICES ASSUME AnswerInv, run_ecommerce_chat_turn PROVE AnswerInv'
  OBVIOUS
<1>1. PICK n \in 0..MaxPieces, fate \in RawReasons \cup {"failed", "broke"} :
        /\ lane = "preview turn" /\ step = "begin" /\ UNCHANGED <<question, buffer, closed>>
        /\ model' = [said |-> [i \in 1..n |-> i], fate |-> fate]
        /\ finish' = IF fate = "failed" THEN "error" ELSE FinishOf(fate)
        /\ fate = "broke" => wire' = wire /\ step' = "broken"
        /\ fate # "broke" =>
             /\ step' = "over"
             /\ wire' = <<[type |-> "answer", blocks |-> question.found, content |-> [i \in 1..n |-> i], finish |-> finish', provider |-> provider]>>
  BY DEF run_ecommerce_chat_turn
<1>2. AnswerTypes /\ PreviewTurnInv
  BY DEF AnswerInv
<1>3. lane' = lane /\ provider' = provider /\ question' = question
  BY <1>1, SameQuestion
<1>4. model' \in AnswerModels /\ model'.said = [i \in 1..n |-> i] /\ model'.fate = fate
  <2>1. MaxPieces \in Nat
    BY AnswerAssumption
  <2>2. [i \in 1..n |-> i] \in Seq(1..MaxPieces)
    BY <2>1
  <2>. QED  BY <1>1, <2>2 DEF AnswerModels
<1>5. fate # "broke" => FateTold'
  BY <1>1, <1>4 DEF FateTold, RawReasons, FinishOf
<1>6. finish' \in FinishReasons
  BY <1>1 DEF FinishReasons, RawReasons, FinishOf
<1>7. AnswerTypes'
  <2>1. step' \in AnswerSteps
    BY <1>1 DEF AnswerSteps
  <2>. QED  BY <1>1, <1>2, <1>4, <1>6, <2>1 DEF AnswerTypes
<1>8. step' \in {"over", "broken"} /\ (step' = "over" => fate # "broke") /\ (step' = "broken" => fate = "broke")
  BY <1>1
<1>9. ModelInv'
  BY <1>1, <1>3, <1>5, <1>8 DEF ModelInv
<1>10. PreviewTurnInv'
  BY <1>1, <1>2, <1>3, <1>4, <1>8 DEF PreviewTurnInv
<1>. QED  BY <1>1, <1>3, <1>7, <1>9, <1>10 DEF AnswerInv, ChatInv, TurnInv, BridgeInv, PreviewInv

\* Every step keeps the invariant.
LEMMA NextAnswerInv == AnswerInv /\ [AnswerNext]_answerVars => AnswerInv'
<1>. SUFFICES ASSUME AnswerInv, [AnswerNext]_answerVars PROVE AnswerInv'
  OBVIOUS
<1>1. CASE UNCHANGED answerVars
  <2>1. UNCHANGED <<question, step, model, buffer, closed, finish, wire>>
    BY <1>1 DEF answerVars
  <2>2. lane' = lane /\ provider' = provider
    BY <2>1, SameQuestion
  <2>3. AnswerTypes' /\ ModelInv' /\ TurnInv' /\ PreviewTurnInv'
    BY <2>1, <2>2 DEF AnswerInv, AnswerTypes, ModelInv, FateTold, TurnInv, PreviewTurnInv
  <2>4. ChatInv'
    BY <2>1, <2>2 DEF AnswerInv, ChatInv, Said
  <2>5. BridgeAnswer' = BridgeAnswer /\ BridgeEnding' = BridgeEnding /\ PreviewDone' = PreviewDone /\ PreviewCard' = PreviewCard
        /\ \A s : BridgeTold(s)' = BridgeTold(s)
    BY <2>1, <2>2 DEF BridgeAnswer, BridgeEnding, PreviewDone, PreviewCard, BridgeTold
  <2>6. \A s : PreviewTold(s)' = PreviewTold(s)
    BY <2>1 DEF PreviewTold, PreviewWords, PreviewCard
  <2>7. BridgeInv'
    <3>1. BridgeInv
      BY DEF AnswerInv
    <3>. QED  BY <2>1, <2>2, <2>5, <3>1 DEF BridgeInv, BridgeTold
  <2>8. PreviewInv'
    <3>1. PreviewInv
      BY DEF AnswerInv
    <3>. QED  BY <2>1, <2>2, <2>5, <3>1 DEF PreviewInv, PreviewTold, PreviewWords
  <2>. QED  BY <2>3, <2>4, <2>7, <2>8 DEF AnswerInv
<1>. QED  BY <1>1, ChatYieldsKeeps, TurnKeeps, BeginKeeps, RetrievedKeeps, ModelSaysKeeps, ModelStopsKeeps, EndKeeps,
             PreviewTurnKeeps DEF AnswerNext

-----------------------------------------------------------------------------
\* An answer that names the finish and the provider is true to the model.
LEMMA AnswerIsTrue ==
  ASSUME FateTold, question \in Questions, NEW answer, answer.finish = finish, answer.provider = provider
  PROVE  TrueToModel(answer)
<1>1. question.settings.chain \in Seq(STRING) /\ question.settings.keyed \in BOOLEAN
  BY QuestionFacts
<1>2. ASSUME provider = "mock", question.settings.keyed
      PROVE  \/ question.settings.explicit = "mock"
             \/ /\ question.settings.explicit \notin Builders \ {"mock"}
                /\ \A i \in DOMAIN question.settings.chain :
                     question.settings.chain[i] \in Builders \ {"mock"} =>
                       \E j \in 1..(i - 1) : question.settings.chain[j] = "mock"
  <2>. DEFINE settings == question.settings
  <2>1. settings.chain \in Seq(STRING) /\ settings.keyed = TRUE /\ resolve_generation_adapter(settings) = "mock"
    BY <1>1, <1>2 DEF provider
  <2>. HIDE DEF settings
  <2>2. \/ settings.explicit = "mock"
        \/ /\ settings.explicit \notin Builders \ {"mock"}
           /\ \A i \in DOMAIN settings.chain :
                settings.chain[i] \in Builders \ {"mock"} => \E j \in 1..(i - 1) : settings.chain[j] = "mock"
    BY <2>1, ModelIsConfigured
  <2>. QED  BY <2>2 DEF settings
<1>. QED  BY <1>2 DEF TrueToModel, FateTold

\* The chat lane: whole.
LEMMA ChatIsWhole == AnswerInv /\ lane = "chat" => AnswersAreWhole
<1>. SUFFICES ASSUME AnswerInv, lane = "chat" PROVE AnswersAreWhole
  OBVIOUS
<1>. DEFINE s == Story(question)
            n == ToolCount(question)
            m == PieceCount(question)
            a == create_chat_artifacts(question)
            E == Range(s)
<1>1. question \in Questions /\ ChatInv
  BY DEF AnswerInv, AnswerTypes
<1>2. /\ n \in {0, 2, 3} /\ m \in 1..3 /\ Len(s) = 5 + n + m
      /\ s[3].type = "thinking.completed"
      /\ \A i \in 1..n : s[3 + i].type = "tool.call"
      /\ n # 0 => s[3 + n].outcome = question.tool
      /\ s[4 + n + m] = Completed(question) /\ s[5 + n + m] = Closing(question)
  BY <1>1, StoryEvents
<1>3. /\ step \in {"begin", "over"} /\ wire \in Seq(E) /\ Len(wire) <= Len(s)
      /\ \A i \in DOMAIN wire : wire[i] = s[i]
      /\ step = "over" => Len(wire) = Len(s)
      /\ Said \in Seq({"received", "evidence", "summary"}) /\ Len(Said) = ToldOf(question, Len(wire))
      /\ \A i \in DOMAIN Said : Said[i] = a.content[i]
  BY <1>1 DEF ChatInv
<1>4. /\ a.content \in Seq({"received", "evidence", "summary"}) /\ Len(a.content) = m /\ Len(a.tools) = n
      /\ a.content[1] = "received"
      /\ (a.plan.useTools <=> a.tools # <<>>) /\ question.tool \notin {"queued", "running"}
      /\ \/ a.tools = <<>> /\ \A i \in DOMAIN a.content : a.content[i] # "summary"
         \/ /\ CallTold(a.tools, question.tool)
            /\ \A i \in DOMAIN a.content : a.content[i] = "summary" => question.tool = "told"
  BY <1>1, Artifacts DEF PieceCount, ToolCount
<1>5. OrderedEvents(s) /\ DOMAIN s = 1..Len(s)
  BY <1>1, StoryInOrder, StoryEvents
<1>6. Len(wire) \in Nat /\ DOMAIN wire = 1..Len(wire)
  BY <1>3
<1>7. ASSUME NEW i \in DOMAIN wire
      PROVE  wire[i].type = "tool.call" => n # 0
  <2>1. i \in 1..Len(s) /\ wire[i] = s[i]
    BY <1>2, <1>3, <1>6
  <2>2. /\ i = 1 => s[i].type = "chat.started"
        /\ i = 2 => s[i].type = "thinking.delta"
        /\ i = 3 => s[i].type = "thinking.completed"
        /\ i > 3 + n /\ i <= 3 + n + m => s[i].type = "message.delta"
        /\ i = 4 + n + m => s[i].type = "message.completed"
        /\ i = 5 + n + m => s[i].type = "chat.completed"
    BY <1>1, <2>1, StoryKinds
  <2>. HIDE DEF n, m, s
  <2>3. i = 1 \/ i = 2 \/ i = 3 \/ n # 0 \/ (i > 3 + n /\ i <= 3 + n + m) \/ i = 4 + n + m \/ i = 5 + n + m
    BY <1>2, <2>1
  <2>. QED  BY <2>1, <2>2, <2>3
<1>. HIDE DEF s, n, m, a, E
<1>8. OrderedEvents(wire)
  <2>1. ASSUME NEW i \in DOMAIN wire, NEW j \in DOMAIN wire, i < j PROVE May(wire[i], wire[j])
    <3>1. i \in Nat /\ i >= 1 /\ i <= Len(wire) /\ j \in Nat /\ j >= 1 /\ j <= Len(wire)
      BY <1>6
    <3>2. Len(wire) <= Len(s) /\ Len(wire) \in Nat /\ Len(s) \in Nat /\ DOMAIN s = 1..Len(s)
      <4>1. Len(s) \in Nat
        BY <1>2
      <4>2. Len(wire) <= Len(s)
        BY <1>3
      <4>. QED  BY <1>5, <1>6, <4>1, <4>2
    <3>3. i \in DOMAIN s /\ j \in DOMAIN s
      BY ONLY <3>1, <3>2
    <3>4. May(s[i], s[j])
      BY <1>5, <2>1, <3>3 DEF OrderedEvents
    <3>. QED  BY <1>3, <3>4
  <2>. QED  BY <2>1 DEF OrderedEvents
<1>9. InOrder
  BY <1>8 DEF InOrder, OrderedEvents, May
<1>10. Said # <<>> => \E i \in DOMAIN wire : wire[i].type = "thinking.completed"
  <2>1. ASSUME Said # <<>> PROVE Len(wire) >= 3
    <3>1. Len(Said) # 0
      BY <1>3, <2>1
    <3>2. ~(Len(wire) <= 3 + n)
      BY <1>3, <3>1 DEF ToldOf, n
    <3>. QED  BY <1>2, <1>6, <3>2
  <2>2. Len(wire) >= 3 => 3 \in DOMAIN wire
    BY <1>6
  <2>. QED  BY <1>2, <1>3, <2>1, <2>2
<1>11. CASE step = "over"
  <2>1. Len(wire) = 5 + n + m /\ 4 + n + m \in DOMAIN wire /\ 5 + n + m \in DOMAIN wire
    BY <1>2, <1>3, <1>6, <1>11
  <2>2. Said = a.content
    <3>1. Len(Said) = m
      BY <1>2, <1>3, <2>1 DEF ToldOf, n, m
    <3>2. Len(a.content) = m /\ a.content \in Seq({"received", "evidence", "summary"})
      BY <1>4
    <3>3. Said \in Seq({"received", "evidence", "summary"}) /\ \A i \in DOMAIN Said : Said[i] = a.content[i]
      BY <1>3
    <3>. DEFINE t == Said
                u == a.content
    <3>4. t \in Seq({"received", "evidence", "summary"}) /\ u \in Seq({"received", "evidence", "summary"})
          /\ Len(t) = Len(u) /\ \A i \in DOMAIN t : t[i] = u[i]
      BY <3>1, <3>2, <3>3
    <3>. HIDE DEF t, u
    <3>5. t = u
      BY ONLY <3>4
    <3>. QED  BY <3>5 DEF t, u
  <2>3. Final("message.completed") = Completed(question)
    <3>1. wire[4 + n + m] = Completed(question) /\ Completed(question).type = "message.completed"
      BY <1>2, <1>3, <2>1 DEF Completed
    <3>2. "message.completed" \in Once
      BY DEF Once
    <3>. QED  BY <1>3, <1>8, <2>1, <3>1, <3>2, FinalIs
  <2>4. Final("chat.completed") = Closing(question)
    <3>1. wire[5 + n + m] = Closing(question) /\ Closing(question).type = "chat.completed"
      BY <1>2, <1>3, <2>1 DEF Closing
    <3>2. "chat.completed" \in Once
      BY DEF Once
    <3>. QED  BY <1>3, <1>8, <2>1, <3>1, <3>2, FinalIs
  <2>5. ASSUME n # 0
        PROVE  /\ 3 + n \in DOMAIN wire /\ wire[3 + n].type = "tool.call" /\ wire[3 + n].outcome = question.tool
    <3>1. n \in 1..n /\ 3 + n \in DOMAIN wire
      BY <1>2, <1>6, <2>1, <2>5
    <3>. QED  BY <1>2, <1>3, <2>5, <3>1
  <2>6. Final("message.completed").content = Said
    BY <2>2, <2>3 DEF Completed, a
  <2>7. \E i \in DOMAIN Said : Said[i] = "received"
    <3>1. 1 \in DOMAIN Said
      BY <1>2, <1>4, <2>2
    <3>. QED  BY <1>4, <2>2, <3>1
  <2>8. n # 0 <=> a.tools # <<>>
    <3>1. CallTold(a.tools, question.tool) => Len(a.tools) # 0
      BY CallHasRecords
    <3>2. a.tools = <<>> => Len(a.tools) = 0
      OBVIOUS
    <3>. QED  BY <1>4, <3>1, <3>2
  <2>9. Final("chat.completed").plan.useTools <=> \E i \in DOMAIN wire : wire[i].type = "tool.call"
    <3>1. Final("chat.completed").plan = a.plan
      BY <2>4 DEF Closing, a
    <3>2. a.plan.useTools <=> n # 0
      BY <1>4, <2>8
    <3>3. n # 0 <=> \E i \in DOMAIN wire : wire[i].type = "tool.call"
      BY <1>7, <2>5
    <3>. QED  BY <3>1, <3>2, <3>3
  <2>11. (\E i \in DOMAIN wire : wire[i].type = "tool.call") =>
           \E i \in DOMAIN wire : wire[i].type = "tool.call" /\ wire[i].outcome \notin {"queued", "running"}
    BY <1>4, <1>7, <2>5
  <2>10. ASSUME NEW i \in DOMAIN Said, Said[i] = "summary"
         PROVE  \E k \in DOMAIN wire : wire[k].type = "tool.call" /\ wire[k].outcome = "told"
    <3>1. n # 0 /\ question.tool = "told"
      <4>1. i \in DOMAIN a.content /\ a.content[i] = "summary"
        BY <2>2, <2>10
      <4>2. CallTold(a.tools, question.tool) /\ question.tool = "told"
        BY <1>4, <4>1
      <4>3. Len(a.tools) # 0
        BY <4>2, CallHasRecords
      <4>. QED  BY <1>4, <4>2, <4>3
    <3>. QED  BY <2>5, <3>1
  <2>. QED  BY <1>9, <1>10, <1>11, <2>6, <2>7, <2>9, <2>10, <2>11 DEF AnswersAreWhole
<1>12. CASE step # "over"
  BY <1>3, <1>9, <1>10, <1>12 DEF AnswersAreWhole
<1>. QED  BY <1>11, <1>12

\* The turn without a stream: whole.
LEMMA TurnIsWhole == AnswerInv /\ lane = "turn" => AnswersAreWhole
<1>. SUFFICES ASSUME AnswerInv, lane = "turn" PROVE AnswersAreWhole
  OBVIOUS
<1>1. question \in Questions /\ step \in {"begin", "over"} /\ (step = "over" => wire = <<TurnAnswer(question)>>)
  BY DEF AnswerInv, AnswerTypes, TurnInv
<1>2. CASE step = "over"
  <2>. DEFINE a == create_chat_artifacts(question)
              e == TurnAnswer(question)
  <2>1. e.type = "turn" /\ e.plan = a.plan /\ e.tools = a.ended
    BY DEF TurnAnswer
  <2>2. a.plan.useTools <=> a.ended # <<>>
    BY <1>1, Artifacts
  <2>. HIDE DEF a, e
  <2>3. {wire[i] : i \in DOMAIN wire} = {e}
    BY <1>1, <1>2 DEF e
  <2>4. Final("turn") = e
    BY <2>1, <2>3 DEF Final
  <2>5. Final("turn").plan.useTools <=> Final("turn").tools # <<>>
    BY <2>1, <2>2, <2>4
  <2>. QED  BY <1>2, <2>5 DEF AnswersAreWhole
<1>. QED  BY <1>1, <1>2 DEF AnswersAreWhole

\* What is told before the end is in order, in three kinds of events.
LEMMA BridgeKinds ==
  ASSUME NEW e \in BridgeWords
  PROVE  e.type \in {"chat.started", "thinking.delta", "thinking.completed", "message.delta"} /\ Place(e) \in 1..5
<1>1. e.type \in {"chat.started", "thinking.delta", "thinking.completed", "message.delta"}
  BY DEF BridgeWords, Event, Delta
<1>. QED  BY <1>1, PlaceOfType

\* With the two events that end it a bridged stream is in order and says no more.
LEMMA BridgeEnds ==
  ASSUME NEW s, BridgeTold(s), wire = s \o <<BridgeAnswer, BridgeEnding>>
  PROVE  /\ InOrder /\ Said = model.said
         /\ \E i \in DOMAIN wire : wire[i].type = "thinking.completed"
         /\ Final("message.completed") = BridgeAnswer /\ Final("chat.completed") = BridgeEnding
<1>. DEFINE E == BridgeWords \cup {BridgeAnswer, BridgeEnding}
            x == BridgeAnswer
            y == BridgeEnding
            r == Append(s, x)
<1>1. x.type = "message.completed" /\ y.type = "chat.completed"
  BY DEF BridgeAnswer, BridgeEnding
<1>2. s \in Seq(E) /\ x \in E /\ y \in E
  BY DEF BridgeTold
<1>3. \A i \in DOMAIN s : s[i] \in BridgeWords
  BY DEF BridgeTold
<1>4. OrderedEvents(s) /\ PiecesOf(s) = model.said /\ \E i \in DOMAIN s : s[i].type = "thinking.completed"
  BY DEF BridgeTold
<1>5. \A i \in DOMAIN s : Place(s[i]) \in 1..5
  BY <1>3, BridgeKinds
<1>. HIDE DEF E, x, y, r
<1>6. Place(x) = 6 /\ Place(y) = 7
  BY <1>1, PlaceOfType
<1>7. /\ r \in Seq(E) /\ Len(s) \in Nat /\ DOMAIN r = 1..(Len(s) + 1) /\ DOMAIN s = 1..Len(s)
      /\ r[Len(s) + 1] = x /\ \A j \in DOMAIN s : r[j] = s[j]
  BY <1>2, Appended DEF r
<1>8. wire = Append(r, y)
  BY <1>2, AppendTwo DEF x, y, r
<1>9. OrderedEvents(r)
  <2>1. \A i \in DOMAIN s : May(s[i], x)
    BY <1>5, <1>6 DEF May
  <2>. QED  BY <1>2, <1>4, <2>1, OrderAppend DEF r
<1>10. OrderedEvents(wire)
  <2>1. \A i \in DOMAIN r : May(r[i], y)
    <3>1. ASSUME NEW i \in DOMAIN r PROVE Place(r[i]) < 7
      <4>1. CASE i \in DOMAIN s
        <5>1. r[i] = s[i]
          BY <1>7, <4>1
        <5>2. Place(s[i]) \in 1..5
          BY <1>5, <4>1
        <5>. QED  BY <5>1, <5>2
      <4>2. CASE i \notin DOMAIN s
        <5>1. i = Len(s) + 1
          BY <1>7, <4>2
        <5>. QED  BY <1>6, <1>7, <5>1
      <4>. QED  BY <4>1, <4>2
    <3>. QED  BY <1>6, <3>1 DEF May
  <2>. QED  BY <1>2, <1>7, <1>8, <1>9, <2>1, OrderAppend
<1>11. InOrder
  BY <1>10 DEF InOrder, OrderedEvents, May
<1>12. Said = model.said
  <2>1. PiecesOf(r) = PiecesOf(s)
    <3>1. x.type # "message.delta"
      BY <1>1
    <3>. QED  BY <1>2, <3>1, PiecesAppend DEF r
  <2>2. PiecesOf(Append(r, y)) = PiecesOf(r)
    <3>1. y.type # "message.delta"
      BY <1>1
    <3>. QED  BY <1>2, <1>7, <3>1, PiecesAppend
  <2>. QED  BY <1>4, <1>8, <2>1, <2>2 DEF Said
<1>13. /\ wire \in Seq(E) /\ DOMAIN wire = 1..(Len(r) + 1) /\ DOMAIN r = 1..Len(r) /\ Len(r) \in Nat
       /\ wire[Len(r) + 1] = y /\ \A j \in DOMAIN r : wire[j] = r[j]
  BY <1>2, <1>7, <1>8, Appended
<1>14. \E i \in DOMAIN wire : wire[i].type = "thinking.completed"
  <2>1. PICK i \in DOMAIN s : s[i].type = "thinking.completed"
    BY <1>4
  <2>2. i \in DOMAIN r
    BY <1>7
  <2>3. i \in DOMAIN wire
    BY <1>13, <2>2
  <2>. QED  BY <1>7, <1>13, <2>1, <2>2, <2>3
<1>15. Final("message.completed") = x
  <2>. DEFINE k == Len(s) + 1
  <2>1. k \in DOMAIN r
    BY <1>7
  <2>2. k \in DOMAIN wire
    BY <1>13, <2>1
  <2>3. wire[k] = x
    BY <1>7, <1>13, <2>1
  <2>. HIDE DEF k
  <2>4. wire[k].type = "message.completed" /\ "message.completed" \in Once
    BY <1>1, <2>3 DEF Once
  <2>5. wire \in Seq(E)
    BY <1>13
  <2>. QED  BY <1>10, <2>2, <2>3, <2>4, <2>5, FinalIs
<1>16. Final("chat.completed") = y
  <2>. DEFINE k == Len(r) + 1
  <2>1. k \in DOMAIN wire /\ wire[k] = y /\ wire \in Seq(E)
    BY <1>13
  <2>. HIDE DEF k
  <2>2. wire[k].type = "chat.completed" /\ "chat.completed" \in Once
    BY <1>1, <2>1 DEF Once
  <2>. QED  BY <1>10, <2>1, <2>2, FinalIs
<1>. QED  BY <1>11, <1>12, <1>14, <1>15, <1>16 DEF x, y

\* The bridge: whole.
LEMMA BridgeIsWhole == AnswerInv /\ lane = "bridge" => AnswersAreWhole
<1>. SUFFICES ASSUME AnswerInv, lane = "bridge" PROVE AnswersAreWhole
  OBVIOUS
<1>1. question \in Questions /\ step \in AnswerSteps /\ BridgeInv /\ ModelInv
  BY DEF AnswerInv, AnswerTypes
<1>2. question.matches \in SUBSET DOMAIN Patterns /\ IntentOf(question) # "none"
  <2>1. question.matches \in SUBSET DOMAIN Patterns
    BY <1>1, QuestionFacts
  <2>2. IntentOf(question) # "none"
    BY DEF lane, LaneOf
  <2>. QED  BY <2>1, <2>2
<1>3. CASE step = "over"
  <2>1. PICK s : BridgeTold(s) /\ wire = s \o <<BridgeAnswer, BridgeEnding>>
    BY <1>1, <1>3 DEF BridgeInv
  <2>2. /\ InOrder /\ Said = model.said
        /\ \E i \in DOMAIN wire : wire[i].type = "thinking.completed"
        /\ Final("message.completed") = BridgeAnswer /\ Final("chat.completed") = BridgeEnding
    BY <2>1, BridgeEnds
  <2>3. BridgeAnswer.content = buffer /\ BridgeAnswer.blocks = question.found /\ BridgeAnswer.finish = finish
        /\ BridgeAnswer.provider = provider /\ BridgeEnding.plan.intent = IntentOf(question)
    BY DEF BridgeAnswer, BridgeEnding
  <2>4. TrueToModel(BridgeAnswer)
    <3>1. FateTold
      BY <1>1, <1>3 DEF ModelInv
    <3>. QED  BY <1>1, <2>3, <3>1, AnswerIsTrue
  <2>5. buffer = model.said
    BY <1>1 DEF ModelInv
  <2>6. /\ question.mode = "ecommerce"
        /\ \E i \in question.matches :
             /\ Patterns[i].name = IntentOf(question) /\ Patterns[i].module = "ecommerce"
             /\ \A j \in question.matches : Patterns[j].module = "ecommerce" => Patterns[j].weight <= Patterns[i].weight
    BY <1>2, IntentIsMatched
  <2>. DEFINE Whole(answer, intent) ==
         /\ answer.content = Said /\ Said = model.said /\ answer.blocks = question.found
         /\ TrueToModel(answer)
         /\ question.mode = "ecommerce"
         /\ \E i \in question.matches :
              /\ Patterns[i].name = intent /\ Patterns[i].module = "ecommerce"
              /\ \A j \in question.matches : Patterns[j].module = "ecommerce" => Patterns[j].weight <= Patterns[i].weight
  <2>7. Whole(BridgeAnswer, IntentOf(question))
    BY <2>2, <2>3, <2>4, <2>5, <2>6
  <2>8. Whole(Final("message.completed"), Final("chat.completed").plan.intent)
    <3>. HIDE DEF Whole
    <3>. QED  BY <2>2, <2>3, <2>7
  <2>. QED  BY <1>3, <2>2, <2>8 DEF AnswersAreWhole
<1>4. CASE step \in {"model", "end", "broken"}
  <2>1. BridgeTold(wire)
    BY <1>1, <1>4 DEF BridgeInv
  <2>2. InOrder /\ \E i \in DOMAIN wire : wire[i].type = "thinking.completed"
    BY <2>1 DEF BridgeTold, InOrder, OrderedEvents, May
  <2>3. \A i \in DOMAIN wire : wire[i].type \notin {"message.completed", "chat.completed", "done", "answer"}
    <3>1. \A i \in DOMAIN wire : wire[i] \in BridgeWords
      BY <2>1 DEF BridgeTold
    <3>. QED  BY <3>1, BridgeKinds
  <2>. QED  BY <1>4, <2>2, <2>3 DEF AnswersAreWhole
<1>5. CASE step = "search"
  <2>. DEFINE x == Event("chat.started")
              y == Event("thinking.delta")
              E == BridgeWords
  <2>1. wire = <<x, y>> /\ x.type = "chat.started" /\ y.type = "thinking.delta" /\ x \in E /\ y \in E
    BY <1>1, <1>5 DEF BridgeInv, Event, BridgeWords
  <2>2. Place(x) = 1 /\ Place(y) = 2
    BY <2>1, PlaceOfType
  <2>. HIDE DEF x, y, E
  <2>3. DOMAIN wire = 1..2 /\ wire[1] = x /\ wire[2] = y
    BY <2>1
  <2>4. InOrder
    <3>1. ASSUME NEW i \in DOMAIN wire, NEW j \in DOMAIN wire, i < j PROVE Place(wire[i]) < Place(wire[j])
      <4>1. i = 1 /\ j = 2
        BY <2>3, <3>1
      <4>. QED  BY <2>2, <2>3, <4>1
    <3>. QED  BY <3>1 DEF InOrder
  <2>5. Said = <<>>
    <3>1. <<>> \in Seq(E) /\ <<x>> \in Seq(E)
      BY <2>1
    <3>2. Append(<<>>, x) = <<x>> /\ Append(<<x>>, y) = <<x, y>>
      <4>1. Append(<<>>, x) = <<x>>
        BY AppendTo0
      <4>2. Append(<<x>>, y) = <<x, y>>
        BY <2>1, AppendTo1
      <4>. QED  BY <4>1, <4>2
    <3>3. PiecesOf(Append(<<>>, x)) = PiecesOf(<<>>)
      BY <2>1, <3>1, PiecesAppend
    <3>4. PiecesOf(Append(<<x>>, y)) = PiecesOf(<<x>>)
      BY <2>1, <3>1, PiecesAppend
    <3>. QED  BY <2>1, <3>2, <3>3, <3>4, NoPieces DEF Said
  <2>. QED  BY <1>5, <2>4, <2>5 DEF AnswersAreWhole
<1>6. CASE step = "begin"
  <2>1. wire = <<>>
    BY <1>1, <1>6 DEF BridgeInv
  <2>2. Said = <<>>
    BY <2>1, NoPieces DEF Said
  <2>3. InOrder
    BY <2>1 DEF InOrder
  <2>. QED  BY <1>6, <2>2, <2>3 DEF AnswersAreWhole
<1>. QED  BY <1>1, <1>3, <1>4, <1>5, <1>6 DEF AnswerSteps

\* The preview: whole.
LEMMA PreviewIsWhole == AnswerInv /\ lane = "preview" => AnswersAreWhole
<1>. SUFFICES ASSUME AnswerInv, lane = "preview" PROVE AnswersAreWhole
  OBVIOUS
<1>1. question \in Questions /\ step \in AnswerSteps /\ PreviewInv /\ ModelInv
  BY DEF AnswerInv, AnswerTypes
<1>2. CASE step = "over"
  <2>1. PICK s : PreviewTold(s) /\ wire = Append(s, PreviewDone)
    BY <1>1, <1>2 DEF PreviewInv
  <2>. DEFINE E == PreviewWords \cup {PreviewDone}
              x == PreviewDone
              c == PreviewCard
  <2>2. /\ x.type = "done" /\ x.finish = finish /\ x.provider = provider
        /\ c.type = "retrieval" /\ c.blocks = question.found
    BY DEF PreviewDone, PreviewCard
  <2>3. s \in Seq(E) /\ x \in E /\ Len(s) >= 1 /\ s[1] = c /\ PiecesOf(s) = model.said
        /\ \A i \in DOMAIN s : i > 1 => s[i].type = "message.delta"
    BY <2>1 DEF PreviewTold
  <2>. HIDE DEF E, x, c
  <2>4. /\ wire \in Seq(E) /\ Len(s) \in Nat /\ DOMAIN wire = 1..(Len(s) + 1) /\ DOMAIN s = 1..Len(s)
        /\ wire[Len(s) + 1] = x /\ \A j \in DOMAIN s : wire[j] = s[j]
    BY <2>1, <2>3, Appended DEF x
  <2>5. Said = model.said
    <3>1. PiecesOf(Append(s, x)) = PiecesOf(s)
      BY <2>2, <2>3, PiecesAppend
    <3>. QED  BY <2>1, <2>3, <3>1 DEF Said, x
  <2>6. ASSUME NEW i \in DOMAIN wire
        PROVE  \/ i = 1 /\ wire[i] = c
               \/ i \in DOMAIN s /\ wire[i].type = "message.delta"
               \/ i = Len(s) + 1 /\ wire[i] = x
    <3>1. CASE i \in DOMAIN s
      <4>1. i = 1 \/ i > 1
        BY <2>4, <3>1
      <4>2. wire[i] = s[i]
        BY <2>4, <3>1
      <4>. QED  BY <2>3, <3>1, <4>1, <4>2
    <3>2. CASE i \notin DOMAIN s
      <4>1. i = Len(s) + 1
        BY <2>4, <3>2
      <4>. QED  BY <2>4, <4>1
    <3>. QED  BY <3>1, <3>2
  <2>7. 1 \in DOMAIN wire /\ wire[1] = c /\ Len(s) + 1 \in DOMAIN wire
    <3>1. 1 \in DOMAIN s /\ 1 \in DOMAIN wire /\ Len(s) + 1 \in DOMAIN wire
      BY <2>3, <2>4
    <3>. QED  BY <2>3, <2>4, <3>1
  <2>8. Final("done") = x
    <3>1. \A e \in {wire[i] : i \in DOMAIN wire} : e.type = "done" <=> e = x
      BY <2>2, <2>6
    <3>2. x \in {wire[i] : i \in DOMAIN wire}
      BY <2>4, <2>7
    <3>. QED  BY <3>1, <3>2 DEF Final
  <2>9. Final("retrieval") = c
    <3>1. \A e \in {wire[i] : i \in DOMAIN wire} : e.type = "retrieval" <=> e = c
      BY <2>2, <2>6
    <3>2. c \in {wire[i] : i \in DOMAIN wire}
      BY <2>7
    <3>. QED  BY <3>1, <3>2 DEF Final
  <2>10. TrueToModel(x)
    <3>1. FateTold
      BY <1>1, <1>2 DEF ModelInv
    <3>. QED  BY <1>1, <2>2, <3>1, AnswerIsTrue
  <2>11. TrueToModel(Final("done")) /\ Final("retrieval").blocks = question.found
    BY <2>2, <2>8, <2>9, <2>10
  <2>. QED  BY <1>2, <2>5, <2>11 DEF AnswersAreWhole
<1>3. CASE step \in {"model", "end", "broken"}
  <2>1. PreviewTold(wire)
    BY <1>1, <1>3 DEF PreviewInv
  <2>2. \A i \in DOMAIN wire : wire[i].type \notin {"message.completed", "chat.completed", "done", "answer"}
    <3>1. \A i \in DOMAIN wire : wire[i] \in PreviewWords
      BY <2>1 DEF PreviewTold
    <3>2. \A e \in PreviewWords : e.type \in {"retrieval", "message.delta"}
      BY DEF PreviewWords, PreviewCard, Delta
    <3>. QED  BY <3>1, <3>2
  <2>. QED  BY <1>3, <2>2 DEF AnswersAreWhole
<1>4. CASE step \in {"begin", "search"}
  BY <1>4 DEF AnswersAreWhole
<1>. QED  BY <1>1, <1>2, <1>3, <1>4 DEF AnswerSteps

\* The preview without a stream: whole.
LEMMA PreviewTurnIsWhole == AnswerInv /\ lane = "preview turn" => AnswersAreWhole
<1>. SUFFICES ASSUME AnswerInv, lane = "preview turn" PROVE AnswersAreWhole
  OBVIOUS
<1>. DEFINE e == [type |-> "answer", blocks |-> question.found, content |-> model.said, finish |-> finish, provider |-> provider]
<1>1. question \in Questions /\ step \in {"begin", "over", "broken"} /\ ModelInv
      /\ (step \in {"begin", "broken"} => wire = <<>>) /\ (step = "over" => wire = <<e>>)
  BY DEF AnswerInv, AnswerTypes, PreviewTurnInv
<1>2. CASE step = "over"
  <2>1. e.type = "answer" /\ e.content = model.said /\ e.finish = finish /\ e.provider = provider
    OBVIOUS
  <2>. HIDE DEF e
  <2>2. {wire[i] : i \in DOMAIN wire} = {e}
    <3>1. wire = <<e>>
      BY <1>1, <1>2
    <3>2. DOMAIN wire = {1} /\ wire[1] = e
      BY ONLY <3>1
    <3>. QED  BY ONLY <3>2
  <2>3. Final("answer") = e
    BY <2>1, <2>2 DEF Final
  <2>4. TrueToModel(e)
    <3>1. FateTold
      BY <1>1, <1>2 DEF ModelInv
    <3>. QED  BY <1>1, <2>1, <3>1, AnswerIsTrue
  <2>5. Final("answer").content = model.said /\ TrueToModel(Final("answer"))
    BY <2>1, <2>3, <2>4
  <2>. QED  BY <1>2, <2>5 DEF AnswersAreWhole
<1>3. CASE step \in {"begin", "broken"}
  <2>1. \A i \in DOMAIN wire : wire[i].type \notin {"message.completed", "chat.completed", "done", "answer"}
    <3>1. wire = <<>>
      BY <1>1, <1>3
    <3>2. DOMAIN wire = {}
      BY ONLY <3>1
    <3>. QED  BY <3>2
  <2>2. step # "over" /\ lane \notin {"chat", "bridge"}
    BY <1>3
  <2>. QED  BY <2>1, <2>2 DEF AnswersAreWhole
<1>. QED  BY <1>1, <1>2, <1>3

\* The invariant says that answers are whole.
LEMMA WholeByInv == AnswerInv => AnswersAreWhole
BY QuestionLanes, ChatIsWhole, TurnIsWhole, BridgeIsWhole, PreviewIsWhole, PreviewTurnIsWhole

\* Whatever is asked and however the model fails: a stream keeps the order of the protocol at
\* every point, an answer that came to its end has all of its text, the products found and
\* the intent it was routed by, and it says exactly if the model failed.
THEOREM AnswersAreAlwaysWhole == AnswerSpec => []AnswersAreWhole
<1>1. AnswerInit => AnswerInv
  BY InitAnswerInv
<1>2. AnswerInv /\ [AnswerNext]_answerVars => AnswerInv'
  BY NextAnswerInv
<1>3. AnswerInv => AnswersAreWhole
  BY WholeByInv
<1>. QED  BY <1>1, <1>2, <1>3, PTL DEF AnswerSpec

\* What the invariant says of the answer's variables are their types.
LEMMA AnswerTyped == AnswerInv => AnswerTypeOK
BY DEF AnswerInv, AnswerTypes, AnswerTypeOK, AnswerSteps, AnswerModels
=============================================================================

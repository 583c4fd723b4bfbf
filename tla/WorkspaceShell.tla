--------------------------- MODULE WorkspaceShell ----------------------------
(* The workspace in the browser (AppShell in src/App.tsx with               *)
(* src/platform/api.ts and src/routing.ts) and what the server keeps of it: *)
(* the login of the cookie and the support sessions of the agency.  The tab *)
(* runs several asynchronous calls at a time; each is sent, served and      *)
(* resumed in steps of its own, and any of the others, the user, a timer or *)
(* a route change may come in between.                                      *)
EXTENDS Naturals, Sequences, FiniteSets

CONSTANTS
  Accounts,       \* those that can sign in
  RoleOf,         \* "agency_admin", "owner", "staff" or "billing"
  OwnBusiness,    \* the business of an account that is not of the agency
  Clients,        \* the businesses, all of one agency
  Places,         \* the locations
  PlaceOf,        \* the business of a location
  MainPlace,      \* the location a business shows first
  Links,          \* the routes the user follows, among them any bookmark
  Returns,        \* those of them that lead back from Stripe
  Earlier,        \* the support sessions there may be when the page is opened
  MaxMoves,      \* bound: acts of the user, timers and calls that fail
  MaxSupport,     \* bound: support sessions
  None            \* no account, no business, no location, nothing sent

ASSUME ShellAssumption ==
  /\ \A a \in Accounts : RoleOf[a] = "agency_admin" \/ OwnBusiness[a] \in Clients
  /\ \A p \in Places : PlaceOf[p] \in Clients
  /\ \A b \in Clients : PlaceOf[MainPlace[b]] = b
  /\ {MaxMoves, MaxSupport} \subseteq Nat

\* start_support_session leaves an agent with one that is open.
ASSUME EarlierAssumption ==
  \A e \in Earlier :
    /\ e \in Seq([agent : Accounts, business : Clients,
                 scope : {"view", "configuration"}, open : BOOLEAN])
    /\ \A i, j \in DOMAIN e :
         e[i].open /\ e[j].open /\ e[i].agent = e[j].agent => i = j

Agents == {a \in Accounts : RoleOf[a] = "agency_admin"}

Flows == {"load", "stale", "refresh", "signIn", "signOut", "end", "exit", "expire", "begin",
          "write"}

VARIABLES
  tab,        \* what the page holds
  cookie,     \* the account of the login session behind the cookie
  sessions,   \* the support sessions, in the order they were started
  moves       \* acts of the user, timers and failures so far

shellVars == <<tab, cookie, sessions, moves>>

(* The page as it is opened: routes, the module variable of api.ts (header) *)
(* and the state of AppShell.                                               *)
Page(r) ==
  [state |-> "loading",     \* workspaceState
   session |-> None,        \* session and sessionRef
   support |-> 0,           \* supportSession, 0: none
   access |-> None,         \* workspaceAccess
   holder |-> None,         \* whose businesses are held
   ending |-> FALSE,        \* endingSupportSession
   refresh |-> FALSE,       \* billingRefreshPending
   route |-> r,
   header |-> 0,            \* activeSupportSessionId
   calls |-> [load |-> None, stale |-> None, refresh |-> None, signIn |-> None,
              signOut |-> None, end |-> None, exit |-> None, expire |-> None,
              begin |-> None, write |-> None]]

-----------------------------------------------------------------------------
(* Routes. *)

Route(v, b, p) == [view |-> v, business |-> b, place |-> p]
SameContext(r, s) == r.business = s.business /\ r.place = s.place
Or(x, y) == IF x # None THEN x ELSE y

isAppViewAllowed(v, a, supported) ==
  CASE a \in Agents /\ ~supported -> v = "agency"
    [] RoleOf[a] = "billing" -> v = "billing"
    [] RoleOf[a] = "staff" -> v = "tenant"
    [] OTHER -> v # "agency"

(* Slip: the default of an agent does not depend on the support session. *)
DefaultViewOfRole(a, supported) ==
  CASE a \in Agents -> "agency"
    [] RoleOf[a] = "billing" -> "billing"
    [] OTHER -> "tenant"

defaultAppView(a, supported) ==
  CASE a \in Agents /\ ~supported -> "agency"
    [] RoleOf[a] = "billing" -> "billing"
    [] OTHER -> "tenant"

AllowedView(v, a, supported) ==
  IF isAppViewAllowed(v, a, supported) THEN v ELSE defaultAppView(a, supported)

workspaceBusinessForSession(r, a, supported) ==
  IF a \in Agents THEN Or(supported, r.business) ELSE Or(r.business, OwnBusiness[a])

workspaceLocationForBusiness(r, b, requested, default) ==
  Or(requested, Or(IF r.business \in {None, b} THEN r.place ELSE None, default))

-----------------------------------------------------------------------------
(* What the page shows. *)

SupportOf(t) == IF t.support = 0 THEN None ELSE sessions[t.support].business
AgencyMode(t) == t.session \in Agents /\ t.support = 0
Rendered(t) == t.state = "authenticated" /\ t.session # None

(* The business the session names; the first one held when it is not held.  *)
Named(t) == Or(SupportOf(t), IF t.session \in Agents THEN None ELSE OwnBusiness[t.session])
Holds(t, b) ==
  t.holder # None /\ (t.holder \in Agents \/ OwnBusiness[t.holder] = b)
Shown(t) == IF t.holder = None \/ Holds(t, Named(t)) THEN Named(t) ELSE OwnBusiness[t.holder]

SelectedPlace(t, b) ==
  IF t.route.business \in {None, b} /\ t.route.place \in Places /\ PlaceOf[t.route.place] = b
  THEN t.route.place ELSE MainPlace[b]

(* Slip: the workspace that is held is taken for the one that is shown. *)
AnyAccessMatches(t) == t.access # None

accessMatchesContext(t) ==
  /\ t.access # None /\ t.access.business = Shown(t)
  /\ t.access.place \in {None, SelectedPlace(t, Shown(t))}
canReadTenant(t) == Rendered(t) /\ ~AgencyMode(t) /\ accessMatchesContext(t) /\ t.access.read
canConfigure(t) == canReadTenant(t) /\ t.access.manage

(* Where the two effects that correct the route would have it: the view by  *)
(* the role, the business and one of its locations by what is held. *)
Canonical(t) ==
  LET r == t.route
      allowed == isAppViewAllowed(r.view, t.session, t.support # 0)
      fallback == defaultAppView(t.session, t.support # 0)
      b == Named(t)
      main == IF Holds(t, b) THEN MainPlace[b] ELSE None
  IN CASE AgencyMode(t) -> IF allowed THEN r ELSE Route(fallback, None, None)
       [] ~AgencyMode(t) /\ ~allowed ->
            Route(fallback, b, workspaceLocationForBusiness(r, b, None, main))
       [] OTHER -> IF main = None THEN r ELSE Route(r.view, b, SelectedPlace(t, b))

-----------------------------------------------------------------------------
(* Calls.  A flow waits for one answer at a time and keeps the route it     *)
(* closed over.                                                             *)

Call(t, step) ==
  [step |-> step, route |-> t.route, business |-> None, place |-> None, id |-> 0,
   account |-> None, scope |-> "view", restore |-> FALSE, attempt |-> 0,
   header |-> 0, answer |-> None]

request(t, f, c) ==
  [t EXCEPT !.calls[f] = [c EXCEPT !.header = t.header, !.answer = None]]

Done(t, f) == [t EXCEPT !.calls[f] = None]

getWorkspace(t, f, c, b, p) ==
  request(t, f, [c EXCEPT !.step = "workspace", !.business = b, !.place = p])

getActiveSupportSession(t, f, c) ==
  request([t EXCEPT !.header = 0], f, [c EXCEPT !.step = "active"])

(* The header is taken off before the call and put back when it fails. *)
endSupportSession(t, f, id) ==
  request([t EXCEPT !.header = IF @ = id THEN 0 ELSE @], f,
    [Call(t, "end") EXCEPT !.id = id, !.restore = t.header = id])

EndFailed(t, c) == [t EXCEPT !.header = IF c.restore /\ @ = 0 THEN c.id ELSE @]

(* A refresh is cancelled when its effect is: the page is no longer         *)
(* authenticated, or the context of the route is another.                   *)
Leaves(t) == [t EXCEPT !.calls["refresh"] = None]

(* The load of a route: the session unless it is known, for the agency the  *)
(* support session that is open, the workspace.                             *)
LoadWorkspace(t, f, c, supported) ==
  LET b == workspaceBusinessForSession(c.route, c.account, supported)
  IN getWorkspace(t, f, [c EXCEPT !.account = None], b, IF c.route.business \in {None, b} THEN c.route.place ELSE None)

Identified(t, f, c, a) ==
  LET u == [t EXCEPT !.session = a]
      d == [c EXCEPT !.account = a]
  IN IF a \in Agents THEN getActiveSupportSession(u, f, d) ELSE LoadWorkspace(u, f, d, None)

Loads(t) ==
  LET u == [Leaves(t) EXCEPT !.state = "loading", !.calls["stale"] = t.calls["load"]]
  IN IF t.session # None THEN Identified(u, "load", Call(t, "session"), t.session)
     ELSE request(u, "load", Call(t, "session"))

navigate(t, r) ==
  LET u == [t EXCEPT !.route = r]
  IN IF SameContext(t.route, r) THEN u ELSE Loads(u)

applyWorkspace(t, answer) ==
  [t EXCEPT !.session = answer.account, !.holder = answer.account, !.access = answer.access]

-----------------------------------------------------------------------------
(* The server. *)

Answer(status) == [status |-> status, account |-> None, access |-> None, id |-> 0]
Ok == [Answer("ok") EXCEPT !.account = cookie]

OpenOf(a) == {i \in DOMAIN sessions : sessions[i].agent = a /\ sessions[i].open}

\* The one started last.
ActiveOf(a) ==
  IF OpenOf(a) = {} THEN 0 ELSE CHOOSE i \in OpenOf(a) : \A j \in OpenOf(a) : j <= i

hasActiveSupportSession(c, b) ==
  c.header \in OpenOf(cookie) /\ sessions[c.header].business = b

Refusal(c) ==
  CASE c.step = "login" -> None
    [] c.step # "login" /\ cookie = None -> "unauthorised"
    [] c.step # "login" /\ c.header # 0 /\ cookie \notin Agents \cup {None} -> "forbidden"
    [] OTHER -> None

(* GET /api/v1/workspace: access to the business, then to the location. *)
WorkspaceAnswer(c) ==
  LET agent == cookie \in Agents
      target == Or(c.business, IF agent THEN None ELSE OwnBusiness[cookie])
      b == Or(target, CHOOSE x \in Clients : TRUE)
      supported == hasActiveSupportSession(c, b)
      access == [business |-> b, place |-> Or(c.place, MainPlace[b]),
                 read |-> IF agent THEN supported ELSE RoleOf[cookie] # "billing",
                 manage |-> IF agent
                            THEN supported /\ sessions[c.header].scope = "configuration"
                            ELSE RoleOf[cookie] = "owner"]
      there == c.place = None \/ (c.place \in Places /\ PlaceOf[c.place] = target)
  IN CASE ~agent /\ b # OwnBusiness[cookie] -> Answer("forbidden")
       [] (agent \/ b = OwnBusiness[cookie]) /\ ~there -> Answer("not_found")
       [] OTHER -> [Ok EXCEPT !.access = access]

start_support_session(c) ==
  IF OpenOf(cookie) # {} THEN Answer("failed")
  ELSE [Ok EXCEPT !.id = Len(sessions) + 1]

AnswerTo(c) ==
  IF Refusal(c) # None THEN Answer(Refusal(c)) ELSE
  CASE c.step = "workspace" -> WorkspaceAnswer(c)
    [] c.step = "active" -> [Ok EXCEPT !.id = ActiveOf(cookie)]
    [] c.step = "start" -> start_support_session(c)
    [] c.step = "end" /\ c.id \notin OpenOf(cookie) -> Answer("not_found")
    [] c.step = "login" -> [Answer("ok") EXCEPT !.account = c.account]
    [] OTHER -> Ok

(* What the server keeps of a call it carries out. *)
Keeps(c) ==
  LET done == AnswerTo(c).status = "ok"
  IN /\ cookie' = CASE done /\ c.step = "login" -> c.account
                    [] done /\ c.step = "logout" -> None
                    [] OTHER -> cookie
     /\ sessions' = CASE done /\ c.step = "start" ->
                           Append(sessions, [agent |-> cookie, business |-> c.business,
                                             scope |-> c.scope, open |-> TRUE])
                      [] done /\ c.step = "end" -> [sessions EXCEPT ![c.id].open = FALSE]
                      [] OTHER -> sessions

Waiting(f) == tab.calls[f] # None /\ tab.calls[f].step # "timer" /\ tab.calls[f].answer = None
Answered(f, step) ==
  tab.calls[f] # None /\ tab.calls[f].step = step /\ tab.calls[f].answer # None

Serve(f) ==
  /\ Waiting(f)
  /\ Keeps(tab.calls[f])
  /\ tab' = [tab EXCEPT !.calls[f].answer = AnswerTo(tab.calls[f]), !.calls[f].header = 0]
  /\ UNCHANGED moves

(* The call does not arrive, or its answer does not. *)
Fails(f) ==
  /\ Waiting(f) /\ moves < MaxMoves
  /\ Keeps(tab.calls[f]) \/ UNCHANGED <<cookie, sessions>>
  /\ tab' = [tab EXCEPT !.calls[f].answer = Answer("failed"), !.calls[f].header = 0]
  /\ moves' = moves + 1

(* A support session reaches its end or is ended in another window. *)
SupportEnds(i) ==
  /\ sessions[i].open /\ moves < MaxMoves
  /\ sessions' = [sessions EXCEPT ![i].open = FALSE] /\ moves' = moves + 1
  /\ UNCHANGED <<tab, cookie>>

-----------------------------------------------------------------------------
(* The page goes on with an answer. *)

Resume(f, step, next(_, _)) ==
  /\ Answered(f, step)
  /\ tab' = next(tab.calls[f], tab.calls[f].answer)
  /\ UNCHANGED <<cookie, sessions, moves>>

(* The load effect.  What it learns of the session and of support is set    *)
(* whether or not the load is still wanted; the workspace is not.           *)
LoadFails(f, c, status) ==
  LET u == Done(tab, f)
  IN IF f = "stale" THEN u ELSE
     CASE status = "unauthorised" ->
            [Leaves(u) EXCEPT !.header = 0, !.session = None, !.state = "anonymous"]
       [] status = "not_found" /\ c.route.place # None -> navigate(u, c.route)
       [] OTHER -> [u EXCEPT !.state = "error"]

(* Slip: a load that is no longer wanted is applied like any other. *)
LoadStepThoughStale(f) ==
  \/ Resume(f, "session", LAMBDA c, x :
       IF x.status = "ok" THEN Identified(tab, f, c, x.account) ELSE LoadFails(f, c, x.status))
  \/ Resume(f, "active", LAMBDA c, x :
       IF x.status # "ok" THEN LoadFails(f, c, x.status)
       ELSE LoadWorkspace([tab EXCEPT !.support = x.id, !.header = IF x.id = 0 THEN @ ELSE x.id],
                          f, c, IF x.id = 0 THEN None ELSE sessions[x.id].business))
  \/ Resume(f, "workspace", LAMBDA c, x :
       CASE x.status # "ok" -> LoadFails(f, c, x.status)
         [] OTHER -> [applyWorkspace(Done(tab, f), x) EXCEPT !.state = "authenticated"])

LoadStep(f) ==
  \/ Resume(f, "session", LAMBDA c, x :
       IF x.status = "ok" THEN Identified(tab, f, c, x.account) ELSE LoadFails(f, c, x.status))
  \/ Resume(f, "active", LAMBDA c, x :
       IF x.status # "ok" THEN LoadFails(f, c, x.status)
       ELSE LoadWorkspace([tab EXCEPT !.support = x.id, !.header = IF x.id = 0 THEN @ ELSE x.id],
                          f, c, IF x.id = 0 THEN None ELSE sessions[x.id].business))
  \/ Resume(f, "workspace", LAMBDA c, x :
       CASE x.status # "ok" -> LoadFails(f, c, x.status)
         [] x.status = "ok" /\ f = "stale" -> Done(tab, f)
         [] OTHER -> [applyWorkspace(Done(tab, f), x) EXCEPT !.state = "authenticated"])

(* An act of the user, or a timer that has run out. *)
Click(t) ==
  /\ moves < MaxMoves
  /\ moves' = moves + 1
  /\ tab' = t
  /\ UNCHANGED <<cookie, sessions>>

(* A step of the page by itself. *)
Effect(t) == tab' = t /\ UNCHANGED <<cookie, sessions, moves>>

FollowLink(r) == tab.state # "left" /\ tab.route # r /\ Click(navigate(tab, r))

(* The page is opened anew, maybe on the way back from Stripe, or the shell *)
(* is mounted again from the public site: the module variable has outlived  *)
(* it then. *)
Open(r, back) ==
  \E header \in {0, tab.header} :
    /\ header = 0 \/ (tab.state = "left" /\ ~back)
    /\ back => r \in Returns
    /\ Click(Loads([Page(r) EXCEPT !.refresh = back, !.header = header]))

(* signIn: the form is there unless the workspace is being opened. *)
SignIn(a) ==
  /\ tab.calls["signIn"] = None
  /\ tab.state = "anonymous" \/ (tab.state = "error" /\ tab.session = None)
  /\ Click(request([tab EXCEPT !.header = 0], "signIn",
             [Call(tab, "login") EXCEPT !.account = a]))

SignedIn(c, x) ==
  LET u == applyWorkspace(Done(tab, "signIn"), x)
      b == IF x.account \in Agents THEN c.business ELSE x.access.business
      p == Or(c.place, IF b = None THEN None ELSE MainPlace[b])
      view == AllowedView(c.route.view, x.account, FALSE)
  IN navigate([u EXCEPT !.state = "authenticated"], Route(view, b, p))

SigningIn ==
  \/ Resume("signIn", "login", LAMBDA c, x :
       IF x.status = "ok" THEN request(tab, "signIn", [c EXCEPT !.step = "session"])
       ELSE Done(tab, "signIn"))
  \/ Resume("signIn", "session", LAMBDA c, x :
       LET a == x.account
           b == workspaceBusinessForSession(c.route, a, None)
       IN IF x.status # "ok" THEN Done(tab, "signIn")
          ELSE getWorkspace([Leaves(tab) EXCEPT !.session = a, !.state = "loading"], "signIn", c, b,
                            workspaceLocationForBusiness(c.route, b, None, None)))
  \/ Resume("signIn", "workspace", LAMBDA c, x :
       IF x.status = "ok" THEN SignedIn(c, x)
       ELSE [Done(tab, "signIn") EXCEPT !.state = "error"])

(* signOut ends the support session first and forgets all in the end. *)
SignOut ==
  /\ Rendered(tab) /\ tab.calls["signOut"] = None
  /\ Click(IF tab.support # 0 THEN endSupportSession(tab, "signOut", tab.support)
           ELSE request(tab, "signOut", Call(tab, "logout")))

SigningOut ==
  \/ Resume("signOut", "end", LAMBDA c, x :
       request(IF x.status = "ok" THEN tab ELSE EndFailed(tab, c), "signOut",
               [c EXCEPT !.step = "logout"]))
  \/ Resume("signOut", "logout", LAMBDA c, x :
       [Page(tab.route) EXCEPT !.state = "anonymous", !.refresh = tab.refresh,
                               !.calls = Leaves(Done(tab, "signOut")).calls])

(* beginSupportSession, from the list of the clients. *)
BeginSupport(b, s) ==
  /\ Rendered(tab) /\ AgencyMode(tab) /\ tab.calls["begin"] = None
  /\ Len(sessions) < MaxSupport
  /\ Click(request(tab, "begin", [Call(tab, "start") EXCEPT !.business = b, !.scope = s]))

BeginningSupport ==
  \/ Resume("begin", "start", LAMBDA c, x :
       IF x.status # "ok" THEN Done(tab, "begin")
       ELSE getWorkspace([tab EXCEPT !.header = x.id, !.support = x.id], "begin",
                         [c EXCEPT !.id = x.id], c.business, MainPlace[c.business]))
  \/ Resume("begin", "workspace", LAMBDA c, x :
       IF x.status # "ok" THEN endSupportSession([tab EXCEPT !.support = 0], "begin", c.id)
       ELSE navigate(applyWorkspace(Done(tab, "begin"), x),
                     Route("tenant", c.business, MainPlace[c.business])))
  \/ Resume("begin", "end", LAMBDA c, x :
       [Done(tab, "begin") EXCEPT !.header = IF x.status = "ok" THEN @ ELSE 0])

(* endSupportSession of the shell. *)
EndSupport ==
  /\ Rendered(tab) /\ tab.support # 0 /\ ~tab.ending
  /\ Click(endSupportSession([tab EXCEPT !.ending = TRUE], "end", tab.support))

EndingSupport ==
  Resume("end", "end", LAMBDA c, x :
    LET u == [Done(tab, "end") EXCEPT !.ending = FALSE]
    IN IF x.status = "ok"
       THEN navigate([u EXCEPT !.support = 0], Route("agency", None, None))
       ELSE EndFailed(u, c))

(* exitWorkspace: to the public site, whatever becomes of the support       *)
(* session. *)
Left(header) == [Page(tab.route) EXCEPT !.state = "left", !.header = header]

Exit ==
  /\ Rendered(tab) /\ tab.calls["exit"] = None
  /\ Click(IF tab.support # 0 THEN endSupportSession(tab, "exit", tab.support)
           ELSE Left(tab.header))

Exiting ==
  Resume("exit", "end", LAMBDA c, x : Left(IF x.status = "ok" THEN tab.header ELSE 0))

(* The support session is over by the clock of the browser, which may       *)
(* differ from that of the server. *)
SupportExpires ==
  /\ tab.support # 0 /\ tab.calls["expire"] = None
  /\ Click(navigate(endSupportSession([tab EXCEPT !.support = 0], "expire", tab.support),
                     Route("agency", None, None)))

Expired ==
  Resume("expire", "end", LAMBDA c, x :
    [Done(tab, "expire") EXCEPT !.header = IF x.status = "ok" THEN @ ELSE 0])

(* Fifteen minutes after the step-up, or after the workspace was last read. *)
AccessLapses(read) ==
  /\ tab.support # 0 /\ tab.access # None /\ tab.access.business = SupportOf(tab)
  /\ tab.access.manage \/ (tab.access.read /\ ~read)
  /\ Click([tab EXCEPT !.access.manage = FALSE, !.access.read = @ /\ read])

(* A completed job, the selection of a Google profile or the policy for     *)
(* SMS: the write, a fresh workspace and, but for the policy, another view. *)
Write(p) ==
  /\ canConfigure(tab) /\ tab.calls["write"] = None /\ PlaceOf[p] = Shown(tab)
  /\ Click(request(tab, "write",
             [Call(tab, "write") EXCEPT !.business = Shown(tab), !.place = p]))

Writing ==
  \/ Resume("write", "write", LAMBDA c, x :
       IF x.status = "ok" THEN getWorkspace(tab, "write", c, c.business, c.place)
       ELSE Done(tab, "write"))
  \/ \E away \in BOOLEAN :
       Resume("write", "workspace", LAMBDA c, x :
         navigate(IF x.status = "ok" THEN applyWorkspace(Done(tab, "write"), x)
                  ELSE Done(tab, "write"),
                  IF away THEN Route("tenant", c.business, c.place) ELSE tab.route))

(* Back from Stripe the workspace is read three times. *)
Refreshes ==
  /\ tab.refresh /\ Rendered(tab) /\ tab.calls["refresh"] = None
  /\ LET own == IF tab.session \in Agents THEN None ELSE OwnBusiness[tab.session]
         b == Or(tab.route.business, own)
     IN Effect(IF b = None THEN [tab EXCEPT !.refresh = FALSE]
               ELSE getWorkspace(tab, "refresh", Call(tab, "workspace"), b, tab.route.place))


Refreshed ==
  Resume("refresh", "workspace", LAMBDA c, x :
    LET u == IF x.status = "ok" THEN applyWorkspace(tab, x) ELSE tab
    IN IF c.attempt >= 2 THEN [Done(u, "refresh") EXCEPT !.refresh = FALSE]
       ELSE [u EXCEPT !.calls["refresh"] =
               [c EXCEPT !.step = "timer", !.attempt = @ + 1, !.answer = None]])

RefreshesAgain ==
  LET c == tab.calls["refresh"]
  IN /\ c # None /\ c.step = "timer"
     /\ Effect(getWorkspace(tab, "refresh", c, c.business, c.place))

Canonicalizes ==
  Rendered(tab) /\ tab.route # Canonical(tab) /\ Effect(navigate(tab, Canonical(tab)))

(* The login ends: idle, at its limit, or revoked. *)
LoginEnds ==
  /\ cookie # None /\ moves < MaxMoves
  /\ cookie' = None /\ moves' = moves + 1
  /\ UNCHANGED <<tab, sessions>>

-----------------------------------------------------------------------------

ShellInit ==
  /\ cookie \in Accounts \cup {None} /\ sessions \in Earlier /\ moves = 0
  /\ \E r \in Links, back \in BOOLEAN :
       (back => r \in Returns) /\ tab = Loads([Page(r) EXCEPT !.refresh = back])

Acts ==
  \/ \E r \in Links : FollowLink(r) \/ \E back \in BOOLEAN : Open(r, back)
  \/ \E a \in Accounts : SignIn(a)
  \/ \E b \in Clients, s \in {"view", "configuration"} : BeginSupport(b, s)
  \/ \E p \in Places : Write(p)
  \/ SignOut \/ EndSupport \/ Exit

GoesOn ==
  \/ LoadStep("load") \/ LoadStep("stale") \/ SigningIn \/ SigningOut
  \/ BeginningSupport \/ EndingSupport \/ Exiting \/ Expired \/ Writing
  \/ Refreshes \/ Refreshed \/ RefreshesAgain \/ Canonicalizes

Happens ==
  \/ \E i \in DOMAIN sessions : SupportEnds(i)
  \/ SupportExpires \/ LoginEnds
  \/ \E read \in BOOLEAN : AccessLapses(read)

ShellNext == Acts \/ GoesOn \/ Happens \/ \E f \in Flows : Serve(f) \/ Fails(f)

ShellSpec == ShellInit /\ [][ShellNext]_shellVars

(* Calls end, be it with a failure, and the page goes on.                   *)
ShellFairness == WF_shellVars(\E f \in Flows : Serve(f)) /\ WF_shellVars(GoesOn)

FairShellSpec == ShellSpec /\ ShellFairness

-----------------------------------------------------------------------------
(* Properties. *)

(* An agent has one tenant context at a time, whatever pages, failures and  *)
(* late calls start and end them (start_support_session).                   *)
OneTenantContext == \A a \in Agents : Cardinality(OpenOf(a)) <= 1

(* The pages of a tenant are open to an agent only while the banner names   *)
(* that tenant and after the server granted it, and its configuration only  *)
(* after a grant of configuration (accessMatchesContext in AppShell).  This *)
(* is said of a page whose workspace is the one of its session: a load that *)
(* is no longer wanted may still name the account of before.                *)
TenantWasGranted ==
  tab.session \in Agents /\ tab.holder = tab.session /\ canReadTenant(tab) =>
    \E i \in DOMAIN sessions :
      /\ sessions[i].agent = tab.session
      /\ sessions[i].business = SupportOf(tab)
      /\ tab.access.business = SupportOf(tab)
      /\ canConfigure(tab) => sessions[i].scope = "configuration"

(* A load brings its workspace up only while the route is still the one it  *)
(* was made for, however many loads of earlier routes are on their way      *)
(* (`active` of the load effect).                                           *)
LoadsServeTheRoute ==
  [][\A f \in {"load", "stale"} :
       /\ Answered(f, "workspace") /\ tab'.calls[f] = None
       /\ tab.state = "loading" /\ tab'.state = "authenticated"
       => SameContext(tab.calls[f].route, tab.route)]_shellVars

(* The effects that correct the route come to an agreement, on a view that  *)
(* the account may open. *)
RoutesSettle ==
  []<>(Rendered(tab) =>
         /\ tab.route = Canonical(tab)
         /\ isAppViewAllowed(tab.route.view, tab.session, tab.support # 0))

(* Opening a workspace comes to an end.                                     *)
OpeningEnds == tab.state = "loading" ~> tab.state # "loading"

=============================================================================

------------------------ MODULE WorkspaceShellProofs ------------------------
(* The support sessions of the agency and what the page opens of them, for  *)
(* any accounts, clients, links and number of acts.                         *)
EXTENDS WorkspaceShell, FiniteSetTheorems, SequenceTheorems, TLAPS

OneOpenEach ==
  \A i, j \in DOMAIN sessions :
    sessions[i].open /\ sessions[j].open /\ sessions[i].agent = sessions[j].agent => i = j

(* Most of what the page does leaves the support sessions alone. *)
LEMMA PageKeepsSessions ==
  ASSUME Acts \/ GoesOn \/ SupportExpires \/ LoginEnds
           \/ \E read \in BOOLEAN : AccessLapses(read)
  PROVE  UNCHANGED sessions
<1>1. ASSUME Acts PROVE UNCHANGED sessions
  BY <1>1 DEF Acts, FollowLink, Open, SignIn, BeginSupport, Write, SignOut, EndSupport,
              Exit, Click
<1>2. ASSUME LoadStep("load") \/ LoadStep("stale") PROVE UNCHANGED sessions
  BY <1>2 DEF LoadStep, Resume
<1>3. ASSUME SigningIn PROVE UNCHANGED sessions
  BY <1>3 DEF SigningIn, Resume
<1>4. ASSUME SigningOut PROVE UNCHANGED sessions
  BY <1>4 DEF SigningOut, Resume
<1>5. ASSUME BeginningSupport PROVE UNCHANGED sessions
  BY <1>5 DEF BeginningSupport, Resume
<1>6. ASSUME EndingSupport \/ Exiting \/ Expired PROVE UNCHANGED sessions
  BY <1>6 DEF EndingSupport, Exiting, Expired, Resume
<1>7. ASSUME Writing PROVE UNCHANGED sessions
  BY <1>7 DEF Writing, Resume
<1>8. ASSUME Refreshes \/ Refreshed \/ RefreshesAgain \/ Canonicalizes
      PROVE  UNCHANGED sessions
  BY <1>8 DEF Refreshes, Refreshed, RefreshesAgain, Canonicalizes, Effect, Resume
<1>9. ASSUME SupportExpires \/ LoginEnds \/ \E read \in BOOLEAN : AccessLapses(read)
      PROVE  UNCHANGED sessions
  BY <1>9 DEF SupportExpires, LoginEnds, AccessLapses, Click
<1> QED
  BY <1>1, <1>2, <1>3, <1>4, <1>5, <1>6, <1>7, <1>8, <1>9 DEF GoesOn

(* A sequence of support sessions, whoever they are of. *)
SessionsInOrder ==
  \E A, B, S : sessions \in Seq([agent : A, business : B, scope : S, open : BOOLEAN])

SupportInv == SessionsInOrder /\ OneOpenEach

LEMMA EndingKeepsOneOpen ==
  ASSUME SupportInv, NEW i \in DOMAIN sessions,
         sessions' = [sessions EXCEPT ![i].open = FALSE]
  PROVE  SupportInv'
<1>1. PICK A, B, S : sessions \in Seq([agent : A, business : B, scope : S, open : BOOLEAN])
  BY DEF SupportInv, SessionsInOrder
<1> DEFINE R == [agent : A, business : B, scope : S, open : BOOLEAN]
           e == [sessions[i] EXCEPT !.open = FALSE]
<1>2. /\ sessions \in Seq(R)
      /\ DOMAIN sessions = 1..Len(sessions)
      /\ \A j \in DOMAIN sessions : sessions[j] \in R
  <2>1. sessions \in Seq(R)
    BY <1>1
  <2> HIDE DEF R
  <2> QED BY <2>1, LenProperties, ElementOfSeq
<1>3. e \in R /\ e.open = FALSE
  BY <1>2
<1>4. /\ DOMAIN sessions' = DOMAIN sessions
      /\ \A j \in DOMAIN sessions : sessions'[j] = IF j = i THEN e ELSE sessions[j]
  <2> HIDE DEF R
  <2>1. sessions' = [sessions EXCEPT ![i] = e]
    OBVIOUS
  <2> HIDE DEF e
  <2> QED BY <2>1, <1>1
<1>5. sessions' \in Seq(R)
  <2>1. sessions' = [sessions EXCEPT ![i] = e]
    OBVIOUS
  <2>2. i \in 1..Len(sessions) /\ e \in R
    BY <1>2, <1>3
  <2> HIDE DEF R, e
  <2>3. [sessions EXCEPT ![i] = e] \in Seq(R)
    BY <1>2, <2>2, ExceptSeq
  <2> QED BY <2>1, <2>3
<1>6. OneOpenEach'
  <2> HIDE DEF R, e
  <2> QED BY <1>3, <1>4 DEF SupportInv, OneOpenEach
<1> QED
  BY <1>5, <1>6 DEF SupportInv, SessionsInOrder

(* The server starts a support session beside none that is open, and ends   *)
(* one that is.                                                             *)
LEMMA ServerKeepsOneOpen ==
  ASSUME SupportInv, NEW c, Keeps(c)
  PROVE  SupportInv'
<1>1. PICK A, B, S : sessions \in Seq([agent : A, business : B, scope : S, open : BOOLEAN])
  BY DEF SupportInv, SessionsInOrder
<1>2. CASE AnswerTo(c).status = "ok" /\ c.step = "start"
  <2> DEFINE e == [agent |-> cookie, business |-> c.business, scope |-> c.scope, open |-> TRUE]
             R == [agent : A \cup {cookie}, business : B \cup {c.business},
                   scope : S \cup {c.scope}, open : BOOLEAN]
  <2>1. sessions' = Append(sessions, e)
    BY <1>2 DEF Keeps
  <2>2. OpenOf(cookie) = {}
    BY <1>2 DEF AnswerTo, start_support_session, Answer, Refusal
  <2>3. sessions \in Seq(R) /\ e \in R
    <3>1. [agent : A, business : B, scope : S, open : BOOLEAN] \subseteq R
      OBVIOUS
    <3>2. sessions \in Seq(R)
      <4> HIDE DEF R
      <4> QED BY <1>1, <3>1, SeqMonotonic
    <3> QED
      BY <3>2
  <2>4. /\ sessions' \in Seq(R)
        /\ DOMAIN sessions' = 1..(Len(sessions) + 1)
        /\ sessions'[Len(sessions) + 1] = e
        /\ \A i \in DOMAIN sessions : sessions'[i] = sessions[i]
    BY <2>1, <2>3
  <2>5. \A i \in DOMAIN sessions : ~(sessions[i].open /\ sessions[i].agent = cookie)
    BY <2>2 DEF OpenOf
  <2>6. OneOpenEach'
    <3> SUFFICES ASSUME NEW i \in DOMAIN sessions', NEW j \in DOMAIN sessions',
                        sessions'[i].open, sessions'[j].open,
                        sessions'[i].agent = sessions'[j].agent
                 PROVE  i = j
      BY DEF OneOpenEach
    <3>1. \A k \in DOMAIN sessions' : k \in DOMAIN sessions \/ k = Len(sessions) + 1
      BY <2>3, <2>4
    <3>2. e.agent = cookie
      OBVIOUS
    <3> HIDE DEF e
    <3>3. CASE i \in DOMAIN sessions /\ j \in DOMAIN sessions
      BY <2>4, <3>3 DEF SupportInv, OneOpenEach
    <3>4. CASE i \in DOMAIN sessions /\ j = Len(sessions) + 1
      BY <2>4, <2>5, <3>2, <3>4
    <3>5. CASE i = Len(sessions) + 1 /\ j \in DOMAIN sessions
      BY <2>4, <2>5, <3>2, <3>5
    <3> QED
      BY <3>1, <3>3, <3>4, <3>5
  <2> QED
    BY <2>4, <2>6 DEF SupportInv, SessionsInOrder
<1>3. CASE AnswerTo(c).status = "ok" /\ c.step = "end"
  <2>1. sessions' = [sessions EXCEPT ![c.id].open = FALSE]
    BY <1>3 DEF Keeps
  <2>2. c.id \in DOMAIN sessions
    BY <1>3 DEF AnswerTo, Answer, Refusal, OpenOf
  <2> QED
    BY <2>1, <2>2, EndingKeepsOneOpen
<1>4. CASE ~(AnswerTo(c).status = "ok" /\ c.step \in {"start", "end"})
  BY <1>4 DEF Keeps, SupportInv, SessionsInOrder, OneOpenEach
<1> QED
  BY <1>2, <1>3, <1>4

(* An agent has one tenant context at a time, whatever pages, failures and  *)
(* late calls start and end them.                                           *)
THEOREM AgentsHaveOneContext == ShellSpec => []OneTenantContext
<1>1. ShellInit => SupportInv
  BY EarlierAssumption DEF ShellInit, SupportInv, SessionsInOrder, OneOpenEach
<1>2. SupportInv /\ [ShellNext]_shellVars => SupportInv'
  <2> SUFFICES ASSUME SupportInv, [ShellNext]_shellVars PROVE SupportInv'
    OBVIOUS
  <2>1. UNCHANGED sessions => SupportInv'
    BY DEF SupportInv, SessionsInOrder, OneOpenEach
  <2>2. ASSUME NEW f \in Flows, Serve(f) \/ Fails(f) PROVE SupportInv'
    <3>1. Keeps(tab.calls[f]) \/ UNCHANGED sessions
      BY <2>2 DEF Serve, Fails
    <3> QED
      BY <2>1, <3>1, ServerKeepsOneOpen
  <2>3. ASSUME NEW i \in DOMAIN sessions, SupportEnds(i) PROVE SupportInv'
    BY <2>3, EndingKeepsOneOpen DEF SupportEnds
  <2>4. CASE UNCHANGED shellVars
    BY <2>1, <2>4 DEF shellVars
  <2> QED
    BY <2>1, <2>2, <2>3, <2>4, PageKeepsSessions DEF ShellNext, Happens
<1>3. SupportInv => OneTenantContext
  <2> SUFFICES ASSUME SupportInv, NEW a \in Agents PROVE Cardinality(OpenOf(a)) <= 1
    BY DEF OneTenantContext
  <2>1. \A i, j \in OpenOf(a) : i = j
    BY DEF SupportInv, OneOpenEach, OpenOf
  <2>2. CASE OpenOf(a) = {}
    BY <2>2, FS_EmptySet
  <2>3. CASE OpenOf(a) # {}
    <3>1. PICK i \in OpenOf(a) : OpenOf(a) = {i}
      BY <2>1, <2>3
    <3>2. Cardinality({i}) = 1
      BY FS_Singleton
    <3> QED
      BY <3>1, <3>2
  <2> QED
    BY <2>2, <2>3
<1> QED
  BY <1>1, <1>2, <1>3, PTL DEF ShellSpec

-----------------------------------------------------------------------------
(* What a page holds and awaits.  S: the support sessions of the server.    *)

Fields == {"state", "session", "support", "access", "holder", "ending", "refresh",
           "route", "header", "calls"}
CallFields == {"step", "route", "business", "place", "id", "account", "scope",
               "restore", "attempt", "header", "answer"}
AccessFields == {"business", "place", "read", "manage"}

(* An agent may read where a support session of its own has been.           *)
Granted(S, a, x) ==
  x # None =>
    /\ DOMAIN x = AccessFields
    /\ a \in Agents /\ x.read =>
         \E i \in DOMAIN S : /\ S[i].agent = a /\ S[i].business = x.business
                             /\ x.manage => S[i].scope = "configuration"

IsPage(t) ==
  /\ DOMAIN t = Fields /\ DOMAIN t.calls = Flows
  /\ \A f \in Flows : t.calls[f] # None => DOMAIN t.calls[f] = CallFields

AnswersAreGranted(S, t) ==
  \A f \in Flows : t.calls[f] # None /\ t.calls[f].answer # None =>
    Granted(S, t.calls[f].answer.account, t.calls[f].answer.access)

LoadIsForRoute(t) ==
  t.calls["load"] # None => SameContext(t.calls["load"].route, t.route)

Honest(S, t) == IsPage(t) /\ Granted(S, t.holder, t.access) /\ AnswersAreGranted(S, t)
Sound(S, t) == Honest(S, t) /\ LoadIsForRoute(t)

Pending == {"loading", "anonymous", "error", "left"}

(* The parts of a page that say nothing of grants and loads. *)
LEMMA OtherFields ==
  ASSUME NEW S, NEW t, NEW u, Honest(S, t), DOMAIN u = Fields,
         u.calls = t.calls, u.holder = t.holder, u.access = t.access
  PROVE  /\ Honest(S, u)
         /\ LoadIsForRoute(t) /\ u.route = t.route => LoadIsForRoute(u)
BY DEF Honest, IsPage, AnswersAreGranted, LoadIsForRoute

LEMMA FlowsAre ==
  /\ "load" \in Flows /\ "stale" \in Flows /\ "refresh" \in Flows /\ "signIn" \in Flows
  /\ "signOut" \in Flows /\ "end" \in Flows /\ "exit" \in Flows /\ "expire" \in Flows
  /\ "begin" \in Flows /\ "write" \in Flows
BY DEF Flows

LEMMA RequestIsSound ==
  ASSUME NEW S, NEW t, NEW f \in Flows, NEW c, Honest(S, t), DOMAIN c = CallFields
  PROVE  /\ Honest(S, request(t, f, c))
         /\ request(t, f, c).state = t.state
         /\ f = "load" => (SameContext(c.route, t.route) => LoadIsForRoute(request(t, f, c)))
         /\ f # "load" => (LoadIsForRoute(t) => LoadIsForRoute(request(t, f, c)))
<1> DEFINE d == [c EXCEPT !.header = t.header, !.answer = None]
           u == request(t, f, c)
<1>1. DOMAIN d = CallFields /\ d.answer = None /\ d.route = c.route
  BY DEF CallFields
<1>2. u = [t EXCEPT !.calls = [t.calls EXCEPT ![f] = d]]
  BY DEF request
<1>3. DOMAIN t = Fields /\ DOMAIN t.calls = Flows
  BY DEF Honest, IsPage
<1>4. /\ DOMAIN u = Fields
      /\ u.state = t.state /\ u.route = t.route /\ u.holder = t.holder /\ u.access = t.access
      /\ u.calls = [t.calls EXCEPT ![f] = d]
  <2> HIDE DEF d
  <2> QED BY <1>2, <1>3 DEF Fields
<1>5. /\ DOMAIN u.calls = Flows /\ u.calls[f] = d
      /\ \A g \in Flows : g # f => u.calls[g] = t.calls[g]
  <2> HIDE DEF d, u
  <2> QED BY <1>3, <1>4
<1>6. Honest(S, u)
  <2> HIDE DEF d, u
  <2>1. IsPage(u)
    BY <1>1, <1>4, <1>5 DEF IsPage, Honest
  <2>2. AnswersAreGranted(S, u)
    BY <1>1, <1>5 DEF AnswersAreGranted, Honest
  <2> QED
    BY <1>4, <2>1, <2>2 DEF Honest
<1>7. /\ f = "load" => (SameContext(c.route, t.route) => LoadIsForRoute(u))
      /\ f # "load" => (LoadIsForRoute(t) => LoadIsForRoute(u))
  <2> HIDE DEF d, u
  <2> QED BY <1>1, <1>4, <1>5, FlowsAre DEF LoadIsForRoute
<1> QED
  BY <1>4, <1>6, <1>7

LEMMA DoneIsSound ==
  ASSUME NEW S, NEW t, NEW f \in Flows, Sound(S, t)
  PROVE  /\ Sound(S, Done(t, f)) /\ Done(t, f).state = t.state
         /\ Done(t, f).route = t.route
<1> DEFINE u == Done(t, f)
<1>1. DOMAIN t = Fields /\ DOMAIN t.calls = Flows
  BY DEF Sound, Honest, IsPage
<1>2. /\ DOMAIN u = Fields
      /\ u.state = t.state /\ u.route = t.route /\ u.holder = t.holder /\ u.access = t.access
      /\ u.calls = [t.calls EXCEPT ![f] = None]
  BY <1>1 DEF Done, Fields
<1>3. /\ DOMAIN u.calls = Flows /\ u.calls[f] = None
      /\ \A g \in Flows : g # f => u.calls[g] = t.calls[g]
  <2> HIDE DEF u
  <2> QED BY <1>1, <1>2
<1>4. Sound(S, u)
  <2> HIDE DEF u
  <2> QED
    BY <1>2, <1>3, FlowsAre DEF Sound, Honest, IsPage, AnswersAreGranted, LoadIsForRoute
<1> QED
  BY <1>2, <1>3, <1>4

LEMMA DoneLeaves ==
  ASSUME NEW S, NEW t, Sound(S, t), NEW f \in Flows, NEW g \in Flows \ {f}
  PROVE  Done(t, f).calls[g] = t.calls[g]
<1>1. DOMAIN t = Fields /\ DOMAIN t.calls = Flows
  BY DEF Sound, Honest, IsPage
<1>2. Done(t, f).calls = [t.calls EXCEPT ![f] = None]
  BY <1>1 DEF Done, Fields
<1> QED
  BY <1>1, <1>2

(* A flow has asked for something; its call was made for route r.           *)
Asks(S, t, u, f, r) ==
  /\ Honest(S, u) /\ u.state = t.state
  /\ f = "load" => (SameContext(r, t.route) => LoadIsForRoute(u))
  /\ f # "load" => (LoadIsForRoute(t) => LoadIsForRoute(u))

LEMMA WorkspaceIsAsked ==
  ASSUME NEW S, NEW t, NEW f \in Flows, NEW c, Honest(S, t), DOMAIN c = CallFields,
         NEW b, NEW p
  PROVE  Asks(S, t, getWorkspace(t, f, c, b, p), f, c.route)
<1> DEFINE d == [c EXCEPT !.step = "workspace", !.business = b, !.place = p]
<1>1. DOMAIN d = CallFields /\ d.route = c.route
  BY DEF CallFields
<1>2. getWorkspace(t, f, c, b, p) = request(t, f, d)
  BY DEF getWorkspace
<1> HIDE DEF d
<1> QED
  BY <1>1, <1>2, RequestIsSound DEF Asks

LEMMA SupportIsAsked ==
  ASSUME NEW S, NEW t, NEW f \in Flows, NEW c, Honest(S, t), DOMAIN c = CallFields
  PROVE  Asks(S, t, getActiveSupportSession(t, f, c), f, c.route)
<1> DEFINE d == [c EXCEPT !.step = "active"]
           u == [t EXCEPT !.header = 0]
<1>1. DOMAIN d = CallFields /\ d.route = c.route
  BY DEF CallFields
<1>2. /\ DOMAIN u = Fields /\ u.calls = t.calls /\ u.holder = t.holder
      /\ u.access = t.access /\ u.route = t.route /\ u.state = t.state
  BY DEF Honest, IsPage, Fields
<1>3. getActiveSupportSession(t, f, c) = request(u, f, d)
  BY DEF getActiveSupportSession
<1> HIDE DEF d, u
<1>4. Honest(S, u) /\ (LoadIsForRoute(t) => LoadIsForRoute(u))
  BY <1>2, OtherFields
<1> QED
  BY <1>1, <1>2, <1>3, <1>4, RequestIsSound DEF Asks

LEMMA CallHasFields ==
  ASSUME NEW t, NEW step
  PROVE  DOMAIN Call(t, step) = CallFields /\ Call(t, step).route = t.route
BY DEF Call, CallFields

LEMMA LoadWorkspaceAsks ==
  ASSUME NEW S, NEW t, NEW f \in Flows, NEW c, Honest(S, t), DOMAIN c = CallFields,
         NEW supported
  PROVE  Asks(S, t, LoadWorkspace(t, f, c, supported), f, c.route)
<1> DEFINE d == [c EXCEPT !.account = None]
           b == workspaceBusinessForSession(c.route, c.account, supported)
           p == IF c.route.business \in {None, b} THEN c.route.place ELSE None
<1>1. DOMAIN d = CallFields /\ d.route = c.route
  BY DEF CallFields
<1>2. LoadWorkspace(t, f, c, supported) = getWorkspace(t, f, d, b, p)
  BY DEF LoadWorkspace
<1> HIDE DEF d, b, p
<1>3. Asks(S, t, getWorkspace(t, f, d, b, p), f, d.route)
  BY <1>1, WorkspaceIsAsked
<1> QED
  BY <1>1, <1>2, <1>3

LEMMA IdentifiedAsks ==
  ASSUME NEW S, NEW t, NEW f \in Flows, NEW c, Honest(S, t), DOMAIN c = CallFields, NEW a
  PROVE  Asks(S, t, Identified(t, f, c, a), f, c.route)
<1> DEFINE d == [c EXCEPT !.account = a]
           u == [t EXCEPT !.session = a]
<1>1. DOMAIN d = CallFields /\ d.route = c.route
  BY DEF CallFields
<1>2. /\ DOMAIN u = Fields /\ u.calls = t.calls /\ u.holder = t.holder
      /\ u.access = t.access /\ u.route = t.route /\ u.state = t.state
  BY DEF Honest, IsPage, Fields
<1>3. Identified(t, f, c, a) = IF a \in Agents THEN getActiveSupportSession(u, f, d)
                               ELSE LoadWorkspace(u, f, d, None)
  BY DEF Identified
<1> HIDE DEF d, u
<1>4. Honest(S, u) /\ (LoadIsForRoute(t) => LoadIsForRoute(u))
  BY <1>2, OtherFields
<1>5. Asks(S, u, Identified(t, f, c, a), f, d.route)
  BY <1>1, <1>3, <1>4, SupportIsAsked, LoadWorkspaceAsks
<1> QED
  BY <1>1, <1>2, <1>4, <1>5 DEF Asks

LEMMA LoadsIsSound ==
  ASSUME NEW S, NEW t, Honest(S, t)
  PROVE  Sound(S, Loads(t)) /\ Loads(t).state = "loading"
<1> DEFINE u == [Leaves(t) EXCEPT !.state = "loading", !.calls["stale"] = t.calls["load"]]
           c == Call(t, "session")
<1>1. DOMAIN t = Fields /\ DOMAIN t.calls = Flows
  BY DEF Honest, IsPage
<1>2. /\ DOMAIN u = Fields /\ u.state = "loading" /\ u.route = t.route
      /\ u.holder = t.holder /\ u.access = t.access
      /\ u.calls = [t.calls EXCEPT !["refresh"] = None, !["stale"] = t.calls["load"]]
  BY <1>1 DEF Leaves, Fields
<1>3. /\ DOMAIN u.calls = Flows
      /\ \A f \in Flows : u.calls[f] \in {None, t.calls["load"], t.calls[f]}
  <2> HIDE DEF u
  <2> QED BY <1>1, <1>2
<1>4. DOMAIN c = CallFields /\ c.route = t.route
  BY CallHasFields
<1>5. Loads(t) = IF t.session # None THEN Identified(u, "load", c, t.session)
                 ELSE request(u, "load", c)
  BY DEF Loads
<1> HIDE DEF u, c
<1>6. Honest(S, u)
  BY <1>2, <1>3, FlowsAre DEF Honest, IsPage, AnswersAreGranted
<1>7. Asks(S, u, Loads(t), "load", c.route)
  <2>1. Asks(S, u, Identified(u, "load", c, t.session), "load", c.route)
    BY <1>4, <1>6, FlowsAre, IdentifiedAsks
  <2>2. Asks(S, u, request(u, "load", c), "load", c.route)
    <3>1. ASSUME NEW f \in Flows PROVE Asks(S, u, request(u, f, c), f, c.route)
      BY <1>4, <1>6, RequestIsSound DEF Asks
    <3> QED
      BY <3>1, FlowsAre
  <2> QED
    BY <1>5, <2>1, <2>2
<1> QED
  BY <1>2, <1>4, <1>7 DEF Asks, Sound, SameContext

(* A page that goes on from t: it opens a workspace only by a new load.     *)
Follows(S, t, u) == Sound(S, u) /\ (u.state = t.state \/ u.state \in Pending)

LEMMA NavigateIsSound ==
  ASSUME NEW S, NEW t, Sound(S, t), NEW r
  PROVE  /\ Follows(S, t, navigate(t, r))
         /\ navigate(t, r).state = t.state =>
              \/ t.state = "loading"
              \/ navigate(t, r) = [t EXCEPT !.route = r]
<1> DEFINE u == [t EXCEPT !.route = r]
<1>1. /\ DOMAIN u = Fields /\ u.calls = t.calls /\ u.holder = t.holder
      /\ u.access = t.access /\ u.route = r /\ u.state = t.state
  BY DEF Sound, Honest, IsPage, Fields
<1>2. navigate(t, r) = IF SameContext(t.route, r) THEN u ELSE Loads(u)
  BY DEF navigate
<1> HIDE DEF u
<1>3. Honest(S, u)
  BY <1>1, OtherFields DEF Sound
<1>4. CASE SameContext(t.route, r)
  <2>1. LoadIsForRoute(u)
    BY <1>1, <1>4 DEF Sound, LoadIsForRoute, SameContext
  <2> QED
    BY <1>1, <1>2, <1>3, <1>4, <2>1 DEF Follows, Sound, u
<1>5. CASE ~SameContext(t.route, r)
  BY <1>1, <1>2, <1>3, <1>5, LoadsIsSound DEF Follows, Pending
<1> QED
  BY <1>4, <1>5

LEMMA AppliedIsSound ==
  ASSUME NEW S, NEW t, Sound(S, t), NEW x, Granted(S, x.account, x.access)
  PROVE  /\ Sound(S, applyWorkspace(t, x)) /\ applyWorkspace(t, x).state = t.state
         /\ applyWorkspace(t, x).calls = t.calls
         /\ applyWorkspace(t, x).route = t.route
<1> DEFINE u == applyWorkspace(t, x)
<1>1. /\ DOMAIN u = Fields /\ u.calls = t.calls /\ u.holder = x.account
      /\ u.access = x.access /\ u.route = t.route /\ u.state = t.state
  BY DEF Sound, Honest, IsPage, Fields, applyWorkspace
<1> HIDE DEF u
<1> QED
  BY <1>1 DEF Sound, Honest, IsPage, AnswersAreGranted, LoadIsForRoute, u

LEMMA EndIsSound ==
  ASSUME NEW S, NEW t, NEW f \in Flows \ {"load"}, Sound(S, t), NEW id
  PROVE  Sound(S, endSupportSession(t, f, id)) /\ endSupportSession(t, f, id).state = t.state
<1> DEFINE u == [t EXCEPT !.header = IF @ = id THEN 0 ELSE @]
           c == Call(t, "end")
           d == [c EXCEPT !.id = id, !.restore = t.header = id]
<1>1. /\ DOMAIN u = Fields /\ u.calls = t.calls /\ u.holder = t.holder
      /\ u.access = t.access /\ u.route = t.route /\ u.state = t.state
  BY DEF Sound, Honest, IsPage, Fields
<1>2. DOMAIN d = CallFields
  BY CallHasFields
<1>3. endSupportSession(t, f, id) = request(u, f, d)
  BY DEF endSupportSession
<1> HIDE DEF u, d
<1>4. Sound(S, u)
  BY <1>1, OtherFields DEF Sound
<1> QED
  BY <1>1, <1>2, <1>3, <1>4, RequestIsSound DEF Sound

(* A step of the page: what opens the workspace leaves the stale load.      *)
Steps(S, t, u) ==
  /\ Sound(S, u)
  /\ u.state = "authenticated" /\ t.state # "authenticated" =>
       u.calls["stale"] = t.calls["stale"]

LEMMA FollowsSteps ==
  ASSUME NEW S, NEW t, NEW u, Follows(S, t, u)
  PROVE  Steps(S, t, u)
BY DEF Follows, Steps, Pending

LEMMA FollowsOn ==
  ASSUME NEW S, NEW t, NEW u, NEW v, Follows(S, t, u), Follows(S, u, v)
  PROVE  Follows(S, t, v)
BY DEF Follows

(* Leaving what is held and awaited alone.                                  *)
LEMMA SameIsSound ==
  ASSUME NEW S, NEW t, NEW u, Sound(S, t), DOMAIN u = Fields,
         u.calls = t.calls, u.holder = t.holder, u.access = t.access, u.route = t.route
  PROVE  Sound(S, u)
BY OtherFields DEF Sound

LEMMA BlankIsSound ==
  ASSUME NEW S, NEW t, NEW u, Sound(S, t), DOMAIN u = Fields,
         u.calls = t.calls, u.access = None, u.route = t.route
  PROVE  Sound(S, u)
BY DEF Sound, Honest, IsPage, AnswersAreGranted, LoadIsForRoute, Granted

LEMMA PageIsSound ==
  ASSUME NEW S, NEW r
  PROVE  Sound(S, Page(r)) /\ DOMAIN Page(r) = Fields
<1>1. DOMAIN Page(r) = Fields
  BY DEF Page, Fields
<1>2. /\ DOMAIN Page(r).calls = Flows
      /\ \A f \in Flows : Page(r).calls[f] = None
      /\ Page(r).access = None
  BY DEF Page, Flows
<1> QED
  BY <1>1, <1>2, FlowsAre
     DEF Sound, Honest, IsPage, AnswersAreGranted, LoadIsForRoute, Granted

LEMMA AnswerIsGranted ==
  ASSUME NEW S, Sound(S, tab), NEW f \in Flows, NEW step, Answered(f, step)
  PROVE  /\ DOMAIN tab.calls[f] = CallFields
         /\ Granted(S, tab.calls[f].answer.account, tab.calls[f].answer.access)
BY DEF Sound, Honest, IsPage, AnswersAreGranted, Answered

LEMMA AskedIsSound ==
  ASSUME NEW S, Sound(S, tab), NEW u, NEW f \in Flows, NEW t, Sound(S, t),
         t.route = tab.route, tab.calls[f] # None, t.state = tab.state,
         Asks(S, t, u, f, tab.calls[f].route)
  PROVE  Follows(S, tab, u)
BY DEF Asks, Sound, Follows, LoadIsForRoute

LEMMA RequestFollows ==
  ASSUME NEW S, Sound(S, tab), NEW t, Sound(S, t), t.state = tab.state,
         NEW f \in Flows \ {"load"}, NEW c, DOMAIN c = CallFields
  PROVE  Follows(S, tab, request(t, f, c))
BY RequestIsSound DEF Sound, Follows

LEMMA LoadFailsIsSound ==
  ASSUME NEW S, Sound(S, tab), NEW f \in {"load", "stale"}, NEW c, NEW status
  PROVE  Follows(S, tab, LoadFails(f, c, status))
<1> DEFINE u == Done(tab, f)
<1>0. f \in Flows
  BY FlowsAre
<1>1. Sound(S, u) /\ u.state = tab.state
  BY <1>0, DoneIsSound
<1>2. Follows(S, tab, navigate(u, c.route))
  BY <1>1, NavigateIsSound DEF Follows
<1>3. Follows(S, tab, [u EXCEPT !.state = "error"])
  <2> DEFINE v == [u EXCEPT !.state = "error"]
  <2>1. /\ DOMAIN v = Fields /\ v.calls = u.calls /\ v.holder = u.holder
        /\ v.access = u.access /\ v.route = u.route /\ v.state = "error"
    <3> HIDE DEF u
    <3> QED BY <1>1 DEF Sound, Honest, IsPage, Fields
  <2>2. Follows(S, tab, v)
    <3> HIDE DEF u, v
    <3> QED BY <1>1, <2>1, SameIsSound DEF Follows, Pending
  <2> QED BY <2>2
<1>4. Follows(S, tab, [Leaves(u) EXCEPT !.header = 0, !.session = None,
                                        !.state = "anonymous"])
  <2> DEFINE l == Leaves(u)
             v == [l EXCEPT !.header = 0, !.session = None, !.state = "anonymous"]
  <2>1. l = Done(u, "refresh")
    BY DEF Leaves, Done
  <2>2. Sound(S, l)
    <3> HIDE DEF u, l
    <3> QED BY <1>1, <2>1, DoneIsSound, FlowsAre
  <2>3. /\ DOMAIN v = Fields /\ v.calls = l.calls /\ v.holder = l.holder
        /\ v.access = l.access /\ v.route = l.route /\ v.state = "anonymous"
    <3> HIDE DEF l
    <3> QED BY <2>2 DEF Sound, Honest, IsPage, Fields
  <2>4. Follows(S, tab, v)
    <3> HIDE DEF l, v
    <3> QED BY <2>2, <2>3, SameIsSound DEF Follows, Pending
  <2> QED BY <2>4
<1>5. LoadFails(f, c, status) \in
        {u, [Leaves(u) EXCEPT !.header = 0, !.session = None, !.state = "anonymous"],
         navigate(u, c.route), [u EXCEPT !.state = "error"]}
  <2> HIDE DEF u
  <2> QED BY DEF LoadFails, u
<1> HIDE DEF u
<1> QED
  BY <1>1, <1>2, <1>3, <1>4, <1>5 DEF Follows

LEMMA LoadStepIsSound ==
  ASSUME NEW S, Sound(S, tab), NEW f \in {"load", "stale"}, LoadStep(f)
  PROVE  Steps(S, tab, tab')
<1> DEFINE c == tab.calls[f]
           x == c.answer
<1>0. f \in Flows
  BY FlowsAre
<1>1. CASE x.status # "ok" /\ tab' = LoadFails(f, c, x.status)
  <2> HIDE DEF c
  <2> QED BY <1>1, LoadFailsIsSound, FollowsSteps
<1>2. CASE /\ Answered(f, "session") /\ tab' = Identified(tab, f, c, x.account)
  <2>1. DOMAIN c = CallFields /\ c # None
    BY <1>0, <1>2, AnswerIsGranted DEF Answered
  <2>2. Asks(S, tab, Identified(tab, f, c, x.account), f, c.route)
    <3> HIDE DEF c
    <3> QED BY <1>0, <2>1, IdentifiedAsks DEF Sound
  <2> QED
    BY <1>0, <1>2, <2>1, <2>2, AskedIsSound, FollowsSteps
<1>3. ASSUME NEW h, NEW supported, Answered(f, "active"),
             tab' = LoadWorkspace([tab EXCEPT !.support = x.id, !.header = h], f, c, supported)
      PROVE  Steps(S, tab, tab')
  <2> DEFINE t == [tab EXCEPT !.support = x.id, !.header = h]
  <2>1. DOMAIN c = CallFields /\ c # None
    BY <1>0, <1>3, AnswerIsGranted DEF Answered
  <2>2. /\ DOMAIN t = Fields /\ t.calls = tab.calls /\ t.holder = tab.holder
        /\ t.access = tab.access /\ t.route = tab.route /\ t.state = tab.state
    BY DEF Sound, Honest, IsPage, Fields
  <2>3. tab' = LoadWorkspace(t, f, c, supported)
    BY <1>3
  <2> HIDE DEF t
  <2>4. Sound(S, t)
    BY <2>2, SameIsSound
  <2>5. Asks(S, t, LoadWorkspace(t, f, c, supported), f, c.route)
    <3> HIDE DEF c
    <3> QED BY <1>0, <2>1, <2>4, LoadWorkspaceAsks DEF Sound
  <2> QED
    BY <1>0, <2>1, <2>2, <2>3, <2>4, <2>5, AskedIsSound, FollowsSteps
<1>4. CASE tab' = Done(tab, f)
  BY <1>0, <1>4, DoneIsSound, FollowsSteps DEF Follows
<1>5. CASE /\ Answered(f, "workspace") /\ f = "load"
           /\ tab' = [applyWorkspace(Done(tab, f), x) EXCEPT !.state = "authenticated"]
  <2> DEFINE d == Done(tab, f)
             t == applyWorkspace(d, x)
  <2>1. Granted(S, x.account, x.access)
    BY <1>0, <1>5, AnswerIsGranted
  <2>2. Sound(S, d) /\ d.calls["stale"] = tab.calls["stale"]
    <3>1. Sound(S, d)
      BY <1>0, DoneIsSound
    <3>2. d.calls["stale"] = tab.calls["stale"]
      <4>1. "stale" \in Flows \ {f}
        BY <1>5, FlowsAre
      <4> QED BY <1>0, <4>1, DoneLeaves
    <3> QED BY <3>1, <3>2
  <2>3. Sound(S, t) /\ t.calls = d.calls
    <3> HIDE DEF d, c, x
    <3> QED BY <2>1, <2>2, AppliedIsSound
  <2>4. /\ DOMAIN tab' = Fields /\ tab'.calls = t.calls /\ tab'.holder = t.holder
        /\ tab'.access = t.access /\ tab'.route = t.route
    <3>1. tab' = [t EXCEPT !.state = "authenticated"]
      BY <1>5
    <3> HIDE DEF t
    <3> QED BY <2>3, <3>1 DEF Sound, Honest, IsPage, Fields
  <2> HIDE DEF t, d, x, c
  <2> QED
    BY <2>2, <2>3, <2>4, SameIsSound DEF Steps
<1>6. CASE /\ Answered(f, "session")
           /\ tab' = IF x.status = "ok" THEN Identified(tab, f, c, x.account)
                     ELSE LoadFails(f, c, x.status)
  <2> HIDE DEF x
  <2> QED BY <1>1, <1>2, <1>6
<1>7. CASE /\ Answered(f, "active")
           /\ tab' = IF x.status # "ok" THEN LoadFails(f, c, x.status)
                     ELSE LoadWorkspace([tab EXCEPT !.support = x.id,
                                                    !.header = IF x.id = 0 THEN @ ELSE x.id],
                            f, c, IF x.id = 0 THEN None ELSE sessions[x.id].business)
  <2> HIDE DEF x
  <2> QED BY <1>1, <1>3, <1>7
<1>8. CASE /\ Answered(f, "workspace")
           /\ tab' = CASE x.status # "ok" -> LoadFails(f, c, x.status)
                       [] x.status = "ok" /\ f = "stale" -> Done(tab, f)
                       [] OTHER -> [applyWorkspace(Done(tab, f), x)
                                      EXCEPT !.state = "authenticated"]
  <2> HIDE DEF x
  <2> QED BY <1>1, <1>4, <1>5, <1>8
<1>9. \/ /\ Answered(f, "session")
         /\ tab' = IF x.status = "ok" THEN Identified(tab, f, c, x.account)
                   ELSE LoadFails(f, c, x.status)
      \/ /\ Answered(f, "active")
         /\ tab' = IF x.status # "ok" THEN LoadFails(f, c, x.status)
                   ELSE LoadWorkspace([tab EXCEPT !.support = x.id,
                                                  !.header = IF x.id = 0 THEN @ ELSE x.id],
                          f, c, IF x.id = 0 THEN None ELSE sessions[x.id].business)
      \/ /\ Answered(f, "workspace")
         /\ tab' = CASE x.status # "ok" -> LoadFails(f, c, x.status)
                     [] x.status = "ok" /\ f = "stale" -> Done(tab, f)
                     [] OTHER -> [applyWorkspace(Done(tab, f), x)
                                    EXCEPT !.state = "authenticated"]
  BY DEF LoadStep, Resume
<1> QED
  BY <1>6, <1>7, <1>8, <1>9

(* All but what is held, awaited and opened.                                *)
Kept(S, t, u) == Sound(S, u) /\ u.calls = t.calls /\ u.route = t.route /\ u.state = t.state

LEMMA OthersAreKept ==
  ASSUME NEW S, NEW t, Sound(S, t), NEW u, DOMAIN u = Fields,
         \A k \in {"calls", "holder", "access", "route", "state"} : u[k] = t[k]
  PROVE  Kept(S, t, u)
<1>1. /\ u.calls = t.calls /\ u.holder = t.holder /\ u.access = t.access
      /\ u.route = t.route /\ u.state = t.state
  OBVIOUS
<1> QED
  BY <1>1, SameIsSound DEF Kept

LEMMA FieldsAreKept ==
  ASSUME NEW S, NEW t, Sound(S, t), NEW v
  PROVE  /\ Kept(S, t, [t EXCEPT !.header = v])
         /\ Kept(S, t, [t EXCEPT !.ending = v])
         /\ Kept(S, t, [t EXCEPT !.support = v])
         /\ Kept(S, t, [t EXCEPT !.refresh = v])
<1>1. DOMAIN t = Fields
  BY DEF Sound, Honest, IsPage
<1>2. Kept(S, t, [t EXCEPT !.header = v])
  BY <1>1, OthersAreKept DEF Fields
<1>3. Kept(S, t, [t EXCEPT !.ending = v])
  BY <1>1, OthersAreKept DEF Fields
<1>4. Kept(S, t, [t EXCEPT !.support = v])
  BY <1>1, OthersAreKept DEF Fields
<1>5. Kept(S, t, [t EXCEPT !.refresh = v])
  BY <1>1, OthersAreKept DEF Fields
<1> QED
  BY <1>2, <1>3, <1>4, <1>5

LEMMA LeftIsSound ==
  ASSUME NEW S, NEW h
  PROVE  Follows(S, tab, Left(h))
<1> DEFINE u == Page(tab.route)
           v == [u EXCEPT !.state = "left", !.header = h]
<1>1. Sound(S, u) /\ DOMAIN u = Fields
  BY PageIsSound
<1>2. /\ DOMAIN v = Fields /\ v.calls = u.calls /\ v.holder = u.holder
      /\ v.access = u.access /\ v.route = u.route /\ v.state = "left"
  <2> HIDE DEF u
  <2> QED BY <1>1 DEF Fields
<1>3. Follows(S, tab, v)
  <2> HIDE DEF u, v
  <2> QED BY <1>1, <1>2, SameIsSound DEF Follows, Pending
<1> QED
  BY <1>3 DEF Left

LEMMA OpenIsSound ==
  ASSUME NEW S, NEW r, NEW b, NEW h
  PROVE  /\ Sound(S, Loads([Page(r) EXCEPT !.refresh = b, !.header = h]))
         /\ Loads([Page(r) EXCEPT !.refresh = b, !.header = h]).state = "loading"
<1> DEFINE u == Page(r)
           v == [u EXCEPT !.refresh = b, !.header = h]
<1>1. Sound(S, u) /\ DOMAIN u = Fields
  BY PageIsSound
<1>2. /\ DOMAIN v = Fields /\ v.calls = u.calls /\ v.holder = u.holder
      /\ v.access = u.access /\ v.route = u.route
  <2> HIDE DEF u
  <2> QED BY <1>1 DEF Fields
<1>3. Sound(S, v)
  <2> HIDE DEF u, v
  <2> QED BY <1>1, <1>2, SameIsSound
<1>4. Sound(S, Loads(v)) /\ Loads(v).state = "loading"
  <2> HIDE DEF v
  <2> QED BY <1>3, LoadsIsSound DEF Sound
<1> QED
  BY <1>4

LEMMA ActsAreSound ==
  ASSUME NEW S, Sound(S, tab), Acts
  PROVE  Steps(S, tab, tab')
<1>1. ASSUME NEW r, FollowLink(r) PROVE Steps(S, tab, tab')
  BY <1>1, NavigateIsSound, FollowsSteps DEF FollowLink, Click
<1>2. ASSUME NEW r, NEW back, Open(r, back) PROVE Steps(S, tab, tab')
  <2>1. PICK h : tab' = Loads([Page(r) EXCEPT !.refresh = back, !.header = h])
    BY <1>2 DEF Open, Click
  <2>2. Sound(S, tab') /\ tab'.state = "loading"
    BY <2>1, OpenIsSound
  <2> QED
    BY <2>2 DEF Steps
<1>3. ASSUME NEW a, SignIn(a) PROVE Steps(S, tab, tab')
  <2> DEFINE u == [tab EXCEPT !.header = 0]
             d == Call(tab, "login")
             c == [d EXCEPT !.account = a]
  <2>1. tab' = request(u, "signIn", c)
    BY <1>3 DEF SignIn, Click
  <2>2. Kept(S, tab, u)
    BY FieldsAreKept
  <2>3. DOMAIN c = CallFields
    <3>1. DOMAIN d = CallFields
      BY CallHasFields
    <3> HIDE DEF d
    <3> QED BY <3>1
  <2>4. "signIn" \in Flows \ {"load"}
    BY FlowsAre
  <2>5. Follows(S, tab, request(u, "signIn", c))
    <3> HIDE DEF u, c
    <3> QED BY <2>2, <2>3, <2>4, RequestFollows DEF Kept
  <2> QED
    BY <2>1, <2>5, FollowsSteps
<1>4. ASSUME NEW f \in Flows \ {"load"}, NEW c, DOMAIN c = CallFields,
             tab' = request(tab, f, c)
      PROVE  Steps(S, tab, tab')
  BY <1>4, RequestFollows, FollowsSteps
<1>5. ASSUME NEW b, NEW s, BeginSupport(b, s) PROVE Steps(S, tab, tab')
  <2> DEFINE d == Call(tab, "start")
             c == [d EXCEPT !.business = b, !.scope = s]
  <2>1. tab' = request(tab, "begin", c)
    BY <1>5 DEF BeginSupport, Click
  <2>2. DOMAIN c = CallFields
    <3>1. DOMAIN d = CallFields
      BY CallHasFields
    <3> HIDE DEF d
    <3> QED BY <3>1
  <2>3. "begin" \in Flows \ {"load"}
    BY FlowsAre
  <2> HIDE DEF c
  <2> QED
    BY <2>1, <2>2, <2>3, <1>4
<1>6. ASSUME NEW p, Write(p) PROVE Steps(S, tab, tab')
  <2> DEFINE d == Call(tab, "write")
             c == [d EXCEPT !.business = Shown(tab), !.place = p]
  <2>1. tab' = request(tab, "write", c)
    BY <1>6 DEF Write, Click
  <2>2. DOMAIN c = CallFields
    <3>1. DOMAIN d = CallFields
      BY CallHasFields
    <3> HIDE DEF d
    <3> QED BY <3>1
  <2>3. "write" \in Flows \ {"load"}
    BY FlowsAre
  <2> HIDE DEF c
  <2> QED
    BY <2>1, <2>2, <2>3, <1>4
<1>7. ASSUME NEW f \in Flows \ {"load"}, NEW t, Kept(S, tab, t),
             tab' = endSupportSession(t, f, tab.support)
      PROVE  Steps(S, tab, tab')
  BY <1>7, EndIsSound, FollowsSteps DEF Kept, Follows
<1>8. Kept(S, tab, tab)
  BY DEF Kept
<1>9. CASE SignOut
  <2>1. "signOut" \in Flows \ {"load"} /\ DOMAIN Call(tab, "logout") = CallFields
    BY FlowsAre, CallHasFields
  <2>2. \/ tab' = endSupportSession(tab, "signOut", tab.support)
        \/ tab' = request(tab, "signOut", Call(tab, "logout"))
    BY <1>9 DEF SignOut, Click
  <2> QED
    BY <2>1, <2>2, <1>4, <1>7, <1>8
<1>10. CASE EndSupport
  <2>1. "end" \in Flows \ {"load"} /\ Kept(S, tab, [tab EXCEPT !.ending = TRUE])
    BY FlowsAre, FieldsAreKept
  <2>2. tab' = endSupportSession([tab EXCEPT !.ending = TRUE], "end", tab.support)
    BY <1>10 DEF EndSupport, Click
  <2> QED
    BY <2>1, <2>2, <1>7
<1>11. CASE Exit
  <2>1. "exit" \in Flows \ {"load"}
    BY FlowsAre
  <2>2. \/ tab' = endSupportSession(tab, "exit", tab.support)
        \/ tab' = Left(tab.header)
    BY <1>11 DEF Exit, Click
  <2> QED
    BY <2>1, <2>2, <1>7, <1>8, LeftIsSound, FollowsSteps
<1> QED
  BY <1>1, <1>2, <1>3, <1>5, <1>6, <1>9, <1>10, <1>11 DEF Acts

LEMMA EndFailedIsKept ==
  ASSUME NEW S, NEW t, Sound(S, t), NEW c
  PROVE  Kept(S, t, EndFailed(t, c))
BY FieldsAreKept DEF EndFailed

LEMMA KeptFollows ==
  ASSUME NEW S, NEW t, NEW u, Kept(S, t, u)
  PROVE  Follows(S, t, u)
BY DEF Kept, Follows

LEMMA DoneFollows ==
  ASSUME NEW S, NEW t, Sound(S, t), NEW f \in Flows
  PROVE  Follows(S, t, Done(t, f))
BY DoneIsSound DEF Follows

LEMMA AppliedFollows ==
  ASSUME NEW S, Sound(S, tab), NEW f \in Flows, NEW step, Answered(f, step)
  PROVE  Follows(S, tab, applyWorkspace(Done(tab, f), tab.calls[f].answer))
<1> DEFINE d == Done(tab, f)
           x == tab.calls[f].answer
<1>1. Granted(S, x.account, x.access)
  BY AnswerIsGranted
<1>2. Sound(S, d) /\ d.state = tab.state
  BY DoneIsSound
<1> HIDE DEF d, x
<1>3. Sound(S, applyWorkspace(d, x)) /\ applyWorkspace(d, x).state = d.state
  BY <1>1, <1>2, AppliedIsSound
<1> QED
  BY <1>2, <1>3 DEF Follows, d, x

LEMMA WorkspaceFollows ==
  ASSUME NEW S, NEW t, Sound(S, t), NEW f \in Flows \ {"load"}, NEW c,
         DOMAIN c = CallFields, NEW b, NEW p
  PROVE  Follows(S, t, getWorkspace(t, f, c, b, p))
BY WorkspaceIsAsked DEF Asks, Sound, Follows

LEMMA RequestGoesOn ==
  ASSUME NEW S, NEW t, Sound(S, t), NEW f \in Flows \ {"load"}, NEW c,
         DOMAIN c = CallFields
  PROVE  Follows(S, t, request(t, f, c))
BY RequestIsSound DEF Sound, Follows

LEMMA EndFollows ==
  ASSUME NEW S, NEW t, NEW f \in Flows \ {"load"}, Sound(S, t), NEW id
  PROVE  Follows(S, t, endSupportSession(t, f, id))
BY EndIsSound DEF Follows

(* A page that is signed in goes on to its first route, or loads it.        *)
LEMMA SignedInIsSound ==
  ASSUME NEW S, Sound(S, tab), NEW step, Answered("signIn", step)
  PROVE  Steps(S, tab, SignedIn(tab.calls["signIn"], tab.calls["signIn"].answer))
<1> DEFINE c == tab.calls["signIn"]
           x == c.answer
           d == Done(tab, "signIn")
           u == applyWorkspace(d, x)
           v == [u EXCEPT !.state = "authenticated"]
<1>0. "signIn" \in Flows /\ "stale" \in Flows \ {"signIn"}
  BY FlowsAre
<1>1. Granted(S, x.account, x.access)
  BY <1>0, AnswerIsGranted
<1>2. Sound(S, d) /\ d.calls["stale"] = tab.calls["stale"]
  <2>1. Sound(S, d)
    BY <1>0, DoneIsSound
  <2>2. d.calls["stale"] = tab.calls["stale"]
    BY <1>0, DoneLeaves
  <2> QED
    BY <2>1, <2>2
<1>3. Sound(S, u) /\ u.calls = d.calls
  <2> HIDE DEF d, c, x
  <2> QED BY <1>1, <1>2, AppliedIsSound
<1>4. /\ DOMAIN v = Fields /\ v.calls = u.calls /\ v.holder = u.holder
      /\ v.access = u.access /\ v.route = u.route /\ v.state = "authenticated"
  <2> HIDE DEF u
  <2> QED BY <1>3 DEF Sound, Honest, IsPage, Fields
<1>5. Sound(S, v)
  <2> HIDE DEF u, v
  <2> QED BY <1>3, <1>4, SameIsSound
<1>6. PICK r : SignedIn(c, x) = navigate(v, r)
  BY DEF SignedIn
<1> HIDE DEF v, u, d, c, x
<1>7. Follows(S, v, navigate(v, r))
  BY <1>5, NavigateIsSound
<1>8. navigate(v, r).state = "authenticated" => navigate(v, r) = [v EXCEPT !.route = r]
  BY <1>4, <1>5, NavigateIsSound
<1>9. [v EXCEPT !.route = r].calls = v.calls
  BY <1>4 DEF Fields
<1>10. Steps(S, tab, SignedIn(c, x))
  BY <1>2, <1>3, <1>4, <1>6, <1>7, <1>8, <1>9 DEF Steps, Follows
<1> QED
  BY <1>10 DEF c, x

LEMMA SigningInIsSound ==
  ASSUME NEW S, Sound(S, tab), SigningIn
  PROVE  Steps(S, tab, tab')
<1> DEFINE c == tab.calls["signIn"]
           x == c.answer
<1>0. "signIn" \in Flows /\ "signIn" \in Flows \ {"load"} /\ "refresh" \in Flows
  BY FlowsAre
<1>1. CASE tab' = Done(tab, "signIn")
  BY <1>0, <1>1, DoneFollows, FollowsSteps
<1>2. CASE /\ Answered("signIn", "login")
           /\ tab' = request(tab, "signIn", [c EXCEPT !.step = "session"])
  <2> DEFINE d == [c EXCEPT !.step = "session"]
  <2>1. DOMAIN c = CallFields
    BY <1>0, <1>2, AnswerIsGranted
  <2>2. DOMAIN d = CallFields
    <3> HIDE DEF c
    <3> QED BY <2>1
  <2>3. tab' = request(tab, "signIn", d)
    BY <1>2
  <2> HIDE DEF d
  <2> QED
    BY <1>0, <2>2, <2>3, RequestGoesOn, FollowsSteps
<1>3. ASSUME NEW a, NEW b, NEW p, Answered("signIn", "session"),
             tab' = getWorkspace([Leaves(tab) EXCEPT !.session = a, !.state = "loading"],
                                 "signIn", c, b, p)
      PROVE  Steps(S, tab, tab')
  <2> DEFINE l == Leaves(tab)
             v == [l EXCEPT !.session = a, !.state = "loading"]
  <2>1. l = Done(tab, "refresh")
    BY DEF Leaves, Done
  <2>2. Sound(S, l)
    BY <1>0, <2>1, DoneIsSound
  <2>3. /\ DOMAIN v = Fields /\ v.calls = l.calls /\ v.holder = l.holder
        /\ v.access = l.access /\ v.route = l.route /\ v.state = "loading"
    <3> HIDE DEF l
    <3> QED BY <2>2 DEF Sound, Honest, IsPage, Fields
  <2>4. Sound(S, v)
    <3> HIDE DEF l, v
    <3> QED BY <2>2, <2>3, SameIsSound
  <2>5. DOMAIN c = CallFields
    BY <1>0, <1>3, AnswerIsGranted
  <2>6. tab' = getWorkspace(v, "signIn", c, b, p)
    BY <1>3
  <2> HIDE DEF l, v, c
  <2>7. Follows(S, v, tab')
    BY <1>0, <2>4, <2>5, <2>6, WorkspaceFollows
  <2> QED
    BY <2>3, <2>7 DEF Follows, Steps, Pending
<1>4. CASE tab' = [Done(tab, "signIn") EXCEPT !.state = "error"]
  <2> DEFINE u == Done(tab, "signIn")
  <2>1. Sound(S, u)
    BY <1>0, DoneIsSound
  <2>2. /\ DOMAIN tab' = Fields /\ tab'.calls = u.calls /\ tab'.holder = u.holder
        /\ tab'.access = u.access /\ tab'.route = u.route /\ tab'.state = "error"
    <3>1. tab' = [u EXCEPT !.state = "error"]
      BY <1>4
    <3> HIDE DEF u
    <3> QED BY <2>1, <3>1 DEF Sound, Honest, IsPage, Fields
  <2> HIDE DEF u
  <2> QED
    BY <2>1, <2>2, SameIsSound DEF Steps
<1>5. CASE Answered("signIn", "workspace") /\ tab' = SignedIn(c, x)
  BY <1>5, SignedInIsSound
<1>6. \/ tab' = Done(tab, "signIn")
      \/ /\ Answered("signIn", "login")
         /\ tab' = request(tab, "signIn", [c EXCEPT !.step = "session"])
      \/ /\ Answered("signIn", "session")
         /\ \E a, b, p :
              tab' = getWorkspace([Leaves(tab) EXCEPT !.session = a, !.state = "loading"],
                                  "signIn", c, b, p)
      \/ tab' = [Done(tab, "signIn") EXCEPT !.state = "error"]
      \/ Answered("signIn", "workspace") /\ tab' = SignedIn(c, x)
  BY DEF SigningIn, Resume
<1> HIDE DEF c, x
<1> QED
  BY <1>1, <1>2, <1>3, <1>4, <1>5, <1>6

LEMMA SigningOutIsSound ==
  ASSUME NEW S, Sound(S, tab), SigningOut
  PROVE  Steps(S, tab, tab')
<1> DEFINE c == tab.calls["signOut"]
           x == c.answer
<1>0. "signOut" \in Flows /\ "signOut" \in Flows \ {"load"} /\ "refresh" \in Flows
  BY FlowsAre
<1>1. ASSUME NEW t, Kept(S, tab, t), Answered("signOut", "end"),
             tab' = request(t, "signOut", [c EXCEPT !.step = "logout"])
      PROVE  Steps(S, tab, tab')
  <2> DEFINE d == [c EXCEPT !.step = "logout"]
  <2>1. DOMAIN c = CallFields
    BY <1>0, <1>1, AnswerIsGranted
  <2>2. DOMAIN d = CallFields
    <3> HIDE DEF c
    <3> QED BY <2>1
  <2>3. tab' = request(t, "signOut", d)
    BY <1>1
  <2> HIDE DEF d, c
  <2> QED
    BY <1>0, <1>1, <2>2, <2>3, RequestFollows, FollowsSteps DEF Kept
<1>2. CASE tab' = [Page(tab.route) EXCEPT !.state = "anonymous", !.refresh = tab.refresh,
                                          !.calls = Leaves(Done(tab, "signOut")).calls]
  <2> DEFINE d == Done(tab, "signOut")
             l == Leaves(d)
             u == Page(tab.route)
  <2>1. Sound(S, d) /\ d.route = tab.route
    BY <1>0, DoneIsSound
  <2>2. l = Done(d, "refresh")
    BY DEF Leaves, Done
  <2>3. Sound(S, l) /\ l.route = tab.route
    <3> HIDE DEF d, l
    <3> QED BY <1>0, <2>1, <2>2, DoneIsSound
  <2>4. DOMAIN u = Fields /\ u.access = None /\ u.route = tab.route
    BY PageIsSound DEF Page
  <2>5. tab' = [u EXCEPT !.state = "anonymous", !.refresh = tab.refresh, !.calls = l.calls]
    BY <1>2
  <2>6. /\ DOMAIN tab' = Fields /\ tab'.calls = l.calls /\ tab'.access = None
        /\ tab'.route = l.route /\ tab'.state = "anonymous"
    <3> HIDE DEF u, l
    <3> QED BY <2>3, <2>4, <2>5 DEF Fields
  <2> HIDE DEF u, l, d
  <2> QED
    BY <2>3, <2>6, BlankIsSound DEF Steps
<1>3. \/ /\ Answered("signOut", "end")
         /\ \/ tab' = request(tab, "signOut", [c EXCEPT !.step = "logout"])
            \/ tab' = request(EndFailed(tab, c), "signOut", [c EXCEPT !.step = "logout"])
      \/ tab' = [Page(tab.route) EXCEPT !.state = "anonymous", !.refresh = tab.refresh,
                                        !.calls = Leaves(Done(tab, "signOut")).calls]
  BY DEF SigningOut, Resume
<1>4. Kept(S, tab, tab) /\ Kept(S, tab, EndFailed(tab, c))
  <2>1. Kept(S, tab, tab)
    BY DEF Kept
  <2> HIDE DEF c
  <2> QED BY <2>1, EndFailedIsKept
<1> HIDE DEF c
<1> QED
  BY <1>1, <1>2, <1>3, <1>4

LEMMA BeginningIsSound ==
  ASSUME NEW S, Sound(S, tab), BeginningSupport
  PROVE  Steps(S, tab, tab')
<1> DEFINE c == tab.calls["begin"]
           x == c.answer
           d == Done(tab, "begin")
<1>0. "begin" \in Flows /\ "begin" \in Flows \ {"load"}
  BY FlowsAre
<1>1. Sound(S, d) /\ d.state = tab.state
  BY <1>0, DoneIsSound
<1>2. CASE tab' = d
  BY <1>0, <1>2, DoneFollows, FollowsSteps
<1>3. ASSUME NEW id, NEW b, NEW p, Answered("begin", "start"),
             tab' = getWorkspace([tab EXCEPT !.header = id, !.support = id], "begin",
                                 [c EXCEPT !.id = id], b, p)
      PROVE  Steps(S, tab, tab')
  <2> DEFINE t == [tab EXCEPT !.header = id, !.support = id]
             e == [c EXCEPT !.id = id]
  <2>1. DOMAIN c = CallFields
    BY <1>0, <1>3, AnswerIsGranted
  <2>2. DOMAIN e = CallFields
    <3> HIDE DEF c
    <3> QED BY <2>1
  <2>3. /\ DOMAIN t = Fields /\ t.calls = tab.calls /\ t.holder = tab.holder
        /\ t.access = tab.access /\ t.route = tab.route /\ t.state = tab.state
    BY DEF Sound, Honest, IsPage, Fields
  <2>4. tab' = getWorkspace(t, "begin", e, b, p)
    BY <1>3
  <2> HIDE DEF t, e
  <2>5. Sound(S, t)
    BY <2>3, SameIsSound
  <2>6. Follows(S, t, tab')
    BY <1>0, <2>2, <2>4, <2>5, WorkspaceFollows
  <2> QED
    BY <2>3, <2>6, FollowsSteps DEF Follows
<1>4. CASE tab' = endSupportSession([tab EXCEPT !.support = 0], "begin", c.id)
  <2> DEFINE t == [tab EXCEPT !.support = 0]
  <2>1. Kept(S, tab, t)
    BY FieldsAreKept
  <2> HIDE DEF t, c
  <2>2. Follows(S, t, endSupportSession(t, "begin", c.id))
    BY <1>0, <2>1, EndFollows DEF Kept
  <2>3. tab' = endSupportSession(t, "begin", c.id)
    BY <1>4 DEF t
  <2> QED
    BY <2>1, <2>2, <2>3, KeptFollows, FollowsOn, FollowsSteps
<1>5. ASSUME NEW r, Answered("begin", "workspace"), tab' = navigate(applyWorkspace(d, x), r)
      PROVE  Steps(S, tab, tab')
  <2>1. Follows(S, tab, applyWorkspace(d, x))
    BY <1>0, <1>5, AppliedFollows
  <2> HIDE DEF d, x
  <2>2. Follows(S, applyWorkspace(d, x), tab')
    BY <1>5, <2>1, NavigateIsSound DEF Follows
  <2> QED
    BY <2>1, <2>2, FollowsOn, FollowsSteps
<1>6. ASSUME NEW h, tab' = [d EXCEPT !.header = h] PROVE Steps(S, tab, tab')
  <2> HIDE DEF d
  <2>1. Kept(S, d, tab')
    BY <1>1, <1>6, FieldsAreKept
  <2> QED
    BY <1>1, <2>1, FollowsSteps DEF Kept, Follows
<1>7. \/ tab' = d
      \/ /\ Answered("begin", "start")
         /\ \E id, b, p :
              tab' = getWorkspace([tab EXCEPT !.header = id, !.support = id], "begin",
                                  [c EXCEPT !.id = id], b, p)
      \/ tab' = endSupportSession([tab EXCEPT !.support = 0], "begin", c.id)
      \/ /\ Answered("begin", "workspace")
         /\ \E r : tab' = navigate(applyWorkspace(d, x), r)
      \/ \E h : tab' = [d EXCEPT !.header = h]
  BY DEF BeginningSupport, Resume
<1> HIDE DEF c, x, d
<1> QED
  BY <1>2, <1>3, <1>4, <1>5, <1>6, <1>7

LEMMA EndingIsSound ==
  ASSUME NEW S, Sound(S, tab), EndingSupport \/ Exiting \/ Expired
  PROVE  Steps(S, tab, tab')
<1>1. ASSUME NEW f \in Flows, NEW h, tab' = [Done(tab, f) EXCEPT !.header = h]
      PROVE  Steps(S, tab, tab')
  <2> DEFINE d == Done(tab, f)
  <2>1. Sound(S, d) /\ d.state = tab.state
    BY DoneIsSound
  <2>2. tab' = [d EXCEPT !.header = h]
    BY <1>1
  <2> HIDE DEF d
  <2>3. Kept(S, d, tab')
    BY <2>1, <2>2, FieldsAreKept
  <2> QED
    BY <2>1, <2>3, FollowsSteps DEF Kept, Follows
<1>2. CASE Expired
  <2>1. \E h : tab' = [Done(tab, "expire") EXCEPT !.header = h]
    BY <1>2 DEF Expired, Resume
  <2> QED
    BY <1>1, <2>1, FlowsAre
<1>3. CASE Exiting
  <2>1. \E h : tab' = Left(h)
    BY <1>3 DEF Exiting, Resume
  <2> QED
    BY <2>1, LeftIsSound, FollowsSteps
<1>4. CASE EndingSupport
  <2> DEFINE d == Done(tab, "end")
             u == [d EXCEPT !.ending = FALSE]
             v == [u EXCEPT !.support = 0]
             c == tab.calls["end"]
             r == Route("agency", None, None)
  <2>1. Sound(S, d) /\ d.state = tab.state
    BY DoneIsSound, FlowsAre
  <2>2. Kept(S, d, u)
    <3> HIDE DEF d
    <3> QED BY <2>1, FieldsAreKept
  <2>3. Kept(S, u, v)
    <3>1. Sound(S, u)
      BY <2>2 DEF Kept
    <3> HIDE DEF u
    <3> QED BY <3>1, FieldsAreKept
  <2>4. tab' = navigate(v, r) \/ tab' = EndFailed(u, c)
    BY <1>4 DEF EndingSupport, Resume
  <2> HIDE DEF d, u, v, c, r
  <2>5. ASSUME tab' = navigate(v, r) PROVE Follows(S, v, tab') /\ v.state = tab.state
    BY <2>1, <2>2, <2>3, <2>5, NavigateIsSound DEF Kept
  <2>6. ASSUME tab' = EndFailed(u, c) PROVE Kept(S, u, tab') /\ u.state = tab.state
    BY <2>1, <2>2, <2>6, EndFailedIsKept DEF Kept
  <2> QED
    BY <2>4, <2>5, <2>6, FollowsSteps DEF Follows, Kept
<1> QED
  BY <1>2, <1>3, <1>4

LEMMA WritingIsSound ==
  ASSUME NEW S, Sound(S, tab), Writing
  PROVE  Steps(S, tab, tab')
<1> DEFINE c == tab.calls["write"]
           x == c.answer
           d == Done(tab, "write")
<1>0. "write" \in Flows /\ "write" \in Flows \ {"load"}
  BY FlowsAre
<1>1. CASE tab' = d
  BY <1>0, <1>1, DoneFollows, FollowsSteps
<1>2. ASSUME NEW b, NEW p, Answered("write", "write"),
             tab' = getWorkspace(tab, "write", c, b, p)
      PROVE  Steps(S, tab, tab')
  <2>1. DOMAIN c = CallFields
    BY <1>0, <1>2, AnswerIsGranted
  <2> HIDE DEF c
  <2> QED
    BY <1>0, <1>2, <2>1, WorkspaceFollows, FollowsSteps
<1>3. ASSUME NEW r, Answered("write", "workspace"), NEW t \in {applyWorkspace(d, x), d},
             tab' = navigate(t, r)
      PROVE  Steps(S, tab, tab')
  <2>1. Follows(S, tab, applyWorkspace(d, x)) /\ Follows(S, tab, d)
    BY <1>0, <1>3, AppliedFollows, DoneFollows
  <2> HIDE DEF d, x
  <2>2. Follows(S, t, tab') /\ Follows(S, tab, t)
    BY <1>3, <2>1, NavigateIsSound DEF Follows
  <2> QED
    BY <2>2, FollowsOn, FollowsSteps
<1>4. \/ tab' = d
      \/ /\ Answered("write", "write")
         /\ \E b, p : tab' = getWorkspace(tab, "write", c, b, p)
      \/ /\ Answered("write", "workspace")
         /\ \E t \in {applyWorkspace(d, x), d} : \E r : tab' = navigate(t, r)
  BY DEF Writing, Resume
<1> HIDE DEF c, x, d
<1> QED
  BY <1>1, <1>2, <1>3, <1>4

LEMMA RefreshingIsSound ==
  ASSUME NEW S, Sound(S, tab), Refreshes \/ Refreshed \/ RefreshesAgain \/ Canonicalizes
  PROVE  Steps(S, tab, tab')
<1> DEFINE c == tab.calls["refresh"]
           x == c.answer
<1>0. "refresh" \in Flows /\ "refresh" \in Flows \ {"load"}
  BY FlowsAre
<1>1. ASSUME NEW e, NEW b, NEW p, DOMAIN e = CallFields,
             tab' = getWorkspace(tab, "refresh", e, b, p)
      PROVE  Steps(S, tab, tab')
  BY <1>0, <1>1, WorkspaceFollows, FollowsSteps
<1>2. CASE Refreshes
  <2>1. \/ tab' = [tab EXCEPT !.refresh = FALSE]
        \/ \E b, p : tab' = getWorkspace(tab, "refresh", Call(tab, "workspace"), b, p)
    BY <1>2 DEF Refreshes, Effect
  <2>2. DOMAIN Call(tab, "workspace") = CallFields
    BY CallHasFields
  <2> QED
    BY <1>1, <2>1, <2>2, FieldsAreKept, KeptFollows, FollowsSteps
<1>3. CASE RefreshesAgain
  <2>1. \E b, p : tab' = getWorkspace(tab, "refresh", c, b, p)
    BY <1>3 DEF RefreshesAgain, Effect
  <2>2. DOMAIN c = CallFields
    BY <1>0, <1>3 DEF RefreshesAgain, Sound, Honest, IsPage
  <2> HIDE DEF c
  <2> QED
    BY <1>1, <2>1, <2>2
<1>4. CASE Canonicalizes
  BY <1>4, NavigateIsSound, FollowsSteps DEF Canonicalizes, Effect
<1>5. CASE Refreshed
  <2>1. DOMAIN c = CallFields /\ Granted(S, x.account, x.access)
    BY <1>0, <1>5, AnswerIsGranted DEF Refreshed, Resume
  <2>2. PICK u \in {applyWorkspace(tab, x), tab} :
          \/ tab' = [Done(u, "refresh") EXCEPT !.refresh = FALSE]
          \/ tab' = [u EXCEPT !.calls["refresh"] =
                       [c EXCEPT !.step = "timer", !.attempt = @ + 1, !.answer = None]]
    BY <1>5 DEF Refreshed, Resume
  <2>3. Sound(S, u) /\ u.state = tab.state
    <3> HIDE DEF c, x
    <3> QED BY <2>1, AppliedIsSound
  <2>4. ASSUME tab' = [Done(u, "refresh") EXCEPT !.refresh = FALSE]
        PROVE  Follows(S, tab, tab')
    <3> DEFINE d == Done(u, "refresh")
    <3>1. Sound(S, d) /\ d.state = u.state
      BY <1>0, <2>3, DoneIsSound
    <3>2. tab' = [d EXCEPT !.refresh = FALSE]
      BY <2>4
    <3> HIDE DEF d, c, x
    <3>3. Kept(S, d, tab')
      BY <3>1, <3>2, FieldsAreKept
    <3> QED
      BY <2>3, <3>1, <3>3 DEF Kept, Follows
  <2>5. ASSUME tab' = [u EXCEPT !.calls["refresh"] =
                         [c EXCEPT !.step = "timer", !.attempt = @ + 1, !.answer = None]]
        PROVE  Follows(S, tab, tab')
    <3> DEFINE e == [c EXCEPT !.step = "timer", !.attempt = @ + 1, !.answer = None]
    <3>1. DOMAIN e = CallFields /\ e.answer = None
      <4> HIDE DEF c
      <4> QED BY <2>1 DEF CallFields
    <3>2. DOMAIN u = Fields /\ DOMAIN u.calls = Flows
      BY <2>3 DEF Sound, Honest, IsPage
    <3>3. tab' = [u EXCEPT !.calls["refresh"] = e]
      BY <2>5
    <3> HIDE DEF e, c, x
    <3>4. /\ DOMAIN tab' = Fields /\ tab'.holder = u.holder /\ tab'.access = u.access
          /\ tab'.route = u.route /\ tab'.state = u.state
          /\ tab'.calls = [u.calls EXCEPT !["refresh"] = e]
      BY <3>2, <3>3 DEF Fields
    <3>5. /\ DOMAIN tab'.calls = Flows /\ tab'.calls["refresh"] = e
          /\ \A g \in Flows : g # "refresh" => tab'.calls[g] = u.calls[g]
      BY <1>0, <3>2, <3>4
    <3>6. IsPage(tab') /\ AnswersAreGranted(S, tab')
      BY <2>3, <3>1, <3>4, <3>5 DEF Sound, Honest, IsPage, AnswersAreGranted
    <3>7. tab'.calls["load"] = u.calls["load"]
      BY <3>5, FlowsAre
    <3>8. Sound(S, tab')
      BY <2>3, <3>4, <3>6, <3>7 DEF Sound, Honest, LoadIsForRoute
    <3> QED
      BY <2>3, <3>4, <3>8 DEF Follows
  <2> QED
    BY <2>2, <2>4, <2>5, FollowsSteps
<1> QED
  BY <1>2, <1>3, <1>4, <1>5

LEMMA ExpiringIsSound ==
  ASSUME NEW S, Sound(S, tab), SupportExpires
  PROVE  Steps(S, tab, tab')
<1> DEFINE t == [tab EXCEPT !.support = 0]
           u == endSupportSession(t, "expire", tab.support)
           r == Route("agency", None, None)
<1>0. "expire" \in Flows \ {"load"}
  BY FlowsAre
<1>1. tab' = navigate(u, r)
  BY DEF SupportExpires, Click
<1>2. Follows(S, tab, t)
  BY FieldsAreKept, KeptFollows
<1>3. Follows(S, t, u)
  <2> HIDE DEF t
  <2> QED BY <1>0, <1>2, EndFollows DEF Follows
<1> HIDE DEF t, u, r
<1>4. Follows(S, u, tab')
  BY <1>1, <1>3, NavigateIsSound DEF Follows
<1> QED
  BY <1>2, <1>3, <1>4, FollowsOn, FollowsSteps

LEMMA LapsingIsSound ==
  ASSUME NEW S, Sound(S, tab), NEW read, AccessLapses(read)
  PROVE  Steps(S, tab, tab')
<1> DEFINE x == tab.access
           y == [x EXCEPT !.manage = FALSE, !.read = @ /\ read]
<1>1. tab' = [tab EXCEPT !.access = y] /\ x # None
  BY DEF AccessLapses, Click
<1>2. DOMAIN x = AccessFields
  BY <1>1 DEF Sound, Honest, Granted
<1>3. /\ DOMAIN y = AccessFields /\ y.business = x.business
      /\ ~y.manage /\ (y.read => x.read)
  <2> HIDE DEF x
  <2> QED BY <1>2 DEF AccessFields
<1>4. /\ DOMAIN tab' = Fields /\ tab'.calls = tab.calls /\ tab'.holder = tab.holder
      /\ tab'.access = y /\ tab'.route = tab.route /\ tab'.state = tab.state
  <2> HIDE DEF y
  <2> QED BY <1>1 DEF Sound, Honest, IsPage, Fields
<1>5. Granted(S, tab.holder, y)
  <2>1. Granted(S, tab.holder, x)
    BY DEF Sound, Honest
  <2> HIDE DEF x, y
  <2> QED BY <1>1, <1>3, <2>1 DEF Granted
<1> HIDE DEF x, y
<1>6. Sound(S, tab')
  BY <1>4, <1>5 DEF Sound, Honest, IsPage, AnswersAreGranted, LoadIsForRoute
<1> QED
  BY <1>4, <1>6 DEF Steps

(* The server never takes back that a support session has been.             *)
Extends(S, R) ==
  \A i \in DOMAIN S : /\ i \in DOMAIN R /\ R[i].agent = S[i].agent
                      /\ R[i].business = S[i].business /\ R[i].scope = S[i].scope

LEMMA GrantsStay ==
  ASSUME NEW S, NEW R, Extends(S, R)
  PROVE  /\ \A a, x : Granted(S, a, x) => Granted(R, a, x)
         /\ \A t : Sound(S, t) => Sound(R, t)
<1>1. ASSUME NEW a, NEW x, Granted(S, a, x) PROVE Granted(R, a, x)
  <2> SUFFICES ASSUME x # None, a \in Agents /\ x.read
               PROVE  \E i \in DOMAIN R : /\ R[i].agent = a /\ R[i].business = x.business
                                          /\ x.manage => R[i].scope = "configuration"
    BY <1>1 DEF Granted
  <2>1. PICK i \in DOMAIN S : /\ S[i].agent = a /\ S[i].business = x.business
                              /\ x.manage => S[i].scope = "configuration"
    BY <1>1 DEF Granted
  <2> QED
    BY <2>1 DEF Extends
<1>2. ASSUME NEW t, Sound(S, t) PROVE Sound(R, t)
  BY <1>1, <1>2 DEF Sound, Honest, AnswersAreGranted
<1> QED
  BY <1>1, <1>2

LEMMA EndingExtends ==
  ASSUME SupportInv, NEW i \in DOMAIN sessions,
         sessions' = [sessions EXCEPT ![i].open = FALSE]
  PROVE  Extends(sessions, sessions')
<1>1. PICK A, B, T : sessions \in Seq([agent : A, business : B, scope : T, open : BOOLEAN])
  BY DEF SupportInv, SessionsInOrder
<1> DEFINE R == [agent : A, business : B, scope : T, open : BOOLEAN]
           e == [sessions[i] EXCEPT !.open = FALSE]
<1>2. sessions[i] \in R /\ DOMAIN sessions = 1..Len(sessions)
  <2>1. sessions \in Seq(R)
    BY <1>1
  <2> HIDE DEF R
  <2> QED BY <2>1, LenProperties, ElementOfSeq
<1>3. /\ e.agent = sessions[i].agent /\ e.business = sessions[i].business
      /\ e.scope = sessions[i].scope
  BY <1>2
<1>4. sessions' = [sessions EXCEPT ![i] = e]
  OBVIOUS
<1> HIDE DEF R, e
<1> QED
  BY <1>3, <1>4 DEF Extends

LEMMA ServerExtends ==
  ASSUME SupportInv, NEW c, Keeps(c)
  PROVE  /\ Extends(sessions, sessions')
         /\ c.step = "workspace" => sessions' = sessions
<1>1. CASE AnswerTo(c).status = "ok" /\ c.step = "start"
  <2>1. PICK e : sessions' = Append(sessions, e)
    BY <1>1 DEF Keeps
  <2>2. DOMAIN sessions = 1..Len(sessions) /\ Len(sessions) \in Nat
    BY LenProperties DEF SupportInv, SessionsInOrder
  <2>3. \A i \in DOMAIN sessions : i \in DOMAIN sessions' /\ sessions'[i] = sessions[i]
    <3>1. PICK A, B, T : sessions \in Seq([agent : A, business : B, scope : T,
                                           open : BOOLEAN])
      BY DEF SupportInv, SessionsInOrder
    <3> DEFINE R == [agent : A, business : B, scope : T, open : BOOLEAN] \cup {e}
    <3>2. sessions \in Seq(R)
      BY <3>1, SeqMonotonic
    <3>3. e \in R
      OBVIOUS
    <3> HIDE DEF R
    <3> QED BY <2>1, <3>2, <3>3, AppendProperties, LenProperties
  <2> QED
    BY <1>1, <2>3 DEF Extends
<1>2. CASE AnswerTo(c).status = "ok" /\ c.step = "end"
  <2>1. sessions' = [sessions EXCEPT ![c.id].open = FALSE]
    BY <1>2 DEF Keeps
  <2>2. c.id \in DOMAIN sessions
    BY <1>2 DEF AnswerTo, Answer, Refusal, OpenOf
  <2> QED
    BY <1>2, <2>1, <2>2, EndingExtends
<1>3. CASE ~(AnswerTo(c).status = "ok" /\ c.step \in {"start", "end"})
  BY <1>3 DEF Keeps, Extends
<1> QED
  BY <1>1, <1>2, <1>3

(* What the server answers, it grants (GET /api/v1/workspace).              *)
LEMMA AnswersAreGrants ==
  ASSUME NEW c
  PROVE  /\ AnswerTo(c).access # None => c.step = "workspace"
         /\ Granted(sessions, AnswerTo(c).account, AnswerTo(c).access)
<1>1. ASSUME NEW s PROVE Answer(s).access = None
  BY DEF Answer
<1>2. ASSUME NEW y, y.access = None PROVE Granted(sessions, y.account, y.access)
  BY <1>2 DEF Granted
<1>3. CASE c.step # "workspace" \/ Refusal(c) # None
  <2>1. AnswerTo(c).access = None
    <3> DEFINE active == [Ok EXCEPT !.id = ActiveOf(cookie)]
               started == [Ok EXCEPT !.id = Len(sessions) + 1]
               login == [Answer("ok") EXCEPT !.account = c.account]
    <3>1. AnswerTo(c) \in {Answer(Refusal(c)), Answer("failed"), Answer("not_found"),
                           active, started, login, Ok}
      <4>1. AnswerTo(c) =
              IF Refusal(c) # None THEN Answer(Refusal(c)) ELSE
              CASE c.step = "workspace" -> WorkspaceAnswer(c)
                [] c.step = "active" -> active
                [] c.step = "start" -> start_support_session(c)
                [] c.step = "end" /\ c.id \notin OpenOf(cookie) -> Answer("not_found")
                [] c.step = "login" -> login
                [] OTHER -> Ok
        BY DEF AnswerTo
      <4>2. start_support_session(c) \in {Answer("failed"), started}
        BY DEF start_support_session
      <4> HIDE DEF active, started, login
      <4> QED
        BY <1>3, <4>1, <4>2
    <3>2. active.access = None /\ started.access = None /\ login.access = None
          /\ Ok.access = None
      BY DEF Ok, Answer
    <3> HIDE DEF active, started, login
    <3> QED
      BY <1>1, <3>1, <3>2
  <2> QED
    BY <1>2, <2>1
<1>4. CASE c.step = "workspace" /\ Refusal(c) = None
  <2>1. AnswerTo(c) = WorkspaceAnswer(c)
    BY <1>4 DEF AnswerTo
  <2>2. PICK b, p, read, manage :
          /\ \/ \E s : WorkspaceAnswer(c) = Answer(s)
             \/ WorkspaceAnswer(c) = [Ok EXCEPT !.access =
                  [business |-> b, place |-> p, read |-> read, manage |-> manage]]
          /\ cookie \in Agents =>
               /\ read = hasActiveSupportSession(c, b)
               /\ manage = (read /\ sessions[c.header].scope = "configuration")
    <3> DEFINE agent == cookie \in Agents
               target == Or(c.business, IF agent THEN None ELSE OwnBusiness[cookie])
               b == Or(target, CHOOSE x \in Clients : TRUE)
               supported == hasActiveSupportSession(c, b)
               read == IF agent THEN supported ELSE RoleOf[cookie] # "billing"
               manage == IF agent
                         THEN supported /\ sessions[c.header].scope = "configuration"
                         ELSE RoleOf[cookie] = "owner"
               there == \/ c.place = None
                        \/ c.place \in Places /\ PlaceOf[c.place] = target
               access == [business |-> b, place |-> Or(c.place, MainPlace[b]),
                          read |-> read, manage |-> manage]
    <3>1. WorkspaceAnswer(c) =
            CASE ~agent /\ b # OwnBusiness[cookie] -> Answer("forbidden")
              [] (agent \/ b = OwnBusiness[cookie]) /\ ~there -> Answer("not_found")
              [] OTHER -> [Ok EXCEPT !.access = access]
      BY DEF WorkspaceAnswer
    <3>2. \/ \E s : WorkspaceAnswer(c) = Answer(s)
          \/ WorkspaceAnswer(c) = [Ok EXCEPT !.access = access]
      <4> HIDE DEF access, target, b, there
      <4> QED BY <3>1
    <3>3. agent => /\ read = hasActiveSupportSession(c, b)
                   /\ manage = (read /\ sessions[c.header].scope = "configuration")
      BY DEF hasActiveSupportSession
    <3> QED
      BY <3>2, <3>3
  <2> DEFINE x == [business |-> b, place |-> p, read |-> read, manage |-> manage]
  <2>3. CASE \E s : WorkspaceAnswer(c) = Answer(s)
    BY <1>1, <1>2, <1>4, <2>1, <2>3
  <2>4. CASE WorkspaceAnswer(c) = [Ok EXCEPT !.access = x]
    <3>1. AnswerTo(c).account = cookie /\ AnswerTo(c).access = x
      <4> HIDE DEF x
      <4> QED BY <2>1, <2>4 DEF Ok, Answer
    <3>2. DOMAIN x = AccessFields
      BY DEF AccessFields
    <3>3. cookie \in Agents /\ x.read =>
            \E i \in DOMAIN sessions :
              /\ sessions[i].agent = cookie /\ sessions[i].business = x.business
              /\ x.manage => sessions[i].scope = "configuration"
      BY <2>2 DEF hasActiveSupportSession, OpenOf
    <3> HIDE DEF x
    <3> QED
      BY <1>4, <3>1, <3>2, <3>3 DEF Granted
  <2> QED
    BY <2>2, <2>3, <2>4
<1> QED
  BY <1>3, <1>4

(* A call is answered: by what the server granted, or as having failed.     *)
LEMMA AnsweredIsSound ==
  ASSUME NEW S, Sound(S, tab), NEW f \in Flows, tab.calls[f] # None, NEW a,
         Granted(S, a.account, a.access),
         tab' = [tab EXCEPT !.calls[f].answer = a, !.calls[f].header = 0]
  PROVE  Steps(S, tab, tab') /\ tab'.state = tab.state
<1> DEFINE c == tab.calls[f]
           d == [c EXCEPT !.answer = a, !.header = 0]
<1>1. DOMAIN tab = Fields /\ DOMAIN tab.calls = Flows /\ DOMAIN c = CallFields
  BY DEF Sound, Honest, IsPage
<1>2. DOMAIN d = CallFields /\ d.answer = a /\ d.route = c.route
  <2> HIDE DEF c
  <2> QED BY <1>1 DEF CallFields
<1>3. tab' = [tab EXCEPT !.calls[f] = d]
  <2> DEFINE u == [tab EXCEPT !.calls = [tab.calls EXCEPT ![f] = [c EXCEPT !.answer = a]]]
  <2>1. [tab EXCEPT !.calls[f].answer = a] = u
    OBVIOUS
  <2>2. tab' = [u EXCEPT !.calls = [u.calls EXCEPT ![f] = [u.calls[f] EXCEPT !.header = 0]]]
    BY <2>1
  <2>3. u.calls = [tab.calls EXCEPT ![f] = [c EXCEPT !.answer = a]]
    BY <1>1 DEF Fields
  <2>4. u.calls[f] = [c EXCEPT !.answer = a]
    BY <1>1, <2>3
  <2>5. [u.calls EXCEPT ![f] = [u.calls[f] EXCEPT !.header = 0]] = [tab.calls EXCEPT ![f] = d]
    BY <1>1, <2>3, <2>4
  <2> QED
    BY <1>1, <2>2, <2>5 DEF Fields
<1> HIDE DEF d
<1>4. /\ DOMAIN tab' = Fields /\ tab'.holder = tab.holder /\ tab'.access = tab.access
      /\ tab'.route = tab.route /\ tab'.state = tab.state
      /\ tab'.calls = [tab.calls EXCEPT ![f] = d]
  BY <1>1, <1>3 DEF Fields
<1>5. /\ DOMAIN tab'.calls = Flows /\ tab'.calls[f] = d
      /\ \A g \in Flows : g # f => tab'.calls[g] = tab.calls[g]
  BY <1>1, <1>4
<1>6. IsPage(tab')
  BY <1>2, <1>4, <1>5 DEF Sound, Honest, IsPage
<1>7. AnswersAreGranted(S, tab')
  BY <1>2, <1>5 DEF Sound, Honest, AnswersAreGranted
<1>8. LoadIsForRoute(tab')
  BY <1>2, <1>4, <1>5, FlowsAre DEF Sound, LoadIsForRoute
<1> QED
  BY <1>4, <1>6, <1>7, <1>8 DEF Sound, Honest, Steps

LEMMA ServingIsSound ==
  ASSUME SupportInv, Sound(sessions, tab), NEW f \in Flows, Serve(f) \/ Fails(f)
  PROVE  Sound(sessions', tab') /\ tab'.state = tab.state
<1> DEFINE c == tab.calls[f]
<1>0. c # None
  BY DEF Serve, Fails, Waiting
<1>1. CASE Serve(f)
  <2> DEFINE a == AnswerTo(c)
  <2>1. Keeps(c) /\ tab' = [tab EXCEPT !.calls[f].answer = a, !.calls[f].header = 0]
    BY <1>1 DEF Serve
  <2>2. Granted(sessions, a.account, a.access)
    <3> HIDE DEF c
    <3> QED BY AnswersAreGrants
  <2>3. Extends(sessions, sessions')
    <3> HIDE DEF c
    <3> QED BY <2>1, ServerExtends
  <2> HIDE DEF a
  <2>4. Steps(sessions, tab, tab') /\ tab'.state = tab.state
    BY <1>0, <2>1, <2>2, AnsweredIsSound
  <2> QED
    BY <2>3, <2>4, GrantsStay DEF Steps
<1>2. CASE Fails(f)
  <2> DEFINE a == Answer("failed")
  <2>1. /\ Keeps(c) \/ UNCHANGED sessions
        /\ tab' = [tab EXCEPT !.calls[f].answer = a, !.calls[f].header = 0]
    BY <1>2 DEF Fails
  <2>2. Granted(sessions, a.account, a.access)
    BY DEF Answer, Granted
  <2>3. Extends(sessions, sessions')
    <3>1. UNCHANGED sessions => Extends(sessions, sessions')
      BY DEF Extends
    <3> HIDE DEF c
    <3> QED BY <2>1, <3>1, ServerExtends
  <2> HIDE DEF a
  <2>4. Steps(sessions, tab, tab') /\ tab'.state = tab.state
    BY <1>0, <2>1, <2>2, AnsweredIsSound
  <2> QED
    BY <2>3, <2>4, GrantsStay DEF Steps
<1> QED
  BY <1>1, <1>2

LEMMA PageStepsAreSound ==
  ASSUME NEW S, Sound(S, tab),
         Acts \/ GoesOn \/ SupportExpires \/ \E read \in BOOLEAN : AccessLapses(read)
  PROVE  Steps(S, tab, tab')
<1>1. CASE GoesOn
  <2>1. ASSUME NEW f \in {"load", "stale"}, LoadStep(f) PROVE Steps(S, tab, tab')
    BY <2>1, LoadStepIsSound
  <2>2. CASE SigningIn \/ SigningOut \/ BeginningSupport \/ Writing
    BY <2>2, SigningInIsSound, SigningOutIsSound, BeginningIsSound, WritingIsSound
  <2>3. CASE EndingSupport \/ Exiting \/ Expired
    BY <2>3, EndingIsSound
  <2>4. CASE Refreshes \/ Refreshed \/ RefreshesAgain \/ Canonicalizes
    BY <2>4, RefreshingIsSound
  <2> QED
    BY <1>1, <2>1, <2>2, <2>3, <2>4 DEF GoesOn
<1> QED
  BY <1>1, ActsAreSound, ExpiringIsSound, LapsingIsSound

ShellInv == SupportInv /\ Sound(sessions, tab)

LEMMA StepOfShell ==
  ASSUME ShellInv, [ShellNext]_shellVars
  PROVE  /\ ShellInv'
         /\ tab.state # "authenticated" /\ tab'.state = "authenticated" =>
              tab'.calls["stale"] = tab.calls["stale"]
<1> DEFINE Opens == tab.state # "authenticated" /\ tab'.state = "authenticated" =>
                      tab'.calls["stale"] = tab.calls["stale"]
<1>1. SupportInv /\ Sound(sessions, tab)
  BY DEF ShellInv
<1>2. UNCHANGED sessions => SupportInv'
  BY <1>1 DEF SupportInv, SessionsInOrder, OneOpenEach
<1>3. CASE Acts \/ GoesOn \/ SupportExpires \/ \E read \in BOOLEAN : AccessLapses(read)
  <2>1. UNCHANGED sessions
    BY <1>3, PageKeepsSessions
  <2>2. Steps(sessions, tab, tab')
    BY <1>1, <1>3, PageStepsAreSound
  <2> QED
    BY <1>2, <2>1, <2>2 DEF Steps, ShellInv
<1>4. CASE LoginEnds \/ UNCHANGED shellVars
  BY <1>1, <1>2, <1>4 DEF LoginEnds, shellVars, ShellInv
<1>5. ASSUME NEW f \in Flows, Serve(f) \/ Fails(f) PROVE ShellInv' /\ Opens
  <2>1. Keeps(tab.calls[f]) \/ UNCHANGED sessions
    BY <1>5 DEF Serve, Fails
  <2>2. SupportInv'
    BY <1>1, <1>2, <2>1, ServerKeepsOneOpen
  <2> QED
    BY <1>1, <1>5, <2>2, ServingIsSound DEF ShellInv
<1>6. ASSUME NEW i \in DOMAIN sessions, SupportEnds(i) PROVE ShellInv' /\ Opens
  <2>1. sessions' = [sessions EXCEPT ![i].open = FALSE] /\ tab' = tab
    BY <1>6 DEF SupportEnds
  <2>2. SupportInv' /\ Extends(sessions, sessions')
    BY <1>1, <2>1, EndingKeepsOneOpen, EndingExtends
  <2>3. Sound(sessions', tab')
    BY <1>1, <2>1, <2>2, GrantsStay
  <2> QED
    BY <2>1, <2>2, <2>3 DEF ShellInv
<1> QED
  BY <1>3, <1>4, <1>5, <1>6 DEF ShellNext, Happens

LEMMA ShellIsSound == ShellSpec => []ShellInv
<1>1. ShellInit => ShellInv
  <2> SUFFICES ASSUME ShellInit PROVE ShellInv
    OBVIOUS
  <2>1. SupportInv
    BY EarlierAssumption DEF ShellInit, SupportInv, SessionsInOrder, OneOpenEach
  <2>2. PICK r, back : tab = Loads([Page(r) EXCEPT !.refresh = back])
    BY DEF ShellInit
  <2>3. Sound(sessions, tab)
    <3> DEFINE u == [Page(r) EXCEPT !.refresh = back]
    <3>1. Kept(sessions, Page(r), u)
      BY PageIsSound, FieldsAreKept
    <3> HIDE DEF u
    <3>2. Sound(sessions, Loads(u))
      BY <3>1, LoadsIsSound DEF Kept, Sound
    <3> QED
      BY <2>2, <3>2 DEF u
  <2> QED
    BY <2>1, <2>3 DEF ShellInv
<1>2. ShellInv /\ [ShellNext]_shellVars => ShellInv'
  BY StepOfShell
<1> QED
  BY <1>1, <1>2, PTL DEF ShellSpec

(* The pages of a tenant are open to an agent only while the banner names   *)
(* that tenant and after the server granted it, and its configuration only  *)
(* after a grant of configuration, on a page whose workspace is the one of  *)
(* its session (accessMatchesContext in AppShell).                          *)
THEOREM TenantsAreGranted == ShellSpec => []TenantWasGranted
<1>1. ShellInv => TenantWasGranted
  <2> SUFFICES ASSUME ShellInv, tab.session \in Agents, tab.holder = tab.session,
                      canReadTenant(tab)
               PROVE  \E i \in DOMAIN sessions :
                        /\ sessions[i].agent = tab.session
                        /\ sessions[i].business = SupportOf(tab)
                        /\ tab.access.business = SupportOf(tab)
                        /\ canConfigure(tab) => sessions[i].scope = "configuration"
    BY DEF TenantWasGranted
  <2>1. /\ tab.access # None /\ tab.access.read /\ tab.access.business = Shown(tab)
        /\ tab.session # None /\ tab.support # 0
        /\ canConfigure(tab) => tab.access.manage
    BY DEF canReadTenant, canConfigure, accessMatchesContext, AgencyMode, Rendered
  <2>2. Shown(tab) = Named(tab)
    BY <2>1 DEF Shown, Holds
  <2>3. Named(tab) = SupportOf(tab)
    BY DEF Named, Or
  <2>4. PICK i \in DOMAIN sessions :
          /\ sessions[i].agent = tab.holder /\ sessions[i].business = tab.access.business
          /\ tab.access.manage => sessions[i].scope = "configuration"
    BY <2>1 DEF ShellInv, Sound, Honest, Granted
  <2> QED
    BY <2>1, <2>2, <2>3, <2>4
<1> QED
  BY <1>1, ShellIsSound, PTL

(* A load brings its workspace up only while the route is still the one it  *)
(* was made for, however many loads of earlier routes are on their way      *)
(* (`active` of the load effect).                                           *)
THEOREM LoadsAreForTheRoute == ShellSpec => LoadsServeTheRoute
<1> DEFINE Serves ==
      \A f \in {"load", "stale"} :
        /\ Answered(f, "workspace") /\ tab'.calls[f] = None
        /\ tab.state = "loading" /\ tab'.state = "authenticated"
        => SameContext(tab.calls[f].route, tab.route)
<1>1. ShellInv /\ [ShellNext]_shellVars => Serves
  <2> SUFFICES ASSUME ShellInv, [ShellNext]_shellVars, NEW f \in {"load", "stale"},
                      Answered(f, "workspace"), tab'.calls[f] = None,
                      tab.state = "loading", tab'.state = "authenticated"
               PROVE  SameContext(tab.calls[f].route, tab.route)
    OBVIOUS
  <2>1. tab'.calls["stale"] = tab.calls["stale"]
    BY StepOfShell
  <2>2. f = "load"
    BY <2>1 DEF Answered
  <2> QED
    BY <2>2 DEF Answered, ShellInv, Sound, LoadIsForRoute
<1> QED
  BY <1>1, ShellIsSound, PTL DEF ShellSpec, LoadsServeTheRoute

=============================================================================

---------------------------- MODULE SessionsProofs ----------------------------
(***************************************************************************)
(* The redirect flows and the sessions they live in, for every number of   *)
(* browsers, requests, sessions, states and users, from one inductive      *)
(* invariant, Sessions!IInv.  First the types, then what each kind of step *)
(* does in terms of a few facts (the shape lemmas), then the conjuncts of  *)
(* the invariant from those facts alone.                                   *)
(***************************************************************************)
EXTENDS Sessions, TLAPS

USE NullIsNew, NullIsNoRecord

\* The initial state satisfies the invariant.
LEMMA InitIInv == Init => IInv
BY DEF Init, IInv, SignedOut, LoggedIn, Writers, TypeOK, OwnTokens, InOrder, Undivided, Writing, Busy, StatesAtHome, AtHome,
       Holds, Find, Over, Smooth

\* The store finds session data or nothing.
LEMMA FindTypes == ASSUME TypeOK, NEW x \in Sids \cup {NULL} PROVE Find(x) \in Data \cup {NULL}
BY DEF Find, TypeOK

LEMMA EmptyTypes == Empty \in Data
BY DEF Empty, Data

\* A request that arrives has its types.
LEMMA ArriveTypes ==
  ASSUME TypeOK, NEW p \in Requests, NEW b \in Browsers, NEW route \in Routes,
         NEW param \in States \cup {NULL}, Arrive(p, b, route, param)
  PROVE  TypeOK'
<1>1. Find(cookie[b]) \in Data \cup {NULL} /\ cookie[b] \in Sids \cup {NULL}
  BY FindTypes DEF TypeOK
<1>2. req' \in [Requests -> Request \cup {NULL}]
  BY <1>1, EmptyTypes DEF TypeOK, Arrive, Request, Phases, Answers
<1>3. disturbed' \subseteq States /\ alone' \subseteq Requests
  BY DEF TypeOK, Arrive, FlowsOf
<1> QED
  BY <1>2, <1>3 DEF TypeOK, Arrive, server, outside, parting

\* Popping a key leaves session data.
LEMMA PoppedTypes ==
  ASSUME TypeOK, NEW p \in Requests, Busy(p), NEW key \in {"state", "user_token_state"}
  PROVE  /\ Popped(p, key) \in Data
         /\ PopStatus(p, key) \in {"unmodified", "modified", "destroyed"}
BY DEF TypeOK, Busy, Popped, PopStatus, Request, Data

\* So has one that answers.
LEMMA AnswerTypes ==
  ASSUME TypeOK, NEW p \in Requests, Busy(p), NEW d \in Data,
         NEW status \in {"unmodified", "modified", "destroyed"}, NEW answer \in Answers,
         Answer(p, d, status, answer)
  PROVE  req' \in [Requests -> Request \cup {NULL}]
<1>1. req[p] \in Request
  BY DEF TypeOK, Busy
<1>2. ASSUME NEW r \in Request
      PROVE  [r EXCEPT !.phase = After(status), !.data = d, !.status = status, !.answer = answer]
               \in Request
  BY DEF Request, Phases, After
<1>3. req' = [req EXCEPT ![p] = [req[p] EXCEPT !.phase = After(status), !.data = d,
                                               !.status = status, !.answer = answer]]
  BY <1>1 DEF Answer, TypeOK
<1> QED
  BY <1>1, <1>2, <1>3 DEF TypeOK

\* The same for the two handlers that begin a flow.
Redirect(p, key, s) == [req[p] EXCEPT !.phase = "commit", !.status = "modified",
                          !.data = [req[p].data EXCEPT ![key] = s], !.opens = s,
                          !.answer = "other"]

LEMMA RedirectIs ==
  ASSUME TypeOK, NEW p \in Requests, Busy(p), NEW s
  PROVE  /\ [req EXCEPT ![p].phase = "commit", ![p].status = "modified",
                        ![p].data.state = s, ![p].opens = s, ![p].answer = "other"]
              = [req EXCEPT ![p] = Redirect(p, "state", s)]
         /\ [req EXCEPT ![p].phase = "commit", ![p].status = "modified",
                        ![p].data.user_token_state = s, ![p].opens = s,
                        ![p].answer = "other"]
              = [req EXCEPT ![p] = Redirect(p, "user_token_state", s)]
<1>1. req[p] \in Request /\ req \in [Requests -> Request \cup {NULL}] /\ req[p].data \in Data
  BY DEF TypeOK, Busy, Request
<1> QED
  BY <1>1 DEF Redirect, Request, Data

LEMMA RedirectTypes ==
  ASSUME TypeOK, NEW p \in Requests, Busy(p), NEW s \in States,
         NEW key \in {"state", "user_token_state"}
  PROVE  Redirect(p, key, s) \in Request
<1>1. req[p] \in Request /\ [req[p].data EXCEPT ![key] = s] \in Data
  BY DEF TypeOK, Busy, Request, Data
<1> QED
  BY <1>1 DEF Redirect, Request, Phases, Answers

\* A flow that begins has its types.
LEMMA BeginsTypes ==
  ASSUME TypeOK, NEW p \in Requests, Busy(p), NEW s \in States, NEW kind \in {"login", "token"},
         Begins(p, s, kind)
  PROVE  flow' \in [States -> Flow \cup {NULL}] /\ disturbed' \subseteq States
BY DEF TypeOK, Busy, Begins, KindOf, FlowsOf, Flow, Request, Data

\* Browsers and requests stay what out and late are made of.
LEMMA PartingTypes ==
  ASSUME TypeOK, [Next]_vars
  PROVE  out' \subseteq Browsers /\ late' \subseteq Requests
<1> USE DEF parting, TypeOK
<1>1. ASSUME NEW p \in Requests, Busy(p) PROVE req[p].browser \in Browsers
  BY <1>1 DEF Busy, Request
<1>2. ASSUME NEW b \in Browsers, Enters(b) PROVE out' \subseteq Browsers /\ late' \subseteq Requests
  BY <1>2 DEF Enters
<1>3. ASSUME NEW p \in Requests, Busy(p), Enters(req[p].browser) \/ Parts(p) \/ UNCHANGED parting
      PROVE  out' \subseteq Browsers /\ late' \subseteq Requests
  BY <1>1, <1>2, <1>3 DEF Parts, Writers
<1>4. ASSUME NEW p \in Requests, \/ \E b \in Browsers : Visit(p, b)
                                \/ \E s \in States : Return(p, s)
      PROVE  UNCHANGED parting
  BY <1>4 DEF Visit, Return, Arrive
<1>5. ASSUME NEW p \in Requests, Handle(p) \/ Commit(p)
      PROVE  Busy(p) /\ (Enters(req[p].browser) \/ Parts(p) \/ UNCHANGED parting)
  BY <1>5 DEF Handle, Handling, Login, CallbackRefused, CallbackRejected, Callback, Logout, DestroyFails,
              AuthorizeUserToken, AuthorizeWithoutUser, UserTokenCallbackRefused, UserTokenCallbackRejected,
              UserTokenCallback, Page, Commit
<1>6. ASSUME NEW p \in Requests, Respond(p) \/ Abort(p)
      PROVE  out' \subseteq Browsers /\ late' \subseteq Requests
  BY <1>1, <1>2, <1>6 DEF Respond, Abort
<1>7. ASSUME NEW sid \in Sids, Lapse(sid) \/ Cleanup(sid)
      PROVE  out' \subseteq Browsers /\ late' \subseteq Requests
  BY <1>7 DEF Lapse, Cleanup
<1> QED
  BY <1>3, <1>4, <1>5, <1>6, <1>7 DEF Next, vars

\* Every step keeps the types; a callback that is accepted has a state to spend.
LEMMA StepTypes ==
  ASSUME TypeOK, \A p \in Requests : InOrder(p), [Next]_vars
  PROVE  TypeOK'
<1> USE DEF Handling
<1>0. out' \subseteq Browsers /\ late' \subseteq Requests
  BY PartingTypes
<1> USE <1>0
<1>1. ASSUME NEW p \in Requests, NEW b \in Browsers, Visit(p, b) PROVE TypeOK'
  BY <1>1, ArriveTypes DEF Visit, Routes
<1>2. ASSUME NEW p \in Requests, NEW s \in States, Return(p, s) PROVE TypeOK'
  <2>1. flow[s].browser \in Browsers
    BY <1>2 DEF TypeOK, Return, Flow
  <2> QED
    BY <1>2, <2>1, ArriveTypes DEF Return, Routes
<1>3. ASSUME NEW p \in Requests, Login(p) \/ AuthorizeUserToken(p) PROVE TypeOK'
  <2>1. req' \in [Requests -> Request \cup {NULL}]
    <3>1. PICK s \in States, key \in {"state", "user_token_state"} :
            req' = [req EXCEPT ![p] = Redirect(p, key, s)]
      BY <1>3, RedirectIs DEF Login, AuthorizeUserToken
    <3>2. Redirect(p, key, s) \in Request
      BY <1>3, RedirectTypes DEF Login, AuthorizeUserToken
    <3> QED
      BY <3>1, <3>2 DEF TypeOK
  <2>2. flow' \in [States -> Flow \cup {NULL}] /\ disturbed' \subseteq States
    BY <1>3, BeginsTypes DEF Login, AuthorizeUserToken
  <2> QED
    BY <1>3, <2>1, <2>2 DEF Login, AuthorizeUserToken, TypeOK, server
<1>4. ASSUME NEW p \in Requests, Callback(p) PROVE TypeOK'
  <2>1. req' \in [Requests -> Request \cup {NULL}]
    <3>1. Popped(p, "state") \in Data /\ Busy(p)
      BY <1>4, PoppedTypes DEF Callback
    <3>2. ASSUME NEW u \in Users PROVE [Popped(p, "state") EXCEPT !.user = u] \in Data
      BY <3>1 DEF Data
    <3>3. \/ Answer(p, Popped(p, "state"), "modified", "other")
          \/ \E u \in Users : Answer(p, [Popped(p, "state") EXCEPT !.user = u], "modified", "done")
      BY <1>4 DEF Callback
    <3>4. \E d \in Data, answer \in Answers : Answer(p, d, "modified", answer)
      BY <3>1, <3>2, <3>3, Zenon DEF Answers
    <3> QED
      BY <3>1, <3>4, AnswerTypes
  <2>2. spent' \subseteq States
    <3>1. req[p].param \in States
      BY <1>4 DEF Callback, InOrder
    <3>2. spent' = spent \/ spent' = spent \cup {req[p].param}
      BY <1>4 DEF Callback
    <3> QED
      BY <3>1, <3>2 DEF TypeOK
  <2> QED
    BY <1>4, <2>1, <2>2 DEF Callback, TypeOK, KindOf, FlowsOf, server
<1>5. ASSUME NEW p \in Requests, UserTokenCallback(p) PROVE TypeOK'
  <2>1. req' \in [Requests -> Request \cup {NULL}]
    BY <1>5, PoppedTypes, AnswerTypes DEF UserTokenCallback, Answers
  <2>2. spent' \subseteq States
    <3>1. req[p].param \in States
      BY <1>5 DEF UserTokenCallback, InOrder
    <3>2. spent' = spent \/ spent' = spent \cup {req[p].param}
      BY <1>5 DEF UserTokenCallback
    <3> QED
      BY <3>1, <3>2 DEF TypeOK
  <2> QED
    BY <1>5, <2>1, <2>2 DEF UserTokenCallback, TypeOK, KindOf, FlowsOf, server
<1>6. ASSUME NEW p \in Requests,
             \/ CallbackRefused(p) \/ CallbackRejected(p) \/ AuthorizeWithoutUser(p)
             \/ UserTokenCallbackRefused(p) \/ UserTokenCallbackRejected(p) \/ Page(p)
      PROVE  TypeOK'
  <2>1. req[p].data \in Data
    BY <1>6 DEF CallbackRefused, CallbackRejected, AuthorizeWithoutUser, Page,
                UserTokenCallbackRefused, UserTokenCallbackRejected, TypeOK, Busy, Request
  <2>2. req' \in [Requests -> Request \cup {NULL}]
    BY <1>6, <2>1, PoppedTypes, AnswerTypes
       DEF CallbackRefused, CallbackRejected, AuthorizeWithoutUser, Page,
           UserTokenCallbackRefused, UserTokenCallbackRejected, Answers
  <2> QED
    BY <1>6, <2>2 DEF CallbackRefused, CallbackRejected, AuthorizeWithoutUser, Page,
                      UserTokenCallbackRefused, UserTokenCallbackRejected, TypeOK,
                      KindOf, FlowsOf, server, outside, history
<1>7. ASSUME NEW p \in Requests, Logout(p) PROVE TypeOK'
  <2>1. req[p] \in Request
    BY <1>7 DEF Logout, TypeOK, Busy
  <2>2. ASSUME NEW r \in Request
        PROVE  [r EXCEPT !.phase = "respond", !.status = "destroyed", !.data = Empty,
                         !.sid = NULL, !.answer = "other"] \in Request
    BY EmptyTypes DEF Request, Phases, Answers
  <2>3. req' = [req EXCEPT ![p] = [req[p] EXCEPT !.phase = "respond", !.status = "destroyed",
                                     !.data = Empty, !.sid = NULL, !.answer = "other"]]
    BY <1>7, <2>1 DEF Logout, TypeOK
  <2>4. req[p].sid \in Sids \cup {NULL}
    BY <2>1 DEF Request
  <2>5. req' \in [Requests -> Request \cup {NULL}]
    BY <2>1, <2>2, <2>3 DEF TypeOK
  <2>6. store' \in [Sids -> Data \cup {NULL}]
    BY <1>7, <2>4 DEF Logout, TypeOK
  <2>7. ended' \subseteq States /\ disturbed' \subseteq States
    BY <1>7 DEF Logout, Parts, TypeOK, FlowsOf
  <2> QED
    BY <1>7, <2>5, <2>6, <2>7 DEF Logout, TypeOK, outside
<1>8. ASSUME NEW p \in Requests, Commit(p) PROVE TypeOK'
  <2>1. req[p] \in Request /\ req[p].data \in Data
    BY <1>8 DEF Commit, TypeOK, Busy, Request
  <2>2. PICK sid \in Sids : /\ drawn' = drawn \cup {sid}
                            /\ store' = [store EXCEPT ![sid] = req[p].data]
                            /\ req' = [req EXCEPT ![p].phase = "respond", ![p].sid = sid]
    BY <1>8 DEF Commit
  <2>3. ASSUME NEW r \in Request PROVE [r EXCEPT !.phase = "respond", !.sid = sid] \in Request
    BY DEF Request, Phases
  <2>4. req' = [req EXCEPT ![p] = [req[p] EXCEPT !.phase = "respond", !.sid = sid]]
    BY <2>1, <2>2 DEF TypeOK
  <2>5. req' \in [Requests -> Request \cup {NULL}]
    BY <2>1, <2>3, <2>4 DEF TypeOK
  <2> QED
    BY <1>8, <2>1, <2>2, <2>5 DEF Commit, TypeOK, outside, history
<1>9. ASSUME NEW p \in Requests, Abort(p) PROVE TypeOK'
  <2>1. req' \in [Requests -> Request \cup {NULL}]
    BY <1>9 DEF Abort, TypeOK
  <2> QED
    BY <1>9, <2>1 DEF Abort, TypeOK, FlowsOf, server, outside
<1>10. ASSUME NEW p \in Requests, Respond(p) PROVE TypeOK'
  <2>1. cookie' \in [Browsers -> Sids \cup {NULL}] /\ req' \in [Requests -> Request \cup {NULL}]
    BY <1>10 DEF Respond, TypeOK, Busy, Request
  <2>2. flow' \in [States -> Flow \cup {NULL}]
    <3>1. req[p].opens # NULL => req[p].opens \in States /\ flow[req[p].opens] \in Flow
      BY <1>10 DEF Respond, TypeOK, InOrder, Busy, Request
    <3>2. ASSUME NEW f \in Flow PROVE [f EXCEPT !.open = TRUE] \in Flow
      BY DEF Flow
    <3>3. CASE req[p].opens = NULL
      BY <1>10, <3>3 DEF Respond, TypeOK
    <3>4. CASE req[p].opens # NULL
      <4>1. flow' = [flow EXCEPT ![req[p].opens] = [flow[req[p].opens] EXCEPT !.open = TRUE]]
        BY <1>10, <3>4 DEF Respond
      <4> QED
        BY <3>1, <3>2, <3>4, <4>1 DEF TypeOK
    <3> QED
      BY <3>3, <3>4
  <2> QED
    BY <1>10, <2>1, <2>2 DEF Respond, TypeOK, server, history
<1>11. ASSUME NEW sid \in Sids, Lapse(sid) \/ Cleanup(sid) PROVE TypeOK'
  BY <1>11 DEF Lapse, Cleanup, TypeOK, server, outside, history
<1>12. CASE UNCHANGED vars
  BY <1>12 DEF vars, server, outside, history, TypeOK
<1>13. ASSUME NEW p \in Requests, DestroyFails(p) PROVE TypeOK'
  <2>1. req[p] \in Request /\ req[p].data \in Data /\ req[p].sid \in Sids \cup {NULL} /\ Busy(p)
    BY <1>13 DEF DestroyFails, TypeOK, Busy, Request
  <2>2. req' \in [Requests -> Request \cup {NULL}]
    BY <1>13, <2>1, AnswerTypes DEF DestroyFails, Answers
  <2>3. store' \in [Sids -> Data \cup {NULL}] /\ disturbed' \subseteq States
    BY <1>13, <2>1 DEF DestroyFails, TypeOK, FlowsOf
  <2> QED
    BY <1>13, <2>2, <2>3 DEF DestroyFails, TypeOK, outside
<1> QED
  BY <1>1, <1>2, <1>3, <1>4, <1>5, <1>6, <1>7, <1>8, <1>9, <1>10, <1>11, <1>12, <1>13 DEF Next, Handle

-------------------------------------------------------------------------------
(* The shape of the steps: what the conjuncts of the invariant need to know.  *)

Others(p) == \A q \in Requests \ {p} : req'[q] = req[q]

\* Request p goes on from one phase to the next.
GoesOn(p, phase, next) ==
  /\ Busy(p) /\ req[p].phase = phase
  /\ req'[p] # NULL /\ req'[p].phase = next
  /\ req'[p].browser = req[p].browser
  /\ req'[p].route = req[p].route
  /\ req'[p].param = req[p].param
  /\ Others(p)

Arrived(p, b) ==
  /\ ~Busy(p)
  /\ Others(p)
  /\ req'[p] # NULL
  /\ req'[p].phase = "handle" /\ req'[p].browser = b
  /\ req'[p].status = "unmodified" /\ req'[p].opens = NULL
  /\ IF Find(cookie[b]) = NULL THEN req'[p].sid = NULL /\ req'[p].data = Empty
     ELSE req'[p].sid = cookie[b] /\ req'[p].data = Find(cookie[b])
  /\ req'[p].route \in {"callback", "token_callback"} =>
       /\ req'[p].param \in States
       /\ flow[req'[p].param] # NULL
       /\ flow[req'[p].param].open
       /\ flow[req'[p].param].browser = b
       /\ flow[req'[p].param].kind = "login" <=> req'[p].route = "callback"
  /\ disturbed' = IF req'[p].route = "page" \/ Writers(b) = {} THEN disturbed
                  ELSE disturbed \cup FlowsOf(b)
  /\ alone' = CASE req'[p].route = "page"  -> alone
               [] Writers(b) = {} -> alone \cup {p}
               [] OTHER           -> alone \ (Writers(b) \cup {p})
  /\ UNCHANGED <<store, lapsed, drawn, cookie, flow, ended, out, late>>

Begun(p, s) ==
  /\ GoesOn(p, "handle", "commit")
  /\ req[p].route # "page"
  /\ req'[p].status = "modified" /\ req'[p].opens = s /\ req'[p].sid = req[p].sid
  /\ req'[p].data.user = req[p].data.user
  /\ \E kind \in {"login", "token"} :
       /\ flow' = [flow EXCEPT ![s] =
            [kind |-> kind, browser |-> req[p].browser, starter |-> req[p].data.user,
             open |-> FALSE]]
       /\ disturbed' = disturbed \cup KindOf(req[p].browser, kind)
                         \cup (IF p \in alone THEN {} ELSE {s})
       /\ IF kind = "login"
          THEN /\ req'[p].data.state = s
               /\ req'[p].data.user_token_state = req[p].data.user_token_state
          ELSE /\ req'[p].data.state = req[p].data.state
               /\ req'[p].data.user_token_state = s
               /\ req[p].data.user # NULL
  /\ flow[s] = NULL
  /\ UNCHANGED <<store, lapsed, drawn, cookie, alone, ended, out, late>>

Answered(p) ==
  /\ GoesOn(p, "handle", After(req'[p].status))
  /\ req'[p].sid = req[p].sid /\ req'[p].opens = req[p].opens
  /\ req'[p].status # "destroyed"
  /\ req[p].route = "page" => req'[p].status = "unmodified"
  /\ \/ req'[p].data.state = req[p].data.state
     \/ req'[p].data.state = NULL /\ KindOf(req[p].browser, "login") \subseteq disturbed'
  /\ \/ req'[p].data.user_token_state = req[p].data.user_token_state
     \/ /\ req'[p].data.user_token_state = NULL
        /\ KindOf(req[p].browser, "token") \subseteq disturbed'
  /\ req[p].data.user # NULL => req'[p].data.user # NULL
  /\ \/ req'[p].data.user = req[p].data.user /\ UNCHANGED <<out, late>>
     \/ Enters(req[p].browser)
  /\ disturbed \subseteq disturbed'
  /\ UNCHANGED <<store, lapsed, drawn, cookie, flow, alone, ended>>

LoggedOut(p) ==
  /\ GoesOn(p, "handle", "respond")
  /\ req[p].route # "page"
  /\ req'[p].status = "destroyed" /\ req'[p].sid = NULL /\ req'[p].data = Empty
  /\ req'[p].opens = req[p].opens
  /\ store' = IF req[p].sid = NULL THEN store ELSE [store EXCEPT ![req[p].sid] = NULL]
  /\ Parts(p)
  /\ UNCHANGED <<lapsed, drawn, cookie, flow, alone>>

Unheard(p) ==
  /\ GoesOn(p, "handle", "respond")
  /\ req[p].route # "page" /\ req[p].sid # NULL
  /\ req'[p].status = "unmodified"
  /\ req'[p].sid = req[p].sid /\ req'[p].data = req[p].data /\ req'[p].opens = req[p].opens
  /\ store' = [store EXCEPT ![req[p].sid] = NULL]
  /\ disturbed' = disturbed \cup FlowsOf(req[p].browser)
  /\ UNCHANGED <<lapsed, drawn, cookie, flow, alone, ended, out, late>>

Committed(p, sid) ==
  /\ GoesOn(p, "commit", "respond")
  /\ req[p].status = "modified"
  /\ IF req[p].sid = NULL THEN sid \notin drawn ELSE sid = req[p].sid
  /\ req'[p].sid = sid /\ req'[p].data = req[p].data
  /\ req'[p].status = req[p].status /\ req'[p].opens = req[p].opens
  /\ drawn' = drawn \cup {sid}
  /\ store' = [store EXCEPT ![sid] = req[p].data]
  /\ IF p \in late THEN Enters(req[p].browser) ELSE UNCHANGED <<out, late>>
  /\ UNCHANGED <<lapsed, cookie, flow, disturbed, alone, ended>>

Gone(p) == Busy(p) /\ req'[p] = NULL /\ Others(p) /\ alone' = alone \ {p}

Responded(p) ==
  /\ Gone(p)
  /\ req[p].phase = "respond"
  /\ cookie' = CASE req[p].status = "modified"  -> [cookie EXCEPT ![req[p].browser] = req[p].sid]
                 [] req[p].status = "destroyed" -> [cookie EXCEPT ![req[p].browser] = NULL]
                 [] OTHER                       -> cookie
  /\ flow' = IF req[p].opens = NULL THEN flow
             ELSE [flow EXCEPT ![req[p].opens].open = TRUE]
  /\ IF p \in late /\ req[p].status = "modified" THEN Enters(req[p].browser)
     ELSE out' = out /\ late' = late \ {p}
  /\ UNCHANGED <<store, lapsed, drawn, disturbed, ended>>

Aborted(p) ==
  /\ Gone(p)
  /\ disturbed' = disturbed \cup FlowsOf(req[p].browser)
  /\ out' = out /\ late' = late \ {p}
  /\ UNCHANGED <<store, lapsed, drawn, cookie, flow, ended>>

Lapsed(sid) ==
  /\ lapsed' = lapsed \cup {sid}
  /\ disturbed' = disturbed \cup {s \in States : flow[s] # NULL}
  /\ alone' = alone \ {p \in Requests : Busy(p) /\ req[p].sid = sid}
  /\ out' = out \cup {b \in Browsers : cookie[b] = sid}
  /\ late' = late \cup {p \in Requests : /\ Busy(p) /\ req[p].route # "page" /\ req[p].sid # sid
                                         /\ req[p].browser \notin out
                                         /\ cookie[req[p].browser] = sid}
  /\ UNCHANGED <<store, drawn, cookie, flow, req, ended>>

Cleaned(sid) ==
  /\ sid \in lapsed
  /\ store' = [store EXCEPT ![sid] = NULL]
  /\ UNCHANGED <<lapsed, drawn, cookie, flow, req, disturbed, alone, ended, out, late>>

ByRequest(p) ==
  \/ \E b \in Browsers : Arrived(p, b)
  \/ \E s \in States : Begun(p, s)
  \/ Answered(p)
  \/ LoggedOut(p)
  \/ Unheard(p)
  \/ \E sid \in Sids : Committed(p, sid)
  \/ Responded(p)
  \/ Aborted(p)

Shape ==
  \/ \E p \in Requests : ByRequest(p)
  \/ \E sid \in Sids : Lapsed(sid) \/ Cleaned(sid)
  \/ UNCHANGED <<store, lapsed, drawn, cookie, flow, req, disturbed, alone, ended, out, late>>

\* The steps have the shapes, one lemma for each kind.
LEMMA ArriveShape ==
  ASSUME TypeOK, NEW p \in Requests, NEW b \in Browsers, NEW route \in Routes,
         NEW param \in States \cup {NULL}, Arrive(p, b, route, param),
         route \in {"callback", "token_callback"} =>
           /\ param \in States
           /\ flow[param] # NULL
           /\ flow[param].open
           /\ flow[param].browser = b
           /\ flow[param].kind = "login" <=> route = "callback"
  PROVE  Arrived(p, b)
<1> DEFINE found == Find(cookie[b])
           r == [phase |-> "handle", browser |-> b, route |-> route, param |-> param,
                 sid |-> IF found = NULL THEN NULL ELSE cookie[b],
                 data |-> IF found = NULL THEN Empty ELSE found,
                 status |-> "unmodified", opens |-> NULL, answer |-> "none"]
<1>1. req' = [req EXCEPT ![p] = r]
  BY DEF Arrive
<1>2. r \in Request
  BY FindTypes, EmptyTypes DEF TypeOK, Request, Phases, Answers
<1>3. req'[p] = r /\ Others(p) /\ r # NULL
  BY <1>1, <1>2 DEF TypeOK, Others
<1>4. /\ r.phase = "handle" /\ r.browser = b /\ r.route = route /\ r.param = param
      /\ r.sid = IF found = NULL THEN NULL ELSE cookie[b]
      /\ r.data = IF found = NULL THEN Empty ELSE found
      /\ r.status = "unmodified" /\ r.opens = NULL
  OBVIOUS
<1> HIDE DEF r
<1> QED
  BY <1>3, <1>4 DEF Arrive, Arrived, server, outside, parting

\* What an answer keeps of the request.
LEMMA AnswerShape ==
  ASSUME TypeOK, NEW p \in Requests, Busy(p), req[p].phase = "handle", NEW d \in Data,
         NEW status \in {"unmodified", "modified", "destroyed"}, NEW answer \in Answers,
         Answer(p, d, status, answer)
  PROVE  /\ GoesOn(p, "handle", After(status))
         /\ req'[p].sid = req[p].sid /\ req'[p].opens = req[p].opens
         /\ req'[p].data = d /\ req'[p].status = status
<1>1. req[p] \in Request /\ req \in [Requests -> Request \cup {NULL}]
  BY DEF TypeOK, Busy
<1> DEFINE r == [req[p] EXCEPT !.phase = After(status), !.data = d, !.status = status, !.answer = answer]
<1>2. req' = [req EXCEPT ![p] = r]
  BY <1>1 DEF Answer
<1>3. r \in Request
  BY <1>1 DEF Request, Phases, After
<1>4. req'[p] = r /\ Others(p) /\ r # NULL
  BY <1>1, <1>2, <1>3 DEF Others
<1>5. /\ r.phase = After(status) /\ r.browser = req[p].browser /\ r.route = req[p].route
      /\ r.param = req[p].param /\ r.sid = req[p].sid /\ r.opens = req[p].opens
      /\ r.data = d /\ r.status = status
  BY <1>1 DEF Request
<1> HIDE DEF r
<1> QED
  BY <1>4, <1>5 DEF GoesOn

\* What a redirect keeps of the request.
LEMMA RedirectShape ==
  ASSUME TypeOK, NEW p \in Requests, Busy(p), req[p].phase = "handle", NEW s \in States,
         NEW key \in {"state", "user_token_state"}, req' = [req EXCEPT ![p] = Redirect(p, key, s)]
  PROVE  /\ GoesOn(p, "handle", "commit")
         /\ req'[p].sid = req[p].sid /\ req'[p].opens = s
         /\ req'[p].data = [req[p].data EXCEPT ![key] = s] /\ req'[p].status = "modified"
<1>1. req[p] \in Request /\ req \in [Requests -> Request \cup {NULL}]
  BY DEF TypeOK, Busy
<1>2. req'[p] = Redirect(p, key, s) /\ Others(p) /\ req'[p] # NULL
  BY <1>1, RedirectTypes DEF Others
<1>3. /\ Redirect(p, key, s).phase = "commit"
      /\ Redirect(p, key, s).browser = req[p].browser
      /\ Redirect(p, key, s).route = req[p].route
      /\ Redirect(p, key, s).param = req[p].param
      /\ Redirect(p, key, s).sid = req[p].sid
      /\ Redirect(p, key, s).opens = s
      /\ Redirect(p, key, s).data = [req[p].data EXCEPT ![key] = s]
      /\ Redirect(p, key, s).status = "modified"
  BY <1>1 DEF Redirect, Request
<1> QED
  BY <1>2, <1>3 DEF GoesOn

\* What popping one key leaves of the data.
LEMMA PoppedIs ==
  ASSUME TypeOK, NEW p \in Requests, Busy(p)
  PROVE  /\ Popped(p, "state").state = NULL
         /\ Popped(p, "state").user_token_state = req[p].data.user_token_state
         /\ Popped(p, "state").user = req[p].data.user
         /\ Popped(p, "user_token_state").user_token_state = NULL
         /\ Popped(p, "user_token_state").state = req[p].data.state
         /\ Popped(p, "user_token_state").user = req[p].data.user
<1>1. req[p].data \in Data
  BY DEF TypeOK, Busy, Request
<1> QED
  BY <1>1 DEF Popped, Data

\* The handlers that answer without beginning a flow.
LEMMA AnsweringSteps ==
  ASSUME TypeOK, NEW p \in Requests, InOrder(p),
         \/ CallbackRefused(p) \/ CallbackRejected(p) \/ AuthorizeWithoutUser(p)
         \/ UserTokenCallbackRefused(p) \/ UserTokenCallbackRejected(p) \/ Page(p)
         \/ Callback(p) \/ UserTokenCallback(p)
  PROVE  Answered(p)
<1> USE DEF Handling, server, outside, history, parting
<1>1. Busy(p) /\ req[p].phase = "handle" /\ req[p].status = "unmodified" /\ req[p].data \in Data
  <2>1. Busy(p) /\ req[p].phase = "handle"
    BY DEF CallbackRefused, CallbackRejected, AuthorizeWithoutUser, Page, Callback,
           UserTokenCallbackRefused, UserTokenCallbackRejected, UserTokenCallback
  <2> QED
    BY <2>1 DEF InOrder, TypeOK, Busy, Request
<1>2. CASE CallbackRefused(p) \/ AuthorizeWithoutUser(p) \/ Page(p)
  <2>1. PICK answer \in Answers : Answer(p, req[p].data, "unmodified", answer)
    BY <1>2 DEF CallbackRefused, AuthorizeWithoutUser, Page, Answers
  <2>2. UNCHANGED <<store, lapsed, drawn, cookie, flow, disturbed, alone, ended, out, late>>
    BY <1>2 DEF CallbackRefused, AuthorizeWithoutUser, Page
  <2>3. /\ GoesOn(p, "handle", After("unmodified"))
        /\ req'[p].sid = req[p].sid /\ req'[p].opens = req[p].opens
        /\ req'[p].data = req[p].data /\ req'[p].status = "unmodified"
    BY <1>1, <2>1, AnswerShape
  <2> QED
    BY <2>2, <2>3 DEF Answered
<1>3. /\ Popped(p, "state") \in Data /\ Popped(p, "user_token_state") \in Data
      /\ PopStatus(p, "state") \in {"unmodified", "modified"}
      /\ PopStatus(p, "user_token_state") \in {"unmodified", "modified"}
  BY <1>1, PoppedTypes DEF PopStatus
<1>4. CASE CallbackRejected(p) \/ Callback(p)
  <2>1. req[p].route = "callback"
    BY <1>4 DEF CallbackRejected, Callback
  <2>2. /\ disturbed' = disturbed \cup KindOf(req[p].browser, "login")
        /\ UNCHANGED <<store, lapsed, drawn, cookie, flow, alone, ended>>
    BY <1>4 DEF CallbackRejected, Callback
  <2>3. ASSUME NEW status \in {"unmodified", "modified"}, NEW answer \in Answers,
               Answer(p, Popped(p, "state"), status, answer), UNCHANGED <<out, late>>
        PROVE  Answered(p)
    <3>1. /\ GoesOn(p, "handle", After(status))
          /\ req'[p].sid = req[p].sid /\ req'[p].opens = req[p].opens
          /\ req'[p].data = Popped(p, "state") /\ req'[p].status = status
      BY <1>1, <1>3, <2>3, AnswerShape
    <3> QED
      BY <1>1, <2>1, <2>2, <2>3, <3>1, PoppedIs DEF Answered
  <2>4. ASSUME NEW u \in Users, Enters(req[p].browser),
               Answer(p, [Popped(p, "state") EXCEPT !.user = u], "modified", "done")
        PROVE  Answered(p)
    <3> DEFINE d == [Popped(p, "state") EXCEPT !.user = u]
    <3>1. /\ d \in Data /\ d.state = NULL /\ d.user = u
          /\ d.user_token_state = req[p].data.user_token_state
      BY <1>1, <1>3, PoppedIs DEF Data
    <3>2. "done" \in Answers
      BY DEF Answers
    <3>3. Answer(p, d, "modified", "done")
      BY <2>4
    <3> HIDE DEF d
    <3> QED
      <4>1. /\ GoesOn(p, "handle", After("modified"))
            /\ req'[p].sid = req[p].sid /\ req'[p].opens = req[p].opens
            /\ req'[p].data = d /\ req'[p].status = "modified"
        BY <1>1, <3>1, <3>2, <3>3, AnswerShape
      <4> QED
        BY <2>1, <2>2, <2>4, <3>1, <4>1, NullIsNew DEF Answered
  <2>5. \/ \E status \in {"unmodified", "modified"}, answer \in Answers :
             Answer(p, Popped(p, "state"), status, answer) /\ UNCHANGED <<out, late>>
        \/ \E u \in Users : /\ Enters(req[p].browser)
                            /\ Answer(p, [Popped(p, "state") EXCEPT !.user = u], "modified", "done")
    BY <1>3, <1>4 DEF CallbackRejected, Callback, Answers
  <2> QED
    BY <2>3, <2>4, <2>5
<1>5. CASE UserTokenCallbackRefused(p) \/ UserTokenCallbackRejected(p) \/ UserTokenCallback(p)
  <2>1. req[p].route = "token_callback"
    BY <1>5 DEF UserTokenCallbackRefused, UserTokenCallbackRejected, UserTokenCallback
  <2>2. /\ disturbed' = disturbed \cup KindOf(req[p].browser, "token")
        /\ UNCHANGED <<store, lapsed, drawn, cookie, flow, alone, ended, out, late>>
    BY <1>5 DEF UserTokenCallbackRefused, UserTokenCallbackRejected, UserTokenCallback
  <2>3. PICK status \in {"unmodified", "modified"}, answer \in Answers :
             Answer(p, Popped(p, "user_token_state"), status, answer)
    BY <1>3, <1>5 DEF UserTokenCallbackRefused, UserTokenCallbackRejected, UserTokenCallback, Answers
  <2>4. /\ GoesOn(p, "handle", After(status))
        /\ req'[p].sid = req[p].sid /\ req'[p].opens = req[p].opens
        /\ req'[p].data = Popped(p, "user_token_state") /\ req'[p].status = status
    BY <1>1, <1>3, <2>3, AnswerShape
  <2> QED
    BY <1>1, <2>1, <2>2, <2>4, PoppedIs DEF Answered
<1> QED
  BY <1>2, <1>4, <1>5

LEMMA BeginningSteps ==
  ASSUME TypeOK, NEW p \in Requests, Login(p) \/ AuthorizeUserToken(p)
  PROVE  \E s \in States : Begun(p, s)
<1> USE DEF Handling, server, parting
<1>1. Busy(p) /\ req[p].phase = "handle" /\ req[p].data \in Data /\ req[p].route # "page"
  BY DEF Login, AuthorizeUserToken, TypeOK, Busy, Request
<1>2. CASE Login(p)
  <2>1. PICK s \in States : /\ Begins(p, s, "login")
                            /\ req' = [req EXCEPT ![p] = Redirect(p, "state", s)]
    BY <1>1, <1>2, RedirectIs DEF Login
  <2>2. /\ [req[p].data EXCEPT !["state"] = s].state = s
        /\ [req[p].data EXCEPT !["state"] = s].user_token_state = req[p].data.user_token_state
        /\ [req[p].data EXCEPT !["state"] = s].user = req[p].data.user
    BY <1>1 DEF Data
  <2>3. /\ GoesOn(p, "handle", "commit")
        /\ req'[p].sid = req[p].sid /\ req'[p].opens = s
        /\ req'[p].data = [req[p].data EXCEPT !["state"] = s] /\ req'[p].status = "modified"
    BY <1>1, <2>1, RedirectShape
  <2>4. UNCHANGED <<store, lapsed, drawn, cookie, alone, ended, out, late>>
    BY <1>2 DEF Login
  <2> QED
    BY <1>1, <2>1, <2>2, <2>3, <2>4 DEF Begins, Begun
<1>3. CASE AuthorizeUserToken(p)
  <2>1. PICK s \in States : /\ Begins(p, s, "token")
                            /\ req' = [req EXCEPT ![p] = Redirect(p, "user_token_state", s)]
    BY <1>1, <1>3, RedirectIs DEF AuthorizeUserToken
  <2>2. /\ [req[p].data EXCEPT !["user_token_state"] = s].user_token_state = s
        /\ [req[p].data EXCEPT !["user_token_state"] = s].state = req[p].data.state
        /\ [req[p].data EXCEPT !["user_token_state"] = s].user = req[p].data.user
    BY <1>1 DEF Data
  <2>3. /\ GoesOn(p, "handle", "commit")
        /\ req'[p].sid = req[p].sid /\ req'[p].opens = s
        /\ req'[p].data = [req[p].data EXCEPT !["user_token_state"] = s] /\ req'[p].status = "modified"
    BY <1>1, <2>1, RedirectShape
  <2>4. UNCHANGED <<store, lapsed, drawn, cookie, alone, ended, out, late>> /\ req[p].data.user # NULL
    BY <1>3 DEF AuthorizeUserToken
  <2> QED
    BY <1>1, <2>1, <2>2, <2>3, <2>4 DEF Begins, Begun
<1> QED
  BY <1>2, <1>3

LEMMA LogoutShape ==
  ASSUME TypeOK, NEW p \in Requests, Logout(p) PROVE LoggedOut(p)
<1> DEFINE r == [req[p] EXCEPT !.phase = "respond", !.status = "destroyed", !.data = Empty,
                              !.sid = NULL, !.answer = "other"]
<1>1. req[p] \in Request /\ Busy(p) /\ req[p].phase = "handle" /\ req[p].route = "logout"
  BY DEF Logout, Handling, TypeOK, Busy
<1>2. req' = [req EXCEPT ![p] = r]
  BY <1>1 DEF Logout, TypeOK
<1>3. r \in Request
  BY <1>1, EmptyTypes DEF Request, Phases, Answers
<1>4. /\ r.phase = "respond" /\ r.browser = req[p].browser /\ r.route = req[p].route
      /\ r.param = req[p].param /\ r.sid = NULL /\ r.opens = req[p].opens
      /\ r.data = Empty /\ r.status = "destroyed"
  BY <1>1 DEF Request
<1>5. req'[p] = r /\ Others(p) /\ r # NULL
  BY <1>2, <1>3 DEF Others, TypeOK
<1> HIDE DEF r
<1> QED
  BY <1>1, <1>4, <1>5 DEF Logout, LoggedOut, GoesOn, outside

LEMMA DestroyFailsShape ==
  ASSUME TypeOK, NEW p \in Requests, InOrder(p), DestroyFails(p) PROVE Answered(p) \/ Unheard(p)
<1>1. /\ Busy(p) /\ req[p].phase = "handle" /\ req[p].route = "logout" /\ req[p].data \in Data
      /\ UNCHANGED <<lapsed, drawn, cookie, flow, alone, ended, out, late>>
  BY DEF DestroyFails, Handling, TypeOK, Busy, Request, outside, parting
<1>2. /\ GoesOn(p, "handle", After("unmodified"))
      /\ req'[p].sid = req[p].sid /\ req'[p].opens = req[p].opens
      /\ req'[p].data = req[p].data /\ req'[p].status = "unmodified"
  BY <1>1, AnswerShape DEF DestroyFails, Answers
<1>3. CASE UNCHANGED <<store, disturbed>>
  BY <1>1, <1>2, <1>3 DEF Answered
<1>4. CASE /\ req[p].sid # NULL
           /\ store' = [store EXCEPT ![req[p].sid] = NULL]
           /\ disturbed' = disturbed \cup FlowsOf(req[p].browser)
  BY <1>1, <1>2, <1>4 DEF Unheard, After
<1> QED
  BY <1>3, <1>4 DEF DestroyFails

LEMMA CommitShape ==
  ASSUME TypeOK, NEW p \in Requests, Commit(p) PROVE \E sid \in Sids : Committed(p, sid)
<1>1. req[p] \in Request /\ Busy(p) /\ req[p].phase = "commit" /\ req[p].status = "modified"
  BY DEF Commit, TypeOK, Busy
<1>2. PICK sid \in Sids :
        /\ IF req[p].sid = NULL THEN sid \notin drawn ELSE sid = req[p].sid
        /\ drawn' = drawn \cup {sid}
        /\ store' = [store EXCEPT ![sid] = req[p].data]
        /\ req' = [req EXCEPT ![p].phase = "respond", ![p].sid = sid]
  BY DEF Commit
<1> DEFINE r == [req[p] EXCEPT !.phase = "respond", !.sid = sid]
<1>3. req' = [req EXCEPT ![p] = r]
  BY <1>1, <1>2 DEF TypeOK
<1>4. r \in Request
  BY <1>1 DEF Request, Phases
<1>5. /\ r.phase = "respond" /\ r.browser = req[p].browser /\ r.route = req[p].route
      /\ r.param = req[p].param /\ r.sid = sid /\ r.opens = req[p].opens
      /\ r.data = req[p].data /\ r.status = req[p].status
  BY <1>1 DEF Request
<1>6. req'[p] = r /\ Others(p) /\ r # NULL
  BY <1>3, <1>4 DEF Others, TypeOK
<1> HIDE DEF r
<1>7. /\ IF p \in late THEN Enters(req[p].browser) ELSE UNCHANGED <<out, late>>
      /\ UNCHANGED <<lapsed, cookie, flow, disturbed, alone, ended>>
  BY DEF Commit, outside, history, parting
<1> QED
  BY <1>1, <1>2, <1>5, <1>6, <1>7 DEF Committed, GoesOn

\* Every step has one of the shapes.
LEMMA StepShape ==
  ASSUME TypeOK, \A p \in Requests : InOrder(p), [Next]_vars
  PROVE  Shape
<1>1. ASSUME NEW p \in Requests, NEW b \in Browsers, Visit(p, b) PROVE Shape
  <2>1. Arrived(p, b)
    BY <1>1, ArriveShape DEF Visit, Routes
  <2> QED
    BY <2>1 DEF Shape, ByRequest
<1>2. ASSUME NEW p \in Requests, NEW s \in States, Return(p, s) PROVE Shape
  <2>1. flow[s] \in Flow
    BY <1>2 DEF TypeOK, Return
  <2>2. flow[s].browser \in Browsers /\ flow[s].kind \in {"login", "token"}
    BY <2>1 DEF Flow
  <2>3. CASE flow[s].kind = "login"
    BY <1>2, <2>2, <2>3, ArriveShape DEF Return, Routes, Shape, ByRequest
  <2>4. CASE flow[s].kind = "token"
    BY <1>2, <2>2, <2>4, ArriveShape DEF Return, Routes, Shape, ByRequest
  <2> QED
    BY <2>2, <2>3, <2>4
<1>3. ASSUME NEW p \in Requests, Handle(p) PROVE Shape
  <2>1. (\E s \in States : Begun(p, s)) \/ Answered(p) \/ LoggedOut(p) \/ Unheard(p)
    BY <1>3, AnsweringSteps, BeginningSteps, LogoutShape, DestroyFailsShape DEF Handle
  <2> QED
    BY <2>1 DEF Shape, ByRequest
<1>4. ASSUME NEW p \in Requests, Commit(p) PROVE Shape
  BY <1>4, CommitShape DEF Shape, ByRequest
<1>5. ASSUME NEW p \in Requests, Respond(p) \/ Abort(p) PROVE Shape
  <2>1. req'[p] = NULL /\ Others(p) /\ Busy(p)
    BY <1>5 DEF Respond, Abort, TypeOK, Others
  <2>2. Responded(p) \/ Aborted(p)
    BY <1>5, <2>1 DEF Respond, Abort, Responded, Aborted, Gone, server, outside, history, parting
  <2> QED
    BY <2>2 DEF Shape, ByRequest
<1>6. ASSUME NEW sid \in Sids, Lapse(sid) \/ Cleanup(sid) PROVE Shape
  <2>1. Lapsed(sid) \/ Cleaned(sid)
    BY <1>6 DEF Lapse, Cleanup, Lapsed, Cleaned, server, outside, history, parting
  <2> QED
    BY <2>1 DEF Shape, ByRequest
<1>7. CASE UNCHANGED vars
  BY <1>7 DEF Shape, ByRequest, vars, server, outside, history, parting
<1> QED
  BY <1>1, <1>2, <1>3, <1>4, <1>5, <1>6, <1>7 DEF Next

-------------------------------------------------------------------------------
(* The conjuncts of the invariant, from the shapes.                           *)

\* What was disturbed stays so.
LEMMA DisturbedGrows ==
  ASSUME Shape
  PROVE  disturbed \subseteq disturbed'
<1>1. ASSUME NEW p \in Requests, NEW b \in Browsers, Arrived(p, b) PROVE disturbed \subseteq disturbed'
  BY <1>1 DEF Arrived
<1>2. ASSUME NEW p \in Requests, NEW s \in States, Begun(p, s) PROVE disturbed \subseteq disturbed'
  BY <1>2 DEF Begun
<1>3. ASSUME NEW p \in Requests, Answered(p) PROVE disturbed \subseteq disturbed'
  BY <1>3 DEF Answered
<1>4. ASSUME NEW p \in Requests, LoggedOut(p) \/ Unheard(p) PROVE disturbed \subseteq disturbed'
  BY <1>4 DEF LoggedOut, Parts, Unheard
<1>5. ASSUME NEW p \in Requests, NEW sid \in Sids, Committed(p, sid) PROVE disturbed \subseteq disturbed'
  BY <1>5 DEF Committed
<1>6. ASSUME NEW p \in Requests, Aborted(p) PROVE disturbed \subseteq disturbed'
  BY <1>6 DEF Aborted
<1>7. ASSUME NEW p \in Requests, Responded(p) PROVE disturbed \subseteq disturbed'
  BY <1>7 DEF Responded
<1>8. ASSUME NEW sid \in Sids, Lapsed(sid) PROVE disturbed \subseteq disturbed'
  BY <1>8 DEF Lapsed
<1>9. ASSUME NEW sid \in Sids, Cleaned(sid) PROVE disturbed \subseteq disturbed'
  BY <1>9 DEF Cleaned
<1> QED
  BY <1>1, <1>2, <1>3, <1>4, <1>5, <1>6, <1>7, <1>8, <1>9 DEF Shape, ByRequest

\* Only a logout ends flows.
LEMMA EndedStays ==
  ASSUME Shape, ~\E p \in Requests : LoggedOut(p)
  PROVE  ended' = ended
<1>1. ASSUME NEW p \in Requests, NEW b \in Browsers, Arrived(p, b) PROVE ended' = ended
  BY <1>1 DEF Arrived
<1>2. ASSUME NEW p \in Requests, NEW s \in States, Begun(p, s) PROVE ended' = ended
  BY <1>2 DEF Begun
<1>3. ASSUME NEW p \in Requests, Answered(p) PROVE ended' = ended
  BY <1>3 DEF Answered
<1>4. ASSUME NEW p \in Requests, NEW sid \in Sids, Committed(p, sid) PROVE ended' = ended
  BY <1>4 DEF Committed
<1>5. ASSUME NEW p \in Requests, Aborted(p) \/ Unheard(p) PROVE ended' = ended
  BY <1>5 DEF Aborted, Unheard
<1>6. ASSUME NEW p \in Requests, Responded(p) PROVE ended' = ended
  BY <1>6 DEF Responded
<1>7. ASSUME NEW sid \in Sids, Lapsed(sid) PROVE ended' = ended
  BY <1>7 DEF Lapsed
<1>8. ASSUME NEW sid \in Sids, Cleaned(sid) PROVE ended' = ended
  BY <1>8 DEF Cleaned
<1> QED
  BY <1>1, <1>2, <1>3, <1>4, <1>5, <1>6, <1>7, <1>8 DEF Shape, ByRequest

\* Only a beginning and a response change flows.
LEMMA FlowStays ==
  ASSUME Shape, ~\E p \in Requests, s \in States : Begun(p, s), ~\E p \in Requests : Responded(p)
  PROVE  flow' = flow
<1>1. ASSUME NEW p \in Requests, NEW b \in Browsers, Arrived(p, b) PROVE flow' = flow
  BY <1>1 DEF Arrived
<1>2. ASSUME NEW p \in Requests, Answered(p) PROVE flow' = flow
  BY <1>2 DEF Answered
<1>3. ASSUME NEW p \in Requests, LoggedOut(p) \/ Unheard(p) PROVE flow' = flow
  BY <1>3 DEF LoggedOut, Unheard
<1>4. ASSUME NEW p \in Requests, NEW sid \in Sids, Committed(p, sid) PROVE flow' = flow
  BY <1>4 DEF Committed
<1>5. ASSUME NEW p \in Requests, Aborted(p) PROVE flow' = flow
  BY <1>5 DEF Aborted
<1>6. ASSUME NEW sid \in Sids, Lapsed(sid) PROVE flow' = flow
  BY <1>6 DEF Lapsed
<1>7. ASSUME NEW sid \in Sids, Cleaned(sid) PROVE flow' = flow
  BY <1>7 DEF Cleaned
<1> QED
  BY <1>1, <1>2, <1>3, <1>4, <1>5, <1>6, <1>7 DEF Shape, ByRequest

\* A flow keeps its kind and its browser, and once open stays open.
LEMMA FlowsPersist ==
  ASSUME TypeOK, \A p \in Requests : InOrder(p), Shape, NEW s \in States, flow[s] # NULL
  PROVE  /\ flow'[s] # NULL
         /\ flow'[s].browser = flow[s].browser
         /\ flow'[s].kind = flow[s].kind
         /\ flow[s].open => flow'[s].open
<1>1. flow[s] \in Flow
  BY DEF TypeOK
<1>2. ASSUME NEW p \in Requests, NEW x \in States, Begun(p, x) PROVE flow'[s] = flow[s]
  BY <1>2 DEF Begun, TypeOK
<1>3. ASSUME NEW p \in Requests, Responded(p)
      PROVE  flow'[s] = flow[s] \/ flow'[s] = [flow[s] EXCEPT !.open = TRUE]
  BY <1>3 DEF Responded, TypeOK
<1>4. flow'[s] = flow[s] \/ flow'[s] = [flow[s] EXCEPT !.open = TRUE]
  <2>1. CASE \E p \in Requests, x \in States : Begun(p, x)
    BY <1>2, <2>1
  <2>2. CASE \E p \in Requests : Responded(p)
    BY <1>3, <2>2
  <2>3. CASE ~(\E p \in Requests, x \in States : Begun(p, x)) /\ ~\E p \in Requests : Responded(p)
    BY <2>3, FlowStays
  <2> QED
    BY <2>1, <2>2, <2>3
<1>5. [flow[s] EXCEPT !.open = TRUE] \in Flow
  BY <1>1 DEF Flow
<1> QED
  BY <1>1, <1>4, <1>5 DEF Flow

\* A session token stays with one browser: a commit draws an unknown one.
LEMMA StepOwnTokens ==
  ASSUME TypeOK, TypeOK', OwnTokens, \A p \in Requests : InOrder(p), Shape
  PROVE  OwnTokens'
<1> USE DEF OwnTokens, Busy, Others, GoesOn
<1>1. ASSUME NEW p \in Requests, NEW b \in Browsers, Arrived(p, b) PROVE OwnTokens'
  BY <1>1 DEF Arrived
<1>2. ASSUME NEW p \in Requests, NEW s \in States, Begun(p, s) PROVE OwnTokens'
  BY <1>2 DEF Begun
<1>3. ASSUME NEW p \in Requests, Answered(p) \/ LoggedOut(p) \/ Unheard(p) PROVE OwnTokens'
  BY <1>3 DEF Answered, LoggedOut, Unheard
<1>4. ASSUME NEW p \in Requests, NEW sid \in Sids, Committed(p, sid) PROVE OwnTokens'
  BY <1>4 DEF Committed
<1>5. ASSUME NEW p \in Requests, Responded(p) PROVE OwnTokens'
  <2>1. req[p].browser \in Browsers /\ req[p].sid \in Sids \cup {NULL}
    BY <1>5 DEF Responded, Gone, TypeOK, Request
  <2> QED
    BY <1>5, <2>1 DEF Responded, Gone, TypeOK
<1>6. ASSUME NEW p \in Requests, Aborted(p) PROVE OwnTokens'
  BY <1>6 DEF Aborted, Gone
<1>7. ASSUME NEW sid \in Sids, Lapsed(sid) \/ Cleaned(sid) PROVE OwnTokens'
  BY <1>7 DEF Lapsed, Cleaned
<1>8. CASE UNCHANGED <<store, lapsed, drawn, cookie, flow, req, disturbed, alone, ended, out, late>>
  BY <1>8
<1> QED
  BY <1>1, <1>2, <1>3, <1>4, <1>5, <1>6, <1>7, <1>8 DEF Shape, ByRequest

\* Requests keep to the order of their work.
LEMMA StepInOrder ==
  ASSUME TypeOK, TypeOK', \A p \in Requests : InOrder(p), Shape
  PROVE  \A p \in Requests : InOrder(p)'
<1> SUFFICES ASSUME NEW q \in Requests PROVE InOrder(q)'
  OBVIOUS
<1>1. ASSUME InOrder(q), Busy(q), req'[q] = req[q] PROVE InOrder(q)'
  <2>1. req[q] \in Request
    BY <1>1 DEF TypeOK, Busy
  <2>2. req[q].opens \in States \cup {NULL} /\ req[q].param \in States \cup {NULL}
    BY <2>1 DEF Request
  <2> QED
    BY <1>1, <2>2, FlowsPersist DEF InOrder, Busy
<1>2. ASSUME req'[q] = req[q] PROVE InOrder(q)'
  BY <1>1, <1>2 DEF InOrder, Busy
<1>3. ASSUME NEW b \in Browsers, Arrived(q, b) PROVE InOrder(q)'
  BY <1>3 DEF Arrived, InOrder
<1>4. ASSUME Busy(q), req'[q].browser = req[q].browser, req'[q].route = req[q].route,
             req'[q].param = req[q].param, req'[q].phase # "handle",
             req'[q].opens # NULL =>
               /\ req'[q].status = "modified"
               /\ flow'[req'[q].opens] # NULL
               /\ flow'[req'[q].opens].browser = req[q].browser,
             req[q].route = "page" => req'[q].status = "unmodified"
      PROVE  InOrder(q)'
  BY <1>4, FlowsPersist DEF InOrder
<1>5. ASSUME NEW s \in States, Begun(q, s) PROVE InOrder(q)'
  <2>1. flow'[s] # NULL /\ flow'[s].browser = req[q].browser
    <3>1. req[q].browser \in Browsers /\ req[q].data.user \in Users \cup {NULL}
      BY <1>5 DEF Begun, GoesOn, TypeOK, Busy, Request, Data
    <3> DEFINE f(kind) == [kind |-> kind, browser |-> req[q].browser,
                           starter |-> req[q].data.user, open |-> FALSE]
    <3>2. PICK kind \in {"login", "token"} : flow' = [flow EXCEPT ![s] = f(kind)]
      BY <1>5 DEF Begun
    <3>3. f(kind) \in Flow /\ f(kind).browser = req[q].browser
      BY <3>1 DEF Flow
    <3> HIDE DEF f
    <3> QED
      BY <3>2, <3>3 DEF TypeOK
  <2> QED
    BY <1>4, <1>5, <2>1 DEF Begun, GoesOn
<1>6. ASSUME Answered(q) \/ LoggedOut(q) \/ Unheard(q) PROVE InOrder(q)'
  <2>1. req[q].opens = NULL
    BY <1>6 DEF Answered, LoggedOut, Unheard, GoesOn, InOrder
  <2> QED
    BY <1>4, <1>6, <2>1 DEF Answered, LoggedOut, Unheard, GoesOn, After
<1>7. ASSUME \E sid \in Sids : Committed(q, sid) PROVE InOrder(q)'
  <2>1. req[q] \in Request
    BY <1>7 DEF TypeOK, Busy, Committed, GoesOn
  <2>2. req[q].opens \in States \cup {NULL}
    BY <2>1 DEF Request
  <2>3. /\ Busy(q) /\ req'[q].browser = req[q].browser /\ req'[q].route = req[q].route
        /\ req'[q].param = req[q].param /\ req'[q].phase = "respond"
        /\ req'[q].status = req[q].status /\ req'[q].opens = req[q].opens
    BY <1>7 DEF Committed, GoesOn
  <2>4. ASSUME req[q].opens # NULL
        PROVE  /\ req[q].status = "modified"
               /\ flow'[req[q].opens] # NULL
               /\ flow'[req[q].opens].browser = req[q].browser
    <3>1. /\ req[q].status = "modified" /\ flow[req[q].opens] # NULL
          /\ flow[req[q].opens].browser = req[q].browser
      BY <2>3, <2>4 DEF InOrder
    <3>2. req[q].opens \in States
      BY <2>2, <2>4
    <3> QED
      BY <3>1, <3>2, FlowsPersist
  <2>5. req[q].route = "page" => req[q].status = "unmodified"
    BY <2>3 DEF InOrder
  <2> QED
    BY <1>4, <2>3, <2>4, <2>5
<1>8. ASSUME Gone(q) PROVE InOrder(q)'
  BY <1>8 DEF Gone, InOrder, Busy
<1>9. ASSUME NEW p \in Requests, p # q, Others(p) PROVE InOrder(q)'
  BY <1>2, <1>9 DEF Others
<1>10. CASE UNCHANGED req
  BY <1>2, <1>10
<1>11. ASSUME NEW p \in Requests, NEW b \in Browsers, Arrived(p, b) PROVE InOrder(q)'
  <2>1. p = q => Arrived(q, b)
    BY <1>11
  <2>2. Others(p)
    BY <1>11 DEF Arrived
  <2> QED
    BY <1>3, <1>9, <2>1, <2>2
<1>12. ASSUME NEW p \in Requests, NEW s \in States, Begun(p, s) PROVE InOrder(q)'
  <2>1. Others(p)
    BY <1>12 DEF Begun, GoesOn
  <2> QED
    BY <1>5, <1>9, <1>12, <2>1
<1>13. ASSUME NEW p \in Requests, Answered(p) \/ LoggedOut(p) \/ Unheard(p) PROVE InOrder(q)'
  <2>1. Others(p)
    BY <1>13 DEF Answered, LoggedOut, Unheard, GoesOn
  <2> QED
    BY <1>6, <1>9, <1>13, <2>1
<1>14. ASSUME NEW p \in Requests, NEW sid \in Sids, Committed(p, sid) PROVE InOrder(q)'
  <2>1. Others(p)
    BY <1>14 DEF Committed, GoesOn
  <2> QED
    BY <1>7, <1>9, <1>14, <2>1
<1>15. ASSUME NEW p \in Requests, Gone(p) PROVE InOrder(q)'
  BY <1>8, <1>9, <1>15 DEF Gone
<1> QED
  BY <1>10, <1>11, <1>12, <1>13, <1>14, <1>15
     DEF Shape, ByRequest, Responded, Aborted, Lapsed, Cleaned

\* What the other conjuncts use of the order of a request's work.
LEMMA OrderFacts ==
  ASSUME TypeOK, NEW p \in Requests, InOrder(p), Busy(p)
  PROVE  /\ req[p] \in Request
         /\ req[p].browser \in Browsers /\ req[p].sid \in Sids \cup {NULL} /\ req[p].data \in Data
         /\ req[p].phase = "handle" => req[p].status = "unmodified" /\ req[p].opens = NULL
         /\ req[p].status # "unmodified" => Writing(p)
<1>1. req[p] \in Request
  BY DEF TypeOK, Busy
<1> QED
  BY <1>1 DEF InOrder, Request, Writing

\* A request that is alone stays so until another writing one arrives.
LEMMA StepUndivided ==
  ASSUME TypeOK, TypeOK', OwnTokens, \A p \in Requests : InOrder(p) /\ Undivided(p), Shape
  PROVE  \A p \in Requests : Undivided(p)'
<1> SUFFICES ASSUME NEW q \in Requests, Writing(q)', q \in alone' PROVE Undivided(q)'
  BY DEF Undivided
<1> DEFINE b == req[q].browser
<1>1. lapsed \subseteq drawn /\ drawn \subseteq Sids /\ cookie \in [Browsers -> Sids \cup {NULL}]
  BY DEF TypeOK
\* Another request of another browser, or a page, leaves q undivided.
<1>2. ASSUME NEW p \in Requests, p # q, Others(p), lapsed' = lapsed, q \in alone,
             Writers(b)' \subseteq Writers(b),
             cookie'[b] = cookie[b],
             Find(cookie[b]) = NULL => Find(cookie[b])' = NULL
      PROVE  Undivided(q)'
  <2>1. req'[q] = req[q] /\ Writing(q)
    BY <1>2 DEF Others, Writing, Busy
  <2>2. Writers(b)' = {q}
    BY <1>2, <2>1 DEF Undivided, Writers, Writing, Busy
  <2> QED
    BY <1>2, <2>1, <2>2 DEF Undivided, Writing
\* A request that goes on writes, or not, as before.
<1>3. ASSUME NEW p \in Requests, NEW phase, NEW next, GoesOn(p, phase, next)
      PROVE  \A c \in Browsers : Writers(c)' = Writers(c)
  BY <1>3 DEF GoesOn, Others, Writers, Busy
<1>4. ASSUME NEW phase, NEW next, GoesOn(q, phase, next), q \in alone, next # "handle",
             lapsed' = lapsed, req'[q].sid = NULL \/ req'[q].sid = req[q].sid \/ req'[q].sid \notin drawn
      PROVE  Undivided(q)'
  <2>1. Writing(q) /\ b \in Browsers /\ req'[q].browser = b
    BY <1>4, OrderFacts DEF GoesOn, Writing, Busy
  <2>2. Writers(b)' = {q}
    BY <1>3, <1>4, <2>1 DEF Undivided
  <2> QED
    BY <1>1, <1>4, <2>1, <2>2 DEF Undivided, GoesOn
<1>5. ASSUME NEW p \in Requests, p # q, Others(p), UNCHANGED <<store, lapsed, cookie>>,
             q \in alone, Writers(b)' \subseteq Writers(b)
      PROVE  Undivided(q)'
  BY <1>2, <1>5 DEF Find, Others
<1>6. ASSUME NEW p \in Requests, NEW c \in Browsers, Arrived(p, c) PROVE Undivided(q)'
  <2>1. CASE p = q
    <3>1. req'[q].route # "page" /\ q \notin alone \ {q}
      BY <1>6, <2>1 DEF Writing
    <3>2. Writers(c) = {}
      BY <1>6, <2>1, <3>1 DEF Arrived, Writers, Busy
    <3>3. Writers(c)' = {q}
      BY <1>6, <2>1, <3>1, <3>2 DEF Arrived, Writers, Busy, Others
    <3>4. /\ req'[q].sid \notin lapsed'
          /\ IF req'[q].sid = NULL THEN Find(cookie[c])' = NULL ELSE cookie'[c] = req'[q].sid
      BY <1>1, <1>6, <2>1 DEF Arrived, Find
    <3> QED
      BY <1>6, <2>1, <3>3, <3>4 DEF Undivided, Arrived
  <2>2. CASE p # q
    <3>1. Writing(q) /\ req'[q] = req[q]
      BY <1>6, <2>2 DEF Arrived, Others, Writing, Busy
    <3>2. q \in alone /\ (c = b => req'[p].route = "page")
      BY <1>6, <2>2, <3>1 DEF Arrived, Writers, Writing
    <3>3. Writers(b)' \subseteq Writers(b)
      BY <1>6, <2>2, <3>1, <3>2 DEF Arrived, Others, Writers, Busy
    <3> QED
      BY <1>5, <1>6, <2>2, <3>2, <3>3 DEF Arrived
  <2> QED
    BY <2>1, <2>2
<1>7. ASSUME NEW p \in Requests, NEW s \in States, Begun(p, s) PROVE Undivided(q)'
  <2>1. CASE p = q
    BY <1>4, <1>7, <2>1 DEF Begun
  <2>2. CASE p # q
    <3>1. Others(p) /\ UNCHANGED <<store, lapsed, cookie>> /\ q \in alone /\ req'[q] = req[q]
      BY <1>7, <2>2 DEF Begun, GoesOn, Others
    <3>2. b \in Browsers
      BY <3>1, OrderFacts DEF Writing, Busy
    <3>3. Writers(b)' = Writers(b)
      BY <1>3, <1>7, <3>1, <3>2 DEF Begun
    <3> QED
      BY <1>5, <2>2, <3>1, <3>3
  <2> QED
    BY <2>1, <2>2
<1>8. ASSUME NEW p \in Requests, Answered(p) PROVE Undivided(q)'
  <2>1. CASE p = q
    BY <1>4, <1>8, <2>1 DEF Answered, After
  <2>2. CASE p # q
    <3>1. Others(p) /\ UNCHANGED <<store, lapsed, cookie>> /\ q \in alone /\ req'[q] = req[q]
      BY <1>8, <2>2 DEF Answered, GoesOn, Others
    <3>2. b \in Browsers
      BY <3>1, OrderFacts DEF Writing, Busy
    <3>3. Writers(b)' = Writers(b)
      BY <1>3, <1>8, <3>1, <3>2 DEF Answered
    <3> QED
      BY <1>5, <2>2, <3>1, <3>3
  <2> QED
    BY <2>1, <2>2
<1>9. ASSUME NEW p \in Requests, LoggedOut(p) \/ Unheard(p) PROVE Undivided(q)'
  <2>1. CASE p = q
    BY <1>4, <1>9, <2>1 DEF LoggedOut, Unheard
  <2>2. CASE p # q
    <3>1. Others(p) /\ UNCHANGED <<lapsed, cookie>> /\ q \in alone /\ req'[q] = req[q]
      BY <1>9, <2>2 DEF LoggedOut, Unheard, GoesOn, Others
    <3>2. Writing(q) /\ b \in Browsers
      BY <3>1, OrderFacts DEF Writing, Busy
    <3>3. Writers(b)' = Writers(b)
      BY <1>3, <1>9, <3>1, <3>2 DEF LoggedOut, Unheard
    <3>4. Find(cookie[b]) = NULL => Find(cookie[b])' = NULL
      BY <1>9, <3>1, <3>2 DEF LoggedOut, Unheard, Find, TypeOK
    <3> QED
      BY <1>2, <2>2, <3>1, <3>3, <3>4
  <2> QED
    BY <2>1, <2>2
<1>10. ASSUME NEW p \in Requests, NEW sid \in Sids, Committed(p, sid) PROVE Undivided(q)'
  <2>1. CASE p = q
    <3>1. req'[q].sid = req[q].sid \/ req'[q].sid \notin drawn
      BY <1>10, <2>1 DEF Committed
    <3> QED
      BY <1>4, <1>10, <2>1, <3>1 DEF Committed
  <2>2. CASE p # q
    <3>1. Others(p) /\ UNCHANGED <<lapsed, cookie>> /\ q \in alone /\ req'[q] = req[q]
      BY <1>10, <2>2 DEF Committed, GoesOn, Others
    <3>2. Writing(q) /\ b \in Browsers
      BY <3>1, OrderFacts DEF Writing, Busy
    <3>3. Writers(b)' = Writers(b)
      BY <1>3, <1>10, <3>1, <3>2 DEF Committed
    <3>4. Writing(p) /\ req[p].browser # b
      <4>1. Busy(p) /\ Writing(p)
        BY <1>10, OrderFacts DEF Committed, GoesOn
      <4>2. Writers(b) = {q}
        BY <3>1, <3>2 DEF Undivided
      <4> QED
        BY <2>2, <4>1, <4>2 DEF Writers, Writing
    <3>5. sid # cookie[b]
      BY <1>10, <3>2, <3>4, NullIsNew DEF Committed, OwnTokens, Writing
    <3>6. Find(cookie[b])' = Find(cookie[b])
      BY <1>10, <3>1, <3>2, <3>5 DEF Committed, Find, TypeOK
    <3> QED
      BY <1>2, <2>2, <3>1, <3>3, <3>6
  <2> QED
    BY <2>1, <2>2
<1>11. ASSUME NEW p \in Requests, Gone(p), UNCHANGED <<store, lapsed>>,
              cookie' = cookie \/ (Writing(p) /\ \A c \in Browsers : c # req[p].browser => cookie'[c] = cookie[c])
       PROVE  Undivided(q)'
  <2>1. p # q /\ req'[q] = req[q] /\ Writing(q) /\ q \in alone
    BY <1>11 DEF Gone, Others, Writing, Busy
  <2>2. b \in Browsers /\ Writers(b)' \subseteq Writers(b)
    BY <1>11, <2>1, OrderFacts DEF Writing, Gone, Others, Writers, Busy
  <2>3. Writing(p) => req[p].browser # b
    BY <2>1 DEF Undivided, Writers, Writing
  <2>4. cookie'[b] = cookie[b]
    BY <1>11, <2>2, <2>3
  <2>5. Find(cookie[b])' = Find(cookie[b])
    BY <1>11, <2>1, <2>4 DEF Find
  <2> QED
    BY <1>2, <1>11, <2>1, <2>2, <2>4, <2>5 DEF Gone
<1>12. ASSUME NEW p \in Requests, Responded(p) PROVE Undivided(q)'
  <2>1. Busy(p) /\ (req[p].status # "unmodified" => Writing(p))
    BY <1>12, OrderFacts DEF Responded, Gone
  <2>2. cookie' = cookie \/ (Writing(p) /\ \A c \in Browsers : c # req[p].browser => cookie'[c] = cookie[c])
    BY <1>1, <1>12, <2>1 DEF Responded
  <2> QED
    BY <1>11, <1>12, <2>2 DEF Responded
<1>13. ASSUME NEW p \in Requests, Aborted(p) PROVE Undivided(q)'
  BY <1>11, <1>13 DEF Aborted
<1>14. ASSUME NEW sid \in Sids, Lapsed(sid) \/ Cleaned(sid) PROVE Undivided(q)'
  <2>1. req' = req /\ Writing(q) /\ q \in alone /\ cookie' = cookie /\ Writers(b)' = Writers(b)
    BY <1>14 DEF Lapsed, Cleaned, Writing, Writers, Busy
  <2>2. b \in Browsers
    BY <2>1, OrderFacts DEF Writing
  <2>3. Find(cookie[b]) = NULL => Find(cookie[b])' = NULL
    BY <1>14, <2>1, <2>2 DEF Lapsed, Cleaned, Find, TypeOK
  <2>4. req[q].sid \notin lapsed'
    BY <1>14, <2>1 DEF Lapsed, Cleaned, Undivided, Writing
  <2> QED
    BY <2>1, <2>3, <2>4 DEF Undivided, Writing
<1>15. CASE UNCHANGED <<store, lapsed, drawn, cookie, flow, req, disturbed, alone, ended, out, late>>
  BY <1>15 DEF Undivided, Writing, Writers, Busy, Find
<1> QED
  BY <1>6, <1>7, <1>8, <1>9, <1>10, <1>12, <1>13, <1>14, <1>15 DEF Shape, ByRequest

\* What a request finds under a token after the step, and whether states are
\* at home then.
FindNext(x) == IF x = NULL \/ x \in lapsed' THEN NULL ELSE store'[x]
Home(d, b)  == \A s \in States : Holds(d, s) => flow'[s] # NULL /\ flow'[s].browser = b

\* Only a commit puts anything new in the store.
LEMMA StoreShape ==
  ASSUME TypeOK, Shape
  PROVE  \/ \A x \in Sids \cup {NULL} : FindNext(x) \in {Find(x), NULL}
         \/ \E p \in Requests, sid \in Sids : Committed(p, sid)
<1> SUFFICES ASSUME ~ \E p \in Requests, sid \in Sids : Committed(p, sid)
             PROVE  \A x \in Sids \cup {NULL} : FindNext(x) \in {Find(x), NULL}
  OBVIOUS
<1> USE DEF FindNext, Find
<1>1. CASE UNCHANGED <<store, lapsed>>
  BY <1>1
<1>2. ASSUME NEW p \in Requests, LoggedOut(p) \/ Unheard(p)
      PROVE  \A x \in Sids \cup {NULL} : FindNext(x) \in {Find(x), NULL}
  BY <1>2 DEF LoggedOut, Unheard, TypeOK
<1>3. ASSUME NEW sid \in Sids, Lapsed(sid) \/ Cleaned(sid)
      PROVE  \A x \in Sids \cup {NULL} : FindNext(x) \in {Find(x), NULL}
  BY <1>3 DEF Lapsed, Cleaned, TypeOK
<1>4. ASSUME NEW p \in Requests, ByRequest(p), ~LoggedOut(p), ~Unheard(p) PROVE UNCHANGED <<store, lapsed>>
  BY <1>4 DEF ByRequest, Arrived, Begun, Answered, Responded, Aborted
<1> QED
  BY <1>1, <1>2, <1>3, <1>4 DEF Shape

\* The states of one browser stay out of the sessions of the others.
LEMMA StepStatesAtHome ==
  ASSUME TypeOK, TypeOK', OwnTokens, StatesAtHome, \A p \in Requests : InOrder(p), Shape
  PROVE  StatesAtHome'
<1>1. ASSUME NEW d, NEW b \in Browsers, AtHome(d, b) PROVE Home(d, b)
  BY <1>1, FlowsPersist DEF AtHome, Home
<1>2. ASSUME NEW b \in Browsers PROVE Home(NULL, b) /\ Home(Empty, b)
  BY DEF Home, Holds, Empty
<1>3. \A b \in Browsers : Home(Find(cookie[b]), b)
  BY <1>1 DEF StatesAtHome
<1>4. ASSUME NEW q \in Requests, Busy(q)
      PROVE  /\ req[q].browser \in Browsers /\ req[q].sid \in Sids \cup {NULL}
             /\ Home(req[q].data, req[q].browser) /\ Home(Find(req[q].sid), req[q].browser)
  BY <1>1, <1>4, OrderFacts DEF StatesAtHome
<1>5. ASSUME \A b \in Browsers : Home(FindNext(cookie'[b]), b),
             \A q \in Requests : req'[q] # NULL =>
               Home(req'[q].data, req'[q].browser) /\ Home(FindNext(req'[q].sid), req'[q].browser)
      PROVE  StatesAtHome'
  BY <1>5 DEF StatesAtHome, AtHome, Home, FindNext, Find, Busy
\* The tokens known to a browser, before and after the step.
<1> DEFINE Known(x, b) == \/ x = NULL \/ x = cookie[b]
                          \/ \E q \in Requests : Busy(q) /\ req[q].browser = b /\ req[q].sid = x
<1>6. ASSUME \A x \in Sids \cup {NULL} : FindNext(x) \in {Find(x), NULL},
             \A b \in Browsers : Known(cookie'[b], b),
             \A q \in Requests : req'[q] # NULL /\ req'[q] # req[q] =>
               /\ req'[q].browser \in Browsers
               /\ Known(req'[q].sid, req'[q].browser)
               /\ Home(req'[q].data, req'[q].browser)
      PROVE  StatesAtHome'
  <2>1. ASSUME NEW b \in Browsers, NEW x, Known(x, b) PROVE Home(FindNext(x), b)
    <3>1. x \in Sids \cup {NULL} /\ Home(Find(x), b)
      BY <1>2, <1>3, <1>4, <2>1 DEF TypeOK, Find
    <3> QED
      BY <1>2, <1>6, <3>1
  <2>2. ASSUME NEW q \in Requests, req'[q] # NULL
        PROVE  Home(req'[q].data, req'[q].browser) /\ Home(FindNext(req'[q].sid), req'[q].browser)
    <3>1. CASE req'[q] = req[q]
      BY <1>4, <2>1, <2>2, <3>1 DEF Busy
    <3>2. CASE req'[q] # req[q]
      BY <1>6, <2>1, <2>2, <3>2
    <3> QED
      BY <3>1, <3>2
  <2> QED
    BY <1>5, <1>6, <2>1, <2>2
<1>7. ASSUME NEW p \in Requests, NEW b \in Browsers, Arrived(p, b) PROVE StatesAtHome'
  <2>1. Known(req'[p].sid, b) /\ Home(req'[p].data, b) /\ req'[p].browser = b
    BY <1>2, <1>3, <1>7 DEF Arrived
  <2>2. /\ \A x \in Sids \cup {NULL} : FindNext(x) \in {Find(x), NULL}
        /\ cookie' = cookie /\ Others(p)
    BY <1>7 DEF Arrived, FindNext, Find
  <2> QED
    BY <1>6, <2>1, <2>2 DEF Others
<1>8. ASSUME NEW p \in Requests, NEW s \in States, Begun(p, s) PROVE StatesAtHome'
  <2>1. /\ Known(req'[p].sid, req[p].browser) /\ req'[p].browser = req[p].browser
        /\ req[p].browser \in Browsers /\ Home(req[p].data, req[p].browser)
    BY <1>4, <1>8 DEF Begun, GoesOn
  <2>2. flow'[s] # NULL /\ flow'[s].browser = req[p].browser
    <3>1. InOrder(p)'
      BY StepInOrder
    <3> QED
      BY <1>8, <3>1 DEF Begun, GoesOn, InOrder, Busy
  <2>3. Home(req'[p].data, req[p].browser)
    <3>1. req[p].data # NULL
      BY <1>8, OrderFacts DEF Begun, GoesOn
    <3>2. /\ req'[p].data.state \in {s, req[p].data.state}
          /\ req'[p].data.user_token_state \in {s, req[p].data.user_token_state}
      BY <1>8 DEF Begun
    <3> QED
      BY <2>1, <2>2, <3>1, <3>2 DEF Home, Holds
  <2>4. /\ \A x \in Sids \cup {NULL} : FindNext(x) \in {Find(x), NULL}
        /\ cookie' = cookie /\ Others(p)
    BY <1>8 DEF Begun, GoesOn, FindNext, Find
  <2> QED
    BY <1>6, <2>1, <2>3, <2>4 DEF Others
<1>9. ASSUME NEW p \in Requests, Answered(p) \/ LoggedOut(p) \/ Unheard(p) PROVE StatesAtHome'
  <2>1. Busy(p) /\ Others(p) /\ cookie' = cookie /\ req'[p].browser = req[p].browser
    BY <1>9 DEF Answered, LoggedOut, Unheard, GoesOn
  <2>2. Known(req'[p].sid, req[p].browser) /\ req[p].browser \in Browsers
    BY <1>4, <1>9, <2>1 DEF Answered, LoggedOut, Unheard
  <2>3. Home(req'[p].data, req[p].browser)
    <3>1. Home(req[p].data, req[p].browser) /\ req[p].data # NULL
      BY <1>4, <2>1, OrderFacts
    <3>2. CASE Answered(p)
      BY <3>1, <3>2 DEF Answered, Home, Holds
    <3>3. CASE LoggedOut(p) \/ Unheard(p)
      BY <1>2, <2>2, <3>1, <3>3 DEF LoggedOut, Unheard
    <3> QED
      BY <1>9, <3>2, <3>3
  <2>4. \A x \in Sids \cup {NULL} : FindNext(x) \in {Find(x), NULL}
    BY <1>9 DEF Answered, LoggedOut, Unheard, FindNext, Find, TypeOK
  <2> QED
    BY <1>6, <2>1, <2>2, <2>3, <2>4 DEF Others
<1>10. ASSUME NEW p \in Requests, NEW sid \in Sids, Committed(p, sid) PROVE StatesAtHome'
  <2>1. /\ Busy(p) /\ Others(p) /\ cookie' = cookie /\ req'[p].browser = req[p].browser
        /\ req'[p].data = req[p].data /\ req'[p].sid = sid
    BY <1>10 DEF Committed, GoesOn
  <2>2. FindNext(sid) \in {req[p].data, NULL} /\ \A x \in (Sids \cup {NULL}) \ {sid} : FindNext(x) = Find(x)
    BY <1>10 DEF Committed, FindNext, Find, TypeOK
  <2>3. ASSUME NEW b \in Browsers, NEW x, Known(x, b) PROVE Home(FindNext(x), b)
    <3>1. x \in Sids \cup {NULL} /\ Home(Find(x), b)
      BY <1>2, <1>3, <1>4, <2>3 DEF TypeOK, Find
    <3>2. CASE x # sid
      BY <2>2, <3>1, <3>2
    <3>3. CASE x = sid
      <4>1. b = req[p].browser
        BY <1>10, <2>1, <2>3, <3>3, NullIsNew DEF Committed, OwnTokens
      <4> QED
        BY <1>2, <1>4, <2>1, <2>2, <3>3, <4>1
    <3> QED
      BY <3>2, <3>3
  <2>4. ASSUME NEW q \in Requests, req'[q] # NULL
        PROVE  Home(req'[q].data, req'[q].browser) /\ Home(FindNext(req'[q].sid), req'[q].browser)
    <3>1. CASE q = p
      BY <1>2, <1>4, <2>1, <2>2, <3>1
    <3>2. CASE q # p
      BY <1>4, <2>1, <2>3, <2>4, <3>2 DEF Others, Busy
    <3> QED
      BY <3>1, <3>2
  <2> QED
    BY <1>5, <2>1, <2>3, <2>4
<1>11. ASSUME NEW p \in Requests, Responded(p) \/ Aborted(p) PROVE StatesAtHome'
  <2>1. Busy(p) /\ req'[p] = NULL /\ Others(p) /\ req[p].browser \in Browsers
    BY <1>4, <1>11 DEF Responded, Aborted, Gone
  <2>2. \A b \in Browsers : Known(cookie'[b], b)
    BY <1>11, <2>1 DEF Responded, Aborted, TypeOK
  <2>3. \A x \in Sids \cup {NULL} : FindNext(x) \in {Find(x), NULL}
    BY <1>11 DEF Responded, Aborted, FindNext, Find
  <2> QED
    BY <1>6, <2>1, <2>2, <2>3 DEF Others
<1>12. ASSUME UNCHANGED <<cookie, req>>, \A x \in Sids \cup {NULL} : FindNext(x) \in {Find(x), NULL}
       PROVE  StatesAtHome'
  BY <1>6, <1>12
<1>13. ASSUME NEW sid \in Sids, Lapsed(sid) \/ Cleaned(sid) PROVE StatesAtHome'
  BY <1>12, <1>13 DEF Lapsed, Cleaned, FindNext, Find, TypeOK
<1>14. CASE UNCHANGED <<store, lapsed, drawn, cookie, flow, req, disturbed, alone, ended, out, late>>
  BY <1>12, <1>14 DEF FindNext, Find
<1> QED
  BY <1>7, <1>8, <1>9, <1>10, <1>11, <1>13, <1>14 DEF Shape, ByRequest

\* What has ended stays ended, and a logout that was alone leaves nothing behind.
LEMMA StepOver ==
  ASSUME IInv, TypeOK', Shape
  PROVE  \A s \in ended' : Over(s)'
<1> USE DEF IInv
<1>1. ASSUME NEW s \in States, flow'[s] # NULL,
             \A b \in Browsers : ~Holds(FindNext(cookie'[b]), s),
             \A q \in Requests : req'[q] # NULL /\ req'[q].route # "page" =>
               ~Holds(req'[q].data, s) /\ ~Holds(FindNext(req'[q].sid), s)
      PROVE  Over(s)'
  BY <1>1 DEF Over, FindNext, Find, Writing, Busy, Holds
\* A flow that had ended.
<1>2. ASSUME NEW s \in ended PROVE Over(s)'
  <2>1. Over(s) /\ s \in States /\ flow'[s] # NULL
    BY <1>2, FlowsPersist DEF TypeOK, Over
  <2>2. ASSUME NEW x \in States PROVE ~Holds(NULL, s) /\ ~Holds(Empty, s)
    BY <2>1 DEF Holds, Empty
  <2> DEFINE Clean(x) == x \in Sids \cup {NULL} /\ ~Holds(Find(x), s)
  <2>3. ~Holds(NULL, s) /\ ~Holds(Empty, s) /\ Clean(NULL)
    BY <2>1, <2>2 DEF Find
  <2>4. \A b \in Browsers : Clean(cookie[b])
    BY <2>1 DEF Over, TypeOK
  <2>5. ASSUME NEW q \in Requests, Writing(q) PROVE Clean(req[q].sid) /\ ~Holds(req[q].data, s)
    BY <2>1, <2>5, OrderFacts DEF Over, Writing
  <2>6. \A x \in Sids \cup {NULL} : FindNext(x) \in {Find(x), NULL} \/ ~Holds(FindNext(x), s)
    <3>1. ASSUME NEW p \in Requests, NEW sid \in Sids, Committed(p, sid), NEW x \in Sids \cup {NULL}
          PROVE  FindNext(x) \in {Find(x), NULL} \/ ~Holds(FindNext(x), s)
      <4>1. Writing(p)
        BY <3>1, OrderFacts DEF Committed, GoesOn
      <4> QED
        BY <2>3, <2>5, <3>1, <4>1 DEF Committed, FindNext, Find, TypeOK
    <3> QED
      BY <3>1, StoreShape
  <2>7. ASSUME NEW x, Clean(x) PROVE ~Holds(FindNext(x), s)
    BY <2>3, <2>6, <2>7
  \* Only what was clean is known, or a session that has just been written.
  <2>8. ASSUME \A b \in Browsers : Clean(cookie'[b]),
               \A q \in Requests : req'[q] # NULL /\ req'[q].route # "page" /\ req'[q] # req[q] =>
                 ~Holds(req'[q].data, s) /\ ~Holds(FindNext(req'[q].sid), s)
        PROVE  Over(s)'
    BY <1>1, <2>1, <2>5, <2>7, <2>8 DEF Writing, Busy
  <2>9. ASSUME NEW p \in Requests, NEW b \in Browsers, Arrived(p, b) PROVE Over(s)'
    BY <2>3, <2>4, <2>7, <2>8, <2>9 DEF Arrived, Others
  <2>10. ASSUME NEW p \in Requests, NEW x \in States, Begun(p, x) PROVE Over(s)'
    <3>1. Writing(p) /\ x # s /\ req[p].data # NULL /\ cookie' = cookie
      BY <2>1, <2>10, OrderFacts DEF Begun, GoesOn, Writing, Over
    <3>2. ~Holds(req'[p].data, s)
      <4>1. /\ req'[p].data.state \in {x, req[p].data.state}
            /\ req'[p].data.user_token_state \in {x, req[p].data.user_token_state}
        BY <2>10 DEF Begun
      <4> QED
        BY <2>5, <3>1, <4>1 DEF Holds
    <3>3. ~Holds(FindNext(req'[p].sid), s)
      BY <2>5, <2>7, <2>10, <3>1 DEF Begun
    <3> QED
      BY <2>4, <2>8, <2>10, <3>1, <3>2, <3>3 DEF Begun, GoesOn, Others
  <2>11. ASSUME NEW p \in Requests, Answered(p) \/ LoggedOut(p) \/ Unheard(p) PROVE Over(s)'
    <3>1. /\ Busy(p) /\ req[p].data # NULL /\ cookie' = cookie /\ Others(p)
          /\ req'[p].route = req[p].route
      BY <2>11, OrderFacts DEF Answered, LoggedOut, Unheard, GoesOn
    <3>2. ASSUME req[p].route # "page"
          PROVE  ~Holds(req'[p].data, s) /\ ~Holds(FindNext(req'[p].sid), s)
      <4>1. Clean(req'[p].sid)
        BY <2>3, <2>5, <2>11, <3>1, <3>2 DEF Answered, LoggedOut, Unheard, Writing
      <4>2. ~Holds(req[p].data, s) /\ s # NULL
        BY <2>1, <2>5, <3>1, <3>2 DEF Writing
      <4>3. ASSUME Answered(p) PROVE ~Holds(req'[p].data, s)
        <5>1. /\ req'[p].data.state \in {NULL, req[p].data.state}
              /\ req'[p].data.user_token_state \in {NULL, req[p].data.user_token_state}
          BY <4>3 DEF Answered
        <5> QED
          BY <3>1, <4>2, <5>1 DEF Holds
      <4>4. ASSUME LoggedOut(p) \/ Unheard(p) PROVE ~Holds(req'[p].data, s)
        BY <2>3, <4>2, <4>4 DEF LoggedOut, Unheard
      <4> QED
        BY <2>7, <2>11, <4>1, <4>3, <4>4
    <3> QED
      BY <2>4, <2>8, <3>1, <3>2 DEF Others
  <2>12. ASSUME NEW p \in Requests, NEW sid \in Sids, Committed(p, sid) PROVE Over(s)'
    <3>1. /\ Writing(p) /\ cookie' = cookie /\ Others(p)
          /\ req'[p].data = req[p].data /\ req'[p].sid = sid
      BY <2>12, OrderFacts DEF Committed, GoesOn
    <3>2. FindNext(sid) \in {req[p].data, NULL}
      BY <2>12 DEF Committed, FindNext, TypeOK
    <3> QED
      BY <2>3, <2>4, <2>5, <2>8, <3>1, <3>2 DEF Others
  <2>13. ASSUME NEW p \in Requests, Responded(p) \/ Aborted(p) PROVE Over(s)'
    <3>1. Busy(p) /\ req'[p] = NULL /\ Others(p) /\ req[p].browser \in Browsers
      BY <2>13, OrderFacts DEF Responded, Aborted, Gone
    <3>2. ASSUME NEW b \in Browsers PROVE Clean(cookie'[b])
      <4>1. req[p].status = "modified" => Writing(p)
        BY <3>1, OrderFacts
      <4>2. cookie'[b] \in {cookie[b], NULL} \/ (req[p].status = "modified" /\ cookie'[b] = req[p].sid)
        <5>1. cookie \in [Browsers -> Sids \cup {NULL}]
          BY DEF TypeOK
        <5>2. CASE req[p].status = "modified"
          BY <2>13, <3>1, <5>1, <5>2 DEF Responded, Aborted
        <5>3. CASE req[p].status # "modified"
          BY <2>13, <3>1, <5>1, <5>3 DEF Responded, Aborted
        <5> QED
          BY <5>2, <5>3
      <4> QED
        BY <2>3, <2>4, <2>5, <4>1, <4>2
    <3> QED
      BY <2>8, <3>1, <3>2 DEF Others
  <2>14. CASE UNCHANGED <<cookie, req>>
    BY <2>4, <2>8, <2>14
  <2> QED
    BY <2>9, <2>10, <2>11, <2>12, <2>13, <2>14 DEF Shape, ByRequest, Lapsed, Cleaned
\* A flow that ends.
<1>3. ASSUME NEW p \in Requests, LoggedOut(p), p \in alone, NEW s \in FlowsOf(req[p].browser)
      PROVE  Over(s)'
  <2> DEFINE b == req[p].browser
  <2>1. /\ Writing(p) /\ b \in Browsers /\ req[p].phase = "handle" /\ Others(p)
        /\ req[p].sid \in Sids \cup {NULL} /\ cookie' = cookie /\ req'[p].data = Empty
        /\ req'[p].sid = NULL /\ lapsed' = lapsed
    BY <1>3, OrderFacts DEF LoggedOut, GoesOn, Writing
  <2>2. s \in States /\ flow[s] # NULL /\ flow[s].browser = b /\ flow'[s] # NULL
    BY <1>3, FlowsPersist DEF FlowsOf
  <2>3. /\ Writers(b) = {p}
        /\ IF req[p].sid = NULL THEN Find(cookie[b]) = NULL ELSE cookie[b] = req[p].sid
    BY <1>3, <2>1 DEF Undivided
  <2>4. FindNext(cookie[b]) = NULL
    BY <1>3, <2>1, <2>3 DEF LoggedOut, FindNext, Find, TypeOK
  <2>5. \A x \in Sids \cup {NULL} : FindNext(x) \in {Find(x), NULL}
    BY <1>3 DEF LoggedOut, FindNext, Find, TypeOK
  <2>6. ~Holds(NULL, s) /\ ~Holds(Empty, s)
    BY <2>2 DEF Holds, Empty
  <2>7. ASSUME NEW c \in Browsers PROVE ~Holds(FindNext(cookie'[c]), s)
    <3>1. CASE c = b
      BY <2>1, <2>4, <2>6, <3>1
    <3>2. CASE c # b
      <4>1. ~Holds(Find(cookie[c]), s) /\ cookie[c] \in Sids \cup {NULL}
        BY <2>2, <3>2 DEF StatesAtHome, AtHome, TypeOK
      <4> QED
        BY <2>1, <2>5, <2>6, <4>1
    <3> QED
      BY <3>1, <3>2
  <2>8. ASSUME NEW q \in Requests, req'[q] # NULL, req'[q].route # "page"
        PROVE  ~Holds(req'[q].data, s) /\ ~Holds(FindNext(req'[q].sid), s)
    <3>1. CASE q = p
      BY <2>1, <2>6, <3>1 DEF FindNext
    <3>2. CASE q # p
      <4>1. req'[q] = req[q] /\ Busy(q) /\ req[q].browser # b
        BY <2>1, <2>3, <2>8, <3>2 DEF Others, Busy, Writers
      <4>2. ~Holds(req[q].data, s) /\ ~Holds(Find(req[q].sid), s)
        BY <2>2, <4>1 DEF StatesAtHome, AtHome
      <4> QED
        BY <2>5, <2>6, <4>1, <4>2, OrderFacts
    <3> QED
      BY <3>1, <3>2
  <2> QED
    BY <1>1, <2>2, <2>7, <2>8
<1>4. ASSUME NEW s \in ended', s \notin ended
      PROVE  \E p \in Requests : LoggedOut(p) /\ p \in alone /\ s \in FlowsOf(req[p].browser)
  <2>1. ASSUME NEW p \in Requests, LoggedOut(p)
        PROVE  p \in alone /\ s \in FlowsOf(req[p].browser)
    BY <1>4, <2>1 DEF LoggedOut, Parts
  <2>2. CASE \E p \in Requests : LoggedOut(p)
    BY <2>1, <2>2
  <2>3. ASSUME ~\E p \in Requests : LoggedOut(p) PROVE ended' = ended
    BY <2>3, EndedStays
  <2> QED
    BY <1>4, <2>2, <2>3
<1> QED
  BY <1>2, <1>3, <1>4

\* Who is logged out stays so, but for a login and the requests that the end of
\* the session has overtaken.
LEMMA StepSignedOut ==
  ASSUME IInv, TypeOK', Shape
  PROVE  \A b \in out' : SignedOut(b)'
<1> USE DEF IInv
<1>1. ASSUME NEW b \in Browsers, ~LoggedIn(FindNext(cookie'[b])),
             \A q \in Requests \ late' :
               req'[q] # NULL /\ req'[q].browser = b /\ req'[q].route # "page" =>
                 \/ req'[q].sid \in lapsed'
                 \/ req'[q].data.user = NULL /\ ~LoggedIn(FindNext(req'[q].sid))
      PROVE  SignedOut(b)'
  BY <1>1 DEF SignedOut, LoggedIn, FindNext, Find, Writers, Busy
\* A browser that was logged out: commits apart, what a request holds is what it,
\* or the cookie, held before.
<1>2. ASSUME NEW b \in out, NEW q \in Writers(b) \ late
      PROVE  ~LoggedIn(Find(req[q].sid)) /\ (req[q].sid \in lapsed \/ req[q].data.user = NULL)
  BY <1>2 DEF SignedOut, Find, LoggedIn
<1>3. \A q \in Requests : Busy(q) => req[q].sid \in Sids \cup {NULL} /\ req[q].data # NULL
  BY OrderFacts
<1>4. ASSUME NEW b \in out,
             \A x \in Sids \cup {NULL} : FindNext(x) \in {Find(x), NULL}, lapsed \subseteq lapsed',
             cookie'[b] \in {cookie[b], NULL} \/ \E q \in Writers(b) \ late : cookie'[b] = req[q].sid,
             \A q \in Requests \ late' :
               req'[q] # NULL /\ req'[q].browser = b /\ req'[q].route # "page" =>
                 \/ /\ q \in Writers(b) \ late
                    /\ req'[q].sid = req[q].sid /\ req'[q].data.user = req[q].data.user
                 \/ req'[q].sid \in {cookie[b], NULL} /\ req'[q].data.user = NULL
      PROVE  SignedOut(b)'
  <2>1. b \in Browsers /\ ~LoggedIn(Find(cookie[b])) /\ ~LoggedIn(NULL) /\ Find(NULL) = NULL
    BY <1>4 DEF TypeOK, SignedOut, LoggedIn, Find
  <2>2. cookie[b] \in Sids \cup {NULL}
    BY <2>1 DEF TypeOK
  <2>3. ASSUME NEW x \in Sids \cup {NULL}, ~LoggedIn(Find(x)) PROVE ~LoggedIn(FindNext(x))
    BY <1>4, <2>1, <2>3
  <2>4. ~LoggedIn(FindNext(cookie[b])) /\ ~LoggedIn(FindNext(NULL))
    BY <2>1, <2>2, <2>3
  <2>5. ASSUME NEW q \in Writers(b) \ late PROVE ~LoggedIn(FindNext(req[q].sid))
    BY <1>2, <1>3, <2>3 DEF Writers
  <2>6. ~LoggedIn(FindNext(cookie'[b]))
    BY <1>4, <2>4, <2>5
  <2> QED
    BY <1>1, <1>2, <1>4, <2>1, <2>4, <2>5, <2>6
<1> SUFFICES ASSUME NEW b \in Browsers, b \in out' PROVE SignedOut(b)'
  BY DEF TypeOK
<1>5. ASSUME NEW p \in Requests, NEW c \in Browsers, Arrived(p, c) PROVE SignedOut(b)'
  <2>1. /\ b \in out /\ late' = late /\ cookie' = cookie /\ lapsed' = lapsed /\ Others(p)
        /\ \A x \in Sids \cup {NULL} : FindNext(x) = Find(x)
    BY <1>5 DEF Arrived, FindNext, Find
  <2>2. req'[p].browser = b => req'[p].sid \in {cookie[b], NULL} /\ req'[p].data.user = NULL
    <3>1. ~LoggedIn(Find(cookie[b]))
      BY <2>1 DEF SignedOut
    <3> QED
      BY <1>5, <3>1 DEF Arrived, LoggedIn, Empty
  <2> QED
    BY <1>4, <2>1, <2>2 DEF Others, Writers, Busy
<1>6. ASSUME NEW p \in Requests, (\E s \in States : Begun(p, s)) \/ Answered(p)
      PROVE  SignedOut(b)'
  <2>1. /\ Busy(p) /\ Others(p) /\ UNCHANGED <<store, lapsed, cookie>>
        /\ req'[p].browser = req[p].browser /\ req'[p].route = req[p].route /\ req'[p].sid = req[p].sid
        /\ \/ req'[p].data.user = req[p].data.user /\ UNCHANGED <<out, late>>
           \/ Enters(req[p].browser)
    BY <1>6 DEF Begun, Answered, GoesOn
  <2>2. b \in out /\ \A q \in Writers(b) : q \notin late' => q \notin late
    BY <2>1 DEF Enters, Writers
  <2>3. req[p].browser = b => req'[p].data.user = req[p].data.user
    BY <2>1 DEF Enters
  <2>4. \A x \in Sids \cup {NULL} : FindNext(x) = Find(x)
    BY <2>1 DEF FindNext, Find
  <2> QED
    BY <1>4, <2>1, <2>2, <2>3, <2>4 DEF Others, Writers, Busy
<1>7. ASSUME NEW p \in Requests, LoggedOut(p) \/ Unheard(p) PROVE SignedOut(b)'
  <2>1. /\ Busy(p) /\ Others(p) /\ UNCHANGED <<lapsed, cookie>> /\ late \subseteq late'
        /\ req'[p].browser = req[p].browser /\ req'[p].route = req[p].route
        /\ \/ req'[p].data.user = NULL /\ req'[p].sid = NULL
           \/ req'[p].data.user = req[p].data.user /\ req'[p].sid = req[p].sid
    BY <1>7 DEF LoggedOut, Unheard, Parts, GoesOn, Empty, parting
  <2>2. \A x \in Sids \cup {NULL} : FindNext(x) \in {Find(x), NULL}
    BY <1>7 DEF LoggedOut, Unheard, FindNext, Find, TypeOK
  <2>3. CASE b \in out
    BY <1>4, <2>1, <2>2, <2>3 DEF Others, Writers, Busy
  <2>4. CASE b \notin out
    <3>1. /\ LoggedOut(p) /\ req[p].browser = b /\ req[p].sid = cookie[b]
          /\ late' = late \cup (Writers(b) \ {p})
      BY <1>7, <2>4 DEF LoggedOut, Unheard, Parts, parting
    <3>2. FindNext(cookie'[b]) = NULL /\ FindNext(NULL) = NULL
      BY <2>1, <3>1 DEF LoggedOut, FindNext, TypeOK
    <3>3. req'[p].data.user = NULL /\ req'[p].sid = NULL
      BY <3>1 DEF LoggedOut, Empty
    <3> QED
      BY <1>1, <2>1, <3>1, <3>2, <3>3 DEF Others, Writers, Busy, LoggedIn
  <2> QED
    BY <2>3, <2>4
<1>8. ASSUME NEW p \in Requests, NEW sid \in Sids, Committed(p, sid) PROVE SignedOut(b)'
  <2>1. /\ Writing(p) /\ Others(p) /\ UNCHANGED <<lapsed, cookie>>
        /\ req'[p].browser = req[p].browser /\ req'[p].route = req[p].route
        /\ req'[p].data = req[p].data /\ req'[p].sid = sid
        /\ IF req[p].sid = NULL THEN sid \notin drawn ELSE sid = req[p].sid
        /\ IF p \in late THEN Enters(req[p].browser) ELSE UNCHANGED <<out, late>>
    BY <1>8, OrderFacts DEF Committed, GoesOn
  <2>2. b \in out /\ \A q \in Writers(b) : q \notin late' => q \notin late
    BY <2>1 DEF Enters, Writers
  <2>3. FindNext(sid) \in {req[p].data, NULL} /\ \A x \in (Sids \cup {NULL}) \ {sid} : FindNext(x) = Find(x)
    BY <1>8 DEF Committed, FindNext, Find, TypeOK
  <2>4. ~LoggedIn(Find(cookie[b])) /\ cookie[b] \in Sids \cup {NULL} /\ ~LoggedIn(NULL)
    BY <2>2 DEF SignedOut, TypeOK, LoggedIn
  <2>5. CASE req[p].browser = b
    <3>1. p \in Writers(b) \ late
      BY <2>1, <2>5 DEF Enters, Writers, Writing
    <3>2. sid \in lapsed \/ req[p].data.user = NULL
      BY <1>2, <2>1, <2>2, <3>1, NullIsNew DEF TypeOK
    <3>3. ~LoggedIn(FindNext(sid))
      BY <2>1, <2>3, <3>2 DEF FindNext, LoggedIn
    <3>4. ASSUME NEW x \in Sids \cup {NULL}, ~LoggedIn(Find(x)) PROVE ~LoggedIn(FindNext(x))
      BY <2>3, <3>3, <3>4
    <3>5. ASSUME NEW q \in Writers(b) \ late, q # p
          PROVE  ~LoggedIn(FindNext(req[q].sid)) /\ (req[q].sid \in lapsed \/ req[q].data.user = NULL)
      BY <1>2, <1>3, <2>2, <3>4, <3>5 DEF Writers
    <3> QED
      BY <1>1, <2>1, <2>2, <2>4, <3>2, <3>3, <3>4, <3>5 DEF Others, Writers, Busy
  <2>6. CASE req[p].browser # b
    <3>1. cookie[b] # sid
      BY <2>1, <2>6, NullIsNew DEF OwnTokens, Writing
    <3>2. ASSUME NEW q \in Writers(b) PROVE req[q].sid # sid
      BY <2>1, <2>6, NullIsNew DEF OwnTokens, Writing, Writers
    <3>3. ASSUME NEW q \in Writers(b) \ late
          PROVE  ~LoggedIn(FindNext(req[q].sid)) /\ (req[q].sid \in lapsed \/ req[q].data.user = NULL)
      BY <1>2, <1>3, <2>2, <2>3, <3>2 DEF Writers
    <3>4. ~LoggedIn(FindNext(cookie[b]))
      BY <2>3, <2>4, <3>1
    <3>5. \A q \in Requests : req'[q] # NULL /\ req'[q].browser = b /\ req'[q].route # "page"
            => req'[q] = req[q] /\ q \in Writers(b)
      BY <2>1, <2>6 DEF Others, Writers, Busy
    <3> QED
      BY <1>1, <2>1, <2>2, <3>3, <3>4, <3>5
  <2> QED
    BY <2>5, <2>6
<1>9. ASSUME NEW p \in Requests, Responded(p) \/ Aborted(p) PROVE SignedOut(b)'
  <2>1. /\ Busy(p) /\ req'[p] = NULL /\ Others(p) /\ UNCHANGED <<store, lapsed>>
        /\ req[p].browser \in Browsers /\ (req[p].status # "unmodified" => Writing(p))
    BY <1>9, OrderFacts DEF Responded, Aborted, Gone
  <2>2. b \in out /\ \A q \in Writers(b) : q \notin late' /\ q # p => q \notin late
    BY <1>9 DEF Responded, Aborted, Enters, Writers
  <2>3. \A x \in Sids \cup {NULL} : FindNext(x) = Find(x)
    BY <2>1 DEF FindNext, Find
  <2>4. cookie'[b] \in {cookie[b], NULL} \/ \E q \in Writers(b) \ late : cookie'[b] = req[q].sid
    <3>1. cookie \in [Browsers -> Sids \cup {NULL}]
      BY DEF TypeOK
    <3>2. CASE Responded(p) /\ req[p].status = "modified" /\ req[p].browser = b
      <4>1. p \in Writers(b) \ late
        BY <2>1, <3>2 DEF Responded, Enters, Writers, Writing
      <4>2. cookie'[b] = req[p].sid
        BY <3>1, <3>2 DEF Responded
      <4> QED
        BY <4>1, <4>2
    <3>3. CASE ~(Responded(p) /\ req[p].status = "modified" /\ req[p].browser = b)
      BY <1>9, <2>1, <3>1, <3>3 DEF Responded, Aborted
    <3> QED
      BY <3>2, <3>3
  <2> QED
    BY <1>4, <2>1, <2>2, <2>3, <2>4 DEF Others, Writers, Busy
<1>10. ASSUME NEW sid \in Sids, Lapsed(sid) PROVE SignedOut(b)'
  <2>1. /\ UNCHANGED <<cookie, req>> /\ late \subseteq late' /\ lapsed \subseteq lapsed' /\ sid \in lapsed'
        /\ \A x \in Sids \cup {NULL} : FindNext(x) \in {Find(x), NULL}
    BY <1>10 DEF Lapsed, FindNext, Find, TypeOK
  <2>2. CASE b \in out
    BY <1>4, <2>1, <2>2 DEF Writers, Busy
  <2>3. CASE b \notin out
    <3>1. cookie[b] = sid
      BY <1>10, <2>3 DEF Lapsed
    <3>2. ~LoggedIn(FindNext(cookie'[b]))
      BY <2>1, <3>1 DEF FindNext, LoggedIn
    <3>3. ASSUME NEW q \in Requests \ late', req[q] # NULL, req[q].browser = b, req[q].route # "page"
          PROVE  req[q].sid = sid
      BY <1>10, <2>3, <3>1, <3>3 DEF Lapsed, Busy
    <3> QED
      BY <1>1, <2>1, <3>2, <3>3
  <2> QED
    BY <2>2, <2>3
<1>11. ASSUME b \in out, UNCHANGED <<cookie, req, late, lapsed>>,
              \A x \in Sids \cup {NULL} : FindNext(x) \in {Find(x), NULL}
       PROVE  SignedOut(b)'
  BY <1>4, <1>11 DEF Writers, Busy
<1>12. ASSUME NEW sid \in Sids, Cleaned(sid) PROVE SignedOut(b)'
  BY <1>11, <1>12 DEF Cleaned, FindNext, Find, TypeOK
<1>13. CASE UNCHANGED <<store, lapsed, drawn, cookie, flow, req, disturbed, alone, ended, out, late>>
  BY <1>11, <1>13 DEF FindNext, Find
<1> QED
  BY <1>5, <1>6, <1>7, <1>8, <1>9, <1>10, <1>12, <1>13 DEF Shape, ByRequest

\* Smooth after the step, from the requests of the flow's browser.
LEMMA SmoothNext ==
  ASSUME NEW s \in States, NEW b \in Browsers,
         flow'[s].browser = b, flow'[s].kind = flow[s].kind,
         flow'[s].open => Honours(FindNext(cookie'[b]), s),
         ~flow'[s].open => \E q \in Requests : /\ req'[q] # NULL /\ req'[q].browser = b
                                              /\ req'[q].route # "page" /\ req'[q].opens = s,
         \A q \in Requests :
           req'[q] # NULL /\ req'[q].browser = b /\ req'[q].route # "page" =>
             /\ q \in alone'
             /\ Honours(req'[q].data, s)
             /\ req'[q].status # "destroyed"
             /\ flow'[s].open => req'[q].sid = cookie'[b]
             /\ req'[q].phase = "respond" /\ req'[q].status = "modified" =>
                  Honours(FindNext(req'[q].sid), s)
  PROVE  Smooth(s)'
BY DEF Smooth, Honours, FindNext, Find, Writers, Busy

\* A step of another browser, or of a page, leaves the flow smooth.
LEMMA ForeignStep ==
  ASSUME IInv, NEW s \in States, flow[s] # NULL, Smooth(s), flow[s].browser \in Browsers,
         NEW p \in Requests, Others(p), p \notin Writers(flow[s].browser),
         req'[p] = NULL \/ req'[p].browser # flow[s].browser \/ req'[p].route = "page",
         flow'[s] = flow[s], cookie'[flow[s].browser] = cookie[flow[s].browser],
         FindNext(cookie[flow[s].browser]) = Find(cookie[flow[s].browser]),
         \A q \in Writers(flow[s].browser) : q \in alone' /\ FindNext(req[q].sid) = Find(req[q].sid)
  PROVE  Smooth(s)'
<1> DEFINE b == flow[s].browser
<1>1. flow[s].open => Honours(FindNext(cookie'[b]), s)
  BY DEF Smooth
<1>2. ~flow[s].open => \E q \in Requests : /\ req'[q] # NULL /\ req'[q].browser = b
                                           /\ req'[q].route # "page" /\ req'[q].opens = s
  BY DEF Smooth, Writers, Busy, Others
<1>3. ASSUME NEW q \in Requests, req'[q] # NULL, req'[q].browser = b, req'[q].route # "page"
      PROVE  /\ q \in alone'
             /\ Honours(req'[q].data, s)
             /\ req'[q].status # "destroyed"
             /\ flow'[s].open => req'[q].sid = cookie'[b]
             /\ req'[q].phase = "respond" /\ req'[q].status = "modified" =>
                  Honours(FindNext(req'[q].sid), s)
  <2>1. req'[q] = req[q] /\ q \in Writers(b)
    BY <1>3 DEF Others, Writers, Busy
  <2> QED
    BY <2>1 DEF Smooth
<1> QED
  BY <1>1, <1>2, <1>3, SmoothNext

\* A step of the only writing request of the browser.
LEMMA OwnStep ==
  ASSUME NEW s \in States, NEW b \in Browsers, NEW p \in Requests,
         flow'[s].browser = b, flow'[s].kind = flow[s].kind,
         Others(p), Writers(b) \subseteq {p},
         flow'[s].open => Honours(FindNext(cookie'[b]), s),
         ~flow'[s].open => /\ req'[p] # NULL /\ req'[p].browser = b
                           /\ req'[p].route # "page" /\ req'[p].opens = s,
         req'[p] # NULL => /\ p \in alone'
                           /\ Honours(req'[p].data, s)
                           /\ req'[p].status # "destroyed"
                           /\ flow'[s].open => req'[p].sid = cookie'[b]
                           /\ req'[p].phase = "respond" /\ req'[p].status = "modified" =>
                                Honours(FindNext(req'[p].sid), s)
  PROVE  Smooth(s)'
<1>1. \A q \in Requests : req'[q] # NULL /\ req'[q].browser = b /\ req'[q].route # "page" => q = p
  BY DEF Others, Writers, Busy
<1> QED
  BY <1>1, SmoothNext

\* A flow that nothing disturbs stays in the session of its browser.
LEMMA StepSmooth ==
  ASSUME IInv, TypeOK', Shape
  PROVE  \A s \in States \ disturbed' : flow'[s] # NULL => Smooth(s)'
<1> USE DEF IInv
<1> SUFFICES ASSUME NEW s \in States, s \notin disturbed', flow'[s] # NULL PROVE Smooth(s)'
  OBVIOUS
\* The flow begins.
<1>1. ASSUME NEW p \in Requests, Begun(p, s) PROVE Smooth(s)'
  <2> DEFINE b == req[p].browser
  <2>1. /\ Writing(p) /\ b \in Browsers /\ Others(p) /\ alone' = alone /\ req[p].data # NULL
        /\ req'[p] # NULL /\ req'[p].browser = b /\ req'[p].route = req[p].route
        /\ req'[p].route # "page" /\ req'[p].phase = "commit" /\ req'[p].status = "modified"
        /\ req'[p].opens = s
    BY <1>1, OrderFacts DEF Begun, GoesOn, Writing
  <2>2. PICK kind \in {"login", "token"} :
          /\ flow' = [flow EXCEPT ![s] =
               [kind |-> kind, browser |-> b, starter |-> req[p].data.user, open |-> FALSE]]
          /\ disturbed' = disturbed \cup KindOf(b, kind) \cup (IF p \in alone THEN {} ELSE {s})
          /\ IF kind = "login" THEN req'[p].data.state = s
             ELSE /\ req'[p].data.user_token_state = s
                  /\ req'[p].data.user # NULL
    BY <1>1 DEF Begun
  <2>3. p \in alone
    BY <2>2
  <2>4. flow'[s].kind = kind /\ flow'[s].browser = b /\ ~flow'[s].open
    BY <2>2 DEF TypeOK
  <2>5. Writers(b) = {p}
    BY <2>1, <2>3 DEF Undivided
  <2>6. Writers(b)' = {p}
    BY <2>1, <2>5 DEF Writers, Busy, Others
  <2>7. req'[p].data # NULL
    <3>1. req'[p] \in Request
      BY <2>1 DEF TypeOK
    <3> QED
      BY <3>1 DEF Request
  <2> QED
    BY <2>1, <2>2, <2>3, <2>4, <2>6, <2>7 DEF Smooth, Honours
\* A flow under way.
<1>2. ASSUME flow[s] # NULL, s \notin disturbed PROVE Smooth(s)'
  <2> DEFINE b == flow[s].browser
  <2>1. /\ flow[s] \in Flow /\ b \in Browsers /\ flow[s].kind \in {"login", "token"}
        /\ flow'[s].browser = b /\ flow'[s].kind = flow[s].kind
        /\ flow[s].open => flow'[s].open
    BY <1>2, FlowsPersist DEF TypeOK, Flow
  <2>2. Smooth(s) /\ s \in FlowsOf(b) /\ s \in KindOf(b, flow[s].kind)
    BY <1>2, <2>1 DEF FlowsOf, KindOf
  <2>3. ASSUME NEW p \in Writers(b)
        PROVE  /\ p \in alone /\ Writers(b) = {p} /\ Busy(p) /\ req[p].browser = b
               /\ req[p].route # "page" /\ req[p].sid \notin lapsed
               /\ Honours(req[p].data, s) /\ req[p].status # "destroyed"
               /\ flow[s].open => req[p].sid = cookie[b] /\ Honours(Find(cookie[b]), s)
               /\ ~flow[s].open => req[p].opens = s
               /\ req[p].phase = "respond" /\ req[p].status = "modified" =>
                    Honours(Find(req[p].sid), s)
    <3>1. p \in alone /\ Busy(p) /\ req[p].browser = b /\ req[p].route # "page" /\ p \in Requests
      BY <2>2, <2>3 DEF Smooth, Writers
    <3>2. Writers(b) = {p} /\ req[p].sid \notin lapsed
      BY <3>1 DEF Undivided, Writing
    <3> QED
      BY <2>2, <3>1, <3>2 DEF Smooth
  \* A request in its handler leads nowhere yet: the flow is open.
  <2>4. ASSUME NEW p \in Writers(b), req[p].phase = "handle"
        PROVE  flow[s].open /\ req[p].opens = NULL
    <3>1. p \in Requests /\ Busy(p)
      BY DEF Writers
    <3> QED
      BY <2>3, <2>4, <3>1, OrderFacts
  <2>5. ASSUME NEW p \in Requests, Others(p), p \notin Writers(b),
               req'[p] = NULL \/ req'[p].browser # b \/ req'[p].route = "page",
               flow'[s] = flow[s], UNCHANGED <<store, lapsed, cookie>>, Writers(b) \subseteq alone'
        PROVE  Smooth(s)'
    BY <1>2, <2>1, <2>2, <2>5, ForeignStep DEF FindNext, Find
  <2>6. \A q \in Writers(b) : q \in alone
    BY <2>3
  <2>7. ASSUME NEW p \in Requests, NEW c \in Browsers, Arrived(p, c) PROVE Smooth(s)'
    <3>1. p \notin Writers(b) /\ Others(p) /\ flow'[s] = flow[s] /\ UNCHANGED <<store, lapsed, cookie>>
      BY <2>7 DEF Arrived, Writers
    <3>2. CASE req'[p].route = "page" \/ c # b
      <4>1. Writers(b) \subseteq alone'
        BY <2>6, <2>7, <3>1, <3>2 DEF Arrived, Writers
      <4> QED
        BY <2>5, <2>7, <3>1, <3>2, <4>1 DEF Arrived
    <3>3. CASE req'[p].route # "page" /\ c = b
      <4>1. Writers(b) = {} /\ p \in alone'
        BY <2>2, <2>7, <3>3 DEF Arrived
      <4>2. flow[s].open /\ Honours(Find(cookie[b]), s)
        BY <2>2, <4>1 DEF Smooth
      <4>3. Find(cookie[b]) # NULL /\ FindNext(cookie'[b]) = Find(cookie[b])
        BY <3>1, <4>2 DEF Honours, FindNext, Find
      <4>4. /\ req'[p] # NULL /\ req'[p].data = Find(cookie[b]) /\ req'[p].sid = cookie'[b]
            /\ req'[p].status = "unmodified"
        BY <2>7, <3>1, <3>3, <4>3 DEF Arrived
      <4> QED
        BY <2>1, <3>1, <4>1, <4>2, <4>3, <4>4, OwnStep
    <3> QED
      BY <3>2, <3>3
  <2>8. ASSUME NEW p \in Requests, NEW x \in States, Begun(p, x) PROVE Smooth(s)'
    <3>1. /\ x # s /\ flow'[s] = flow[s] /\ UNCHANGED <<store, lapsed, cookie, alone>> /\ Others(p)
          /\ Busy(p) /\ req[p].phase = "handle" /\ req'[p].browser = req[p].browser
          /\ req[p].route # "page" /\ req[p].data # NULL
      BY <1>2, <2>8, OrderFacts DEF Begun, GoesOn, TypeOK
    <3>2. CASE p \notin Writers(b)
      BY <2>5, <2>6, <3>1, <3>2 DEF Writers
    <3>3. CASE p \in Writers(b)
      <4>1. PICK kind \in {"login", "token"} :
              /\ KindOf(b, kind) \subseteq disturbed'
              /\ IF kind = "login"
                 THEN req'[p].data.user_token_state = req[p].data.user_token_state
                 ELSE req'[p].data.state = req[p].data.state
              /\ req'[p].data.user = req[p].data.user
        BY <2>3, <2>8, <3>3 DEF Begun
      <4>2. flow[s].kind # kind
        BY <2>2, <4>1
      <4>3. req'[p] # NULL /\ req'[p].data # NULL /\ req'[p].sid = req[p].sid
            /\ req'[p].phase = "commit" /\ req'[p].status = "modified"
        <5>1. req'[p] # NULL /\ req'[p] \in Request
          BY <2>8 DEF Begun, GoesOn, TypeOK
        <5> QED
          BY <2>8, <5>1 DEF Begun, GoesOn, Request
      <4>4. Honours(req'[p].data, s)
        BY <2>1, <2>3, <3>3, <4>1, <4>2, <4>3 DEF Honours
      <4>5. flow'[s].open /\ Honours(FindNext(cookie'[b]), s)
        BY <2>3, <2>4, <3>1, <3>3 DEF FindNext, Find
      <4> QED
        BY <2>1, <2>3, <3>1, <3>3, <4>3, <4>4, <4>5, OwnStep
    <3> QED
      BY <3>2, <3>3
  <2>9. ASSUME NEW p \in Requests, Answered(p) PROVE Smooth(s)'
    <3>1. /\ flow'[s] = flow[s] /\ UNCHANGED <<store, lapsed, cookie, alone>> /\ Others(p)
          /\ Busy(p) /\ req'[p].browser = req[p].browser /\ req'[p].route = req[p].route
          /\ req'[p].sid = req[p].sid /\ req'[p].opens = req[p].opens /\ req[p].data # NULL
          /\ req'[p] # NULL
      BY <2>9, OrderFacts DEF Answered, GoesOn
    <3>2. CASE p \notin Writers(b)
      BY <2>5, <2>6, <3>1, <3>2 DEF Writers
    <3>3. CASE p \in Writers(b)
      <4>1. Honours(req'[p].data, s)
        <5>1. req'[p].data # NULL
          <6>1. req'[p] \in Request
            BY <3>1 DEF TypeOK
          <6> QED
            BY <6>1 DEF Request
        <5>2. Honours(req[p].data, s)
          BY <2>3, <3>3
        <5>3. CASE Answered(p) /\ flow[s].kind = "login"
          <6>1. req'[p].data.state = req[p].data.state
            BY <2>2, <2>3, <3>3, <5>3 DEF Answered
          <6> QED
            BY <5>1, <5>2, <5>3, <6>1 DEF Honours
        <5>4. CASE Answered(p) /\ flow[s].kind = "token"
          <6>1. /\ req'[p].data.user_token_state = req[p].data.user_token_state
                /\ req[p].data.user # NULL => req'[p].data.user # NULL
            BY <2>2, <2>3, <3>3, <5>4 DEF Answered
          <6> QED
            BY <5>1, <5>2, <5>4, <6>1 DEF Honours
        <5> QED
          BY <2>1, <2>9, <5>3, <5>4
      <4>2. /\ req'[p].status # "destroyed"
            /\ ~(req'[p].phase = "respond" /\ req'[p].status = "modified")
        BY <2>3, <2>9, <3>3 DEF Answered, GoesOn, After
      <4>3. flow'[s].open => Honours(FindNext(cookie'[b]), s)
        BY <2>2, <3>1 DEF Smooth, FindNext, Find
      <4> QED
        BY <2>1, <2>3, <3>1, <3>3, <4>1, <4>2, <4>3, OwnStep
    <3> QED
      BY <3>2, <3>3
  <2>10. ASSUME NEW p \in Requests, LoggedOut(p) \/ Unheard(p) PROVE Smooth(s)'
    <3>1. /\ Writing(p) /\ flow'[s] = flow[s] /\ UNCHANGED <<lapsed, cookie, alone>> /\ Others(p)
          /\ req'[p].browser = req[p].browser /\ req[p].sid \in Sids \cup {NULL}
      BY <2>10, OrderFacts DEF LoggedOut, Unheard, GoesOn, Writing
    <3>2. req[p].browser # b
      BY <2>2, <2>10 DEF LoggedOut, Parts, Unheard
    <3>3. ASSUME NEW x, x = cookie[b] \/ \E q \in Writers(b) : x = req[q].sid
          PROVE  FindNext(x) = Find(x)
      <4>1. x = NULL \/ x # req[p].sid
        BY <2>1, <3>1, <3>2, <3>3 DEF OwnTokens, Writers, Writing
      <4> QED
        <5>1. store' = store \/ (req[p].sid # NULL /\ store' = [store EXCEPT ![req[p].sid] = NULL])
          BY <2>10 DEF LoggedOut, Unheard
        <5>2. x \in Sids \cup {NULL}
          <6>1. \A q \in Writers(b) : req[q].sid \in Sids \cup {NULL}
            BY OrderFacts DEF Writers
          <6> QED
            BY <2>1, <3>3, <6>1 DEF TypeOK
        <5>3. CASE store' = store
          BY <3>1, <5>3 DEF FindNext, Find
        <5>4. CASE req[p].sid # NULL /\ store' = [store EXCEPT ![req[p].sid] = NULL]
          <6>1. x # NULL => store'[x] = store[x]
            BY <4>1, <5>2, <5>4 DEF TypeOK
          <6> QED
            BY <3>1, <6>1 DEF FindNext, Find
        <5> QED
          BY <5>1, <5>3, <5>4
    <3>4. p \notin Writers(b)
      BY <3>2 DEF Writers
    <3> QED
      BY <1>2, <2>1, <2>2, <2>6, <3>1, <3>2, <3>3, <3>4, ForeignStep
  <2>11. ASSUME NEW p \in Requests, NEW sid \in Sids, Committed(p, sid) PROVE Smooth(s)'
    <3>1. /\ Writing(p) /\ flow'[s] = flow[s] /\ UNCHANGED <<lapsed, cookie, alone>> /\ Others(p)
          /\ req'[p] # NULL /\ req'[p].browser = req[p].browser /\ req'[p].route = req[p].route
          /\ req'[p].status = req[p].status /\ req'[p].opens = req[p].opens
          /\ req'[p].data = req[p].data /\ req'[p].sid = sid
          /\ IF req[p].sid = NULL THEN sid \notin drawn ELSE sid = req[p].sid
      BY <2>11, OrderFacts DEF Committed, GoesOn
    <3>2. CASE req[p].browser # b
      <4>1. ASSUME NEW x, x = cookie[b] \/ \E q \in Writers(b) : x = req[q].sid
            PROVE  FindNext(x) = Find(x)
        <5>1. x = NULL \/ x # sid
          BY <2>1, <3>1, <3>2, <4>1 DEF OwnTokens, Writers, Writing
        <5> QED
          BY <2>11, <3>1, <5>1 DEF Committed, FindNext, Find, TypeOK
      <4>2. p \notin Writers(b)
        BY <3>2 DEF Writers
      <4> QED
        BY <1>2, <2>1, <2>2, <2>6, <3>1, <3>2, <4>1, <4>2, ForeignStep
    <3>3. CASE req[p].browser = b
      <4>1. p \in Writers(b)
        BY <3>1, <3>3 DEF Writers, Writing
      <4>2. sid \notin lapsed /\ sid # NULL
        BY <2>3, <3>1, <4>1, NullIsNew DEF TypeOK
      <4>3. FindNext(sid) = req[p].data /\ Honours(req[p].data, s)
        BY <2>3, <2>11, <4>1, <4>2 DEF Committed, FindNext, TypeOK
      <4>4. flow[s].open => sid = cookie[b]
        <5>1. ASSUME flow[s].open PROVE req[p].sid = cookie[b] /\ cookie[b] # NULL
          BY <2>3, <4>1, <5>1 DEF Honours, Find
        <5> QED
          BY <3>1, <5>1
      <4> QED
        BY <2>1, <2>3, <3>1, <4>1, <4>3, <4>4, OwnStep
    <3> QED
      BY <3>2, <3>3
  <2>12. ASSUME NEW p \in Requests, Responded(p) PROVE Smooth(s)'
    <3>1. /\ Busy(p) /\ req'[p] = NULL /\ Others(p) /\ UNCHANGED <<store, lapsed>>
          /\ alone' = alone \ {p}
          /\ req[p].browser \in Browsers /\ req[p].phase = "respond"
          /\ req[p].opens \in States \cup {NULL}
          /\ req[p].status # "unmodified" => Writing(p)
          /\ req[p].opens # NULL => /\ req[p].status = "modified"
                                    /\ flow[req[p].opens].browser = req[p].browser
      <4>1. Busy(p)
        BY <2>12 DEF Responded, Gone
      <4>2. req[p] \in Request
        BY <4>1, OrderFacts
      <4> QED
        BY <2>12, <4>1, <4>2, OrderFacts DEF Responded, Gone, InOrder, Request
    <3>2. CASE p \notin Writers(b)
      <4>1. req[p].browser # b \/ (req[p].status = "unmodified" /\ req[p].opens = NULL)
        BY <3>1, <3>2 DEF Writers, Writing
      <4>2. flow'[s] = flow[s]
        BY <2>12, <3>1, <4>1 DEF Responded, TypeOK
      <4>3. cookie'[b] = cookie[b]
        BY <2>12, <3>1, <4>1 DEF Responded, TypeOK
      <4>4. \A x : FindNext(x) = Find(x)
        BY <3>1 DEF FindNext, Find
      <4> QED
        BY <1>2, <2>1, <2>2, <2>6, <3>1, <3>2, <4>2, <4>3, <4>4, ForeignStep
    <3>3. CASE p \in Writers(b)
      <4>1. flow'[s].open
        <5>1. CASE flow[s].open
          BY <2>1, <5>1
        <5>2. CASE ~flow[s].open
          <6>1. flow' = [flow EXCEPT ![s] = [flow[s] EXCEPT !.open = TRUE]]
            BY <2>3, <2>12, <3>3, <5>2, NullIsNew DEF Responded
          <6>2. flow'[s] = [flow[s] EXCEPT !.open = TRUE]
            BY <6>1 DEF TypeOK
          <6> QED
            BY <2>1, <6>2 DEF Flow
        <5> QED
          BY <5>1, <5>2
      <4>2. Honours(Find(cookie'[b]), s)
        <5>1. CASE req[p].status = "modified"
          <6>1. cookie'[b] = req[p].sid
            BY <2>1, <2>3, <2>12, <3>3, <5>1 DEF Responded, TypeOK
          <6> QED
            BY <2>3, <3>1, <3>3, <5>1, <6>1
        <5>2. CASE req[p].status # "modified"
          <6>1. flow[s].open
            BY <2>3, <3>1, <3>3, <5>2, NullIsNew
          <6>2. cookie' = cookie
            BY <2>3, <2>12, <3>3, <5>2 DEF Responded
          <6> QED
            BY <2>3, <3>3, <6>1, <6>2
        <5> QED
          BY <5>1, <5>2
      <4>3. FindNext(cookie'[b]) = Find(cookie'[b])
        <5>1. \A x : FindNext(x) = IF x = NULL \/ x \in lapsed THEN NULL ELSE store[x]
          BY <3>1 DEF FindNext
        <5> QED
          BY <5>1 DEF Find
      <4> QED
        BY <2>1, <2>3, <3>1, <3>3, <4>1, <4>2, <4>3, OwnStep
    <3> QED
      BY <3>2, <3>3
  <2>13. ASSUME NEW p \in Requests, Aborted(p) PROVE Smooth(s)'
    <3>1. req[p].browser # b /\ p \notin Writers(b)
      BY <2>2, <2>13 DEF Aborted, Writers
    <3> QED
      BY <2>5, <2>6, <2>13, <3>1 DEF Aborted, Gone
  <2>14. ASSUME NEW sid \in Sids, Lapsed(sid) PROVE FALSE
    BY <1>2, <2>14, Zenon DEF Lapsed
  <2>15. ASSUME UNCHANGED <<lapsed, cookie, flow, req, alone>>, \A x : FindNext(x) = Find(x)
         PROVE  Smooth(s)'
    <3>1. /\ flow' = flow /\ flow'[s].browser = b /\ flow'[s].kind = flow[s].kind
          /\ cookie' = cookie /\ req' = req /\ alone' = alone /\ \A x : FindNext(x) = Find(x)
      BY <2>1, <2>15
    <3>2. flow'[s].open => Honours(FindNext(cookie'[b]), s)
      BY <2>2, <3>1 DEF Smooth
    <3>3. ~flow'[s].open => \E q \in Requests : /\ req'[q] # NULL /\ req'[q].browser = b
                                               /\ req'[q].route # "page" /\ req'[q].opens = s
      BY <2>2, <3>1 DEF Smooth, Writers, Busy
    <3>4. ASSUME NEW q \in Requests, req'[q] # NULL, req'[q].browser = b, req'[q].route # "page"
          PROVE  /\ q \in alone'
                 /\ Honours(req'[q].data, s)
                 /\ req'[q].status # "destroyed"
                 /\ flow'[s].open => req'[q].sid = cookie'[b]
                 /\ req'[q].phase = "respond" /\ req'[q].status = "modified" =>
                      Honours(FindNext(req'[q].sid), s)
      <4>1. q \in Writers(b)
        BY <3>1, <3>4 DEF Writers, Busy
      <4> QED
        BY <2>2, <3>1, <4>1 DEF Smooth
    <3> QED
      BY <2>1, <3>1, <3>2, <3>3, <3>4, SmoothNext
  <2>16. ASSUME NEW sid \in Sids, Cleaned(sid) PROVE Smooth(s)'
    BY <2>15, <2>16 DEF Cleaned, FindNext, Find, TypeOK
  <2>17. CASE UNCHANGED <<store, lapsed, drawn, cookie, flow, req, disturbed, alone, ended, out, late>>
    BY <2>15, <2>17 DEF FindNext, Find
  <2> QED
    BY <2>7, <2>8, <2>9, <2>10, <2>11, <2>12, <2>13, <2>14, <2>16, <2>17 DEF Shape, ByRequest
<1>3. CASE \E p \in Requests : Begun(p, s)
  BY <1>1, <1>3
<1>4. ASSUME ~\E p \in Requests : Begun(p, s) PROVE flow[s] # NULL
  <2>1. CASE \E p \in Requests, x \in States : Begun(p, x)
    <3>1. PICK p \in Requests, x \in States : Begun(p, x)
      BY <2>1
    <3>2. x # s /\ flow[x] = NULL
      BY <1>4, <3>1 DEF Begun
    <3>3. flow'[s] = flow[s]
      BY <3>1, <3>2 DEF Begun, TypeOK
    <3> QED
      BY <3>3
  <2>2. CASE \E p \in Requests : Responded(p)
    <3>1. PICK p \in Requests : Responded(p)
      BY <2>2
    <3>2. req[p].opens # NULL => flow[req[p].opens] # NULL
      BY <3>1 DEF Responded, Gone, InOrder
    <3> QED
      BY <3>1, <3>2 DEF Responded, TypeOK
  <2>3. ASSUME UNCHANGED flow PROVE flow[s] # NULL
    BY <2>3
  <2> QED
    BY <2>1, <2>2, <2>3, FlowStays
<1>5. disturbed \subseteq disturbed'
  BY DisturbedGrows
<1> QED
  BY <1>2, <1>3, <1>4, <1>5

-------------------------------------------------------------------------------
(* The theorems.                                                              *)

\* Every step keeps the invariant.
LEMMA StepIInv == ASSUME IInv, [Next]_vars PROVE IInv'
<1>1. TypeOK' /\ Shape
  BY StepTypes, StepShape DEF IInv
<1>2. OwnTokens' /\ StatesAtHome' /\ \A p \in Requests : InOrder(p)' /\ Undivided(p)'
  BY <1>1, StepOwnTokens, StepStatesAtHome, StepInOrder, StepUndivided DEF IInv
<1>3. \A s \in ended' : Over(s)'
  BY <1>1, StepOver
<1>4. \A s \in States \ disturbed' : flow'[s] # NULL => Smooth(s)'
  BY <1>1, StepSmooth
<1>5. \A b \in out' : SignedOut(b)'
  BY <1>1, StepSignedOut
<1> QED
  BY <1>1, <1>2, <1>3, <1>4, <1>5 DEF IInv

\* The invariant: no session token is shared by two browsers, no session that a
\* browser may reach holds another browser's state, an ended flow's state is
\* nowhere, an undisturbed flow's state is in the session of its browser, and of
\* a browser that was logged out nothing brings the user back but what its logout
\* overtook.
THEOREM Invariance == Spec => []IInv
<1>1. IInv /\ UNCHANGED vars => IInv'
  BY StepIInv
<1> QED
  BY InitIInv, StepIInv, PTL DEF Spec

\* A redirect flow that nothing rightly upset is accepted: the callback finds in
\* its session the state that the flow began with, and the token callback a user.
THEOREM FlowsAreHonoured == Spec => []UndisturbedFlowsAreHonoured
<1>1. IInv => UndisturbedFlowsAreHonoured
  <2> SUFFICES ASSUME IInv, NEW p \in Requests, Busy(p), req[p].phase = "handle",
                      req[p].param \notin disturbed, req[p].route \in {"callback", "token_callback"}
               PROVE  /\ req[p].route = "callback" => req[p].data.state = req[p].param
                      /\ req[p].route = "token_callback" =>
                           req[p].data.user_token_state = req[p].param /\ req[p].data.user # NULL
    BY DEF UndisturbedFlowsAreHonoured
  <2> DEFINE s == req[p].param
  <2>1. /\ s \in States /\ flow[s] # NULL /\ flow[s].browser = req[p].browser
        /\ flow[s].kind = "login" <=> req[p].route = "callback"
    BY DEF IInv, InOrder
  <2>2. flow[s].kind \in {"login", "token"}
    <3>1. flow[s] \in Flow
      BY <2>1 DEF IInv, TypeOK
    <3> QED
      BY <3>1 DEF Flow
  <2>3. p \in Writers(flow[s].browser) /\ Smooth(s)
    BY <2>1 DEF IInv, Writers
  <2>4. Honours(req[p].data, s)
    BY <2>3 DEF Smooth
  <2> QED
    BY <2>1, <2>2, <2>4 DEF Honours
<1> QED
  BY <1>1, Invariance, PTL

\* A logout whose deletion succeeded and that overlapped no other writing request
\* is final for the flows that were begun before it: no later callback of theirs
\* finds its state.
THEOREM LogoutIsFinal == Spec => []LogoutEndsFlows
<1>1. IInv => LogoutEndsFlows
  BY DEF IInv, Over, Holds, Writing, LogoutEndsFlows, TypeOK, Request, Busy
<1> QED
  BY <1>1, Invariance, PTL

\* A browser whose session was destroyed or has expired shows no user until it is
\* logged in again, or a request that this had overtaken writes its session.
THEOREM SessionsEnd == Spec => []LoggedOutStaysOut
<1>1. IInv => LoggedOutStaysOut
  BY DEF IInv, SignedOut, LoggedOutStaysOut
<1> QED
  BY <1>1, Invariance, PTL
=============================================================================

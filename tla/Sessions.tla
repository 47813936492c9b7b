------------------------------- MODULE Sessions -------------------------------
(***************************************************************************)
(* Browser sessions and the two OAuth2 redirect flows that live in them.   *)
(* The session manager loads the whole session when a request arrives and  *)
(* writes the whole of it back, when it was modified, as the response      *)
(* starts; there is no lock and no version, so of two overlapping requests *)
(* the later commit wins.  Each request is three steps of the server: load,*)
(* the handler (which works on the loaded copy) and the commit; then the   *)
(* response travels to the browser, whose next request it may shape.       *)
(***************************************************************************)
EXTENDS Naturals

CONSTANTS
  Browsers,   \* cookie jars; the tabs of one browser share its cookie
  Requests,   \* requests in progress, in any number of replicas
  Sids,       \* session tokens the manager can draw (bounds the runs)
  States,     \* random OAuth2 states that can be drawn (bounds the runs)
  Users,      \* who can log in
  NULL

ASSUME NullIsNew == NULL \notin Users \cup States \cup Sids \cup Browsers

VARIABLES
  store,    \* sessions table: the data of each session, NULL for no row
  lapsed,   \* sessions past their one-hour deadline, as Find sees them
  drawn,    \* session tokens already drawn
  cookie,   \* the session cookie of each browser
  req,      \* the requests in progress
  flow,     \* the redirect flow of each state that was drawn
  spent     \* flows whose authorization code has been exchanged

(***************************************************************************)
(* History variables.                                                      *)
(***************************************************************************)
VARIABLES
  disturbed,  \* flows that something else could rightly have upset
  alone,      \* writing requests that no other one of the browser, and no
              \* expiry of their session, has overlapped
  ended,      \* flows begun before a logout that overlapped no request
  out,        \* browsers that nothing has logged in, or not since a logout or the
              \* expiry of their session
  late        \* requests in flight that this end of the session has overtaken

server  == <<store, lapsed, drawn>>
outside == <<cookie, flow, spent>>
history == <<disturbed, alone, ended>>
parting == <<out, late>>
vars    == <<server, outside, req, history, parting>>

\* Session values: "state", "user_token_state", and the keys user, token and
\* claims, which the login callback always sets together and for one user.
Data  == [state : States \cup {NULL}, user_token_state : States \cup {NULL},
          user : Users \cup {NULL}]
Empty == [state |-> NULL, user_token_state |-> NULL, user |-> NULL]

Routes  == {"login", "callback", "logout", "authorize", "token_callback", "page"}
Phases  == {"handle", "commit", "respond"}
Answers == {"none", "done", "other"}   \* "done": a user logged in, a token saved

Request == [phase : Phases, browser : Browsers, route : Routes,
            param : States \cup {NULL},   \* the state of a callback's query
            sid : Sids \cup {NULL},       \* session token the data came from
            data : Data, status : {"unmodified", "modified", "destroyed"},
            opens : States \cup {NULL},   \* the flow the redirect leads to
            answer : Answers]

Flow == [kind : {"login", "token"}, browser : Browsers, starter : Users \cup {NULL},
         open : BOOLEAN]

ASSUME NullIsNoRecord == NULL \notin Data /\ NULL \notin Request /\ NULL \notin Flow

Busy(p) == req[p] # NULL
\* Requests in flight that may write the session: every route but a page.
Writers(b) == {p \in Requests : Busy(p) /\ req[p].browser = b /\ req[p].route # "page"}
FlowsOf(b)  == {s \in States : flow[s] # NULL /\ flow[s].browser = b}
KindOf(b, k) == {s \in FlowsOf(b) : flow[s].kind = k}

\* What the store finds under a session token.
Find(sid) == IF sid = NULL \/ sid \in lapsed THEN NULL ELSE store[sid]

LoggedIn(d) == d # NULL /\ d.user # NULL

Init ==
  /\ store     = [s \in Sids |-> NULL]
  /\ lapsed    = {}
  /\ drawn     = {}
  /\ cookie    = [b \in Browsers |-> NULL]
  /\ req       = [p \in Requests |-> NULL]
  /\ flow      = [s \in States |-> NULL]
  /\ spent     = {}
  /\ disturbed = {}
  /\ alone     = {}
  /\ ended     = {}
  /\ out       = Browsers
  /\ late      = {}

-------------------------------------------------------------------------------
(* Load: the request carries the browser's cookie; a session that is missing *)
(* or past its deadline gives an empty one with no token.                    *)

Arrive(p, b, route, param) ==
  /\ ~Busy(p)
  /\ LET found == Find(cookie[b])
     IN  req' = [req EXCEPT ![p] =
           [phase |-> "handle", browser |-> b, route |-> route, param |-> param,
            sid |-> IF found = NULL THEN NULL ELSE cookie[b],
            data |-> IF found = NULL THEN Empty ELSE found,
            status |-> "unmodified", opens |-> NULL, answer |-> "none"]]
  \* History: overlapping requests may overwrite what the other one stored.
  /\ disturbed' = IF route = "page" \/ Writers(b) = {} THEN disturbed
                  ELSE disturbed \cup FlowsOf(b)
  /\ alone' = CASE route = "page"  -> alone
               [] Writers(b) = {} -> alone \cup {p}
               [] OTHER           -> alone \ (Writers(b) \cup {p})
  /\ UNCHANGED <<server, outside, ended, parting>>

\* A page or one of the links to follow.
Visit(p, b) ==
  \E route \in {"login", "logout", "authorize", "page"} : Arrive(p, b, route, NULL)

\* The provider sends the browser back with the state it was given; the user
\* may also reload that URL later.
Return(p, s) ==
  /\ flow[s] # NULL
  /\ flow[s].open
  /\ Arrive(p, flow[s].browser,
            IF flow[s].kind = "login" THEN "callback" ELSE "token_callback", s)

-------------------------------------------------------------------------------
(* Handlers, on the loaded copy.                                              *)

Handling(p, route) == Busy(p) /\ req[p].phase = "handle" /\ req[p].route = route

\* Only a modified session is written.
After(status) == IF status = "modified" THEN "commit" ELSE "respond"

Answer(p, data, status, answer) ==
  req' = [req EXCEPT ![p].phase = After(status), ![p].data = data,
                     ![p].status = status, ![p].answer = answer]

\* A flow that begins while another request of the browser is in flight, or
\* that follows another of its kind, may be upset by it.
Begins(p, s, kind) ==
  /\ flow[s] = NULL
  /\ flow' = [flow EXCEPT ![s] =
       [kind |-> kind, browser |-> req[p].browser, starter |-> req[p].data.user,
        open |-> FALSE]]
  /\ disturbed' = disturbed \cup KindOf(req[p].browser, kind)
                    \cup (IF p \in alone THEN {} ELSE {s})

Login(p) ==
  /\ Handling(p, "login")
  /\ \E s \in States :
       /\ Begins(p, s, "login")
       /\ req' = [req EXCEPT ![p].phase = "commit", ![p].status = "modified",
                             ![p].data.state = s, ![p].opens = s,
                             ![p].answer = "other"]
  /\ UNCHANGED <<server, cookie, spent, alone, ended, parting>>

\* Fault: the key is blanked, not removed.
PoppedToBlank(p, key) == [req[p].data EXCEPT ![key] = ""]

\* PopString removes the stored state whatever it is, if there is one.
Popped(p, key) == [req[p].data EXCEPT ![key] = NULL]
PopStatus(p, key) == IF req[p].data[key] = NULL THEN req[p].status ELSE "modified"

\* An error answer or malformed parameters: the login callback returns before
\* it pops the state.
CallbackRefused(p) ==
  /\ Handling(p, "callback")
  /\ Answer(p, req[p].data, "unmodified", "other")
  /\ UNCHANGED <<server, outside, history, parting>>

CallbackRejected(p) ==
  /\ Handling(p, "callback")
  /\ req[p].data.state # req[p].param
  /\ Answer(p, Popped(p, "state"), PopStatus(p, "state"), "other")
  /\ disturbed' = disturbed \cup KindOf(req[p].browser, "login")
  /\ UNCHANGED <<server, outside, alone, ended, parting>>

\* History: a browser is logged in again.
Enters(b) == out' = out \ {b} /\ late' = late \ Writers(b)

\* The code is good once; the exchange or the check of the ID token may fail.
Callback(p) ==
  /\ Handling(p, "callback")
  /\ req[p].data.state = req[p].param
  /\ \/ \E u \in Users :
          /\ req[p].param \notin spent
          /\ spent' = spent \cup {req[p].param}
          /\ Answer(p, [Popped(p, "state") EXCEPT !.user = u], "modified", "done")
          /\ Enters(req[p].browser)
     \/ /\ Answer(p, Popped(p, "state"), "modified", "other")
        /\ UNCHANGED parting
        /\ \/ UNCHANGED spent
           \/ spent' = spent \cup {req[p].param}
  /\ disturbed' = disturbed \cup KindOf(req[p].browser, "login")
  /\ UNCHANGED <<server, cookie, flow, alone, ended>>

\* History: a logout ends the flows begun before it if it overlapped no other
\* writing request, logs its browser out if the cookie leads to the session it
\* destroys, and overtakes the requests beside it.
Parts(p) ==
  LET b == req[p].browser
  IN /\ disturbed' = disturbed \cup FlowsOf(b)
     /\ ended' = IF p \in alone THEN ended \cup FlowsOf(b) ELSE ended
     /\ IF req[p].sid = cookie[b] /\ b \notin out
        THEN /\ out' = out \cup {b}
             /\ late' = late \cup (Writers(b) \ {p})
        ELSE UNCHANGED parting

\* Fault: the logout removes the user and leaves the rest of the session.
LogoutRemovesUser(p) ==
  /\ Handling(p, "logout")
  /\ Answer(p, [req[p].data EXCEPT !.user = NULL], "modified", "other")
  /\ Parts(p)
  /\ UNCHANGED <<server, outside, alone>>

\* Destroy deletes the row at once and empties the copy.
Logout(p) ==
  /\ Handling(p, "logout")
  /\ store' = IF req[p].sid = NULL THEN store ELSE [store EXCEPT ![req[p].sid] = NULL]
  /\ req' = [req EXCEPT ![p].phase = "respond", ![p].status = "destroyed",
                        ![p].data = Empty, ![p].sid = NULL, ![p].answer = "other"]
  /\ Parts(p)
  /\ UNCHANGED <<lapsed, drawn, outside, alone>>

\* When the store fails to delete the row, or its answer is lost, Destroy returns
\* the error and leaves the copy as it is; the handler ignores the error and
\* redirects as if the user were logged out.  The cookie stays.
DestroyFails(p) ==
  /\ Handling(p, "logout")
  /\ Answer(p, req[p].data, "unmodified", "other")
  /\ \/ UNCHANGED <<store, disturbed>>
     \/ /\ req[p].sid # NULL
        /\ store' = [store EXCEPT ![req[p].sid] = NULL]
        /\ disturbed' = disturbed \cup FlowsOf(req[p].browser)
  /\ UNCHANGED <<lapsed, drawn, outside, alone, ended, parting>>

\* Fault: both flows keep their state under the same key.
AuthorizeUnderLoginKey(p) ==
  /\ Handling(p, "authorize")
  /\ req[p].data.user # NULL
  /\ \E s \in States :
       /\ Begins(p, s, "token")
       /\ req' = [req EXCEPT ![p].phase = "commit", ![p].status = "modified",
                             ![p].data.state = s, ![p].opens = s,
                             ![p].answer = "other"]
  /\ UNCHANGED <<server, cookie, spent, alone, ended, parting>>

AuthorizeUserToken(p) ==
  /\ Handling(p, "authorize")
  /\ req[p].data.user # NULL
  /\ \E s \in States :
       /\ Begins(p, s, "token")
       /\ req' = [req EXCEPT ![p].phase = "commit", ![p].status = "modified",
                             ![p].data.user_token_state = s, ![p].opens = s,
                             ![p].answer = "other"]
  /\ UNCHANGED <<server, cookie, spent, alone, ended, parting>>

AuthorizeWithoutUser(p) ==
  /\ Handling(p, "authorize")
  /\ req[p].data.user = NULL
  /\ Answer(p, req[p].data, "unmodified", "other")
  /\ UNCHANGED <<server, outside, history, parting>>

\* The token callback pops its state first: on an error answer, on malformed
\* parameters and on a mismatch too.
UserTokenCallbackRefused(p) ==
  /\ Handling(p, "token_callback")
  /\ Answer(p, Popped(p, "user_token_state"), PopStatus(p, "user_token_state"), "other")
  /\ disturbed' = disturbed \cup KindOf(req[p].browser, "token")
  /\ UNCHANGED <<server, outside, alone, ended, parting>>

UserTokenCallbackRejected(p) ==
  /\ Handling(p, "token_callback")
  /\ req[p].data.user_token_state # req[p].param
  /\ Answer(p, Popped(p, "user_token_state"), PopStatus(p, "user_token_state"), "other")
  /\ disturbed' = disturbed \cup KindOf(req[p].browser, "token")
  /\ UNCHANGED <<server, outside, alone, ended, parting>>

\* Accepted: with a user in the session the code is exchanged and the token
\* saved for that user; the exchange or the save may fail.
UserTokenCallback(p) ==
  /\ Handling(p, "token_callback")
  /\ req[p].data.user_token_state = req[p].param
  /\ \/ /\ req[p].data.user = NULL
        /\ Answer(p, Popped(p, "user_token_state"), "modified", "other")
        /\ UNCHANGED spent
     \/ /\ req[p].data.user # NULL
        /\ req[p].param \notin spent
        /\ spent' = spent \cup {req[p].param}
        /\ Answer(p, Popped(p, "user_token_state"), "modified", "done")
     \/ /\ req[p].data.user # NULL
        /\ Answer(p, Popped(p, "user_token_state"), "modified", "other")
        /\ \/ UNCHANGED spent
           \/ spent' = spent \cup {req[p].param}
  /\ disturbed' = disturbed \cup KindOf(req[p].browser, "token")
  /\ UNCHANGED <<server, cookie, flow, alone, ended, parting>>

\* Every other page only reads the session.
Page(p) ==
  /\ Handling(p, "page")
  /\ Answer(p, req[p].data, "unmodified", "other")
  /\ UNCHANGED <<server, outside, history, parting>>

-------------------------------------------------------------------------------
(* Commit and response.                                                       *)

\* Fault: a commit gives the session a new deadline.
CommitRenewsDeadline(p) ==
  /\ Busy(p)
  /\ req[p].phase = "commit"
  /\ req[p].status = "modified"
  /\ \E sid \in Sids :
       /\ IF req[p].sid = NULL THEN sid \notin drawn ELSE sid = req[p].sid
       /\ drawn' = drawn \cup {sid}
       /\ lapsed' = lapsed \ {sid}
       /\ store' = [store EXCEPT ![sid] = req[p].data]
       /\ req'   = [req EXCEPT ![p].phase = "respond", ![p].sid = sid]
  /\ IF p \in late THEN Enters(req[p].browser) ELSE UNCHANGED parting
  /\ UNCHANGED <<outside, history>>

\* A session without a token draws one; the whole copy replaces the row, or
\* brings back a row that has been deleted since the load.
Commit(p) ==
  /\ Busy(p)
  /\ req[p].phase = "commit"
  /\ req[p].status = "modified"
  /\ \E sid \in Sids :
       /\ IF req[p].sid = NULL THEN sid \notin drawn ELSE sid = req[p].sid
       /\ drawn' = drawn \cup {sid}
       /\ store' = [store EXCEPT ![sid] = req[p].data]
       /\ req'   = [req EXCEPT ![p].phase = "respond", ![p].sid = sid]
  /\ IF p \in late THEN Enters(req[p].browser) ELSE UNCHANGED parting
  /\ UNCHANGED <<lapsed, outside, history>>

\* The store refuses: the session manager answers 500 and no cookie is set.
\* Also a request that dies before it answers.
Abort(p) ==
  /\ Busy(p)
  /\ req' = [req EXCEPT ![p] = NULL]
  /\ disturbed' = disturbed \cup FlowsOf(req[p].browser)
  /\ alone' = alone \ {p}
  /\ late' = late \ {p}
  /\ UNCHANGED <<server, outside, ended, out>>

\* The browser takes the response: the new or cleared cookie, and the redirect.
Respond(p) ==
  /\ Busy(p)
  /\ req[p].phase = "respond"
  /\ cookie' = CASE req[p].status = "modified"  -> [cookie EXCEPT ![req[p].browser] = req[p].sid]
                 [] req[p].status = "destroyed" -> [cookie EXCEPT ![req[p].browser] = NULL]
                 [] OTHER                       -> cookie
  /\ flow' = IF req[p].opens = NULL THEN flow
             ELSE [flow EXCEPT ![req[p].opens].open = TRUE]
  /\ req' = [req EXCEPT ![p] = NULL]
  /\ IF p \in late /\ req[p].status = "modified" THEN Enters(req[p].browser)
     ELSE out' = out /\ late' = late \ {p}
  /\ alone' = alone \ {p}
  /\ UNCHANGED <<server, spent, disturbed, ended>>

\* The deadline of a session passes; the store's cleanup removes its row.  The
\* deadline is part of what a commit writes back, so a session that has lapsed
\* stays so.  History: its browser is logged out; a request of that browser with
\* another session may yet bring that one back.
Lapse(sid) ==
  /\ sid \in drawn \ lapsed
  /\ lapsed' = lapsed \cup {sid}
  /\ disturbed' = disturbed \cup {s \in States : flow[s] # NULL}
  /\ alone' = alone \ {p \in Requests : Busy(p) /\ req[p].sid = sid}
  /\ out' = out \cup {b \in Browsers : cookie[b] = sid}
  /\ late' = late \cup {p \in Requests : /\ Busy(p) /\ req[p].route # "page" /\ req[p].sid # sid
                                         /\ req[p].browser \notin out
                                         /\ cookie[req[p].browser] = sid}
  /\ UNCHANGED <<store, drawn, outside, req, ended>>

Cleanup(sid) ==
  /\ sid \in lapsed
  /\ store[sid] # NULL
  /\ store' = [store EXCEPT ![sid] = NULL]
  /\ UNCHANGED <<lapsed, drawn, outside, req, history, parting>>

Handle(p) ==
  \/ Login(p)
  \/ CallbackRefused(p)
  \/ CallbackRejected(p)
  \/ Callback(p)
  \/ Logout(p)
  \/ DestroyFails(p)
  \/ AuthorizeUserToken(p)
  \/ AuthorizeWithoutUser(p)
  \/ UserTokenCallbackRefused(p)
  \/ UserTokenCallbackRejected(p)
  \/ UserTokenCallback(p)
  \/ Page(p)

Next ==
  \/ \E p \in Requests :
       \/ \E b \in Browsers : Visit(p, b)
       \/ \E s \in States : Return(p, s)
       \/ Handle(p)
       \/ Commit(p)
       \/ Respond(p)
       \/ Abort(p)
  \/ \E sid \in Sids : Lapse(sid) \/ Cleanup(sid)

Spec == Init /\ [][Next]_vars

-------------------------------------------------------------------------------
(* Properties.                                                                *)

\* Every variable has its type.
TypeOK ==
  /\ store \in [Sids -> Data \cup {NULL}]
  /\ lapsed \subseteq drawn
  /\ drawn \subseteq Sids
  /\ cookie \in [Browsers -> Sids \cup {NULL}]
  /\ req \in [Requests -> Request \cup {NULL}]
  /\ flow \in [States -> Flow \cup {NULL}]
  /\ spent \subseteq States
  /\ disturbed \subseteq States
  /\ alone \subseteq Requests
  /\ ended \subseteq States
  /\ out \subseteq Browsers
  /\ late \subseteq Requests

\* A callback finds in its session the state its flow began with, and the token
\* callback a user, unless something rightly upset the flow: a second flow of
\* the same kind, a logout, an expiry, a failed request, or a writing request
\* that overlapped another one.  Pages, and the flow of the other kind, do not.
UndisturbedFlowsAreHonoured ==
  \A p \in Requests :
    Busy(p) /\ req[p].phase = "handle" /\ req[p].param \notin disturbed =>
      /\ req[p].route = "callback" => req[p].data.state = req[p].param
      /\ req[p].route = "token_callback" =>
           req[p].data.user_token_state = req[p].param /\ req[p].data.user # NULL

\* A logout whose deletion the store confirmed and that overlapped no other
\* writing request ends the flows that were begun before it: none of their
\* callbacks is accepted in a later session.
LogoutEndsFlows ==
  \A p \in Requests :
    Busy(p) /\ req[p].phase = "handle" /\ req[p].param \in ended =>
      /\ req[p].route = "callback" => req[p].data.state # req[p].param
      /\ req[p].route = "token_callback" => req[p].data.user_token_state # req[p].param

\* A browser whose session was destroyed by a logout, or has expired, shows no
\* user until a login callback succeeds in it or a request that the end of the
\* session had overtaken writes its own copy or returns its cookie.  No request
\* that arrives later brings the user back, and none that commits to an expired
\* session.
LoggedOutStaysOut == \A b \in out : ~LoggedIn(Find(cookie[b]))

\* What the comment in UserTokenCallback says of its second check: the user who
\* is logged in when the callback arrives is *still* logged in, that is, the one
\* who began the authorization.  (The code breaks it.)
SavedForTheStarter ==
  [][\A p \in Requests :
       /\ Busy(p) /\ req[p].route = "token_callback" /\ req[p].phase = "handle"
       /\ req'[p] # NULL /\ req'[p].answer = "done"
       => req[p].data.user = flow[req[p].param].starter]_vars

-------------------------------------------------------------------------------
(* The inductive invariant.                                                   *)

Writing(p) == Busy(p) /\ req[p].route # "page"

\* A session token is known to one browser only, as its cookie or by its requests.
OwnTokens ==
  /\ \A b \in Browsers : cookie[b] # NULL => cookie[b] \in drawn
  /\ \A p \in Requests : Busy(p) /\ req[p].sid # NULL => req[p].sid \in drawn
  /\ \A b, c \in Browsers : cookie[b] # NULL /\ cookie[b] = cookie[c] => b = c
  /\ \A p \in Requests, b \in Browsers :
       Busy(p) /\ req[p].sid # NULL /\ req[p].sid = cookie[b] => req[p].browser = b
  /\ \A p, q \in Requests :
       Busy(p) /\ Busy(q) /\ req[p].sid # NULL /\ req[p].sid = req[q].sid
         => req[p].browser = req[q].browser

\* A page writes nothing, a handler has its work before it, a redirect leads to
\* a flow of the browser, and a callback comes from one.
InOrder(p) ==
  Busy(p) =>
    /\ req[p].route = "page" \/ req[p].phase = "handle" => req[p].status = "unmodified"
    /\ req[p].opens # NULL => /\ req[p].status = "modified"
                              /\ flow[req[p].opens] # NULL
                              /\ flow[req[p].opens].browser = req[p].browser
    /\ req[p].route \in {"callback", "token_callback"} =>
         /\ req[p].param \in States
         /\ flow[req[p].param] # NULL
         /\ flow[req[p].param].open
         /\ flow[req[p].param].browser = req[p].browser
         /\ flow[req[p].param].kind = "login" <=> req[p].route = "callback"

\* No other request writes beside one that is alone, its session has not lapsed,
\* and until its handler has run it has what the cookie leads to.
Undivided(p) ==
  Writing(p) /\ p \in alone =>
    /\ Writers(req[p].browser) = {p}
    /\ req[p].sid \notin lapsed
    /\ req[p].phase = "handle" =>
         IF req[p].sid = NULL THEN Find(cookie[req[p].browser]) = NULL
         ELSE cookie[req[p].browser] = req[p].sid

Holds(d, s) == d # NULL /\ (d.state = s \/ d.user_token_state = s)

\* The sessions that a request of browser b may still read or write hold only
\* states of b's flows.
AtHome(d, b) == \A s \in States : Holds(d, s) => flow[s] # NULL /\ flow[s].browser = b

StatesAtHome ==
  /\ \A b \in Browsers : AtHome(Find(cookie[b]), b)
  /\ \A p \in Requests : Busy(p) =>
       AtHome(req[p].data, req[p].browser) /\ AtHome(Find(req[p].sid), req[p].browser)

\* Nothing that a later request may load, or one in flight may write, holds the
\* state of an ended flow.
Over(s) ==
  /\ flow[s] # NULL
  /\ \A b \in Browsers : ~Holds(Find(cookie[b]), s)
  /\ \A p \in Requests : Writing(p) => ~Holds(req[p].data, s) /\ ~Holds(Find(req[p].sid), s)

\* Of a browser that is logged out, nothing that a request not overtaken by the
\* end of its session could still write, or lead the cookie to, has a user.
SignedOut(b) ==
  /\ ~LoggedIn(Find(cookie[b]))
  /\ \A p \in Writers(b) \ late :
       req[p].sid \in lapsed \/ (req[p].data.user = NULL /\ ~LoggedIn(Find(req[p].sid)))

\* Session data with all that the callback of flow s asks for.
Honours(d, s) ==
  /\ d # NULL
  /\ flow[s].kind = "login" => d.state = s
  /\ flow[s].kind = "token" => d.user_token_state = s /\ d.user # NULL

\* An undisturbed flow is in the session of its browser's cookie once the
\* redirect has reached the browser, and before that in the request that began
\* it; and no request in flight is about to take it away.
Smooth(s) ==
  LET b == flow[s].browser
  IN /\ flow[s].open => Honours(Find(cookie[b]), s)
     /\ ~flow[s].open => \E p \in Writers(b) : req[p].opens = s
     /\ \A p \in Writers(b) :
          /\ p \in alone
          /\ Honours(req[p].data, s)
          /\ req[p].status # "destroyed"
          /\ flow[s].open => req[p].sid = cookie[b]
          /\ req[p].phase = "respond" /\ req[p].status = "modified" =>
               Honours(Find(req[p].sid), s)

\* The inductive invariant.
IInv ==
  /\ TypeOK
  /\ OwnTokens
  /\ \A p \in Requests : InOrder(p) /\ Undivided(p)
  /\ StatesAtHome
  /\ \A s \in ended : Over(s)
  /\ \A b \in out : SignedOut(b)
  /\ \A s \in States \ disturbed : flow[s] # NULL => Smooth(s)
=============================================================================

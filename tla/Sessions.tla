------------------------------- MODULE Sessions -------------------------------
(***************************************************************************)
(* A user's session, from the server (modules/auth/auth.service.ts,        *)
(* middleware/authenticate.ts) to the tabs of a browser that share it      *)
(* (services/apiClient.ts, stores/authStore.ts, AppBootstrap.tsx).         *)
(*                                                                         *)
(* The server gives a pair of tokens. The access token is checked on every *)
(* request; when it has expired the client exchanges the refresh token for *)
(* a new pair, once: the server replaces the token of the session in one   *)
(* conditional UPDATE. The tabs share the pair through localStorage and    *)
(* nothing else: each has its own generation, which moves at every change  *)
(* of user or agency, and its own refresh in flight.                       *)
(*                                                                         *)
(* A pair is [sid, n]: the n-th pair of session sid. The two tokens of a   *)
(* pair are always stored and removed in the same turn of the event loop.  *)
(***************************************************************************)
EXTENDS Integers, FiniteSets

CONSTANTS
    Tab,
    Call,             \* calls of the API by the pages
    Me,               \* Me[t]: the call /auth/me of tab t
    Owner,            \* Owner[c]: the tab that makes call c
    MaxSession,       \* bound on the sessions opened
    Plans,            \* bounds of what happens, one of which is drawn at the start
    None

Request == Call \cup {Me[t] : t \in Tab}
Session == 1..MaxSession
Pair == [sid : Session, n : Nat]

\* the tabs whose page is being opened, the calls made, how often the user logs
\* in and out, how many answers are lost, tabs reloaded or agencies changed, and
\* how many sessions end or accounts are deactivated
Plan == [opening : SUBSET Tab, calls : SUBSET Call, logins : Nat, logouts : Nat,
         disturbances : Nat, ends : Nat]

ASSUME SessionsAssumption ==
    /\ Owner \in [Request -> Tab]
    /\ \A t \in Tab : Owner[Me[t]] = t /\ Me[t] \notin Call
    /\ MaxSession \in Nat \ {0}
    /\ Plans \subseteq Plan
    /\ None \notin Pair \cup Request

Ended == {"delivered", "failed"}
SessionRow == [state : {"absent", "live", "ended"}, n : Nat]
TabRow == [generation : Nat, leader : Request \cup {None}, authenticated : BOOLEAN,
           sync : {"idle", "first", "wait", "second", "done"}]
RequestRow == [pc : {"idle", "sent", "answered", "waiting"} \cup Ended, gen : Nat,
               snap : Pair \cup {None}, token : Pair \cup {None}, again : BOOLEAN,
               ok : BOOLEAN, leader : Request \cup {None}]
FlightRow == [server : {"none", "sent", "read", "rotated", "denied"}, over : BOOLEAN,
              pair : Pair \cup {None}, gen : Nat, snap : Pair \cup {None}]
LoginRow == [pc : {"none", "checked", "issued"}, gen : Nat, snap : Pair \cup {None}, sid : Nat]

VARIABLES
    active,     \* users.is_active
    row,        \* refresh_tokens: state and current token of each session
    expired,    \* expired[s]: the access tokens of s numbered below have expired
    storage,    \* localStorage: a pair or None
    tab,        \* the memory of each tab
    req,        \* the API calls
    flight,     \* flight[c]: the refresh that call c started
    login,      \* the login each tab has in progress
    logouts,    \* calls of /auth/logout not yet handled
    signedIn,   \* the session this browser was last signed in to (history)
    dropped,    \* refreshes whose answer the browser never saw (history)
    plan        \* what may still happen

server == <<active, row, expired>>
vars == <<server, storage, tab, req, flight, login, logouts, signedIn, dropped, plan>>

NoRequest == [pc |-> "idle", gen |-> 0, snap |-> None, token |-> None,
              again |-> FALSE, ok |-> FALSE, leader |-> None]
NoLogin == [pc |-> "none", gen |-> 0, snap |-> None, sid |-> 0]
NoFlight == [server |-> "none", over |-> FALSE, pair |-> None, gen |-> 0, snap |-> None]

\* the browser is signed in to the first session
Init ==
    /\ plan \in Plans
    /\ active = TRUE
    /\ row = [s \in Session |-> [state |-> IF s = 1 THEN "live" ELSE "absent", n |-> 0]]
    /\ expired = [s \in Session |-> 0]
    /\ storage = [sid |-> 1, n |-> 0]
    /\ tab = [t \in Tab |-> [generation |-> 0, leader |-> None,
                             authenticated |-> TRUE,
                             sync |-> IF t \in plan.opening THEN "idle" ELSE "done"]]
    /\ req = [c \in Request |-> NoRequest]
    /\ flight = [c \in Request |-> NoFlight]
    /\ login = [t \in Tab |-> NoLogin]
    /\ logouts = {}
    /\ signedIn = 1
    /\ dropped = {}

Live(s) == active /\ row[s].state = "live"
AccessValid(p) == p # None /\ p.n >= expired[p.sid] /\ Live(p.sid)
RefreshValid(p) == Live(p.sid) /\ row[p.sid].n = p.n
Same(c, x) == x.gen = tab[Owner[c]].generation /\ x.snap = storage
SameSession(c) == Same(c, flight[c])

-------------------------------------------------------------------------------
(* What several actions do to a tab                                        *)

\* logout of authStore: boundary, call of the server, then empty storage
LogoutEffects(t) ==
    /\ tab' = [tab EXCEPT ![t] = [tab[t] EXCEPT !.generation = @ + 1, !.authenticated = FALSE,
                                           !.sync = "done"]]
    /\ logouts' = IF storage = None THEN logouts ELSE logouts \cup {storage}
    /\ signedIn' = IF storage = None THEN signedIn ELSE None
    /\ storage' = None

\* request c of its tab starts (again) with the pair in storage
StartWith(c) ==
    [NoRequest EXCEPT !.pc = "sent", !.gen = tab[Owner[c]].generation,
                      !.snap = storage, !.token = storage]

Finish(c, outcome) == req' = [req EXCEPT ![c] = [NoRequest EXCEPT !.pc = outcome]]

-------------------------------------------------------------------------------
(* apiRequest and sendWithRefresh                                          *)

\* a page calls the API
Send(c) ==
    /\ c \in plan.calls /\ req[c].pc = "idle"
    /\ tab[Owner[c]].authenticated
    /\ req' = [req EXCEPT ![c] = StartWith(c)]
    /\ UNCHANGED <<server, storage, tab, flight, login, logouts, signedIn, dropped, plan>>

\* the server authenticates the request and answers
Serve(c) ==
    /\ req[c].pc = "sent"
    /\ req' = [req EXCEPT ![c] = [@ EXCEPT !.pc = "answered", !.ok = AccessValid(req[c].token)]]
    /\ UNCHANGED <<server, storage, tab, flight, login, logouts, signedIn, dropped, plan>>

\* sendWithRefresh: a first 401 of an ordinary call is worth a refresh
Refreshable(c) ==
    /\ req[c].pc = "answered" /\ ~req[c].ok
    /\ c \in Call /\ ~req[c].again /\ req[c].snap # None

GiveUpRefresh(c) ==
    /\ Refreshable(c)
    /\ ~Same(c, req[c])
    /\ Finish(c, "failed")
    /\ UNCHANGED <<server, storage, tab, flight, login, logouts, signedIn, dropped, plan>>

SharesFlight(c) ==
    LET leader == tab[Owner[c]].leader IN
    leader # None /\ flight[leader].gen = req[c].gen /\ flight[leader].snap = req[c].snap

\* refreshSingleFlight: one refresh for all the calls of a tab that need it
JoinRefresh(c) ==
    /\ Refreshable(c) /\ Same(c, req[c])
    /\ SharesFlight(c)
    /\ req' = [req EXCEPT ![c] = [@ EXCEPT !.pc = "waiting", !.leader = tab[Owner[c]].leader]]
    /\ UNCHANGED <<server, storage, tab, flight, login, logouts, signedIn, dropped, plan>>

LeadRefresh(c) ==
    /\ Refreshable(c) /\ Same(c, req[c])
    /\ ~SharesFlight(c)
    /\ req' = [req EXCEPT ![c] = [@ EXCEPT !.pc = "waiting", !.leader = c]]
    /\ tab' = [tab EXCEPT ![Owner[c]].leader = c]
    /\ flight' = [flight EXCEPT ![c] = [NoFlight EXCEPT !.server = "sent", !.gen = req[c].gen,
                                                         !.snap = req[c].snap]]
    /\ UNCHANGED <<server, storage, login, logouts, signedIn, dropped, plan>>

\* Mutant: a failed refresh settles nothing for the calls that share it.
ResumeOnSuccess(c) ==
    /\ req[c].pc = "waiting" /\ flight[req[c].leader].over
    /\ LET pair == flight[req[c].leader].pair IN
       /\ pair # None
       /\ IF req[c].gen # tab[Owner[c]].generation THEN Finish(c, "failed")
          ELSE req' = [req EXCEPT ![c] = [@ EXCEPT !.pc = "sent", !.again = TRUE, !.token = pair]]
    /\ UNCHANGED <<server, storage, tab, flight, login, logouts, signedIn, dropped, plan>>

\* the refresh is over: fail with it, or send the request again
Resume(c) ==
    /\ req[c].pc = "waiting" /\ flight[req[c].leader].over
    /\ LET pair == flight[req[c].leader].pair IN
       IF pair = None THEN Finish(c, "failed")
       ELSE IF req[c].gen # tab[Owner[c]].generation THEN Finish(c, "failed")
       ELSE req' = [req EXCEPT ![c] = [@ EXCEPT !.pc = "sent", !.again = TRUE, !.token = pair]]
    /\ UNCHANGED <<server, storage, tab, flight, login, logouts, signedIn, dropped, plan>>

\* apiRequest: only the session that asked gets the answer
Deliver(c) ==
    IF \/ req[c].gen # tab[Owner[c]].generation
       \/ req[c].token # None /\ storage # req[c].token
    THEN "changed"
    ELSE IF req[c].ok THEN "delivered" ELSE "unauthorized"

Receive(c) ==
    /\ c \in Call /\ req[c].pc = "answered" /\ ~Refreshable(c)
    /\ Finish(c, IF Deliver(c) = "delivered" THEN "delivered" ELSE "failed")
    /\ UNCHANGED <<server, storage, tab, flight, login, logouts, signedIn, dropped, plan>>

-------------------------------------------------------------------------------
(* performRefresh, and the server's part of it                             *)

\* refresh: the user and the session are read ...
ReadUser(c) ==
    /\ flight[c].server = "sent"
    /\ flight' = [flight EXCEPT ![c].server =
                     IF active THEN "read" ELSE "denied"]
    /\ UNCHANGED <<server, storage, tab, req, login, logouts, signedIn, dropped, plan>>

\* the answer with the new pair is lost if nobody waits for it any more
Answered(c, pair) ==
    flight' = [flight EXCEPT ![c] = [@ EXCEPT !.server = "rotated",
                                              !.pair = IF flight[c].over THEN None ELSE pair]]

\* Mutant: the token is replaced whatever it has become since.
RotateUnconditionally(c) ==
    /\ flight[c].server = "read"
    /\ LET p == flight[c].snap IN
       IF Live(p.sid)
       THEN /\ row' = [row EXCEPT ![p.sid].n = @ + 1]
            /\ Answered(c, [p EXCEPT !.n = row[p.sid].n + 1])
       ELSE /\ flight' = [flight EXCEPT ![c].server = "denied"]
            /\ UNCHANGED row
    /\ UNCHANGED <<active, expired, storage, tab, req, login, logouts, signedIn, dropped, plan>>

\* ... and the token replaced if it still is the session's
Rotate(c) ==
    /\ flight[c].server = "read"
    /\ LET p == flight[c].snap IN
       IF RefreshValid(p)
       THEN /\ row' = [row EXCEPT ![p.sid].n = @ + 1]
            /\ Answered(c, [p EXCEPT !.n = row[p.sid].n + 1])
       ELSE /\ flight' = [flight EXCEPT ![c].server = "denied"]
            /\ UNCHANGED row
    /\ UNCHANGED <<active, expired, storage, tab, req, login, logouts, signedIn, dropped, plan>>

\* the flight of c is over for the client; finally forgets it
Land(c, pair) ==
    flight' = [flight EXCEPT ![c] = [@ EXCEPT !.over = TRUE, !.pair = pair]]
ForgetFlight(c) ==
    IF tab[Owner[c]].leader = c THEN [tab EXCEPT ![Owner[c]].leader = None] ELSE tab

Awaited(c, outcome) == flight[c].server = outcome /\ ~flight[c].over

\* Mutant: the new pair is stored whatever happened meanwhile.
StoreUnchecked(c) ==
    /\ Awaited(c, "rotated")
    /\ storage' = flight[c].pair
    /\ Land(c, flight[c].pair)
    /\ tab' = ForgetFlight(c)
    /\ UNCHANGED <<server, req, login, logouts, signedIn, dropped, plan>>

\* Mutant: the new pair is kept in memory only.
StoreForgotten(c) ==
    /\ Awaited(c, "rotated")
    /\ Land(c, IF SameSession(c) THEN flight[c].pair ELSE None)
    /\ tab' = ForgetFlight(c)
    /\ UNCHANGED <<server, storage, req, login, logouts, signedIn, dropped, plan>>

\* the new pair arrives, and is stored if the session is still the same
Store(c) ==
    /\ Awaited(c, "rotated")
    /\ IF SameSession(c)
       THEN storage' = flight[c].pair /\ Land(c, flight[c].pair)
       ELSE UNCHANGED storage /\ Land(c, None)
    /\ tab' = ForgetFlight(c)
    /\ UNCHANGED <<server, req, login, logouts, signedIn, dropped, plan>>

\* a 401: terminateSession, whose event makes the tab log out, if it is the same
Terminate(c) ==
    /\ Awaited(c, "denied")
    /\ Land(c, None)
    /\ IF SameSession(c)
       THEN /\ tab' = [ForgetFlight(c) EXCEPT ![Owner[c]] =
                           [ForgetFlight(c)[Owner[c]] EXCEPT !.generation = @ + 2,
                                !.authenticated = FALSE, !.sync = "done"]]
            /\ storage' = None /\ signedIn' = None
       ELSE tab' = ForgetFlight(c) /\ UNCHANGED <<storage, signedIn>>
    /\ UNCHANGED <<server, req, login, logouts, dropped, plan>>

-------------------------------------------------------------------------------
(* synchronizePermissions of AppBootstrap: /auth/me, twice if need be       *)

\* the page of a tab is opened
StartSync(t) ==
    /\ tab[t].sync = "idle" /\ tab[t].authenticated /\ storage # None
    /\ tab' = [tab EXCEPT ![t].sync = "first"]
    /\ req' = [req EXCEPT ![Me[t]] = StartWith(Me[t])]
    /\ UNCHANGED <<server, storage, flight, login, logouts, signedIn, dropped, plan>>

\* a first failure of any kind: wait for the refresh in flight, if there is one
FirstMe(t) ==
    /\ tab[t].sync = "first"
    /\ req[Me[t]].pc \in {"answered", "failed"}
    /\ LET outcome == IF req[Me[t]].pc = "failed" THEN "failed" ELSE Deliver(Me[t]) IN
       /\ tab' = [tab EXCEPT ![t].sync = IF outcome = "delivered" THEN "done" ELSE "wait"]
       /\ req' = [req EXCEPT ![Me[t]] = [NoRequest EXCEPT !.leader =
                                            IF outcome = "delivered" THEN None ELSE tab[t].leader]]
    /\ UNCHANGED <<server, storage, flight, login, logouts, signedIn, dropped, plan>>

SecondMe(t) ==
    /\ tab[t].sync = "wait"
    /\ req[Me[t]].leader # None => flight[req[Me[t]].leader].over
    /\ IF tab[t].authenticated /\ storage # None
       THEN /\ tab' = [tab EXCEPT ![t].sync = "second"]
            /\ req' = [req EXCEPT ![Me[t]] = StartWith(Me[t])]
       ELSE tab' = [tab EXCEPT ![t].sync = "done"] /\ UNCHANGED req
    /\ UNCHANGED <<server, storage, flight, login, logouts, signedIn, dropped, plan>>

\* a second 401 logs the user out; any other failure is ignored
EndSync(t) ==
    /\ tab[t].sync = "second"
    /\ req[Me[t]].pc \in {"answered", "failed"}
    /\ LET outcome == IF req[Me[t]].pc = "failed" THEN "failed" ELSE Deliver(Me[t]) IN
       /\ Finish(Me[t], "idle")
       /\ IF outcome = "unauthorized" THEN LogoutEffects(t)
          ELSE tab' = [tab EXCEPT ![t].sync = "done"] /\ UNCHANGED <<storage, logouts, signedIn>>
    /\ UNCHANGED <<server, flight, login, dropped, plan>>

-------------------------------------------------------------------------------
(* Login, logout and change of agency                                      *)

Logout(t) ==
    /\ tab[t].authenticated
    /\ plan.logouts > 0 /\ plan' = [plan EXCEPT !.logouts = @ - 1]
    /\ LogoutEffects(t)
    /\ UNCHANGED <<server, req, flight, login, dropped>>

\* /auth/logout: authenticated with the access token it carries
ServeLogout(p) ==
    /\ p \in logouts
    /\ logouts' = logouts \ {p}
    /\ row' = IF AccessValid(p) THEN [row EXCEPT ![p.sid].state = "ended"] ELSE row
    /\ UNCHANGED <<active, expired, storage, tab, req, flight, login, signedIn, dropped, plan>>

\* the login page is shown to a tab that is not authenticated; the server reads
\* the account and checks the password
StartLogin(t) ==
    /\ ~tab[t].authenticated /\ login[t].pc = "none"
    /\ plan.logins > 0 /\ plan' = [plan EXCEPT !.logins = @ - 1]
    /\ active
    /\ login' = [login EXCEPT ![t] = [pc |-> "checked", gen |-> tab[t].generation,
                                      snap |-> storage, sid |-> 0]]
    /\ UNCHANGED <<server, storage, tab, req, flight, logouts, signedIn, dropped>>

\* issueTokens: a new session
IssueTokens(t) ==
    /\ login[t].pc = "checked"
    /\ \E s \in Session :
          /\ row[s].state = "absent" /\ \A r \in 1..(s - 1) : row[r].state # "absent"
          /\ row' = [row EXCEPT ![s].state = "live"]
          /\ login' = [login EXCEPT ![t] = [@ EXCEPT !.pc = "issued", !.sid = s]]
    /\ UNCHANGED <<active, expired, storage, tab, req, flight, logouts, signedIn, dropped, plan>>

\* the answer is an error if another tab signed in meanwhile (apiRequest)
EndLogin(t) ==
    /\ login[t].pc = "issued"
    /\ LET mine == /\ login[t].gen = tab[t].generation
                   /\ login[t].snap # None => login[t].snap = storage IN
       IF mine
       THEN /\ storage' = [sid |-> login[t].sid, n |-> 0]
            /\ signedIn' = login[t].sid
            /\ tab' = [tab EXCEPT ![t] = [tab[t] EXCEPT !.generation = @ + 1, !.authenticated = TRUE,
                                                   !.sync = "idle"]]
       ELSE UNCHANGED <<storage, signedIn, tab>>
    /\ login' = [login EXCEPT ![t] = NoLogin]
    /\ UNCHANGED <<server, req, flight, logouts, dropped, plan>>

Disturb == plan.disturbances > 0 /\ plan' = [plan EXCEPT !.disturbances = @ - 1]

\* setCurrentAgency: a boundary, with the same tokens
SwitchAgency(t) ==
    /\ tab[t].authenticated
    /\ tab' = [tab EXCEPT ![t].generation = @ + 1]
    /\ Disturb
    /\ UNCHANGED <<server, storage, req, flight, login, logouts, signedIn, dropped>>

-------------------------------------------------------------------------------
(* The network, the browser, the clock and the administrator               *)

Pending(c) == req[c].pc \in {"sent", "answered"}

LoseCall(c) ==
    /\ Pending(c)
    /\ Finish(c, "failed")
    /\ Disturb
    /\ UNCHANGED <<server, storage, tab, flight, login, logouts, signedIn, dropped>>

\* the answer of a refresh never comes; the server may still have done it
LoseRefresh(c) ==
    /\ flight[c].server # "none" /\ ~flight[c].over
    /\ Land(c, None)
    /\ dropped' = dropped \cup {c}
    /\ tab' = ForgetFlight(c)
    /\ Disturb
    /\ UNCHANGED <<server, storage, req, login, logouts, signedIn>>

\* a tab is reloaded: its memory starts afresh (no request of it is left to
\* compare the old generation with) and reads localStorage
Reload(t) ==
    /\ login[t].pc = "none"
    /\ tab' = [tab EXCEPT ![t] = [@ EXCEPT !.leader = None, !.authenticated = storage # None,
                                           !.sync = "idle"]]
    /\ req' = [c \in Request |->
                  IF Owner[c] = t /\ req[c].pc \in {"sent", "answered", "waiting"}
                  THEN [req[c] EXCEPT !.pc = "failed"] ELSE req[c]]
    /\ LET open == {c \in Request : Owner[c] = t /\ flight[c].server # "none" /\ ~flight[c].over} IN
       /\ dropped' = dropped \cup open
       /\ flight' = [c \in Request |->
                        IF c \in open THEN [flight[c] EXCEPT !.over = TRUE, !.pair = None] ELSE flight[c]]
    /\ Disturb
    /\ UNCHANGED <<server, storage, login, logouts, signedIn>>

\* access tokens live equally long: the older expire first
ExpireAccess(s) ==
    /\ row[s].state = "live" /\ expired[s] <= row[s].n
    /\ expired' = [expired EXCEPT ![s] = @ + 1]
    /\ UNCHANGED <<active, row, storage, tab, req, flight, login, logouts, signedIn, dropped, plan>>

End == plan.ends > 0 /\ plan' = [plan EXCEPT !.ends = @ - 1]

\* the refresh token expires, or the password was changed on another device
EndSession(s) ==
    /\ row[s].state = "live" /\ End
    /\ row' = [row EXCEPT ![s].state = "ended"]
    /\ UNCHANGED <<active, expired, storage, tab, req, flight, login, logouts, signedIn, dropped>>

\* status of user.service: deactivation revokes every session
Deactivate ==
    /\ active /\ End
    /\ active' = FALSE
    /\ row' = [s \in Session |-> IF row[s].state = "live" THEN [row[s] EXCEPT !.state = "ended"]
                                 ELSE row[s]]
    /\ UNCHANGED <<expired, storage, tab, req, flight, login, logouts, signedIn, dropped>>

Reactivate ==
    /\ ~active
    /\ active' = TRUE
    /\ UNCHANGED <<row, expired, storage, tab, req, flight, login, logouts, signedIn, dropped, plan>>

-------------------------------------------------------------------------------
Advance(c) ==
    \/ Serve(c) \/ GiveUpRefresh(c) \/ JoinRefresh(c) \/ LeadRefresh(c) \/ Resume(c)
    \/ Receive(c) \/ ReadUser(c) \/ Rotate(c) \/ Store(c) \/ Terminate(c)
Synchronize(t) == FirstMe(t) \/ SecondMe(t) \/ EndSync(t)
SignIn(t) == IssueTokens(t) \/ EndLogin(t)

Next ==
    \/ \E c \in Request : Send(c) \/ Advance(c) \/ LoseCall(c) \/ LoseRefresh(c)
    \/ \E t \in Tab : \/ StartSync(t) \/ Synchronize(t) \/ SignIn(t)
                      \/ Logout(t) \/ StartLogin(t) \/ SwitchAgency(t) \/ Reload(t)
    \/ \E p \in logouts : ServeLogout(p)
    \/ \E s \in Session : ExpireAccess(s) \/ EndSession(s)
    \/ Deactivate \/ Reactivate

Spec == Init /\ [][Next]_vars

\* the event loop of a tab runs its callbacks, and the server answers or the
\* connection breaks
FairSpec ==
    /\ Spec
    /\ \A c \in Request : WF_vars(Advance(c))
    /\ \A t \in Tab : WF_vars(Synchronize(t)) /\ WF_vars(SignIn(t))

-------------------------------------------------------------------------------
(* Properties                                                              *)

\* Every variable has values of its type: rows, tabs, requests and flights.
TypeOK ==
    /\ active \in BOOLEAN
    /\ row \in [Session -> SessionRow]
    /\ expired \in [Session -> Nat]
    /\ storage \in Pair \cup {None}
    /\ tab \in [Tab -> TabRow] /\ req \in [Request -> RequestRow]
    /\ flight \in [Request -> FlightRow] /\ login \in [Tab -> LoginRow]
    /\ logouts \subseteq Pair
    /\ signedIn \in Session \cup {None}
    /\ dropped \subseteq Request
    /\ plan \in Plan

\* Storage holds tokens of the session this browser is signed in to, or
\* nothing: the answer of a refresh that was under way when the user signed
\* out, or signed in again, in any tab, brings no older session back
\* (sameSession in performRefresh).
StorageOfCurrentLogin ==
    storage # None => storage.sid = signedIn

\* When the server no longer has the token the browser stored, the refresh that
\* replaced it is still to be answered, or its answer never came, or came after
\* the tab that asked had changed its agency: the tabs never lose a token
\* otherwise, however their refreshes interleave.
LossExplained ==
    storage # None /\ Live(storage.sid) /\ row[storage.sid].n # storage.n =>
        \E c \in Request :
            /\ flight[c].snap = storage /\ flight[c].server = "rotated"
            /\ \/ ~flight[c].over
               \/ c \in dropped
               \/ flight[c].gen # tab[Owner[c]].generation

\* A refresh token is exchanged at most once: two refreshes that present the
\* same one, from two tabs or from two calls, do not both succeed.
RotatedOnce ==
    \A c, d \in Request :
        /\ c # d
        /\ flight[c].server = "rotated" /\ flight[d].server = "rotated"
        => flight[c].snap # flight[d].snap

\* Every call of a page ends, by an answer or an error: calls that wait for a
\* refresh somebody else started are not forgotten when it fails.
EveryCallEnds ==
    \A c \in Call : (req[c].pc = "sent") ~> (req[c].pc \in Ended)

\* What the test of AppBootstrap says (app-bootstrap-refresh-race): the start of
\* a page does not log the user out while a refresh is under way.
NoLogoutDuringRefresh ==
    [][\A t \in Tab :
          tab[t].sync = "second" /\ tab[t].leader # None /\ tab'[t].leader # None
          => tab'[t].authenticated]_vars
===============================================================================

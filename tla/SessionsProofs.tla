----------------------------- MODULE SessionsProofs -----------------------------
(***************************************************************************)
(* What Sessions guarantees for every number of tabs, calls and sessions,  *)
(* and every plan.                                                         *)
(*                                                                         *)
(* The inductive invariant IInv says what a refresh knows (FlightSound):   *)
(* the pair it presented is not ahead of the one in storage, its answer is *)
(* the next pair, and once it is over the storage has moved on unless its  *)
(* answer was lost or its tab changed its agency.  It also says that every *)
(* pair of the past was replaced by some refresh (Lineage), for a call     *)
(* leads one refresh at most (LeadsOnce), and that a session being opened  *)
(* is nobody else's yet (LoginSound).  What a step does to everybody       *)
(* (Onward: nothing goes back) is kept apart from what it does to its own  *)
(* refresh, so that each action is looked at once.                         *)
(***************************************************************************)
EXTENDS Sessions, TLAPS

Underway(c) == flight[c].server # "none"
Rotated(c) == flight[c].server = "rotated"
Generation(t) == tab[t].generation

FlightSound(c) ==
    Underway(c) =>
        /\ flight[c].snap \in Pair
        /\ row[flight[c].snap.sid].state # "absent"
        /\ flight[c].gen <= Generation(Owner[c])
        /\ storage # None /\ storage.sid = flight[c].snap.sid => flight[c].snap.n <= storage.n
        /\ flight[c].over /\ flight[c].server \in {"sent", "read"} => c \in dropped
        /\ Rotated(c) => flight[c].snap.n < row[flight[c].snap.sid].n
        /\ Rotated(c) /\ ~flight[c].over =>
               flight[c].pair = [sid |-> flight[c].snap.sid, n |-> flight[c].snap.n + 1]
        /\ Rotated(c) /\ flight[c].over /\ c \notin dropped
               /\ flight[c].gen = Generation(Owner[c]) => storage # flight[c].snap

\* a call that led a refresh and has not ended waits for it, or was sent again
Led(r) == \/ r.pc \in {"waiting", "delivered", "failed"}
          \/ r.pc \in {"sent", "answered"} /\ r.again

LeadsOnce == \A c \in Request : Underway(c) => c \in Call /\ Led(req[c])

\* whoever waits waits for somebody
Waiting == \A c \in Request : req[c].pc = "waiting" => req[c].leader \in Request

LoginSound(t) ==
    login[t].pc = "issued" =>
        /\ login[t].sid \in Session
        /\ row[login[t].sid].state # "absent"
        /\ storage # None => storage.sid # login[t].sid
        /\ \A c \in Request : Underway(c) => flight[c].snap.sid # login[t].sid
        /\ \A u \in Tab \ {t} : login[u].pc = "issued" => login[u].sid # login[t].sid

StorageSound ==
    storage # None => /\ storage.sid = signedIn
                      /\ row[storage.sid].state # "absent"
                      /\ storage.n <= row[storage.sid].n

Lineage ==
    \A p \in Pair : p.n < row[p.sid].n =>
        \E c \in Call : flight[c].snap = p /\ Rotated(c)

IInv ==
    /\ TypeOK
    /\ \A c \in Request : FlightSound(c)
    /\ LeadsOnce
    /\ Waiting
    /\ \A t \in Tab : LoginSound(t)
    /\ StorageSound
    /\ Lineage
    /\ RotatedOnce

-----------------------------------------------------------------------------
(* Types.                                                                  *)

LEMMA Names ==
  /\ \A t \in Tab : Me[t] \in Request /\ Me[t] \notin Call /\ Owner[Me[t]] = t
  /\ \A c \in Call : c \in Request
  /\ \A c \in Request : Owner[c] \in Tab
  /\ None \notin Pair /\ None \notin Request
  /\ \A s \in Session : s \in Nat
  <1>1. \A t \in Tab : Me[t] \in Request
    BY DEF Request
  <1>2. \A c \in Call : c \in Request
    BY DEF Request
  <1>3. \A c \in Request : Owner[c] \in Tab
    BY SessionsAssumption
  <1>4. \A t \in Tab : Me[t] \notin Call /\ Owner[Me[t]] = t
    BY SessionsAssumption
  <1>5. \A s \in Session : s \in Nat
    BY SessionsAssumption DEF Session
  <1> QED BY <1>1, <1>2, <1>3, <1>4, <1>5, SessionsAssumption

LEMMA NoRowTypes ==
  /\ NoRequest \in RequestRow /\ NoFlight \in FlightRow /\ NoLogin \in LoginRow
  BY DEF NoRequest, NoFlight, NoLogin, RequestRow, FlightRow, LoginRow, Ended

LEMMA GenerationType ==
  ASSUME NEW r \in TabRow PROVE r.generation + 1 \in Nat /\ r.generation + 2 \in Nat
  BY DEF TabRow

LEMMA BoundaryRow ==
  ASSUME NEW r \in TabRow, NEW b \in BOOLEAN, NEW g \in Nat, NEW s \in {"idle", "done"}
  PROVE  [r EXCEPT !.generation = g, !.authenticated = b, !.sync = s] \in TabRow
  BY DEF TabRow

LEMMA ReloadedRow ==
  ASSUME NEW r \in TabRow, NEW b \in BOOLEAN
  PROVE  [r EXCEPT !.leader = None, !.authenticated = b, !.sync = "idle"] \in TabRow
  BY DEF TabRow

LEMMA AnsweredRow ==
  ASSUME NEW r \in RequestRow, NEW b \in BOOLEAN
  PROVE  [r EXCEPT !.pc = "answered", !.ok = b] \in RequestRow
  BY DEF RequestRow

LEMMA WaitingRow ==
  ASSUME NEW r \in RequestRow, NEW d \in Request
  PROVE  [r EXCEPT !.pc = "waiting", !.leader = d] \in RequestRow
  BY DEF RequestRow

LEMMA ResumedRow ==
  ASSUME NEW r \in RequestRow, NEW p \in Pair
  PROVE  [r EXCEPT !.pc = "sent", !.again = TRUE, !.token = p] \in RequestRow
  BY DEF RequestRow

LEMMA LandedRow ==
  ASSUME NEW r \in FlightRow, NEW p \in Pair \cup {None}
  PROVE  [r EXCEPT !.over = TRUE, !.pair = p] \in FlightRow
  BY DEF FlightRow

LEMMA RotatedRow ==
  ASSUME NEW r \in FlightRow, NEW p \in Pair \cup {None}
  PROVE  [r EXCEPT !.server = "rotated", !.pair = p] \in FlightRow
  BY DEF FlightRow

LEMMA TabChanged ==
  ASSUME TypeOK, NEW t \in Tab, NEW r \in TabRow, tab' = [tab EXCEPT ![t] = r]
  PROVE  tab' \in [Tab -> TabRow]
  BY DEF TypeOK

LEMMA RequestChanged ==
  ASSUME TypeOK, NEW c \in Request, NEW r \in RequestRow, req' = [req EXCEPT ![c] = r]
  PROVE  req' \in [Request -> RequestRow]
  BY DEF TypeOK

LEMMA FlightChanged ==
  ASSUME TypeOK, NEW c \in Request, NEW r \in FlightRow, flight' = [flight EXCEPT ![c] = r]
  PROVE  flight' \in [Request -> FlightRow]
  BY DEF TypeOK

LEMMA StartType ==
  ASSUME TypeOK, NEW c \in Request
  PROVE  StartWith(c) \in RequestRow
  BY Names DEF TypeOK, StartWith, NoRequest, RequestRow, TabRow, Ended

LEMMA FinishType ==
  ASSUME TypeOK, NEW c \in Request, NEW outcome \in {"idle"} \cup Ended, Finish(c, outcome)
  PROVE  req' \in [Request -> RequestRow]
  BY DEF TypeOK, Finish, NoRequest, RequestRow, Ended

LEMMA PlanType ==
  ASSUME TypeOK, \/ Disturb \/ End
                 \/ plan.logins > 0 /\ plan' = [plan EXCEPT !.logins = @ - 1]
                 \/ plan.logouts > 0 /\ plan' = [plan EXCEPT !.logouts = @ - 1]
  PROVE  plan' \in Plan
  BY DEF TypeOK, Plan, Disturb, End

LEMMA BoundaryType ==
  ASSUME TypeOK, NEW t \in Tab, NEW b \in BOOLEAN, NEW s \in {"idle", "done"},
         tab' = [tab EXCEPT ![t] = [tab[t] EXCEPT !.generation = @ + 1, !.authenticated = b, !.sync = s]]
  PROVE  tab' \in [Tab -> TabRow]
  <1>1. tab[t] \in TabRow
    BY DEF TypeOK
  <1>2. PICK g \in Nat : tab[t].generation + 1 = g
    BY <1>1, GenerationType
  <1>3. tab' = [tab EXCEPT ![t] = [tab[t] EXCEPT !.generation = g, !.authenticated = b, !.sync = s]]
    BY <1>2
  <1>4. [tab[t] EXCEPT !.generation = g, !.authenticated = b, !.sync = s] \in TabRow
    BY <1>1, BoundaryRow
  <1> QED BY <1>3, <1>4, TabChanged

LEMMA LogoutType ==
  ASSUME TypeOK, NEW t \in Tab, LogoutEffects(t)
  PROVE  /\ tab' \in [Tab -> TabRow] /\ logouts' \subseteq Pair
         /\ signedIn' \in Session \cup {None} /\ storage' \in Pair \cup {None}
  <1>1. tab' \in [Tab -> TabRow]
    BY BoundaryType DEF LogoutEffects
  <1>2. logouts' \subseteq Pair
    <2>1. CASE storage = None
      BY <2>1 DEF TypeOK, LogoutEffects
    <2>2. CASE storage # None
      BY <2>2 DEF TypeOK, LogoutEffects
    <2> QED BY <2>1, <2>2
  <1>3. signedIn' \in Session \cup {None} /\ storage' \in Pair \cup {None}
    BY DEF TypeOK, LogoutEffects
  <1> QED BY <1>1, <1>2, <1>3

LEMMA ForgetType ==
  ASSUME TypeOK, NEW c \in Request
  PROVE  /\ ForgetFlight(c) \in [Tab -> TabRow]
         /\ \A t \in Tab : ForgetFlight(c)[t].generation = tab[t].generation
  BY Names DEF TypeOK, ForgetFlight, TabRow

LEMMA LandType ==
  ASSUME TypeOK, NEW c \in Request, NEW pair \in Pair \cup {None}, Land(c, pair)
  PROVE  flight' \in [Request -> FlightRow]
  BY LandedRow, FlightChanged DEF TypeOK, Land

LEMMA QuietTypes ==
  ASSUME TypeOK, NEW c \in Request,
         Send(c) \/ Serve(c) \/ GiveUpRefresh(c) \/ JoinRefresh(c) \/ Receive(c) \/ LoseCall(c)
  PROVE  TypeOK'
  <1>1. CASE Send(c)
    BY <1>1, StartType DEF TypeOK, Send, server
  <1>2. CASE Serve(c)
    <2>1. AccessValid(req[c].token) \in BOOLEAN
      BY DEF AccessValid
    <2>2. req[c] \in RequestRow
      BY DEF TypeOK
    <2> DEFINE r == [req[c] EXCEPT !.pc = "answered", !.ok = AccessValid(req[c].token)]
    <2>3. r \in RequestRow
      BY <2>1, <2>2, AnsweredRow
    <2>4. req' = [req EXCEPT ![c] = r]
      BY <1>2 DEF Serve
    <2> HIDE DEF r
    <2>5. req' \in [Request -> RequestRow]
      BY <2>3, <2>4, RequestChanged
    <2> QED BY <1>2, <2>5 DEF TypeOK, Serve, server
  <1>3. CASE GiveUpRefresh(c)
    BY <1>3, FinishType DEF TypeOK, GiveUpRefresh, server, Ended
  <1>4. CASE JoinRefresh(c)
    <2>1. tab[Owner[c]].leader \in Request
      BY <1>4, Names DEF TypeOK, JoinRefresh, SharesFlight, TabRow
    <2> DEFINE r == [req[c] EXCEPT !.pc = "waiting", !.leader = tab[Owner[c]].leader]
    <2>2. r \in RequestRow
      BY <2>1, WaitingRow DEF TypeOK
    <2>3. req' \in [Request -> RequestRow]
      <3>1. req' = [req EXCEPT ![c] = r]
        BY <1>4 DEF JoinRefresh
      <3> HIDE DEF r
      <3> QED BY <2>2, <3>1, RequestChanged
    <2> QED BY <1>4, <2>3 DEF TypeOK, JoinRefresh, server
  <1>5. CASE Receive(c)
    <2>1. req' \in [Request -> RequestRow]
      BY <1>5, FinishType DEF Receive, Ended
    <2> QED BY <1>5, <2>1 DEF TypeOK, Receive, server
  <1>6. CASE LoseCall(c)
    BY <1>6, FinishType, PlanType DEF TypeOK, LoseCall, server, Ended
  <1> QED BY <1>1, <1>2, <1>3, <1>4, <1>5, <1>6

LEMMA ResumeTypes ==
  ASSUME TypeOK, Waiting, NEW c \in Request, Resume(c)
  PROVE  TypeOK'
  <1> DEFINE pair == flight[req[c].leader].pair
  <1>1. req' \in [Request -> RequestRow]
    <2>1. CASE pair = None \/ req[c].gen # tab[Owner[c]].generation
      BY <2>1, FinishType DEF Resume, Ended
    <2>2. CASE ~ (pair = None \/ req[c].gen # tab[Owner[c]].generation)
      <3>1. pair \in Pair
        BY <2>2 DEF TypeOK, Waiting, Resume, FlightRow
      <3>2. [req[c] EXCEPT !.pc = "sent", !.again = TRUE, !.token = pair] \in RequestRow
        BY <3>1, ResumedRow DEF TypeOK
      <3> QED BY <2>2, <3>2, RequestChanged DEF Resume
    <2> QED BY <2>1, <2>2
  <1> QED BY <1>1 DEF TypeOK, Resume, server

LEMMA RefreshTypes ==
  ASSUME TypeOK, \A d \in Request : FlightSound(d), NEW c \in Request,
         LeadRefresh(c) \/ ReadUser(c) \/ Rotate(c) \/ Store(c) \/ Terminate(c) \/ LoseRefresh(c)
  PROVE  TypeOK'
  <1>1. CASE LeadRefresh(c)
    <2>1. [req[c] EXCEPT !.pc = "waiting", !.leader = c] \in RequestRow
      BY WaitingRow DEF TypeOK
    <2>2. req' \in [Request -> RequestRow]
      BY <1>1, <2>1, RequestChanged DEF LeadRefresh
    <2>3. [NoFlight EXCEPT !.server = "sent", !.gen = req[c].gen, !.snap = req[c].snap] \in FlightRow
      BY DEF TypeOK, NoFlight, RequestRow, FlightRow
    <2>4. flight' \in [Request -> FlightRow]
      BY <1>1, <2>3, FlightChanged DEF LeadRefresh
    <2>5. [tab[Owner[c]] EXCEPT !.leader = c] \in TabRow
      BY Names DEF TypeOK, TabRow
    <2>6. tab' \in [Tab -> TabRow]
      BY <1>1, <2>5, TabChanged, Names DEF LeadRefresh
    <2> QED BY <1>1, <2>2, <2>4, <2>6 DEF TypeOK, LeadRefresh, server
  <1>2. CASE ReadUser(c)
    <2>1. \A s \in {"read", "denied"} : [flight[c] EXCEPT !.server = s] \in FlightRow
      BY DEF TypeOK, FlightRow
    <2>2. flight' \in [Request -> FlightRow]
      BY <1>2, <2>1 DEF TypeOK, ReadUser
    <2> QED BY <1>2, <2>2 DEF TypeOK, ReadUser, server
  <1>3. CASE Rotate(c)
    <2> DEFINE p == flight[c].snap
    <2>1. p \in Pair
      BY <1>3 DEF Rotate, FlightSound, Underway
    <2>2. row[p.sid].n + 1 \in Nat /\ [p EXCEPT !.n = row[p.sid].n + 1] \in Pair
      BY <2>1 DEF TypeOK, Pair, SessionRow
    <2>3. CASE RefreshValid(p)
      <3>1. row' \in [Session -> SessionRow]
        BY <1>3, <2>1, <2>2, <2>3 DEF TypeOK, Rotate, Pair, SessionRow
      <3>2. flight' \in [Request -> FlightRow]
        <4>1. PICK q \in Pair \cup {None} :
                 q = IF flight[c].over THEN None ELSE [p EXCEPT !.n = row[p.sid].n + 1]
          BY <2>2
        <4>2. flight' = [flight EXCEPT ![c] = [flight[c] EXCEPT !.server = "rotated", !.pair = q]]
          BY <1>3, <2>3, <4>1 DEF Rotate, Answered
        <4> QED BY <4>2, RotatedRow, FlightChanged DEF TypeOK
      <3> QED BY <1>3, <3>1, <3>2 DEF TypeOK, Rotate
    <2>4. CASE ~RefreshValid(p)
      <3>1. [flight[c] EXCEPT !.server = "denied"] \in FlightRow
        BY DEF TypeOK, FlightRow
      <3>2. flight' \in [Request -> FlightRow]
        BY <1>3, <2>4, <3>1 DEF TypeOK, Rotate
      <3> QED BY <1>3, <2>4, <3>2 DEF TypeOK, Rotate
    <2> QED BY <2>3, <2>4
  <1>4. CASE Store(c)
    <2>1. flight[c].pair \in Pair \cup {None}
      BY DEF TypeOK, FlightRow
    <2>2. flight' \in [Request -> FlightRow]
      BY <1>4, <2>1, LandType DEF Store
    <2>3. tab' \in [Tab -> TabRow]
      BY <1>4, ForgetType DEF Store
    <2>4. storage' \in Pair \cup {None}
      BY <1>4, <2>1 DEF TypeOK, Store
    <2> QED BY <1>4, <2>2, <2>3, <2>4 DEF TypeOK, Store, server
  <1>5. CASE Terminate(c)
    <2>1. flight' \in [Request -> FlightRow]
      BY <1>5, LandType DEF Terminate
    <2>2. tab' \in [Tab -> TabRow]
      <3>1. CASE SameSession(c)
        <4> DEFINE old == ForgetFlight(c)[Owner[c]]
        <4>1. old \in TabRow
          BY ForgetType, Names
        <4>2. PICK g \in Nat : old.generation + 2 = g
          BY <4>1, GenerationType
        <4>3. tab' = [ForgetFlight(c) EXCEPT ![Owner[c]] =
                         [old EXCEPT !.generation = g, !.authenticated = FALSE, !.sync = "done"]]
          BY <1>5, <3>1, <4>2 DEF Terminate
        <4>4. [old EXCEPT !.generation = g, !.authenticated = FALSE, !.sync = "done"] \in TabRow
          BY <4>1, BoundaryRow
        <4> QED BY <4>3, <4>4, ForgetType
      <3>2. CASE ~SameSession(c)
        BY <1>5, <3>2, ForgetType DEF Terminate
      <3> QED BY <3>1, <3>2
    <2> QED BY <1>5, <2>1, <2>2 DEF TypeOK, Terminate, server
  <1>6. CASE LoseRefresh(c)
    BY <1>6, LandType, ForgetType, PlanType DEF TypeOK, LoseRefresh, server
  <1> QED BY <1>1, <1>2, <1>3, <1>4, <1>5, <1>6

LEMMA SyncEnds ==
  ASSUME NEW t \in Tab, EndSync(t)
  PROVE  \/ LogoutEffects(t)
         \/ tab' = [tab EXCEPT ![t].sync = "done"] /\ UNCHANGED <<storage, logouts, signedIn>>
  <1> DEFINE outcome == IF req[Me[t]].pc = "failed" THEN "failed" ELSE Deliver(Me[t])
  <1>1. IF outcome = "unauthorized" THEN LogoutEffects(t)
        ELSE tab' = [tab EXCEPT ![t].sync = "done"] /\ UNCHANGED <<storage, logouts, signedIn>>
    BY ZenonT(30) DEF EndSync
  <1> HIDE DEF outcome
  <1> QED BY <1>1

LEMMA SyncTypes ==
  ASSUME TypeOK, NEW t \in Tab, StartSync(t) \/ Synchronize(t)
  PROVE  TypeOK'
  <1>0. \A s \in {"idle", "first", "wait", "second", "done"} :
           [tab EXCEPT ![t].sync = s] \in [Tab -> TabRow]
    BY DEF TypeOK, TabRow
  <1>1. CASE StartSync(t)
    <2>1. tab' \in [Tab -> TabRow]
      BY <1>0, <1>1 DEF StartSync
    <2>2. req' \in [Request -> RequestRow]
      BY <1>1, StartType, RequestChanged, Names DEF StartSync
    <2> QED BY <1>1, <2>1, <2>2 DEF TypeOK, StartSync, server
  <1>2. CASE FirstMe(t)
    <2>1. tab' \in [Tab -> TabRow]
      BY <1>0, <1>2 DEF FirstMe
    <2>2. \A d \in Request \cup {None} : [NoRequest EXCEPT !.leader = d] \in RequestRow
      BY DEF NoRequest, RequestRow
    <2>3. tab[t].leader \in Request \cup {None}
      BY DEF TypeOK, TabRow
    <2>4. req' \in [Request -> RequestRow]
      BY <1>2, <2>2, <2>3, RequestChanged, Names DEF FirstMe
    <2> QED BY <1>2, <2>1, <2>4 DEF TypeOK, FirstMe, server
  <1>3. CASE SecondMe(t)
    <2>1. tab' \in [Tab -> TabRow]
      BY <1>0, <1>3 DEF SecondMe
    <2>2. req' \in [Request -> RequestRow]
      <3>1. CASE tab[t].authenticated /\ storage # None
        BY <1>3, <3>1, StartType, RequestChanged, Names DEF SecondMe
      <3>2. CASE ~ (tab[t].authenticated /\ storage # None)
        BY <1>3, <3>2 DEF SecondMe, TypeOK
      <3> QED BY <3>1, <3>2
    <2> QED BY <1>3, <2>1, <2>2 DEF TypeOK, SecondMe, server
  <1>4. CASE EndSync(t)
    <2>1. req' \in [Request -> RequestRow]
      BY <1>4, FinishType, Names DEF EndSync
    <2>2. \/ LogoutEffects(t)
          \/ tab' = [tab EXCEPT ![t].sync = "done"] /\ UNCHANGED <<storage, logouts, signedIn>>
      BY <1>4, SyncEnds
    <2>3. CASE LogoutEffects(t)
      BY <1>4, <2>1, <2>3, LogoutType DEF TypeOK, EndSync, server
    <2>4. CASE tab' = [tab EXCEPT ![t].sync = "done"] /\ UNCHANGED <<storage, logouts, signedIn>>
      BY <1>0, <1>4, <2>1, <2>4 DEF TypeOK, EndSync, server
    <2> QED BY <2>2, <2>3, <2>4
  <1> QED BY <1>1, <1>2, <1>3, <1>4 DEF Synchronize

LEMMA LoginTypes ==
  ASSUME TypeOK, \A t \in Tab : LoginSound(t), NEW t \in Tab,
         Logout(t) \/ StartLogin(t) \/ SignIn(t) \/ SwitchAgency(t)
  PROVE  TypeOK'
  <1>1. CASE Logout(t)
    BY <1>1, LogoutType, PlanType DEF TypeOK, Logout, server
  <1>2. CASE StartLogin(t)
    <2>1. login' \in [Tab -> LoginRow]
      BY <1>2 DEF TypeOK, StartLogin, LoginRow, TabRow
    <2> QED BY <1>2, <2>1, PlanType DEF TypeOK, StartLogin, server
  <1>3. CASE IssueTokens(t)
    <2>1. PICK s \in Session : /\ row' = [row EXCEPT ![s].state = "live"]
                               /\ login' = [login EXCEPT ![t] = [@ EXCEPT !.pc = "issued", !.sid = s]]
      BY <1>3 DEF IssueTokens
    <2>2. row' \in [Session -> SessionRow]
      BY <2>1 DEF TypeOK, SessionRow
    <2>3. [login[t] EXCEPT !.pc = "issued", !.sid = s] \in LoginRow
      <3>1. s \in Nat
        BY Names
      <3> QED BY <3>1 DEF TypeOK, LoginRow
    <2>4. login' \in [Tab -> LoginRow]
      BY <2>1, <2>3 DEF TypeOK
    <2> QED BY <1>3, <2>2, <2>4 DEF TypeOK, IssueTokens
  <1>4. CASE EndLogin(t)
    <2>1. login' \in [Tab -> LoginRow]
      BY <1>4, NoRowTypes DEF TypeOK, EndLogin
    <2>2. \/ /\ storage' = [sid |-> login[t].sid, n |-> 0]
             /\ signedIn' = login[t].sid
             /\ tab' = [tab EXCEPT ![t] = [tab[t] EXCEPT !.generation = @ + 1, !.authenticated = TRUE,
                                                         !.sync = "idle"]]
          \/ UNCHANGED <<storage, signedIn, tab>>
      BY <1>4 DEF EndLogin
    <2>3. login[t].sid \in Session
      BY <1>4 DEF EndLogin, LoginSound
    <2>4. /\ storage' \in Pair \cup {None} /\ signedIn' \in Session \cup {None}
          /\ tab' \in [Tab -> TabRow]
      <3>1. CASE UNCHANGED <<storage, signedIn, tab>>
        BY <3>1 DEF TypeOK
      <3>2. CASE ~ UNCHANGED <<storage, signedIn, tab>>
        <4>1. tab' \in [Tab -> TabRow]
          BY <2>2, <3>2, BoundaryType
        <4>2. [sid |-> login[t].sid, n |-> 0] \in Pair
          BY <2>3 DEF Pair
        <4> QED BY <2>2, <2>3, <3>2, <4>1, <4>2
      <3> QED BY <3>1, <3>2
    <2> QED BY <1>4, <2>1, <2>4 DEF TypeOK, EndLogin, server
  <1>5. CASE SwitchAgency(t)
    <2>1. tab' \in [Tab -> TabRow]
      BY <1>5 DEF TypeOK, SwitchAgency, TabRow
    <2> QED BY <1>5, <2>1, PlanType DEF TypeOK, SwitchAgency, server
  <1> QED BY <1>1, <1>2, <1>3, <1>4, <1>5 DEF SignIn

LEMMA ReloadTypes ==
  ASSUME TypeOK, NEW t \in Tab, Reload(t)
  PROVE  TypeOK'
  <1>1. tab' \in [Tab -> TabRow]
    <2>1. (storage # None) \in BOOLEAN
      OBVIOUS
    <2>2. [tab[t] EXCEPT !.leader = None, !.authenticated = storage # None, !.sync = "idle"] \in TabRow
      BY <2>1, ReloadedRow DEF TypeOK
    <2> QED BY <2>2, TabChanged DEF Reload
  <1>2. req' \in [Request -> RequestRow]
    <2>1. \A c \in Request : [req[c] EXCEPT !.pc = "failed"] \in RequestRow
      BY DEF TypeOK, RequestRow, Ended
    <2> QED BY <2>1 DEF TypeOK, Reload
  <1>3. flight' \in [Request -> FlightRow]
    <2>1. \A c \in Request : [flight[c] EXCEPT !.over = TRUE, !.pair = None] \in FlightRow
      BY LandedRow DEF TypeOK
    <2> QED BY <2>1 DEF TypeOK, Reload
  <1>4. dropped' \subseteq Request
    BY DEF TypeOK, Reload
  <1> QED BY <1>1, <1>2, <1>3, <1>4, PlanType DEF TypeOK, Reload, server

LEMMA ServerTypes ==
  ASSUME TypeOK, \/ \E p \in logouts : ServeLogout(p)
                 \/ \E s \in Session : ExpireAccess(s) \/ EndSession(s)
                 \/ Deactivate \/ Reactivate
  PROVE  TypeOK'
  <1>0. \A s \in Session : [row EXCEPT ![s].state = "ended"] \in [Session -> SessionRow]
    BY DEF TypeOK, SessionRow
  <1>1. ASSUME NEW p \in logouts, ServeLogout(p) PROVE TypeOK'
    <2>1. p.sid \in Session
      BY DEF TypeOK, Pair
    <2>2. row' \in [Session -> SessionRow]
      BY <1>0, <1>1, <2>1 DEF TypeOK, ServeLogout
    <2> QED BY <1>1, <2>2 DEF TypeOK, ServeLogout
  <1>2. ASSUME NEW s \in Session, ExpireAccess(s) PROVE TypeOK'
    BY <1>2 DEF TypeOK, ExpireAccess
  <1>3. ASSUME NEW s \in Session, EndSession(s) PROVE TypeOK'
    BY <1>0, <1>3, PlanType DEF TypeOK, EndSession
  <1>4. CASE Deactivate
    <2>1. row' \in [Session -> SessionRow]
      BY <1>4 DEF TypeOK, Deactivate, SessionRow
    <2> QED BY <1>4, <2>1, PlanType DEF TypeOK, Deactivate
  <1>5. CASE Reactivate
    BY <1>5 DEF TypeOK, Reactivate
  <1> QED BY <1>1, <1>2, <1>3, <1>4, <1>5

-----------------------------------------------------------------------------
(* What every step does to the refreshes of the others: sessions are not   *)
(* forgotten, their tokens and the generations of the tabs move forwards,  *)
(* and the storage is emptied, moves on within its session, or takes a     *)
(* session no refresh has seen.                                            *)

Onward ==
    /\ \A s \in Session : /\ row[s].state # "absent" => row'[s].state # "absent"
                          /\ row[s].n <= row'[s].n
    /\ \A t \in Tab : Generation(t) <= Generation(t)'
    /\ dropped \subseteq dropped'

StorageOnward ==
    \/ storage' = storage
    \/ storage' = None
    \/ /\ storage # None /\ storage' # None
       /\ storage'.sid = storage.sid /\ storage.n < storage'.n
    \/ /\ storage' # None
       /\ \A c \in Request : Underway(c) => flight[c].snap.sid # storage'.sid

\* what holds of a refresh that is under way, whatever the step
LEMMA FlightBounds ==
  ASSUME TypeOK, TypeOK', Onward, StorageOnward, NEW c \in Request, FlightSound(c), Underway(c)
  PROVE  /\ flight[c].snap \in Pair
         /\ row'[flight[c].snap.sid].state # "absent"
         /\ flight[c].gen <= Generation(Owner[c])'
         /\ storage' # None /\ storage'.sid = flight[c].snap.sid => flight[c].snap.n <= storage'.n
         /\ Rotated(c) => flight[c].snap.n < row'[flight[c].snap.sid].n
  <1> DEFINE p == flight[c].snap
             s == p.sid
             t == Owner[c]
  <1>0. /\ p \in Pair /\ s \in Session /\ p.n \in Nat /\ t \in Tab
        /\ row[s].n \in Nat /\ row'[s].n \in Nat
        /\ Generation(t) \in Nat /\ Generation(t)' \in Nat /\ flight[c].gen \in Nat
    <2>1. p \in Pair /\ t \in Tab
      BY Names DEF FlightSound
    <2>2. s \in Session /\ p.n \in Nat
      BY <2>1 DEF Pair
    <2> QED BY <2>1, <2>2 DEF TypeOK, SessionRow, FlightRow, TabRow, Generation
  <1>1. row'[s].state # "absent"
    BY <1>0 DEF FlightSound, Onward
  <1>2. flight[c].gen <= Generation(t)'
    <2>1. flight[c].gen <= Generation(t) /\ Generation(t) <= Generation(t)'
      BY <1>0 DEF FlightSound, Onward
    <2> HIDE DEF t
    <2> QED BY <1>0, <2>1
  <1>3. storage' # None /\ storage'.sid = s => p.n <= storage'.n
    <2> SUFFICES ASSUME storage' # None, storage'.sid = s PROVE p.n <= storage'.n
      OBVIOUS
    <2>1. CASE storage' = storage
      BY <2>1 DEF FlightSound
    <2>2. CASE storage # None /\ storage'.sid = storage.sid /\ storage.n < storage'.n
      <3>1. p.n <= storage.n
        BY <2>2 DEF FlightSound
      <3>2. storage.n \in Nat /\ storage'.n \in Nat
        BY <2>2 DEF TypeOK, Pair
      <3> QED BY <1>0, <2>2, <3>1, <3>2
    <2> QED BY <2>1, <2>2 DEF StorageOnward
  <1>4. Rotated(c) => p.n < row'[s].n
    <2> SUFFICES ASSUME Rotated(c) PROVE p.n < row'[s].n
      OBVIOUS
    <2>1. p.n < row[s].n /\ row[s].n <= row'[s].n
      BY <1>0 DEF FlightSound, Onward
    <2> QED BY <1>0, <2>1
  <1> QED BY <1>0, <1>1, <1>2, <1>3, <1>4

\* a refresh stays sound if what the step makes of it fits its answer
LEMMA FlightAdvanced ==
  ASSUME TypeOK, TypeOK', Onward, StorageOnward, NEW c \in Request, FlightSound(c), Underway(c),
         flight'[c].snap = flight[c].snap, flight'[c].gen = flight[c].gen,
         flight'[c].over /\ flight'[c].server \in {"sent", "read"} => c \in dropped',
         Rotated(c)' => Rotated(c) \/ flight[c].snap.n < row'[flight[c].snap.sid].n,
         Rotated(c)' /\ ~flight'[c].over =>
            flight'[c].pair = [sid |-> flight[c].snap.sid, n |-> flight[c].snap.n + 1],
         Rotated(c)' /\ flight'[c].over /\ c \notin dropped'
            /\ flight[c].gen = Generation(Owner[c])' => storage' # flight[c].snap
  PROVE  FlightSound(c)'
  BY FlightBounds DEF FlightSound

LEMMA FlightFrame ==
  ASSUME TypeOK, TypeOK', Onward, StorageOnward, NEW c \in Request,
         FlightSound(c), flight'[c] = flight[c]
  PROVE  FlightSound(c)'
  <1> DEFINE p == flight[c].snap
             t == Owner[c]
  <1> SUFFICES ASSUME Underway(c) PROVE FlightSound(c)'
    BY DEF FlightSound, Underway
  <1>0. /\ p \in Pair /\ p.sid \in Session /\ p.n \in Nat /\ t \in Tab
        /\ Generation(t) \in Nat /\ Generation(t)' \in Nat /\ flight[c].gen \in Nat
    BY Names DEF FlightSound, Pair, TypeOK, FlightRow, TabRow, Generation
  <1>1. Rotated(c) /\ flight[c].over /\ c \notin dropped' /\ flight[c].gen = Generation(t)' => storage' # p
    <2> SUFFICES ASSUME Rotated(c), flight[c].over, c \notin dropped', flight[c].gen = Generation(t)'
                 PROVE  storage' # p
      OBVIOUS
    <2>1. flight[c].gen <= Generation(t) /\ Generation(t) <= Generation(t)'
      BY <1>0 DEF FlightSound, Onward
    <2>2. flight[c].gen = Generation(t)
      BY <1>0, <2>1
    <2>3. storage # p
      BY <2>2 DEF FlightSound, Onward
    <2>4. CASE storage' = storage
      BY <2>3, <2>4
    <2>5. CASE storage' = None
      BY <1>0, <2>5, Names
    <2>6. CASE storage # None /\ storage' # None /\ storage'.sid = storage.sid /\ storage.n < storage'.n
      <3> SUFFICES ASSUME storage' = p PROVE FALSE
        OBVIOUS
      <3>1. p.n <= storage.n
        BY <2>6 DEF FlightSound
      <3>2. storage.n \in Nat
        BY <2>6 DEF TypeOK, Pair
      <3> QED BY <1>0, <2>6, <3>1, <3>2
    <2>7. CASE \A d \in Request : Underway(d) => flight[d].snap.sid # storage'.sid
      BY <2>7
    <2> QED BY <2>4, <2>5, <2>6, <2>7 DEF StorageOnward
  <1>2. flight[c].over /\ flight[c].server \in {"sent", "read"} => c \in dropped'
    BY DEF FlightSound, Onward
  <1>3. Rotated(c) /\ ~flight[c].over => flight[c].pair = [sid |-> p.sid, n |-> p.n + 1]
    BY DEF FlightSound
  <1>4. Rotated(c)' <=> Rotated(c)
    BY DEF Rotated
  <1> QED BY <1>1, <1>2, <1>3, <1>4, FlightAdvanced

-----------------------------------------------------------------------------
(* The steps that change no refresh.                                       *)

LEMMA LineageFrame ==
  ASSUME Lineage, \A s \in Session : row'[s].n = row[s].n,
         \A c \in Request : Rotated(c) => Rotated(c)' /\ flight'[c].snap = flight[c].snap
  PROVE  Lineage'
  <1> SUFFICES ASSUME NEW p \in Pair, p.n < row'[p.sid].n
               PROVE  \E c \in Call : flight'[c].snap = p /\ Rotated(c)'
    BY DEF Lineage
  <1>1. p.sid \in Session
    BY DEF Pair
  <1>2. PICK c \in Call : flight[c].snap = p /\ Rotated(c)
    BY <1>1 DEF Lineage
  <1> QED BY <1>2, Names

LEMMA RotatedOnceFrame ==
  ASSUME RotatedOnce,
         \A c \in Request : Rotated(c)' => Rotated(c) /\ flight'[c].snap = flight[c].snap
  PROVE  RotatedOnce'
  BY DEF RotatedOnce, Rotated

LEMMA LoginFrame ==
  ASSUME \A t \in Tab : LoginSound(t), Onward,
         \A t \in Tab : login'[t].pc = "issued" => login'[t] = login[t],
         storage' # None => storage # None /\ storage'.sid = storage.sid,
         \A c \in Request : Underway(c)' =>
            \/ Underway(c) /\ flight'[c].snap = flight[c].snap
            \/ storage # None /\ flight'[c].snap.sid = storage.sid
  PROVE  \A t \in Tab : LoginSound(t)'
  <1> SUFFICES ASSUME NEW t \in Tab, login'[t].pc = "issued" PROVE LoginSound(t)'
    BY DEF LoginSound
  <1>1. login'[t] = login[t] /\ login[t].pc = "issued" /\ LoginSound(t)
    OBVIOUS
  <1>2. login[t].sid \in Session /\ row'[login[t].sid].state # "absent"
    BY <1>1 DEF LoginSound, Onward
  <1>3. storage' # None => storage'.sid # login[t].sid
    BY <1>1 DEF LoginSound
  <1>4. \A c \in Request : Underway(c)' => flight'[c].snap.sid # login[t].sid
    BY <1>1 DEF LoginSound
  <1>5. \A u \in Tab \ {t} : login'[u].pc = "issued" => login'[u].sid # login[t].sid
    BY <1>1 DEF LoginSound
  <1> QED BY <1>1, <1>2, <1>3, <1>4, <1>5 DEF LoginSound

LEMMA OneRequest ==
  ASSUME TypeOK, LeadsOnce, Waiting, NEW c \in Request, NEW r,
         req' = [req EXCEPT ![c] = r], flight' = flight,
         Underway(c) => Led(r), r.pc = "waiting" => r.leader \in Request
  PROVE  LeadsOnce' /\ Waiting'
  <1>1. \A d \in Request : req'[d] = IF d = c THEN r ELSE req[d]
    BY DEF TypeOK
  <1>2. \A d \in Request : Underway(d)' <=> Underway(d)
    BY DEF Underway
  <1>3. LeadsOnce'
    <2> SUFFICES ASSUME NEW d \in Request, Underway(d) PROVE d \in Call /\ Led(req'[d])
      BY <1>2 DEF LeadsOnce
    <2>1. CASE d = c
      BY <1>1, <2>1 DEF LeadsOnce
    <2>2. CASE d # c
      BY <1>1, <2>2 DEF LeadsOnce
    <2> QED BY <2>1, <2>2
  <1>4. Waiting'
    BY <1>1 DEF Waiting
  <1> QED BY <1>3, <1>4

LEMMA SameRequests ==
  ASSUME LeadsOnce, Waiting, req' = req, flight' = flight
  PROVE  LeadsOnce' /\ Waiting'
  BY DEF LeadsOnce, Waiting, Underway

\* nothing has happened that a refresh depends on, but for sessions that ended,
\* tabs that changed their user or agency, and a storage that was emptied
Calm ==
    /\ flight' = flight /\ dropped' = dropped
    /\ \A s \in Session : /\ row'[s].n = row[s].n
                          /\ row[s].state # "absent" => row'[s].state # "absent"
    /\ \A t \in Tab : Generation(t) <= Generation(t)'
    /\ \A t \in Tab : login'[t].pc = "issued" => login'[t] = login[t]
    /\ storage' = None \/ (storage' = storage /\ signedIn' = signedIn)

LEMMA CalmStep ==
  ASSUME IInv, TypeOK', Calm, LeadsOnce', Waiting'
  PROVE  IInv'
  <1>1. Onward
    BY DEF Calm, Onward, IInv, TypeOK, SessionRow
  <1>2. StorageOnward
    BY DEF Calm, StorageOnward
  <1>3. \A c \in Request : FlightSound(c)'
    BY <1>1, <1>2, FlightFrame DEF IInv, Calm
  <1>4. \A t \in Tab : LoginSound(t)'
    <2>1. \A c \in Request : Underway(c)' => Underway(c) /\ flight'[c].snap = flight[c].snap
      BY DEF Calm, Underway
    <2> QED BY <1>1, <2>1, LoginFrame DEF IInv, Calm
  <1>5. StorageSound'
    <2> SUFFICES ASSUME storage' # None PROVE StorageSound'
      BY DEF StorageSound
    <2>1. storage' = storage /\ signedIn' = signedIn /\ storage \in Pair
      BY DEF Calm, IInv, TypeOK
    <2>2. storage.sid \in Session
      BY <2>1 DEF Pair
    <2> QED BY <2>1, <2>2 DEF Calm, IInv, StorageSound
  <1>6. \A c \in Request : (Rotated(c)' <=> Rotated(c)) /\ flight'[c].snap = flight[c].snap
    BY DEF Calm, Rotated
  <1>7. Lineage' /\ RotatedOnce'
    BY <1>6, LineageFrame, RotatedOnceFrame DEF IInv, Calm
  <1> QED BY <1>3, <1>4, <1>5, <1>7 DEF IInv

LEMMA RequestSteps ==
  ASSUME IInv, NEW c \in Request,
         \/ Send(c) \/ Serve(c) \/ GiveUpRefresh(c) \/ JoinRefresh(c) \/ Resume(c)
         \/ Receive(c) \/ LoseCall(c)
  PROVE  IInv'
  <1>1. TypeOK'
    BY QuietTypes, ResumeTypes DEF IInv
  <1>2. Calm
    BY DEF Calm, IInv, TypeOK, SessionRow, TabRow, Generation, server, Send, Serve,
           GiveUpRefresh, JoinRefresh, Resume, Receive, LoseCall
  <1>3. flight' = flight
    BY <1>2 DEF Calm
  <1>4. TypeOK /\ LeadsOnce /\ Waiting
    BY DEF IInv
  <1>5. \A r : /\ req' = [req EXCEPT ![c] = r] /\ (Underway(c) => Led(r))
               /\ (r.pc = "waiting" => r.leader \in Request)
               => LeadsOnce' /\ Waiting'
    BY <1>3, <1>4, OneRequest
  <1>6. \A outcome \in Ended : Finish(c, outcome) => LeadsOnce' /\ Waiting'
    BY <1>5 DEF Finish, Led, NoRequest, Ended
  <1>7. CASE Send(c)
    <2>1. ~Underway(c)
      BY <1>4, <1>7 DEF LeadsOnce, Led, Send
    <2>2. StartWith(c).pc = "sent"
      BY DEF StartWith, NoRequest
    <2>3. LeadsOnce' /\ Waiting'
      BY <1>5, <1>7, <2>1, <2>2 DEF Send
    <2> QED BY <1>1, <1>2, <2>3, CalmStep
  <1>8. CASE Serve(c)
    <2> DEFINE r == [req[c] EXCEPT !.pc = "answered", !.ok = AccessValid(req[c].token)]
    <2>1. r.pc = "answered" /\ r.again = req[c].again
      BY <1>4 DEF TypeOK, RequestRow
    <2>2. Underway(c) => Led(r)
      BY <1>4, <1>8, <2>1 DEF LeadsOnce, Led, Serve
    <2>3. req' = [req EXCEPT ![c] = r]
      BY <1>8 DEF Serve
    <2> HIDE DEF r
    <2>4. LeadsOnce' /\ Waiting'
      BY <1>5, <2>1, <2>2, <2>3
    <2> QED BY <1>1, <1>2, <2>4, CalmStep
  <1>9. CASE JoinRefresh(c)
    <2> DEFINE r == [req[c] EXCEPT !.pc = "waiting", !.leader = tab[Owner[c]].leader]
    <2>1. r.pc = "waiting" /\ r.leader = tab[Owner[c]].leader
      BY <1>4 DEF TypeOK, RequestRow
    <2>2. r.leader \in Request
      BY <1>4, <1>9, <2>1, Names DEF TypeOK, JoinRefresh, SharesFlight, TabRow
    <2>3. req' = [req EXCEPT ![c] = r]
      BY <1>9 DEF JoinRefresh
    <2> HIDE DEF r
    <2>4. LeadsOnce' /\ Waiting'
      BY <1>5, <2>1, <2>2, <2>3 DEF Led
    <2> QED BY <1>1, <1>2, <2>4, CalmStep
  <1>10. CASE Resume(c)
    <2> DEFINE pair == flight[req[c].leader].pair
               r == [req[c] EXCEPT !.pc = "sent", !.again = TRUE, !.token = pair]
    <2>1. r.pc = "sent" /\ r.again
      BY <1>4 DEF TypeOK, RequestRow
    <2>2. Finish(c, "failed") \/ req' = [req EXCEPT ![c] = r]
      BY <1>10 DEF Resume
    <2> HIDE DEF r
    <2>3. LeadsOnce' /\ Waiting'
      BY <1>5, <1>6, <2>1, <2>2 DEF Led, Ended
    <2> QED BY <1>1, <1>2, <2>3, CalmStep
  <1>11. CASE GiveUpRefresh(c) \/ LoseCall(c)
    <2>1. LeadsOnce' /\ Waiting'
      BY <1>6, <1>11 DEF GiveUpRefresh, LoseCall, Ended
    <2> QED BY <1>1, <1>2, <2>1, CalmStep
  <1>12. CASE Receive(c)
    <2>1. LeadsOnce' /\ Waiting'
      BY <1>6, <1>12 DEF Receive, Ended
    <2> QED BY <1>1, <1>2, <2>1, CalmStep
  <1> QED BY <1>7, <1>8, <1>9, <1>10, <1>11, <1>12

LEMMA LogoutCalm ==
  ASSUME TypeOK, NEW t \in Tab, LogoutEffects(t)
  PROVE  storage' = None /\ \A u \in Tab : Generation(u) <= Generation(u)'
  BY DEF TypeOK, TabRow, LogoutEffects, Generation

LEMMA SyncSteps ==
  ASSUME IInv, NEW t \in Tab, StartSync(t) \/ Synchronize(t)
  PROVE  IInv'
  <1>1. TypeOK'
    BY SyncTypes DEF IInv
  <1>2. TypeOK /\ LeadsOnce /\ Waiting /\ ~Underway(Me[t]) /\ Me[t] \in Request
    BY Names DEF IInv, LeadsOnce
  <1>3. CASE StartSync(t) \/ FirstMe(t) \/ SecondMe(t)
    <2>1. \A u \in Tab : Generation(u)' = Generation(u)
      BY <1>2, <1>3 DEF TypeOK, TabRow, Generation, StartSync, FirstMe, SecondMe
    <2>2. UNCHANGED <<row, storage, flight, login, signedIn, dropped>>
      BY <1>3 DEF StartSync, FirstMe, SecondMe, server
    <2>3. Calm
      BY <1>2, <2>1, <2>2 DEF Calm, TypeOK, TabRow, Generation
    <2>4. \/ req' = req
          \/ \E r : r.pc # "waiting" /\ req' = [req EXCEPT ![Me[t]] = r]
      <3>1. StartWith(Me[t]).pc = "sent"
        BY DEF StartWith, NoRequest
      <3>2. \A d : [NoRequest EXCEPT !.leader = d].pc = "idle"
        BY DEF NoRequest
      <3> QED BY <1>3, <3>1, <3>2 DEF StartSync, FirstMe, SecondMe
    <2>5. LeadsOnce' /\ Waiting'
      BY <1>2, <2>2, <2>4, OneRequest, SameRequests
    <2> QED BY <1>1, <2>3, <2>5, CalmStep
  <1>4. CASE EndSync(t)
    <2>1. UNCHANGED <<row, flight, login, dropped>>
      BY <1>4 DEF EndSync, server
    <2>2. Calm
      <3>1. CASE LogoutEffects(t)
        BY <1>2, <2>1, <3>1, LogoutCalm DEF Calm, TypeOK
      <3>2. CASE tab' = [tab EXCEPT ![t].sync = "done"] /\ UNCHANGED <<storage, logouts, signedIn>>
        BY <1>2, <2>1, <3>2 DEF Calm, TypeOK, TabRow, Generation
      <3> QED BY <1>4, <3>1, <3>2, SyncEnds
    <2>3. LeadsOnce' /\ Waiting'
      <3>1. \E r : r.pc # "waiting" /\ req' = [req EXCEPT ![Me[t]] = r]
        BY <1>4 DEF EndSync, Finish, NoRequest
      <3> QED BY <1>2, <2>1, <3>1, OneRequest
    <2> QED BY <1>1, <2>2, <2>3, CalmStep
  <1> QED BY <1>3, <1>4 DEF Synchronize

LEMMA UserSteps ==
  ASSUME IInv, NEW t \in Tab, Logout(t) \/ StartLogin(t) \/ SwitchAgency(t)
  PROVE  IInv'
  <1>1. TypeOK'
    BY LoginTypes DEF IInv
  <1>2. TypeOK /\ LeadsOnce /\ Waiting
    BY DEF IInv
  <1>3. UNCHANGED <<row, req, flight, dropped>>
    BY DEF Logout, StartLogin, SwitchAgency, server
  <1>7. Calm
    <2>1. CASE Logout(t)
      BY <1>2, <1>3, <2>1, LogoutCalm DEF Calm, TypeOK, Logout
    <2>2. CASE StartLogin(t)
      BY <1>2, <1>3, <2>2 DEF Calm, TypeOK, TabRow, LoginRow, Generation, StartLogin
    <2>3. CASE SwitchAgency(t)
      BY <1>2, <1>3, <2>3 DEF Calm, TypeOK, TabRow, Generation, SwitchAgency
    <2> QED BY <2>1, <2>2, <2>3
  <1> QED BY <1>1, <1>2, <1>3, <1>7, SameRequests, CalmStep

LEMMA ServerSteps ==
  ASSUME IInv, \/ \E p \in logouts : ServeLogout(p)
               \/ \E s \in Session : ExpireAccess(s) \/ EndSession(s)
               \/ Deactivate \/ Reactivate
  PROVE  IInv'
  <1>1. TypeOK'
    BY ServerTypes DEF IInv
  <1>2. TypeOK /\ LeadsOnce /\ Waiting
    BY DEF IInv
  <1>3. UNCHANGED <<storage, tab, req, flight, login, signedIn, dropped>>
    BY DEF ServeLogout, ExpireAccess, EndSession, Deactivate, Reactivate
  <1>4. \A s \in Session : row'[s].n = row[s].n /\ (row[s].state # "absent" => row'[s].state # "absent")
    <2>1. \A e \in Session : row' = [row EXCEPT ![e].state = "ended"] =>
             \A s \in Session : row'[s].n = row[s].n /\ (row[s].state # "absent" => row'[s].state # "absent")
      BY <1>2 DEF TypeOK, SessionRow
    <2>2. ASSUME NEW p \in logouts, ServeLogout(p)
          PROVE  row' = row \/ row' = [row EXCEPT ![p.sid].state = "ended"]
      BY <2>2 DEF ServeLogout
    <2>3. \A p \in logouts : p.sid \in Session
      BY <1>2 DEF TypeOK, Pair
    <2>4. CASE \E p \in logouts : ServeLogout(p)
      BY <2>1, <2>2, <2>3, <2>4
    <2>5. CASE \E s \in Session : ExpireAccess(s) \/ EndSession(s)
      BY <2>1, <2>5 DEF ExpireAccess, EndSession
    <2>6. CASE Deactivate
      BY <1>2, <2>6 DEF TypeOK, SessionRow, Deactivate
    <2>7. CASE Reactivate
      BY <2>7 DEF Reactivate
    <2> QED BY <2>4, <2>5, <2>6, <2>7
  <1>5. Calm
    BY <1>2, <1>3, <1>4 DEF Calm, TypeOK, TabRow, Generation
  <1> QED BY <1>1, <1>2, <1>3, <1>5, SameRequests, CalmStep

-----------------------------------------------------------------------------
(* Signing in: the session is nobody's until its tokens are stored.        *)

LEMMA IssueTokensStep ==
  ASSUME IInv, NEW t \in Tab, IssueTokens(t)
  PROVE  IInv'
  <1>1. TypeOK' /\ TypeOK /\ LeadsOnce /\ Waiting
    BY LoginTypes DEF IInv, SignIn
  <1>2. UNCHANGED <<storage, tab, req, flight, signedIn, dropped>>
    BY DEF IssueTokens
  <1>3. PICK s \in Session : /\ row[s].state = "absent"
                             /\ row' = [row EXCEPT ![s].state = "live"]
                             /\ login' = [login EXCEPT ![t] = [@ EXCEPT !.pc = "issued", !.sid = s]]
    BY DEF IssueTokens
  <1>4. \A r \in Session : /\ row'[r].n = row[r].n
                           /\ row[r].state # "absent" => row'[r].state # "absent"
    BY <1>1, <1>3 DEF TypeOK, SessionRow
  <1>5. row'[s].state = "live" /\ login'[t].sid = s /\ \A u \in Tab \ {t} : login'[u] = login[u]
    BY <1>1, <1>3 DEF TypeOK, SessionRow, LoginRow
  <1>6. Onward /\ StorageOnward
    BY <1>1, <1>2, <1>4 DEF Onward, StorageOnward, TypeOK, SessionRow, TabRow, Generation
  <1>7. \A c \in Request : FlightSound(c)'
    BY <1>1, <1>2, <1>6, FlightFrame DEF IInv
  <1>8. \A u \in Tab : LoginSound(u)'
    <2>1. storage # None => storage.sid # s
      BY <1>3 DEF IInv, StorageSound
    <2>2. \A c \in Request : Underway(c) => flight[c].snap.sid # s
      BY <1>3 DEF IInv, FlightSound
    <2>3. \A u \in Tab : login[u].pc = "issued" => login[u].sid # s
      BY <1>3 DEF IInv, LoginSound
    <2>4. \A c \in Request : Underway(c)' <=> Underway(c)
      BY <1>2 DEF Underway
    <2>5. LoginSound(t)'
      BY <1>2, <1>5, <2>1, <2>2, <2>3, <2>4 DEF LoginSound
    <2>6. ASSUME NEW u \in Tab \ {t}, login'[u].pc = "issued" PROVE LoginSound(u)'
      <3>1. login'[u] = login[u] /\ LoginSound(u) /\ login[u].pc = "issued"
        BY <1>5, <2>6 DEF IInv
      <3>2. login[u].sid \in Session /\ row'[login[u].sid].state # "absent"
        BY <1>4, <3>1 DEF LoginSound
      <3>3. storage # None => storage.sid # login[u].sid
        BY <3>1 DEF LoginSound
      <3>4. \A c \in Request : Underway(c)' => flight'[c].snap.sid # login[u].sid
        BY <1>2, <2>4, <3>1 DEF LoginSound
      <3>5. \A v \in Tab \ {u} : login'[v].pc = "issued" => login'[v].sid # login[u].sid
        BY <1>5, <2>3, <3>1 DEF LoginSound
      <3> QED BY <1>2, <3>1, <3>2, <3>3, <3>4, <3>5 DEF LoginSound
    <2> QED BY <2>5, <2>6 DEF LoginSound
  <1>9. StorageSound'
    <2> SUFFICES ASSUME storage # None PROVE StorageSound'
      BY <1>2 DEF StorageSound
    <2>1. storage.sid \in Session
      BY <1>1 DEF TypeOK, Pair
    <2> QED BY <1>2, <1>4, <2>1 DEF IInv, StorageSound
  <1>10. Lineage' /\ RotatedOnce'
    <2>1. \A c \in Request : (Rotated(c)' <=> Rotated(c)) /\ flight'[c].snap = flight[c].snap
      BY <1>2 DEF Rotated
    <2> QED BY <1>4, <2>1, LineageFrame, RotatedOnceFrame DEF IInv
  <1> QED BY <1>1, <1>2, <1>7, <1>8, <1>9, <1>10, SameRequests DEF IInv

LEMMA EndLoginStep ==
  ASSUME IInv, NEW t \in Tab, EndLogin(t)
  PROVE  IInv'
  <1>1. TypeOK' /\ TypeOK /\ LeadsOnce /\ Waiting
    BY LoginTypes DEF IInv, SignIn
  <1>2. UNCHANGED <<row, req, flight, dropped>>
    BY DEF EndLogin, server
  <1>3. /\ login[t].pc = "issued" /\ login'[t].pc = "none"
        /\ \A u \in Tab \ {t} : login'[u] = login[u]
    BY <1>1 DEF TypeOK, EndLogin, NoLogin
  <1>4. CASE UNCHANGED <<storage, signedIn, tab>>
    <2>1. Calm
      BY <1>1, <1>2, <1>3, <1>4 DEF Calm, TypeOK, TabRow, Generation
    <2> QED BY <1>1, <1>2, <2>1, SameRequests, CalmStep
  <1>5. CASE ~ UNCHANGED <<storage, signedIn, tab>>
    <2> DEFINE s == login[t].sid
    <2>1. /\ storage' = [sid |-> s, n |-> 0] /\ signedIn' = s
          /\ tab' = [tab EXCEPT ![t] = [tab[t] EXCEPT !.generation = @ + 1, !.authenticated = TRUE,
                                                      !.sync = "idle"]]
      BY <1>5 DEF EndLogin
    <2>2. s \in Session /\ row[s].state # "absent"
      BY <1>3 DEF IInv, LoginSound
    <2>3. storage' \in Pair /\ storage' # None
      BY <2>1, <2>2, Names DEF Pair
    <2>4. \A c \in Request : Underway(c) => flight[c].snap.sid # s
      BY <1>3 DEF IInv, LoginSound
    <2>5. \A u \in Tab : Generation(u) <= Generation(u)'
      BY <1>1, <2>1 DEF TypeOK, TabRow, Generation
    <2>6. Onward /\ StorageOnward
      BY <1>1, <1>2, <2>1, <2>3, <2>4, <2>5 DEF Onward, StorageOnward, TypeOK, SessionRow
    <2>7. \A c \in Request : FlightSound(c)'
      BY <1>1, <1>2, <2>6, FlightFrame DEF IInv
    <2>8. ASSUME NEW u \in Tab, login'[u].pc = "issued" PROVE LoginSound(u)'
      <3>1. u # t /\ login'[u] = login[u] /\ LoginSound(u) /\ login[u].pc = "issued"
        BY <1>3, <2>8 DEF IInv
      <3>2. login[u].sid # s
        BY <1>3, <3>1 DEF LoginSound
      <3>3. \A c \in Request : Underway(c)' => flight'[c].snap.sid # login[u].sid
        BY <1>2, <3>1 DEF LoginSound, Underway
      <3>4. \A v \in Tab \ {u} : login'[v].pc = "issued" => login'[v].sid # login[u].sid
        BY <1>3, <3>1 DEF LoginSound
      <3>5. login[u].sid \in Session /\ row[login[u].sid].state # "absent"
        BY <3>1 DEF LoginSound
      <3> QED BY <1>2, <2>1, <3>1, <3>2, <3>3, <3>4, <3>5 DEF LoginSound
    <2>9. StorageSound'
      <3>1. row[s].n \in Nat
        BY <1>1, <2>2 DEF TypeOK, SessionRow
      <3> QED BY <1>2, <2>1, <2>2, <3>1 DEF StorageSound
    <2>10. Lineage' /\ RotatedOnce'
      <3>1. \A c \in Request : (Rotated(c)' <=> Rotated(c)) /\ flight'[c].snap = flight[c].snap
        BY <1>2 DEF Rotated
      <3> QED BY <1>2, <3>1, LineageFrame, RotatedOnceFrame DEF IInv
    <2>11. \A u \in Tab : LoginSound(u)'
      BY <2>8 DEF LoginSound
    <2> QED BY <1>1, <1>2, <2>7, <2>9, <2>10, <2>11, SameRequests DEF IInv
  <1> QED BY <1>4, <1>5

-----------------------------------------------------------------------------
(* The refreshes.                                                          *)

LEMMA RotatedKept ==
  ASSUME Lineage, RotatedOnce, row' = row,
         \A c \in Request : (Rotated(c)' <=> Rotated(c)) /\ (Rotated(c) => flight'[c].snap = flight[c].snap)
  PROVE  Lineage' /\ RotatedOnce'
  BY LineageFrame, RotatedOnceFrame

LEMMA LeadRefreshStep ==
  ASSUME IInv, NEW c \in Request, LeadRefresh(c)
  PROVE  IInv'
  <1>1. TypeOK' /\ TypeOK /\ LeadsOnce /\ Waiting
    BY RefreshTypes DEF IInv
  <1>2. UNCHANGED <<row, storage, login, signedIn, dropped>>
    BY DEF LeadRefresh, server
  <1>3. /\ c \in Call /\ req[c].pc = "answered" /\ ~req[c].again
        /\ storage # None /\ req[c].snap = storage /\ req[c].gen = Generation(Owner[c])
    BY DEF LeadRefresh, Refreshable, Same, Generation
  <1>4. ~Underway(c)
    BY <1>1, <1>3 DEF LeadsOnce, Led
  <1>5. /\ \A d \in Request \ {c} : flight'[d] = flight[d]
        /\ flight'[c] = [NoFlight EXCEPT !.server = "sent", !.gen = req[c].gen, !.snap = req[c].snap]
    BY <1>1 DEF TypeOK, LeadRefresh
  <1>6. /\ flight'[c].server = "sent" /\ ~flight'[c].over
        /\ flight'[c].gen = Generation(Owner[c]) /\ flight'[c].snap = storage
    BY <1>3, <1>5 DEF NoFlight
  <1>7. \A t \in Tab : Generation(t)' = Generation(t)
    BY <1>1, Names DEF TypeOK, TabRow, LeadRefresh, Generation
  <1>8. Onward /\ StorageOnward
    BY <1>1, <1>2, <1>7 DEF Onward, StorageOnward, TypeOK, SessionRow, TabRow, Generation
  <1>9. FlightSound(c)'
    <2>1. storage \in Pair /\ storage.n \in Nat /\ row[storage.sid].state # "absent"
      BY <1>1, <1>3 DEF IInv, StorageSound, TypeOK, Pair
    <2>2. Generation(Owner[c]) \in Nat /\ Generation(Owner[c])' = Generation(Owner[c])
      BY <1>1, <1>7, Names DEF TypeOK, TabRow, Generation
    <2>3. ~Rotated(c)' /\ flight'[c].gen <= Generation(Owner[c])'
      BY <1>6, <2>2 DEF Rotated
    <2>4. storage'.n = storage.n /\ storage.n <= storage.n
      BY <1>2, <2>1
    <2> QED BY <1>2, <1>6, <2>1, <2>3, <2>4 DEF FlightSound
  <1>10. \A d \in Request : FlightSound(d)'
    BY <1>1, <1>5, <1>8, <1>9, FlightFrame DEF IInv
  <1>11. LeadsOnce' /\ Waiting'
    <2>1. /\ \A d \in Request \ {c} : req'[d] = req[d]
          /\ req'[c].pc = "waiting" /\ req'[c].leader = c
      BY <1>1 DEF TypeOK, RequestRow, LeadRefresh
    <2>2. \A d \in Request \ {c} : Underway(d)' <=> Underway(d)
      BY <1>5 DEF Underway
    <2> QED BY <1>1, <1>3, <2>1, <2>2 DEF LeadsOnce, Waiting, Led
  <1>12. \A t \in Tab : LoginSound(t)'
    <2>1. \A d \in Request : Underway(d)' =>
             \/ Underway(d) /\ flight'[d].snap = flight[d].snap
             \/ storage # None /\ flight'[d].snap.sid = storage.sid
      BY <1>3, <1>5, <1>6 DEF Underway
    <2> QED BY <1>2, <1>8, <2>1, LoginFrame DEF IInv
  <1>13. StorageSound'
    BY <1>2 DEF IInv, StorageSound
  <1>14. Lineage' /\ RotatedOnce'
    <2>1. \A d \in Request : (Rotated(d)' <=> Rotated(d)) /\ (Rotated(d) => flight'[d].snap = flight[d].snap)
      BY <1>4, <1>5, <1>6 DEF Rotated, Underway
    <2> QED BY <1>2, <2>1, RotatedKept DEF IInv
  <1> QED BY <1>1, <1>10, <1>11, <1>12, <1>13, <1>14 DEF IInv

\* the server's part: only the answer of this refresh changes
LEMMA ServerFlight ==
  ASSUME IInv, TypeOK', NEW c \in Request, Underway(c),
         UNCHANGED <<storage, tab, req, login, signedIn, dropped>>, Onward,
         \A d \in Request \ {c} : flight'[d] = flight[d],
         flight'[c].server # "none", flight'[c].snap = flight[c].snap, FlightSound(c)',
         Lineage', RotatedOnce'
  PROVE  IInv'
  <1>1. TypeOK /\ LeadsOnce /\ Waiting /\ StorageOnward
    BY DEF IInv, StorageOnward
  <1>2. \A d \in Request : FlightSound(d)'
    BY <1>1, FlightFrame DEF IInv
  <1>3. \A d \in Request : (Underway(d)' <=> Underway(d)) /\ flight'[d].snap = flight[d].snap
    BY DEF Underway
  <1>4. LeadsOnce' /\ Waiting'
    BY <1>1, <1>3 DEF LeadsOnce, Waiting
  <1>5. \A t \in Tab : LoginSound(t)'
    BY <1>3, LoginFrame DEF IInv
  <1>6. StorageSound'
    <2> SUFFICES ASSUME storage # None PROVE StorageSound'
      BY DEF StorageSound
    <2>1. storage.sid \in Session /\ storage.n \in Nat
      BY <1>1 DEF TypeOK, Pair
    <2>2. storage.n <= row[storage.sid].n /\ row[storage.sid].n <= row'[storage.sid].n
      BY <2>1 DEF IInv, StorageSound, Onward
    <2>3. row[storage.sid].n \in Nat /\ row'[storage.sid].n \in Nat
      BY <1>1, <2>1 DEF TypeOK, SessionRow
    <2>4. storage.n <= row'[storage.sid].n
      BY <2>1, <2>2, <2>3
    <2> QED BY <2>1, <2>4 DEF IInv, StorageSound, Onward
  <1> QED BY <1>2, <1>4, <1>5, <1>6 DEF IInv

\* the client's part: the refresh is over
LEMMA LandStep ==
  ASSUME IInv, TypeOK', NEW c \in Request, NEW q, Land(c, q), Underway(c),
         UNCHANGED <<row, req, login>>, Onward, StorageOnward,
         flight[c].server \in {"sent", "read"} => c \in dropped',
         Rotated(c) /\ c \notin dropped' /\ flight[c].gen = Generation(Owner[c])' =>
            storage' # flight[c].snap,
         storage' # None => storage # None /\ storage'.sid = storage.sid,
         StorageSound'
  PROVE  IInv'
  <1>1. TypeOK /\ LeadsOnce /\ Waiting
    BY DEF IInv
  <1>2. /\ \A d \in Request \ {c} : flight'[d] = flight[d]
        /\ flight'[c].over /\ flight'[c].server = flight[c].server
        /\ flight'[c].snap = flight[c].snap /\ flight'[c].gen = flight[c].gen
    BY <1>1 DEF TypeOK, FlightRow, Land
  <1>3. \A d \in Request : /\ (Underway(d)' <=> Underway(d)) /\ (Rotated(d)' <=> Rotated(d))
                           /\ flight'[d].snap = flight[d].snap
    BY <1>2 DEF Underway, Rotated
  <1>4. FlightSound(c)'
    BY <1>1, <1>2, <1>3, FlightAdvanced DEF IInv
  <1>5. \A d \in Request : FlightSound(d)'
    BY <1>1, <1>2, <1>4, FlightFrame DEF IInv
  <1>6. LeadsOnce' /\ Waiting'
    BY <1>1, <1>3 DEF LeadsOnce, Waiting
  <1>7. \A t \in Tab : LoginSound(t)'
    BY <1>3, LoginFrame DEF IInv
  <1>8. Lineage' /\ RotatedOnce'
    BY <1>3, RotatedKept DEF IInv
  <1> QED BY <1>5, <1>6, <1>7, <1>8 DEF IInv

LEMMA ReadUserStep ==
  ASSUME IInv, NEW c \in Request, ReadUser(c)
  PROVE  IInv'
  <1>1. TypeOK' /\ TypeOK
    BY RefreshTypes DEF IInv
  <1>2. UNCHANGED <<row, storage, tab, req, login, signedIn, dropped>>
    BY DEF ReadUser, server
  <1>3. Underway(c)
    BY DEF ReadUser, Underway
  <1>4. /\ \A d \in Request \ {c} : flight'[d] = flight[d]
        /\ flight[c].server = "sent" /\ flight'[c].server \in {"read", "denied"}
        /\ flight'[c].snap = flight[c].snap /\ flight'[c].gen = flight[c].gen
        /\ flight'[c].over = flight[c].over
    BY <1>1 DEF TypeOK, FlightRow, ReadUser
  <1>5. Onward /\ StorageOnward
    BY <1>1, <1>2 DEF Onward, StorageOnward, TypeOK, SessionRow, TabRow, Generation
  <1>6. ~Rotated(c)' /\ (flight[c].over => c \in dropped')
    BY <1>2, <1>3, <1>4 DEF IInv, FlightSound, Rotated
  <1>7. FlightSound(c)'
    BY <1>1, <1>3, <1>4, <1>5, <1>6, FlightAdvanced DEF IInv
  <1>8. Lineage' /\ RotatedOnce'
    <2>1. \A d \in Request : (Rotated(d)' <=> Rotated(d)) /\ flight'[d].snap = flight[d].snap
      BY <1>4, <1>6 DEF Rotated
    <2> QED BY <1>2, <2>1, RotatedKept DEF IInv
  <1> QED BY <1>1, <1>2, <1>3, <1>4, <1>5, <1>7, <1>8, ServerFlight

LEMMA RotateStep ==
  ASSUME IInv, NEW c \in Request, Rotate(c)
  PROVE  IInv'
  <1> DEFINE p == flight[c].snap
             s == p.sid
  <1>1. TypeOK' /\ TypeOK
    BY RefreshTypes DEF IInv
  <1>2. UNCHANGED <<storage, tab, req, login, signedIn, dropped>>
    BY DEF Rotate
  <1>3. Underway(c) /\ flight[c].server = "read" /\ ~Rotated(c)
    BY DEF Rotate, Underway, Rotated
  <1>4. p \in Pair /\ s \in Session /\ p.n \in Nat /\ row[s].n \in Nat
    BY <1>1, <1>3 DEF IInv, FlightSound, Pair, TypeOK, SessionRow
  <1>5. flight[c].over => c \in dropped'
    BY <1>2, <1>3 DEF IInv, FlightSound
  <1>6. CASE RefreshValid(p)
    <2> DEFINE answer == IF flight[c].over THEN None ELSE [p EXCEPT !.n = row[s].n + 1]
    <2>1. row' = [row EXCEPT ![s].n = @ + 1] /\ row[s].n = p.n
      BY <1>6 DEF Rotate, RefreshValid
    <2>2. flight' = [flight EXCEPT ![c] = [@ EXCEPT !.server = "rotated", !.pair = answer]]
      BY <1>6 DEF Rotate, Answered
    <2>3. ~flight[c].over => answer = [sid |-> s, n |-> p.n + 1]
      BY <1>4, <2>1 DEF Pair
    <2> HIDE DEF answer
    <2>4. /\ \A d \in Request \ {c} : flight'[d] = flight[d]
          /\ flight'[c].server = "rotated" /\ flight'[c].pair = answer
          /\ flight'[c].snap = p /\ flight'[c].gen = flight[c].gen
          /\ flight'[c].over = flight[c].over
      BY <1>1, <2>2 DEF TypeOK, FlightRow
    <2>5. /\ row'[s].n = p.n + 1 /\ row'[s].state = row[s].state
          /\ \A r \in Session \ {s} : row'[r] = row[r]
      BY <1>1, <1>4, <2>1 DEF TypeOK, SessionRow
    <2>6. Onward /\ StorageOnward
      <3>1. \A r \in Session : /\ row[r].state # "absent" => row'[r].state # "absent"
                               /\ row[r].n <= row'[r].n
        BY <1>1, <1>4, <2>1, <2>5 DEF TypeOK, SessionRow
      <3> QED BY <1>1, <1>2, <3>1 DEF Onward, StorageOnward, TypeOK, TabRow, Generation
    <2>7. FlightSound(c)'
      <3>1. p.n < row'[s].n
        BY <1>4, <2>5
      <3> QED BY <1>1, <1>3, <1>5, <2>3, <2>4, <2>6, <3>1, FlightAdvanced DEF IInv
    <2>8. \A d \in Request \ {c} : (Rotated(d)' <=> Rotated(d)) /\ flight'[d].snap = flight[d].snap
      BY <2>4 DEF Rotated
    <2>9. Lineage'
      <3> SUFFICES ASSUME NEW q \in Pair, q.n < row'[q.sid].n
                   PROVE  \E d \in Call : flight'[d].snap = q /\ Rotated(d)'
        BY DEF Lineage
      <3>1. q.sid \in Session /\ q.n \in Nat
        BY DEF Pair
      <3>2. CASE q.n < row[q.sid].n
        <4>1. PICK d \in Call : flight[d].snap = q /\ Rotated(d)
          BY <3>2 DEF IInv, Lineage
        <4> QED BY <1>3, <2>8, <4>1, Names
      <3>3. CASE ~ (q.n < row[q.sid].n)
        <4>1. q.sid = s
          BY <2>5, <3>1, <3>3
        <4>2. q.n = p.n
          BY <1>4, <2>1, <2>5, <3>1, <3>3, <4>1
        <4>3. q = p
          BY <1>4, <4>1, <4>2 DEF Pair
        <4>4. c \in Call
          BY <1>3 DEF IInv, LeadsOnce
        <4> QED BY <2>4, <4>3, <4>4 DEF Rotated
      <3> QED BY <3>2, <3>3
    <2>10. RotatedOnce'
      <3>1. ASSUME NEW d \in Request \ {c}, Rotated(d) PROVE flight[d].snap # p
        <4>1. flight[d].snap.n < row[flight[d].snap.sid].n
          BY <3>1 DEF IInv, FlightSound, Rotated, Underway
        <4> QED BY <1>4, <2>1, <4>1
      <3>2. \A d \in Request \ {c} : Rotated(d)' => flight'[d].snap # flight'[c].snap
        BY <2>4, <2>8, <3>1
      <3>3. ASSUME NEW d \in Request, NEW e \in Request, d # e, Rotated(d)', Rotated(e)'
            PROVE  flight'[d].snap # flight'[e].snap
        <4>1. CASE d = c \/ e = c
          BY <3>2, <3>3, <4>1
        <4>2. CASE d # c /\ e # c
          BY <2>8, <3>3, <4>2 DEF IInv, RotatedOnce, Rotated
        <4> QED BY <4>1, <4>2
      <3> QED BY <3>3 DEF RotatedOnce, Rotated
    <2> QED BY <1>1, <1>2, <1>3, <2>4, <2>6, <2>7, <2>9, <2>10, ServerFlight
  <1>7. CASE ~RefreshValid(p)
    <2>1. flight' = [flight EXCEPT ![c].server = "denied"] /\ row' = row
      BY <1>7 DEF Rotate
    <2>2. /\ \A d \in Request \ {c} : flight'[d] = flight[d]
          /\ flight'[c].server = "denied"
          /\ flight'[c].snap = p /\ flight'[c].gen = flight[c].gen
      BY <1>1, <2>1 DEF TypeOK, FlightRow
    <2>3. Onward /\ StorageOnward
      BY <1>1, <1>2, <2>1 DEF Onward, StorageOnward, TypeOK, SessionRow, TabRow, Generation
    <2>4. FlightSound(c)'
      BY <1>1, <1>3, <2>2, <2>3, FlightAdvanced DEF IInv, Rotated
    <2>5. Lineage' /\ RotatedOnce'
      <3>1. \A d \in Request : (Rotated(d)' <=> Rotated(d)) /\ flight'[d].snap = flight[d].snap
        BY <1>3, <2>2 DEF Rotated
      <3> QED BY <2>1, <3>1, RotatedKept DEF IInv
    <2> QED BY <1>1, <1>2, <1>3, <2>2, <2>3, <2>4, <2>5, ServerFlight
  <1> QED BY <1>6, <1>7

LEMMA Forgotten ==
  ASSUME TypeOK, NEW c \in Request, tab' = ForgetFlight(c)
  PROVE  \A t \in Tab : Generation(t)' = Generation(t)
  BY ForgetType DEF Generation

LEMMA StoreStep ==
  ASSUME IInv, NEW c \in Request, Store(c)
  PROVE  IInv'
  <1> DEFINE p == flight[c].snap
  <1>1. TypeOK' /\ TypeOK
    BY RefreshTypes DEF IInv
  <1>2. UNCHANGED <<row, req, login, signedIn, dropped>> /\ tab' = ForgetFlight(c)
    BY DEF Store, server
  <1>3. Underway(c) /\ Rotated(c) /\ ~flight[c].over
    BY DEF Store, Awaited, Underway, Rotated
  <1>4. \A t \in Tab : Generation(t)' = Generation(t)
    BY <1>1, <1>2, Forgotten
  <1>5. Onward
    BY <1>1, <1>2, <1>4 DEF Onward, TypeOK, SessionRow, TabRow, Generation
  <1>6. ~ (flight[c].server \in {"sent", "read"})
    BY <1>3 DEF Rotated
  <1>7. CASE SameSession(c)
    <2>1. storage' = flight[c].pair /\ Land(c, flight[c].pair) /\ storage = p
      BY <1>7 DEF Store, SameSession, Same
    <2>2. p \in Pair /\ p # None /\ p.sid \in Session /\ p.n \in Nat /\ p.n < row[p.sid].n
      BY <1>3, Names DEF IInv, FlightSound, Pair
    <2>3. storage' = [sid |-> p.sid, n |-> p.n + 1]
      BY <1>3, <2>1 DEF IInv, FlightSound
    <2>4. storage' \in Pair /\ storage' # None /\ storage'.sid = p.sid /\ storage'.n = p.n + 1
      BY <2>2, <2>3, Names DEF Pair
    <2>5. p.n < storage'.n /\ storage' # p
      BY <2>2, <2>4
    <2>6. StorageOnward
      BY <2>1, <2>2, <2>4, <2>5 DEF StorageOnward
    <2>7. StorageSound'
      <3>1. row[p.sid].n \in Nat
        BY <1>1, <2>2 DEF TypeOK, SessionRow
      <3>2. storage'.n <= row[p.sid].n
        BY <2>2, <2>4, <3>1
      <3> QED BY <1>2, <2>1, <2>2, <2>4, <3>2 DEF IInv, StorageSound
    <2> QED BY <1>1, <1>2, <1>3, <1>5, <1>6, <2>1, <2>2, <2>4, <2>5, <2>6, <2>7, LandStep
  <1>8. CASE ~SameSession(c)
    <2>1. storage' = storage /\ Land(c, None)
      BY <1>8 DEF Store
    <2>2. flight[c].gen = Generation(Owner[c])' => storage' # p
      BY <1>4, <1>8, <2>1, Names DEF SameSession, Same, Generation
    <2>3. StorageOnward /\ StorageSound'
      BY <1>2, <2>1 DEF IInv, StorageOnward, StorageSound
    <2> QED BY <1>1, <1>2, <1>3, <1>5, <1>6, <2>1, <2>2, <2>3, LandStep
  <1> QED BY <1>7, <1>8

LEMMA TerminateStep ==
  ASSUME IInv, NEW c \in Request, Terminate(c)
  PROVE  IInv'
  <1>1. TypeOK' /\ TypeOK
    BY RefreshTypes DEF IInv
  <1>2. UNCHANGED <<row, req, login, dropped>> /\ Land(c, None)
    BY DEF Terminate, server
  <1>3. Underway(c) /\ ~Rotated(c) /\ flight[c].server = "denied"
    BY DEF Terminate, Awaited, Underway, Rotated
  <1>4. /\ storage' = None \/ (storage' = storage /\ signedIn' = signedIn)
        /\ \A t \in Tab : Generation(t) <= Generation(t)'
    <2>1. CASE SameSession(c)
      <3>1. storage' = None
        BY <2>1 DEF Terminate
      <3>2. tab' = [ForgetFlight(c) EXCEPT ![Owner[c]] =
                       [ForgetFlight(c)[Owner[c]] EXCEPT !.generation = @ + 2,
                            !.authenticated = FALSE, !.sync = "done"]]
        BY <2>1 DEF Terminate
      <3> DEFINE f == ForgetFlight(c)
      <3>3. f \in [Tab -> TabRow] /\ \A t \in Tab : f[t].generation = tab[t].generation
        BY <1>1, ForgetType
      <3> HIDE DEF f
      <3>4. \A t \in Tab : f[t].generation <= tab'[t].generation
        BY <3>2, <3>3 DEF f, TabRow
      <3> QED BY <3>1, <3>3, <3>4 DEF Generation
    <2>2. CASE ~SameSession(c)
      <3>1. tab' = ForgetFlight(c) /\ storage' = storage /\ signedIn' = signedIn
        BY <2>2 DEF Terminate
      <3>2. \A t \in Tab : Generation(t)' = Generation(t)
        BY <1>1, <3>1, Forgotten
      <3> QED BY <1>1, <3>1, <3>2 DEF TypeOK, TabRow, Generation
    <2> QED BY <2>1, <2>2
  <1>5. Onward /\ StorageOnward
    BY <1>1, <1>2, <1>4 DEF Onward, StorageOnward, TypeOK, SessionRow
  <1>6. StorageSound'
    BY <1>2, <1>4 DEF IInv, StorageSound
  <1>7. ~ (flight[c].server \in {"sent", "read"})
    BY <1>3
  <1>8. storage' # None => storage # None /\ storage'.sid = storage.sid
    BY <1>4
  <1> QED BY <1>1, <1>2, <1>3, <1>5, <1>6, <1>7, <1>8, LandStep

LEMMA LoseRefreshStep ==
  ASSUME IInv, NEW c \in Request, LoseRefresh(c)
  PROVE  IInv'
  <1>1. TypeOK' /\ TypeOK
    BY RefreshTypes DEF IInv
  <1>2. /\ UNCHANGED <<row, req, login, storage, signedIn>> /\ tab' = ForgetFlight(c)
        /\ Land(c, None) /\ Underway(c) /\ c \in dropped' /\ dropped \subseteq dropped'
    BY DEF LoseRefresh, server, Underway
  <1>3. \A t \in Tab : Generation(t)' = Generation(t)
    BY <1>1, <1>2, Forgotten
  <1>4. Onward /\ StorageOnward
    BY <1>1, <1>2, <1>3 DEF Onward, StorageOnward, TypeOK, SessionRow, TabRow, Generation
  <1>5. StorageSound'
    BY <1>2 DEF IInv, StorageSound
  <1> QED BY <1>1, <1>2, <1>4, <1>5, LandStep

LEMMA ReloadStep ==
  ASSUME IInv, NEW t \in Tab, Reload(t)
  PROVE  IInv'
  <1> DEFINE open == {c \in Request : Owner[c] = t /\ flight[c].server # "none" /\ ~flight[c].over}
  <1>1. TypeOK' /\ TypeOK /\ LeadsOnce /\ Waiting
    BY ReloadTypes DEF IInv
  <1>2. UNCHANGED <<row, storage, login, signedIn>> /\ dropped' = dropped \cup open
    BY DEF Reload, server
  <1>3. flight' = [c \in Request |->
                      IF c \in open THEN [flight[c] EXCEPT !.over = TRUE, !.pair = None] ELSE flight[c]]
    BY DEF Reload
  <1> HIDE DEF open
  <1>4. \A c \in Request :
           /\ flight'[c].server = flight[c].server /\ flight'[c].snap = flight[c].snap
           /\ flight'[c].gen = flight[c].gen
           /\ c \in open => flight'[c].over /\ c \in dropped'
           /\ c \notin open => flight'[c] = flight[c]
    <2>1. \A r \in FlightRow : LET l == [r EXCEPT !.over = TRUE, !.pair = None] IN
             l.server = r.server /\ l.snap = r.snap /\ l.gen = r.gen /\ l.over
      BY DEF FlightRow
    <2>2. ASSUME NEW c \in Request, c \in open
          PROVE  /\ flight'[c].server = flight[c].server /\ flight'[c].snap = flight[c].snap
                 /\ flight'[c].gen = flight[c].gen /\ flight'[c].over
      <3>1. flight'[c] = [flight[c] EXCEPT !.over = TRUE, !.pair = None]
        BY <1>3, <2>2
      <3>2. flight[c] \in FlightRow
        BY <1>1 DEF TypeOK
      <3> QED BY <2>1, <3>1, <3>2
    <2>3. ASSUME NEW c \in Request, c \notin open PROVE flight'[c] = flight[c]
      BY <1>3, <2>3
    <2>4. \A c \in open : c \in dropped'
      BY <1>2
    <2> QED BY <2>2, <2>3, <2>4
  <1>5. \A c \in Request : (Underway(c)' <=> Underway(c)) /\ (Rotated(c)' <=> Rotated(c))
    BY <1>4 DEF Underway, Rotated
  <1>6. \A u \in Tab : Generation(u)' = Generation(u)
    BY <1>1 DEF TypeOK, TabRow, Reload, Generation
  <1>7. Onward /\ StorageOnward
    BY <1>1, <1>2, <1>6 DEF Onward, StorageOnward, TypeOK, SessionRow, TabRow, Generation
  <1>8. ASSUME NEW c \in Request PROVE FlightSound(c)'
    <2>1. CASE c \in open /\ Underway(c)
      BY <1>1, <1>4, <1>5, <1>7, <2>1, FlightAdvanced DEF IInv
    <2>2. CASE ~Underway(c)
      BY <1>5, <2>2 DEF FlightSound
    <2>3. CASE c \notin open
      BY <1>1, <1>4, <1>7, <2>3, FlightFrame DEF IInv
    <2> QED BY <2>1, <2>2, <2>3
  <1>9. LeadsOnce' /\ Waiting'
    <2>1. \A c \in Request : req'[c] = req[c] \/ req'[c].pc = "failed"
      BY <1>1 DEF TypeOK, RequestRow, Reload
    <2> QED BY <1>1, <1>5, <2>1 DEF LeadsOnce, Waiting, Led
  <1>10. \A u \in Tab : LoginSound(u)'
    BY <1>2, <1>4, <1>5, <1>7, LoginFrame DEF IInv
  <1>11. StorageSound'
    BY <1>2 DEF IInv, StorageSound
  <1>12. Lineage' /\ RotatedOnce'
    BY <1>2, <1>4, <1>5, RotatedKept DEF IInv
  <1> QED BY <1>1, <1>8, <1>9, <1>10, <1>11, <1>12 DEF IInv

-----------------------------------------------------------------------------
(* Theorems.                                                               *)

LEMMA Initially ==
  ASSUME Init PROVE IInv
  <1>1. TypeOK
    <2>1. /\ [sid |-> 1, n |-> 0] \in Pair /\ 1 \in Session
      BY SessionsAssumption DEF Pair, Session
    <2>2. row \in [Session -> SessionRow] /\ expired \in [Session -> Nat]
      BY DEF Init, SessionRow
    <2>3. tab \in [Tab -> TabRow]
      BY DEF Init, TabRow
    <2>4. plan \in Plan
      BY SessionsAssumption DEF Init
    <2> QED BY <2>1, <2>2, <2>3, <2>4, NoRowTypes DEF TypeOK, Init
  <1>2. \A c \in Request : ~Underway(c) /\ req[c].pc = "idle"
    BY DEF Init, Underway, NoFlight, NoRequest
  <1>3. (\A c \in Request : FlightSound(c)) /\ LeadsOnce /\ Waiting
    BY <1>2 DEF FlightSound, LeadsOnce, Waiting
  <1>4. \A t \in Tab : LoginSound(t)
    BY DEF Init, NoLogin, LoginSound
  <1>5. StorageSound
    <2>1. 1 \in Session
      BY SessionsAssumption DEF Session
    <2> QED BY <2>1 DEF Init, StorageSound
  <1>6. Lineage
    <2> SUFFICES ASSUME NEW p \in Pair PROVE ~ (p.n < row[p.sid].n)
      BY DEF Lineage
    <2>1. p.n \in Nat /\ row[p.sid].n = 0
      BY DEF Init, Pair
    <2> QED BY <2>1
  <1>7. RotatedOnce
    BY DEF Init, RotatedOnce, NoFlight
  <1> QED BY <1>1, <1>3, <1>4, <1>5, <1>6, <1>7 DEF IInv

\* IInv holds of every reachable state.
THEOREM Invariance == Spec => []IInv
  <1>1. ASSUME IInv, Next PROVE IInv'
    <2>1. ASSUME NEW c \in Request, Send(c) \/ Advance(c) \/ LoseCall(c) \/ LoseRefresh(c)
          PROVE  IInv'
      BY <1>1, <2>1, RequestSteps, LeadRefreshStep, ReadUserStep, RotateStep, StoreStep,
         TerminateStep, LoseRefreshStep DEF Advance
    <2>2. ASSUME NEW t \in Tab,
                 \/ StartSync(t) \/ Synchronize(t) \/ SignIn(t)
                 \/ Logout(t) \/ StartLogin(t) \/ SwitchAgency(t) \/ Reload(t)
          PROVE  IInv'
      BY <1>1, <2>2, SyncSteps, UserSteps, IssueTokensStep, EndLoginStep, ReloadStep DEF SignIn
    <2>3. CASE \/ \E p \in logouts : ServeLogout(p)
               \/ \E s \in Session : ExpireAccess(s) \/ EndSession(s)
               \/ Deactivate \/ Reactivate
      BY <1>1, <2>3, ServerSteps
    <2> QED BY <1>1, <2>1, <2>2, <2>3 DEF Next
  <1>2. ASSUME IInv, UNCHANGED vars PROVE IInv'
    <2>1. UNCHANGED <<active, row, expired, storage, tab, req, flight, login, logouts, signedIn,
                      dropped, plan>>
      BY <1>2 DEF vars, server
    <2>2. TypeOK'
      BY <1>2, <2>1 DEF IInv, TypeOK
    <2>3. LeadsOnce' /\ Waiting'
      BY <1>2, <2>1, SameRequests DEF IInv
    <2>4. Calm
      BY <1>2, <2>1 DEF IInv, Calm, TypeOK, TabRow, Generation
    <2> QED BY <1>2, <2>2, <2>3, <2>4, CalmStep
  <1> QED BY <1>1, <1>2, Initially, PTL DEF Spec

\* Rows, tabs, requests and refreshes keep their types.
THEOREM TypeCorrect == Spec => []TypeOK
  <1>1. IInv => TypeOK
    BY DEF IInv
  <1> QED BY <1>1, Invariance, PTL

\* However many tabs refresh, sign out and sign in, the storage never holds
\* tokens of a session other than the last the user signed in to.
THEOREM StorageSafe == Spec => []StorageOfCurrentLogin
  <1>1. IInv => StorageOfCurrentLogin
    BY DEF IInv, StorageSound, StorageOfCurrentLogin
  <1> QED BY <1>1, Invariance, PTL

\* No refresh token is exchanged twice.
THEOREM OneExchange == Spec => []RotatedOnce
  <1>1. IInv => RotatedOnce
    BY DEF IInv
  <1> QED BY <1>1, Invariance, PTL

\* A browser whose refresh token the server has replaced is about to hear of it,
\* or its answer was lost, or its tab had changed its agency meanwhile.
THEOREM LossesExplained == Spec => []LossExplained
  <1>1. ASSUME IInv PROVE LossExplained
    <2> SUFFICES ASSUME storage # None, row[storage.sid].n # storage.n
                 PROVE  \E c \in Request :
                            /\ flight[c].snap = storage /\ flight[c].server = "rotated"
                            /\ \/ ~flight[c].over
                               \/ c \in dropped
                               \/ flight[c].gen # tab[Owner[c]].generation
      BY DEF LossExplained
    <2>1. storage \in Pair /\ storage.sid \in Session /\ storage.n \in Nat
          /\ row[storage.sid].n \in Nat
      BY <1>1 DEF IInv, TypeOK, Pair, SessionRow
    <2>2. storage.n < row[storage.sid].n
      BY <1>1, <2>1 DEF IInv, StorageSound
    <2>3. PICK c \in Call : flight[c].snap = storage /\ Rotated(c)
      BY <1>1, <2>1, <2>2 DEF IInv, Lineage
    <2>4. c \in Request /\ FlightSound(c) /\ Underway(c)
      BY <1>1, <2>3, Names DEF IInv, Rotated, Underway
    <2> QED BY <2>3, <2>4 DEF FlightSound, Rotated, Generation
  <1> QED BY <1>1, Invariance, PTL

===============================================================================

--------------------------- MODULE DashboardSession ---------------------------
(***************************************************************************)
(* One browser's session with the web dashboard.  The dashboard's server   *)
(* keeps the pair of tokens in cookies and renews it with the backend,     *)
(* whose refresh tokens are good for one use (lib/server/session.ts,       *)
(* app/api/auth, app/api/bff; on the backend auth/tokens.js and            *)
(* /auth/refresh, /auth/password, /auth/logout of routes/auth.js).         *)
(*                                                                         *)
(* Several requests of the browser are under way at once, carry the        *)
(* cookies it had when they left, and are answered in any order.  A pair   *)
(* is a number; 0 stands for none.  Time passes in ticks: a leg of a       *)
(* request takes at most Transit, a backend call at most CallTime, and a   *)
(* settled refresh is remembered for Grace.  An access token is taken to   *)
(* outlive all three by far (15 minutes against 20 to 30 seconds).         *)
(***************************************************************************)
EXTENDS Naturals, FiniteSets

CONSTANTS
    Requests,   \* requests of the browser
    Transit,    \* longest way between browser and dashboard
    CallTime,   \* longest backend call (BACKEND_TIMEOUT_MS)
    Grace       \* GRACE_MS

ASSUME TimeAssumption ==
    /\ {Transit, CallTime, Grace} \subseteq Nat
    /\ Grace > CallTime + 2 * Transit

VARIABLES
    at, rt,    \* the cookies: access token and refresh token
    req,       \* request -> where it is, and the cookies it carries
    flight,    \* refreshFlights: refresh token -> the refresh under way or remembered
    job,       \* request -> what the backend is doing for it, and with which token
    live,      \* refresh tokens the backend has not revoked
    last,      \* pairs issued so far
    spoiled,   \* history: refresh tokens whose successor may be lost or revoked
    mishap     \* history: a refresh was cut off, or crossed a revocation of all tokens

cookies == <<at, rt>>
backend == <<job, live, last>>
history == <<spoiled, mishap>>
vars == <<cookies, req, flight, backend, history>>

Kinds == {"call", "logout", "password"}
Legs == [out |-> Transit, calling |-> CallTime, back |-> Transit]
Statements == {"verify", "revoke", "issue"}

NotSent == [pc |-> "new", kind |-> "call", at |-> 0, rt |-> 0, got |-> 0, sets |-> "keep", age |-> 0]
NoJob == [stmt |-> "none", key |-> 0]
NoFlight == [st |-> "none", by |-> {}, pair |-> 0, age |-> 0]

\* Nobody waits for a refresh that nobody is working on.
FlightsWorked ==
    \A k \in DOMAIN flight : flight[k].st = "pending" =>
        \E r \in Requests : flight[k].by = {r} /\ job[r].key = k /\ job[r].stmt \in Statements

TypeOK ==
    /\ {at, rt} \subseteq 0..last
    /\ req \in [Requests ->
           [pc : {"new", "out", "waiting", "calling", "changing", "back", "done"}, kind : Kinds,
            at : 0..last, rt : 0..last, got : 0..last, sets : {"keep", "set", "clear"}, age : Nat]]
    /\ flight \in [1..last -> [st : {"none", "pending", "settled"}, by : SUBSET Requests,
                               pair : 0..last, age : 0..Grace]]
    /\ job \in [Requests -> [stmt : Statements \cup {"none", "changed"}, key : 0..last]]
    /\ last \in Nat \ {0} /\ live \subseteq 1..last /\ spoiled \subseteq 1..last
    /\ mishap \in BOOLEAN
    /\ FlightsWorked

Init ==
    /\ at = 1 /\ rt = 1 /\ last = 1 /\ live = {1}
    /\ req = [r \in Requests |-> NotSent]
    /\ flight = [k \in {1} |-> NoFlight]
    /\ job = [r \in Requests |-> NoJob]
    /\ spoiled = {} /\ mishap = FALSE

-----------------------------------------------------------------------------
(* The browser.                                                            *)

Goes(r, pc) == req' = [req EXCEPT ![r].pc = pc, ![r].age = 0]
Over == [NotSent EXCEPT !.pc = "done"]
Ends(r) == req' = [req EXCEPT ![r] = Over]

\* Only requests of a signed-in browser are of interest.
Send(r, kind) ==
    /\ req[r].pc = "new" /\ rt # 0
    /\ req' = [req EXCEPT ![r].pc = "out", ![r].kind = kind, ![r].at = at, ![r].rt = rt]
    /\ UNCHANGED <<cookies, flight, backend, history>>

\* The answer's Set-Cookie.
Receive(r) ==
    /\ req[r].pc = "back"
    /\ CASE req[r].sets = "set" -> at' = req[r].got /\ rt' = req[r].got
         [] req[r].sets = "clear" -> at' = 0 /\ rt' = 0
         [] OTHER -> UNCHANGED cookies
    /\ Ends(r) /\ UNCHANGED <<flight, backend, history>>

\* The answer never reaches the browser: its tab is gone, or the network.
Lose(r) ==
    /\ req[r].pc = "back" /\ Ends(r)
    /\ spoiled' = IF req[r].sets = "set" THEN spoiled \cup {req[r].rt} ELSE spoiled
    /\ UNCHANGED <<cookies, flight, backend, mishap>>

\* An access token can have expired only when the refresh that brought it is
\* long past.
MayExpire(t) ==
    /\ \A r \in Requests : req[r].got # t
    /\ \A k \in 1..last : flight[k].pair # t

\* The access token is in its last minute: the browser sends it no more.
AccessExpires ==
    /\ at # 0 /\ MayExpire(at) /\ at' = 0
    /\ UNCHANGED <<rt, req, flight, backend, history>>

-----------------------------------------------------------------------------
(* The dashboard's server: resolveSession, withSession, refreshSession.    *)

\* Mutant: every request refreshes for itself.
SharesNothing(k) == FALSE

\* A refresh of token k that is under way, or settled within the grace window.
Shares(k) == flight[k].st # "none"

\* refreshSession.
Refresh(r) ==
    LET k == req[r].rt
    IN  /\ Goes(r, "waiting")
        /\ IF Shares(k)
           THEN UNCHANGED <<flight, job>>
           ELSE /\ flight' = [flight EXCEPT ![k] = [NoFlight EXCEPT !.st = "pending", !.by = {r}]]
                /\ job' = [job EXCEPT ![r] = [stmt |-> "verify", key |-> k]]

\* A request is resolved with the access token it carries, or by a refresh.
Arrive(r) ==
    /\ req[r].pc = "out"
    /\ \/ /\ req[r].kind = "logout" \/ req[r].at # 0
          /\ Goes(r, "calling") /\ UNCHANGED <<flight, job>>
       \/ req[r].kind # "logout" /\ req[r].at = 0 /\ Refresh(r)
    /\ UNCHANGED <<cookies, live, last, history>>

Resume(r) ==
    LET f == flight[req[r].rt]
    IN  /\ req[r].pc = "waiting" /\ f.st = "settled"
        /\ req' = [req EXCEPT ![r].pc = IF f.pair = 0 THEN "back" ELSE "calling",
                              ![r].sets = IF f.pair = 0 THEN "clear" ELSE "set",
                              ![r].got = f.pair]
        /\ UNCHANGED <<cookies, flight, backend, history>>

\* The backend's answer is passed on, with the rotated cookies if there are any.
PassOn(r) ==
    /\ req[r].pc = "calling" /\ req[r].kind # "logout"
    /\ Goes(r, "back") /\ UNCHANGED <<cookies, flight, backend, history>>

\* A 401 to the access token of the cookie: refresh, and try once more. The token
\* is checked before anything else, so this answer comes at once.
Unauthorized(r) ==
    /\ req[r].pc = "calling" /\ req[r].kind # "logout" /\ req[r].got = 0
    /\ MayExpire(req[r].at) /\ req[r].age = 0
    /\ Refresh(r) /\ UNCHANGED <<cookies, live, last, history>>

\* The call is not answered: 502, and the rotated cookies are not written.
CallFails(r) ==
    /\ req[r].pc = "calling" /\ req[r].kind # "logout"
    /\ req' = [req EXCEPT ![r].pc = "back", ![r].sets = "keep", ![r].age = 0]
    /\ spoiled' = IF req[r].got # 0 THEN spoiled \cup {req[r].rt} ELSE spoiled
    /\ UNCHANGED <<cookies, flight, backend, mishap>>

\* The refresh is not answered: it is forgotten, and whoever waits gets a 502.
\* The backend goes on with it if it has it.
FlightFails(r) ==
    LET k == job[r].key
    IN  /\ job[r].stmt \in Statements /\ flight[k].st = "pending" /\ flight[k].by = {r}
        /\ flight' = [flight EXCEPT ![k] = NoFlight]
        /\ req' = [s \in Requests |->
                       IF req[s].pc = "waiting" /\ req[s].rt = k
                       THEN [req[s] EXCEPT !.pc = "back", !.sets = "keep"] ELSE req[s]]
        /\ \/ job[r].stmt = "verify" /\ job' = [job EXCEPT ![r] = NoJob]
           \/ UNCHANGED job
        /\ spoiled' = spoiled \cup {k} /\ mishap' = TRUE
        /\ UNCHANGED <<cookies, live, last>>

\* The process restarts: its flights are gone and so are the requests it had.
Restart ==
    /\ \E k \in 1..last : flight[k].st # "none"
    /\ flight' = [k \in 1..last |-> NoFlight]
    /\ req' = [r \in Requests |->
                   IF req[r].pc \in {"waiting", "calling", "changing"}
                   THEN Over ELSE req[r]]
    /\ spoiled' = spoiled \cup {k \in 1..last : flight[k].st # "none"}
    /\ mishap' = TRUE
    /\ UNCHANGED <<cookies, backend>>

-----------------------------------------------------------------------------
(* The backend, statement by statement.                                    *)

\* The refresh of request r settles, if anybody still listens.
Settles(r, pair, flights) ==
    LET k == job[r].key
    IN  flight' = IF flight[k].st = "pending" /\ flight[k].by = {r}
                  THEN [flights EXCEPT ![k] = [NoFlight EXCEPT !.st = "settled", !.pair = pair]]
                  ELSE flights

\* A new pair, numbered last + 1.
Issues ==
    /\ last' = last + 1 /\ live' = live \cup {last + 1}

Flights(n) == [k \in 1..n |-> IF k <= last THEN flight[k] ELSE NoFlight]

Verify(r) ==
    /\ job[r].stmt = "verify"
    /\ IF job[r].key \in live
       THEN job' = [job EXCEPT ![r].stmt = "revoke"] /\ UNCHANGED flight
       ELSE job' = [job EXCEPT ![r] = NoJob] /\ Settles(r, 0, flight)
    /\ UNCHANGED <<cookies, req, live, last, history>>

Revoke(r) ==
    /\ job[r].stmt = "revoke" /\ job' = [job EXCEPT ![r].stmt = "issue"]
    /\ live' = live \ {job[r].key}
    /\ UNCHANGED <<cookies, req, flight, last, history>>

Issue(r) ==
    /\ job[r].stmt = "issue" /\ job' = [job EXCEPT ![r] = NoJob]
    /\ Issues /\ Settles(r, last + 1, Flights(last + 1))
    /\ UNCHANGED <<cookies, req, history>>

\* revokeAllRefreshTokens. A refresh or a password change that is past it
\* still issues its token.
RevokeAll ==
    /\ live' = {} /\ spoiled' = 1..last
    /\ mishap' = (mishap \/ \E r \in Requests : job[r].stmt \in {"revoke", "issue", "changed"})

\* An admin, or the password changed on another device.
SignedOutElsewhere ==
    /\ live # {} /\ RevokeAll /\ UNCHANGED <<cookies, req, flight, job, last>>

ChangePassword(r) ==
    /\ req[r].pc = "calling" /\ req[r].kind = "password"
    /\ Goes(r, "changing") /\ job' = [job EXCEPT ![r].stmt = "changed"]
    /\ RevokeAll /\ UNCHANGED <<cookies, flight, last>>

IssueChanged(r) ==
    /\ job[r].stmt = "changed" /\ job' = [job EXCEPT ![r] = NoJob]
    /\ Issues /\ flight' = Flights(last + 1)
    /\ req' = IF req[r].pc = "changing"
              THEN [req EXCEPT ![r].pc = "back", ![r].sets = "set", ![r].got = last + 1]
              ELSE req
    /\ UNCHANGED <<cookies, history>>

LogOut(r) ==
    /\ req[r].pc = "calling" /\ req[r].kind = "logout"
    /\ req' = [req EXCEPT ![r].pc = "back", ![r].sets = "clear", ![r].age = 0]
    /\ \/ live' = live \ {req[r].rt} /\ spoiled' = spoiled \cup {req[r].rt}
       \/ UNCHANGED <<live, spoiled>>     \* revoking failed; the cookies go all the same
    /\ UNCHANGED <<cookies, flight, job, last, mishap>>

-----------------------------------------------------------------------------
(* Time.                                                                   *)

\* Mutant: a settled refresh is remembered for a tick only.
OlderAtOnce(f) == IF f.st = "settled" THEN NoFlight ELSE f

\* A tick later: a refresh remembered for Grace is forgotten (sweep).
Older(f) ==
    IF f.st # "settled" THEN f ELSE IF f.age + 1 = Grace THEN NoFlight ELSE [f EXCEPT !.age = @ + 1]

\* No leg outlasts its bound, and a settled refresh is answered at once.
Tick ==
    /\ \A r \in Requests : req[r].pc \in DOMAIN Legs => req[r].age < Legs[req[r].pc]
    /\ \A r \in Requests : req[r].pc = "waiting" => flight[req[r].rt].st = "pending"
    /\ flight' = [k \in 1..last |-> Older(flight[k])]
    /\ req' = [r \in Requests |->
                   IF req[r].pc \in DOMAIN Legs THEN [req[r] EXCEPT !.age = @ + 1] ELSE req[r]]
    /\ UNCHANGED <<cookies, backend, history>>

Next ==
    \/ \E r \in Requests :
           \/ \E kind \in Kinds : Send(r, kind)
           \/ Receive(r) \/ Lose(r)
           \/ Arrive(r) \/ Resume(r) \/ PassOn(r) \/ Unauthorized(r) \/ CallFails(r) \/ FlightFails(r)
           \/ Verify(r) \/ Revoke(r) \/ Issue(r)
           \/ ChangePassword(r) \/ IssueChanged(r) \/ LogOut(r)
    \/ AccessExpires \/ Restart \/ SignedOutElsewhere \/ Tick

Spec == Init /\ [][Next]_vars

-----------------------------------------------------------------------------

\* The refresh token of the cookie still works, or the refresh that used it up
\* is there to be shared, unless its successor was lost on the way or the
\* session was ended (session.ts:30-38).
CookieUsable ==
    rt \notin spoiled \cup {0} => rt \in live \/ flight[rt].st # "none"

\* Requests that find the access token expired together do not sign the
\* browser out: an answer clears its cookies only for a logout, or when the
\* refresh token it was sent with had been spoiled (session.ts:30-38).
NotSignedOutByRefresh ==
    [][rt # 0 /\ rt' = 0 =>
           \E r \in Requests : /\ req[r].pc = "back" /\ req'[r].pc = "done"
                               /\ req[r].kind = "logout" \/ req[r].rt \in spoiled]_vars

\* A refresh token is rotated once: the session never forks into two that are
\* both good, as long as no refresh is cut off or crosses a password change.
OneSession == ~mishap => Cardinality(live) <= 1
=============================================================================

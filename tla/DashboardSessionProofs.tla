------------------------ MODULE DashboardSessionProofs ------------------------
(***************************************************************************)
(* That a refresh token is rotated once and that nobody is signed out by   *)
(* it, proved for any number of requests and any times.                    *)
(*                                                                         *)
(* IInv: at most one token is alive, or about to be issued, and the        *)
(* refresh at work on a token is the one its flight waits for.             *)
(* SInv: whoever may still send a token for refreshing finds it good, or   *)
(* its refresh young enough to be remembered when the request arrives.     *)
(***************************************************************************)
EXTENDS DashboardSession, FiniteSetTheorems, TLAPS

Pcs == {"new", "out", "waiting", "calling", "changing", "back", "done"}

RequestTypes(n) ==
    [pc : Pcs, kind : Kinds, at : 0..n, rt : 0..n, got : 0..n,
     sets : {"keep", "set", "clear"}, age : Nat]

FlightTypes(n) ==
    [st : {"none", "pending", "settled"}, by : SUBSET Requests, pair : 0..n, age : 0..Grace]

JobTypes(n) == [stmt : Statements \cup {"none", "changed"}, key : 0..n]

Types ==
    /\ last \in Nat \ {0} /\ at \in 0..last /\ rt \in 0..last
    /\ req \in [Requests -> RequestTypes(last)]
    /\ flight \in [1..last -> FlightTypes(last)]
    /\ job \in [Requests -> JobTypes(last)]
    /\ live \subseteq 1..last /\ spoiled \subseteq 1..last /\ mishap \in BOOLEAN
    /\ \A r \in Requests : req[r].pc \notin {"new", "done"} => req[r].rt \in 1..last
    /\ \A k \in 1..last : flight[k].st = "settled" => flight[k].age < Grace

Working(r) == job[r].stmt \in Statements
Listened(r) == flight[job[r].key].st = "pending" /\ flight[job[r].key].by = {r}

\* A refresh is listened to by its flight and by its own request, or has been cut off.
JobsKnown ==
    \A r \in Requests :
        /\ Working(r) =>
               /\ job[r].key \in 1..last
               /\ \/ req[r].pc = "waiting" /\ req[r].rt = job[r].key /\ Listened(r)
                  \/ mishap /\ req[r].pc \in {"back", "done"} /\ ~Listened(r)
        /\ job[r].stmt = "changed" => req[r].pc \in {"changing", "done"}

\* Tokens that can be used, or that a refresh has found to be good.
Revoking(r) == job[r].stmt = "revoke"
Issuing(r) == job[r].stmt \in {"issue", "changed"}
Alive(k) == k \in live \/ \E r \in Requests : Revoking(r) /\ job[r].key = k

\* One token is alive, or one statement is about to issue one.
OneToken ==
    ~mishap =>
        /\ \A k, l \in 1..last : Alive(k) /\ Alive(l) => k = l
        /\ \A r \in Requests : Issuing(r) =>
               /\ \A k \in 1..last : ~Alive(k)
               /\ \A s \in Requests : Issuing(s) => s = r

IInv == Types /\ FlightsWorked /\ JobsKnown /\ OneToken

LEMMA GraceType == Grace \in Nat \ {0}
BY TimeAssumption

LEMMA Blanks ==
    ASSUME NEW n \in Nat
    PROVE  /\ NotSent \in RequestTypes(n) /\ Over \in RequestTypes(n)
           /\ NoFlight \in FlightTypes(n) /\ NoJob \in JobTypes(n)
BY GraceType DEF NotSent, Over, NoFlight, NoJob, RequestTypes, FlightTypes, JobTypes, Kinds, Pcs

LEMMA Grows ==
    ASSUME NEW n \in Nat
    PROVE  /\ RequestTypes(n) \subseteq RequestTypes(n + 1)
           /\ FlightTypes(n) \subseteq FlightTypes(n + 1)
           /\ JobTypes(n) \subseteq JobTypes(n + 1)
<1>1. 0..n \subseteq 0..(n + 1)
  OBVIOUS
<1> QED BY <1>1 DEF RequestTypes, FlightTypes, JobTypes

LEMMA InitIInv == Init => IInv
<1> SUFFICES ASSUME Init PROVE IInv
  OBVIOUS
<1> USE DEF Init
<1>1. Types
  <2>1. NotSent.pc = "new" /\ NoFlight.st = "none"
    BY DEF NotSent, NoFlight
  <2>2. NotSent \in RequestTypes(1) /\ NoFlight \in FlightTypes(1) /\ NoJob \in JobTypes(1)
    BY Blanks
  <2>3. last \in Nat \ {0} /\ at \in 0..last /\ rt \in 0..last
    OBVIOUS
  <2>4. /\ req \in [Requests -> RequestTypes(last)] /\ job \in [Requests -> JobTypes(last)]
        /\ flight \in [1..last -> FlightTypes(last)]
    BY <2>2
  <2>5. live \subseteq 1..last /\ spoiled \subseteq 1..last
    OBVIOUS
  <2>6. mishap \in BOOLEAN
    OBVIOUS
  <2> QED BY <2>1, <2>3, <2>4, <2>5, <2>6 DEF Types
<1>2. FlightsWorked
  BY DEF FlightsWorked, NoFlight
<1>3. JobsKnown
  BY DEF JobsKnown, Working, NoJob, Statements
<1>4. OneToken
  BY DEF OneToken, Alive, Revoking, Issuing, NoJob
<1> QED BY <1>1, <1>2, <1>3, <1>4 DEF IInv

-----------------------------------------------------------------------------
(* Steps that leave the backend's work alone.                              *)

\* Nothing of the invariant is lost while jobs, and the flights they work for, stay
\* as they are, and while a request with a job stays where it is or ends.
LEMMA QuietStep ==
    ASSUME IInv, Types', UNCHANGED <<job, last, mishap>>, live' \subseteq live,
           \A k \in 1..last : /\ flight'[k].st = "pending" <=> flight[k].st = "pending"
                              /\ flight'[k].by = flight[k].by \/ flight[k].st # "pending",
           \A r \in Requests : \/ req'[r].pc = req[r].pc /\ req'[r].rt = req[r].rt
                               \/ req[r].pc = "back" /\ req'[r].pc = "done"
                               \/ req[r].pc \in {"new", "out", "calling"}
                               \/ job[r].stmt = "none"
    PROVE  IInv'
<1> USE DEF IInv
<1>1. FlightsWorked'
  BY DEF FlightsWorked, Types
<1>2. \A r \in Requests : Working(r) => (Listened(r)' <=> Listened(r))
  BY DEF JobsKnown, Listened, Types, FlightTypes
<1>3. JobsKnown'
  BY <1>2 DEF JobsKnown, Working, Statements
<1>4. OneToken'
  BY DEF OneToken, Alive, Revoking, Issuing
<1> QED BY <1>1, <1>3, <1>4

LEMMA RefreshKeeps ==
    ASSUME IInv, NEW r \in Requests, req[r].pc \in {"out", "calling"}, Refresh(r),
           UNCHANGED <<cookies, live, last, history>>
    PROVE  IInv'
<1> DEFINE k == req[r].rt
<1> USE DEF IInv, cookies, history
<1>1. /\ req' = [req EXCEPT ![r].pc = "waiting", ![r].age = 0]
      /\ req[r] \in RequestTypes(last) /\ k \in 1..last
  BY DEF Refresh, Goes, Types
<1>2. ~Working(r) /\ job[r].stmt # "changed"
  BY DEF JobsKnown
<1>3. CASE Shares(k)
  <2>1. UNCHANGED <<flight, job>>
    BY <1>3 DEF Refresh
  <2>2. Types'
    BY <1>1, <2>1 DEF Types, RequestTypes, Pcs
  <2> QED BY <1>1, <1>2, <2>1, <2>2, QuietStep DEF Types, RequestTypes
<1>4. CASE ~Shares(k)
  <2>1. /\ flight' = [flight EXCEPT ![k] = [NoFlight EXCEPT !.st = "pending", !.by = {r}]]
        /\ job' = [job EXCEPT ![r] = [stmt |-> "verify", key |-> k]]
        /\ flight[k].st = "none"
    BY <1>4 DEF Refresh, Shares
  <2> DEFINE f == [NoFlight EXCEPT !.st = "pending", !.by = {r}]
             j == [stmt |-> "verify", key |-> k]
             q == [req[r] EXCEPT !.pc = "waiting", !.age = 0]
  <2>a. f \in FlightTypes(last) /\ f.st = "pending" /\ f.by = {r}
    BY Blanks DEF Types, FlightTypes, NoFlight
  <2>b. j \in JobTypes(last) /\ j.stmt = "verify" /\ j.key = k
    BY <1>1 DEF Types, JobTypes, Statements
  <2>c. q \in RequestTypes(last) /\ q.pc = "waiting" /\ q.rt = k
    BY <1>1 DEF RequestTypes, Pcs
  <2>d. /\ flight' = [flight EXCEPT ![k] = f] /\ job' = [job EXCEPT ![r] = j]
        /\ req' = [req EXCEPT ![r] = q]
    BY <1>1, <2>1 DEF Types
  <2> HIDE DEF f, j, q
  <2>2. Types'
    BY <1>1, <2>a, <2>b, <2>c, <2>d DEF Types
  <2>e. /\ flight'[k] = f /\ job'[r] = j /\ req'[r] = q
        /\ \A l \in 1..last : l # k => flight'[l] = flight[l]
        /\ \A s \in Requests : s # r => job'[s] = job[s] /\ req'[s] = req[s]
        /\ DOMAIN flight = 1..last /\ DOMAIN flight' = 1..last
    BY <1>1, <2>d DEF Types
  <2>3. FlightsWorked'
    <3>1. SUFFICES ASSUME NEW l \in 1..last, flight'[l].st = "pending"
                   PROVE  \E s \in Requests : flight'[l].by = {s} /\ job'[s].key = l /\ job'[s].stmt \in Statements
      BY <2>e DEF FlightsWorked
    <3>2. CASE l = k
      BY <2>a, <2>b, <2>e, <3>2 DEF Statements
    <3>3. CASE l # k
      <4>1. PICK s \in Requests : flight[l].by = {s} /\ job[s].key = l /\ job[s].stmt \in Statements
        BY <2>e, <3>1, <3>3 DEF FlightsWorked
      <4> QED BY <1>2, <2>e, <3>3, <4>1 DEF Working
    <3> QED BY <3>2, <3>3
  <2>4. JobsKnown'
    <3>1. \A s \in Requests : s # r /\ Working(s) => (Listened(s)' <=> Listened(s))
      BY <2>1, <2>a, <2>e DEF JobsKnown, Listened
    <3>2. Listened(r)'
      BY <2>a, <2>b, <2>e DEF Listened
    <3> QED BY <1>1, <1>2, <2>b, <2>c, <2>e, <3>1, <3>2 DEF JobsKnown, Working
  <2>5. OneToken'
    <3>1. \A s \in Requests : (Revoking(s)' <=> Revoking(s)) /\ (Issuing(s)' <=> Issuing(s))
      BY <1>2, <2>b, <2>d DEF Revoking, Issuing, Working, Types, Statements
    <3>2. \A s \in Requests : Revoking(s) => job'[s] = job[s]
      BY <1>2, <2>d DEF Revoking, Working, Types, Statements
    <3> QED BY <3>1, <3>2 DEF OneToken, Alive
  <2> QED BY <2>2, <2>3, <2>4, <2>5
<1> QED BY <1>3, <1>4

-----------------------------------------------------------------------------
(* The browser and the dashboard's server.                                 *)

\* A request that moves keeps its types; so does one that ends.
LEMMA MoveTypes ==
    ASSUME Types, NEW r \in Requests, NEW q \in RequestTypes(last),
           q.pc \notin {"new", "done"} => q.rt \in 1..last,
           req' = [req EXCEPT ![r] = q], last' = last
    PROVE  /\ req' \in [Requests -> RequestTypes(last)]'
           /\ \A s \in Requests : req'[s].pc \notin {"new", "done"} => req'[s].rt \in 1..last'
           /\ req'[r] = q /\ \A s \in Requests : s # r => req'[s] = req[s]
BY DEF Types

LEMMA OverType ==
    ASSUME Types
    PROVE  Over \in RequestTypes(last) /\ Over.pc = "done"
BY Blanks DEF Types, Over, NotSent

LEMMA BrowserKeeps ==
    ASSUME IInv, NEW r \in Requests,
           \/ \E kind \in Kinds : Send(r, kind)
           \/ Receive(r) \/ Lose(r)
    PROVE  IInv'
<1> USE DEF IInv, cookies, backend, history
<1>0. req[r] \in RequestTypes(last)
  BY DEF Types
<1>1. ASSUME NEW kind \in Kinds, Send(r, kind) PROVE IInv'
  <2> DEFINE q == [req[r] EXCEPT !.pc = "out", !.kind = kind, !.at = at, !.rt = rt]
  <2>1. req' = [req EXCEPT ![r] = q] /\ rt # 0 /\ req[r].pc = "new"
    BY <1>1 DEF Send, Types
  <2>a. at \in 0..last /\ rt \in 0..last /\ rt \in 1..last
    BY <2>1 DEF Types
  <2>2. q \in RequestTypes(last) /\ q.rt \in 1..last
    BY <1>0, <2>a DEF RequestTypes, Pcs
  <2> HIDE DEF q
  <2>3. Types'
    BY <1>1, <2>1, <2>2, MoveTypes DEF Send, Types
  <2> QED BY <1>1, <2>1, <2>2, <2>3, MoveTypes, QuietStep DEF Send
<1>2. CASE Receive(r) \/ Lose(r)
  <2>1. /\ req' = [req EXCEPT ![r] = Over] /\ req[r].pc = "back" /\ req[r].rt \in 1..last
        /\ UNCHANGED <<flight, backend, mishap>>
    BY <1>2 DEF Receive, Lose, Ends, Types
  <2>2. at' \in 0..last /\ rt' \in 0..last
    BY <1>0, <1>2 DEF Receive, Lose, Types, RequestTypes
  <2>3. spoiled' \subseteq 1..last
    BY <1>2, <2>1 DEF Receive, Lose, Types
  <2>4. Types'
    BY <2>1, <2>2, <2>3, OverType, MoveTypes DEF Types
  <2> QED BY <2>1, <2>4, OverType, MoveTypes, QuietStep
<1> QED BY <1>1, <1>2

LEMMA ServerKeeps ==
    ASSUME IInv, NEW r \in Requests,
           Arrive(r) \/ Resume(r) \/ PassOn(r) \/ Unauthorized(r) \/ CallFails(r)
    PROVE  IInv'
<1> USE DEF IInv, cookies, backend, history
<1>0. req[r] \in RequestTypes(last)
  BY DEF Types
<1>1. CASE Arrive(r) /\ Goes(r, "calling") /\ UNCHANGED <<flight, job>>
  <2> DEFINE q == [req[r] EXCEPT !.pc = "calling", !.age = 0]
  <2>1. req' = [req EXCEPT ![r] = q] /\ req[r].pc = "out" /\ req[r].rt \in 1..last
    BY <1>1 DEF Arrive, Goes, Types
  <2>2. q \in RequestTypes(last) /\ q.rt \in 1..last
    BY <1>0, <2>1 DEF RequestTypes, Pcs
  <2>3. UNCHANGED <<cookies, flight, backend, history>>
    BY <1>1 DEF Arrive
  <2> HIDE DEF q
  <2>4. Types'
    BY <2>1, <2>2, <2>3, MoveTypes DEF Types
  <2> QED BY <2>1, <2>2, <2>3, <2>4, MoveTypes, QuietStep
<1>2. CASE Resume(r)
  <2> DEFINE pair == flight[req[r].rt].pair
             q == [req[r] EXCEPT !.pc = IF pair = 0 THEN "back" ELSE "calling",
                                 !.sets = IF pair = 0 THEN "clear" ELSE "set", !.got = pair]
  <2>1. /\ req' = [req EXCEPT ![r] = q] /\ req[r].pc = "waiting" /\ req[r].rt \in 1..last
        /\ flight[req[r].rt].st = "settled" /\ UNCHANGED <<cookies, flight, backend, history>>
    BY <1>2 DEF Resume, Types
  <2>2. pair \in 0..last
    BY <2>1 DEF Types, FlightTypes
  <2>3. q \in RequestTypes(last) /\ q.rt \in 1..last
    BY <1>0, <2>1, <2>2 DEF RequestTypes, Pcs
  <2>4. job[r].stmt \notin Statements \cup {"changed"} /\ job[r].stmt = "none"
    BY <2>1 DEF JobsKnown, Working, Listened, Types, JobTypes
  <2> HIDE DEF q
  <2>5. Types'
    BY <2>1, <2>3, MoveTypes DEF Types
  <2> QED BY <2>1, <2>4, <2>5, MoveTypes, <2>3, QuietStep
<1>3. CASE PassOn(r)
  <2> DEFINE q == [req[r] EXCEPT !.pc = "back", !.age = 0]
  <2>1. /\ req' = [req EXCEPT ![r] = q] /\ req[r].pc = "calling" /\ req[r].rt \in 1..last
        /\ UNCHANGED <<cookies, flight, backend, history>>
    BY <1>3 DEF PassOn, Goes, Types
  <2>2. q \in RequestTypes(last) /\ q.rt \in 1..last
    BY <1>0, <2>1 DEF RequestTypes, Pcs
  <2> HIDE DEF q
  <2>3. Types'
    BY <2>1, <2>2, MoveTypes DEF Types
  <2> QED BY <2>1, <2>2, <2>3, MoveTypes, QuietStep
<1>4. CASE CallFails(r)
  <2> DEFINE q == [req[r] EXCEPT !.pc = "back", !.sets = "keep", !.age = 0]
  <2>1. /\ req' = [req EXCEPT ![r] = q] /\ req[r].pc = "calling" /\ req[r].rt \in 1..last
        /\ UNCHANGED <<cookies, flight, backend, mishap>>
    BY <1>4 DEF CallFails, Types
  <2>2. q \in RequestTypes(last) /\ q.rt \in 1..last
    BY <1>0, <2>1 DEF RequestTypes, Pcs
  <2>3. spoiled' \subseteq 1..last
    BY <1>4, <2>1 DEF CallFails, Types
  <2> HIDE DEF q
  <2>4. Types'
    BY <2>1, <2>2, <2>3, MoveTypes DEF Types
  <2> QED BY <2>1, <2>2, <2>4, MoveTypes, QuietStep
<1>5. CASE (Arrive(r) \/ Unauthorized(r)) /\ Refresh(r)
  BY <1>5, RefreshKeeps DEF Arrive, Unauthorized
<1> QED BY <1>1, <1>2, <1>3, <1>4, <1>5 DEF Arrive, Unauthorized

LEMMA TickKeeps ==
    ASSUME IInv, Tick
    PROVE  IInv'
<1> USE DEF IInv, cookies, backend, history
<1>1. \A k \in 1..last :
          /\ flight'[k] \in FlightTypes(last)
          /\ flight'[k].st = "settled" => flight'[k].age < Grace
          /\ flight'[k].st = "pending" <=> flight[k].st = "pending"
          /\ flight'[k].by = flight[k].by \/ flight[k].st # "pending"
  <2> TAKE k \in 1..last
  <2>1. flight'[k] = Older(flight[k]) /\ flight[k] \in FlightTypes(last)
    BY DEF Tick, Types
  <2>2. NoFlight \in FlightTypes(last) /\ NoFlight.st = "none"
    BY Blanks DEF Types, NoFlight
  <2>3. CASE flight[k].st # "settled"
    BY <2>1, <2>3 DEF Older
  <2>4. CASE flight[k].st = "settled" /\ flight[k].age + 1 = Grace
    BY <2>1, <2>2, <2>4 DEF Older
  <2>5. CASE flight[k].st = "settled" /\ flight[k].age + 1 # Grace
    <3>1. flight[k].age \in Nat /\ flight[k].age < Grace /\ flight[k].age + 1 \in 0..Grace
      BY <2>1, <2>5, GraceType DEF Types, FlightTypes
    <3>2. flight'[k] = [flight[k] EXCEPT !.age = @ + 1]
      BY <2>1, <2>5 DEF Older
    <3> QED BY <2>1, <2>5, <3>1, <3>2, GraceType DEF FlightTypes
  <2> QED BY <2>3, <2>4, <2>5
<1>2. \A r \in Requests :
          /\ req'[r] \in RequestTypes(last)
          /\ req'[r].pc = req[r].pc /\ req'[r].rt = req[r].rt
  <2> TAKE r \in Requests
  <2>1. /\ req[r] \in RequestTypes(last)
        /\ req'[r] = req[r] \/ req'[r] = [req[r] EXCEPT !.age = @ + 1]
    BY DEF Tick, Types
  <2>2. CASE req'[r] = req[r]
    BY <2>1, <2>2
  <2>3. CASE req'[r] = [req[r] EXCEPT !.age = @ + 1]
    BY <2>1, <2>3 DEF RequestTypes
  <2> QED BY <2>1, <2>2, <2>3
<1>3. Types'
  BY <1>1, <1>2 DEF Tick, Types
<1> QED BY <1>1, <1>2, <1>3, QuietStep DEF Tick

\* What is left of a cut-off refresh is its job at the backend, which nobody hears of.
LEMMA FlightFailsKeeps ==
    ASSUME IInv, NEW r \in Requests, FlightFails(r)
    PROVE  IInv'
<1> DEFINE k == job[r].key
<1> USE DEF IInv, cookies
<1>1. /\ Working(r) /\ Listened(r) /\ k \in 1..last /\ mishap' = TRUE
      /\ flight' = [flight EXCEPT ![k] = NoFlight] /\ UNCHANGED <<cookies, live, last>>
      /\ spoiled' \subseteq 1..last
  BY DEF FlightFails, Working, Listened, JobsKnown, Types
<1>2. \A s \in Requests :
          IF req[s].pc = "waiting" /\ req[s].rt = k
          THEN req'[s] = [req[s] EXCEPT !.pc = "back", !.sets = "keep"]
          ELSE req'[s] = req[s]
  BY DEF FlightFails, Types
<1>3. \A s \in Requests :
          /\ req'[s] \in RequestTypes(last) /\ req'[s].rt = req[s].rt
          /\ IF req[s].pc = "waiting" /\ req[s].rt = k
             THEN req'[s].pc = "back" ELSE req'[s].pc = req[s].pc
  <2> TAKE s \in Requests
  <2>1. req[s] \in RequestTypes(last)
    BY DEF Types
  <2>2. CASE req[s].pc = "waiting" /\ req[s].rt = k
    <3>1. req'[s] = [req[s] EXCEPT !.pc = "back", !.sets = "keep"]
      BY <1>2, <2>2
    <3> QED BY <2>1, <2>2, <3>1 DEF RequestTypes, Pcs
  <2>3. CASE ~(req[s].pc = "waiting" /\ req[s].rt = k)
    <3>1. req'[s] = req[s]
      BY <1>2, <2>3
    <3> QED BY <2>1, <2>3, <3>1
  <2> QED BY <2>2, <2>3
<1>4. /\ job' \in [Requests -> JobTypes(last)]
      /\ \A s \in Requests : s # r => job'[s] = job[s]
      /\ job'[r] = job[r] \/ job'[r].stmt = "none"
  <2>1. NoJob \in JobTypes(last) /\ NoJob.stmt = "none"
    BY Blanks DEF Types, NoJob
  <2>2. job' = [job EXCEPT ![r] = NoJob] \/ job' = job
    BY DEF FlightFails
  <2> QED BY <2>1, <2>2 DEF Types
<1>5. /\ flight' \in [1..last -> FlightTypes(last)] /\ flight'[k].st = "none"
      /\ \A l \in 1..last : l # k => flight'[l] = flight[l]
  BY <1>1, Blanks DEF Types, NoFlight
<1>6. Types'
  <2>1. req' \in [Requests -> RequestTypes(last)]
    BY <1>3 DEF FlightFails
  <2> QED BY <1>1, <1>3, <1>4, <1>5, <2>1 DEF Types
<1>7. FlightsWorked'
  <2>1. SUFFICES ASSUME NEW l \in 1..last, flight'[l].st = "pending"
                 PROVE  \E s \in Requests : flight'[l].by = {s} /\ job'[s].key = l /\ job'[s].stmt \in Statements
    BY <1>1, <1>5 DEF FlightsWorked
  <2>2. PICK s \in Requests : flight[l].by = {s} /\ job[s].key = l /\ job[s].stmt \in Statements
    BY <1>5, <2>1 DEF FlightsWorked, Types
  <2> QED BY <1>4, <1>5, <2>1, <2>2
<1>8. JobsKnown'
  <2>1. SUFFICES ASSUME NEW s \in Requests
                 PROVE  /\ Working(s)' =>
                            /\ job'[s].key \in 1..last
                            /\ \/ req'[s].pc = "waiting" /\ req'[s].rt = job'[s].key /\ Listened(s)'
                               \/ req'[s].pc \in {"back", "done"} /\ ~Listened(s)'
                        /\ job'[s].stmt = "changed" => req'[s].pc \in {"changing", "done"}
    BY <1>1 DEF JobsKnown
  <2>2. CASE s = r
    BY <1>1, <1>3, <1>4, <1>5, <2>2 DEF JobsKnown, Working, Listened, Statements
  <2>3. CASE s # r
    <3>1. job'[s] = job[s]
      BY <1>4, <2>3
    <3>2. Working(s) => (Listened(s)' <=> (Listened(s) /\ job[s].key # k))
      BY <1>5, <3>1 DEF Listened, JobsKnown
    <3>3. Working(s) /\ Listened(s) => job[s].key # k
      BY <1>1, <2>3 DEF Listened
    <3> QED BY <1>1, <1>3, <3>1, <3>2, <3>3 DEF JobsKnown, Working
  <2> QED BY <2>2, <2>3
<1> QED BY <1>1, <1>6, <1>7, <1>8 DEF OneToken

LEMMA RestartKeeps ==
    ASSUME IInv, Restart
    PROVE  IInv'
<1> USE DEF IInv, cookies, backend
<1>1. /\ mishap' = TRUE /\ UNCHANGED <<cookies, backend>> /\ spoiled' \subseteq 1..last
  BY DEF Restart, Types
<1>2. /\ flight' \in [1..last -> FlightTypes(last)]
      /\ \A k \in 1..last : flight'[k].st = "none"
  BY Blanks DEF Restart, Types, NoFlight
<1>3. \A r \in Requests :
          /\ req'[r] \in RequestTypes(last)
          /\ \/ req'[r] = req[r] /\ req[r].pc \notin {"waiting", "calling", "changing"}
             \/ req'[r].pc = "done"
  BY OverType DEF Restart, Types
<1>4. Types'
  BY <1>1, <1>2, <1>3 DEF Restart, Types
<1>5. FlightsWorked'
  BY <1>1, <1>2 DEF FlightsWorked
<1>6. \A r \in Requests : Working(r)' => ~Listened(r)'
  BY <1>1, <1>2 DEF JobsKnown, Working, Listened
<1>7. JobsKnown'
  BY <1>1, <1>3, <1>6 DEF JobsKnown, Working
<1> QED BY <1>1, <1>4, <1>5, <1>7 DEF OneToken

-----------------------------------------------------------------------------
(* The backend.                                                            *)

\* A job that was cut off has left its flight alone; any other is the flight's own.
\* A refresh that goes on to its next statement.
LEMMA SameJob ==
    ASSUME IInv, NEW r \in Requests, Working(r), NEW j \in JobTypes(last),
           j.stmt \in Statements, j.key = job[r].key,
           job' = [job EXCEPT ![r] = j], UNCHANGED <<flight, req, last, mishap>>
    PROVE  /\ job' \in [Requests -> JobTypes(last)]
           /\ job'[r] = j /\ \A s \in Requests : s # r => job'[s] = job[s]
           /\ FlightsWorked' /\ JobsKnown'
<1> USE DEF IInv
<1>1. /\ job' \in [Requests -> JobTypes(last)]
      /\ job'[r] = j /\ \A s \in Requests : s # r => job'[s] = job[s]
  BY DEF Types
<1>2. \A s \in Requests : /\ job'[s].stmt \in Statements <=> job[s].stmt \in Statements
                           /\ job'[s].key = job[s].key
  BY <1>1 DEF Working
<1>3. FlightsWorked'
  BY <1>2 DEF FlightsWorked
<1>4. \A s \in Requests : job'[s].stmt = "changed" => job[s].stmt = "changed"
  BY <1>1 DEF Statements
<1>5. JobsKnown'
  BY <1>2, <1>4 DEF JobsKnown, Working, Listened
<1> QED BY <1>1, <1>3, <1>5

\* A job that was cut off has left its flight alone; any other is the flight's own.
LEMMA VerifyKeeps ==
    ASSUME IInv, NEW r \in Requests, Verify(r)
    PROVE  IInv'
<1> DEFINE k == job[r].key
<1> USE DEF IInv, cookies, history
<1>1. /\ Working(r) /\ k \in 1..last /\ job[r] \in JobTypes(last) /\ job[r].stmt = "verify"
      /\ UNCHANGED <<cookies, req, live, last, history>>
  BY DEF Verify, Working, Statements, JobsKnown, Types
<1>2. CASE k \in live
  <2> DEFINE j == [job[r] EXCEPT !.stmt = "revoke"]
  <2>1. job' = [job EXCEPT ![r] = j] /\ UNCHANGED flight
    BY <1>1, <1>2 DEF Verify, Types
  <2>2. j \in JobTypes(last) /\ j.stmt = "revoke" /\ j.key = k
    BY <1>1 DEF JobTypes, Statements
  <2> HIDE DEF j
  <2>3. /\ job' \in [Requests -> JobTypes(last)]
        /\ job'[r] = j /\ \A s \in Requests : s # r => job'[s] = job[s]
        /\ FlightsWorked' /\ JobsKnown'
    BY <1>1, <2>1, <2>2, SameJob DEF Statements
  <2>4. Types'
    BY <1>1, <2>1, <2>3 DEF Types
  <2>5. \A l \in 1..last : Alive(l)' <=> Alive(l)
    BY <1>1, <1>2, <2>2, <2>3 DEF Alive, Revoking
  <2>6. \A s \in Requests : Issuing(s)' <=> Issuing(s)
    BY <1>1, <2>2, <2>3 DEF Issuing
  <2>7. OneToken'
    BY <1>1, <2>5, <2>6 DEF OneToken
  <2> QED BY <2>3, <2>4, <2>7
<1>3. CASE k \notin live
  <2> DEFINE f == [NoFlight EXCEPT !.st = "settled", !.pair = 0]
  <2>1. /\ job' = [job EXCEPT ![r] = NoJob]
        /\ flight' = IF Listened(r) THEN [flight EXCEPT ![k] = f] ELSE flight
    BY <1>1, <1>3 DEF Verify, Settles, Listened
  <2>2. NoJob \in JobTypes(last) /\ NoJob.stmt = "none"
    BY Blanks DEF Types, NoJob
  <2>3. f \in FlightTypes(last) /\ f.st = "settled" /\ f.age < Grace
    <3>1. NoFlight \in FlightTypes(last) /\ NoFlight.age = 0 /\ 0 \in 0..last
      BY Blanks DEF Types, NoFlight
    <3>2. f \in FlightTypes(last) /\ f.st = "settled" /\ f.age = 0
      BY <3>1 DEF FlightTypes
    <3> QED BY <3>2, GraceType
  <2> HIDE DEF f
  <2>4. job'[r] = NoJob /\ \A s \in Requests : s # r => job'[s] = job[s]
    BY <2>1 DEF Types
  <2>5. /\ flight' \in [1..last -> FlightTypes(last)]
        /\ flight'[k] = (IF Listened(r) THEN f ELSE flight[k])
        /\ \A l \in 1..last : l # k => flight'[l] = flight[l]
    BY <1>1, <2>1, <2>3 DEF Types
  <2>6. Types'
    BY <1>1, <2>1, <2>2, <2>3, <2>5 DEF Types
  <2>7. FlightsWorked'
    <3>1. SUFFICES ASSUME NEW l \in 1..last, flight'[l].st = "pending"
                   PROVE  \E s \in Requests : flight'[l].by = {s} /\ job'[s].key = l /\ job'[s].stmt \in Statements
      BY <1>1, <2>5 DEF FlightsWorked
    <3>2. flight'[l] = flight[l] /\ (l = k => ~Listened(r))
      BY <2>3, <2>5, <3>1
    <3>3. PICK s \in Requests : flight[l].by = {s} /\ job[s].key = l /\ job[s].stmt \in Statements
      BY <3>1, <3>2 DEF FlightsWorked, Types
    <3>4. s # r
      BY <3>1, <3>2, <3>3 DEF Listened
    <3> QED BY <2>4, <3>2, <3>3, <3>4
  <2>8. \A s \in Requests : s # r /\ Working(s) => (Listened(s)' <=> Listened(s))
    BY <2>3, <2>4, <2>5 DEF JobsKnown, Listened
  <2>9. JobsKnown'
    BY <1>1, <2>2, <2>4, <2>8 DEF JobsKnown, Working, Statements
  <2>10. \A l \in 1..last : Alive(l)' <=> Alive(l)
    BY <1>1, <2>2, <2>4 DEF Alive, Revoking
  <2>11. OneToken'
    BY <1>1, <2>2, <2>4, <2>10 DEF OneToken, Issuing
  <2> QED BY <2>6, <2>7, <2>9, <2>11
<1> QED BY <1>2, <1>3

LEMMA RevokeKeeps ==
    ASSUME IInv, NEW r \in Requests, Revoke(r)
    PROVE  IInv'
<1> DEFINE k == job[r].key
           j == [job[r] EXCEPT !.stmt = "issue"]
<1> USE DEF IInv, cookies, history
<1>1. /\ Working(r) /\ Revoking(r) /\ k \in 1..last /\ job[r] \in JobTypes(last)
      /\ UNCHANGED <<cookies, req, flight, last, history>> /\ live' = live \ {k}
      /\ job' = [job EXCEPT ![r] = j]
  BY DEF Revoke, Working, Revoking, Statements, JobsKnown, Types
<1>2. j \in JobTypes(last) /\ j.stmt = "issue" /\ j.key = k
  BY <1>1 DEF JobTypes, Statements
<1> HIDE DEF j
<1>3. /\ job' \in [Requests -> JobTypes(last)]
      /\ job'[r] = j /\ \A s \in Requests : s # r => job'[s] = job[s]
      /\ FlightsWorked' /\ JobsKnown'
  BY <1>1, <1>2, SameJob DEF Statements
<1>4. Types'
  BY <1>1, <1>3 DEF Types
<1>8. ASSUME ~mishap
      PROVE  /\ \A l \in 1..last : ~Alive(l)'
             /\ \A s \in Requests : Issuing(s)' => s = r
  <2>1. Alive(k) /\ \A l \in 1..last : Alive(l) => l = k
    BY <1>1, <1>8 DEF OneToken, Alive
  <2>2. \A s \in Requests : Revoking(s) => s = r
    <3>1. SUFFICES ASSUME NEW s \in Requests, Revoking(s) PROVE s = r
      OBVIOUS
    <3>2. Working(s) /\ job[s].key \in 1..last
      BY <3>1 DEF Working, Revoking, Statements, JobsKnown
    <3>3. job[s].key = k
      BY <2>1, <3>1, <3>2 DEF Alive
    <3>4. flight[k].by = {s} /\ flight[k].by = {r}
      BY <1>1, <1>8, <3>2, <3>3 DEF JobsKnown, Listened
    <3> QED BY <3>4
  <2>3. \A s \in Requests : ~Issuing(s)
    BY <1>1, <1>8, <2>1 DEF OneToken
  <2>4. \A s \in Requests : ~Revoking(s)'
    BY <1>2, <1>3, <2>2 DEF Revoking
  <2>5. live' = {}
    BY <1>1, <2>1 DEF Alive, Types
  <2> QED BY <1>3, <2>3, <2>4, <2>5 DEF Alive, Issuing
<1>9. OneToken'
  BY <1>1, <1>8 DEF OneToken
<1> QED BY <1>3, <1>4, <1>9

\* Whoever issues holds the only claim to a token, so that what is issued is the only one.
LEMMA IssueLeavesOne ==
    ASSUME IInv, NEW r \in Requests, Issuing(r), Issues, mishap' = mishap,
           job' = [job EXCEPT ![r] = NoJob]
    PROVE  /\ OneToken' /\ job' \in [Requests -> JobTypes(last')]
           /\ job'[r].stmt = "none" /\ \A s \in Requests : s # r => job'[s] = job[s]
<1> USE DEF IInv
<1>1. NoJob \in JobTypes(last + 1) /\ NoJob.stmt = "none" /\ last' = last + 1
  BY Blanks DEF Types, NoJob, Issues
<1>2. /\ job' \in [Requests -> JobTypes(last')]
      /\ job'[r].stmt = "none" /\ \A s \in Requests : s # r => job'[s] = job[s]
  BY <1>1, Grows DEF Types
<1>3. ASSUME ~mishap
      PROVE  /\ \A l \in 1..last' : Alive(l)' => l = last + 1
             /\ \A s \in Requests : ~Issuing(s)'
  <2>1. /\ \A l \in 1..last : ~Alive(l)
        /\ \A s \in Requests : Issuing(s) => s = r
    BY <1>3 DEF OneToken
  <2>2. \A s \in Requests : ~Revoking(s)
    <3>1. SUFFICES ASSUME NEW s \in Requests, Revoking(s) PROVE FALSE
      OBVIOUS
    <3>2. job[s].key \in 1..last
      BY <3>1 DEF Revoking, JobsKnown, Working, Statements
    <3> QED BY <2>1, <3>1, <3>2 DEF Alive
  <2>3. live = {}
    BY <2>1 DEF Alive, Types
  <2>4. \A s \in Requests : ~Revoking(s)' /\ ~Issuing(s)'
    BY <1>2, <2>1, <2>2 DEF Revoking, Issuing
  <2> QED BY <2>3, <2>4 DEF Alive, Issues
<1>4. OneToken'
  BY <1>3 DEF OneToken
<1> QED BY <1>2, <1>4

\* The flights, with room for the pair that is issued.
LEMMA FlightsGrow ==
    ASSUME Types, last' = last + 1
    PROVE  /\ Flights(last + 1) \in [1..last' -> FlightTypes(last')]
           /\ \A l \in 1..last : Flights(last + 1)[l] = flight[l]
           /\ Flights(last + 1)[last + 1].st = "none"
           /\ 1..last' = 1..last \cup {last + 1} /\ last + 1 \notin 1..last
<1>1. last \in Nat \ {0}
  BY DEF Types
<1>2. 1..last' = 1..last \cup {last + 1} /\ last + 1 \notin 1..last
  BY <1>1
<1>3. NoFlight \in FlightTypes(last + 1) /\ NoFlight.st = "none"
  BY <1>1, Blanks DEF NoFlight
<1>4. \A l \in 1..last : flight[l] \in FlightTypes(last + 1)
  BY <1>1, Grows DEF Types
<1>5. \A l \in 1..(last + 1) : (l <= last) <=> (l \in 1..last)
  BY <1>1
<1> QED BY <1>1, <1>2, <1>3, <1>4, <1>5 DEF Flights

LEMMA IssueKeeps ==
    ASSUME IInv, NEW r \in Requests, Issue(r)
    PROVE  IInv'
<1> DEFINE k == job[r].key
           f == [NoFlight EXCEPT !.st = "settled", !.pair = last + 1]
           wide == Flights(last + 1)
<1> USE DEF IInv, cookies, history
<1>1. /\ Working(r) /\ Issuing(r) /\ k \in 1..last
      /\ UNCHANGED <<cookies, req, history>> /\ job' = [job EXCEPT ![r] = NoJob] /\ Issues
      /\ last' = last + 1 /\ live' = live \cup {last + 1}
  BY DEF Issue, Issues, Working, Issuing, Statements, JobsKnown
<1>2. /\ OneToken' /\ job' \in [Requests -> JobTypes(last')]
      /\ job'[r].stmt = "none" /\ \A s \in Requests : s # r => job'[s] = job[s]
  BY <1>1, IssueLeavesOne
<1>3. /\ wide \in [1..last' -> FlightTypes(last')] /\ wide[last + 1].st = "none"
      /\ \A l \in 1..last : wide[l] = flight[l]
      /\ 1..last' = 1..last \cup {last + 1} /\ last + 1 \notin 1..last
  BY <1>1, FlightsGrow
<1>4. flight' = IF Listened(r) THEN [wide EXCEPT ![k] = f] ELSE wide
  BY <1>1 DEF Issue, Settles, Listened
<1>5. f \in FlightTypes(last') /\ f.st = "settled" /\ f.age = 0
  <2>1. last + 1 \in Nat /\ last + 1 \in 0..(last + 1)
    BY DEF Types
  <2>2. NoFlight \in FlightTypes(last + 1) /\ NoFlight.age = 0
    BY <2>1, Blanks DEF NoFlight
  <2> QED BY <1>1, <2>1, <2>2 DEF FlightTypes
<1> HIDE DEF f, wide
<1>6. /\ flight' \in [1..last' -> FlightTypes(last')]
      /\ flight'[last + 1].st = "none"
      /\ flight'[k] = (IF Listened(r) THEN f ELSE flight[k])
      /\ \A l \in 1..last : l # k => flight'[l] = flight[l]
  BY <1>1, <1>3, <1>4, <1>5
<1>7. Types'
  <2>1. /\ last' \in Nat \ {0} /\ at' \in 0..last' /\ rt' \in 0..last' /\ mishap' \in BOOLEAN
        /\ live' \subseteq 1..last' /\ spoiled' \subseteq 1..last'
    BY <1>1, <1>3 DEF Types
  <2>2. req' \in [Requests -> RequestTypes(last')]
    BY <1>1, Grows DEF Types
  <2>3. \A s \in Requests : req'[s].pc \notin {"new", "done"} => req'[s].rt \in 1..last'
    BY <1>1, <1>3 DEF Types
  <2>4. \A l \in 1..last' : flight'[l].st = "settled" => flight'[l].age < Grace
    BY <1>3, <1>5, <1>6, GraceType DEF Types
  <2> QED BY <1>2, <1>6, <2>1, <2>2, <2>3, <2>4 DEF Types
<1>8. FlightsWorked'
  <2>1. SUFFICES ASSUME NEW l \in 1..last', flight'[l].st = "pending"
                 PROVE  \E s \in Requests : flight'[l].by = {s} /\ job'[s].key = l /\ job'[s].stmt \in Statements
    BY <1>6 DEF FlightsWorked
  <2>2. l \in 1..last /\ flight'[l] = flight[l] /\ (l = k => ~Listened(r))
    BY <1>3, <1>5, <1>6, <2>1
  <2>3. PICK s \in Requests : flight[l].by = {s} /\ job[s].key = l /\ job[s].stmt \in Statements
    BY <2>1, <2>2 DEF FlightsWorked, Types
  <2>4. s # r
    BY <2>1, <2>2, <2>3 DEF Listened
  <2> QED BY <1>2, <2>2, <2>3, <2>4
<1>9. \A s \in Requests : s # r /\ Working(s) => (Listened(s)' <=> Listened(s))
  BY <1>2, <1>5, <1>6 DEF JobsKnown, Listened
<1>10. JobsKnown'
  <2>1. \A s \in Requests : Working(s)' => s # r /\ Working(s) /\ job'[s] = job[s]
    BY <1>2 DEF Working, Statements
  <2> QED BY <1>1, <1>2, <1>3, <1>9, <2>1 DEF JobsKnown
<1> QED BY <1>2, <1>7, <1>8, <1>10

\* With every token revoked, only one that is being issued can be good, and then the
\* revocation has crossed it.
LEMMA RevokeAllKeeps ==
    ASSUME IInv, SignedOutElsewhere
    PROVE  IInv'
<1> USE DEF IInv, cookies
<1>1. /\ live' = {} /\ spoiled' = 1..last /\ UNCHANGED <<cookies, req, flight, job, last>>
      /\ mishap' = (mishap \/ \E r \in Requests : job[r].stmt \in {"revoke", "issue", "changed"})
  BY DEF SignedOutElsewhere, RevokeAll
<1>2. mishap' \in BOOLEAN
  BY <1>1 DEF Types
<1>3. Types'
  BY <1>1, <1>2 DEF Types
<1>4. FlightsWorked'
  BY <1>1 DEF FlightsWorked
<1>5. JobsKnown'
  BY <1>1 DEF JobsKnown, Working, Listened
<1>6. OneToken'
  BY <1>1 DEF OneToken, Alive, Revoking, Issuing
<1> QED BY <1>3, <1>4, <1>5, <1>6

LEMMA ChangePasswordKeeps ==
    ASSUME IInv, NEW r \in Requests, ChangePassword(r)
    PROVE  IInv'
<1> DEFINE q == [req[r] EXCEPT !.pc = "changing", !.age = 0]
           j == [job[r] EXCEPT !.stmt = "changed"]
<1> USE DEF IInv, cookies
<1>1. /\ req[r].pc = "calling" /\ req[r].rt \in 1..last
      /\ req' = [req EXCEPT ![r] = q] /\ job' = [job EXCEPT ![r] = j]
      /\ live' = {} /\ spoiled' = 1..last /\ UNCHANGED <<cookies, flight, last>>
      /\ mishap' = (mishap \/ \E s \in Requests : job[s].stmt \in {"revoke", "issue", "changed"})
  BY DEF ChangePassword, RevokeAll, Goes, Types
<1>2. q \in RequestTypes(last) /\ q.pc = "changing" /\ q.rt \in 1..last
  <2>1. req[r] \in RequestTypes(last)
    BY DEF Types
  <2> QED BY <1>1, <2>1 DEF RequestTypes, Pcs
<1>3. j \in JobTypes(last) /\ j.stmt = "changed"
  BY DEF Types, JobTypes
<1> HIDE DEF q, j
<1>4. /\ job' \in [Requests -> JobTypes(last)]
      /\ job'[r] = j /\ \A s \in Requests : s # r => job'[s] = job[s]
  BY <1>1, <1>3 DEF Types
<1>5. /\ req' \in [Requests -> RequestTypes(last)]' /\ req'[r] = q
      /\ \A s \in Requests : req'[s].pc \notin {"new", "done"} => req'[s].rt \in 1..last'
      /\ \A s \in Requests : s # r => req'[s] = req[s]
  BY <1>1, <1>2, MoveTypes
<1>6. mishap' \in BOOLEAN
  BY <1>1 DEF Types
<1>7. Types'
  BY <1>1, <1>4, <1>5, <1>6 DEF Types
<1>8. ~Working(r)
  BY <1>1 DEF JobsKnown
<1>9. FlightsWorked'
  BY <1>1, <1>4, <1>8 DEF FlightsWorked, Working
<1>10. \A s \in Requests : Working(s)' => s # r /\ Working(s) /\ (Listened(s)' <=> Listened(s))
  BY <1>1, <1>3, <1>4 DEF Working, Listened, Statements
<1>11. JobsKnown'
  BY <1>1, <1>2, <1>4, <1>5, <1>10 DEF JobsKnown
<1>12. OneToken'
  BY <1>1, <1>3, <1>4 DEF OneToken, Alive, Revoking, Issuing
<1> QED BY <1>7, <1>9, <1>11, <1>12

LEMMA IssueChangedKeeps ==
    ASSUME IInv, NEW r \in Requests, IssueChanged(r)
    PROVE  IInv'
<1> DEFINE q == [req[r] EXCEPT !.pc = "back", !.sets = "set", !.got = last + 1]
<1> USE DEF IInv, cookies, history
<1>1. /\ Issuing(r) /\ ~Working(r) /\ UNCHANGED <<cookies, history>>
      /\ job' = [job EXCEPT ![r] = NoJob] /\ Issues /\ flight' = Flights(last + 1)
      /\ last' = last + 1 /\ live' = live \cup {last + 1}
      /\ req' = IF req[r].pc = "changing" THEN [req EXCEPT ![r] = q] ELSE req
  BY DEF IssueChanged, Issues, Issuing, Working, Statements, Types
<1>2. /\ OneToken' /\ job' \in [Requests -> JobTypes(last')]
      /\ job'[r].stmt = "none" /\ \A s \in Requests : s # r => job'[s] = job[s]
  BY <1>1, IssueLeavesOne
<1>3. /\ flight' \in [1..last' -> FlightTypes(last')] /\ flight'[last + 1].st = "none"
      /\ \A l \in 1..last : flight'[l] = flight[l]
      /\ 1..last' = 1..last \cup {last + 1} /\ last + 1 \notin 1..last
  BY <1>1, FlightsGrow
<1>4. /\ req \in [Requests -> RequestTypes(last')] /\ last + 1 \in 0..last'
      /\ 0..last \subseteq 0..last'
  BY <1>1, Grows DEF Types
<1>5. q \in RequestTypes(last') /\ q.pc = "back" /\ q.rt = req[r].rt
  <2>1. req[r] \in RequestTypes(last')
    BY <1>4
  <2> QED BY <1>4, <2>1 DEF RequestTypes, Pcs
<1> HIDE DEF q
<1>6. /\ req' \in [Requests -> RequestTypes(last')]
      /\ req'[r] = (IF req[r].pc = "changing" THEN q ELSE req[r])
      /\ \A s \in Requests : s # r => req'[s] = req[s]
  BY <1>1, <1>4, <1>5
<1>7. Types'
  <2>1. /\ last' \in Nat \ {0} /\ at' \in 0..last' /\ rt' \in 0..last' /\ mishap' \in BOOLEAN
        /\ live' \subseteq 1..last' /\ spoiled' \subseteq 1..last'
    BY <1>1, <1>3 DEF Types
  <2>2. \A s \in Requests : req'[s].pc \notin {"new", "done"} => req'[s].rt \in 1..last'
    BY <1>3, <1>5, <1>6 DEF Types
  <2>3. \A l \in 1..last' : flight'[l].st = "settled" => flight'[l].age < Grace
    BY <1>3 DEF Types
  <2> QED BY <1>2, <1>3, <1>6, <2>1, <2>2, <2>3 DEF Types
<1>8. FlightsWorked'
  <2>1. SUFFICES ASSUME NEW l \in 1..last', flight'[l].st = "pending"
                 PROVE  \E s \in Requests : flight'[l].by = {s} /\ job'[s].key = l /\ job'[s].stmt \in Statements
    BY <1>3 DEF FlightsWorked
  <2>2. l \in 1..last /\ flight'[l] = flight[l]
    BY <1>3, <2>1
  <2>3. PICK s \in Requests : flight[l].by = {s} /\ job[s].key = l /\ job[s].stmt \in Statements
    BY <2>1, <2>2 DEF FlightsWorked, Types
  <2> QED BY <1>1, <1>2, <2>2, <2>3 DEF Working
<1>9. \A s \in Requests : Working(s)' => s # r /\ Working(s) /\ (Listened(s)' <=> Listened(s))
  BY <1>2, <1>3 DEF JobsKnown, Working, Listened, Statements
<1>10. JobsKnown'
  BY <1>1, <1>2, <1>3, <1>6, <1>9 DEF JobsKnown
<1> QED BY <1>2, <1>7, <1>8, <1>10

LEMMA LogOutKeeps ==
    ASSUME IInv, NEW r \in Requests, LogOut(r)
    PROVE  IInv'
<1> DEFINE q == [req[r] EXCEPT !.pc = "back", !.sets = "clear", !.age = 0]
<1> USE DEF IInv, cookies
<1>1. /\ req[r].pc = "calling" /\ req[r].rt \in 1..last /\ req' = [req EXCEPT ![r] = q]
      /\ live' \subseteq live /\ UNCHANGED <<cookies, flight, job, last, mishap>>
  BY DEF LogOut, Types
<1>2. q \in RequestTypes(last) /\ q.rt \in 1..last
  <2>1. req[r] \in RequestTypes(last)
    BY DEF Types
  <2> QED BY <1>1, <2>1 DEF RequestTypes, Pcs
<1> HIDE DEF q
<1>3. spoiled' \subseteq 1..last
  BY <1>1 DEF LogOut, Types
<1>4. Types'
  BY <1>1, <1>2, <1>3, MoveTypes DEF Types
<1> QED BY <1>1, <1>2, <1>4, MoveTypes, QuietStep

-----------------------------------------------------------------------------
(* The invariant and what follows from it.                                 *)

LEMMA StepIInv == IInv /\ [Next]_vars => IInv'
<1> SUFFICES ASSUME IInv, [Next]_vars PROVE IInv'
  OBVIOUS
<1> USE DEF IInv
<1>1. ASSUME NEW r \in Requests,
             \/ \E kind \in Kinds : Send(r, kind)
             \/ Receive(r) \/ Lose(r)
      PROVE  IInv'
  BY <1>1, BrowserKeeps
<1>2. ASSUME NEW r \in Requests, Arrive(r) \/ Resume(r) \/ PassOn(r) \/ Unauthorized(r) \/ CallFails(r)
      PROVE  IInv'
  BY <1>2, ServerKeeps
<1>3. ASSUME NEW r \in Requests, FlightFails(r) PROVE IInv'
  BY <1>3, FlightFailsKeeps
<1>4. ASSUME NEW r \in Requests, Verify(r) \/ Revoke(r) \/ Issue(r) PROVE IInv'
  BY <1>4, VerifyKeeps, RevokeKeeps, IssueKeeps
<1>5. ASSUME NEW r \in Requests, ChangePassword(r) \/ IssueChanged(r) \/ LogOut(r) PROVE IInv'
  BY <1>5, ChangePasswordKeeps, IssueChangedKeeps, LogOutKeeps
<1>6. CASE AccessExpires
  <2>1. at' = 0 /\ UNCHANGED <<rt, req, flight, job, live, last, spoiled, mishap>>
    BY <1>6 DEF AccessExpires, backend, history
  <2>2. Types'
    BY <2>1 DEF Types
  <2> QED BY <2>1, <2>2, QuietStep
<1>7. CASE Restart
  BY <1>7, RestartKeeps
<1>8. CASE SignedOutElsewhere
  BY <1>8, RevokeAllKeeps
<1>9. CASE Tick
  BY <1>9, TickKeeps
<1>10. CASE UNCHANGED vars
  <2>1. UNCHANGED <<at, rt, req, flight, job, live, last, spoiled, mishap>>
    BY <1>10 DEF vars, cookies, backend, history
  <2>2. Types'
    BY <2>1 DEF Types
  <2> QED BY <2>1, <2>2, QuietStep
<1> QED BY <1>1, <1>2, <1>3, <1>4, <1>5, <1>6, <1>7, <1>8, <1>9, <1>10 DEF Next

LEMMA IInvHolds == Spec => []IInv
<1> QED BY InitIInv, StepIInv, PTL DEF Spec

\* The cookies, the requests, the flights and the backend's jobs keep their types, and no
\* request waits for a refresh that nobody is working on.
THEOREM TypeCorrect == Spec => []TypeOK
<1>1. IInv => TypeOK
  BY DEF IInv, Types, TypeOK, RequestTypes, FlightTypes, JobTypes, Pcs
<1> QED BY <1>1, IInvHolds, PTL

\* The session never forks: as long as no refresh is cut off or crosses a revocation of
\* everything, at most one refresh token is good (tokens.js:46, session.ts:85).
THEOREM SessionNeverForks == Spec => []OneSession
<1>1. IInv => OneSession
  <2> SUFFICES ASSUME IInv, ~mishap PROVE Cardinality(live) <= 1
    BY DEF OneSession
  <2>1. \A k, l \in live : k = l
    BY DEF IInv, Types, OneToken, Alive
  <2>2. CASE live = {}
    BY <2>2, FS_EmptySet
  <2>3. CASE live # {}
    <3>1. PICK k \in live : TRUE
      BY <2>3
    <3>2. live = {k}
      BY <2>1, <3>1
    <3> QED BY <3>2, FS_Singleton
  <2> QED BY <2>2, <2>3
<1> QED BY <1>1, IInvHolds, PTL

-----------------------------------------------------------------------------
(* Sharing.  The requests that carry the refresh token of the cookie find  *)
(* it good, or its refresh still remembered.                               *)

Unspoiled(k) == k \notin spoiled \cup {0}
Usable(k) == k \in live \/ flight[k].st # "none"

Leg(pc) == IF pc = "calling" THEN CallTime ELSE IF pc \in {"out", "back"} THEN Transit ELSE 0

InTime(r) == req[r].age <= Leg(req[r].pc)

\* What an answer does to the cookies. Nobody logs out by a refresh.
AnswerSound(r) ==
    /\ req[r].sets = "set" => req[r].got # 0
    /\ req[r].sets = "clear" =>
           req[r].pc = "back" /\ (req[r].kind = "logout" \/ req[r].rt \in spoiled)
    /\ req[r].pc = "waiting" => req[r].kind # "logout"

\* Two tokens travel together until the access token has expired.
PairHeld(a, k) == a \in {0, k} /\ (a = 0 /\ k # 0 => MayExpire(k))

MayRefresh(r) ==
    req[r].pc = "out" \/ (req[r].pc = "calling" /\ req[r].age = 0 /\ req[r].got = 0)

\* A request left when the cookie's own answer was still to come, so that it is not
\* later than one answer and one way after the refresh.
TokenUsable(r) ==
    MayRefresh(r) /\ Unspoiled(req[r].rt) =>
        /\ Usable(req[r].rt)
        /\ flight[req[r].rt].st = "settled" =>
               flight[req[r].rt].age <=
                   CallTime + Transit + IF req[r].pc = "out" THEN req[r].age ELSE Transit

RequestSound(r) ==
    InTime(r) /\ AnswerSound(r) /\ PairHeld(req[r].at, req[r].rt) /\ TokenUsable(r)

\* Request s brings the pair that the refresh of k has got, or is about to.
Brings(s, k) ==
    /\ req[s].rt = k /\ req[s].kind # "logout"
    /\ \/ req[s].pc = "waiting" /\ flight[k].age = 0
       \/ /\ req[s].pc \in {"calling", "back"}
          /\ req[s].sets = "set" /\ req[s].got = flight[k].pair
          /\ flight[k].age <= req[s].age + IF req[s].pc = "back" THEN CallTime ELSE 0

AnswerUnderWay ==
    Unspoiled(rt) /\ flight[rt].st = "settled" => \E s \in Requests : Brings(s, rt)

CookieSound == PairHeld(at, rt) /\ CookieUsable /\ AnswerUnderWay

\* Nobody refreshes a pair that is still on its way.
FreshUnused ==
    \A k \in 1..last : ~MayExpire(k) => flight[k].st = "none" /\ (k \in live \/ k \in spoiled)

JobsHonest ==
    \A r \in Requests : Working(r) /\ job[r].key \notin spoiled =>
        Listened(r) /\ (job[r].stmt = "verify" => job[r].key \in live)

RefusedSpoiled ==
    \A k \in 1..last : flight[k].st = "settled" /\ flight[k].pair = 0 => k \in spoiled

SInv ==
    /\ \A r \in Requests : RequestSound(r)
    /\ CookieSound /\ FreshUnused /\ JobsHonest /\ RefusedSpoiled

LEMMA InitSInv == Init => SInv
<1> SUFFICES ASSUME Init PROVE SInv
  OBVIOUS
<1> USE DEF Init
<1>1. NotSent.pc = "new" /\ NotSent.age = 0 /\ NotSent.sets = "keep" /\ NotSent.got = 0
      /\ NotSent.at = 0 /\ NotSent.rt = 0 /\ NoFlight.st = "none" /\ NoFlight.pair = 0
      /\ NoJob.stmt = "none"
  BY DEF NotSent, NoFlight, NoJob
<1>2. \A r \in Requests : RequestSound(r)
  BY <1>1 DEF RequestSound, InTime, Leg, AnswerSound, PairHeld, TokenUsable, MayRefresh
<1>3. CookieSound
  BY <1>1 DEF CookieSound, PairHeld, CookieUsable, AnswerUnderWay
<1>4. FreshUnused /\ JobsHonest /\ RefusedSpoiled
  BY <1>1 DEF FreshUnused, JobsHonest, RefusedSpoiled, Working, Statements
<1> QED BY <1>2, <1>3, <1>4 DEF SInv

\* An access token that may have expired is never seen again.
LEMMA ExpiredStays ==
    ASSUME NEW k \in 1..last, MayExpire(k),
           \A s \in Requests : \/ req'[s].got \notin 1..last \/ req'[s].got = req[s].got
                               \/ \E l \in 1..last : req'[s].got = flight[l].pair,
           \A l \in 1..last' : \/ flight'[l].pair \notin 1..last
                               \/ l \in 1..last /\ flight'[l].pair = flight[l].pair
    PROVE  MayExpire(k)'
BY DEF MayExpire

\* What a request gets to know, it learns from a settled refresh.
GotKnown(s) ==
    req'[s].got \in {0, req[s].got} \/ \E l \in 1..last : req'[s].got = flight[l].pair

\* Tokens that stop to be good are spoiled, or are being replaced.
LiveKnown == \A k \in live : k \in live' \/ k \in spoiled' \/ flight[k].st # "none"

LEMMA StaysExpired ==
    ASSUME Types, UNCHANGED <<flight, last>>, \A s \in Requests : GotKnown(s)
    PROVE  \A k \in 1..last : MayExpire(k) => MayExpire(k)'
<1>1. 0 \notin 1..last
  BY DEF Types
<1> QED BY <1>1, ExpiredStays DEF GotKnown

LEMMA StillSound ==
    ASSUME Types, Types', SInv, UNCHANGED <<flight, last>>, spoiled \subseteq spoiled', LiveKnown,
           \A s \in Requests : GotKnown(s) /\ (req'[s] = req[s] \/ RequestSound(s)'),
           CookieSound', JobsHonest'
    PROVE  SInv'
<1> USE DEF SInv
<1>1. \A k \in 1..last : MayExpire(k) => MayExpire(k)'
  BY StaysExpired
<1>2. ASSUME NEW s \in Requests, req'[s] = req[s]
      PROVE  RequestSound(s)'
  <2>1. RequestSound(s) /\ req[s] \in RequestTypes(last)
    BY DEF Types
  <2>2. req[s].rt \in 1..last \/ req[s].rt = 0
    BY <2>1 DEF Types, RequestTypes
  <2>3. InTime(s)' /\ AnswerSound(s)'
    BY <1>2, <2>1 DEF RequestSound, InTime, AnswerSound
  <2>4. PairHeld(req[s].at, req[s].rt)'
    BY <1>1, <1>2, <2>1, <2>2 DEF RequestSound, PairHeld
  <2>5. TokenUsable(s)'
    BY <1>2, <2>1, <2>2 DEF RequestSound, TokenUsable, MayRefresh, Unspoiled, Usable, LiveKnown
  <2> QED BY <2>3, <2>4, <2>5, <1>2 DEF RequestSound, PairHeld
<1>3. FreshUnused'
  BY <1>1 DEF FreshUnused, LiveKnown
<1>4. RefusedSpoiled'
  BY DEF RefusedSpoiled
<1> QED BY <1>2, <1>3, <1>4

LEMMA CookieStays ==
    ASSUME Types, SInv, UNCHANGED <<cookies, flight, last>>, spoiled \subseteq spoiled', LiveKnown,
           \A s \in Requests : GotKnown(s),
           \A s \in Requests : Brings(s, rt) => req'[s] = req[s] \/ Brings(s, rt)' \/ rt \in spoiled'
    PROVE  CookieSound'
<1> USE DEF SInv, CookieSound
<1>0. UNCHANGED <<at, rt>> /\ (rt \in 1..last \/ rt = 0)
  BY DEF cookies, Types
<1>1. PairHeld(at, rt)'
  BY <1>0, StaysExpired DEF PairHeld
<1>2. CookieUsable'
  BY <1>0 DEF CookieUsable, LiveKnown
<1>3. AnswerUnderWay'
  <2>1. SUFFICES ASSUME Unspoiled(rt), flight[rt].st = "settled", rt \notin spoiled'
                 PROVE  \E s \in Requests : Brings(s, rt)'
    BY <1>0 DEF AnswerUnderWay, Unspoiled
  <2>2. PICK s \in Requests : Brings(s, rt)
    BY <2>1 DEF AnswerUnderWay
  <2>3. req'[s] = req[s] => Brings(s, rt)'
    BY <1>0, <2>2 DEF Brings
  <2> QED BY <2>1, <2>2, <2>3
<1> QED BY <1>1, <1>2, <1>3

LEMMA JobsStay ==
    ASSUME SInv, UNCHANGED flight, spoiled \subseteq spoiled', live \subseteq live' \cup spoiled',
           \A s \in Requests : Working(s)' => job'[s] = job[s]
    PROVE  JobsHonest'
<1> USE DEF SInv, JobsHonest
<1>1. SUFFICES ASSUME NEW s \in Requests, Working(s)', job'[s].key \notin spoiled'
               PROVE  Listened(s)' /\ (job'[s].stmt = "verify" => job'[s].key \in live')
  OBVIOUS
<1>2. job'[s] = job[s] /\ Working(s)
  BY <1>1 DEF Working
<1> QED BY <1>1, <1>2 DEF Listened

\* One request moves, and the rest stays as it is or is spoiled.
LEMMA MoveSound ==
    ASSUME Types, Types', SInv, NEW r \in Requests, UNCHANGED <<cookies, flight, job, last>>,
           spoiled \subseteq spoiled', live \subseteq live' \cup spoiled',
           \A s \in Requests \ {r} : req'[s] = req[s],
           GotKnown(r), RequestSound(r)', Brings(r, rt) => Brings(r, rt)' \/ rt \in spoiled'
    PROVE  SInv'
<1>1. LiveKnown
  BY DEF LiveKnown
<1>2. \A s \in Requests : GotKnown(s) /\ (req'[s] = req[s] \/ RequestSound(s)')
  BY DEF GotKnown
<1>3. CookieSound'
  BY <1>1, <1>2, CookieStays
<1>4. JobsHonest'
  BY JobsStay DEF Working
<1> QED BY <1>1, <1>2, <1>3, <1>4, StillSound

LEMMA TimesType == Transit \in Nat /\ CallTime \in Nat /\ Grace \in Nat /\ Grace > CallTime + 2 * Transit
BY TimeAssumption

LEMMA AgeTypes ==
    ASSUME Types
    PROVE  /\ \A s \in Requests : req[s].age \in Nat
           /\ \A k \in 1..last : flight[k].age \in Nat
<1>1. \A s \in Requests : req[s] \in RequestTypes(last)
  BY DEF Types
<1>2. \A k \in 1..last : flight[k] \in FlightTypes(last)
  BY DEF Types
<1> QED BY <1>1, <1>2, TimesType DEF RequestTypes, FlightTypes

LEMMA SendSound ==
    ASSUME IInv, IInv', SInv, NEW r \in Requests, NEW kind \in Kinds, Send(r, kind)
    PROVE  SInv'
<1> DEFINE q == [req[r] EXCEPT !.pc = "out", !.kind = kind, !.at = at, !.rt = rt]
<1> USE DEF IInv
<1>0. req[r] \in RequestTypes(last) /\ RequestSound(r) /\ CookieSound
  BY DEF Types, SInv
<1>a. req' = [req EXCEPT ![r] = q] /\ req[r].pc = "new" /\ rt # 0
  BY DEF Send, Types
<1>1. req[r].pc = "new" /\ rt \in 1..last /\ UNCHANGED <<cookies, flight, backend, history>>
  BY DEF Send, Types
<1>2. /\ q.pc = "out" /\ q.kind = kind /\ q.at = at /\ q.rt = rt /\ q.got = req[r].got
      /\ q.sets = req[r].sets /\ q.age = req[r].age /\ req[r].age = 0
  BY <1>0, <1>1, TimesType DEF RequestTypes, RequestSound, InTime, Leg
<1> HIDE DEF q
<1>3. req'[r] = q /\ \A s \in Requests \ {r} : req'[s] = req[s]
  BY <1>a DEF Types
<1>4. UNCHANGED <<at, rt, flight, job, live, last, spoiled, mishap>>
  BY <1>1 DEF cookies, backend, history
<1>5. GotKnown(r)
  BY <1>2, <1>3 DEF GotKnown
<1>6. PairHeld(at, rt)'
  <2>1. \A s \in Requests : GotKnown(s)
    BY <1>3, <1>5 DEF GotKnown
  <2>2. \A k \in 1..last : MayExpire(k) => MayExpire(k)'
    BY <1>4, <2>1, StaysExpired
  <2> QED BY <1>0, <1>1, <1>4, <2>2 DEF CookieSound, PairHeld
<1>7. TokenUsable(r)'
  <2>1. SUFFICES ASSUME Unspoiled(rt)
                 PROVE  Usable(rt) /\ (flight[rt].st = "settled" => flight[rt].age <= CallTime + Transit)
    BY <1>2, <1>3, <1>4, TimesType DEF TokenUsable, MayRefresh, Unspoiled, Usable
  <2>2. Usable(rt)
    BY <1>0, <2>1 DEF CookieSound, CookieUsable, Usable, Unspoiled
  <2>3. ASSUME flight[rt].st = "settled" PROVE flight[rt].age <= CallTime + Transit
    <3>1. PICK s \in Requests : Brings(s, rt)
      BY <1>0, <2>1, <2>3 DEF CookieSound, AnswerUnderWay
    <3>2. InTime(s) /\ req[s].age \in Nat /\ flight[rt].age \in Nat
      BY <1>1, AgeTypes DEF SInv, RequestSound
    <3> QED BY <3>1, <3>2, TimesType DEF Brings, InTime, Leg
  <2> QED BY <2>2, <2>3
<1>8. RequestSound(r)'
  <2>1. InTime(r)' /\ AnswerSound(r)'
    BY <1>0, <1>1, <1>2, <1>3, TimesType DEF RequestSound, InTime, Leg, AnswerSound
  <2>2. PairHeld(req[r].at, req[r].rt)'
    BY <1>2, <1>3, <1>4, <1>6 DEF PairHeld
  <2> QED BY <1>7, <2>1, <2>2 DEF RequestSound
<1>9. ~Brings(r, rt)
  BY <1>1 DEF Brings
<1> QED BY <1>1, <1>3, <1>4, <1>5, <1>8, <1>9, MoveSound

LEMMA PairStays ==
    ASSUME Types, SInv, NEW r \in Requests, UNCHANGED <<flight, last>>,
           \A s \in Requests \ {r} : req'[s] = req[s], GotKnown(r),
           req'[r].at = req[r].at, req'[r].rt = req[r].rt
    PROVE  PairHeld(req[r].at, req[r].rt)'
<1>1. \A s \in Requests : GotKnown(s)
  BY DEF GotKnown
<1>2. \A k \in 1..last : MayExpire(k) => MayExpire(k)'
  BY <1>1, StaysExpired
<1>3. PairHeld(req[r].at, req[r].rt) /\ req[r].rt \in 0..last /\ last \in Nat
  BY DEF SInv, RequestSound, Types, RequestTypes
<1>4. req[r].rt = 0 \/ req[r].rt \in 1..last
  BY <1>3
<1> QED BY <1>2, <1>3, <1>4 DEF PairHeld

LEMMA EndSound ==
    ASSUME Types, NEW r \in Requests, req'[r] = Over
    PROVE  RequestSound(r)' /\ GotKnown(r)
<1>1. Over.pc = "done" /\ Over.age = 0 /\ Over.sets = "keep" /\ Over.got = 0
      /\ Over.at = 0 /\ Over.rt = 0
  BY DEF Over, NotSent
<1> QED BY <1>1 DEF RequestSound, InTime, Leg, AnswerSound, PairHeld, TokenUsable, MayRefresh, GotKnown

\* The answer's pair has not been used: nobody refreshes it while it is on its way.
LEMMA ReceiveSound ==
    ASSUME IInv, IInv', SInv, NEW r \in Requests, Receive(r)
    PROVE  SInv'
<1> DEFINE p == req[r].got
<1> USE DEF IInv
<1>1. /\ req[r].pc = "back" /\ UNCHANGED <<flight, job, live, last, spoiled, mishap>>
      /\ req' = [req EXCEPT ![r] = Over]
  BY DEF Receive, Ends, backend, history
<1>2. req'[r] = Over /\ \A s \in Requests \ {r} : req'[s] = req[s]
  BY <1>1 DEF Types
<1>3. RequestSound(r)' /\ GotKnown(r) /\ LiveKnown
  BY <1>1, <1>2, EndSound DEF LiveKnown
<1>4. \A s \in Requests : GotKnown(s) /\ (req'[s] = req[s] \/ RequestSound(s)')
  BY <1>2, <1>3 DEF GotKnown
<1>5. CookieSound'
  <2>1. CASE req[r].sets = "set"
    <3>1. at' = p /\ rt' = p
      BY <2>1 DEF Receive
    <3>2. p \in 1..last
      <4>1. p # 0
        BY <2>1 DEF SInv, RequestSound, AnswerSound
      <4>2. p \in 0..last /\ last \in Nat
        BY DEF Types, RequestTypes
      <4> QED BY <4>1, <4>2
    <3>3. flight[p].st = "none" /\ (p \in live \/ p \in spoiled)
      BY <3>2 DEF SInv, FreshUnused, MayExpire
    <3> QED BY <1>1, <3>1, <3>2, <3>3 DEF CookieSound, PairHeld, CookieUsable, AnswerUnderWay
  <2>2. CASE req[r].sets = "clear"
    <3>1. at' = 0 /\ rt' = 0
      BY <2>2 DEF Receive
    <3> QED BY <3>1 DEF CookieSound, PairHeld, CookieUsable, AnswerUnderWay, Unspoiled
  <2>3. CASE req[r].sets \notin {"set", "clear"}
    <3>1. UNCHANGED cookies
      BY <2>3 DEF Receive
    <3>2. ~Brings(r, rt)
      BY <1>1, <2>3 DEF Brings
    <3> QED BY <1>1, <1>2, <1>3, <1>4, <3>1, <3>2, CookieStays
  <2> QED BY <2>1, <2>2, <2>3
<1>6. JobsHonest'
  BY <1>1, JobsStay DEF Working
<1> QED BY <1>1, <1>3, <1>4, <1>5, <1>6, StillSound

\* An answer that is lost takes the pair with it.
LEMMA LoseSound ==
    ASSUME IInv, IInv', SInv, NEW r \in Requests, Lose(r)
    PROVE  SInv'
<1> USE DEF IInv
<1>1. /\ req[r].pc = "back" /\ UNCHANGED <<cookies, flight, job, live, last, mishap>>
      /\ req' = [req EXCEPT ![r] = Over]
      /\ spoiled' = IF req[r].sets = "set" THEN spoiled \cup {req[r].rt} ELSE spoiled
  BY DEF Lose, Ends, backend
<1>2. req'[r] = Over /\ \A s \in Requests \ {r} : req'[s] = req[s]
  BY <1>1 DEF Types
<1>3. RequestSound(r)' /\ GotKnown(r)
  BY <1>2, EndSound
<1>4. Brings(r, rt) => rt \in spoiled'
  BY <1>1 DEF Brings
<1>5. spoiled \subseteq spoiled' /\ live \subseteq live' \cup spoiled'
  BY <1>1
<1> QED BY <1>1, <1>2, <1>3, <1>4, <1>5, MoveSound

\* A request that has arrived may still refresh: its way took no longer than Transit.
LEMMA ArriveSound ==
    ASSUME IInv, IInv', SInv, NEW r \in Requests,
           Arrive(r), Goes(r, "calling"), UNCHANGED <<flight, job>>
    PROVE  SInv'
<1> DEFINE q == [req[r] EXCEPT !.pc = "calling", !.age = 0]
           k == req[r].rt
<1> USE DEF IInv
<1>0. req[r] \in RequestTypes(last) /\ RequestSound(r)
  BY DEF Types, SInv
<1>1. req[r].pc = "out" /\ UNCHANGED <<cookies, flight, job, live, last, spoiled, mishap>>
  BY DEF Arrive, history
<1>2. /\ q.pc = "calling" /\ q.age = 0 /\ q.at = req[r].at /\ q.rt = k /\ q.got = req[r].got
      /\ q.sets = req[r].sets /\ q.kind = req[r].kind
  BY <1>0 DEF RequestTypes
<1>3. req' = [req EXCEPT ![r] = q]
  BY DEF Goes, Types
<1> HIDE DEF q
<1>4. req'[r] = q /\ \A s \in Requests \ {r} : req'[s] = req[s]
  BY <1>3 DEF Types
<1>5. GotKnown(r) /\ ~Brings(r, rt)
  BY <1>1, <1>2, <1>4 DEF GotKnown, Brings
<1>6. TokenUsable(r)'
  <2>1. SUFFICES ASSUME Unspoiled(k)
                 PROVE  Usable(k) /\ (flight[k].st = "settled" => flight[k].age <= CallTime + Transit + Transit)
    BY <1>1, <1>2, <1>4 DEF TokenUsable, MayRefresh, Unspoiled, Usable
  <2>2. /\ Usable(k)
        /\ flight[k].st = "settled" => flight[k].age <= CallTime + Transit + req[r].age
    BY <1>0, <1>1, <2>1 DEF RequestSound, TokenUsable, MayRefresh
  <2>3. req[r].age \in Nat /\ req[r].age <= Transit /\ flight[k].age \in Nat
    BY <1>0, <1>1, AgeTypes DEF RequestSound, InTime, Leg, Types
  <2> QED BY <2>2, <2>3, TimesType
<1>7. RequestSound(r)'
  <2>1. InTime(r)' /\ AnswerSound(r)'
    BY <1>0, <1>1, <1>2, <1>4, TimesType DEF RequestSound, InTime, Leg, AnswerSound
  <2>2. PairHeld(req[r].at, req[r].rt)'
    BY <1>1, <1>2, <1>4, <1>5, PairStays
  <2> QED BY <1>6, <2>1, <2>2 DEF RequestSound
<1> QED BY <1>1, <1>4, <1>5, <1>7, MoveSound

LEMMA ResumeSound ==
    ASSUME IInv, IInv', SInv, NEW r \in Requests, Resume(r)
    PROVE  SInv'
<1> DEFINE k == req[r].rt
           pair == flight[k].pair
           q == [req[r] EXCEPT !.pc = IF pair = 0 THEN "back" ELSE "calling",
                               !.sets = IF pair = 0 THEN "clear" ELSE "set", !.got = pair]
<1> USE DEF IInv
<1>0. req[r] \in RequestTypes(last) /\ RequestSound(r)
  BY DEF Types, SInv
<1>1. /\ req[r].pc = "waiting" /\ k \in 1..last /\ flight[k].st = "settled"
      /\ UNCHANGED <<cookies, flight, job, live, last, spoiled, mishap>>
  BY DEF Resume, Types, backend, history
<1>2. /\ q.pc = (IF pair = 0 THEN "back" ELSE "calling") /\ q.age = req[r].age
      /\ q.sets = (IF pair = 0 THEN "clear" ELSE "set") /\ q.got = pair
      /\ q.at = req[r].at /\ q.rt = k /\ q.kind = req[r].kind
  BY <1>0 DEF RequestTypes
<1>3. req' = [req EXCEPT ![r] = q]
  BY DEF Resume, Types
<1> HIDE DEF q
<1>4. req'[r] = q /\ \A s \in Requests \ {r} : req'[s] = req[s]
  BY <1>3 DEF Types
<1>5. GotKnown(r)
  BY <1>1, <1>2, <1>4 DEF GotKnown
<1>6. req[r].age = 0
  BY <1>0, <1>1, AgeTypes DEF RequestSound, InTime, Leg
<1>7. pair = 0 => k \in spoiled
  BY <1>1 DEF SInv, RefusedSpoiled
<1>8. RequestSound(r)'
  <2>1. InTime(r)'
    BY <1>2, <1>4, <1>6, TimesType DEF InTime, Leg
  <2>2. AnswerSound(r)'
    BY <1>1, <1>2, <1>4, <1>7 DEF AnswerSound
  <2>3. PairHeld(req[r].at, req[r].rt)'
    BY <1>1, <1>2, <1>4, <1>5, PairStays
  <2>4. TokenUsable(r)'
    BY <1>2, <1>4 DEF TokenUsable, MayRefresh
  <2> QED BY <2>1, <2>2, <2>3, <2>4 DEF RequestSound
<1>9. Brings(r, rt) => Brings(r, rt)' \/ rt \in spoiled'
  <2>1. SUFFICES ASSUME Brings(r, rt), pair # 0 PROVE Brings(r, rt)'
    BY <1>1, <1>7 DEF Brings
  <2>2. rt = k /\ flight[k].age = 0 /\ rt' = rt /\ flight' = flight
    BY <1>1, <2>1 DEF Brings, cookies
  <2> QED BY <1>0, <1>2, <1>4, <1>6, <2>1, <2>2 DEF Brings
<1> QED BY <1>1, <1>4, <1>5, <1>8, <1>9, MoveSound

\* The backend's answer comes within CallTime, and with it the pair.
LEMMA PassOnSound ==
    ASSUME IInv, IInv', SInv, NEW r \in Requests, PassOn(r)
    PROVE  SInv'
<1> DEFINE q == [req[r] EXCEPT !.pc = "back", !.age = 0]
<1> USE DEF IInv
<1>0. req[r] \in RequestTypes(last) /\ RequestSound(r)
  BY DEF Types, SInv
<1>1. /\ req[r].pc = "calling"
      /\ UNCHANGED <<cookies, flight, job, live, last, spoiled, mishap>>
  BY DEF PassOn, backend, history
<1>2. /\ q.pc = "back" /\ q.age = 0 /\ q.at = req[r].at /\ q.rt = req[r].rt /\ q.got = req[r].got
      /\ q.sets = req[r].sets /\ q.kind = req[r].kind
  BY <1>0 DEF RequestTypes
<1>3. req' = [req EXCEPT ![r] = q]
  BY DEF PassOn, Goes, Types
<1> HIDE DEF q
<1>4. req'[r] = q /\ \A s \in Requests \ {r} : req'[s] = req[s]
  BY <1>3 DEF Types
<1>5. GotKnown(r)
  BY <1>2, <1>4 DEF GotKnown
<1>6. RequestSound(r)'
  <2>1. InTime(r)' /\ AnswerSound(r)'
    BY <1>0, <1>1, <1>2, <1>4, TimesType DEF RequestSound, InTime, Leg, AnswerSound
  <2>2. PairHeld(req[r].at, req[r].rt)'
    BY <1>1, <1>2, <1>4, <1>5, PairStays
  <2>3. TokenUsable(r)'
    BY <1>2, <1>4 DEF TokenUsable, MayRefresh
  <2> QED BY <2>1, <2>2, <2>3 DEF RequestSound
<1>7. Brings(r, rt) => Brings(r, rt)'
  <2>1. SUFFICES ASSUME Brings(r, rt) PROVE Brings(r, rt)'
    OBVIOUS
  <2>2. rt = req[r].rt /\ rt \in 1..last /\ rt' = rt /\ flight' = flight
    BY <1>1, <2>1 DEF Brings, cookies, Types
  <2>3. flight[rt].age <= CallTime
    <3>1. req[r].age \in Nat /\ flight[rt].age \in Nat /\ req[r].age <= CallTime
      BY <1>0, <1>1, <2>2, AgeTypes DEF RequestSound, InTime, Leg
    <3> QED BY <1>1, <2>1, <3>1, TimesType DEF Brings
  <2> QED BY <1>1, <1>2, <1>4, <2>1, <2>2, <2>3, TimesType, AgeTypes DEF Brings
<1> QED BY <1>1, <1>4, <1>5, <1>6, <1>7, MoveSound

LEMMA AbandonSound ==
    ASSUME IInv, IInv', SInv, NEW r \in Requests, CallFails(r) \/ LogOut(r)
    PROVE  SInv'
<1> DEFINE sets == IF req[r].kind = "logout" THEN "clear" ELSE "keep"
           q == [req[r] EXCEPT !.pc = "back", !.sets = sets, !.age = 0]
<1> USE DEF IInv
<1>0. req[r] \in RequestTypes(last) /\ RequestSound(r)
  BY DEF Types, SInv
<1>1. /\ req[r].pc = "calling" /\ UNCHANGED <<cookies, flight, job, last, mishap>>
      /\ spoiled \subseteq spoiled' /\ live \subseteq live' \cup spoiled'
  BY DEF CallFails, LogOut, backend
<1>2. /\ q.pc = "back" /\ q.age = 0 /\ q.at = req[r].at /\ q.rt = req[r].rt /\ q.got = req[r].got
      /\ q.sets = sets /\ q.kind = req[r].kind
  BY <1>0 DEF RequestTypes
<1>3. req' = [req EXCEPT ![r] = q]
  BY DEF CallFails, LogOut, Types
<1> HIDE DEF q
<1>4. req'[r] = q /\ \A s \in Requests \ {r} : req'[s] = req[s]
  BY <1>3 DEF Types
<1>5. GotKnown(r)
  BY <1>2, <1>4 DEF GotKnown
<1>6. RequestSound(r)'
  <2>1. InTime(r)' /\ AnswerSound(r)'
    BY <1>0, <1>1, <1>2, <1>4, TimesType DEF RequestSound, InTime, Leg, AnswerSound
  <2>2. PairHeld(req[r].at, req[r].rt)'
    BY <1>1, <1>2, <1>4, <1>5, PairStays
  <2>3. TokenUsable(r)'
    BY <1>2, <1>4 DEF TokenUsable, MayRefresh
  <2> QED BY <2>1, <2>2, <2>3 DEF RequestSound
<1>7. Brings(r, rt) => rt \in spoiled'
  <2>1. SUFFICES ASSUME Brings(r, rt) PROVE rt \in spoiled'
    OBVIOUS
  <2>2. req[r].got # 0 /\ req[r].kind # "logout" /\ req[r].rt = rt
    BY <1>0, <1>1, <2>1 DEF Brings, RequestSound, AnswerSound
  <2> QED BY <2>2 DEF CallFails, LogOut
<1> QED BY <1>1, <1>4, <1>5, <1>6, <1>7, MoveSound

\* A request that refreshes finds the refresh to share, or a token that is good.
LEMMA RefreshSound ==
    ASSUME IInv, IInv', SInv, NEW r \in Requests, MayRefresh(r), req[r].kind # "logout",
           MayExpire(req[r].rt), Refresh(r), UNCHANGED <<cookies, live, last, history>>
    PROVE  SInv'
<1> DEFINE q == [req[r] EXCEPT !.pc = "waiting", !.age = 0]
           k == req[r].rt
<1> USE DEF IInv
<1>0. req[r] \in RequestTypes(last) /\ RequestSound(r) /\ k \in 1..last
  BY DEF Types, SInv, MayRefresh
<1>1. UNCHANGED <<cookies, live, last, spoiled, mishap>>
  BY DEF history
<1>2. /\ q.pc = "waiting" /\ q.age = 0 /\ q.at = req[r].at /\ q.rt = k /\ q.got = req[r].got
      /\ q.sets = req[r].sets /\ q.kind = req[r].kind
  BY <1>0 DEF RequestTypes
<1>3. req' = [req EXCEPT ![r] = q]
  BY DEF Refresh, Goes, Types
<1> HIDE DEF q
<1>4. req'[r] = q /\ \A s \in Requests \ {r} : req'[s] = req[s]
  BY <1>3 DEF Types
<1>5. GotKnown(r) /\ ~Brings(r, rt)
  BY <1>0, <1>2, <1>4 DEF GotKnown, Brings, MayRefresh, RequestSound, AnswerSound
<1>6. InTime(r)' /\ AnswerSound(r)' /\ TokenUsable(r)'
  BY <1>0, <1>2, <1>4 DEF RequestSound, InTime, Leg, AnswerSound, MayRefresh, TokenUsable
<1>7. CASE Shares(k)
  <2>1. UNCHANGED <<flight, job>>
    BY <1>7 DEF Refresh
  <2>2. PairHeld(req[r].at, req[r].rt)'
    BY <1>1, <1>2, <1>4, <1>5, <2>1, PairStays
  <2>3. RequestSound(r)'
    BY <1>6, <2>2 DEF RequestSound
  <2> QED BY <1>1, <1>4, <1>5, <2>1, <2>3, MoveSound
<1>8. CASE ~Shares(k)
  <2> DEFINE f == [NoFlight EXCEPT !.st = "pending", !.by = {r}]
             j == [stmt |-> "verify", key |-> k]
  <2>1. flight[k].st = "none" /\ flight' = [flight EXCEPT ![k] = f] /\ job' = [job EXCEPT ![r] = j]
    BY <1>8 DEF Refresh, Shares
  <2>2. f.st = "pending" /\ f.by = {r} /\ f.pair = 0 /\ j.stmt = "verify" /\ j.key = k
    BY DEF NoFlight
  <2> HIDE DEF f, j
  <2>3. /\ flight'[k] = f /\ \A l \in 1..last : l # k => flight'[l] = flight[l]
        /\ job'[r] = j /\ \A s \in Requests \ {r} : job'[s] = job[s]
    BY <1>0, <2>1 DEF Types
  <2>4. \A l \in 1..last : MayExpire(l) => MayExpire(l)'
    <3>1. 0 \notin 1..last
      BY DEF Types
    <3>2. \A s \in Requests : req'[s].got \in {0, req[s].got}
      BY <1>2, <1>4
    <3>3. \A l \in 1..last' : flight'[l].pair \in {0, flight[l].pair}
      BY <1>1, <2>2, <2>3
    <3> QED BY <1>1, <3>1, <3>2, <3>3, ExpiredStays
  <2>5. k \in live \/ k \in spoiled
    BY <1>0, <2>1 DEF RequestSound, TokenUsable, Unspoiled, Usable
  <2>6. \A s \in Requests : RequestSound(s)'
    <3>1. TAKE s \in Requests
    <3>2. RequestSound(s) /\ req[s].rt \in 0..last /\ last \in Nat
      BY DEF SInv, Types, RequestTypes
    <3>3. req[s].rt = 0 \/ req[s].rt \in 1..last
      BY <3>2
    <3>4. PairHeld(req[s].at, req[s].rt)'
      BY <1>2, <1>4, <2>4, <3>2, <3>3 DEF RequestSound, PairHeld
    <3>5. CASE s = r
      BY <1>6, <3>4, <3>5 DEF RequestSound
    <3>6. CASE s # r
      <4>1. req'[s] = req[s]
        BY <1>4, <3>6
      <4>2. InTime(s)' /\ AnswerSound(s)'
        BY <1>1, <3>2, <4>1 DEF RequestSound, InTime, AnswerSound
      <4>3. TokenUsable(s)'
        BY <1>1, <2>2, <2>3, <3>2, <3>3, <4>1 DEF RequestSound, TokenUsable, MayRefresh, Unspoiled, Usable
      <4> QED BY <3>4, <4>2, <4>3 DEF RequestSound
    <3> QED BY <3>5, <3>6
  <2>7. CookieSound'
    <3>1. UNCHANGED <<at, rt>> /\ (rt = 0 \/ rt \in 1..last)
      BY DEF cookies, Types
    <3>2. PairHeld(at, rt)'
      BY <2>4, <3>1 DEF SInv, CookieSound, PairHeld
    <3>3. CookieUsable'
      BY <1>1, <2>2, <2>3, <3>1 DEF SInv, CookieSound, CookieUsable
    <3>4. AnswerUnderWay'
      <4>1. SUFFICES ASSUME Unspoiled(rt), flight'[rt].st = "settled"
                     PROVE  \E s \in Requests : Brings(s, rt)'
        BY <1>1, <3>1 DEF AnswerUnderWay, Unspoiled
      <4>2. rt \in 1..last /\ rt # k /\ flight'[rt] = flight[rt]
        BY <2>2, <2>3, <3>1, <4>1 DEF Unspoiled
      <4>3. PICK s \in Requests : Brings(s, rt)
        BY <4>1, <4>2 DEF SInv, CookieSound, AnswerUnderWay
      <4>4. s # r
        BY <1>5, <4>3
      <4> QED BY <1>4, <3>1, <4>2, <4>3, <4>4 DEF Brings
    <3> QED BY <3>2, <3>3, <3>4 DEF CookieSound
  <2>8. FreshUnused'
    <3>1. SUFFICES ASSUME NEW l \in 1..last, ~MayExpire(l)'
                   PROVE  flight'[l].st = "none" /\ (l \in live \/ l \in spoiled)
      BY <1>1 DEF FreshUnused
    <3>2. ~MayExpire(l)
      BY <2>4, <3>1
    <3>3. l # k
      BY <3>2
    <3> QED BY <2>3, <3>2, <3>3 DEF SInv, FreshUnused
  <2>9. JobsHonest'
    <3>1. SUFFICES ASSUME NEW s \in Requests, Working(s)', job'[s].key \notin spoiled
                   PROVE  Listened(s)' /\ (job'[s].stmt = "verify" => job'[s].key \in live)
      BY <1>1 DEF JobsHonest
    <3>2. CASE s = r
      BY <2>2, <2>3, <2>5, <3>1, <3>2 DEF Listened
    <3>3. CASE s # r
      <4>1. Working(s) /\ job'[s] = job[s]
        BY <2>3, <3>1, <3>3 DEF Working
      <4>2. Listened(s) /\ (job[s].stmt = "verify" => job[s].key \in live) /\ job[s].key \in 1..last
        BY <3>1, <4>1 DEF SInv, JobsHonest, JobsKnown
      <4>3. job[s].key # k
        BY <2>1, <4>2 DEF Listened
      <4> QED BY <2>3, <4>1, <4>2, <4>3 DEF Listened
    <3> QED BY <3>2, <3>3
  <2>10. RefusedSpoiled'
    BY <1>1, <2>2, <2>3 DEF SInv, RefusedSpoiled
  <2> QED BY <2>6, <2>7, <2>8, <2>9, <2>10 DEF SInv
<1> QED BY <1>7, <1>8

LEMMA ServerSound ==
    ASSUME IInv, IInv', SInv, NEW r \in Requests, Arrive(r) \/ Unauthorized(r)
    PROVE  SInv'
<1> USE DEF IInv
<1>0. /\ req[r].at \in {0, req[r].rt} /\ req[r].rt \in 1..last
      /\ req[r].at = 0 => MayExpire(req[r].rt)
  BY DEF SInv, RequestSound, PairHeld, Types, Arrive, Unauthorized
<1>1. CASE Arrive(r) /\ Goes(r, "calling") /\ UNCHANGED <<flight, job>>
  BY <1>1, ArriveSound
<1>2. CASE Arrive(r) /\ req[r].kind # "logout" /\ req[r].at = 0 /\ Refresh(r)
  <2>1. MayRefresh(r) /\ UNCHANGED <<cookies, live, last, history>>
    BY <1>2 DEF Arrive, MayRefresh
  <2> QED BY <1>0, <1>2, <2>1, RefreshSound
<1>3. CASE Unauthorized(r)
  <2>1. MayRefresh(r) /\ Refresh(r) /\ req[r].kind # "logout" /\ UNCHANGED <<cookies, live, last, history>>
    BY <1>3 DEF Unauthorized, MayRefresh
  <2>2. MayExpire(req[r].at) /\ req[r].got = 0
    BY <1>3 DEF Unauthorized
  <2>3. MayExpire(req[r].rt)
    BY <1>0, <2>2 DEF MayExpire
  <2> QED BY <2>1, <2>3, RefreshSound
<1> QED BY <1>1, <1>2, <1>3 DEF Arrive

\* Flights that change take their token's promise with them.
LEMMA SpoiledFlights ==
    ASSUME Types, Types', SInv, UNCHANGED <<cookies, live, last>>, spoiled \subseteq spoiled',
           \A k \in 1..last :
               \/ flight'[k] = flight[k]
               \/ k \in spoiled' /\ flight[k].st # "none" /\ flight'[k].pair = 0,
           \A s \in Requests : req'[s] = req[s] \/ RequestSound(s)',
           Unspoiled(rt) /\ flight[rt].st = "settled" =>
               \A s \in Requests : Brings(s, rt) => req'[s] = req[s] \/ rt \in spoiled',
           \A k \in 1..last : MayExpire(k) => MayExpire(k)',
           JobsHonest'
    PROVE  SInv'
<1> USE DEF SInv
<1>1. ASSUME NEW s \in Requests, req'[s] = req[s]
      PROVE  RequestSound(s)'
  <2>1. RequestSound(s) /\ req[s].rt \in 0..last /\ last \in Nat
    BY DEF Types, RequestTypes
  <2>2. req[s].rt \in 1..last \/ req[s].rt = 0
    BY <2>1
  <2>3. InTime(s)' /\ AnswerSound(s)'
    BY <1>1, <2>1 DEF RequestSound, InTime, AnswerSound
  <2>4. PairHeld(req[s].at, req[s].rt)'
    BY <1>1, <2>1, <2>2 DEF RequestSound, PairHeld
  <2>5. TokenUsable(s)'
    BY <1>1, <2>1, <2>2 DEF RequestSound, TokenUsable, MayRefresh, Unspoiled, Usable
  <2> QED BY <2>3, <2>4, <2>5 DEF RequestSound
<1>2. CookieSound'
  <2>1. UNCHANGED <<at, rt>> /\ (rt = 0 \/ rt \in 1..last)
    BY DEF cookies, Types
  <2>2. PairHeld(at, rt)' /\ CookieUsable'
    BY <2>1 DEF CookieSound, PairHeld, CookieUsable
  <2>3. AnswerUnderWay'
    <3>1. SUFFICES ASSUME rt \notin spoiled' \cup {0}, flight'[rt].st = "settled"
                   PROVE  \E s \in Requests : Brings(s, rt)'
      BY <2>1 DEF AnswerUnderWay, Unspoiled
    <3>2. Unspoiled(rt) /\ flight'[rt] = flight[rt]
      BY <2>1, <3>1 DEF Unspoiled
    <3>3. PICK s \in Requests : Brings(s, rt)
      BY <3>1, <3>2 DEF CookieSound, AnswerUnderWay
    <3>4. req'[s] = req[s]
      BY <3>1, <3>2, <3>3
    <3> QED BY <2>1, <3>2, <3>3, <3>4 DEF Brings
  <2> QED BY <2>2, <2>3 DEF CookieSound
<1>3. FreshUnused'
  BY DEF FreshUnused
<1>4. RefusedSpoiled'
  BY DEF RefusedSpoiled
<1> QED BY <1>1, <1>2, <1>3, <1>4

LEMMA FlightFailsSound ==
    ASSUME IInv, IInv', SInv, NEW r \in Requests, FlightFails(r)
    PROVE  SInv'
<1> DEFINE k == job[r].key
           Back(s) == [req[s] EXCEPT !.pc = "back", !.sets = "keep"]
<1> USE DEF IInv
<1>1. /\ Working(r) /\ Listened(r) /\ k \in 1..last /\ UNCHANGED <<cookies, live, last>>
      /\ flight' = [flight EXCEPT ![k] = NoFlight] /\ spoiled' = spoiled \cup {k}
      /\ \A s \in Requests :
            req'[s] = IF req[s].pc = "waiting" /\ req[s].rt = k THEN Back(s) ELSE req[s]
  BY DEF FlightFails, Working, Listened, JobsKnown
<1>2. flight'[k] = NoFlight /\ \A l \in 1..last : l # k => flight'[l] = flight[l]
  BY <1>1 DEF Types
<1>3. NoFlight.st = "none" /\ NoFlight.pair = 0
  BY DEF NoFlight
<1>4. \A s \in Requests : req'[s].got = req[s].got
  <2>1. \A s \in Requests : req[s] \in RequestTypes(last)
    BY DEF Types
  <2> QED BY <1>1, <2>1 DEF RequestTypes
<1>5. \A l \in 1..last : MayExpire(l) => MayExpire(l)'
  <2>1. 0 \notin 1..last
    BY DEF Types
  <2>2. \A l \in 1..last' : flight'[l].pair \in {0, flight[l].pair}
    BY <1>1, <1>2, <1>3
  <2> QED BY <1>1, <1>4, <2>1, <2>2, ExpiredStays
<1>6. ASSUME NEW s \in Requests, req'[s] # req[s]
      PROVE  RequestSound(s)'
  <2>1. req[s].pc = "waiting" /\ req[s].rt = k /\ req'[s] = Back(s) /\ req[s] \in RequestTypes(last)
        /\ RequestSound(s)
    BY <1>1, <1>6 DEF Types, SInv
  <2>2. /\ Back(s).pc = "back" /\ Back(s).sets = "keep" /\ Back(s).age = req[s].age
        /\ Back(s).at = req[s].at /\ Back(s).rt = k
    BY <2>1 DEF RequestTypes
  <2> HIDE DEF Back
  <2>3. req[s].age = 0
    BY <2>1, AgeTypes DEF RequestSound, InTime, Leg
  <2> QED BY <1>1, <1>5, <2>1, <2>2, <2>3, TimesType
          DEF RequestSound, InTime, Leg, AnswerSound, PairHeld, TokenUsable, MayRefresh
<1>7. JobsHonest'
  <2>1. SUFFICES ASSUME NEW s \in Requests, Working(s)', job'[s].key \notin spoiled'
                 PROVE  Listened(s)' /\ (job'[s].stmt = "verify" => job'[s].key \in live')
    BY DEF JobsHonest
  <2>2. job'[s] = job[s]
    <3>1. job' = job \/ job' = [job EXCEPT ![r] = NoJob]
      BY DEF FlightFails
    <3>2. NoJob.stmt \notin Statements
      BY DEF NoJob, Statements
    <3> QED BY <2>1, <3>1, <3>2 DEF Working, Types
  <2>3. job[s].key # k /\ Working(s) /\ job[s].key \in 1..last
    BY <1>1, <2>1, <2>2 DEF Working, JobsKnown
  <2> QED BY <1>1, <1>2, <2>1, <2>2, <2>3 DEF SInv, JobsHonest, Listened
<1> HIDE DEF Back
<1>8. \A l \in 1..last : flight'[l] = flight[l] \/ (l \in spoiled' /\ flight[l].st # "none" /\ flight'[l].pair = 0)
  <2>1. k \in spoiled' /\ flight[k].st # "none" /\ flight'[k].pair = 0
    BY <1>1, <1>2, <1>3 DEF Listened
  <2> QED BY <1>2, <2>1
<1>9. \A s \in Requests : Brings(s, rt) => req'[s] = req[s] \/ rt \in spoiled'
  BY <1>1 DEF Brings
<1>10. Types /\ Types' /\ spoiled \subseteq spoiled'
  BY <1>1
<1> QED BY <1>1, <1>5, <1>6, <1>7, <1>8, <1>9, <1>10, SpoiledFlights

\* A restart forgets the flights, whose tokens are spoiled, and the requests on their way through.
LEMMA RestartSound ==
    ASSUME IInv, IInv', SInv, Restart
    PROVE  SInv'
<1> USE DEF IInv
<1>1. /\ UNCHANGED <<cookies, job, live, last>> /\ flight' = [k \in 1..last |-> NoFlight]
      /\ spoiled' = spoiled \cup {k \in 1..last : flight[k].st # "none"}
      /\ \A r \in Requests :
            req'[r] = IF req[r].pc \in {"waiting", "calling", "changing"} THEN Over ELSE req[r]
  BY DEF Restart, backend
<1>2. NoFlight.st = "none" /\ NoFlight.pair = 0 /\ Over.got = 0
  BY DEF NoFlight, Over, NotSent
<1>3. \A k \in 1..last : flight[k] \in FlightTypes(last)
  BY DEF Types
<1>4. \A l \in 1..last : MayExpire(l) => MayExpire(l)'
  <2>1. 0 \notin 1..last
    BY DEF Types
  <2>2. \A s \in Requests : req'[s].got \in {0, req[s].got}
    BY <1>1, <1>2
  <2> QED BY <1>1, <1>2, <2>1, <2>2, ExpiredStays
<1>5. \A s \in Requests : req'[s] = req[s] \/ RequestSound(s)'
  BY <1>1, EndSound
<1>7. FreshUnused'
  BY <1>1, <1>2, <1>4 DEF SInv, FreshUnused
<1>8. RefusedSpoiled'
  BY <1>1, <1>2 DEF RefusedSpoiled
<1>9. JobsHonest'
  <2>1. SUFFICES ASSUME NEW s \in Requests, Working(s), job[s].key \notin spoiled'
                 PROVE  FALSE
    BY <1>1 DEF JobsHonest, Working
  <2>2. job[s].key \in 1..last /\ Listened(s)
    BY <1>1, <2>1 DEF JobsKnown, SInv, JobsHonest
  <2> QED BY <1>1, <2>1, <2>2 DEF Listened
<1>10. CookieSound'
  <2>1. UNCHANGED <<at, rt>> /\ (rt = 0 \/ rt \in 1..last)
    BY <1>1 DEF cookies, Types
  <2>2. PairHeld(at, rt)'
    BY <1>4, <2>1 DEF SInv, CookieSound, PairHeld
  <2>3. CookieUsable'
    BY <1>1, <2>1 DEF SInv, CookieSound, CookieUsable
  <2>4. AnswerUnderWay'
    BY <1>1, <1>2, <2>1 DEF AnswerUnderWay, Unspoiled
  <2> QED BY <2>2, <2>3, <2>4 DEF CookieSound
<1>11. ASSUME NEW s \in Requests, req'[s] = req[s]
       PROVE  RequestSound(s)'
  <2>1. RequestSound(s) /\ req[s].rt \in 0..last /\ last \in Nat
    BY DEF SInv, Types, RequestTypes
  <2>2. req[s].rt \in 1..last \/ req[s].rt = 0
    BY <2>1
  <2>3. InTime(s)' /\ AnswerSound(s)'
    BY <1>1, <1>11, <2>1 DEF RequestSound, InTime, AnswerSound
  <2>4. PairHeld(req[s].at, req[s].rt)'
    BY <1>4, <1>11, <2>1, <2>2 DEF RequestSound, PairHeld
  <2>5. TokenUsable(s)'
    BY <1>1, <1>2, <1>11, <2>1, <2>2 DEF RequestSound, TokenUsable, MayRefresh, Unspoiled, Usable
  <2> QED BY <2>3, <2>4, <2>5 DEF RequestSound
<1> QED BY <1>5, <1>7, <1>8, <1>9, <1>10, <1>11 DEF SInv

\* The session is ended: every token is spoiled.
LEMMA RevokeAllSound ==
    ASSUME IInv, IInv', SInv,
           SignedOutElsewhere \/ \E r \in Requests : ChangePassword(r)
    PROVE  SInv'
<1> USE DEF IInv
<1>1. /\ UNCHANGED <<cookies, flight, last>> /\ live' = {} /\ spoiled' = 1..last
      /\ spoiled \subseteq spoiled' /\ live \subseteq spoiled'
  BY DEF SignedOutElsewhere, ChangePassword, RevokeAll, Types
<1>2. \A s \in Requests : GotKnown(s) /\ (req'[s] = req[s] \/ RequestSound(s)')
      /\ (Brings(s, rt) => rt \in spoiled')
  <2>1. TAKE s \in Requests
  <2>2. Brings(s, rt) => rt \in spoiled'
    BY <1>1 DEF Brings, Types
  <2>3. CASE req'[s] = req[s]
    BY <2>2, <2>3 DEF GotKnown
  <2>4. CASE req'[s] # req[s]
    <3> DEFINE q == [req[s] EXCEPT !.pc = "changing", !.age = 0]
    <3>1. req[s].pc = "calling" /\ req' = [req EXCEPT ![s] = q] /\ req[s] \in RequestTypes(last)
      BY <2>4 DEF SignedOutElsewhere, ChangePassword, Goes, Types
    <3>2. /\ q.pc = "changing" /\ q.age = 0 /\ q.at = req[s].at /\ q.rt = req[s].rt
          /\ q.got = req[s].got /\ q.sets = req[s].sets
      BY <3>1 DEF RequestTypes
    <3> HIDE DEF q
    <3>3. req'[s] = q /\ \A r \in Requests \ {s} : req'[r] = req[r]
      BY <3>1 DEF Types
    <3>4. GotKnown(s)
      BY <3>2, <3>3 DEF GotKnown
    <3>5. PairHeld(req[s].at, req[s].rt)'
      BY <1>1, <3>2, <3>3, <3>4, PairStays
    <3>6. InTime(s)' /\ AnswerSound(s)' /\ TokenUsable(s)'
      BY <3>1, <3>2, <3>3 DEF SInv, RequestSound, InTime, Leg, AnswerSound, TokenUsable, MayRefresh
    <3> QED BY <2>2, <3>4, <3>5, <3>6 DEF RequestSound
  <2> QED BY <2>3, <2>4
<1>3. LiveKnown
  BY <1>1 DEF LiveKnown
<1>4. CookieSound'
  BY <1>1, <1>2, <1>3, CookieStays
<1>5. JobsHonest'
  <2>1. \A s \in Requests : Working(s)' => job'[s].key \in spoiled'
    BY <1>1 DEF JobsKnown
  <2> QED BY <2>1 DEF JobsHonest
<1> QED BY <1>1, <1>2, <1>3, <1>4, <1>5, StillSound

LEMMA AccessExpiresSound ==
    ASSUME IInv, IInv', SInv, AccessExpires
    PROVE  SInv'
<1> USE DEF IInv
<1>1. /\ at # 0 /\ MayExpire(at) /\ at' = 0
      /\ UNCHANGED <<rt, req, flight, job, live, last, spoiled, mishap>>
  BY DEF AccessExpires, backend, history
<1>2. at = rt /\ MayExpire(rt)'
  BY <1>1 DEF SInv, CookieSound, PairHeld, MayExpire
<1>3. CookieSound'
  <2>1. PairHeld(at, rt)'
    BY <1>1, <1>2 DEF PairHeld
  <2>2. CookieUsable' /\ AnswerUnderWay'
    BY <1>1 DEF SInv, CookieSound, CookieUsable, AnswerUnderWay, Brings, Unspoiled
  <2> QED BY <2>1, <2>2 DEF CookieSound
<1>4. LiveKnown /\ \A s \in Requests : GotKnown(s)
  BY <1>1 DEF LiveKnown, GotKnown
<1>5. JobsHonest'
  BY <1>1, JobsStay DEF Working
<1> QED BY <1>1, <1>3, <1>4, <1>5, StillSound

\* The backend refuses a token only when it was spoiled, and while a refresh works on a
\* token, its flight is there to be shared.
LEMMA VerifySound ==
    ASSUME IInv, IInv', SInv, NEW r \in Requests, Verify(r) \/ Revoke(r)
    PROVE  SInv'
<1> DEFINE k == job[r].key
           f == [NoFlight EXCEPT !.st = "settled", !.pair = 0]
<1> USE DEF IInv
<1>1. /\ Working(r) /\ k \in 1..last /\ UNCHANGED <<cookies, req, last, spoiled, mishap>>
      /\ k \notin spoiled => Listened(r) /\ (job[r].stmt = "verify" => k \in live)
  BY DEF Verify, Revoke, Working, Statements, JobsKnown, SInv, JobsHonest, history
<1>2. CASE UNCHANGED flight
  <2>1. live' = live \/ (job[r].stmt = "revoke" /\ live' = live \ {k})
    BY DEF Verify, Revoke
  <2>2. LiveKnown
    BY <1>1, <2>1 DEF LiveKnown, Listened
  <2>3. \A s \in Requests : GotKnown(s)
    BY <1>1 DEF GotKnown
  <2>4. CookieSound'
    BY <1>1, <1>2, <2>2, <2>3, CookieStays
  <2>5. JobsHonest'
    <3>1. SUFFICES ASSUME NEW s \in Requests, Working(s)', job'[s].key \notin spoiled
                   PROVE  Listened(s)' /\ (job'[s].stmt = "verify" => job'[s].key \in live')
      BY <1>1 DEF JobsHonest
    <3>2. CASE s = r
      <4>1. job'[r].key = k /\ job'[r].stmt # "verify"
        BY <3>1, <3>2 DEF Verify, Revoke, Working, Statements, NoJob, Types, JobTypes
      <4> QED BY <1>1, <1>2, <3>1, <3>2, <4>1 DEF Listened
    <3>3. CASE s # r
      <4>1. job'[s] = job[s] /\ Working(s)
        BY <3>1, <3>3 DEF Verify, Revoke, Types, Working
      <4>2. Listened(s) /\ (job[s].stmt = "verify" => job[s].key \in live)
        BY <3>1, <4>1 DEF SInv, JobsHonest
      <4>3. job[s].key # k \/ live' = live
        BY <1>1, <2>1, <3>1, <3>3, <4>1, <4>2 DEF Listened
      <4> QED BY <1>2, <2>1, <4>1, <4>2, <4>3 DEF Listened
    <3> QED BY <3>2, <3>3
  <2> QED BY <1>1, <1>2, <2>2, <2>3, <2>4, <2>5, StillSound
<1>3. CASE flight' # flight
  <2>1. /\ Listened(r) /\ job[r].stmt = "verify" /\ k \notin live /\ UNCHANGED live
        /\ job' = [job EXCEPT ![r] = NoJob] /\ flight' = [flight EXCEPT ![k] = f]
    BY <1>3 DEF Verify, Revoke, Settles, Listened
  <2>2. k \in spoiled
    BY <1>1, <2>1
  <2>3. f.st = "settled" /\ f.pair = 0 /\ NoJob.stmt \notin Statements
    BY DEF NoFlight, NoJob, Statements
  <2> HIDE DEF f
  <2>4. /\ flight'[k] = f /\ \A l \in 1..last : l # k => flight'[l] = flight[l]
        /\ \A s \in Requests : Working(s)' => s # r /\ job'[s] = job[s]
    BY <1>1, <2>1, <2>3 DEF Types, Working
  <2>5. \A l \in 1..last : MayExpire(l) => MayExpire(l)'
    <3>1. 0 \notin 1..last
      BY DEF Types
    <3>2. \A l \in 1..last' : flight'[l].pair \in {0, flight[l].pair}
      BY <1>1, <2>3, <2>4
    <3> QED BY <1>1, <3>1, <3>2, ExpiredStays
  <2>6. JobsHonest'
    <3>1. SUFFICES ASSUME NEW s \in Requests, Working(s)', job'[s].key \notin spoiled
                   PROVE  Listened(s)' /\ (job'[s].stmt = "verify" => job'[s].key \in live')
      BY <1>1 DEF JobsHonest
    <3>2. job'[s] = job[s] /\ Working(s)
      BY <2>4, <3>1 DEF Working
    <3>3. job[s].key # k /\ job[s].key \in 1..last
      BY <2>2, <3>1, <3>2 DEF JobsKnown
    <3> QED BY <2>1, <2>4, <3>1, <3>2, <3>3 DEF SInv, JobsHonest, Listened
  <2>7. \A l \in 1..last : flight'[l] = flight[l] \/ (l \in spoiled' /\ flight[l].st # "none" /\ flight'[l].pair = 0)
    BY <1>1, <2>1, <2>2, <2>3, <2>4 DEF Listened
  <2> QED BY <1>1, <2>1, <2>5, <2>6, <2>7, SpoiledFlights
<1> QED BY <1>2, <1>3

\* Whoever settles a refresh waits for it, and so brings the pair.
LEMMA IssueSound ==
    ASSUME IInv, IInv', SInv, NEW r \in Requests, Issue(r) \/ IssueChanged(r)
    PROVE  SInv'
<1> DEFINE k == job[r].key
           f == [NoFlight EXCEPT !.st = "settled", !.pair = last + 1]
           wide == Flights(last + 1)
           settles == Issue(r) /\ Listened(r)
           q == [req[r] EXCEPT !.pc = "back", !.sets = "set", !.got = last + 1]
           moves == IssueChanged(r) /\ req[r].pc = "changing"
<1> USE DEF IInv
<1>1. /\ UNCHANGED <<at, rt, spoiled, mishap>> /\ last' = last + 1 /\ live' = live \cup {last + 1}
      /\ job' = [job EXCEPT ![r] = NoJob] /\ last \in Nat
      /\ Issue(r) => Working(r) /\ k \in 1..last
      /\ rt = 0 \/ rt \in 1..last
  BY DEF Issue, IssueChanged, Issues, Working, Statements, JobsKnown, cookies, history, Types
<1>2. /\ \A l \in 1..last : wide[l] = flight[l]
      /\ wide[last + 1] = NoFlight /\ DOMAIN wide = 1..(last + 1)
      /\ 1..last' = 1..last \cup {last + 1} /\ last + 1 \notin 1..last
  BY <1>1 DEF Flights, Types
<1>3. flight' = IF settles THEN [wide EXCEPT ![k] = f] ELSE wide
  BY <1>1 DEF Issue, IssueChanged, Settles, Listened
<1>4. f.st = "settled" /\ f.pair = last + 1 /\ f.age = 0 /\ NoFlight.st = "none" /\ NoFlight.pair = 0
      /\ NoJob.stmt \notin Statements
  BY DEF NoFlight, NoJob, Statements
<1> HIDE DEF f, wide
<1>5. /\ \A l \in 1..last : ~(settles /\ l = k) => flight'[l] = flight[l]
      /\ settles => flight'[k] = f
      /\ flight'[last + 1].st = "none" /\ flight'[last + 1].pair = 0
      /\ \A s \in Requests : Working(s)' => s # r /\ job'[s] = job[s]
  <2>1. \A s \in Requests : Working(s)' => s # r /\ job'[s] = job[s]
    BY <1>1, <1>4 DEF Types, Working
  <2> QED BY <1>1, <1>2, <1>3, <1>4, <2>1
<1>6. req' = (IF moves THEN [req EXCEPT ![r] = q] ELSE req)
  BY DEF Issue, IssueChanged, Types
<1>7. req[r] \in RequestTypes(last) /\ RequestSound(r)
  BY DEF Types, SInv
<1>8. /\ q.pc = "back" /\ q.sets = "set" /\ q.got = last + 1 /\ q.age = req[r].age
      /\ q.at = req[r].at /\ q.rt = req[r].rt
  BY <1>7 DEF RequestTypes
<1> HIDE DEF q
<1>9. /\ moves => req'[r] = q
      /\ \A s \in Requests : s # r \/ ~moves => req'[s] = req[s]
  BY <1>6 DEF Types
<1> HIDE DEF settles, moves
<1>10. settles => flight[k].st = "pending" /\ req[r].pc = "waiting" /\ req[r].rt = k /\ k \in 1..last
  BY <1>1 DEF settles, JobsKnown, Listened
<1>11. moves => req[r].pc = "changing"
  BY DEF moves
<1>12. \A l \in 1..last : MayExpire(l) => MayExpire(l)'
  <2>1. 0 \notin 1..last /\ last + 1 \notin 1..last
    BY <1>1
  <2>2. \A s \in Requests : req'[s].got \in {last + 1, req[s].got}
    BY <1>8, <1>9
  <2>3. \A l \in 1..last' : flight'[l].pair \in {0, last + 1} \/ (l \in 1..last /\ flight'[l].pair = flight[l].pair)
    BY <1>2, <1>4, <1>5
  <2> QED BY <2>1, <2>2, <2>3, ExpiredStays
<1>13. \A s \in Requests : RequestSound(s)'
  <2>1. TAKE s \in Requests
  <2>2. RequestSound(s) /\ req[s].rt \in 0..last
    BY DEF SInv, Types, RequestTypes
  <2>3. req[s].rt \in 1..last \/ req[s].rt = 0
    BY <1>1, <2>2
  <2>4. req'[s].at = req[s].at /\ req'[s].rt = req[s].rt
    BY <1>8, <1>9
  <2>5. PairHeld(req[s].at, req[s].rt)'
    BY <1>12, <2>2, <2>3, <2>4 DEF RequestSound, PairHeld
  <2>6. CASE s = r /\ moves
    <3>1. req[r].age = 0
      BY <1>7, <1>11, <2>6, AgeTypes DEF RequestSound, InTime, Leg
    <3>2. InTime(s)' /\ AnswerSound(s)' /\ TokenUsable(s)'
      BY <1>1, <1>8, <1>9, <2>6, <3>1, TimesType DEF InTime, Leg, AnswerSound, TokenUsable, MayRefresh
    <3> QED BY <2>5, <3>2 DEF RequestSound
  <2>7. CASE s # r \/ ~moves
    <3>1. req'[s] = req[s]
      BY <1>9, <2>7
    <3>2. InTime(s)' /\ AnswerSound(s)'
      BY <1>1, <2>2, <3>1 DEF RequestSound, InTime, AnswerSound
    <3>3. TokenUsable(s)'
      <4>1. SUFFICES ASSUME MayRefresh(s), Unspoiled(req[s].rt)
                     PROVE  /\ Usable(req[s].rt)'
                            /\ flight'[req[s].rt].st = "settled" =>
                                  flight'[req[s].rt].age <=
                                      CallTime + Transit + IF req[s].pc = "out" THEN req[s].age ELSE Transit
        BY <1>1, <3>1 DEF TokenUsable, MayRefresh, Unspoiled, Usable
      <4>2. req[s].rt \in 1..last /\ req[s].age \in Nat
        BY <2>3, <4>1, AgeTypes DEF Unspoiled
      <4>3. CASE settles /\ req[s].rt = k
        BY <1>4, <1>5, <3>1, <4>2, <4>3, TimesType DEF Usable
      <4>4. CASE ~(settles /\ req[s].rt = k)
        <5>1. flight'[req[s].rt] = flight[req[s].rt]
          BY <1>5, <4>2, <4>4
        <5> QED BY <1>1, <2>2, <3>1, <4>1, <5>1 DEF RequestSound, TokenUsable, Usable
      <4> QED BY <4>3, <4>4
    <3> QED BY <2>5, <3>2, <3>3 DEF RequestSound
  <2> QED BY <2>6, <2>7
<1>14. CookieSound'
  <2>1. PairHeld(at, rt)'
    BY <1>1, <1>12 DEF SInv, CookieSound, PairHeld
  <2>2. CookieUsable'
    BY <1>1, <1>4, <1>5 DEF SInv, CookieSound, CookieUsable
  <2>3. AnswerUnderWay'
    <3>1. SUFFICES ASSUME Unspoiled(rt), flight'[rt].st = "settled"
                   PROVE  \E s \in Requests : Brings(s, rt)'
      BY <1>1 DEF AnswerUnderWay, Unspoiled
    <3>2. rt \in 1..last
      BY <1>1, <3>1 DEF Unspoiled
    <3>3. CASE settles /\ rt = k
      <4>1. req'[r] = req[r]
        BY <1>9, <1>10, <1>11, <3>3
      <4>2. req[r].kind # "logout"
        BY <1>7, <1>10, <3>3 DEF RequestSound, AnswerSound
      <4> QED BY <1>1, <1>4, <1>5, <1>10, <3>3, <4>1, <4>2 DEF Brings
    <3>4. CASE ~(settles /\ rt = k)
      <4>1. flight'[rt] = flight[rt]
        BY <1>5, <3>2, <3>4
      <4>2. PICK s \in Requests : Brings(s, rt)
        BY <3>1, <4>1 DEF SInv, CookieSound, AnswerUnderWay
      <4>3. req'[s] = req[s]
        BY <1>9, <1>11, <4>2 DEF Brings
      <4> QED BY <1>1, <4>1, <4>2, <4>3 DEF Brings
    <3> QED BY <3>3, <3>4
  <2> QED BY <2>1, <2>2, <2>3 DEF CookieSound
<1>15. FreshUnused'
  <2>1. SUFFICES ASSUME NEW l \in 1..last', ~MayExpire(l)'
                 PROVE  flight'[l].st = "none" /\ (l \in live' \/ l \in spoiled')
    BY DEF FreshUnused
  <2>2. CASE l = last + 1
    BY <1>1, <1>5, <2>2
  <2>3. CASE l \in 1..last
    <3>1. flight[l].st = "none" /\ (l \in live \/ l \in spoiled)
      BY <1>12, <2>1, <2>3 DEF SInv, FreshUnused
    <3> QED BY <1>1, <1>5, <1>10, <2>3, <3>1
  <2> QED BY <1>2, <2>2, <2>3
<1>16. JobsHonest'
  <2>1. SUFFICES ASSUME NEW s \in Requests, Working(s)', job'[s].key \notin spoiled
                 PROVE  Listened(s)' /\ (job'[s].stmt = "verify" => job'[s].key \in live')
    BY <1>1 DEF JobsHonest
  <2>2. s # r /\ job'[s] = job[s] /\ Working(s)
    BY <1>5, <2>1 DEF Working
  <2>3. /\ Listened(s) /\ (job[s].stmt = "verify" => job[s].key \in live)
        /\ job[s].key \in 1..last
    BY <2>1, <2>2 DEF SInv, JobsHonest, JobsKnown
  <2>4. ~(settles /\ job[s].key = k)
    BY <2>2, <2>3 DEF settles, Listened
  <2> QED BY <1>1, <1>5, <2>2, <2>3, <2>4 DEF Listened
<1>17. RefusedSpoiled'
  <2>1. SUFFICES ASSUME NEW l \in 1..last', flight'[l].st = "settled", flight'[l].pair = 0
                 PROVE  l \in spoiled
    BY <1>1 DEF RefusedSpoiled
  <2>2. l \in 1..last /\ flight'[l] = flight[l]
    BY <1>1, <1>2, <1>4, <1>5, <2>1
  <2> QED BY <2>1, <2>2 DEF SInv, RefusedSpoiled
<1> QED BY <1>13, <1>14, <1>15, <1>16, <1>17 DEF SInv

\* No answer is late enough for the refresh it may have to share to be forgotten.
LEMMA TickSound ==
    ASSUME IInv, IInv', SInv, Tick
    PROVE  SInv'
<1> USE DEF IInv
<1>1. /\ UNCHANGED <<at, rt, job, live, last, spoiled, mishap>>
      /\ \A k \in 1..last : flight'[k] = Older(flight[k])
      /\ \A s \in Requests : req[s].pc = "waiting" => flight[req[s].rt].st = "pending"
  BY DEF Tick, cookies, backend, history
<1>2. \A s \in Requests :
         /\ req'[s].pc = req[s].pc /\ req'[s].kind = req[s].kind /\ req'[s].at = req[s].at
         /\ req'[s].rt = req[s].rt /\ req'[s].got = req[s].got /\ req'[s].sets = req[s].sets
         /\ IF req[s].pc \in {"out", "calling", "back"}
            THEN req'[s].age = req[s].age + 1 /\ req[s].age < Leg(req[s].pc)
            ELSE req'[s].age = req[s].age
  <2>1. TAKE s \in Requests
  <2>2. req[s] \in RequestTypes(last)
    BY DEF Types
  <2>3. /\ DOMAIN Legs = {"out", "calling", "back"}
        /\ \A pc \in {"out", "calling", "back"} : Legs[pc] = Leg(pc)
    BY DEF Legs, Leg
  <2>4. /\ req'[s] = IF req[s].pc \in DOMAIN Legs THEN [req[s] EXCEPT !.age = @ + 1] ELSE req[s]
        /\ req[s].pc \in DOMAIN Legs => req[s].age < Legs[req[s].pc]
    BY DEF Tick
  <2> QED BY <2>2, <2>3, <2>4 DEF RequestTypes
<1>3. \A k \in 1..last :
         /\ flight[k].st # "settled" => flight'[k] = flight[k]
         /\ flight[k].st = "settled" => flight'[k].pair \in {0, flight[k].pair}
         /\ flight[k].st = "settled" /\ flight[k].age + 1 # Grace => flight'[k].st = "settled"
         /\ flight'[k].st = "settled" =>
                /\ flight[k].st = "settled" /\ flight'[k].age = flight[k].age + 1
                /\ flight'[k].pair = flight[k].pair
  <2>1. TAKE k \in 1..last
  <2>2. flight[k] \in FlightTypes(last) /\ flight'[k] = Older(flight[k])
    BY <1>1 DEF Types
  <2> QED BY <2>2 DEF FlightTypes, Older, NoFlight
<1>4. /\ \A s \in Requests : req[s].age \in Nat /\ req'[s].age \in Nat
      /\ \A k \in 1..last : flight[k].age \in Nat
      /\ rt = 0 \/ rt \in 1..last
  BY <1>2, AgeTypes DEF Types
<1>5. \A l \in 1..last : MayExpire(l) => MayExpire(l)'
  <2>1. 0 \notin 1..last
    BY DEF Types
  <2> QED BY <1>1, <1>2, <1>3, <2>1, ExpiredStays
<1>6. \A s \in Requests : RequestSound(s)'
  <2>1. TAKE s \in Requests
  <2>2. RequestSound(s) /\ req[s].rt \in 0..last /\ last \in Nat
    BY DEF SInv, Types, RequestTypes
  <2>3. req[s].rt \in 1..last \/ req[s].rt = 0
    BY <2>2
  <2>4. InTime(s)'
    BY <1>2, <1>4, <2>2, TimesType DEF RequestSound, InTime, Leg
  <2>5. AnswerSound(s)'
    BY <1>1, <1>2, <2>2 DEF RequestSound, AnswerSound
  <2>6. PairHeld(req[s].at, req[s].rt)'
    BY <1>2, <1>5, <2>2, <2>3 DEF RequestSound, PairHeld
  <2>7. TokenUsable(s)'
    <3>1. SUFFICES ASSUME MayRefresh(s)', Unspoiled(req[s].rt)
                   PROVE  /\ Usable(req[s].rt)'
                          /\ flight'[req[s].rt].st = "settled" =>
                                flight'[req[s].rt].age <=
                                    CallTime + Transit + IF req[s].pc = "out" THEN req'[s].age ELSE Transit
      BY <1>1, <1>2 DEF TokenUsable, Unspoiled, Usable
    <3>2. req[s].pc = "out" /\ MayRefresh(s) /\ req'[s].age = req[s].age + 1 /\ req[s].age < Transit
      BY <1>2, <1>4, <3>1 DEF MayRefresh, Leg
    <3>3. req[s].rt \in 1..last
      BY <2>3, <3>1 DEF Unspoiled
    <3>4. /\ Usable(req[s].rt)
          /\ flight[req[s].rt].st = "settled" =>
                flight[req[s].rt].age <= CallTime + Transit + req[s].age
      BY <2>2, <3>1, <3>2 DEF RequestSound, TokenUsable
    <3>5. flight[req[s].rt].st = "settled" => flight[req[s].rt].age + 1 # Grace
      BY <1>4, <3>2, <3>3, <3>4, TimesType
    <3>6. Usable(req[s].rt)'
      BY <1>1, <1>3, <2>2, <1>2, <3>3, <3>4, <3>5 DEF Usable
    <3>7. flight'[req[s].rt].st = "settled" => flight'[req[s].rt].age <= CallTime + Transit + req'[s].age
      BY <1>3, <1>4, <3>2, <3>3, <3>4, TimesType
    <3> QED BY <3>2, <3>6, <3>7
  <2> QED BY <2>4, <2>5, <2>6, <2>7 DEF RequestSound
<1>7. CookieSound'
  <2>1. PairHeld(at, rt)'
    BY <1>1, <1>4, <1>5 DEF SInv, CookieSound, PairHeld
  <2>2. ASSUME Unspoiled(rt), flight[rt].st = "settled"
        PROVE  /\ flight[rt].age + 1 # Grace
               /\ \E s \in Requests :
                     /\ req[s].rt = rt /\ req[s].kind # "logout" /\ req[s].pc \in {"calling", "back"}
                     /\ req[s].sets = "set" /\ req[s].got = flight[rt].pair
                     /\ flight[rt].age <= req[s].age + IF req[s].pc = "back" THEN CallTime ELSE 0
    <3>1. PICK s \in Requests : Brings(s, rt)
      BY <2>2 DEF SInv, CookieSound, AnswerUnderWay
    <3>2. req[s].pc # "waiting"
      BY <1>1, <2>2, <3>1 DEF Brings
    <3>3. req[s].age < Leg(req[s].pc) /\ rt \in 1..last
      BY <1>2, <1>4, <2>2, <3>1, <3>2 DEF Brings, Unspoiled
    <3>4. flight[rt].age + 1 # Grace
      BY <1>4, <3>1, <3>2, <3>3, TimesType DEF Brings, Leg
    <3> QED BY <3>1, <3>2, <3>4 DEF Brings
  <2>3. CookieUsable'
    <3>1. SUFFICES ASSUME Unspoiled(rt), rt \notin live
                   PROVE  flight'[rt].st # "none"
      BY <1>1 DEF CookieUsable, Unspoiled
    <3>2. rt \in 1..last /\ flight[rt].st # "none"
      BY <1>4, <3>1 DEF SInv, CookieSound, CookieUsable, Unspoiled
    <3> QED BY <1>3, <2>2, <3>1, <3>2
  <2>4. AnswerUnderWay'
    <3>1. SUFFICES ASSUME Unspoiled(rt), flight'[rt].st = "settled"
                   PROVE  \E s \in Requests : Brings(s, rt)'
      BY <1>1 DEF AnswerUnderWay, Unspoiled
    <3>2. rt \in 1..last
      BY <1>4, <3>1 DEF Unspoiled
    <3>3. /\ flight[rt].st = "settled" /\ flight'[rt].age = flight[rt].age + 1
          /\ flight'[rt].pair = flight[rt].pair
      BY <1>3, <3>1, <3>2
    <3>4. PICK s \in Requests :
             /\ req[s].rt = rt /\ req[s].kind # "logout" /\ req[s].pc \in {"calling", "back"}
             /\ req[s].sets = "set" /\ req[s].got = flight[rt].pair
             /\ flight[rt].age <= req[s].age + IF req[s].pc = "back" THEN CallTime ELSE 0
      BY <2>2, <3>1, <3>3
    <3> QED BY <1>1, <1>2, <1>4, <3>2, <3>3, <3>4, TimesType DEF Brings
  <2> QED BY <2>1, <2>3, <2>4 DEF CookieSound
<1>8. FreshUnused'
  BY <1>1, <1>3, <1>5 DEF SInv, FreshUnused
<1>9. JobsHonest'
  <2>1. \A s \in Requests : Working(s) => job[s].key \in 1..last
    BY DEF JobsKnown
  <2> QED BY <1>1, <1>3, <2>1 DEF SInv, JobsHonest, Working, Listened
<1>10. RefusedSpoiled'
  BY <1>1, <1>3 DEF SInv, RefusedSpoiled
<1> QED BY <1>6, <1>7, <1>8, <1>9, <1>10 DEF SInv

-----------------------------------------------------------------------------
(* The invariant and what follows from it.                                 *)

LEMMA StepSInv == IInv /\ IInv' /\ SInv /\ [Next]_vars => SInv'
<1> SUFFICES ASSUME IInv, IInv', SInv, [Next]_vars PROVE SInv'
  OBVIOUS
<1>1. ASSUME NEW r \in Requests,
             (\E kind \in Kinds : Send(r, kind)) \/ Receive(r) \/ Lose(r)
      PROVE  SInv'
  BY <1>1, SendSound, ReceiveSound, LoseSound
<1>2. ASSUME NEW r \in Requests, Arrive(r) \/ Resume(r) \/ PassOn(r) \/ Unauthorized(r)
      PROVE  SInv'
  BY <1>2, ServerSound, ResumeSound, PassOnSound
<1>3. ASSUME NEW r \in Requests, CallFails(r) \/ LogOut(r) \/ FlightFails(r)
      PROVE  SInv'
  BY <1>3, AbandonSound, FlightFailsSound
<1>4. ASSUME NEW r \in Requests, Verify(r) \/ Revoke(r) \/ Issue(r) \/ IssueChanged(r)
      PROVE  SInv'
  BY <1>4, VerifySound, IssueSound
<1>5. CASE SignedOutElsewhere \/ \E r \in Requests : ChangePassword(r)
  BY <1>5, RevokeAllSound
<1>6. CASE AccessExpires \/ Restart \/ Tick
  BY <1>6, AccessExpiresSound, RestartSound, TickSound
<1>7. CASE UNCHANGED vars
  <2>1. UNCHANGED <<at, rt, req, flight, job, live, last, spoiled, mishap>>
    BY <1>7 DEF vars, cookies, backend, history
  <2>2. Types /\ Types' /\ LiveKnown /\ \A s \in Requests : GotKnown(s)
    BY <2>1 DEF IInv, LiveKnown, GotKnown
  <2>3. UNCHANGED cookies
    BY <2>1 DEF cookies
  <2>4. CookieSound'
    BY <2>1, <2>2, <2>3, CookieStays
  <2>5. JobsHonest'
    BY <2>1, JobsStay DEF Working
  <2> QED BY <2>1, <2>2, <2>4, <2>5, StillSound
<1> QED BY <1>1, <1>2, <1>3, <1>4, <1>5, <1>6, <1>7 DEF Next

LEMMA SInvHolds == Spec => [](IInv /\ SInv)
<1>1. Init => SInv
  BY InitSInv
<1> QED BY <1>1, InitIInv, StepIInv, StepSInv, PTL DEF Spec

\* The refresh token of the cookie still works or its refresh is there to be shared, whatever
\* the order of requests and answers, for every grace window longer than a call and two ways
\* (session.ts:30-38).
THEOREM CookieStaysUsable == Spec => []CookieUsable
<1>1. IInv /\ SInv => CookieUsable
  BY DEF SInv, CookieSound
<1> QED BY <1>1, SInvHolds, PTL

\* Requests that find the access token expired together do not sign the browser out: cookies
\* are cleared by a logout only, or for a token that had been spoiled (session.ts:30-38).
THEOREM RefreshSignsNobodyOut == Spec => NotSignedOutByRefresh
<1> DEFINE Cleared == \E r \in Requests : /\ req[r].pc = "back" /\ req'[r].pc = "done"
                                          /\ req[r].kind = "logout" \/ req[r].rt \in spoiled
<1>1. IInv /\ SInv /\ [Next]_vars => [rt # 0 /\ rt' = 0 => Cleared]_vars
  <2> SUFFICES ASSUME IInv, SInv, [Next]_vars, rt # 0, rt' = 0 PROVE Cleared
    OBVIOUS
  <2>1. PICK r \in Requests : Receive(r)
    BY DEF Next, vars, cookies, Send, Lose, Arrive, Resume, PassOn, Unauthorized, CallFails,
           FlightFails, Verify, Revoke, Issue, ChangePassword, IssueChanged, LogOut,
           AccessExpires, Restart, SignedOutElsewhere, Tick
  <2>2. RequestSound(r) /\ req[r].sets \in {"keep", "set", "clear"}
    BY DEF IInv, SInv, Types, RequestTypes
  <2>3. req[r].sets = "clear"
    BY <2>1, <2>2 DEF Receive, cookies, RequestSound, AnswerSound
  <2>4. req'[r].pc = "done"
    BY <2>1 DEF Receive, Ends, Over, NotSent, IInv, Types
  <2> QED BY <2>1, <2>2, <2>3, <2>4 DEF RequestSound, AnswerSound
<1> QED BY <1>1, SInvHolds, PTL DEF Spec, NotSignedOutByRefresh
=============================================================================

-------------------------------- MODULE Login --------------------------------
(***************************************************************************)
(* The login endpoint and its failure counter: internal/auth/ratelimit.go, *)
(* loginHandler in internal/router/router.go, Service.Login in             *)
(* internal/auth/auth.go, ClientIP in internal/middleware/helpers.go.      *)
(*                                                                         *)
(* A request is checked against the counter by the middleware, then logs   *)
(* in against the database, then records how that went.  Each access to    *)
(* the counter is atomic (RateLimiter.mu); nothing holds across the three, *)
(* so requests interleave between them.  Login itself reads only the       *)
(* database: its outcome is a choice.                                      *)
(*                                                                         *)
(* Time is whole units of the (monotonic) clock.  The checking side and    *)
(* the recording side compute the client's key with different functions.   *)
(***************************************************************************)
EXTENDS Integers, FiniteSets

CONSTANTS Requests,     \* requests in progress at one time
          Clients,      \* client addresses
          V6,           \* those of them that are IPv6
          NoOrigin,     \* no request is in progress
          Max,          \* rateLimitMax (10)
          Window,       \* rateLimitWindow (60 s)
          MaxTime,      \* bound: the clock stops here
          MaxAttempts   \* bound: attempts let through to Login

ASSUME LimitAssumption ==
  /\ IsFiniteSet(Requests) /\ Requests # {}
  /\ V6 \subseteq Clients
  /\ {Max, Window} \subseteq Nat \ {0}
  /\ {MaxTime, MaxAttempts} \subseteq Nat

\* Where a request comes from: a client, seen directly ("none"), through a proxy
\* that names it first in X-Forwarded-For ("named"), or with a header whose
\* first value is blank.
Origins == [client : Clients, xff : {"none", "blank", "named"}]

ASSUME NoOriginAssumption == NoOrigin \notin Origins

\* the strings a client can be known by: its address, its IPv6 address still in
\* brackets, and the empty string
Empty == <<"empty">>
Keys == ({"ip", "bracketed"} \X Clients) \union {Empty}

VARIABLES
  now,          \* the clock
  failCount,    \* RateLimiter.entries: 0 where there is no entry
  windowStart,
  req,          \* progress of each request, or its response
  origin,       \* where it comes from, while it is in progress
  attempts,     \* number of requests let through so far
  uncleared     \* history: the failures that no success has cleared since; it
                \* forgets the others, as ResetOnSuccess does

vars == <<now, failCount, windowStart, req, origin, attempts, uncleared>>

Failures == [id : 1 .. MaxAttempts, at : Nat, origin : Origins, key : Keys]

TypeOK ==
  /\ now \in Nat
  /\ failCount \in [Keys -> Nat]
  /\ windowStart \in [Keys -> Nat]
  /\ req \in [Requests -> {"new", "login", "200", "400", "401", "429"}]
  /\ origin \in [Requests -> Origins \union {NoOrigin}]
  /\ \A r \in Requests : req[r] = "login" => origin[r] # NoOrigin
  /\ attempts \in 0 .. MaxAttempts
  /\ uncleared \subseteq Failures

Init ==
  /\ now = 0
  /\ failCount = [k \in Keys |-> 0]
  /\ windowStart = [k \in Keys |-> 0]
  /\ req = [r \in Requests |-> "new"]
  /\ origin = [r \in Requests |-> NoOrigin]
  /\ attempts = 0
  /\ uncleared = {}

------------------------------------------------------------------------------
(* Mistakes this code could have been written with; no action uses them. *)

\* instead of NextCount: an expired window keeps its count
NextCountKept(k) == failCount[k] + 1

\* instead of NextStart: every failure starts the window again
NextStartMoved(k) == now

\* instead of Cleared: a success forgives one failure
ClearedByOne(k) == failCount[k] - 1

\* instead of Expired: the window ends a unit early
ExpiredEarly(k) == failCount[k] = 0 \/ now - windowStart[k] >= Window - 1

\* instead of IsBlocked: an expired window still blocks
IsBlockedForGood(k) == failCount[k] >= Max

\* instead of IsBlocked: off by one
IsBlockedLate(k) == ~(failCount[k] = 0 \/ now - windowStart[k] >= Window)
                    /\ failCount[k] > Max

------------------------------------------------------------------------------
(* The two functions that name a client. *)

\* clientIP in ratelimit.go: a blank header is passed over, the port and the
\* brackets are removed
CheckKey(o) == <<"ip", o.client>>

\* ClientIP in helpers.go: a blank header gives the empty string; the text up to
\* the last colon is kept, brackets and all
RecordKey(o) ==
  CASE o.xff = "blank" -> Empty
    [] o.xff = "none" /\ o.client \in V6 -> <<"bracketed", o.client>>
    [] OTHER -> <<"ip", o.client>>

(* RateLimiter. *)

\* there is no entry, or its window has passed
Expired(k) == failCount[k] = 0 \/ now - windowStart[k] >= Window

IsBlocked(k) == ~Expired(k) /\ failCount[k] >= Max

NextCount(k) == IF Expired(k) THEN 1 ELSE failCount[k] + 1
NextStart(k) == IF Expired(k) THEN now ELSE windowStart[k]

\* ResetOnSuccess deletes the entry
Cleared(k) == 0

------------------------------------------------------------------------------
(* Requests. *)

Waiting(r) == req[r] # "login"

\* the middleware answers 429
Refuse(r, o) ==
  /\ Waiting(r)
  /\ IsBlocked(CheckKey(o))
  /\ req' = [req EXCEPT ![r] = "429"]
  /\ UNCHANGED <<now, failCount, windowStart, origin, attempts, uncleared>>

\* the middleware lets the request through
Admit(r, o) ==
  /\ Waiting(r)
  /\ ~IsBlocked(CheckKey(o))
  /\ attempts < MaxAttempts
  /\ attempts' = attempts + 1
  /\ req' = [req EXCEPT ![r] = "login"]
  /\ origin' = [origin EXCEPT ![r] = o]
  /\ UNCHANGED <<now, failCount, windowStart, uncleared>>

\* a body that is not JSON is neither a failure nor a success
BadBody(r) ==
  /\ req[r] = "login"
  /\ req' = [req EXCEPT ![r] = "400"]
  /\ origin' = [origin EXCEPT ![r] = NoOrigin]
  /\ UNCHANGED <<now, failCount, windowStart, attempts, uncleared>>

\* failures in the history are told apart by a label that is not in use
FreshId == CHOOSE id \in 1 .. MaxAttempts : \A f \in uncleared : f.id # id

\* Login returns an error, of the credentials or of the database; RecordFailure
LoginFails(r) ==
  LET k == RecordKey(origin[r]) IN
  /\ req[r] = "login"
  /\ req' = [req EXCEPT ![r] = "401"]
  /\ origin' = [origin EXCEPT ![r] = NoOrigin]
  /\ failCount' = [failCount EXCEPT ![k] = NextCount(k)]
  /\ windowStart' = [windowStart EXCEPT ![k] = NextStart(k)]
  /\ uncleared' = uncleared \union
       {[id |-> FreshId, at |-> now, origin |-> origin[r], key |-> k]}
  /\ UNCHANGED <<now, attempts>>

\* Login returns a token; ResetOnSuccess, after which the failures before it are
\* no longer uncleared
LoginSucceeds(r) ==
  LET k == RecordKey(origin[r]) IN
  /\ req[r] = "login"
  /\ req' = [req EXCEPT ![r] = "200"]
  /\ origin' = [origin EXCEPT ![r] = NoOrigin]
  /\ failCount' = [failCount EXCEPT ![k] = Cleared(k)]
  /\ windowStart' = [windowStart EXCEPT ![k] = 0]
  /\ uncleared' = {f \in uncleared : f.key # k}
  /\ UNCHANGED <<now, attempts>>

Tick ==
  /\ now < MaxTime
  /\ now' = now + 1
  /\ UNCHANGED <<failCount, windowStart, req, origin, attempts, uncleared>>

Next ==
  \/ Tick
  \/ \E r \in Requests :
       \/ BadBody(r) \/ LoginFails(r) \/ LoginSucceeds(r)
       \/ \E o \in Origins : Refuse(r, o) \/ Admit(r, o)

Spec == Init /\ [][Next]_vars

------------------------------------------------------------------------------
(* Properties. *)

\* The counter of a key is the number of failures recorded under it since its
\* window began and since its last success, whatever requests interleave; where
\* there is no counter, no failure is uncleared.
FailCountExact ==
  \A k \in Keys :
    failCount[k] = Cardinality({f \in uncleared : f.key = k /\ f.at >= windowStart[k]})

\* failures still counted against a key
Counted(k) == IF Expired(k) THEN 0 ELSE failCount[k]

\* requests past the check whose failure would be counted under the key
InFlight(k) == {r \in Requests : req[r] = "login" /\ RecordKey(origin[r]) = k}

\* every request counted under the key was checked under it
CheckedKey(k) == \A o \in Origins : RecordKey(o) = k => CheckKey(o) = k

\* Checking and recording are not one step, so more than Max failures can be
\* counted; but never more than one for each request that was past the check
\* when the last allowed failure was recorded.
OvershootBound ==
  \A k \in Keys : CheckedKey(k) =>
    Counted(k) + Cardinality(InFlight(k)) <= Max - 1 + Cardinality(Requests)

\* The window does not slide: its end drops the whole count, so the failures of
\* the last Window that no success has cleared can be those of two counts.  They
\* are never more than what two counts may hold, less the failure that began the
\* first of them.  A success starts afresh: with those that were cleared, the last
\* Window may hold any number of failures.
UnclearedBound ==
  \A k \in Keys : CheckedKey(k) =>
    Cardinality({f \in uncleared : f.key = k /\ now - f.at < Window})
      <= 2 * (Max - 1 + Cardinality(Requests)) - 1

\* A request is refused only if Max failures were recorded in the last Window
\* under the key it is checked by, with no success after them: a success, or
\* time, lifts every refusal.
RefusalIsJustified ==
  [][\A r \in Requests, o \in Origins : Refuse(r, o) =>
       Cardinality({f \in uncleared : f.key = CheckKey(o) /\ now - f.at < Window})
         >= Max]_vars

\* Failures of requests that were under way do not prolong a block: it ends when
\* Window has passed since the failure that began the count, so the Retry-After
\* of a refusal, always a whole Window, is never too short.
BlockIsNotProlonged ==
  [][\A k \in Keys : IsBlocked(k) /\ IsBlocked(k)' =>
       windowStart'[k] = windowStart[k]]_vars

------------------------------------------------------------------------------
(* What the comments say and the code does not do. *)

\* "per-IP ... failure counter": while no window has had time to pass, a client
\* seen directly that has Max failures is blocked.
CountedPerIP ==
  \A c \in Clients :
    Cardinality({f \in uncleared : f.origin = [client |-> c, xff |-> "none"]}) >= Max
      => IsBlocked(CheckKey([client |-> c, xff |-> "none"]))
==============================================================================

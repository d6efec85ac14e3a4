--------------------------------- MODULE Api ---------------------------------
(***************************************************************************)
(* The HTTP API: the handlers of internal/router/router.go behind the      *)
(* middlewares of internal/middleware, with the stream gauge of            *)
(* internal/metrics/metrics.go, over the relay and the tenant registry.    *)
(*                                                                         *)
(* The relay is what it promises, StreamService without its audience; the  *)
(* registry is Tenants without stoppers, as nothing registers one and the  *)
(* routes that create and configure a tenant answer 501.  A handler calls  *)
(* the hub, then moves the gauge or reads the status, each in a step of    *)
(* its own, with the sessions of signaling and other requests in between.  *)
(*                                                                         *)
(* A get reads Stream.Status without the stream's lock.  A Go string is    *)
(* two words, read one after the other: if the status changed in between,  *)
(* the reply holds a text that is none of the statuses, "torn".            *)
(*                                                                         *)
(* Routes that change nothing here, bitrate events and the login have no   *)
(* action.                                                                 *)
(*                                                                         *)
(* Sessions are those of a client that got its WebSocket.  In the router   *)
(* as it is the logger's ResponseWriter cannot be hijacked and no client   *)
(* does; what holds here holds with and without them.                      *)
(***************************************************************************)
EXTENDS Integers, FiniteSets

CONSTANTS Streams,      \* the ids newID can draw
          Unknown,      \* an id that no stream has
          TenantIds,
          Requests,     \* requests to the tenants' routes
          Suspends,     \* requests to suspend a tenant
          NoTenant, NoStopper

ASSUME ApiAssumption ==
  /\ IsFiniteSet(Streams) /\ IsFiniteSet(Requests)
  /\ Unknown \notin Streams
  /\ NoTenant \notin TenantIds
  /\ {"session", "none"} \intersect Requests = {}

VARIABLES
  phase,     \* phase of each stream
  tenantOf,  \* the tenant a stream was created for
  ender,     \* history: the request that ended it, or "session"
  gauge,     \* church_active_streams of each tenant
  row,       \* tenants.status
  call,      \* progress or result of each Suspend
  target,    \* its tenant
  active,    \* history: the tenant's streams when its row was updated
  req,       \* progress of each request, or its outcome
  kind,      \* what it asks for
  url,       \* the tenant that TenantResolution found for it
  id,        \* the stream id in its URL, or the one it made
  word,      \* the word of the status that was read first
  reply      \* the status in its reply

streamVars == <<phase, tenantOf, ender>>
tenantVars == <<row, call, target, active>>
routeVars  == <<kind, url, id>>
vars == <<phase, tenantOf, ender, gauge, row, call, target, active, req, kind,
          url, id, word, reply>>

Hub == INSTANCE StreamService
         WITH Seats <- {}, audience <- [s \in Streams |-> {}], fresh <- {}

Tenancy == INSTANCE Tenants
             WITH Stoppers <- {}, status <- row,
                  maxListeners <- [t \in TenantIds |-> 500],
                  streams <- [t \in TenantIds |-> NoStopper], unused <- {},
                  held <- [c \in Suspends |-> NoStopper],
                  runs <- [s \in {} |-> 0],
                  atStart <- [c \in Suspends |-> NoStopper]

Phases == Hub!Phases
Kinds  == {"create", "get", "delete", "pause", "resume"}
NoWord == "none"

ApiTypeOK ==
  /\ phase \in [Streams -> Phases]
  /\ tenantOf \in [Streams -> TenantIds \union {NoTenant}]
  /\ ender \in [Streams -> Requests \union {"session", "none"}]
  /\ gauge \in [TenantIds -> Int]
  /\ row \in [TenantIds -> {"none", "active", "suspended"}]
  /\ call \in [Suspends -> {"idle", "taking", "nil", "error"}]
  /\ target \in [Suspends -> TenantIds \union {NoTenant}]
  /\ active \in [Suspends -> SUBSET Streams]
  /\ req \in [Requests -> {"new", "routed", "moveGauge", "read", "ok", "error"}]
  /\ kind \in [Requests -> Kinds \union {"none"}]
  /\ url \in [Requests -> TenantIds \union {NoTenant}]
  /\ id \in [Requests -> Streams \union {Unknown}]
  /\ word \in [Requests -> Phases \union {NoWord}]
  /\ reply \in [Requests -> Phases \union {"none", "torn"}]
  /\ \A r \in Requests :
       /\ req[r] \in {"routed", "moveGauge", "read"} => url[r] \in TenantIds
       /\ req[r] = "moveGauge" => kind[r] \in {"create", "delete"} /\ id[r] \in Streams
       /\ req[r] = "read" => kind[r] = "get" /\ id[r] \in Streams
  /\ \A c \in Suspends : call[c] = "taking" => target[c] \in TenantIds

\* the rows were written by whoever set the tenants up
Init ==
  /\ phase = [s \in Streams |-> "absent"]
  /\ tenantOf = [s \in Streams |-> NoTenant]
  /\ ender = [s \in Streams |-> "none"]
  /\ gauge = [t \in TenantIds |-> 0]
  /\ row \in [TenantIds -> {"none", "active"}]
  /\ call = [c \in Suspends |-> "idle"]
  /\ target = [c \in Suspends |-> NoTenant]
  /\ active = [c \in Suspends |-> {}]
  /\ req = [r \in Requests |-> "new"]
  /\ kind = [r \in Requests |-> "none"]
  /\ url = [r \in Requests |-> NoTenant]
  /\ id = [r \in Requests |-> Unknown]
  /\ word = [r \in Requests |-> NoWord]
  /\ reply = [r \in Requests |-> "none"]

\* The ids that a client can have learned: those of finished creates.
Known == {s \in Streams : \E r \in Requests :
            kind[r] = "create" /\ req[r] = "ok" /\ id[r] = s}

OfTenant(t) == {s \in Streams : tenantOf[s] = t}
Ongoing == {s \in Streams : phase[s] \in {"pending", "live", "paused"}}
Running(t) == OfTenant(t) \intersect Ongoing

------------------------------------------------------------------------------
(* Mistakes this code could have been written with; no action uses them. *)

\* instead of Addressable: ids that can be told in advance
AddressableBefore == {s \in Streams : phase[s] # "absent"} \union {Unknown}

\* instead of Stop: an id that no stream has is stopped as well
StopAnyway(r) ==
  \/ /\ id[r] \in Ongoing
     /\ Hub!End(id[r])
     /\ ender' = [ender EXCEPT ![id[r]] = r]
  \/ /\ id[r] \notin Ongoing
     /\ UNCHANGED <<phase, ender>>

\* instead of CountEnd: the tenant of the stream is charged
CountEndOfStream(r) == [gauge EXCEPT ![tenantOf[id[r]]] = @ - 1]

------------------------------------------------------------------------------
(* The middlewares: TenantResolution looks at the row's existence only, then *)
(* AuthRequired lets the request through or not.                             *)

Addressable == Known \union {Unknown}

Enter(r, k, t) ==
  /\ req[r] = "new"
  /\ row[t] # "none"
  /\ req' = [req EXCEPT ![r] = "routed"]
  /\ kind' = [kind EXCEPT ![r] = k]
  /\ url' = [url EXCEPT ![r] = t]
  /\ \E s \in IF k = "create" THEN {Unknown} ELSE Addressable : id' = [id EXCEPT ![r] = s]
  /\ UNCHANGED <<streamVars, gauge, tenantVars, word, reply>>

\* no such tenant, or a token that does not do
Reject(r) ==
  /\ req[r] = "new"
  /\ req' = [req EXCEPT ![r] = "error"]
  /\ UNCHANGED <<streamVars, gauge, tenantVars, routeVars, word, reply>>

\* the hub has no such stream, or it is not in a state for the call
Refused(r) ==
  /\ req[r] = "routed"
  /\ \/ kind[r] \in {"get", "delete", "pause", "resume"} /\ id[r] = Unknown
     \/ kind[r] = "pause"  /\ id[r] \in Streams /\ phase[id[r]] # "live"
     \/ kind[r] = "resume" /\ id[r] \in Streams /\ phase[id[r]] # "paused"
  /\ req' = [req EXCEPT ![r] = "error"]
  /\ UNCHANGED <<streamVars, gauge, tenantVars, routeVars, word, reply>>

------------------------------------------------------------------------------
(* The handlers.  newID draws an id that is not in use. *)

Create(r, s) ==
  /\ req[r] = "routed" /\ kind[r] = "create"
  /\ Hub!Open(s)
  /\ tenantOf' = [tenantOf EXCEPT ![s] = url[r]]
  /\ id' = [id EXCEPT ![r] = s]
  /\ req' = [req EXCEPT ![r] = "moveGauge"]
  /\ UNCHANGED <<ender, gauge, tenantVars, kind, url, word, reply>>

\* StreamStarted; nobody else has the id yet, so the status is still the first
CountStart(r) ==
  /\ req[r] = "moveGauge" /\ kind[r] = "create"
  /\ gauge' = [gauge EXCEPT ![url[r]] = @ + 1]
  /\ req' = [req EXCEPT ![r] = "ok"]
  /\ reply' = [reply EXCEPT ![r] = phase[id[r]]]
  /\ UNCHANGED <<streamVars, tenantVars, routeVars, word>>

\* the stream may have ended already: then nothing is done and nil returned
Stop(r) ==
  \/ /\ id[r] \in Ongoing
     /\ Hub!End(id[r])
     /\ ender' = [ender EXCEPT ![id[r]] = r]
  \/ /\ id[r] \in Streams \ Ongoing
     /\ UNCHANGED <<phase, ender>>

Delete(r) ==
  /\ req[r] = "routed" /\ kind[r] = "delete"
  /\ Stop(r)
  /\ req' = [req EXCEPT ![r] = "moveGauge"]
  /\ UNCHANGED <<tenantOf, gauge, tenantVars, routeVars, word, reply>>

\* StreamEnded
CountEnd(r) == [gauge EXCEPT ![url[r]] = @ - 1]

FinishDelete(r) ==
  /\ req[r] = "moveGauge" /\ kind[r] = "delete"
  /\ gauge' = CountEnd(r)
  /\ req' = [req EXCEPT ![r] = "ok"]
  /\ UNCHANGED <<streamVars, tenantVars, routeVars, word, reply>>

PauseOrResume(r) ==
  /\ req[r] = "routed"
  /\ \/ kind[r] = "pause"  /\ id[r] \in Streams /\ Hub!Pause(id[r])
     \/ kind[r] = "resume" /\ id[r] \in Streams /\ Hub!Resume(id[r])
  /\ req' = [req EXCEPT ![r] = "ok"]
  /\ UNCHANGED <<tenantOf, ender, gauge, tenantVars, routeVars, word, reply>>

\* the two words of an unlocked read
ReadFirst(r) ==
  /\ req[r] = "routed" /\ kind[r] = "get" /\ id[r] \in Streams
  /\ word' = [word EXCEPT ![r] = phase[id[r]]]
  /\ req' = [req EXCEPT ![r] = "read"]
  /\ UNCHANGED <<streamVars, gauge, tenantVars, routeVars, reply>>

ReadSecond(r) ==
  /\ req[r] = "read"
  /\ reply' = [reply EXCEPT ![r] = IF phase[id[r]] = word[r] THEN word[r] ELSE "torn"]
  /\ req' = [req EXCEPT ![r] = "ok"]
  /\ UNCHANGED <<streamVars, gauge, tenantVars, routeVars, word>>

\* a signaling session of a client that knows the id
SessionStep(s) ==
  /\ s \in Addressable \ {Unknown}
  /\ \/ (Hub!GoLive(s) \/ Hub!Pause(s) \/ Hub!Resume(s)) /\ UNCHANGED ender
     \/ Hub!End(s) /\ ender' = [ender EXCEPT ![s] = "session"]
  /\ UNCHANGED <<tenantOf, gauge, tenantVars, req, routeVars, word, reply>>

------------------------------------------------------------------------------
(* adminSuspendTenantHandler: Registry.Suspend, its steps taken from Tenants. *)

SuspendUpdate(c, t) ==
  /\ Tenancy!SuspendUpdate(c, t)
  /\ active' = [active EXCEPT ![c] = Running(t)]
  /\ UNCHANGED <<streamVars, gauge, req, routeVars, word, reply>>

SuspendRefused(c, t) ==
  /\ Tenancy!SuspendRefused(c, t)
  /\ UNCHANGED <<streamVars, gauge, active, req, routeVars, word, reply>>

\* there is no stopper to take, so none to call
SuspendTake(c) ==
  /\ Tenancy!SuspendTake(c)
  /\ UNCHANGED <<streamVars, gauge, active, req, routeVars, word, reply>>

Next ==
  \/ \E r \in Requests :
       \/ \E t \in TenantIds, k \in Kinds : Enter(r, k, t)
       \/ \E s \in Streams : Create(r, s)
       \/ Reject(r) \/ Refused(r) \/ CountStart(r) \/ Delete(r) \/ FinishDelete(r)
       \/ PauseOrResume(r) \/ ReadFirst(r) \/ ReadSecond(r)
  \/ \E s \in Streams : SessionStep(s)
  \/ \E c \in Suspends :
       \/ SuspendTake(c)
       \/ \E t \in TenantIds : SuspendUpdate(c, t) \/ SuspendRefused(c, t)

Spec == Init /\ [][Next]_vars

------------------------------------------------------------------------------
(* Properties. *)

\* creates of the tenant between CreateStream and StreamStarted
Starting(t) ==
  {r \in Requests : kind[r] = "create" /\ req[r] = "moveGauge" /\ url[r] = t}

\* finished deletes in the tenant's name
Deletes(t) == {r \in Requests : kind[r] = "delete" /\ req[r] = "ok" /\ url[r] = t}

\* those of them that did not themselves end a stream of the tenant
Repeats(t) == {r \in Deletes(t) : \A s \in OfTenant(t) : ender[s] # r}

\* the tenant's streams that ended, but not by one of them
Missed(t) == {s \in OfTenant(t) \ Ongoing : ender[s] \notin Deletes(t)}

\* The gauge of a tenant, said to be its "number of currently live streams", is the
\* number of its streams that have not ended and are not being created, plus those
\* whose end it missed (they ended in a session, in another tenant's name, or in a
\* delete not yet counted), minus the deletes that ended none of its streams.
GaugeAccount ==
  \A t \in TenantIds :
    gauge[t] = Cardinality(Running(t)) - Cardinality(Starting(t))
               + Cardinality(Missed(t)) - Cardinality(Repeats(t))

\* What a reply says of a stream, read with no lock or after the call returned, was
\* so and is not undone: a stream is created pending; one reported ended has ended;
\* and one reported as anything but pending has been live.
RepliesAreTrue ==
  \A r \in Requests :
    /\ kind[r] = "create" /\ req[r] = "ok" => reply[r] = "pending"
    /\ reply[r] = "ended" => phase[id[r]] = "ended"
    /\ reply[r] \in {"live", "paused"} => phase[id[r]] \notin {"absent", "pending"}

\* "Terminate any active streams for this tenant": when a suspension has returned
\* nil, the streams that were active when it marked the tenant have ended.
SuspensionEndsStreams ==
  \A c \in Suspends : call[c] = "nil" => active[c] \intersect Ongoing = {}
==============================================================================

------------------------------- MODULE Tenants -------------------------------
(***************************************************************************)
(* The tenant registry: internal/tenant/tenant.go over the tenants table   *)
(* (internal/db/queries.go).                                               *)
(*                                                                         *)
(* A tenant stands for its id and its slug: the table makes slugs unique,  *)
(* and a Create with a slug in use changes nothing.  Suspend is the one    *)
(* method that is not atomic: it updates the row, then takes the stopper   *)
(* out of the map under r.mu, then calls it with no lock held.  A database *)
(* call may be refused, and an update may take effect with its reply lost. *)
(* Of the configuration only max_listeners is kept; an UpdateConfig that   *)
(* is rejected for its bitrates changes nothing and is no step.            *)
(*                                                                         *)
(* Stoppers are registered by the relay: one value for each call of        *)
(* RegisterStreamStopper.                                                  *)
(***************************************************************************)
EXTENDS Naturals, FiniteSets

CONSTANTS TenantIds, Stoppers,
          Suspends,     \* calls of Suspend
          NoTenant, NoStopper

ASSUME NilAssumption == NoTenant \notin TenantIds /\ NoStopper \notin Stoppers

VARIABLES
  status,        \* tenants.status, "none" while there is no row
  maxListeners,  \* tenants.max_listeners
  streams,       \* Registry.streams: the stopper of each tenant
  unused,        \* stoppers that were never registered
  call,          \* progress or result of each Suspend
  target,        \* its tenant
  held,          \* its local variable stopper
  runs,          \* history: how often each stopper was called
  atStart        \* history: the stopper registered when the row was updated

rowVars  == <<status, maxListeners>>
callVars == <<call, target, held, runs, atStart>>
vars == <<status, maxListeners, streams, unused, call, target, held, runs, atStart>>

DefaultMaxListeners == 500

TypeOK ==
  /\ status \in [TenantIds -> {"none", "active", "suspended"}]
  /\ maxListeners \in [TenantIds -> {0, DefaultMaxListeners}]
  /\ streams \in [TenantIds -> Stoppers \union {NoStopper}]
  /\ unused \subseteq Stoppers
  /\ call \in [Suspends -> {"idle", "taking", "calling", "nil", "error"}]
  /\ target \in [Suspends -> TenantIds \union {NoTenant}]
  /\ held \in [Suspends -> Stoppers \union {NoStopper}]
  /\ runs \in [Stoppers -> Nat]
  /\ atStart \in [Suspends -> Stoppers \union {NoStopper}]
  /\ \A c \in Suspends : call[c] = "calling" => held[c] # NoStopper

Init ==
  /\ status = [t \in TenantIds |-> "none"]
  /\ maxListeners = [t \in TenantIds |-> 0]
  /\ streams = [t \in TenantIds |-> NoStopper]
  /\ unused = Stoppers
  /\ call = [c \in Suspends |-> "idle"]
  /\ target = [c \in Suspends |-> NoTenant]
  /\ held = [c \in Suspends |-> NoStopper]
  /\ runs = [s \in Stoppers |-> 0]
  /\ atStart = [c \in Suspends |-> NoStopper]

------------------------------------------------------------------------------
(* Mistakes this code could have been written with; no action uses them. *)

\* instead of Without: the stopper is read and left in the map
Untouched(t) == streams

\* instead of AfterTake: a missing stopper is called all the same
AfterTakeUnchecked(s) == "calling"

\* instead of AfterUpdate: the stopper is left for a later call
AfterUpdateReturn == "nil"

------------------------------------------------------------------------------
\* INSERT: the table refuses a slug in use.  The limit is the one asked for, of
\* which the default stands for any that is not zero.
InsertTenant(t) ==
  /\ status[t] = "none"
  /\ status' = [status EXCEPT ![t] = "active"]
  /\ maxListeners' = [maxListeners EXCEPT ![t] = DefaultMaxListeners]

Create(t) ==
  /\ InsertTenant(t)
  /\ UNCHANGED <<streams, unused, callVars>>

\* The dbCfg it writes has no MaxListeners, and the UPDATE sets every column.
WrittenMaxListeners == 0

UpdateConfig(t) ==
  /\ status[t] # "none"
  /\ maxListeners' = [maxListeners EXCEPT ![t] = WrittenMaxListeners]
  /\ UNCHANGED <<status, streams, unused, callVars>>

\* a tenant's earlier stopper is replaced; the status is not looked at
RegisterStreamStopper(t, s) ==
  /\ s \in unused
  /\ unused' = unused \ {s}
  /\ streams' = [streams EXCEPT ![t] = s]
  /\ UNCHANGED <<rowVars, callVars>>

Without(t) == [streams EXCEPT ![t] = NoStopper]

UnregisterStreamStopper(t) ==
  /\ streams[t] # NoStopper
  /\ streams' = [streams EXCEPT ![t] = NoStopper]
  /\ UNCHANGED <<rowVars, unused, callVars>>

------------------------------------------------------------------------------
(* Suspend *)

AfterUpdate == "taking"

\* the UPDATE takes effect; if its reply is lost Suspend returns an error here
SuspendUpdate(c, t) ==
  /\ call[c] = "idle"
  /\ status[t] # "none"
  /\ status' = [status EXCEPT ![t] = "suspended"]
  /\ \E next \in {AfterUpdate, "error"} : call' = [call EXCEPT ![c] = next]
  /\ target' = [target EXCEPT ![c] = t]
  /\ atStart' = [atStart EXCEPT ![c] = streams[t]]
  /\ UNCHANGED <<maxListeners, streams, unused, held, runs>>

\* no such tenant, or the database refused
SuspendRefused(c, t) ==
  /\ call[c] = "idle"
  /\ call' = [call EXCEPT ![c] = "error"]
  /\ target' = [target EXCEPT ![c] = t]
  /\ UNCHANGED <<rowVars, streams, unused, held, runs, atStart>>

AfterTake(s) == IF s = NoStopper THEN "nil" ELSE "calling"

\* one critical section: read and delete
SuspendTake(c) ==
  LET s == streams[target[c]] IN
  /\ call[c] = "taking"
  /\ streams' = Without(target[c])
  /\ held' = [held EXCEPT ![c] = s]
  /\ runs' = IF s \in Stoppers THEN [runs EXCEPT ![s] = @ + 1] ELSE runs
  /\ call' = [call EXCEPT ![c] = AfterTake(s)]
  /\ UNCHANGED <<rowVars, unused, target, atStart>>

\* the stopper returns; its error is Suspend's
SuspendReturn(c) ==
  /\ call[c] = "calling"
  /\ \E result \in {"nil", "error"} : call' = [call EXCEPT ![c] = result]
  /\ UNCHANGED <<rowVars, streams, unused, target, held, runs, atStart>>

Next ==
  \/ \E t \in TenantIds :
       \/ Create(t) \/ UpdateConfig(t) \/ UnregisterStreamStopper(t)
       \/ \E s \in Stoppers : RegisterStreamStopper(t, s)
       \/ \E c \in Suspends : SuspendUpdate(c, t) \/ SuspendRefused(c, t)
  \/ \E c \in Suspends : SuspendTake(c) \/ SuspendReturn(c)

Spec == Init /\ [][Next]_vars

------------------------------------------------------------------------------
(* Properties. *)

\* "any registered StreamStopper is called exactly once": never twice, however
\* many suspensions of the tenant run at the same time.
StopperRunsOnce == \A s \in Stoppers : runs[s] <= 1

\* When a suspension has returned nil its tenant stays suspended, and the stopper
\* that was registered when it began is out of the map for good: it has been
\* called, or was replaced or unregistered meanwhile.
NilMeansTaken ==
  \A c \in Suspends : call[c] = "nil" =>
    /\ status[target[c]] = "suspended"
    /\ atStart[c] # NoStopper => streams[target[c]] # atStart[c]
==============================================================================

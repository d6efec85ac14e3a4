---------------------------- MODULE TenantsProofs ----------------------------
(***************************************************************************)
(* Proofs about Tenants, for any tenants, stoppers and number of           *)
(* suspensions under way at once.                                          *)
(***************************************************************************)
EXTENDS Tenants, TLAPS

\* A stopper that can still be taken, or registered, was never called; it is in
\* the map once at most.
Fresh ==
  /\ \A s \in Stoppers :
       (s \in unused \/ \E t \in TenantIds : streams[t] = s) => runs[s] = 0
  /\ \A t \in TenantIds : streams[t] \notin unused
  /\ \A t, u \in TenantIds :
       streams[t] = streams[u] /\ streams[t] # NoStopper => t = u

\* Past its update a suspension has a suspended tenant; what was registered then
\* is out of the map once the suspension has taken the entry.
Progress ==
  \A c \in Suspends :
    /\ call[c] \in {"taking", "calling", "nil"} =>
         target[c] \in TenantIds /\ status[target[c]] = "suspended"
    /\ atStart[c] \notin unused
    /\ call[c] \in {"calling", "nil"} =>
         (atStart[c] # NoStopper => streams[target[c]] # atStart[c])

IInv == TypeOK /\ StopperRunsOnce /\ Fresh /\ Progress

LEMMA InitIInv == Init => IInv
BY NilAssumption
   DEF Init, IInv, TypeOK, StopperRunsOnce, Fresh, Progress, DefaultMaxListeners

LEMMA TypeStep == ASSUME TypeOK, Progress, [Next]_vars PROVE TypeOK'
<1> USE NilAssumption
    DEF TypeOK, rowVars, callVars, DefaultMaxListeners
<1>1. ASSUME NEW t \in TenantIds,
             Create(t) \/ UpdateConfig(t) \/ UnregisterStreamStopper(t)
      PROVE  TypeOK'
  BY <1>1 DEF Create, InsertTenant, UpdateConfig, WrittenMaxListeners, UnregisterStreamStopper
<1>2. ASSUME NEW t \in TenantIds, NEW s \in Stoppers, RegisterStreamStopper(t, s)
      PROVE  TypeOK'
  BY <1>2 DEF RegisterStreamStopper
<1>3. ASSUME NEW t \in TenantIds, NEW c \in Suspends, SuspendUpdate(c, t)
      PROVE  TypeOK'
  BY <1>3 DEF SuspendUpdate, AfterUpdate
<1>4. ASSUME NEW t \in TenantIds, NEW c \in Suspends, SuspendRefused(c, t)
      PROVE  TypeOK'
  BY <1>4 DEF SuspendRefused
<1>5. ASSUME NEW c \in Suspends, SuspendTake(c) PROVE TypeOK'
  BY <1>5 DEF SuspendTake, Without, AfterTake, Progress
<1>6. ASSUME NEW c \in Suspends, SuspendReturn(c) PROVE TypeOK'
  BY <1>6 DEF SuspendReturn
<1>7. CASE UNCHANGED vars
  BY <1>7 DEF vars
<1> QED
  BY <1>1, <1>2, <1>3, <1>4, <1>5, <1>6, <1>7 DEF Next

LEMMA FreshStep ==
  ASSUME TypeOK, Progress, Fresh, StopperRunsOnce, [Next]_vars
  PROVE  Fresh' /\ StopperRunsOnce'
<1> USE NilAssumption DEF TypeOK, Fresh, StopperRunsOnce, rowVars, callVars
<1>1. ASSUME NEW t \in TenantIds,
             Create(t) \/ UpdateConfig(t) \/ UnregisterStreamStopper(t)
      PROVE  Fresh' /\ StopperRunsOnce'
  BY <1>1 DEF Create, InsertTenant, UpdateConfig, WrittenMaxListeners, UnregisterStreamStopper
<1>2. ASSUME NEW t \in TenantIds, NEW s \in Stoppers, RegisterStreamStopper(t, s)
      PROVE  Fresh' /\ StopperRunsOnce'
  BY <1>2 DEF RegisterStreamStopper
<1>3. ASSUME NEW t \in TenantIds, NEW c \in Suspends,
             SuspendUpdate(c, t) \/ SuspendRefused(c, t)
      PROVE  Fresh' /\ StopperRunsOnce'
  BY <1>3 DEF SuspendUpdate, SuspendRefused
<1>4. ASSUME NEW c \in Suspends, SuspendTake(c) PROVE Fresh' /\ StopperRunsOnce'
  <2> DEFINE t == target[c]
             s == streams[t]
  <2>1. t \in TenantIds
    BY <1>4 DEF SuspendTake, Progress
  <2>2. CASE s = NoStopper
    BY <1>4, <2>1, <2>2 DEF SuspendTake, Without
  <2>3. CASE s \in Stoppers
    <3>1. runs[s] = 0 /\ runs' = [runs EXCEPT ![s] = @ + 1] /\ unused' = unused
      BY <1>4, <2>1, <2>3 DEF SuspendTake
    <3>2. \A u \in TenantIds : streams'[u] # s /\ (u # t => streams'[u] = streams[u])
      BY <1>4, <2>1, <2>3 DEF SuspendTake, Without
    <3>3. streams'[t] = NoStopper
      BY <1>4, <2>1 DEF SuspendTake, Without
    <3>4. s \notin unused
      BY <2>1
    <3>5. StopperRunsOnce'
      BY <2>3, <3>1
    <3> HIDE DEF s, t
    <3>6. \A x \in Stoppers :
            (x \in unused \/ \E u \in TenantIds : streams'[u] = x) => runs'[x] = 0
      BY <2>1, <2>3, <3>1, <3>2, <3>3, <3>4
    <3>7. /\ \A u \in TenantIds : streams'[u] \notin unused
          /\ \A u, v \in TenantIds :
               streams'[u] = streams'[v] /\ streams'[u] # NoStopper => u = v
      BY <2>1, <3>2, <3>3
    <3> QED
      BY <3>1, <3>5, <3>6, <3>7
  <2> QED
    BY <2>1, <2>2, <2>3
<1>5. ASSUME NEW c \in Suspends, SuspendReturn(c) PROVE Fresh' /\ StopperRunsOnce'
  BY <1>5 DEF SuspendReturn
<1>6. CASE UNCHANGED vars
  BY <1>6 DEF vars
<1> QED
  BY <1>1, <1>2, <1>3, <1>4, <1>5, <1>6 DEF Next

LEMMA ProgressStep ==
  ASSUME TypeOK, Fresh, Progress, [Next]_vars PROVE Progress'
<1> USE NilAssumption DEF TypeOK, Fresh, Progress, rowVars, callVars
<1>1. ASSUME NEW t \in TenantIds,
             Create(t) \/ UpdateConfig(t) \/ UnregisterStreamStopper(t)
      PROVE  Progress'
  BY <1>1 DEF Create, InsertTenant, UpdateConfig, WrittenMaxListeners, UnregisterStreamStopper
<1>2. ASSUME NEW t \in TenantIds, NEW s \in Stoppers, RegisterStreamStopper(t, s)
      PROVE  Progress'
  BY <1>2 DEF RegisterStreamStopper
<1>3. ASSUME NEW t \in TenantIds, NEW c \in Suspends, SuspendUpdate(c, t)
      PROVE  Progress'
  BY <1>3 DEF SuspendUpdate, AfterUpdate
<1>4. ASSUME NEW t \in TenantIds, NEW c \in Suspends, SuspendRefused(c, t)
      PROVE  Progress'
  BY <1>4 DEF SuspendRefused
<1>5. ASSUME NEW c \in Suspends, SuspendTake(c) PROVE Progress'
  BY <1>5 DEF SuspendTake, Without, AfterTake
<1>6. ASSUME NEW c \in Suspends, SuspendReturn(c) PROVE Progress'
  BY <1>6 DEF SuspendReturn
<1>7. CASE UNCHANGED vars
  BY <1>7 DEF vars
<1> QED
  BY <1>1, <1>2, <1>3, <1>4, <1>5, <1>6, <1>7 DEF Next

------------------------------------------------------------------------------
\* IInv holds in every state of the registry.
THEOREM Invariance == Spec => []IInv
<1>1. IInv /\ [Next]_vars => IInv'
  BY TypeStep, FreshStep, ProgressStep DEF IInv
<1> QED
  BY InitIInv, <1>1, PTL DEF Spec

\* Type correctness: in particular a suspension never calls a missing stopper.
THEOREM TypeCorrect == Spec => []TypeOK
BY Invariance, PTL DEF IInv

\* StopperRunsOnce: reading the entry and deleting it are one critical section, so
\* concurrent suspensions of a tenant never call one stopper twice.
THEOREM StoppersRunOnce == Spec => []StopperRunsOnce
BY Invariance, PTL DEF IInv

\* NilMeansTaken: after a nil Suspend the tenant is suspended and the stopper that
\* was registered when it began is never in the map again.
THEOREM SuspensionIsComplete == Spec => []NilMeansTaken
<1>1. IInv => NilMeansTaken
  BY DEF IInv, Progress, NilMeansTaken
<1> QED
  BY Invariance, <1>1, PTL
==============================================================================

------------------------------ MODULE ApiProofs ------------------------------
(***************************************************************************)
(* Proofs about Api, for any streams, tenants, requests and suspensions:   *)
(* the account of the gauge, and what the replies say.                     *)
(***************************************************************************)
EXTENDS Api, FiniteSetTheorems, TLAPS

\* Who ended a stream: nobody while it has not ended; a request that did was a
\* delete of this stream, and stays one.
Endings ==
  \A s \in Streams :
    /\ phase[s] = "absent" => tenantOf[s] = NoTenant
    /\ phase[s] # "ended" => ender[s] = "none"
    /\ ender[s] \in Requests =>
         kind[ender[s]] = "delete" /\ req[ender[s]] \in {"moveGauge", "ok"} /\ id[ender[s]] = s

\* The id of a stream being created is in no other request, and nothing has been
\* done to the stream.  An id in a request is of a stream that was created.
Private ==
  \A r \in Requests :
    /\ id[r] \in Streams => phase[id[r]] # "absent"
    /\ kind[r] = "create" /\ req[r] = "moveGauge" =>
         phase[id[r]] = "pending" /\ \A q \in Requests : id[q] = id[r] => q = r

\* only a finished request has a reply, which is about a stream
ReplyIsLast ==
  \A r \in Requests : reply[r] # "none" => req[r] = "ok" /\ id[r] \in Streams

IInv ==
  ApiTypeOK /\ Endings /\ Private /\ ReplyIsLast /\ GaugeAccount /\ RepliesAreTrue

LEMMA InitIInv == Init => IInv
<1> SUFFICES ASSUME Init PROVE IInv
  OBVIOUS
<1> USE ApiAssumption DEF Init
<1>1. ApiTypeOK
  BY DEF ApiTypeOK, Phases, Hub!Phases, NoWord
<1>2. Endings /\ Private /\ ReplyIsLast /\ RepliesAreTrue
  BY DEF Endings, Private, ReplyIsLast, RepliesAreTrue
<1>3. ASSUME NEW t \in TenantIds
      PROVE  Running(t) = {} /\ Starting(t) = {} /\ Missed(t) = {} /\ Repeats(t) = {}
  BY DEF Running, Starting, Missed, Repeats, Deletes, OfTenant
<1>4. GaugeAccount
  <2> SUFFICES ASSUME NEW t \in TenantIds
               PROVE  gauge[t] = Cardinality(Running(t)) - Cardinality(Starting(t))
                                 + Cardinality(Missed(t)) - Cardinality(Repeats(t))
    BY DEF GaugeAccount
  <2>1. gauge[t] = 0 /\ Cardinality({}) = 0
    BY FS_EmptySet
  <2>2. /\ Cardinality(Running(t)) = 0 /\ Cardinality(Starting(t)) = 0
        /\ Cardinality(Missed(t)) = 0 /\ Cardinality(Repeats(t)) = 0
    BY <1>3, <2>1, Zenon
  <2> QED
    BY <2>1, <2>2
<1> QED
  BY <1>1, <1>2, <1>4 DEF IInv

LEMMA TypeStep == ASSUME ApiTypeOK, [Next]_vars PROVE ApiTypeOK'
<1> USE ApiAssumption DEF ApiTypeOK, Phases, Hub!Phases, NoWord, streamVars, tenantVars, routeVars
<1>1. ASSUME NEW r \in Requests, NEW t \in TenantIds, NEW k \in Kinds, Enter(r, k, t)
      PROVE  ApiTypeOK'
  BY <1>1 DEF Enter, Addressable, Known, Kinds
<1>2. ASSUME NEW r \in Requests, NEW s \in Streams, Create(r, s) PROVE ApiTypeOK'
  BY <1>2 DEF Create, Hub!Open
<1>3. ASSUME NEW r \in Requests, Reject(r) \/ Refused(r) PROVE ApiTypeOK'
  BY <1>3 DEF Reject, Refused
<1>4. ASSUME NEW r \in Requests, CountStart(r) \/ FinishDelete(r) PROVE ApiTypeOK'
  BY <1>4 DEF CountStart, FinishDelete, CountEnd
<1>5. ASSUME NEW r \in Requests, Delete(r) PROVE ApiTypeOK'
  BY <1>5 DEF Delete, Stop, Ongoing, Hub!End
<1>6. ASSUME NEW r \in Requests, PauseOrResume(r) PROVE ApiTypeOK'
  BY <1>6 DEF PauseOrResume, Hub!Pause, Hub!Resume
<1>7. ASSUME NEW r \in Requests, ReadFirst(r) \/ ReadSecond(r) PROVE ApiTypeOK'
  BY <1>7 DEF ReadFirst, ReadSecond
<1>8. ASSUME NEW s \in Streams, SessionStep(s) PROVE ApiTypeOK'
  BY <1>8 DEF SessionStep, Hub!GoLive, Hub!Pause, Hub!Resume, Hub!End
<1>9. ASSUME NEW c \in Suspends, SuspendTake(c) PROVE ApiTypeOK'
  BY <1>9 DEF SuspendTake, Tenancy!SuspendTake, Tenancy!AfterTake, Tenancy!rowVars
<1>10. ASSUME NEW c \in Suspends, NEW t \in TenantIds,
              SuspendUpdate(c, t) \/ SuspendRefused(c, t)
       PROVE  ApiTypeOK'
  BY <1>10 DEF SuspendUpdate, SuspendRefused, Tenancy!SuspendUpdate, Tenancy!AfterUpdate,
               Tenancy!SuspendRefused, Tenancy!rowVars, Running, OfTenant
<1>11. CASE UNCHANGED vars
  BY <1>11 DEF vars
<1> QED
  BY <1>1, <1>2, <1>3, <1>4, <1>5, <1>6, <1>7, <1>8, <1>9, <1>10, <1>11 DEF Next

LEMMA HistoryStep ==
  ASSUME IInv, ApiTypeOK', [Next]_vars
  PROVE  Endings' /\ Private' /\ ReplyIsLast'
<1> USE ApiAssumption
    DEF IInv, ApiTypeOK, Phases, Hub!Phases, NoWord, streamVars, tenantVars, routeVars,
        Endings, Private, ReplyIsLast
<1>1. ASSUME NEW r \in Requests, NEW t \in TenantIds, NEW k \in Kinds, Enter(r, k, t)
      PROVE  Endings' /\ Private' /\ ReplyIsLast'
  BY <1>1 DEF Enter, Addressable, Known, Kinds
<1>2. ASSUME NEW r \in Requests, NEW s \in Streams, Create(r, s)
      PROVE  Endings' /\ Private' /\ ReplyIsLast'
  BY <1>2 DEF Create, Hub!Open
<1>3. ASSUME NEW r \in Requests, Reject(r) \/ Refused(r)
      PROVE  Endings' /\ Private' /\ ReplyIsLast'
  BY <1>3 DEF Reject, Refused
<1>4. ASSUME NEW r \in Requests, CountStart(r) \/ FinishDelete(r)
      PROVE  Endings' /\ Private' /\ ReplyIsLast'
  BY <1>4 DEF CountStart, FinishDelete
<1>5. ASSUME NEW r \in Requests, Delete(r)
      PROVE  Endings' /\ Private' /\ ReplyIsLast'
  BY <1>5 DEF Delete, Stop, Ongoing, Hub!End
<1>6. ASSUME NEW r \in Requests, PauseOrResume(r)
      PROVE  Endings' /\ Private' /\ ReplyIsLast'
  BY <1>6 DEF PauseOrResume, Hub!Pause, Hub!Resume
<1>7. ASSUME NEW r \in Requests, ReadFirst(r) \/ ReadSecond(r)
      PROVE  Endings' /\ Private' /\ ReplyIsLast'
  BY <1>7 DEF ReadFirst, ReadSecond
<1>8. ASSUME NEW s \in Streams, SessionStep(s)
      PROVE  Endings' /\ Private' /\ ReplyIsLast'
  BY <1>8 DEF SessionStep, Addressable, Known, Hub!GoLive, Hub!Pause, Hub!Resume, Hub!End
<1>9. ASSUME NEW c \in Suspends,
             SuspendTake(c) \/ \E t \in TenantIds : SuspendUpdate(c, t) \/ SuspendRefused(c, t)
      PROVE  Endings' /\ Private' /\ ReplyIsLast'
  BY <1>9 DEF SuspendTake, SuspendUpdate, SuspendRefused
<1>10. CASE UNCHANGED vars
  BY <1>10 DEF vars
<1> QED
  BY <1>1, <1>2, <1>3, <1>4, <1>5, <1>6, <1>7, <1>8, <1>9, <1>10 DEF Next

\* The phases a stream can be in after a step: it is never absent or pending again,
\* and an end is final.
LEMMA PhaseStep ==
  ASSUME ApiTypeOK, [Next]_vars, NEW s \in Streams
  PROVE  /\ phase[s] = "ended" => phase'[s] = "ended"
         /\ phase[s] \notin {"absent", "pending"} => phase'[s] \notin {"absent", "pending"}
<1> USE DEF ApiTypeOK, Phases, Hub!Phases, streamVars
<1>1. ASSUME NEW r \in Requests, NEW u \in Streams, Create(r, u) PROVE (phase[s] # "absent") => phase'[s] = phase[s]
  BY <1>1 DEF Create, Hub!Open
<1>2. ASSUME NEW r \in Requests, Delete(r) \/ PauseOrResume(r)
      PROVE  phase'[s] = phase[s] \/ (phase[s] \in {"pending", "live", "paused"} /\ phase'[s] \in {"live", "paused", "ended"})
  BY <1>2 DEF Delete, Stop, Ongoing, Hub!End, PauseOrResume, Hub!Pause, Hub!Resume
<1>3. ASSUME NEW u \in Streams, SessionStep(u)
      PROVE  phase'[s] = phase[s] \/ (phase[s] \in {"pending", "live", "paused"} /\ phase'[s] \in {"live", "paused", "ended"})
  BY <1>3 DEF SessionStep, Hub!GoLive, Hub!Pause, Hub!Resume, Hub!End
<1>4. ASSUME \/ \E r \in Requests :
                  \/ \E t \in TenantIds, k \in Kinds : Enter(r, k, t)
                  \/ Reject(r) \/ Refused(r) \/ CountStart(r) \/ FinishDelete(r)
                  \/ ReadFirst(r) \/ ReadSecond(r)
             \/ \E c \in Suspends :
                  \/ SuspendTake(c)
                  \/ \E t \in TenantIds : SuspendUpdate(c, t) \/ SuspendRefused(c, t)
             \/ UNCHANGED vars
      PROVE  phase' = phase
  BY <1>4 DEF Enter, Reject, Refused, CountStart, FinishDelete, ReadFirst, ReadSecond,
              SuspendTake, SuspendUpdate, SuspendRefused, vars
<1> QED
  BY <1>1, <1>2, <1>3, <1>4 DEF Next

LEMMA RepliesStep == ASSUME IInv, ApiTypeOK', ReplyIsLast', [Next]_vars PROVE RepliesAreTrue'
<1> SUFFICES ASSUME NEW r \in Requests
             PROVE  (/\ kind[r] = "create" /\ req[r] = "ok" => reply[r] = "pending"
                     /\ reply[r] = "ended" => phase[id[r]] = "ended"
                     /\ reply[r] \in {"live", "paused"} =>
                          phase[id[r]] \notin {"absent", "pending"})'
  BY DEF RepliesAreTrue
<1> USE DEF IInv, ApiTypeOK, NoWord, Phases, Hub!Phases
<1>1. \/ UNCHANGED <<kind[r], req[r], reply[r], id[r]>>
      \/ req'[r] # "ok"
      \/ CountStart(r) \/ FinishDelete(r) \/ PauseOrResume(r) \/ ReadSecond(r)
  <2> USE DEF tenantVars, routeVars
  <2>1. ASSUME NEW q \in Requests,
               \/ \E t \in TenantIds, k \in Kinds : Enter(q, k, t)
               \/ \E s \in Streams : Create(q, s)
               \/ Reject(q) \/ Refused(q) \/ Delete(q) \/ ReadFirst(q)
        PROVE  UNCHANGED <<kind[r], req[r], reply[r], id[r]>> \/ req'[r] # "ok"
    BY <2>1 DEF Enter, Create, Reject, Refused, Delete, ReadFirst
  <2>2. ASSUME NEW q \in Requests, q # r,
               CountStart(q) \/ FinishDelete(q) \/ PauseOrResume(q) \/ ReadSecond(q)
        PROVE  UNCHANGED <<kind[r], req[r], reply[r], id[r]>>
    BY <2>2 DEF CountStart, FinishDelete, PauseOrResume, ReadSecond
  <2>3. ASSUME \/ \E s \in Streams : SessionStep(s)
               \/ \E c \in Suspends :
                    \/ SuspendTake(c)
                    \/ \E t \in TenantIds : SuspendUpdate(c, t) \/ SuspendRefused(c, t)
               \/ UNCHANGED vars
        PROVE  UNCHANGED <<kind[r], req[r], reply[r], id[r]>>
    BY <2>3 DEF SessionStep, SuspendTake, SuspendUpdate, SuspendRefused, vars
  <2> QED
    BY <2>1, <2>2, <2>3 DEF Next
<1>2. CASE UNCHANGED <<kind[r], req[r], reply[r], id[r]>>
  <2>1. CASE reply[r] \in {"ended", "live", "paused"}
    <3>1. /\ id[r] \in Streams
          /\ phase[id[r]] \notin {"absent", "pending"}
          /\ reply[r] = "ended" => phase[id[r]] = "ended"
      BY <2>1 DEF RepliesAreTrue, ReplyIsLast
    <3> QED
      BY <1>2, <3>1, PhaseStep DEF RepliesAreTrue
  <2>2. CASE reply[r] \notin {"ended", "live", "paused"}
    BY <1>2, <2>2 DEF RepliesAreTrue
  <2> QED
    BY <2>1, <2>2
<1>3. CASE req'[r] # "ok"
  BY <1>3 DEF ReplyIsLast
<1>4. CASE CountStart(r)
  BY <1>4 DEF CountStart, Private, streamVars, routeVars
<1>5. CASE FinishDelete(r) \/ PauseOrResume(r)
  BY <1>5 DEF FinishDelete, PauseOrResume, ReplyIsLast, routeVars
<1>6. CASE ReadSecond(r)
  BY <1>6 DEF ReadSecond, streamVars, routeVars
<1> QED
  BY <1>1, <1>2, <1>3, <1>4, <1>5, <1>6

------------------------------------------------------------------------------
(* The account of the gauge. *)

LEMMA FiniteParts ==
  ASSUME ApiTypeOK, NEW t \in TenantIds
  PROVE  /\ IsFiniteSet(Running(t)) /\ Cardinality(Running(t)) \in Nat
         /\ IsFiniteSet(Starting(t)) /\ Cardinality(Starting(t)) \in Nat
         /\ IsFiniteSet(Missed(t)) /\ Cardinality(Missed(t)) \in Nat
         /\ IsFiniteSet(Repeats(t)) /\ Cardinality(Repeats(t)) \in Nat
<1>1. /\ Running(t) \in SUBSET Streams /\ Missed(t) \in SUBSET Streams
      /\ Starting(t) \in SUBSET Requests /\ Repeats(t) \in SUBSET Requests
  BY DEF Running, OfTenant, Missed, Starting, Repeats, Deletes
<1>2. /\ IsFiniteSet(Running(t)) /\ IsFiniteSet(Starting(t))
      /\ IsFiniteSet(Missed(t)) /\ IsFiniteSet(Repeats(t))
  BY <1>1, FS_Subset, ApiAssumption
<1> QED
  BY <1>2, FS_CardinalityType

\* What GaugeAccount says of one tenant.
Account(t) ==
  gauge[t] = Cardinality(Running(t)) - Cardinality(Starting(t))
             + Cardinality(Missed(t)) - Cardinality(Repeats(t))

Parts(t) == <<gauge[t], Running(t), Starting(t), Missed(t), Repeats(t)>>

LEMMA PartsDecide ==
  ASSUME NEW t \in TenantIds, GaugeAccount, Parts(t)' = Parts(t)
  PROVE  Account(t)'
BY DEF GaugeAccount, Account, Parts

\* The figures of a tenant's account, as numbers.
Figures(t) ==
  /\ gauge[t] \in Int
  /\ IsFiniteSet(Running(t)) /\ Cardinality(Running(t)) \in Nat
  /\ IsFiniteSet(Starting(t)) /\ Cardinality(Starting(t)) \in Nat
  /\ IsFiniteSet(Missed(t)) /\ Cardinality(Missed(t)) \in Nat
  /\ IsFiniteSet(Repeats(t)) /\ Cardinality(Repeats(t)) \in Nat
  /\ gauge[t] = Cardinality(Running(t)) - Cardinality(Starting(t))
                + Cardinality(Missed(t)) - Cardinality(Repeats(t))

LEMMA FiguresOK == ASSUME IInv, NEW t \in TenantIds PROVE Figures(t)
<1>1. ApiTypeOK /\ GaugeAccount
  BY DEF IInv
<1>2. gauge[t] \in Int
  BY <1>1 DEF ApiTypeOK
<1> QED
  BY <1>1, <1>2, FiniteParts DEF Figures, GaugeAccount

LEMMA OneMore ==
  ASSUME NEW S, IsFiniteSet(S), NEW x, x \notin S, NEW T, T = S \union {x}
  PROVE  Cardinality(T) = Cardinality(S) + 1
BY FS_AddElement

LEMMA OneLess ==
  ASSUME NEW S, IsFiniteSet(S), NEW x, x \in S, NEW T, T = S \ {x}
  PROVE  Cardinality(T) = Cardinality(S) - 1
BY FS_RemoveElement

\* A create adds a stream and the request that will count it.
LEMMA CreateAccount ==
  ASSUME IInv, NEW r \in Requests, NEW s \in Streams, Create(r, s), NEW t \in TenantIds
  PROVE  Account(t)'
<1>0. Figures(t)
  BY FiguresOK
<1> USE ApiAssumption DEF IInv, ApiTypeOK
<1>1. /\ phase[s] = "absent" /\ phase' = [phase EXCEPT ![s] = "pending"]
      /\ tenantOf' = [tenantOf EXCEPT ![s] = url[r]]
      /\ req[r] = "routed" /\ kind[r] = "create"
      /\ req' = [req EXCEPT ![r] = "moveGauge"]
      /\ UNCHANGED <<ender, gauge, kind, url>>
  BY DEF Create, Hub!Open, tenantVars
<1>2. tenantOf[s] = NoTenant /\ ender[s] = "none" /\ url[r] \in TenantIds
  BY <1>1 DEF Endings
<1>3. Ongoing' = Ongoing \union {s} /\ s \notin Ongoing
  BY <1>1 DEF Ongoing
<1>4. Deletes(t)' = Deletes(t)
  BY <1>1 DEF Deletes
<1>5. OfTenant(t)' = IF t = url[r] THEN OfTenant(t) \union {s} ELSE OfTenant(t)
  BY <1>1, <1>2 DEF OfTenant
<1>6. s \notin OfTenant(t) /\ "none" \notin Deletes(t)
  BY <1>2 DEF OfTenant, Deletes
<1>7. Missed(t)' = Missed(t) /\ Repeats(t)' = Repeats(t)
  BY <1>1, <1>2, <1>3, <1>4, <1>5, <1>6 DEF Missed, Repeats
<1>8. CASE t # url[r]
  <2>1. Running(t)' = Running(t) /\ Starting(t)' = Starting(t)
    BY <1>1, <1>3, <1>5, <1>6, <1>8 DEF Running, Starting
  <2> QED
    BY <1>1, <1>7, <2>1, PartsDecide DEF Parts
<1>9. CASE t = url[r]
  <2>1. /\ Running(t)' = Running(t) \union {s} /\ s \notin Running(t)
        /\ Starting(t)' = Starting(t) \union {r} /\ r \notin Starting(t)
    BY <1>1, <1>3, <1>5, <1>6, <1>9 DEF Running, Starting
  <2>2. /\ Cardinality(Running(t)') = Cardinality(Running(t)) + 1
        /\ Cardinality(Starting(t)') = Cardinality(Starting(t)) + 1
    BY <2>1, <1>0, OneMore DEF Figures
  <2> HIDE DEF IInv, ApiTypeOK
  <2> QED
    BY <1>0, <1>1, <1>7, <2>2 DEF Account, Figures
<1> QED
  BY <1>8, <1>9

\* StreamStarted settles the request that was under way.
LEMMA CountStartAccount ==
  ASSUME IInv, NEW r \in Requests, CountStart(r), NEW t \in TenantIds
  PROVE  Account(t)'
<1>0. Figures(t)
  BY FiguresOK
<1> USE DEF IInv, ApiTypeOK
<1>1. /\ req[r] = "moveGauge" /\ kind[r] = "create"
      /\ gauge' = [gauge EXCEPT ![url[r]] = @ + 1]
      /\ req' = [req EXCEPT ![r] = "ok"]
      /\ UNCHANGED <<phase, tenantOf, ender, kind, url>>
  BY DEF CountStart, streamVars, routeVars
<1>2. Deletes(t)' = Deletes(t)
  BY <1>1 DEF Deletes
<1>3. Running(t)' = Running(t) /\ Missed(t)' = Missed(t) /\ Repeats(t)' = Repeats(t)
  BY <1>1, <1>2 DEF Running, OfTenant, Ongoing, Missed, Repeats
<1>4. CASE t # url[r]
  <2>1. Starting(t)' = Starting(t) /\ gauge'[t] = gauge[t]
    BY <1>1, <1>4 DEF Starting
  <2> QED
    BY <1>3, <2>1, PartsDecide DEF Parts
<1>5. CASE t = url[r]
  <2>1. Starting(t)' = Starting(t) \ {r} /\ r \in Starting(t) /\ gauge'[t] = gauge[t] + 1
    BY <1>1, <1>5 DEF Starting
  <2>2. Cardinality(Starting(t)') = Cardinality(Starting(t)) - 1
    BY <2>1, <1>0, OneLess DEF Figures
  <2> QED
    BY <1>3, <2>1, <2>2, <1>0 DEF Account, Figures
<1> QED
  BY <1>4, <1>5

\* An end by anybody but a finished delete moves the stream from the running to the
\* missed ones.
LEMMA EndAccount ==
  ASSUME IInv, NEW s \in Streams, s \in Ongoing, NEW by \in Requests \union {"session"},
         phase' = [phase EXCEPT ![s] = "ended"], ender' = [ender EXCEPT ![s] = by],
         UNCHANGED <<tenantOf, gauge>>, NEW t \in TenantIds,
         by \notin Deletes(t), Deletes(t)' = Deletes(t), Starting(t)' = Starting(t)
  PROVE  Account(t)'
<1>0. Figures(t)
  BY FiguresOK
<1> USE ApiAssumption DEF IInv, ApiTypeOK
<1>1. ender[s] = "none" /\ "none" \notin Deletes(t)
  BY DEF Endings, Ongoing, Deletes
<1>2. Ongoing' = Ongoing \ {s} /\ OfTenant(t)' = OfTenant(t)
  BY DEF Ongoing, OfTenant
<1>3. Repeats(t)' = Repeats(t)
  BY <1>1, <1>2 DEF Repeats, OfTenant
<1>4. CASE s \notin OfTenant(t)
  <2>1. Running(t)' = Running(t) /\ Missed(t)' = Missed(t)
    BY <1>2, <1>4 DEF Running, Missed, OfTenant
  <2> QED
    BY <1>3, <2>1, PartsDecide DEF Parts
<1>5. CASE s \in OfTenant(t)
  <2>1. /\ Running(t)' = Running(t) \ {s} /\ s \in Running(t)
        /\ Missed(t)' = Missed(t) \union {s} /\ s \notin Missed(t)
    BY <1>2, <1>5 DEF Running, Missed, OfTenant
  <2>2. /\ Cardinality(Running(t)') = Cardinality(Running(t)) - 1
        /\ Cardinality(Missed(t)') = Cardinality(Missed(t)) + 1
    BY <2>1, <1>0, OneMore, OneLess DEF Figures
  <2> HIDE DEF IInv, ApiTypeOK
  <2> QED
    BY <1>0, <1>3, <2>2 DEF Account, Figures
<1> QED
  BY <1>4, <1>5

\* StreamEnded settles the stream that its delete ended, if that is one of the
\* tenant's, or else counts down for none.
LEMMA FinishDeleteAccount ==
  ASSUME IInv, NEW r \in Requests, FinishDelete(r), NEW t \in TenantIds
  PROVE  Account(t)'
<1>0. Figures(t)
  BY FiguresOK
<1> USE ApiAssumption DEF IInv, ApiTypeOK
<1>1. /\ req[r] = "moveGauge" /\ kind[r] = "delete"
      /\ gauge' = [gauge EXCEPT ![url[r]] = @ - 1]
      /\ req' = [req EXCEPT ![r] = "ok"]
      /\ UNCHANGED <<phase, tenantOf, ender, kind, url>>
  BY DEF FinishDelete, CountEnd, streamVars, routeVars
<1>2. /\ Running(t)' = Running(t) /\ Starting(t)' = Starting(t)
      /\ OfTenant(t)' = OfTenant(t) /\ Ongoing' = Ongoing
  BY <1>1 DEF Running, OfTenant, Ongoing, Starting
<1>3. CASE t # url[r]
  <2>1. Deletes(t)' = Deletes(t) /\ gauge'[t] = gauge[t]
    BY <1>1, <1>3 DEF Deletes
  <2>2. Missed(t)' = Missed(t) /\ Repeats(t)' = Repeats(t)
    BY <1>1, <1>2, <2>1 DEF Missed, Repeats
  <2> QED
    BY <1>2, <2>1, <2>2, PartsDecide DEF Parts
<1>4. CASE t = url[r] /\ \E s \in OfTenant(t) : ender[s] = r
  <2>1. PICK s \in OfTenant(t) : ender[s] = r
    BY <1>4
  <2>2. Deletes(t)' = Deletes(t) \union {r} /\ r \notin Deletes(t) /\ gauge'[t] = gauge[t] - 1
    BY <1>1, <1>4 DEF Deletes
  <2>3. /\ s \in Streams /\ s \notin Ongoing
        /\ \A u \in Streams : ender[u] = r => u = s
    BY <2>1 DEF Endings, OfTenant, Ongoing
  <2>4. Missed(t)' = Missed(t) \ {s} /\ s \in Missed(t)
    BY <1>1, <1>2, <2>1, <2>2, <2>3 DEF Missed, OfTenant
  <2>5. Repeats(t)' = Repeats(t)
    BY <1>1, <1>2, <2>1, <2>2 DEF Repeats
  <2>6. Cardinality(Missed(t)') = Cardinality(Missed(t)) - 1
    BY <2>4, <1>0, OneLess DEF Figures
  <2> QED
    BY <1>2, <2>2, <2>5, <2>6, <1>0 DEF Account, Figures
<1>5. CASE t = url[r] /\ \A s \in OfTenant(t) : ender[s] # r
  <2>1. Deletes(t)' = Deletes(t) \union {r} /\ r \notin Deletes(t) /\ gauge'[t] = gauge[t] - 1
    BY <1>1, <1>5 DEF Deletes
  <2>2. Missed(t)' = Missed(t)
    BY <1>1, <1>2, <1>5, <2>1 DEF Missed
  <2>3. Repeats(t)' = Repeats(t) \union {r} /\ r \notin Repeats(t)
    BY <1>1, <1>2, <1>5, <2>1 DEF Repeats
  <2>4. Cardinality(Repeats(t)') = Cardinality(Repeats(t)) + 1
    BY <2>3, <1>0, OneMore DEF Figures
  <2> HIDE DEF IInv, ApiTypeOK
  <2> QED
    BY <1>0, <1>2, <2>1, <2>2, <2>4 DEF Account, Figures
<1> QED
  BY <1>3, <1>4, <1>5

LEMMA AccountStep == ASSUME IInv, [Next]_vars PROVE GaugeAccount'
<1> SUFFICES ASSUME NEW t \in TenantIds PROVE Account(t)'
  BY DEF GaugeAccount, Account
<1> USE DEF IInv, ApiTypeOK
<1>1. ASSUME UNCHANGED <<phase, tenantOf, ender, gauge>>,
             Starting(t)' = Starting(t), Deletes(t)' = Deletes(t)
      PROVE  Account(t)'
  BY <1>1, PartsDecide DEF Parts, Running, OfTenant, Ongoing, Missed, Repeats
<1>2. ASSUME NEW r \in Requests, NEW u \in TenantIds, NEW k \in Kinds, Enter(r, k, u)
      PROVE  Account(t)'
  <2>1. Starting(t)' = Starting(t) /\ Deletes(t)' = Deletes(t)
    BY <1>2 DEF Enter, Starting, Deletes
  <2> QED
    BY <1>1, <1>2, <2>1 DEF Enter, streamVars
<1>3. ASSUME NEW r \in Requests, Reject(r) \/ Refused(r) \/ ReadFirst(r) \/ ReadSecond(r)
      PROVE  Account(t)'
  <2>1. Starting(t)' = Starting(t) /\ Deletes(t)' = Deletes(t)
    BY <1>3 DEF Reject, Refused, ReadFirst, ReadSecond, Starting, Deletes, routeVars
  <2> QED
    BY <1>1, <1>3, <2>1 DEF Reject, Refused, ReadFirst, ReadSecond, streamVars
<1>4. ASSUME NEW r \in Requests, Delete(r) PROVE Account(t)'
  <2>1. /\ Starting(t)' = Starting(t) /\ Deletes(t)' = Deletes(t) /\ r \notin Deletes(t)
        /\ UNCHANGED <<tenantOf, gauge>>
    BY <1>4 DEF Delete, Starting, Deletes, routeVars
  <2>2. CASE id[r] \in Ongoing /\ Hub!End(id[r]) /\ ender' = [ender EXCEPT ![id[r]] = r]
    <3>1. id[r] \in Streams /\ phase' = [phase EXCEPT ![id[r]] = "ended"]
      BY <2>2 DEF Ongoing, Hub!End
    <3> QED
      BY <2>1, <2>2, <3>1, EndAccount
  <2>3. CASE UNCHANGED <<phase, ender>>
    BY <1>1, <2>1, <2>3
  <2> QED
    BY <1>4, <2>2, <2>3 DEF Delete, Stop
<1>5. ASSUME UNCHANGED <<tenantOf, ender, gauge>>, Ongoing' = Ongoing,
             Starting(t)' = Starting(t), Deletes(t)' = Deletes(t)
      PROVE  Account(t)'
  BY <1>5, PartsDecide DEF Parts, Running, OfTenant, Missed, Repeats
<1>6. ASSUME NEW r \in Requests, PauseOrResume(r) PROVE Account(t)'
  <2>1. Starting(t)' = Starting(t) /\ Deletes(t)' = Deletes(t)
    BY <1>6 DEF PauseOrResume, Starting, Deletes, routeVars
  <2>2. Ongoing' = Ongoing
    BY <1>6 DEF PauseOrResume, Hub!Pause, Hub!Resume, Ongoing
  <2> QED
    BY <1>5, <1>6, <2>1, <2>2 DEF PauseOrResume
<1>7. ASSUME NEW s \in Streams, SessionStep(s) PROVE Account(t)'
  <2>1. /\ Starting(t)' = Starting(t) /\ Deletes(t)' = Deletes(t)
        /\ UNCHANGED <<tenantOf, gauge>>
    BY <1>7 DEF SessionStep, Starting, Deletes, routeVars
  <2>2. CASE (Hub!GoLive(s) \/ Hub!Pause(s) \/ Hub!Resume(s)) /\ UNCHANGED ender
    <3>1. Ongoing' = Ongoing
      BY <2>2 DEF Hub!GoLive, Hub!Pause, Hub!Resume, Ongoing
    <3> QED
      BY <1>5, <2>1, <2>2, <3>1
  <2>3. CASE Hub!End(s) /\ ender' = [ender EXCEPT ![s] = "session"]
    <3>1. s \in Ongoing /\ phase' = [phase EXCEPT ![s] = "ended"]
      BY <2>3 DEF Ongoing, Hub!End
    <3>2. "session" \notin Deletes(t)
      BY ApiAssumption DEF Deletes
    <3> QED
      BY <2>1, <2>3, <3>1, <3>2, EndAccount
  <2> QED
    BY <1>7, <2>2, <2>3 DEF SessionStep
<1>8. ASSUME NEW c \in Suspends,
             SuspendTake(c) \/ \E u \in TenantIds : SuspendUpdate(c, u) \/ SuspendRefused(c, u)
      PROVE  Account(t)'
  <2>1. Starting(t)' = Starting(t) /\ Deletes(t)' = Deletes(t)
    BY <1>8 DEF SuspendTake, SuspendUpdate, SuspendRefused, Starting, Deletes, routeVars
  <2> QED
    BY <1>1, <1>8, <2>1 DEF SuspendTake, SuspendUpdate, SuspendRefused, streamVars
<1>9. CASE UNCHANGED vars
  <2>1. Starting(t)' = Starting(t) /\ Deletes(t)' = Deletes(t)
    BY <1>9 DEF vars, Starting, Deletes
  <2> QED
    BY <1>1, <1>9, <2>1 DEF vars
<1> QED
  BY <1>2, <1>3, <1>4, <1>6, <1>7, <1>8, <1>9, CreateAccount, CountStartAccount,
     FinishDeleteAccount DEF Next

------------------------------------------------------------------------------
LEMMA Invariance == Spec => []IInv
<1>1. IInv /\ [Next]_vars => IInv'
  <2> SUFFICES ASSUME IInv, [Next]_vars PROVE IInv'
    OBVIOUS
  <2>1. ApiTypeOK'
    BY TypeStep DEF IInv
  <2>2. Endings' /\ Private' /\ ReplyIsLast'
    BY <2>1, HistoryStep
  <2>3. RepliesAreTrue' /\ GaugeAccount'
    BY <2>1, <2>2, RepliesStep, AccountStep
  <2> QED
    BY <2>1, <2>2, <2>3 DEF IInv
<1> QED
  BY InitIInv, <1>1, PTL DEF Spec

\* Type correctness of the handlers, the gauge and the suspensions.
THEOREM TypeCorrect == Spec => []ApiTypeOK
BY Invariance, PTL DEF IInv

\* The gauge is accounted for exactly, however requests and sessions interleave.
THEOREM GaugeIsAccountedFor == Spec => []GaugeAccount
BY Invariance, PTL DEF IInv

\* What replies say of streams is true and stays true, in spite of the unlocked read.
THEOREM RepliesStayTrue == Spec => []RepliesAreTrue
BY Invariance, PTL DEF IInv

------------------------------------------------------------------------------
(* What the handlers are to the relay and to the registry. *)

\* A handler or a session moves a stream as the service lets it, or not at all.
LEMMA HubStep == ASSUME IInv, [Next]_vars PROVE [Hub!Next]_(Hub!vars)
<1> USE DEF Hub!vars
<1>1. ASSUME NEW s \in Streams,
             Hub!Open(s) \/ Hub!GoLive(s) \/ Hub!Pause(s) \/ Hub!Resume(s) \/ Hub!End(s)
      PROVE  Hub!Next
  BY <1>1 DEF Hub!Next
<1>2. ASSUME NEW r \in Requests, NEW s \in Streams, Create(r, s) PROVE Hub!Next
  BY <1>1, <1>2 DEF Create
<1>3. ASSUME NEW r \in Requests, Delete(r) PROVE Hub!Next \/ UNCHANGED phase
  BY <1>1, <1>3 DEF Delete, Stop, Ongoing
<1>4. ASSUME NEW r \in Requests, PauseOrResume(r) PROVE Hub!Next
  BY <1>1, <1>4 DEF PauseOrResume
<1>5. ASSUME NEW s \in Streams, SessionStep(s) PROVE Hub!Next
  BY <1>1, <1>5 DEF SessionStep
<1>6. ASSUME NEW r \in Requests,
             \/ \E t \in TenantIds, k \in Kinds : Enter(r, k, t)
             \/ Reject(r) \/ Refused(r) \/ CountStart(r) \/ FinishDelete(r)
             \/ ReadFirst(r) \/ ReadSecond(r)
      PROVE  UNCHANGED phase
  BY <1>6 DEF Enter, Reject, Refused, CountStart, FinishDelete, ReadFirst, ReadSecond,
              streamVars
<1>7. ASSUME NEW c \in Suspends,
             SuspendTake(c) \/ \E t \in TenantIds : SuspendUpdate(c, t) \/ SuspendRefused(c, t)
      PROVE  UNCHANGED phase
  BY <1>7 DEF SuspendTake, SuspendUpdate, SuspendRefused, streamVars
<1>8. CASE UNCHANGED vars
  BY <1>8 DEF vars
<1> QED
  BY <1>2, <1>3, <1>4, <1>5, <1>6, <1>7, <1>8 DEF Next

\* Every behaviour of the API and its sessions is one of the stream service that the
\* relay implements, with an audience nobody looks at: the handlers ask the hub for
\* nothing it does not promise.
THEOREM ApiUsesTheService == Spec => Hub!Spec
<1>1. Init => Hub!Init
  BY DEF Init, Hub!Init
<1>2. IInv /\ [Next]_vars => [Hub!Next]_(Hub!vars)
  BY HubStep
<1> QED
  BY <1>1, <1>2, Invariance, PTL DEF Spec, Hub!Spec
==============================================================================

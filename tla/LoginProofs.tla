----------------------------- MODULE LoginProofs -----------------------------
(***************************************************************************)
(* Proofs about Login, for any clients, limits and number of requests.     *)
(*                                                                         *)
(* IInv adds to the bound on the counter what keeps the history typed: the *)
(* attempts let through pay for the failures recorded and for the requests *)
(* still in progress, so there is a label left for every failure.  It adds *)
(* to the exactness of the counter where the failures lie in time: before  *)
(* the end of the window their key's counter is in.                        *)
(***************************************************************************)
EXTENDS Login, FiniteSetTheorems, TLAPS

Attempting == {r \in Requests : req[r] = "login"}

AttemptsPay ==
  /\ IsFiniteSet(uncleared)
  /\ Cardinality(uncleared) + Cardinality(Attempting) <= attempts

InWindow ==
  /\ \A f \in uncleared : f.at <= now /\ f.at < windowStart[f.key] + Window
  /\ \A k \in Keys : windowStart[k] <= now /\ (failCount[k] = 0 => windowStart[k] = 0)

IInv == TypeOK /\ AttemptsPay /\ OvershootBound /\ InWindow /\ FailCountExact

------------------------------------------------------------------------------
(* Names of clients. *)

LEMMA KeysOf ==
  ASSUME NEW o \in Origins PROVE CheckKey(o) \in Keys /\ RecordKey(o) \in Keys
BY DEF Origins, Keys, Empty, CheckKey, RecordKey

(* Sets of requests. *)

LEMMA RequestSets ==
  ASSUME NEW S \in SUBSET Requests
  PROVE  /\ IsFiniteSet(S)
         /\ Cardinality(S) \in Nat
         /\ Cardinality(S) <= Cardinality(Requests)
         /\ Cardinality(Requests) \in Nat
BY LimitAssumption, FS_Subset, FS_CardinalityType

\* Fewer than MaxAttempts failures leave a label free.
LEMMA FreshIdIsFresh ==
  ASSUME TypeOK, IsFiniteSet(uncleared), Cardinality(uncleared) < MaxAttempts
  PROVE  FreshId \in 1 .. MaxAttempts /\ \A f \in uncleared : f.id # FreshId
<1> DEFINE All == 1 .. MaxAttempts
           used == [i \in All |-> CHOOSE f \in uncleared : f.id = i]
<1>1. MaxAttempts \in Nat
  BY LimitAssumption
<1>2. IsFiniteSet(All) /\ Cardinality(All) = MaxAttempts
  BY <1>1, FS_Interval
<1>3. \E id \in All : \A f \in uncleared : f.id # id
  <2> SUFFICES ASSUME \A id \in All : \E f \in uncleared : f.id = id PROVE FALSE
    OBVIOUS
  <2>1. used \in [All -> uncleared] /\ \A i \in All : used[i].id = i
    OBVIOUS
  <2> HIDE DEF used
  <2>2. \E i, j \in All : i # j /\ used[i] = used[j]
    BY <1>2, <2>1, FS_PigeonHole
  <2> QED
    BY <2>1, <2>2
<1> QED
  BY <1>3 DEF FreshId

(* Invariance. *)

LEMMA InitIInv == Init => IInv
<1> SUFFICES ASSUME Init PROVE IInv
  OBVIOUS
<1>1. TypeOK
  BY LimitAssumption DEF Init, TypeOK
<1>2. Attempting = {} /\ \A k \in Keys : InFlight(k) = {} /\ Counted(k) = 0
  BY DEF Init, Attempting, InFlight, Counted, Expired
<1>3. Cardinality({}) = 0 /\ IsFiniteSet({}) /\ Cardinality(Requests) \in Nat
  BY LimitAssumption, FS_EmptySet, FS_CardinalityType
<1>4. AttemptsPay
  BY <1>2, <1>3 DEF Init, AttemptsPay
<1>5. OvershootBound
  BY <1>2, <1>3, LimitAssumption DEF OvershootBound
<1>6. InWindow
  BY LimitAssumption DEF Init, InWindow
<1>7. FailCountExact
  <2> SUFFICES ASSUME NEW k \in Keys
               PROVE  Cardinality({f \in uncleared : f.key = k /\ f.at >= windowStart[k]}) = 0
    BY DEF FailCountExact, Init
  <2>1. {f \in uncleared : f.key = k /\ f.at >= windowStart[k]} = {}
    BY DEF Init
  <2> QED
    BY <1>3, <2>1
<1> QED
  BY <1>1, <1>4, <1>5, <1>6, <1>7 DEF IInv

\* What a request in progress records under is a key.
LEMMA OriginOf ==
  ASSUME TypeOK, NEW r \in Requests, req[r] = "login"
  PROVE  origin[r] \in Origins /\ RecordKey(origin[r]) \in Keys
BY KeysOf DEF TypeOK

\* Every variable keeps its type; the history does because AttemptsPay leaves a
\* label for the next failure.
LEMMA TypeStep == ASSUME IInv, [Next]_vars PROVE TypeOK'
<1> USE LimitAssumption DEF IInv, TypeOK
<1>1. ASSUME NEW r \in Requests, NEW o \in Origins, Refuse(r, o) PROVE TypeOK'
  BY <1>1 DEF Refuse, Waiting
<1>2. ASSUME NEW r \in Requests, NEW o \in Origins, Admit(r, o) PROVE TypeOK'
  BY <1>2, NoOriginAssumption DEF Admit
<1>3. ASSUME NEW r \in Requests, BadBody(r) PROVE TypeOK'
  BY <1>3 DEF BadBody
<1>4. ASSUME NEW r \in Requests, LoginFails(r) PROVE TypeOK'
  <2> DEFINE k == RecordKey(origin[r])
  <2>1. req[r] = "login" /\ origin[r] \in Origins /\ k \in Keys
    BY <1>4, OriginOf DEF LoginFails
  <2>2. FreshId \in 1 .. MaxAttempts
    <3>1. r \in Attempting /\ Attempting \in SUBSET Requests
      BY <2>1 DEF Attempting
    <3>2. Cardinality(Attempting) > 0 /\ Cardinality(Attempting) \in Nat
      BY <3>1, RequestSets, FS_EmptySet
    <3>3. IsFiniteSet(uncleared) /\ Cardinality(uncleared) \in Nat
          /\ Cardinality(uncleared) + Cardinality(Attempting) <= attempts
      BY FS_CardinalityType DEF AttemptsPay
    <3>4. Cardinality(uncleared) < MaxAttempts
      BY <3>2, <3>3
    <3> QED
      BY <3>3, <3>4, FreshIdIsFresh
  <2>3. NextCount(k) \in Nat /\ NextStart(k) \in Nat
    BY <2>1 DEF NextCount, NextStart
  <2> HIDE DEF k
  <2>4. [id |-> FreshId, at |-> now, origin |-> origin[r], key |-> k] \in Failures
    BY <2>1, <2>2 DEF Failures
  <2>5. uncleared' \subseteq Failures
    BY <1>4, <2>4 DEF LoginFails, k
  <2>6. failCount' \in [Keys -> Nat] /\ windowStart' \in [Keys -> Nat]
    BY <1>4, <2>3 DEF LoginFails, k
  <2> QED
    BY <1>4, <2>5, <2>6 DEF LoginFails
<1>5. ASSUME NEW r \in Requests, LoginSucceeds(r) PROVE TypeOK'
  BY <1>5 DEF LoginSucceeds, Cleared
<1>6. CASE Tick
  BY <1>6 DEF Tick
<1>7. CASE UNCHANGED vars
  BY <1>7 DEF vars
<1> QED
  BY <1>1, <1>2, <1>3, <1>4, <1>5, <1>6, <1>7 DEF Next

\* An attempt is paid for when it is let through; it becomes at most one failure.
LEMMA AttemptsPayStep == ASSUME IInv, [Next]_vars PROVE AttemptsPay'
<1> USE DEF IInv, TypeOK
<1>1. /\ Attempting \in SUBSET Requests
      /\ IsFiniteSet(Attempting) /\ Cardinality(Attempting) \in Nat
      /\ IsFiniteSet(uncleared) /\ Cardinality(uncleared) \in Nat
      /\ Cardinality(uncleared) + Cardinality(Attempting) <= attempts
  BY RequestSets, FS_CardinalityType DEF AttemptsPay, Attempting
<1>2. ASSUME Attempting' = Attempting, UNCHANGED <<uncleared, attempts>> PROVE AttemptsPay'
  BY <1>1, <1>2 DEF AttemptsPay
<1>3. ASSUME NEW r \in Requests, NEW o \in Origins, Refuse(r, o)
      PROVE  Attempting' = Attempting /\ UNCHANGED <<uncleared, attempts>>
  BY <1>3 DEF Refuse, Waiting, Attempting
<1>4. ASSUME NEW r \in Requests, NEW o \in Origins, Admit(r, o) PROVE AttemptsPay'
  <2>1. Attempting' = Attempting \union {r} /\ r \notin Attempting
    BY <1>4 DEF Admit, Waiting, Attempting
  <2>2. Cardinality(Attempting') = Cardinality(Attempting) + 1
    BY <1>1, <2>1, FS_AddElement
  <2> QED
    BY <1>1, <1>4, <2>2 DEF Admit, AttemptsPay
<1>5. ASSUME NEW r \in Requests, BadBody(r) \/ LoginFails(r) \/ LoginSucceeds(r)
      PROVE  Cardinality(Attempting') = Cardinality(Attempting) - 1
  <2>1. Attempting' = Attempting \ {r} /\ r \in Attempting
    BY <1>5 DEF BadBody, LoginFails, LoginSucceeds, Attempting
  <2> QED
    BY <1>1, <2>1, FS_RemoveElement
<1>6. ASSUME NEW r \in Requests, BadBody(r) PROVE AttemptsPay'
  <2>1. Cardinality(Attempting') = Cardinality(Attempting) - 1
    BY <1>5, <1>6
  <2>2. UNCHANGED <<uncleared, attempts>>
    BY <1>6 DEF BadBody
  <2> QED
    BY <1>1, <2>1, <2>2 DEF AttemptsPay
<1>7. ASSUME NEW r \in Requests, LoginFails(r) PROVE AttemptsPay'
  <2>1. PICK f : uncleared' = uncleared \union {f}
    BY <1>7 DEF LoginFails
  <2>2. IsFiniteSet(uncleared') /\ Cardinality(uncleared') <= Cardinality(uncleared) + 1
    <3>1. /\ IsFiniteSet(uncleared \union {f})
          /\ Cardinality(uncleared \union {f}) =
               IF f \in uncleared THEN Cardinality(uncleared) ELSE Cardinality(uncleared) + 1
      BY <1>1, FS_AddElement
    <3> QED
      BY <1>1, <2>1, <3>1
  <2>3. Cardinality(uncleared') \in Nat
    BY <2>2, FS_CardinalityType
  <2>4. Cardinality(Attempting') = Cardinality(Attempting) - 1
    BY <1>5, <1>7
  <2>5. attempts' = attempts
    BY <1>7 DEF LoginFails
  <2> QED
    BY <1>1, <2>2, <2>3, <2>4, <2>5 DEF AttemptsPay
<1>8. ASSUME NEW r \in Requests, LoginSucceeds(r) PROVE AttemptsPay'
  <2>1. uncleared' \in SUBSET uncleared
    BY <1>8 DEF LoginSucceeds
  <2>2. IsFiniteSet(uncleared') /\ Cardinality(uncleared') <= Cardinality(uncleared)
    BY <1>1, <2>1, FS_Subset
  <2>3. Cardinality(uncleared') \in Nat
    BY <2>2, FS_CardinalityType
  <2>4. Cardinality(Attempting') = Cardinality(Attempting) - 1
    BY <1>5, <1>8
  <2>5. attempts' = attempts
    BY <1>8 DEF LoginSucceeds
  <2> QED
    BY <1>1, <2>2, <2>3, <2>4, <2>5 DEF AttemptsPay
<1>9. ASSUME Tick \/ UNCHANGED vars
      PROVE  Attempting' = Attempting /\ UNCHANGED <<uncleared, attempts>>
  BY <1>9 DEF Tick, vars, Attempting
<1> QED
  BY <1>2, <1>3, <1>4, <1>6, <1>7, <1>8, <1>9 DEF Next

\* Only a request that finds fewer than Max failures joins those in flight, and
\* each of those adds at most one failure as it leaves them.
LEMMA OvershootStep == ASSUME IInv, TypeOK', [Next]_vars PROVE OvershootBound'
<1> SUFFICES ASSUME NEW k \in Keys, CheckedKey(k)
             PROVE  Counted(k)' + Cardinality(InFlight(k)')
                      <= Max - 1 + Cardinality(Requests)
  BY DEF OvershootBound, CheckedKey
<1> DEFINE N == Cardinality(Requests)
           C == Cardinality(InFlight(k))
           C1 == Cardinality(InFlight(k)')
<1> USE DEF IInv, TypeOK
<1>1. Max \in Nat \ {0} /\ Window \in Nat \ {0} /\ N \in Nat
  BY LimitAssumption, FS_CardinalityType
<1>2. /\ IsFiniteSet(InFlight(k)) /\ C \in Nat /\ C <= N
      /\ IsFiniteSet(InFlight(k)') /\ C1 \in Nat /\ C1 <= N
  <2>1. InFlight(k) \in SUBSET Requests /\ InFlight(k)' \in SUBSET Requests
    BY DEF InFlight
  <2> QED
    BY <2>1, RequestSets
<1>3. Counted(k) \in Nat /\ Counted(k)' \in Nat
  BY DEF Counted
<1>4. Counted(k) + C <= Max - 1 + N
  BY DEF OvershootBound
<1>5. ASSUME C1 <= C, Counted(k)' <= Counted(k)
      PROVE  Counted(k)' + C1 <= Max - 1 + N
  <2> HIDE DEF C, C1, N
  <2> QED
    BY <1>1, <1>2, <1>3, <1>4, <1>5
<1>6. ASSUME NEW r \in Requests, NEW o \in Origins, Refuse(r, o)
      PROVE  C1 <= C /\ Counted(k)' <= Counted(k)
  <2>1. InFlight(k)' = InFlight(k)
    BY <1>6 DEF Refuse, Waiting, InFlight
  <2>2. Counted(k)' = Counted(k)
    BY <1>6 DEF Refuse, Counted, Expired
  <2> QED
    BY <1>2, <1>3, <2>1, <2>2
<1>7. ASSUME NEW r \in Requests, NEW o \in Origins, Admit(r, o)
      PROVE  Counted(k)' + C1 <= Max - 1 + N
  <2>1. Counted(k)' = Counted(k)
    BY <1>7 DEF Admit, Counted, Expired
  <2>2. CASE RecordKey(o) = k
    <3>1. ~IsBlocked(k)
      BY <1>7, <2>2 DEF Admit, CheckedKey
    <3>2. Counted(k) <= Max - 1
      BY <1>1, <3>1 DEF IsBlocked, Counted
    <3> HIDE DEF N, C1
    <3> QED
      BY <1>1, <1>2, <1>3, <2>1, <3>2
  <2>3. CASE RecordKey(o) # k
    <3>1. InFlight(k)' = InFlight(k)
      BY <1>7, <2>3 DEF Admit, Waiting, InFlight
    <3> QED
      BY <1>4, <2>1, <3>1
  <2> QED
    BY <2>2, <2>3
<1>8. ASSUME NEW r \in Requests, BadBody(r) \/ LoginFails(r) \/ LoginSucceeds(r)
      PROVE  InFlight(k)' = InFlight(k) \ {r}
  BY <1>8 DEF BadBody, LoginFails, LoginSucceeds, InFlight
<1>9. ASSUME NEW r \in Requests, InFlight(k)' = InFlight(k) \ {r}
      PROVE  C1 = (IF r \in InFlight(k) THEN C - 1 ELSE C)
  BY <1>2, <1>9, FS_RemoveElement
<1>10. ASSUME NEW r \in Requests, BadBody(r)
       PROVE  C1 <= C /\ Counted(k)' <= Counted(k)
  <2>1. Counted(k)' = Counted(k)
    BY <1>10 DEF BadBody, Counted, Expired
  <2> QED
    BY <1>2, <1>3, <1>8, <1>9, <1>10, <2>1
<1>11. ASSUME NEW r \in Requests, LoginFails(r)
       PROVE  Counted(k)' + C1 <= Max - 1 + N
  <2>1. C1 = (IF r \in InFlight(k) THEN C - 1 ELSE C)
    BY <1>8, <1>9, <1>11
  <2>2. CASE RecordKey(origin[r]) = k
    <3>1. r \in InFlight(k)
      BY <1>11, <2>2 DEF LoginFails, InFlight
    <3>2. failCount'[k] = NextCount(k)
      BY <1>11, <2>2 DEF LoginFails
    <3>3. Counted(k)' <= Counted(k) + 1
      BY <3>2 DEF Counted, NextCount
    <3> HIDE DEF N, C, C1
    <3> QED
      BY <1>1, <1>2, <1>3, <1>4, <2>1, <3>1, <3>3
  <2>3. CASE RecordKey(origin[r]) # k
    <3>1. failCount'[k] = failCount[k] /\ windowStart'[k] = windowStart[k] /\ now' = now
      BY <1>11, <2>3 DEF LoginFails
    <3>2. Counted(k)' = Counted(k)
      BY <3>1 DEF Counted, Expired
    <3> QED
      BY <1>2, <1>3, <1>5, <2>1, <3>2
  <2> QED
    BY <2>2, <2>3
<1>12. ASSUME NEW r \in Requests, LoginSucceeds(r)
       PROVE  C1 <= C /\ Counted(k)' <= Counted(k)
  <2>1. C1 <= C
    BY <1>2, <1>8, <1>9, <1>12
  <2>2. CASE RecordKey(origin[r]) = k
    BY <1>3, <1>12, <2>1, <2>2 DEF LoginSucceeds, Cleared, Counted, Expired
  <2>3. CASE RecordKey(origin[r]) # k
    <3>1. failCount'[k] = failCount[k] /\ windowStart'[k] = windowStart[k] /\ now' = now
      BY <1>12, <2>3 DEF LoginSucceeds
    <3> QED
      BY <1>3, <2>1, <3>1 DEF Counted, Expired
  <2> QED
    BY <2>2, <2>3
<1>13. ASSUME Tick PROVE C1 <= C /\ Counted(k)' <= Counted(k)
  <2>1. InFlight(k)' = InFlight(k)
    BY <1>13 DEF Tick, InFlight
  <2>2. Counted(k)' <= Counted(k)
    BY <1>1, <1>13 DEF Tick, Counted, Expired
  <2> QED
    BY <1>2, <2>1, <2>2
<1>14. ASSUME UNCHANGED vars PROVE C1 <= C /\ Counted(k)' <= Counted(k)
  <2>1. InFlight(k)' = InFlight(k) /\ Counted(k)' = Counted(k)
    BY <1>14 DEF vars, InFlight, Counted, Expired
  <2> QED
    BY <1>2, <1>3, <2>1
<1> QED
  BY <1>5, <1>6, <1>7, <1>10, <1>11, <1>12, <1>13, <1>14 DEF Next

\* A failure is recorded in the window its counter is in or begins.
LEMMA InWindowStep == ASSUME IInv, TypeOK', [Next]_vars PROVE InWindow'
<1> USE LimitAssumption DEF IInv, TypeOK, InWindow, Failures
<1>1. ASSUME NEW r \in Requests, NEW o \in Origins, Refuse(r, o) \/ Admit(r, o)
      PROVE  InWindow'
  BY <1>1 DEF Refuse, Admit
<1>2. ASSUME NEW r \in Requests, BadBody(r) PROVE InWindow'
  BY <1>2 DEF BadBody
<1>3. ASSUME NEW r \in Requests, LoginFails(r) PROVE InWindow'
  <2> DEFINE k == RecordKey(origin[r])
             new == [id |-> FreshId, at |-> now, origin |-> origin[r], key |-> k]
  <2>1. k \in Keys
    BY <1>3, OriginOf DEF LoginFails
  <2>2. new.at = now /\ new.key = k
    OBVIOUS
  <2>3. /\ uncleared' = uncleared \union {new}
        /\ now' = now
        /\ failCount' = [failCount EXCEPT ![k] = NextCount(k)]
        /\ windowStart' = [windowStart EXCEPT ![k] = NextStart(k)]
    BY <1>3 DEF LoginFails
  <2> HIDE DEF k, new
  <2>4. /\ NextStart(k) \in Nat /\ windowStart[k] <= NextStart(k) /\ NextStart(k) <= now
        /\ now < NextStart(k) + Window
        /\ NextCount(k) # 0
    BY <2>1 DEF NextStart, NextCount, Expired
  <2>5. ASSUME NEW f \in uncleared' PROVE f.at <= now /\ f.at < windowStart'[f.key] + Window
    <3>1. CASE f = new
      BY <2>1, <2>2, <2>3, <2>4, <3>1
    <3>2. CASE f \in uncleared
      BY <2>1, <2>3, <2>4, <3>2
    <3> QED
      BY <2>3, <3>1, <3>2
  <2>6. ASSUME NEW j \in Keys
        PROVE  windowStart'[j] <= now /\ (failCount'[j] = 0 => windowStart'[j] = 0)
    BY <2>1, <2>3, <2>4
  <2> QED
    BY <2>3, <2>5, <2>6
<1>4. ASSUME NEW r \in Requests, LoginSucceeds(r) PROVE InWindow'
  BY <1>4, OriginOf DEF LoginSucceeds, Cleared
<1>5. CASE Tick
  BY <1>5 DEF Tick
<1>6. CASE UNCHANGED vars
  BY <1>6 DEF vars
<1> QED
  BY <1>1, <1>2, <1>3, <1>4, <1>5, <1>6 DEF Next

\* the failures the counter of a key stands for
Standing(k) == {f \in uncleared : f.key = k /\ f.at >= windowStart[k]}

\* The counter moves with the set it stands for: a failure joins it, or begins a
\* set of its own when the window of the others has passed; a success empties it.
LEMMA ExactStep == ASSUME IInv, TypeOK', [Next]_vars PROVE FailCountExact'
<1> SUFFICES ASSUME NEW k \in Keys PROVE failCount'[k] = Cardinality(Standing(k)')
  BY DEF FailCountExact, Standing
<1> USE LimitAssumption DEF IInv, TypeOK
<1>1. /\ failCount[k] = Cardinality(Standing(k))
      /\ IsFiniteSet(Standing(k)) /\ Cardinality(Standing(k)) \in Nat
  <2>1. Standing(k) \in SUBSET uncleared
    BY DEF Standing
  <2> QED
    BY <2>1, FS_Subset, FS_CardinalityType DEF FailCountExact, Standing, AttemptsPay
<1>2. ASSUME failCount'[k] = failCount[k], Standing(k)' = Standing(k)
      PROVE  failCount'[k] = Cardinality(Standing(k)')
  BY <1>1, <1>2
<1>3. ASSUME UNCHANGED <<failCount, windowStart, uncleared>>
      PROVE  failCount'[k] = Cardinality(Standing(k)')
  BY <1>2, <1>3 DEF Standing
<1>4. ASSUME NEW r \in Requests, LoginFails(r)
      PROVE  failCount'[k] = Cardinality(Standing(k)')
  <2> DEFINE j == RecordKey(origin[r])
             new == [id |-> FreshId, at |-> now, origin |-> origin[r], key |-> j]
  <2>1. j \in Keys
    BY <1>4, OriginOf DEF LoginFails
  <2>2. new.at = now /\ new.key = j
    OBVIOUS
  <2>3. /\ uncleared' = uncleared \union {new}
        /\ failCount' = [failCount EXCEPT ![j] = NextCount(j)]
        /\ windowStart' = [windowStart EXCEPT ![j] = NextStart(j)]
    BY <1>4 DEF LoginFails
  <2>4. new \notin uncleared
    <3>1. r \in Attempting /\ Attempting \in SUBSET Requests
      BY <1>4 DEF LoginFails, Attempting
    <3>2. Cardinality(Attempting) > 0 /\ Cardinality(Attempting) \in Nat
      BY <3>1, RequestSets, FS_EmptySet
    <3>3. IsFiniteSet(uncleared) /\ Cardinality(uncleared) \in Nat
          /\ Cardinality(uncleared) + Cardinality(Attempting) <= attempts
      BY FS_CardinalityType DEF AttemptsPay
    <3>4. Cardinality(uncleared) < MaxAttempts
      BY <3>2, <3>3
    <3>5. \A f \in uncleared : f.id # FreshId
      BY <3>3, <3>4, FreshIdIsFresh
    <3>6. new.id = FreshId
      OBVIOUS
    <3> QED
      BY <3>5, <3>6
  <2> HIDE DEF j, new
  <2>5. CASE k # j
    <3>1. Standing(k)' = Standing(k)
      BY <2>1, <2>2, <2>3, <2>5 DEF Standing
    <3> QED
      BY <1>2, <2>3, <2>5, <3>1
  <2>6. CASE k = j /\ Expired(k)
    <3>1. NextCount(k) = 1 /\ NextStart(k) = now
      BY <2>6 DEF NextCount, NextStart
    <3>2. ASSUME NEW f \in uncleared, f.key = k PROVE f.at < now
      <4>1. CASE failCount[k] = 0
        <5>1. Standing(k) = {}
          BY <1>1, <4>1, FS_EmptySet
        <5>2. windowStart[k] = 0 /\ f.at \in Nat
          BY <4>1 DEF InWindow, Failures
        <5> QED
          BY <3>2, <5>1, <5>2 DEF Standing
      <4>2. CASE failCount[k] # 0
        BY <2>6, <3>2, <4>2 DEF Expired, InWindow, Failures
      <4> QED
        BY <4>1, <4>2
    <3>3. Standing(k)' = {new}
      <4>1. windowStart'[k] = now
        BY <2>1, <2>3, <2>6, <3>1
      <4>2. \A f \in uncleared' : (f.key = k /\ f.at >= now) <=> f = new
        BY <2>2, <2>3, <2>6, <3>2 DEF Failures
      <4> QED
        BY <2>3, <4>1, <4>2 DEF Standing
    <3>4. Cardinality({new}) = 1
      BY FS_Singleton
    <3> QED
      BY <2>1, <2>3, <2>6, <3>1, <3>3, <3>4
  <2>7. CASE k = j /\ ~Expired(k)
    <3>1. NextCount(k) = failCount[k] + 1 /\ NextStart(k) = windowStart[k]
      BY <2>7 DEF NextCount, NextStart
    <3>2. windowStart'[k] = windowStart[k] /\ windowStart[k] <= now
      BY <2>1, <2>3, <2>7, <3>1 DEF InWindow
    <3>3. Standing(k)' = Standing(k) \union {new}
      BY <2>2, <2>3, <2>7, <3>2 DEF Standing
    <3>4. new \notin Standing(k)
      BY <2>4 DEF Standing
    <3>5. Cardinality(Standing(k)') = Cardinality(Standing(k)) + 1
      BY <1>1, <3>3, <3>4, FS_AddElement
    <3> QED
      BY <1>1, <2>1, <2>3, <2>7, <3>1, <3>5
  <2> QED
    BY <2>5, <2>6, <2>7
<1>5. ASSUME NEW r \in Requests, LoginSucceeds(r)
      PROVE  failCount'[k] = Cardinality(Standing(k)')
  <2> DEFINE j == RecordKey(origin[r])
  <2>1. /\ j \in Keys
        /\ uncleared' = {f \in uncleared : f.key # j}
        /\ failCount' = [failCount EXCEPT ![j] = 0]
        /\ windowStart' = [windowStart EXCEPT ![j] = 0]
    BY <1>5, OriginOf DEF LoginSucceeds, Cleared
  <2> HIDE DEF j
  <2>2. CASE k # j
    <3>1. Standing(k)' = Standing(k)
      BY <2>1, <2>2 DEF Standing
    <3> QED
      BY <1>2, <2>1, <2>2, <3>1
  <2>3. CASE k = j
    <3>1. Standing(k)' = {}
      BY <2>1, <2>3 DEF Standing
    <3> QED
      BY <2>1, <2>3, <3>1, FS_EmptySet
  <2> QED
    BY <2>2, <2>3
<1>6. ASSUME \/ \E r \in Requests, o \in Origins : Refuse(r, o) \/ Admit(r, o)
             \/ \E r \in Requests : BadBody(r)
             \/ Tick \/ UNCHANGED vars
      PROVE  UNCHANGED <<failCount, windowStart, uncleared>>
  BY <1>6 DEF Refuse, Admit, BadBody, Tick, vars
<1> QED
  BY <1>3, <1>4, <1>5, <1>6 DEF Next

(* What the last Window holds, of the failures that no success has cleared. *)

\* failures under a key from before its present count that lie less than a Window
\* before the beginning of that count
Before(k) == {f \in uncleared : /\ f.key = k
                            /\ f.at < windowStart[k] /\ windowStart[k] < f.at + Window}

\* The failure a count began with is still there, a Window away from any later
\* count: so one failure less reaches over the beginning of a count than it held.
CountsInv ==
  \A k \in Keys :
    /\ failCount[k] > 0 => \E f \in uncleared : f.key = k /\ f.at = windowStart[k]
    /\ CheckedKey(k) =>
         /\ failCount[k] <= Max - 1 + Cardinality(Requests)
         /\ Cardinality(Before(k)) <= Max - 2 + Cardinality(Requests)

LEMMA Sizes ==
  ASSUME IInv, NEW S \in SUBSET uncleared
  PROVE  IsFiniteSet(S) /\ Cardinality(S) \in Nat
BY FS_Subset, FS_CardinalityType DEF IInv, AttemptsPay

LEMMA SomeRequests ==
  /\ Cardinality(Requests) \in Nat /\ Cardinality(Requests) >= 1
  /\ Max \in Nat /\ Max >= 1
  /\ Window \in Nat /\ Window >= 1
BY LimitAssumption, FS_CardinalityType, FS_EmptySet

LEMMA InitCountsInv == Init => CountsInv
<1> SUFFICES ASSUME Init, NEW k \in Keys
             PROVE  /\ failCount[k] = 0
                    /\ Cardinality(Before(k)) = 0
  BY SomeRequests DEF CountsInv
<1>1. Before(k) = {}
  BY DEF Init, Before
<1> QED
  BY <1>1, FS_EmptySet DEF Init

LEMMA CountsStep ==
  ASSUME IInv, IInv', CountsInv, [Next]_vars
  PROVE  CountsInv'
<1> DEFINE N == Cardinality(Requests)
<1> SUFFICES ASSUME NEW k \in Keys
             PROVE  /\ failCount'[k] > 0 =>
                         \E f \in uncleared' : f.key = k /\ f.at = windowStart'[k]
                    /\ CheckedKey(k) => /\ failCount'[k] <= Max - 1 + N
                                        /\ Cardinality(Before(k)') <= Max - 2 + N
  BY DEF CountsInv, CheckedKey
<1> USE SomeRequests
<1>1. /\ now \in Nat /\ failCount \in [Keys -> Nat] /\ windowStart \in [Keys -> Nat]
      /\ windowStart[k] <= now /\ (failCount[k] = 0 => windowStart[k] = 0)
      /\ \A f \in uncleared : f.at \in Nat
  BY DEF IInv, TypeOK, InWindow, Failures
<1>2. /\ failCount[k] > 0 => \E f \in uncleared : f.key = k /\ f.at = windowStart[k]
      /\ CheckedKey(k) => /\ failCount[k] <= Max - 1 + N
                          /\ Cardinality(Before(k)) <= Max - 2 + N
  BY DEF CountsInv
<1>3. Standing(k) \in SUBSET uncleared /\ failCount[k] = Cardinality(Standing(k))
  BY DEF Standing, IInv, FailCountExact
<1>4. CASE /\ failCount'[k] = failCount[k] /\ windowStart'[k] = windowStart[k]
           /\ {f \in uncleared' : f.key = k} = {f \in uncleared : f.key = k}
  <2>1. Before(k)' = Before(k)
    BY <1>4 DEF Before
  <2> QED
    BY <1>2, <1>4, <2>1
<1>5. CASE UNCHANGED <<failCount, windowStart, uncleared>>
  BY <1>4, <1>5
<1>6. ASSUME NEW r \in Requests, LoginFails(r)
      PROVE  /\ failCount'[k] > 0 => \E f \in uncleared' : f.key = k /\ f.at = windowStart'[k]
             /\ CheckedKey(k) => /\ failCount'[k] <= Max - 1 + N
                                 /\ Cardinality(Before(k)') <= Max - 2 + N
  <2> DEFINE j == RecordKey(origin[r])
             new == [id |-> FreshId, at |-> now, origin |-> origin[r], key |-> j]
  <2>1. j \in Keys
    BY <1>6, OriginOf DEF LoginFails, IInv
  <2>2. new.at = now /\ new.key = j
    OBVIOUS
  <2>3. /\ uncleared' = uncleared \union {new}
        /\ now' = now
        /\ failCount' = [failCount EXCEPT ![j] = NextCount(j)]
        /\ windowStart' = [windowStart EXCEPT ![j] = NextStart(j)]
    BY <1>6 DEF LoginFails
  <2> HIDE DEF j, new
  <2>4. CASE k # j
    <3>1. {f \in uncleared' : f.key = k} = {f \in uncleared : f.key = k}
      BY <2>2, <2>3, <2>4
    <3> QED
      BY <1>1, <1>4, <2>1, <2>3, <2>4, <3>1
  <2>5. CASE k = j
    <3>1. failCount'[k] = NextCount(k) /\ windowStart'[k] = NextStart(k)
      BY <1>1, <2>1, <2>3, <2>5
    <3>2. CheckedKey(k) => failCount'[k] <= Max - 1 + N
      <4>1. Counted(k)' = failCount'[k] /\ failCount'[k] \in Nat
        BY <1>1, <2>3, <3>1 DEF Counted, Expired, NextCount, NextStart
      <4>2. CheckedKey(k) => Counted(k)' + Cardinality(InFlight(k)') <= Max - 1 + N
        BY DEF IInv, OvershootBound, CheckedKey
      <4>3. Cardinality(InFlight(k)') \in Nat
        <5>1. InFlight(k)' \in SUBSET Requests
          BY DEF InFlight
        <5> QED
          BY <5>1, RequestSets
      <4> DEFINE C1 == Cardinality(InFlight(k)')
      <4>4. N \in Nat
        BY SomeRequests
      <4> HIDE DEF N, C1
      <4>5. C1 \in Nat /\ (CheckedKey(k) => failCount'[k] + C1 <= Max - 1 + N)
        BY <4>1, <4>2, <4>3 DEF C1
      <4> QED
        BY <4>1, <4>4, <4>5
    <3>3. CASE ~Expired(k)
      <4>1. windowStart'[k] = windowStart[k] /\ failCount[k] > 0
        BY <1>1, <3>1, <3>3 DEF NextStart, Expired
      <4>2. Before(k)' = Before(k)
        BY <1>1, <2>2, <2>3, <4>1 DEF Before
      <4> QED
        BY <1>2, <2>3, <3>2, <4>1, <4>2
    <3>4. CASE Expired(k)
      <4>1. windowStart'[k] = now
        BY <3>1, <3>4 DEF NextStart
      <4>2. \E f \in uncleared' : f.key = k /\ f.at = windowStart'[k]
        BY <2>2, <2>3, <2>5, <4>1
      <4>3. CASE failCount[k] = 0
        <5>1. Standing(k) = {}
          BY <1>3, <4>3, Sizes, FS_EmptySet
        <5>2. \A f \in uncleared : f.key # k
          BY <1>1, <4>3, <5>1 DEF Standing
        <5>3. Before(k)' = {}
          BY <1>1, <2>2, <2>3, <4>1, <5>2 DEF Before
        <5> QED
          BY <3>2, <4>2, <5>3, FS_EmptySet
      <4>4. CASE failCount[k] # 0
        <5>1. PICK first \in uncleared : first.key = k /\ first.at = windowStart[k]
          BY <1>1, <1>2, <4>4
        <5>2. now >= windowStart[k] + Window
          BY <1>1, <3>4, <4>4 DEF Expired
        <5>3. Before(k)' \subseteq Standing(k) \ {first}
          BY <1>1, <2>2, <2>3, <4>1, <5>1, <5>2 DEF Before, Standing
        <5>4. /\ IsFiniteSet(Standing(k) \ {first})
              /\ Cardinality(Standing(k) \ {first}) = failCount[k] - 1
          <6>1. first \in Standing(k) /\ IsFiniteSet(Standing(k))
            BY <1>1, <1>3, <5>1, Sizes DEF Standing
          <6> QED
            BY <1>3, <6>1, FS_RemoveElement
        <5>5. Cardinality(Before(k)') <= failCount[k] - 1 /\ Cardinality(Before(k)') \in Nat
          BY <5>3, <5>4, FS_Subset, FS_CardinalityType
        <5> QED
          BY <1>1, <1>2, <3>2, <4>2, <5>5
      <4> QED
        BY <4>3, <4>4
    <3> QED
      BY <3>3, <3>4
  <2> QED
    BY <2>4, <2>5
<1>7. ASSUME NEW r \in Requests, LoginSucceeds(r)
      PROVE  /\ failCount'[k] > 0 => \E f \in uncleared' : f.key = k /\ f.at = windowStart'[k]
             /\ CheckedKey(k) => /\ failCount'[k] <= Max - 1 + N
                                 /\ Cardinality(Before(k)') <= Max - 2 + N
  <2> DEFINE j == RecordKey(origin[r])
  <2>1. /\ j \in Keys
        /\ uncleared' = {f \in uncleared : f.key # j}
        /\ failCount' = [failCount EXCEPT ![j] = 0]
        /\ windowStart' = [windowStart EXCEPT ![j] = 0]
    BY <1>7, OriginOf DEF LoginSucceeds, Cleared, IInv
  <2> HIDE DEF j
  <2>2. CASE k # j
    <3>1. {f \in uncleared' : f.key = k} = {f \in uncleared : f.key = k}
      BY <2>1, <2>2
    <3> QED
      BY <1>1, <1>4, <2>1, <2>2, <3>1
  <2>3. CASE k = j
    <3>1. failCount'[k] = 0 /\ Before(k)' = {}
      BY <1>1, <2>1, <2>3 DEF Before
    <3> QED
      BY <3>1, FS_EmptySet
  <2> QED
    BY <2>2, <2>3
<1>8. ASSUME \/ \E r \in Requests, o \in Origins : Refuse(r, o) \/ Admit(r, o)
             \/ \E r \in Requests : BadBody(r)
             \/ Tick \/ UNCHANGED vars
      PROVE  UNCHANGED <<failCount, windowStart, uncleared>>
  BY <1>8 DEF Refuse, Admit, BadBody, Tick, vars
<1> QED
  BY <1>5, <1>6, <1>7, <1>8 DEF Next

\* An uncleared failure of the last Window is in the present count or reached over
\* its beginning.
LEMMA CountsBoundUncleared == ASSUME IInv, CountsInv PROVE UnclearedBound
<1> DEFINE N == Cardinality(Requests)
<1> SUFFICES ASSUME NEW k \in Keys, CheckedKey(k)
             PROVE  Cardinality({f \in uncleared : f.key = k /\ now - f.at < Window})
                      <= 2 * (Max - 1 + N) - 1
  BY DEF UnclearedBound
<1> DEFINE Recent == {f \in uncleared : f.key = k /\ now - f.at < Window}
<1>1. Recent \subseteq Before(k) \union Standing(k)
  BY SomeRequests DEF IInv, TypeOK, InWindow, Failures, Before, Standing
<1>2. /\ Before(k) \in SUBSET uncleared /\ Standing(k) \in SUBSET uncleared
      /\ Recent \in SUBSET uncleared
      /\ Cardinality(Standing(k)) = failCount[k]
  BY DEF Before, Standing, IInv, FailCountExact
<1>3. /\ IsFiniteSet(Before(k)) /\ IsFiniteSet(Standing(k)) /\ IsFiniteSet(Recent)
      /\ Cardinality(Before(k)) \in Nat /\ Cardinality(Standing(k)) \in Nat
      /\ Cardinality(Recent) \in Nat
  BY <1>2, Sizes
<1>4. /\ IsFiniteSet(Before(k) \union Standing(k))
      /\ Cardinality(Before(k) \union Standing(k))
           = Cardinality(Before(k)) + Cardinality(Standing(k))
             - Cardinality(Before(k) \intersect Standing(k))
      /\ Cardinality(Before(k) \intersect Standing(k)) \in Nat
  BY <1>3, FS_Union, FS_Intersection, FS_CardinalityType
<1>5. Cardinality(Recent) <= Cardinality(Before(k) \union Standing(k))
  BY <1>1, <1>4, FS_Subset
<1>6. Cardinality(Standing(k)) <= Max - 1 + N /\ Cardinality(Before(k)) <= Max - 2 + N
  BY <1>2 DEF CountsInv
<1> HIDE DEF Recent, N
<1>7. N \in Nat
  BY SomeRequests DEF N
<1>8. Cardinality(Recent) <= 2 * (Max - 1 + N) - 1
  BY <1>3, <1>4, <1>5, <1>6, <1>7, SomeRequests
<1> QED
  BY <1>8 DEF Recent

------------------------------------------------------------------------------
\* IInv holds in every state of the login path.
THEOREM Invariance == Spec => []IInv
<1>1. IInv /\ [Next]_vars => IInv'
  BY TypeStep, AttemptsPayStep, OvershootStep, InWindowStep, ExactStep DEF IInv
<1> QED
  BY InitIInv, <1>1, PTL DEF Spec

\* The variables of the login path keep their types.
THEOREM TypeCorrect == Spec => []TypeOK
BY Invariance, PTL DEF IInv

\* OvershootBound: for any limits and any number of requests at once, what the
\* window between check and record lets through is at most one failure each, for
\* a key whose failures are recorded under the name that is checked.
THEOREM OvershootIsBounded == Spec => []OvershootBound
BY Invariance, PTL DEF IInv

\* UnclearedBound: for any limits and any number of requests at once, the failures
\* of the last Window since the last success are fewer than two full counts, for
\* a key whose failures are recorded under the name that is checked.
THEOREM UnclearedIsBounded == Spec => []UnclearedBound
<1>1. IInv /\ IInv' /\ CountsInv /\ [Next]_vars => CountsInv'
  BY CountsStep
<1>2. IInv /\ CountsInv => UnclearedBound
  BY CountsBoundUncleared
<1> QED
  BY Invariance, InitCountsInv, <1>1, <1>2, PTL DEF Spec

\* FailCountExact: the counter is the number of failures since its window began
\* and since the last success, for any number of requests at once.
THEOREM CounterIsExact == Spec => []FailCountExact
BY Invariance, PTL DEF IInv

\* RefusalIsJustified: a counter that blocks counts failures of its window only, and
\* the window of a block has not passed.
THEOREM RefusalsAreJustified == Spec => RefusalIsJustified
<1>1. ASSUME IInv, NEW r \in Requests, NEW o \in Origins, Refuse(r, o)
      PROVE  Cardinality({f \in uncleared : f.key = CheckKey(o) /\ now - f.at < Window}) >= Max
  <2> DEFINE k == CheckKey(o)
             Recent == {f \in uncleared : f.key = k /\ now - f.at < Window}
             Since == {f \in uncleared : f.key = k /\ f.at >= windowStart[k]}
  <2>1. k \in Keys /\ now \in Nat /\ windowStart[k] \in Nat /\ failCount[k] \in Nat
        /\ Window \in Nat /\ Max \in Nat
    BY <1>1, KeysOf, LimitAssumption DEF IInv, TypeOK
  <2>2. failCount[k] >= Max /\ now - windowStart[k] < Window
    BY <1>1, <2>1 DEF Refuse, IsBlocked, Expired
  <2>3. \A f \in uncleared : f.at \in Nat
    BY <1>1, LimitAssumption DEF IInv, TypeOK, Failures
  <2>4. Since \subseteq Recent
    BY <2>1, <2>2, <2>3
  <2>5. IsFiniteSet(Recent)
    BY <1>1, FS_Subset DEF IInv, AttemptsPay
  <2>6. Cardinality(Since) <= Cardinality(Recent) /\ Cardinality(Recent) \in Nat
    BY <2>4, <2>5, FS_Subset, FS_CardinalityType
  <2>7. failCount[k] = Cardinality(Since)
    BY <1>1, <2>1 DEF IInv, FailCountExact
  <2> HIDE DEF k, Since, Recent
  <2>8. Cardinality(Recent) >= Max
    BY <2>1, <2>2, <2>6, <2>7
  <2> QED
    BY <2>8 DEF Recent, k
<1>2. IInv /\ [Next]_vars =>
        [\A r \in Requests, o \in Origins : Refuse(r, o) =>
           Cardinality({f \in uncleared : f.key = CheckKey(o) /\ now - f.at < Window})
             >= Max]_vars
  BY <1>1
<1> QED
  BY Invariance, <1>2, PTL DEF Spec, RefusalIsJustified

\* BlockIsNotProlonged: only a failure after the window's end moves its start, and
\* then the key was not blocked.
THEOREM BlocksAreNotProlonged == Spec => BlockIsNotProlonged
<1>1. IInv /\ [Next]_vars =>
        [\A k \in Keys : IsBlocked(k) /\ IsBlocked(k)' =>
           windowStart'[k] = windowStart[k]]_vars
  <2> SUFFICES ASSUME IInv, Next, NEW k \in Keys, IsBlocked(k), IsBlocked(k)'
               PROVE  windowStart'[k] = windowStart[k]
    OBVIOUS
  <2> USE DEF IInv, TypeOK
  <2>1. ASSUME NEW r \in Requests, LoginFails(r) PROVE windowStart'[k] = windowStart[k]
    <3>1. RecordKey(origin[r]) \in Keys
      BY <2>1, OriginOf DEF LoginFails
    <3> QED
      BY <2>1, <3>1 DEF LoginFails, IsBlocked, NextStart
  <2>2. ASSUME NEW r \in Requests, LoginSucceeds(r) PROVE windowStart'[k] = windowStart[k]
    <3>1. RecordKey(origin[r]) \in Keys
      BY <2>2, OriginOf DEF LoginSucceeds
    <3>2. failCount'[k] # 0
      BY DEF IsBlocked, Expired
    <3> QED
      BY <2>2, <3>1, <3>2 DEF LoginSucceeds, Cleared
  <2>3. ASSUME \/ \E r \in Requests, o \in Origins : Refuse(r, o) \/ Admit(r, o)
               \/ \E r \in Requests : BadBody(r)
               \/ Tick
        PROVE  windowStart'[k] = windowStart[k]
    BY <2>3 DEF Refuse, Admit, BadBody, Tick
  <2> QED
    BY <2>1, <2>2, <2>3 DEF Next
<1> QED
  BY Invariance, <1>1, PTL DEF Spec, BlockIsNotProlonged
==============================================================================

----------------------------- MODULE TokensProofs -----------------------------
(***************************************************************************)
(* Proofs about Tokens, for any validity, window and clock resolution such *)
(* that the validity is at least two windows and a second.                 *)
(***************************************************************************)
EXTENDS Tokens, TLAPS

\* Cutting a time to the second loses less than a second.
LEMMA TruncBounds ==
  ASSUME NEW t \in Int
  PROVE  Trunc(t) \in Int /\ Trunc(t) <= t /\ t < Trunc(t) + Second
BY ClockAssumption DEF Trunc

\* What a token that was issued is worth, and when its parent was refreshed: not
\* before its window opened.
Dated ==
  \A t \in issued :
    /\ born[t] <= now
    /\ exp[t] > born[t] + Validity - Second
    /\ parent[t] # NoToken => exp[parent[t]] - born[t] <= RefreshWindow

\* A call past its test was let through by it, and time does not go back.
PastTest ==
  \A r \in Refreshes :
    call[r] = "inWindow" => exp[given[r]] - now <= RefreshWindow

\* A token's line is its parent and the parent's line, all there before it.
Lines ==
  \A t \in issued :
    IF parent[t] = NoToken
    THEN line[t] = {}
    ELSE line[t] = line[parent[t]] \union {parent[t]} /\ born[parent[t]] <= born[t]

IInv == TokensTypeOK /\ Dated /\ PastTest /\ Lines /\ TwoGenerations

LEMMA InitIInv == Init => IInv
BY DEF Init, IInv, TokensTypeOK, Dated, PastTest, Lines, TwoGenerations

\* Issuing a token to a parent whose window is open, or to nobody, keeps the dates.
LEMMA IssueStep ==
  ASSUME TokensTypeOK, Dated, NEW t \in Tokens, NEW p \in issued \union {NoToken},
         IssueToken(t, p), UNCHANGED now,
         p # NoToken => exp[p] - now <= RefreshWindow
  PROVE  /\ Dated'
         /\ issued' \subseteq Tokens
         /\ born' \in [Tokens -> Nat]
         /\ exp' \in [Tokens -> Int]
         /\ parent' \in [Tokens -> issued' \union {NoToken}]
         /\ line' \in [Tokens -> SUBSET issued']
         /\ \A u \in issued : exp'[u] = exp[u]
<1> USE DEF TokensTypeOK
<1>1. Validity \in Nat /\ Second \in Nat /\ RefreshWindow \in Nat /\ now + Validity \in Int
  BY ClockAssumption
<1>2. Trunc(now + Validity) \in Int /\ now + Validity < Trunc(now + Validity) + Second
  BY <1>1, TruncBounds
<1>3. /\ issued' = issued \union {t}
      /\ t \notin issued
      /\ born' = [born EXCEPT ![t] = now]
      /\ exp' = [exp EXCEPT ![t] = Trunc(now + Validity)]
      /\ parent' = [parent EXCEPT ![t] = p]
      /\ line' = [line EXCEPT ![t] = IF p = NoToken THEN {} ELSE line[p] \union {p}]
  BY DEF IssueToken, Expiry
<1>4. /\ issued' \subseteq Tokens
      /\ born' \in [Tokens -> Nat]
      /\ exp' \in [Tokens -> Int]
      /\ parent' \in [Tokens -> issued' \union {NoToken}]
      /\ line' \in [Tokens -> SUBSET issued']
      /\ \A u \in issued : exp'[u] = exp[u]
  BY <1>2, <1>3
<1>5. ASSUME NEW u \in issued'
      PROVE  /\ born'[u] <= now'
             /\ exp'[u] > born'[u] + Validity - Second
             /\ parent'[u] # NoToken => exp'[parent'[u]] - born'[u] <= RefreshWindow
  <2>1. CASE u = t
    BY <2>1, <1>1, <1>2, <1>3, <1>4, NoTokenAssumption
  <2>2. CASE u # t
    <3>1. u \in issued /\ born'[u] = born[u] /\ exp'[u] = exp[u] /\ parent'[u] = parent[u]
      BY <2>2, <1>3
    <3> QED
      BY <3>1, <1>4 DEF Dated
  <2> QED
    BY <2>1, <2>2
<1> QED
  BY <1>4, <1>5 DEF Dated

LEMMA DatesStep ==
  ASSUME TokensTypeOK, Dated, PastTest, [Next]_vars
  PROVE  TokensTypeOK' /\ Dated' /\ PastTest'
<1> USE DEF TokensTypeOK, tokenVars
<1>1. ASSUME NEW t \in Tokens, Login(t) PROVE TokensTypeOK' /\ Dated' /\ PastTest'
  <2>1. IssueToken(t, NoToken) /\ UNCHANGED <<now, call, given>>
    BY <1>1 DEF Login
  <2>2. /\ Dated' /\ issued' \subseteq Tokens /\ born' \in [Tokens -> Nat]
        /\ exp' \in [Tokens -> Int]
        /\ parent' \in [Tokens -> issued' \union {NoToken}]
        /\ line' \in [Tokens -> SUBSET issued']
        /\ \A u \in issued : exp'[u] = exp[u]
    BY <2>1, IssueStep
  <2>3. issued \subseteq issued'
    BY <2>1 DEF IssueToken
  <2>4. TokensTypeOK'
    BY <2>1, <2>2, <2>3
  <2>5. PastTest'
    BY <2>1, <2>2 DEF PastTest
  <2> QED
    BY <2>2, <2>4, <2>5
<1>2. ASSUME NEW r \in Refreshes, NEW t \in Tokens, Reissue(r, t)
      PROVE  TokensTypeOK' /\ Dated' /\ PastTest'
  <2>1. /\ IssueToken(t, given[r]) /\ UNCHANGED <<now, given>>
        /\ call[r] = "inWindow" /\ call' = [call EXCEPT ![r] = "idle"]
    BY <1>2 DEF Reissue
  <2>2. given[r] \in issued /\ exp[given[r]] - now <= RefreshWindow
    BY <2>1 DEF PastTest
  <2>3. /\ Dated' /\ issued' \subseteq Tokens /\ born' \in [Tokens -> Nat]
        /\ exp' \in [Tokens -> Int]
        /\ parent' \in [Tokens -> issued' \union {NoToken}]
        /\ line' \in [Tokens -> SUBSET issued']
        /\ \A u \in issued : exp'[u] = exp[u]
    BY <2>1, <2>2, IssueStep
  <2>4. issued \subseteq issued'
    BY <2>1 DEF IssueToken
  <2>5. TokensTypeOK'
    BY <2>1, <2>3, <2>4
  <2>6. PastTest'
    BY <2>1, <2>3 DEF PastTest
  <2> QED
    BY <2>3, <2>5, <2>6
<1>3. ASSUME NEW r \in Refreshes, NEW t \in Tokens, Parse(r, t)
      PROVE  TokensTypeOK' /\ Dated' /\ PastTest'
  BY <1>3 DEF Parse, Dated, PastTest
<1>4. ASSUME NEW r \in Refreshes, TestWindow(r)
      PROVE  TokensTypeOK' /\ Dated' /\ PastTest'
  BY <1>4 DEF TestWindow, InWindow, Dated, PastTest
<1>5. CASE Restart
  BY <1>5 DEF Restart, Dated, PastTest
<1>6. CASE Tick
  BY <1>6, ClockAssumption DEF Tick, Dated, PastTest
<1>7. CASE UNCHANGED vars
  BY <1>7 DEF vars, Dated, PastTest
<1> QED
  BY <1>1, <1>2, <1>3, <1>4, <1>5, <1>6, <1>7 DEF Next

\* A child is born after its parent's window opened, so its own window opens a
\* validity later than that, less the second lost; two windows fit in between.
LEMMA Grandparent ==
  ASSUME TokensTypeOK, Dated, NEW p \in issued, parent[p] # NoToken,
         exp[p] - now <= RefreshWindow
  PROVE  exp[parent[p]] <= now
<1> USE DEF TokensTypeOK
<1>1. /\ exp[parent[p]] - born[p] <= RefreshWindow
      /\ exp[p] > born[p] + Validity - Second
  BY DEF Dated
<1>2. /\ now \in Int /\ born[p] \in Int /\ exp[p] \in Int /\ exp[parent[p]] \in Int
      /\ Validity \in Int /\ Second \in Int /\ RefreshWindow \in Int
      /\ Validity >= 2 * RefreshWindow + Second
  BY ClockAssumption
<1> QED
  BY <1>1, <1>2

\* The line of a new token is its parent, the grandparent, which has expired, and
\* what had expired when the parent was born.
LEMMA IssueLine ==
  ASSUME IInv, NEW t \in Tokens, NEW p \in issued \union {NoToken},
         IssueToken(t, p),
         p # NoToken => exp[p] - now <= RefreshWindow
  PROVE  Lines' /\ TwoGenerations'
<1> USE DEF IInv, TokensTypeOK
<1>1. /\ issued' = issued \union {t} /\ t \in Tokens /\ t \notin issued
      /\ born' = [born EXCEPT ![t] = now]
      /\ \E e : exp' = [exp EXCEPT ![t] = e]
      /\ parent' = [parent EXCEPT ![t] = p]
      /\ line' = [line EXCEPT ![t] = IF p = NoToken THEN {} ELSE line[p] \union {p}]
  BY DEF IssueToken
<1>2. \A u \in issued : /\ born'[u] = born[u] /\ exp'[u] = exp[u]
                        /\ parent'[u] = parent[u] /\ line'[u] = line[u]
                        /\ line[u] \subseteq issued /\ parent[u] \in issued \union {NoToken}
  BY <1>1
<1>3. born'[t] = now /\ parent'[t] = p
      /\ line'[t] = (IF p = NoToken THEN {} ELSE line[p] \union {p})
  BY <1>1
<1>4. Lines'
  <2> SUFFICES ASSUME NEW u \in issued'
               PROVE  IF parent'[u] = NoToken
                      THEN line'[u] = {}
                      ELSE /\ line'[u] = line'[parent'[u]] \union {parent'[u]}
                           /\ born'[parent'[u]] <= born'[u]
    BY DEF Lines
  <2>1. CASE u = t
    BY <1>2, <1>3, <2>1 DEF Dated
  <2>2. CASE u # t
    BY <1>1, <1>2, <2>2, NoTokenAssumption DEF Lines
  <2> QED
    BY <2>1, <2>2
<1>5. TwoGenerations'
  <2> SUFFICES ASSUME NEW u \in issued', NEW a \in line'[u] \ {parent'[u]}
               PROVE  exp'[a] <= born'[u]
    BY DEF TwoGenerations
  <2>1. CASE u # t
    BY <1>1, <1>2, <2>1 DEF TwoGenerations
  <2>2. CASE u = t
    <3>1. p # NoToken /\ p \in issued /\ a \in line[p]
      BY <1>3, <2>2
    <3>2. a \in issued /\ exp'[a] = exp[a] /\ parent[p] # NoToken
      BY <1>2, <3>1 DEF Lines
    <3>3. CASE a = parent[p]
      BY <1>3, <2>2, <3>1, <3>2, <3>3, Grandparent
    <3>4. CASE a # parent[p]
      <4>1. exp[a] <= born[p] /\ born[p] <= now
        BY <3>1, <3>4 DEF TwoGenerations, Dated
      <4>2. exp[a] \in Int /\ born[p] \in Int /\ now \in Int
        BY <3>1, <3>2
      <4> QED
        BY <1>3, <2>2, <3>2, <4>1, <4>2
    <3> QED
      BY <3>3, <3>4
  <2> QED
    BY <2>1, <2>2
<1> QED
  BY <1>4, <1>5

LEMMA LinesStep == ASSUME IInv, [Next]_vars PROVE Lines' /\ TwoGenerations'
<1>1. ASSUME NEW t \in Tokens, Login(t) PROVE Lines' /\ TwoGenerations'
  <2>1. IssueToken(t, NoToken)
    BY <1>1 DEF Login
  <2> QED
    BY <2>1, IssueLine
<1>2. ASSUME NEW r \in Refreshes, NEW t \in Tokens, Reissue(r, t)
      PROVE  Lines' /\ TwoGenerations'
  <2>1. IssueToken(t, given[r]) /\ call[r] = "inWindow"
    BY <1>2 DEF Reissue
  <2>2. given[r] \in issued /\ exp[given[r]] - now <= RefreshWindow
    BY <2>1 DEF IInv, TokensTypeOK, PastTest
  <2> QED
    BY <2>1, <2>2, IssueLine
<1>3. ASSUME UNCHANGED tokenVars PROVE Lines' /\ TwoGenerations'
  BY <1>3 DEF IInv, Lines, TwoGenerations, tokenVars
<1>4. ASSUME \/ \E r \in Refreshes, t \in Tokens : Parse(r, t)
             \/ \E r \in Refreshes : TestWindow(r)
             \/ Restart \/ Tick \/ UNCHANGED vars
      PROVE  UNCHANGED tokenVars
  BY <1>4 DEF Parse, TestWindow, Restart, Tick, vars, tokenVars
<1> QED
  BY <1>1, <1>2, <1>3, <1>4 DEF Next

LEMMA StepIInv == IInv /\ [Next]_vars => IInv'
BY DatesStep, LinesStep DEF IInv

LEMMA Invariance == Spec => []IInv
BY InitIInv, StepIInv, PTL DEF Spec

LEMMA IInvRefreshExtends == IInv => RefreshExtends
<1> SUFFICES ASSUME IInv, NEW t \in issued, parent[t] # NoToken
             PROVE  exp[t] > exp[parent[t]] + RefreshWindow
  BY DEF RefreshExtends
<1> USE DEF IInv, TokensTypeOK
<1>1. /\ exp[parent[t]] - born[t] <= RefreshWindow
      /\ exp[t] > born[t] + Validity - Second
  BY DEF Dated
<1>2. /\ born[t] \in Int /\ exp[t] \in Int /\ exp[parent[t]] \in Int
      /\ Validity \in Int /\ Second \in Int /\ RefreshWindow \in Int
      /\ Validity >= 2 * RefreshWindow + Second
  BY ClockAssumption
<1> QED
  BY <1>1, <1>2

\* Type correctness: in particular a call past its check was given a token that
\* was issued.
THEOREM TypeCorrect == Spec => []TokensTypeOK
<1>1. IInv => TokensTypeOK
  BY DEF IInv
<1> QED
  BY Invariance, <1>1, PTL

\* TwoGenerations: when a token is issued all of its line but its parent has
\* expired, so no sequence of refreshes, however long, slow or many at once, makes
\* three tokens of a line valid.
THEOREM LinesHaveExpired == Spec => []TwoGenerations
<1>1. IInv => TwoGenerations
  BY DEF IInv
<1> QED
  BY Invariance, <1>1, PTL

\* A refreshed token outlives the one it replaces by more than the window.
THEOREM RefreshedTokensLastLonger == Spec => []RefreshExtends
BY Invariance, IInvRefreshExtends, PTL
==============================================================================

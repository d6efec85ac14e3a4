-------------------------------- MODULE Tokens --------------------------------
(***************************************************************************)
(* The life of login tokens: internal/auth/auth.go.                        *)
(*                                                                         *)
(* The server remembers no token.  What a token is worth is decided by the *)
(* expiry written into it, so tokens outlive every call and the server.    *)
(* Login issues a first token and Refresh another one in its place, of     *)
(* the same identity.  Refresh reads the clock three times, when it checks *)
(* the signature and expiry, when it tests the window, and when it issues: *)
(* time passes and other calls run in between.  Refreshing does not revoke *)
(* a token, so one token may be refreshed by several calls.                *)
(*                                                                         *)
(* The clock counts fractions of a second, and the library cuts a time it  *)
(* writes into a token down to the second.  Signatures, claims other than  *)
(* the expiry, and the client's address are left out.                      *)
(***************************************************************************)
EXTENDS Integers

CONSTANTS Tokens,         \* tokens that can ever be issued
          NoToken,        \* the parent of a token issued by Login
          Refreshes,      \* calls of Refresh under way at one time
          Second,         \* clock units in a second
          Validity,       \* tokenValidity (8 h)
          RefreshWindow,  \* refreshWindow (15 min)
          MaxTime         \* bound: the clock stops here

ASSUME NoTokenAssumption == NoToken \notin Tokens

ASSUME ClockAssumption ==
  /\ {Second, Validity, RefreshWindow} \subseteq Nat \ {0}
  /\ MaxTime \in Nat
  /\ Validity >= 2 * RefreshWindow + Second

VARIABLES
  now,     \* the clock
  issued,  \* tokens that exist
  born,    \* when issueToken read the clock
  exp,     \* Claims.ExpiresAt
  parent,  \* the token it was issued in exchange for
  line,    \* history: that token, the one it was issued for, and so on
  call,    \* program counter of each Refresh
  given    \* the token it was called with

tokenVars == <<issued, born, exp, parent, line>>
vars == <<now, issued, born, exp, parent, line, call, given>>

TokensTypeOK ==
  /\ now \in Nat
  /\ issued \subseteq Tokens
  /\ born \in [Tokens -> Nat]
  /\ exp \in [Tokens -> Int]
  /\ parent \in [Tokens -> issued \union {NoToken}]
  /\ line \in [Tokens -> SUBSET issued]
  /\ call \in [Refreshes -> {"idle", "parsed", "inWindow"}]
  /\ given \in [Refreshes -> issued \union {NoToken}]
  /\ \A r \in Refreshes : call[r] # "idle" => given[r] \in issued

Init ==
  /\ now = 0
  /\ issued = {}
  /\ born = [t \in Tokens |-> 0]
  /\ exp = [t \in Tokens |-> 0]
  /\ parent = [t \in Tokens |-> NoToken]
  /\ line = [t \in Tokens |-> {}]
  /\ call = [r \in Refreshes |-> "idle"]
  /\ given = [r \in Refreshes |-> NoToken]

\* jwt.NewNumericDate
Trunc(t) == t - (t % Second)

------------------------------------------------------------------------------
(* Mistakes this code could have been written with; no action uses them. *)

\* instead of InWindow: the time since the issue is tested, not the time left
InWindowSinceIssue(t) == now - born[t] <= RefreshWindow

\* instead of Expiry: a new token has the expiry of the one it replaces
ExpiryKept(p) == IF p = NoToken THEN Trunc(now + Validity) ELSE exp[p]

\* instead of Parse: the claims are read and not verified
ParseUnverified(r, t) ==
  /\ call[r] = "idle"
  /\ call' = [call EXCEPT ![r] = "parsed"]
  /\ given' = [given EXCEPT ![r] = t]
  /\ UNCHANGED <<now, tokenVars>>

------------------------------------------------------------------------------
\* time.Now().Add(tokenValidity), whatever the token p that it is issued for
Expiry(p) == Trunc(now + Validity)

\* issueToken
IssueToken(t, p) ==
  /\ t \in Tokens \ issued
  /\ issued' = issued \union {t}
  /\ born' = [born EXCEPT ![t] = now]
  /\ exp' = [exp EXCEPT ![t] = Expiry(p)]
  /\ parent' = [parent EXCEPT ![t] = p]
  /\ line' = [line EXCEPT ![t] = IF p = NoToken THEN {} ELSE line[p] \union {p}]

\* the credentials were right; a Login that fails issues nothing
Login(t) ==
  /\ IssueToken(t, NoToken)
  /\ UNCHANGED <<now, call, given>>

\* parseAndVerify: the library accepts a token before its expiry
Parse(r, t) ==
  /\ call[r] = "idle"
  /\ t \in issued
  /\ now < exp[t]
  /\ call' = [call EXCEPT ![r] = "parsed"]
  /\ given' = [given EXCEPT ![r] = t]
  /\ UNCHANGED <<now, tokenVars>>

InWindow(t) == exp[t] - now <= RefreshWindow

\* ErrRefreshWindowNotOpen, or go on
TestWindow(r) ==
  /\ call[r] = "parsed"
  /\ call' = [call EXCEPT ![r] = IF InWindow(given[r]) THEN "inWindow" ELSE "idle"]
  /\ UNCHANGED <<now, tokenVars, given>>

Reissue(r, t) ==
  /\ call[r] = "inWindow"
  /\ IssueToken(t, given[r])
  /\ call' = [call EXCEPT ![r] = "idle"]
  /\ UNCHANGED <<now, given>>

\* the server stops: the calls under way are lost, the tokens are not
Restart ==
  /\ call' = [r \in Refreshes |-> "idle"]
  /\ given' = [r \in Refreshes |-> NoToken]
  /\ UNCHANGED <<now, tokenVars>>

Tick ==
  /\ now < MaxTime
  /\ now' = now + 1
  /\ UNCHANGED <<tokenVars, call, given>>

Next ==
  \/ \E t \in Tokens : Login(t)
  \/ \E r \in Refreshes, t \in Tokens : Parse(r, t) \/ Reissue(r, t)
  \/ \E r \in Refreshes : TestWindow(r)
  \/ Restart \/ Tick

Spec == Init /\ [][Next]_vars

------------------------------------------------------------------------------
(* Properties. *)

\* However long a call takes between its tests and its issue, however many calls
\* refresh a token and however long its line has become: when a token is issued,
\* every token of its line but its parent has expired.  So a line of descent
\* never has more than two valid tokens.
TwoGenerations ==
  \A t \in issued : \A a \in line[t] \ {parent[t]} : exp[a] <= born[t]

\* A refreshed token expires later than the token it was issued for, by more than
\* the window in which that one could be refreshed: also cut to the second.
RefreshExtends ==
  \A t \in issued : parent[t] # NoToken => exp[t] > exp[parent[t]] + RefreshWindow
==============================================================================

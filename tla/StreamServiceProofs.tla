------------------------- MODULE StreamServiceProofs -------------------------
(***************************************************************************)
(* What StreamService comes to, for any streams and seats.  Whatever is    *)
(* proved to implement it has these properties through its mapping.        *)
(***************************************************************************)
EXTENDS StreamService, TLAPS

IInv == TypeOK /\ SeatedOnce

LEMMA InvStep == ASSUME IInv, [Next]_vars PROVE IInv'
<1> USE DEF IInv, TypeOK, Phases, SeatedOnce
<1>1. ASSUME NEW s \in Streams, Open(s) \/ GoLive(s) \/ Pause(s) \/ Resume(s)
      PROVE  IInv'
  BY <1>1 DEF Open, GoLive, Pause, Resume
<1>2. ASSUME NEW s \in Streams, End(s) PROVE IInv'
  BY <1>2 DEF End
<1>3. ASSUME NEW s \in Streams, NEW p \in Seats, Join(s, p) PROVE IInv'
  BY <1>3 DEF Join
<1>4. ASSUME NEW s \in Streams, NEW gone \in SUBSET Seats, Leave(s, gone) PROVE IInv'
  BY <1>4 DEF Leave
<1>5. ASSUME NEW p \in Seats, Spoil(p) PROVE IInv'
  BY <1>5 DEF Spoil
<1>6. CASE UNCHANGED vars
  BY <1>6 DEF vars
<1> QED
  BY <1>1, <1>2, <1>3, <1>4, <1>5, <1>6 DEF Next

THEOREM Invariance == Spec => []IInv
<1>1. Init => IInv
  BY DEF Init, IInv, TypeOK, Phases, SeatedOnce
<1> QED
  BY <1>1, InvStep, PTL DEF Spec

\* SeatedOnce: however joins, departures and ends follow on each other, a seat is in one
\* audience at most.
THEOREM SeatsAreSeatedOnce == Spec => []SeatedOnce
BY Invariance, PTL DEF IInv

\* NoWayBack: an end is for good, and so is leaving an audience.
THEOREM NobodyComesBack == Spec => NoWayBack
<1>1. IInv /\ [Next]_vars =>
        [\A s \in Streams :
           /\ phase[s] = "ended" => phase'[s] = "ended"
           /\ audience'[s] \ audience[s] \subseteq fresh \ fresh'
           /\ fresh' \subseteq fresh]_vars
  <2> SUFFICES ASSUME IInv, Next, NEW s \in Streams
               PROVE  /\ phase[s] = "ended" => phase'[s] = "ended"
                      /\ audience'[s] \ audience[s] \subseteq fresh \ fresh'
                      /\ fresh' \subseteq fresh
    OBVIOUS
  <2> USE DEF IInv, TypeOK, Phases
  <2>1. ASSUME NEW t \in Streams, Open(t) \/ GoLive(t) \/ Pause(t) \/ Resume(t) \/ End(t)
        PROVE  /\ phase[s] = "ended" => phase'[s] = "ended"
               /\ audience'[s] \subseteq audience[s] /\ fresh' \subseteq fresh
    BY <2>1 DEF Open, GoLive, Pause, Resume, End
  <2>2. ASSUME NEW t \in Streams, NEW p \in Seats, Join(t, p)
        PROVE  /\ phase'[s] = phase[s] /\ fresh' = fresh \ {p} /\ p \in fresh
               /\ audience'[s] \subseteq audience[s] \union {p}
    BY <2>2 DEF Join
  <2>3. ASSUME NEW t \in Streams, NEW gone \in SUBSET Seats, Leave(t, gone)
        PROVE  phase' = phase /\ audience'[s] \subseteq audience[s] /\ fresh' = fresh
    BY <2>3 DEF Leave
  <2>4. ASSUME NEW p \in Seats, Spoil(p)
        PROVE  UNCHANGED <<phase, audience>> /\ fresh' \subseteq fresh
    BY <2>4 DEF Spoil
  <2> QED
    BY <2>1, <2>2, <2>3, <2>4 DEF Next
<1> QED
  BY Invariance, <1>1, PTL DEF Spec, NoWayBack
==============================================================================

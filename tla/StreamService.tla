---------------------------- MODULE StreamService ----------------------------
(***************************************************************************)
(* What a relay promises about its streams, said without peer connections, *)
(* goroutines or locks.  A stream is opened once, may go live, be paused   *)
(* and resumed, and ends for good.  Its audience is made of seats: a seat  *)
(* is taken once, in one stream that has not ended; it may be given up at  *)
(* any time; when the stream ends every seat is given up and no seat of    *)
(* that stream is ever taken again.                                        *)
(***************************************************************************)
CONSTANTS Streams,   \* stream identifiers
          Seats      \* identities a member of the audience can have

VARIABLES phase,     \* life-cycle phase of each stream
          audience,  \* seats taken in each stream
          fresh      \* seats that were never taken

vars == <<phase, audience, fresh>>

Phases == {"absent", "pending", "live", "paused", "ended"}

Init ==
  /\ phase = [s \in Streams |-> "absent"]
  /\ audience = [s \in Streams |-> {}]
  /\ fresh = Seats

Open(s) ==
  /\ phase[s] = "absent"
  /\ phase' = [phase EXCEPT ![s] = "pending"]
  /\ UNCHANGED <<audience, fresh>>

GoLive(s) ==
  /\ phase[s] \in {"pending", "live", "paused"}
  /\ phase' = [phase EXCEPT ![s] = "live"]
  /\ fresh' \subseteq fresh      \* a broadcaster uses up an identity
  /\ UNCHANGED audience

Pause(s) ==
  /\ phase[s] = "live"
  /\ phase' = [phase EXCEPT ![s] = "paused"]
  /\ UNCHANGED <<audience, fresh>>

Resume(s) ==
  /\ phase[s] = "paused"
  /\ phase' = [phase EXCEPT ![s] = "live"]
  /\ UNCHANGED <<audience, fresh>>

Join(s, p) ==
  /\ phase[s] \in {"pending", "live", "paused"}
  /\ p \in fresh
  /\ audience' = [audience EXCEPT ![s] = @ \union {p}]
  /\ fresh' = fresh \ {p}
  /\ UNCHANGED phase

Leave(s, gone) ==
  /\ audience' = [audience EXCEPT ![s] = @ \ gone]
  /\ UNCHANGED <<phase, fresh>>

\* an attempt to join that failed uses up an identity
Spoil(p) ==
  /\ fresh' = fresh \ {p}
  /\ UNCHANGED <<phase, audience>>

End(s) ==
  /\ phase[s] \in {"pending", "live", "paused"}
  /\ phase' = [phase EXCEPT ![s] = "ended"]
  /\ audience' = [audience EXCEPT ![s] = {}]
  /\ UNCHANGED fresh

Next ==
  \/ \E s \in Streams : Open(s) \/ GoLive(s) \/ Pause(s) \/ Resume(s) \/ End(s)
  \/ \E s \in Streams, p \in Seats : Join(s, p)
  \/ \E s \in Streams, gone \in SUBSET Seats : Leave(s, gone)
  \/ \E p \in Seats : Spoil(p)

Spec == Init /\ [][Next]_vars

------------------------------------------------------------------------------
(* What follows from it. *)

TypeOK ==
  /\ phase \in [Streams -> Phases]
  /\ audience \in [Streams -> SUBSET Seats]
  /\ fresh \subseteq Seats

\* A seat is in the audience of one stream at most; what is in none yet is fresh, and
\* an ended stream has no audience.
SeatedOnce ==
  \A s \in Streams :
    /\ audience[s] \intersect fresh = {}
    /\ \A t \in Streams \ {s} : audience[s] \intersect audience[t] = {}
    /\ phase[s] = "ended" => audience[s] = {}

\* A stream that has ended stays so.  Nobody enters an audience who has been in one,
\* of this stream or of another, and nobody is fresh twice.
NoWayBack ==
  [][\A s \in Streams :
       /\ phase[s] = "ended" => phase'[s] = "ended"
       /\ audience'[s] \ audience[s] \subseteq fresh \ fresh'
       /\ fresh' \subseteq fresh]_vars
==============================================================================

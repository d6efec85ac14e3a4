------------------------------ MODULE FrameFeed ------------------------------
(***************************************************************************)
(* What a fan-out hub promises, said without goroutines, channels or       *)
(* connections.  Frames are published to a feed and go out one at a time,  *)
(* in order.  Whoever is a member when a frame goes out is handed it, or   *)
(* leaves, before the next one goes out.  A member joins once and gets     *)
(* nothing after it has left.                                              *)
(***************************************************************************)
EXTENDS Naturals, Sequences

CONSTANTS Readers,   \* identities a member can have
          Frames     \* what can be published

VARIABLES feed,      \* everything published so far
          turn,      \* how much of it has gone out
          members,   \* who has joined and not left
          waiting,   \* members the frame that went out last has not reached yet
          fresh,     \* identities that never joined
          got        \* what each member was handed

vars == <<feed, turn, members, waiting, fresh, got>>

Init ==
  /\ feed = <<>> /\ turn = 0
  /\ members = {} /\ waiting = {} /\ fresh = Readers
  /\ got = [c \in Readers |-> <<>>]

Publish(f) ==
  /\ feed' = Append(feed, f)
  /\ UNCHANGED <<turn, members, waiting, fresh, got>>

\* from the next frame on
Join(c) ==
  /\ c \in fresh
  /\ members' = members \union {c}
  /\ fresh' = fresh \ {c}
  /\ UNCHANGED <<feed, turn, waiting, got>>

Leave(c) ==
  /\ c \in members
  /\ members' = members \ {c}
  /\ waiting' = waiting \ {c}
  /\ UNCHANGED <<feed, turn, fresh, got>>

\* an attempt to join that failed uses up an identity
Spoil(c) ==
  /\ fresh' = fresh \ {c}
  /\ UNCHANGED <<feed, turn, members, waiting, got>>

NextFrame ==
  /\ waiting = {}
  /\ turn < Len(feed)
  /\ turn' = turn + 1
  /\ waiting' = members
  /\ UNCHANGED <<feed, members, fresh, got>>

Deliver(c) ==
  /\ c \in waiting
  /\ got' = [got EXCEPT ![c] = Append(@, feed[turn])]
  /\ waiting' = waiting \ {c}
  /\ UNCHANGED <<feed, turn, members, fresh>>

Next ==
  \/ NextFrame
  \/ \E f \in Frames : Publish(f)
  \/ \E c \in Readers : Join(c) \/ Leave(c) \/ Spoil(c) \/ Deliver(c)

Spec == Init /\ [][Next]_vars
==============================================================================

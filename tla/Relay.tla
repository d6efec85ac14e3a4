-------------------------------- MODULE Relay --------------------------------
(***************************************************************************)
(* The SFU relay: internal/relay/relay.go and models.go.                   *)
(*                                                                         *)
(* A Hub maps stream ids to Streams.  An entry is added once and never     *)
(* removed or replaced, so the pointer getStream returns stays valid and   *)
(* "look up under h.mu, then lock s.mu" is one atomic step.  Every method  *)
(* holds s.mu from there to its return: one action per method.  A call     *)
(* that returns an error before changing anything is no step at all.       *)
(*                                                                         *)
(* forwardLoop, one goroutine per connected broadcaster, holds s.mu only   *)
(* for single statements: it is cut at each of those, at the blocking      *)
(* Read, and at the fan-out, and everything else may run in between.       *)
(*                                                                         *)
(* RTP packets are "audio" or "silence"; SDP, codecs and transceivers are  *)
(* left out.  A write to a listener may fail at any time: which writes do  *)
(* is decided by the network and the WebRTC library.                       *)
(***************************************************************************)
EXTENDS Naturals, FiniteSets

CONSTANTS Streams,   \* stream ids
          PCs,       \* peer connections the process can ever allocate
          NoPC,      \* a nil *webrtc.PeerConnection
          NoStream   \* owner of a peer connection that serves no stream

ASSUME NilAssumption == NoPC \notin PCs /\ NoStream \notin Streams

VARIABLES
  status,         \* Stream.Status, "absent" while the hub has no such id
  paused,         \* Stream.paused
  broadcaster,    \* Stream.broadcaster
  broadcastTrack, \* Stream.broadcastTrack, named by the connection it is from
  listenerPeers,  \* Stream.listenerPeers: every entry is a fresh pointer, so a set
  forwardDone,    \* is Stream.forwardDone closed?
  pc,             \* state of each peer connection
  own,            \* the stream a peer connection was made for
  trackCh,        \* does the broadcaster's trackCh hold a track?
  loop,           \* program counter of the forwardLoop of a broadcaster
  peers,          \* forwardLoop: its copy of listenerPeers
  dead,           \* writeToListeners: peers whose Write failed
  payload,        \* forwardLoop: what it is about to write
  dropped         \* history: connections a stream let go of without closing

streamVars == <<status, paused, broadcaster, broadcastTrack, listenerPeers,
                forwardDone>>
loopVars   == <<loop, peers, dead, payload>>
vars == <<status, paused, broadcaster, broadcastTrack, listenerPeers,
          forwardDone, pc, own, trackCh, loop, peers, dead, payload, dropped>>

Statuses   == {"pending", "live", "paused", "ended"}
LoopStates == {"none", "await", "check", "read", "snap", "write", "prune", "exited"}

TypeOK ==
  /\ status \in [Streams -> Statuses \union {"absent"}]
  /\ paused \in [Streams -> BOOLEAN]
  /\ broadcaster \in [Streams -> PCs \union {NoPC}]
  /\ broadcastTrack \in [Streams -> PCs \union {NoPC}]
  /\ listenerPeers \in [Streams -> SUBSET PCs]
  /\ forwardDone \in [Streams -> BOOLEAN]
  /\ pc \in [PCs -> {"free", "open", "closed"}]
  /\ own \in [PCs -> Streams \union {NoStream}]
  /\ trackCh \in [PCs -> BOOLEAN]
  /\ loop \in [PCs -> LoopStates]
  /\ peers \in [PCs -> SUBSET PCs]
  /\ dead \in [PCs -> SUBSET PCs]
  /\ payload \in [PCs -> {"none", "audio", "silence"}]
  /\ dropped \subseteq PCs

Init ==
  /\ status = [s \in Streams |-> "absent"]
  /\ paused = [s \in Streams |-> FALSE]
  /\ broadcaster = [s \in Streams |-> NoPC]
  /\ broadcastTrack = [s \in Streams |-> NoPC]
  /\ listenerPeers = [s \in Streams |-> {}]
  /\ forwardDone = [s \in Streams |-> FALSE]
  /\ pc = [p \in PCs |-> "free"]
  /\ own = [p \in PCs |-> NoStream]
  /\ trackCh = [p \in PCs |-> FALSE]
  /\ loop = [p \in PCs |-> "none"]
  /\ peers = [p \in PCs |-> {}]
  /\ dead = [p \in PCs |-> {}]
  /\ payload = [p \in PCs |-> "none"]
  /\ dropped = {}

------------------------------------------------------------------------------
(* Mistakes this code could have been written with, one line or one guard away *)
(* from what it does.  No action below uses them: a run that puts one of them  *)
(* in the place of the definition it resembles must break a property.          *)

\* instead of Connectable: no check that the stream has not ended
Created(s) == status[s] # "absent"

\* instead of Closing: the broadcaster's connection is forgotten, not closed
ClosingListeners(s) == listenerPeers[s]

\* instead of Copied: a slice made one too long, whose last entry is nil
CopiedPastEnd(s) == listenerPeers[s] \union {NoPC}

\* instead of Picked: no test of the paused flag
PickedAnyway(s) == "audio"

\* instead of Remaining: computed from the copy, or with the test inverted
RemainingOfCopy(p)   == peers[p] \ dead[p]
RemainingInverted(p) == listenerPeers[own[p]] \intersect dead[p]

\* instead of CreateStream: the entry of an existing id is made pending again
CreateStreamAgain(s) ==
  /\ status' = [status EXCEPT ![s] = "pending"]
  /\ UNCHANGED <<paused, broadcaster, broadcastTrack, listenerPeers,
                 forwardDone, pc, own, trackCh, loopVars, dropped>>

\* instead of SeeDone: no select while waiting for the track
SeeDoneAtTop(p) ==
  /\ loop[p] = "check"
  /\ forwardDone[own[p]]
  /\ loop' = [loop EXCEPT ![p] = "exited"]
  /\ UNCHANGED <<streamVars, pc, own, trackCh, peers, dead, payload, dropped>>

\* instead of CheckNotDone: an iteration does not look at the signal
CheckSkipped(p) ==
  /\ loop[p] = "check"
  /\ loop' = [loop EXCEPT ![p] = "read"]
  /\ UNCHANGED <<streamVars, pc, own, trackCh, peers, dead, payload, dropped>>

------------------------------------------------------------------------------
(* Hub methods. *)

\* a second CreateStream of an id returns an error
CreateStream(s) ==
  /\ status[s] = "absent"
  /\ status' = [status EXCEPT ![s] = "pending"]
  /\ UNCHANGED <<paused, broadcaster, broadcastTrack, listenerPeers,
                 forwardDone, pc, own, trackCh, loopVars, dropped>>

\* getStream finds the id and the stream has not ended
Connectable(s) == status[s] \in {"pending", "live", "paused"}

\* The library refuses the connection, the offer or the answer: the new peer
\* connection is closed and the stream is as it was.
ConnectFails(s, p) ==
  /\ Connectable(s)
  /\ pc[p] = "free"
  /\ pc' = [pc EXCEPT ![p] = "closed"]
  /\ UNCHANGED <<streamVars, own, trackCh, loopVars, dropped>>

\* Whether the stream was pending, live or paused it is live now, and a previous
\* broadcaster is forgotten, not closed; its loop goes on.  With a nil
\* LocalDescription the method closes the connection and returns an error, but
\* only after the stream has been changed and the loop started.
ConnectBroadcaster(s, p) ==
  /\ Connectable(s)
  /\ pc[p] = "free"
  /\ \E outcome \in {"open", "closed"} : pc' = [pc EXCEPT ![p] = outcome]
  /\ own' = [own EXCEPT ![p] = s]
  /\ broadcaster' = [broadcaster EXCEPT ![s] = p]
  /\ status' = [status EXCEPT ![s] = "live"]
  /\ loop' = [loop EXCEPT ![p] = "await"]
  /\ dropped' = dropped \union ({broadcaster[s]} \ {NoPC})
  /\ UNCHANGED <<paused, broadcastTrack, listenerPeers, forwardDone, trackCh,
                 peers, dead, payload>>

\* Here too a nil LocalDescription leaves a closed connection in the list.
ConnectListener(s, p) ==
  /\ Connectable(s)
  /\ pc[p] = "free"
  /\ \E outcome \in {"open", "closed"} : pc' = [pc EXCEPT ![p] = outcome]
  /\ own' = [own EXCEPT ![p] = s]
  /\ listenerPeers' = [listenerPeers EXCEPT ![s] = @ \union {p}]
  /\ UNCHANGED <<status, paused, broadcaster, broadcastTrack, forwardDone,
                 trackCh, loopVars, dropped>>

PauseStream(s) ==
  /\ status[s] = "live"
  /\ paused' = [paused EXCEPT ![s] = TRUE]
  /\ status' = [status EXCEPT ![s] = "paused"]
  /\ UNCHANGED <<broadcaster, broadcastTrack, listenerPeers, forwardDone,
                 pc, own, trackCh, loopVars, dropped>>

ResumeStream(s) ==
  /\ status[s] = "paused"
  /\ paused' = [paused EXCEPT ![s] = FALSE]
  /\ status' = [status EXCEPT ![s] = "live"]
  /\ UNCHANGED <<broadcaster, broadcastTrack, listenerPeers, forwardDone,
                 pc, own, trackCh, loopVars, dropped>>

\* the connections StopStream closes: those it still refers to
Closing(s) == listenerPeers[s] \union ({broadcaster[s]} \ {NoPC})

\* on an ended stream StopStream returns nil and changes nothing
StopStream(s) ==
  /\ Connectable(s)
  /\ forwardDone' = [forwardDone EXCEPT ![s] = TRUE]
  /\ pc' = [p \in PCs |-> IF p \in Closing(s) THEN "closed" ELSE pc[p]]
  /\ listenerPeers' = [listenerPeers EXCEPT ![s] = {}]
  /\ broadcaster' = [broadcaster EXCEPT ![s] = NoPC]
  /\ status' = [status EXCEPT ![s] = "ended"]
  /\ UNCHANGED <<paused, broadcastTrack, own, trackCh, loopVars, dropped>>

------------------------------------------------------------------------------
(* The broadcaster's side of the connection, and forwardLoop. *)

\* OnTrack callback: a send that is dropped when trackCh is full
OnTrack(p) ==
  /\ pc[p] = "open"
  /\ loop[p] # "none"
  /\ ~trackCh[p]
  /\ trackCh' = [trackCh EXCEPT ![p] = TRUE]
  /\ UNCHANGED <<streamVars, pc, own, loopVars, dropped>>

AwaitTrack(p) ==
  /\ loop[p] = "await"
  /\ trackCh[p]
  /\ trackCh' = [trackCh EXCEPT ![p] = FALSE]
  /\ broadcastTrack' = [broadcastTrack EXCEPT ![own[p]] = p]
  /\ loop' = [loop EXCEPT ![p] = "check"]
  /\ UNCHANGED <<status, paused, broadcaster, listenerPeers, forwardDone,
                 pc, own, peers, dead, payload, dropped>>

\* select with forwardDone closed: while waiting for the track, and at the top
\* of each iteration
SeeDone(p) ==
  /\ loop[p] \in {"await", "check"}
  /\ forwardDone[own[p]]
  /\ loop' = [loop EXCEPT ![p] = "exited"]
  /\ UNCHANGED <<streamVars, pc, own, trackCh, peers, dead, payload, dropped>>

CheckNotDone(p) ==
  /\ loop[p] = "check"
  /\ ~forwardDone[own[p]]
  /\ loop' = [loop EXCEPT ![p] = "read"]
  /\ UNCHANGED <<streamVars, pc, own, trackCh, peers, dead, payload, dropped>>

\* also on a closed connection, while packets are still buffered
ReadPacket(p) ==
  /\ loop[p] = "read"
  /\ loop' = [loop EXCEPT ![p] = "snap"]
  /\ UNCHANGED <<streamVars, pc, own, trackCh, peers, dead, payload, dropped>>

ReadError(p) ==
  /\ loop[p] = "read"
  /\ loop' = [loop EXCEPT ![p] = "exited"]
  /\ UNCHANGED <<streamVars, pc, own, trackCh, peers, dead, payload, dropped>>

Copied(s) == listenerPeers[s]
Picked(s) == IF paused[s] THEN "silence" ELSE "audio"

\* copy listenerPeers and paused under the read lock
Snapshot(p) ==
  /\ loop[p] = "snap"
  /\ peers' = [peers EXCEPT ![p] = Copied(own[p])]
  /\ payload' = [payload EXCEPT ![p] = Picked(own[p])]
  /\ loop' = [loop EXCEPT ![p] = "write"]
  /\ UNCHANGED <<streamVars, pc, own, trackCh, dead, dropped>>

\* write to every peer of the copy, no lock held; any of the writes may fail
WriteToListeners(p) ==
  /\ loop[p] = "write"
  /\ \E failed \in SUBSET peers[p] :
       /\ dead' = [dead EXCEPT ![p] = failed]
       /\ IF failed = {}
          THEN /\ peers' = [peers EXCEPT ![p] = {}]
               /\ loop' = [loop EXCEPT ![p] = "check"]
          ELSE /\ loop' = [loop EXCEPT ![p] = "prune"]
               /\ UNCHANGED peers
  /\ payload' = [payload EXCEPT ![p] = "none"]
  /\ UNCHANGED <<streamVars, pc, own, trackCh, dropped>>

\* what is left of the list as it is now, not as it was copied
Remaining(p) == listenerPeers[own[p]] \ dead[p]

\* Remove the dead from the list as it is now, which other connections, a stop
\* or another loop may have changed since the copy.  They are not closed.
RemoveDead(p) ==
  /\ loop[p] = "prune"
  /\ listenerPeers' = [listenerPeers EXCEPT ![own[p]] = Remaining(p)]
  /\ dropped' = dropped \union (listenerPeers[own[p]] \intersect dead[p])
  /\ dead' = [dead EXCEPT ![p] = {}]
  /\ peers' = [peers EXCEPT ![p] = {}]
  /\ loop' = [loop EXCEPT ![p] = "check"]
  /\ UNCHANGED <<status, paused, broadcaster, broadcastTrack, forwardDone,
                 pc, own, trackCh, payload>>

------------------------------------------------------------------------------
HubMethod ==
  \/ \E s \in Streams : CreateStream(s) \/ PauseStream(s) \/ ResumeStream(s)
                        \/ StopStream(s)
  \/ \E s \in Streams, p \in PCs : ConnectFails(s, p) \/ ConnectBroadcaster(s, p)
                                   \/ ConnectListener(s, p)

ForwardStep(p) ==
  \/ AwaitTrack(p) \/ SeeDone(p) \/ CheckNotDone(p) \/ ReadPacket(p)
  \/ ReadError(p) \/ Snapshot(p) \/ WriteToListeners(p) \/ RemoveDead(p)

Next == HubMethod \/ \E p \in PCs : OnTrack(p) \/ ForwardStep(p)

Spec == Init /\ [][Next]_vars

\* What a scheduled goroutine does without waiting for the network: every step
\* but a Read, and a Read on a connection that has been closed.
Runnable(p) ==
  \/ AwaitTrack(p) \/ SeeDone(p) \/ CheckNotDone(p)
  \/ pc[p] = "closed" /\ (ReadPacket(p) \/ ReadError(p))
  \/ Snapshot(p) \/ WriteToListeners(p) \/ RemoveDead(p)

FairSpec == Spec /\ \A p \in PCs : WF_vars(Runnable(p))

------------------------------------------------------------------------------
(* Properties. *)

\* An ended stream keeps no connection: its signal channel is closed, it has no
\* broadcaster and no listener, however connects and forwarding loops that began
\* before the stop are scheduled after it; and only ending closes the channel.
\* (Its broadcastTrack may stay set; no code reads it.)
EndedIsQuiet ==
  \A s \in Streams :
    /\ forwardDone[s] <=> status[s] = "ended"
    /\ status[s] = "ended" => broadcaster[s] = NoPC /\ listenerPeers[s] = {}

\* Every open peer connection is referred to by its own stream, so that
\* StopStream will close it, or was dropped by a reconnecting broadcaster or by
\* a failed write: these are the only ways the relay loses a connection.
OpenIsAccountedFor ==
  \A p \in PCs : pc[p] = "open" =>
    \/ p \in dropped
    \/ own[p] \in Streams
       /\ (p = broadcaster[own[p]] \/ p \in listenerPeers[own[p]])

\* A listener enters a stream's list only as a connection made in that step: a
\* loop that removes dead peers never brings back one that was removed, or that
\* a stop cleared, while the loop was writing.
NoListenerReturns ==
  [][\A s \in Streams : \A p \in listenerPeers'[s] \ listenerPeers[s] :
       pc[p] = "free"]_vars

\* A listener leaves the list only because its stream ended or because a loop of
\* that stream failed to write to it: one that connects while a loop is writing
\* is not lost when the loop removes the dead.
NoListenerLost ==
  [][\A s \in Streams : \A p \in listenerPeers[s] \ listenerPeers'[s] :
       \/ status'[s] = "ended"
       \/ \E q \in PCs : own[q] = s /\ loop[q] = "prune" /\ p \in dead[q]]_vars

\* While a stream stays paused none of its loops picks up audio to send: what
\* still goes out was picked up before the pause.
NoAudioDuringPause ==
  [][\A p \in PCs :
       /\ own[p] \in Streams
       /\ status[own[p]] = "paused" /\ status'[own[p]] = "paused"
       /\ payload'[p] = "audio"
       => payload[p] = "audio"]_vars

\* the most steps a loop can take before it returns, once its stream has ended
StepsLeft(at) ==
  CASE at = "read"  -> 5 [] at = "snap"  -> 4 [] at = "write" -> 3
    [] at = "prune" -> 2 [] at = "await" -> 2 [] at = "check" -> 1 [] OTHER -> 0

\* Wherever a loop is when its stream ends, every step it takes from then on brings
\* it nearer to its return, and it picks up nobody to write to: it sends one more
\* packet at most, to listeners it had picked up before the end.
EndedLoopsWindDown ==
  [][\A p \in PCs : own[p] \in Streams /\ status[own[p]] = "ended" =>
       /\ loop'[p] # loop[p] => StepsLeft(loop'[p]) < StepsLeft(loop[p])
       /\ peers'[p] \subseteq peers[p]]_vars

\* The relay implements the service: pruning is a listener leaving, a stop ends
\* the stream and empties its audience in one step, nobody joins twice.
Service == INSTANCE StreamService WITH
             Seats    <- PCs,
             phase    <- status,
             audience <- listenerPeers,
             fresh    <- {p \in PCs : pc[p] = "free"}

ImplementsService == Service!Spec

\* Once a stream has ended its forwarding goroutines return, except one that
\* reads from a broadcaster connection the stream had replaced and did not close.
LoopsDrain ==
  \A p \in PCs :
    (own[p] \in Streams /\ loop[p] # "none" /\ status[own[p]] = "ended")
      ~> (loop[p] = "exited" \/ (loop[p] = "read" /\ p \in dropped))

------------------------------------------------------------------------------
(* What the comments say and the code does not do. *)

\* "StopStream closes all PeerConnections and marks the stream as ended"
StopClosesAll ==
  \A p \in PCs : own[p] \in Streams /\ status[own[p]] = "ended" => pc[p] # "open"

\* Forwarding is suspended by PauseStream (live -> paused) and re-enabled by
\* ResumeStream (paused -> live): a live stream is not suspended.
LiveIsNotSuspended ==
  \A s \in Streams : status[s] = "live" => ~paused[s]
==============================================================================

------------------------------ MODULE WsFallback ------------------------------
(***************************************************************************)
(* The WebSocket audio fallback: internal/relay/wsfallback/hub.go.         *)
(*                                                                         *)
(* One goroutine, run, owns the set of listeners.  It is fed through three *)
(* buffered channels: frames from the broadcaster, and connections to add  *)
(* and to remove from the handlers (ServeListener) of the listeners.  A    *)
(* select takes any ready case, so there is no order between channels.     *)
(* No other goroutine touches the listeners: h.mu protects nothing and is  *)
(* left out.                                                               *)
(*                                                                         *)
(* A frame is its number.  A Write to a connection may fail at any time,   *)
(* and one to a peer that has gone may still succeed; a Read waits until   *)
(* the connection has gone or was closed.                                  *)
(***************************************************************************)
EXTENDS Naturals, FiniteSets, Sequences, SequencesExt

CONSTANTS Conns,         \* listener connections
          BroadcastCap,  \* capacity of broadcast (256)
          RegisterCap,   \* capacity of register and of unregister (64)
          MaxFrames      \* bound: frames the broadcaster ever sends

ASSUME CapAssumption == {BroadcastCap, RegisterCap, MaxFrames} \subseteq Nat \ {0}

VARIABLES
  conn,       \* state of each WebSocket
  serve,      \* program counter of each ServeListener call
  register,   \* the three channels
  unregister,
  broadcast,
  done,       \* is the done channel closed?
  listeners,  \* Hub.listeners
  run,        \* program counter of run
  frame,      \* run: the frame being fanned out
  todo,       \* run: listeners of its copy that are still to be written to
  dead,       \* run: listeners whose Write failed
  sent,       \* number of frames given to Broadcast
  accepted,   \* history: the frames that entered the channel
  received    \* history: the frames written to each connection

serveVars == <<serve, register, unregister>>
fanVars   == <<run, frame, todo, dead>>
vars == <<conn, serve, register, unregister, broadcast, done, listeners, run,
          frame, todo, dead, sent, accepted, received>>

Frames == 1 .. MaxFrames

TypeOK ==
  /\ conn \in [Conns -> {"new", "open", "gone", "closed"}]
  /\ serve \in [Conns -> {"idle", "registering", "reading", "unregistering", "returned"}]
  /\ register \in Seq(Conns) /\ Len(register) <= RegisterCap
  /\ unregister \in Seq(Conns) /\ Len(unregister) <= RegisterCap
  /\ broadcast \in Seq(Frames) /\ Len(broadcast) <= BroadcastCap
  /\ done \in BOOLEAN
  /\ listeners \subseteq Conns
  /\ run \in {"select", "write", "returned"}
  /\ frame \in IF run = "write" THEN Frames ELSE {0}
  /\ todo \subseteq listeners /\ dead \subseteq listeners
  /\ run # "write" => todo = {} /\ dead = {}
  /\ sent \in 0 .. MaxFrames
  /\ accepted \in Seq(Frames)
  /\ received \in [Conns -> Seq(Frames)]

Init ==
  /\ conn = [c \in Conns |-> "new"]
  /\ serve = [c \in Conns |-> "idle"]
  /\ register = <<>> /\ unregister = <<>> /\ broadcast = <<>>
  /\ done = FALSE
  /\ listeners = {}
  /\ run = "select"
  /\ frame = 0 /\ todo = {} /\ dead = {}
  /\ sent = 0
  /\ accepted = <<>>
  /\ received = [c \in Conns |-> <<>>]

------------------------------------------------------------------------------
(* Mistakes this code could have been written with; no action uses them. *)

\* instead of Queued: a full channel loses its oldest frame, not the new one
QueuedDropOldest(f) ==
  IF Len(broadcast) < BroadcastCap THEN Append(broadcast, f)
                                   ELSE Append(Tail(broadcast), f)

\* instead of TakeUnregister: only a connection in the map is closed
TakeUnregisterKnown ==
  /\ run = "select"
  /\ unregister # <<>>
  /\ unregister' = Tail(unregister)
  /\ listeners' = listeners \ {Head(unregister)}
  /\ conn' = IF Head(unregister) \in listeners
             THEN [conn EXCEPT ![Head(unregister)] = "closed"] ELSE conn
  /\ UNCHANGED <<serve, register, broadcast, done, fanVars, sent, accepted, received>>

\* instead of TakeFrame: frames are fanned out beside the select, which takes the
\* next one before the last one's writes are done
TakeFrameAtOnce ==
  /\ run # "returned"
  /\ broadcast # <<>>
  /\ frame' = Head(broadcast)
  /\ broadcast' = Tail(broadcast)
  /\ todo' = listeners
  /\ run' = "write"
  /\ UNCHANGED <<conn, serveVars, done, listeners, dead, sent, accepted, received>>

\* instead of EndFanOut: the list of the dead outlives the frame; the dead are
\* not closed; run returns where it should continue
EndFanOutKeepsDead ==
  /\ run = "write" /\ todo = {}
  /\ listeners' = listeners \ dead
  /\ conn' = [c \in Conns |-> IF c \in dead THEN "closed" ELSE conn[c]]
  /\ run' = "select"
  /\ UNCHANGED <<serveVars, broadcast, done, frame, todo, dead, sent, accepted, received>>

EndFanOutNoClose ==
  /\ run = "write" /\ todo = {}
  /\ listeners' = listeners \ dead
  /\ run' = "select" /\ frame' = 0 /\ dead' = {}
  /\ UNCHANGED <<conn, serveVars, broadcast, done, todo, sent, accepted, received>>

EndFanOutReturns ==
  /\ run = "write" /\ todo = {}
  /\ run' = IF dead = {} THEN "select" ELSE "returned"
  /\ frame' = 0 /\ dead' = {}
  /\ UNCHANGED <<conn, serveVars, broadcast, done, listeners, todo, sent, accepted,
                 received>>

------------------------------------------------------------------------------
(* ServeListener, one call for each connection. *)

Accept(c) ==
  /\ serve[c] = "idle"
  /\ \/ /\ conn' = [conn EXCEPT ![c] = "open"]
        /\ serve' = [serve EXCEPT ![c] = "registering"]
     \/ /\ conn' = [conn EXCEPT ![c] = "closed"]      \* the upgrade failed
        /\ serve' = [serve EXCEPT ![c] = "returned"]
  /\ UNCHANGED <<register, unregister, broadcast, done, listeners, fanVars, sent,
                 accepted, received>>

\* h.register <- wc waits while the channel is full
Register(c) ==
  /\ serve[c] = "registering"
  /\ Len(register) < RegisterCap
  /\ register' = Append(register, c)
  /\ serve' = [serve EXCEPT ![c] = "reading"]
  /\ UNCHANGED <<conn, unregister, broadcast, done, listeners, fanVars, sent,
                 accepted, received>>

ReadError(c) ==
  /\ serve[c] = "reading"
  /\ conn[c] # "open"
  /\ serve' = [serve EXCEPT ![c] = "unregistering"]
  /\ UNCHANGED <<conn, register, unregister, broadcast, done, listeners, fanVars,
                 sent, accepted, received>>

\* the deferred h.unregister <- wc
Unregister(c) ==
  /\ serve[c] = "unregistering"
  /\ Len(unregister) < RegisterCap
  /\ unregister' = Append(unregister, c)
  /\ serve' = [serve EXCEPT ![c] = "returned"]
  /\ UNCHANGED <<conn, register, broadcast, done, listeners, fanVars, sent,
                 accepted, received>>

\* the peer disconnects
Disconnect(c) ==
  /\ conn[c] = "open"
  /\ conn' = [conn EXCEPT ![c] = "gone"]
  /\ UNCHANGED <<serveVars, broadcast, done, listeners, fanVars, sent, accepted,
                 received>>

------------------------------------------------------------------------------
(* Broadcast and Stop.  A second Stop panics: its callers call it once. *)

Queued(f) == IF Len(broadcast) < BroadcastCap THEN Append(broadcast, f) ELSE broadcast

Broadcast ==
  /\ sent < MaxFrames
  /\ sent' = sent + 1
  /\ broadcast' = Queued(sent + 1)
  /\ accepted' = IF Len(broadcast) < BroadcastCap THEN Append(accepted, sent + 1)
                                                  ELSE accepted
  /\ UNCHANGED <<conn, serveVars, done, listeners, fanVars, received>>

Stop ==
  /\ ~done
  /\ done' = TRUE
  /\ UNCHANGED <<conn, serveVars, broadcast, listeners, fanVars, sent, accepted,
                 received>>

------------------------------------------------------------------------------
(* run: the cases of its select, and the fan-out of a frame. *)

SeeDone ==
  /\ run = "select"
  /\ done
  /\ run' = "returned"
  /\ UNCHANGED <<conn, serveVars, broadcast, done, listeners, frame, todo, dead,
                 sent, accepted, received>>

TakeRegister ==
  /\ run = "select"
  /\ register # <<>>
  /\ register' = Tail(register)
  /\ listeners' = listeners \union {Head(register)}
  /\ UNCHANGED <<conn, serve, unregister, broadcast, done, fanVars, sent, accepted,
                 received>>

TakeUnregister ==
  /\ run = "select"
  /\ unregister # <<>>
  /\ unregister' = Tail(unregister)
  /\ listeners' = listeners \ {Head(unregister)}
  /\ conn' = [conn EXCEPT ![Head(unregister)] = "closed"]
  /\ UNCHANGED <<serve, register, broadcast, done, fanVars, sent, accepted, received>>

TakeFrame ==
  /\ run = "select"
  /\ broadcast # <<>>
  /\ frame' = Head(broadcast)
  /\ broadcast' = Tail(broadcast)
  /\ todo' = listeners
  /\ run' = "write"
  /\ UNCHANGED <<conn, serveVars, done, listeners, dead, sent, accepted, received>>

WriteOk(c) ==
  /\ c \in todo
  /\ conn[c] \in {"open", "gone"}
  /\ todo' = todo \ {c}
  /\ received' = [received EXCEPT ![c] = Append(@, frame)]
  /\ UNCHANGED <<conn, serveVars, broadcast, done, listeners, run, frame, dead, sent,
                 accepted>>

WriteFails(c) ==
  /\ c \in todo
  /\ todo' = todo \ {c}
  /\ dead' = dead \union {c}
  /\ UNCHANGED <<conn, serveVars, broadcast, done, listeners, run, frame, sent,
                 accepted, received>>

\* the dead are deleted and closed, and the select is entered again
EndFanOut ==
  /\ run = "write" /\ todo = {}
  /\ listeners' = listeners \ dead
  /\ conn' = [c \in Conns |-> IF c \in dead THEN "closed" ELSE conn[c]]
  /\ run' = "select" /\ frame' = 0 /\ dead' = {}
  /\ UNCHANGED <<serveVars, broadcast, done, todo, sent, accepted, received>>

------------------------------------------------------------------------------
ServeStep(c) == Register(c) \/ ReadError(c) \/ Unregister(c)

\* what run does by itself; a Write waits for the peer
HubStep == SeeDone \/ TakeRegister \/ TakeUnregister \/ TakeFrame \/ EndFanOut

Next ==
  \/ Broadcast \/ Stop \/ HubStep
  \/ \E c \in Conns :
       Accept(c) \/ Disconnect(c) \/ ServeStep(c) \/ WriteOk(c) \/ WriteFails(c)

Spec == Init /\ [][Next]_vars

\* Goroutines are scheduled, and select picks among ready cases at random, so none
\* is passed over for ever.  Nothing is assumed of a Write: the code gives it no
\* deadline, and it may wait for its peer for ever.
FairSpec ==
  /\ Spec
  /\ WF_vars(HubStep) /\ SF_vars(TakeRegister) /\ SF_vars(TakeUnregister)
  /\ \A c \in Conns : WF_vars(ServeStep(c))

------------------------------------------------------------------------------
(* Properties. *)

\* A listener is written a contiguous run of the frames the hub accepted: in
\* order, none twice, and none left out between two it gets, whatever joins,
\* leaves and fails in the middle of a fan-out.
DeliveredInOrder ==
  \A c \in Conns : \E from \in 1 .. Len(accepted) + 1 - Len(received[c]) :
    received[c] = SubSeq(accepted, from, from + Len(received[c]) - 1)

\* A listener whose connection works and whose registration was taken is in the
\* map until a Write to it fails: then its connection does not work any more,
\* because it was closed with the removal.
OpenIsServed ==
  \A c \in Conns :
    serve[c] = "reading" /\ conn[c] = "open" /\ c \notin ToSet(register)
      => c \in listeners

\* Once a handler has returned and its unregistration was taken its connection is
\* closed, be it listed or not.  The hub may take the unregistration before the
\* registration and so list the connection after that: the next frame's Write then
\* fails and removes it.
ReturnedIsClosed ==
  \A c \in Conns :
    serve[c] = "returned" /\ c \notin ToSet(unregister) => conn[c] = "closed"

\* the number of frames that run has taken from the channel
Taken == Len(accepted) - Len(broadcast)

\* The hub implements the feed: a frame goes out when run takes it and reaches a
\* listener with its Write, a failed Write is a member leaving, and so is a taken
\* unregistration; nobody is listed twice, and no frame overtakes another.
Feed == INSTANCE FrameFeed WITH
          Readers <- Conns,
          feed    <- accepted,
          turn    <- Taken,
          members <- listeners \ dead,
          waiting <- todo,
          fresh   <- {c \in Conns : serve[c] \in {"idle", "registering"}
                                    \/ c \in ToSet(register)},
          got     <- received

ImplementsFeed == Feed!Spec

\* After a Stop nobody receives: a handler that sends to a full channel stays.
Stranded(c) ==
  /\ done /\ run = "returned"
  /\ \/ serve[c] = "registering" /\ Len(register) = RegisterCap
     \/ serve[c] = "unregistering" /\ Len(unregister) = RegisterCap

\* "ServeListener ... blocks until the connection closes": then it returns, be the
\* hub running or stopped, save for the two ways in which the hub can fail it: it
\* was stopped and the channel filled up, or a Write to some peer never returns.
HandlersReturn ==
  \/ \A c \in Conns :
       serve[c] \in {"registering", "reading"} /\ conn[c] # "open"
         ~> serve[c] = "returned" \/ Stranded(c)
  \/ <>[](run = "write")
==============================================================================

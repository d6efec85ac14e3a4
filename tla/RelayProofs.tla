----------------------------- MODULE RelayProofs -----------------------------
(***************************************************************************)
(* Proofs about Relay, for any sets of streams and peer connections.       *)
(*                                                                         *)
(* The safety properties of Relay are not inductive one by one.  IInv is   *)
(* their inductive strengthening: what it adds is that a forwarding loop   *)
(* belongs to a stream, that a stream refers only to connections that were *)
(* made, and made for it, that no connection is made twice, and that a     *)
(* paused stream has its flag set.                                         *)
(***************************************************************************)
EXTENDS Relay, TLAPS

\* a forwardLoop runs on behalf of a stream
LoopOwned == \A p \in PCs : loop[p] # "none" => own[p] \in Streams

\* a stream refers only to peer connections that were made
HeldIsUsed ==
  \A s \in Streams :
    /\ \A p \in listenerPeers[s] : pc[p] # "free"
    /\ broadcaster[s] # NoPC => pc[broadcaster[s]] # "free"

\* a stream refers only to connections made for it
HeldIsOwned ==
  \A s \in Streams :
    /\ \A p \in listenerPeers[s] : own[p] = s
    /\ broadcaster[s] # NoPC => own[broadcaster[s]] = s

\* a connection made for a stream is never made again
OwnedIsMade == \A p \in PCs : own[p] \in Streams => pc[p] # "free"

\* the flag the loops read is set while the stream is paused (a live stream may
\* have it set too)
PausedFlag == \A s \in Streams : status[s] = "paused" => paused[s]

IInv ==
  /\ TypeOK
  /\ LoopOwned
  /\ HeldIsUsed
  /\ HeldIsOwned
  /\ OwnedIsMade
  /\ PausedFlag
  /\ EndedIsQuiet
  /\ OpenIsAccountedFor

------------------------------------------------------------------------------
LEMMA InitIInv == Init => IInv
BY NilAssumption DEF Init, IInv, TypeOK, LoopOwned, HeldIsUsed, HeldIsOwned,
   OwnedIsMade, PausedFlag, EndedIsQuiet, OpenIsAccountedFor, Statuses, LoopStates

\* Type correctness needs one fact about control: the loop that copies a list
\* has a stream to copy it from.
LEMMA TypeStep == ASSUME TypeOK, LoopOwned, [Next]_vars PROVE TypeOK' /\ LoopOwned'
<1> USE NilAssumption DEF TypeOK, LoopOwned, Statuses, LoopStates, Connectable
<1>1. ASSUME NEW s \in Streams, CreateStream(s) PROVE TypeOK' /\ LoopOwned'
  BY <1>1 DEF CreateStream, loopVars
<1>2. ASSUME NEW s \in Streams, PauseStream(s) PROVE TypeOK' /\ LoopOwned'
  BY <1>2 DEF PauseStream, loopVars
<1>3. ASSUME NEW s \in Streams, ResumeStream(s) PROVE TypeOK' /\ LoopOwned'
  BY <1>3 DEF ResumeStream, loopVars
<1>4. ASSUME NEW s \in Streams, StopStream(s) PROVE TypeOK' /\ LoopOwned'
  BY <1>4 DEF StopStream, loopVars
<1>5. ASSUME NEW s \in Streams, NEW p \in PCs, ConnectFails(s, p)
      PROVE TypeOK' /\ LoopOwned'
  BY <1>5 DEF ConnectFails, streamVars, loopVars
<1>6. ASSUME NEW s \in Streams, NEW p \in PCs, ConnectBroadcaster(s, p)
      PROVE TypeOK' /\ LoopOwned'
  BY <1>6 DEF ConnectBroadcaster
<1>7. ASSUME NEW s \in Streams, NEW p \in PCs, ConnectListener(s, p)
      PROVE TypeOK' /\ LoopOwned'
  BY <1>7 DEF ConnectListener, loopVars
<1>8. ASSUME NEW p \in PCs, OnTrack(p) PROVE TypeOK' /\ LoopOwned'
  BY <1>8 DEF OnTrack, streamVars, loopVars
<1>9. ASSUME NEW p \in PCs, AwaitTrack(p) PROVE TypeOK' /\ LoopOwned'
  BY <1>9 DEF AwaitTrack
<1>10. ASSUME NEW p \in PCs, SeeDone(p) \/ CheckNotDone(p) \/ ReadPacket(p) \/ ReadError(p)
       PROVE TypeOK' /\ LoopOwned'
  BY <1>10 DEF SeeDone, CheckNotDone, ReadPacket, ReadError, streamVars
<1>11. ASSUME NEW p \in PCs, Snapshot(p) PROVE TypeOK' /\ LoopOwned'
  BY <1>11 DEF Snapshot, Copied, Picked, streamVars
<1>12. ASSUME NEW p \in PCs, WriteToListeners(p) PROVE TypeOK' /\ LoopOwned'
  BY <1>12 DEF WriteToListeners, streamVars
<1>13. ASSUME NEW p \in PCs, RemoveDead(p) PROVE TypeOK' /\ LoopOwned'
  BY <1>13 DEF RemoveDead, Remaining
<1>14. CASE UNCHANGED vars
  BY <1>14 DEF vars
<1> QED
  BY <1>1, <1>2, <1>3, <1>4, <1>5, <1>6, <1>7, <1>8, <1>9, <1>10, <1>11, <1>12,
     <1>13, <1>14 DEF Next, HubMethod, ForwardStep

------------------------------------------------------------------------------
(* The steps of a loop that touch nothing but the loop and its track channel. *)
LoopOnly(p) ==
  SeeDone(p) \/ CheckNotDone(p) \/ ReadPacket(p) \/ ReadError(p) \/ Snapshot(p)
  \/ WriteToListeners(p) \/ OnTrack(p)

\* What those steps leave alone is all the other parts of IInv speak of.
LEMMA LoopOnlyFrame ==
  ASSUME NEW p \in PCs, LoopOnly(p)
  PROVE  UNCHANGED <<status, paused, broadcaster, broadcastTrack, listenerPeers,
                     forwardDone, pc, own, dropped>>
BY DEF LoopOnly, SeeDone, CheckNotDone, ReadPacket, ReadError, Snapshot,
       WriteToListeners, OnTrack, streamVars

\* A peer connection that is referred to stays made: no step frees one.
LEMMA HeldIsUsedStep ==
  ASSUME TypeOK, LoopOwned, HeldIsUsed, [Next]_vars PROVE HeldIsUsed'
<1> USE NilAssumption DEF TypeOK, LoopOwned, HeldIsUsed, Connectable
<1>1. ASSUME NEW s \in Streams,
             CreateStream(s) \/ PauseStream(s) \/ ResumeStream(s)
      PROVE  HeldIsUsed'
  BY <1>1 DEF CreateStream, PauseStream, ResumeStream
<1>2. ASSUME NEW s \in Streams, StopStream(s) PROVE HeldIsUsed'
  BY <1>2 DEF StopStream
<1>3. ASSUME NEW s \in Streams, NEW p \in PCs, ConnectFails(s, p) PROVE HeldIsUsed'
  BY <1>3 DEF ConnectFails, streamVars
<1>4. ASSUME NEW s \in Streams, NEW p \in PCs, ConnectBroadcaster(s, p)
      PROVE  HeldIsUsed'
  BY <1>4 DEF ConnectBroadcaster
<1>5. ASSUME NEW s \in Streams, NEW p \in PCs, ConnectListener(s, p)
      PROVE  HeldIsUsed'
  BY <1>5 DEF ConnectListener
<1>6. ASSUME NEW p \in PCs, LoopOnly(p) PROVE HeldIsUsed'
  BY <1>6, LoopOnlyFrame
<1>7. ASSUME NEW p \in PCs, AwaitTrack(p) PROVE HeldIsUsed'
  BY <1>7 DEF AwaitTrack
<1>8. ASSUME NEW p \in PCs, RemoveDead(p) PROVE HeldIsUsed'
  BY <1>8 DEF RemoveDead, Remaining
<1>9. CASE UNCHANGED vars
  BY <1>9 DEF vars
<1> QED
  BY <1>1, <1>2, <1>3, <1>4, <1>5, <1>6, <1>7, <1>8, <1>9
     DEF Next, HubMethod, ForwardStep, LoopOnly

\* Connections keep their stream from the moment they are made.
LEMMA HeldIsOwnedStep ==
  ASSUME TypeOK, LoopOwned, HeldIsUsed, HeldIsOwned, OwnedIsMade, [Next]_vars
  PROVE  HeldIsOwned' /\ OwnedIsMade'
<1> USE NilAssumption
        DEF TypeOK, LoopOwned, HeldIsUsed, HeldIsOwned, OwnedIsMade, Connectable
<1>1. ASSUME NEW s \in Streams,
             CreateStream(s) \/ PauseStream(s) \/ ResumeStream(s)
      PROVE  HeldIsOwned' /\ OwnedIsMade'
  BY <1>1 DEF CreateStream, PauseStream, ResumeStream
<1>2. ASSUME NEW s \in Streams, StopStream(s) PROVE HeldIsOwned' /\ OwnedIsMade'
  BY <1>2 DEF StopStream
<1>3. ASSUME NEW s \in Streams, NEW p \in PCs, ConnectFails(s, p)
      PROVE  HeldIsOwned' /\ OwnedIsMade'
  BY <1>3 DEF ConnectFails, streamVars
<1>4. ASSUME NEW s \in Streams, NEW p \in PCs, ConnectBroadcaster(s, p)
      PROVE  HeldIsOwned' /\ OwnedIsMade'
  BY <1>4 DEF ConnectBroadcaster
<1>5. ASSUME NEW s \in Streams, NEW p \in PCs, ConnectListener(s, p)
      PROVE  HeldIsOwned' /\ OwnedIsMade'
  BY <1>5 DEF ConnectListener
<1>6. ASSUME NEW p \in PCs, LoopOnly(p) \/ AwaitTrack(p)
      PROVE  HeldIsOwned' /\ OwnedIsMade'
  BY <1>6, LoopOnlyFrame DEF AwaitTrack
<1>7. ASSUME NEW p \in PCs, RemoveDead(p) PROVE HeldIsOwned' /\ OwnedIsMade'
  BY <1>7 DEF RemoveDead, Remaining
<1>8. CASE UNCHANGED vars
  BY <1>8 DEF vars
<1> QED
  BY <1>1, <1>2, <1>3, <1>4, <1>5, <1>6, <1>7, <1>8
     DEF Next, HubMethod, ForwardStep, LoopOnly

\* The flag is set by the only step to "paused"; the step that clears it and the
\* one that leaves it alone (a reconnecting broadcaster) go to "live".
LEMMA PausedFlagStep == ASSUME TypeOK, PausedFlag, [Next]_vars PROVE PausedFlag'
<1> USE DEF TypeOK, PausedFlag
<1>1. ASSUME NEW s \in Streams,
             CreateStream(s) \/ PauseStream(s) \/ ResumeStream(s) \/ StopStream(s)
      PROVE  PausedFlag'
  BY <1>1 DEF CreateStream, PauseStream, ResumeStream, StopStream
<1>2. ASSUME NEW s \in Streams, NEW p \in PCs,
             ConnectFails(s, p) \/ ConnectBroadcaster(s, p) \/ ConnectListener(s, p)
      PROVE  PausedFlag'
  BY <1>2 DEF ConnectFails, ConnectBroadcaster, ConnectListener, streamVars
<1>3. ASSUME NEW p \in PCs, LoopOnly(p) \/ AwaitTrack(p) \/ RemoveDead(p)
      PROVE  PausedFlag'
  BY <1>3, LoopOnlyFrame DEF AwaitTrack, RemoveDead
<1>4. CASE UNCHANGED vars
  BY <1>4 DEF vars
<1> QED
  BY <1>1, <1>2, <1>3, <1>4 DEF Next, HubMethod, ForwardStep, LoopOnly

\* No connect starts on an ended stream, and a loop only ever shrinks its list.
LEMMA EndedIsQuietStep ==
  ASSUME TypeOK, EndedIsQuiet, [Next]_vars PROVE EndedIsQuiet'
<1> USE NilAssumption DEF TypeOK, EndedIsQuiet, Connectable
<1>1. ASSUME NEW s \in Streams,
             CreateStream(s) \/ PauseStream(s) \/ ResumeStream(s) \/ StopStream(s)
      PROVE  EndedIsQuiet'
  BY <1>1 DEF CreateStream, PauseStream, ResumeStream, StopStream
<1>2. ASSUME NEW s \in Streams, NEW p \in PCs, ConnectFails(s, p)
      PROVE  EndedIsQuiet'
  BY <1>2 DEF ConnectFails, streamVars
<1>3. ASSUME NEW s \in Streams, NEW p \in PCs, ConnectBroadcaster(s, p)
      PROVE  EndedIsQuiet'
  BY <1>3 DEF ConnectBroadcaster
<1>4. ASSUME NEW s \in Streams, NEW p \in PCs, ConnectListener(s, p)
      PROVE  EndedIsQuiet'
  BY <1>4 DEF ConnectListener
<1>5. ASSUME NEW p \in PCs, LoopOnly(p) \/ AwaitTrack(p) PROVE EndedIsQuiet'
  BY <1>5, LoopOnlyFrame DEF AwaitTrack
<1>6. ASSUME NEW p \in PCs, RemoveDead(p) PROVE EndedIsQuiet'
  BY <1>6 DEF RemoveDead, Remaining
<1>7. CASE UNCHANGED vars
  BY <1>7 DEF vars
<1> QED
  BY <1>1, <1>2, <1>3, <1>4, <1>5, <1>6, <1>7
     DEF Next, HubMethod, ForwardStep, LoopOnly

\* A connection stops being referred to in three ways, and each either closes it
\* (StopStream) or records it as dropped (ConnectBroadcaster, RemoveDead).
LEMMA OpenIsAccountedForStep ==
  ASSUME TypeOK, LoopOwned, OpenIsAccountedFor, [Next]_vars
  PROVE  OpenIsAccountedFor'
<1> USE NilAssumption DEF TypeOK, LoopOwned, OpenIsAccountedFor, Connectable
<1>1. ASSUME NEW s \in Streams,
             CreateStream(s) \/ PauseStream(s) \/ ResumeStream(s)
      PROVE  OpenIsAccountedFor'
  BY <1>1 DEF CreateStream, PauseStream, ResumeStream
<1>2. ASSUME NEW s \in Streams, StopStream(s) PROVE OpenIsAccountedFor'
  <2> SUFFICES ASSUME NEW q \in PCs, pc'[q] = "open", q \notin dropped'
               PROVE  /\ own'[q] \in Streams
                      /\ q = broadcaster'[own'[q]] \/ q \in listenerPeers'[own'[q]]
    BY DEF OpenIsAccountedFor
  <2>1. pc[q] = "open" /\ q \notin Closing(s) /\ q \notin dropped /\ own'[q] = own[q]
    BY <1>2 DEF StopStream
  <2>2. own[q] # s
    BY <2>1 DEF Closing
  <2> QED
    BY <1>2, <2>1, <2>2 DEF StopStream
<1>3. ASSUME NEW s \in Streams, NEW p \in PCs, ConnectFails(s, p)
      PROVE  OpenIsAccountedFor'
  BY <1>3 DEF ConnectFails, streamVars
<1>4. ASSUME NEW s \in Streams, NEW p \in PCs, ConnectBroadcaster(s, p)
      PROVE  OpenIsAccountedFor'
  <2> SUFFICES ASSUME NEW q \in PCs, pc'[q] = "open", q \notin dropped'
               PROVE  /\ own'[q] \in Streams
                      /\ q = broadcaster'[own'[q]] \/ q \in listenerPeers'[own'[q]]
    BY DEF OpenIsAccountedFor
  <2>1. CASE q = p
    BY <1>4, <2>1 DEF ConnectBroadcaster
  <2>2. CASE q # p
    <3>1. pc[q] = "open" /\ own'[q] = own[q] /\ q \notin dropped /\ q # broadcaster[s]
      BY <1>4, <2>2 DEF ConnectBroadcaster
    <3> QED
      BY <1>4, <3>1 DEF ConnectBroadcaster
  <2> QED
    BY <2>1, <2>2
<1>5. ASSUME NEW s \in Streams, NEW p \in PCs, ConnectListener(s, p)
      PROVE  OpenIsAccountedFor'
  BY <1>5 DEF ConnectListener
<1>6. ASSUME NEW p \in PCs, LoopOnly(p) \/ AwaitTrack(p) PROVE OpenIsAccountedFor'
  BY <1>6, LoopOnlyFrame DEF AwaitTrack
<1>7. ASSUME NEW p \in PCs, RemoveDead(p) PROVE OpenIsAccountedFor'
  BY <1>7 DEF RemoveDead, Remaining
<1>8. CASE UNCHANGED vars
  BY <1>8 DEF vars
<1> QED
  BY <1>1, <1>2, <1>3, <1>4, <1>5, <1>6, <1>7, <1>8
     DEF Next, HubMethod, ForwardStep, LoopOnly

------------------------------------------------------------------------------
LEMMA StepIInv == ASSUME IInv, [Next]_vars PROVE IInv'
BY TypeStep, HeldIsUsedStep, HeldIsOwnedStep, PausedFlagStep, EndedIsQuietStep,
   OpenIsAccountedForStep
   DEF IInv

\* IInv holds in every state the relay reaches.
THEOREM Invariance == Spec => []IInv
BY InitIInv, StepIInv, PTL DEF Spec

\* The variables of the relay keep their types.
THEOREM TypeCorrect == Spec => []TypeOK
BY Invariance, PTL DEF IInv

\* EndedIsQuiet: after a stop no connect and no forwarding loop puts anything
\* back into the stream, however the loop's unlocked steps fall.
THEOREM EndedStaysQuiet == Spec => []EndedIsQuiet
BY Invariance, PTL DEF IInv

\* OpenIsAccountedFor: an open connection is one its stream would close, or one
\* lost in the two ways the history variable records.
THEOREM OpenAccounted == Spec => []OpenIsAccountedFor
BY Invariance, PTL DEF IInv

\* NoListenerReturns: RemoveDead filters the list as it is when it runs, so the
\* only way into a list is a connect, with a connection that was never used.
THEOREM ListenersNeverReturn == Spec => NoListenerReturns
<1>1. IInv /\ [Next]_vars =>
        [\A s \in Streams : \A p \in listenerPeers'[s] \ listenerPeers[s] :
           pc[p] = "free"]_vars
  <2> SUFFICES ASSUME IInv, Next, NEW s \in Streams,
                      NEW p \in listenerPeers'[s] \ listenerPeers[s]
               PROVE  pc[p] = "free"
    OBVIOUS
  <2> USE DEF IInv, TypeOK, LoopOwned, Connectable
  <2>1. ASSUME NEW t \in Streams,
               CreateStream(t) \/ PauseStream(t) \/ ResumeStream(t) \/ StopStream(t)
        PROVE  FALSE
    BY <2>1 DEF CreateStream, PauseStream, ResumeStream, StopStream
  <2>2. ASSUME NEW t \in Streams, NEW q \in PCs,
               ConnectFails(t, q) \/ ConnectBroadcaster(t, q)
        PROVE  FALSE
    BY <2>2 DEF ConnectFails, ConnectBroadcaster, streamVars
  <2>3. ASSUME NEW t \in Streams, NEW q \in PCs, ConnectListener(t, q)
        PROVE  pc[p] = "free"
    BY <2>3 DEF ConnectListener
  <2>4. ASSUME NEW q \in PCs, LoopOnly(q) \/ AwaitTrack(q) \/ RemoveDead(q)
        PROVE  FALSE
    BY <2>4, LoopOnlyFrame DEF AwaitTrack, RemoveDead, Remaining
  <2> QED
    BY <2>1, <2>2, <2>3, <2>4 DEF Next, HubMethod, ForwardStep, LoopOnly
<1> QED
  BY Invariance, <1>1, PTL DEF Spec, NoListenerReturns

\* NoListenerLost: a listener that connects while a loop is writing is not in the
\* loop's dead, so the loop cannot remove it.
THEOREM ListenersNeverLost == Spec => NoListenerLost
<1>1. IInv /\ [Next]_vars =>
        [\A s \in Streams : \A p \in listenerPeers[s] \ listenerPeers'[s] :
           \/ status'[s] = "ended"
           \/ \E q \in PCs : own[q] = s /\ loop[q] = "prune" /\ p \in dead[q]]_vars
  <2> SUFFICES ASSUME IInv, Next, NEW s \in Streams,
                      NEW p \in listenerPeers[s] \ listenerPeers'[s]
               PROVE  \/ status'[s] = "ended"
                      \/ \E q \in PCs : own[q] = s /\ loop[q] = "prune" /\ p \in dead[q]
    OBVIOUS
  <2> USE DEF IInv, TypeOK, LoopOwned, Connectable
  <2>1. ASSUME NEW t \in Streams,
               CreateStream(t) \/ PauseStream(t) \/ ResumeStream(t)
        PROVE  FALSE
    BY <2>1 DEF CreateStream, PauseStream, ResumeStream
  <2>2. ASSUME NEW t \in Streams, StopStream(t) PROVE status'[s] = "ended"
    BY <2>2 DEF StopStream
  <2>3. ASSUME NEW t \in Streams, NEW q \in PCs,
               ConnectFails(t, q) \/ ConnectBroadcaster(t, q) \/ ConnectListener(t, q)
        PROVE  FALSE
    BY <2>3 DEF ConnectFails, ConnectBroadcaster, ConnectListener, streamVars
  <2>4. ASSUME NEW q \in PCs, LoopOnly(q) \/ AwaitTrack(q) PROVE FALSE
    BY <2>4, LoopOnlyFrame DEF AwaitTrack
  <2>5. ASSUME NEW q \in PCs, RemoveDead(q)
        PROVE  own[q] = s /\ loop[q] = "prune" /\ p \in dead[q]
    BY <2>5 DEF RemoveDead, Remaining
  <2> QED
    BY <2>1, <2>2, <2>3, <2>4, <2>5 DEF Next, HubMethod, ForwardStep, LoopOnly
<1> QED
  BY Invariance, <1>1, PTL DEF Spec, NoListenerLost

\* NoAudioDuringPause: the flag and the list are read together, under the lock,
\* after the Read, and while the stream is paused the flag is set.
THEOREM PauseIsSilent == Spec => NoAudioDuringPause
<1>1. IInv /\ [Next]_vars =>
        [\A p \in PCs :
           /\ own[p] \in Streams
           /\ status[own[p]] = "paused" /\ status'[own[p]] = "paused"
           /\ payload'[p] = "audio"
           => payload[p] = "audio"]_vars
  <2> SUFFICES ASSUME IInv, Next, NEW p \in PCs,
                      own[p] \in Streams, status[own[p]] = "paused",
                      payload'[p] = "audio"
               PROVE  payload[p] = "audio"
    OBVIOUS
  <2> USE DEF IInv, TypeOK
  <2>1. paused[own[p]]
    BY DEF PausedFlag
  <2>2. ASSUME NEW q \in PCs, Snapshot(q) PROVE payload[p] = "audio"
    BY <2>1, <2>2 DEF Snapshot, Picked
  <2>3. ASSUME NEW q \in PCs, WriteToListeners(q) PROVE payload[p] = "audio"
    BY <2>3 DEF WriteToListeners
  <2>4. ASSUME NEW q \in PCs,
               \/ SeeDone(q) \/ CheckNotDone(q) \/ ReadPacket(q) \/ ReadError(q)
               \/ OnTrack(q) \/ AwaitTrack(q) \/ RemoveDead(q)
        PROVE  UNCHANGED payload
    BY <2>4 DEF SeeDone, CheckNotDone, ReadPacket, ReadError, OnTrack, AwaitTrack,
                RemoveDead, loopVars
  <2>5. ASSUME HubMethod PROVE UNCHANGED payload
    BY <2>5 DEF HubMethod, CreateStream, PauseStream, ResumeStream, StopStream,
                ConnectFails, ConnectBroadcaster, ConnectListener, loopVars
  <2> QED
    BY <2>2, <2>3, <2>4, <2>5 DEF Next, ForwardStep
<1> QED
  BY Invariance, <1>1, PTL DEF Spec, NoAudioDuringPause

\* EndedLoopsWindDown: the only way round the loop is through the test of the
\* signal, which an end has raised for good, and a copy made after the end is of an
\* empty list.
THEOREM EndedLoopsReturn == Spec => EndedLoopsWindDown
<1>1. IInv /\ [Next]_vars =>
        [\A p \in PCs : own[p] \in Streams /\ status[own[p]] = "ended" =>
           /\ loop'[p] # loop[p] => StepsLeft(loop'[p]) < StepsLeft(loop[p])
           /\ peers'[p] \subseteq peers[p]]_vars
  <2> SUFFICES ASSUME IInv, Next, NEW p \in PCs,
                      own[p] \in Streams, status[own[p]] = "ended"
               PROVE  /\ loop'[p] # loop[p] => StepsLeft(loop'[p]) < StepsLeft(loop[p])
                      /\ peers'[p] \subseteq peers[p]
    OBVIOUS
  <2> USE DEF IInv, TypeOK
  <2>1. forwardDone[own[p]] /\ listenerPeers[own[p]] = {}
    BY DEF EndedIsQuiet
  <2>2. ASSUME loop'[p] = loop[p], peers'[p] = peers[p]
        PROVE  /\ loop'[p] # loop[p] => StepsLeft(loop'[p]) < StepsLeft(loop[p])
               /\ peers'[p] \subseteq peers[p]
    BY <2>2
  <2>3. ASSUME NEW s \in Streams, NEW q \in PCs,
               \/ CreateStream(s) \/ PauseStream(s) \/ ResumeStream(s) \/ StopStream(s)
               \/ ConnectFails(s, q) \/ ConnectListener(s, q) \/ OnTrack(q)
        PROVE  loop'[p] = loop[p] /\ peers'[p] = peers[p]
    BY <2>3 DEF CreateStream, PauseStream, ResumeStream, StopStream, ConnectFails,
                ConnectListener, OnTrack, loopVars
  <2>4. ASSUME NEW s \in Streams, NEW q \in PCs, ConnectBroadcaster(s, q)
        PROVE  loop'[p] = loop[p] /\ peers'[p] = peers[p]
    <3>1. q # p
      BY <2>4 DEF ConnectBroadcaster, OwnedIsMade
    <3> QED
      BY <2>4, <3>1 DEF ConnectBroadcaster
  <2>5. ASSUME NEW q \in PCs, q # p, ForwardStep(q)
        PROVE  loop'[p] = loop[p] /\ peers'[p] = peers[p]
    BY <2>5 DEF ForwardStep, AwaitTrack, SeeDone, CheckNotDone, ReadPacket, ReadError,
                Snapshot, WriteToListeners, RemoveDead
  <2>6. ASSUME ForwardStep(p)
        PROVE  /\ StepsLeft(loop'[p]) < StepsLeft(loop[p])
               /\ peers'[p] \subseteq peers[p]
    BY <2>1, <2>6 DEF ForwardStep, AwaitTrack, SeeDone, CheckNotDone, ReadPacket,
         ReadError, Snapshot, WriteToListeners, RemoveDead, Copied, StepsLeft
  <2> QED
    BY <2>2, <2>3, <2>4, <2>5, <2>6 DEF Next, HubMethod
<1> QED
  BY Invariance, <1>1, PTL DEF Spec, EndedLoopsWindDown

------------------------------------------------------------------------------
(* The relay implements StreamService. *)

\* the seats nobody took: connections not made yet
Fresh == {p \in PCs : pc[p] = "free"}

\* Each method maps to an action of the service, a loop's removal of dead peers
\* to their leaving, and every other step of a loop to a stutter.
LEMMA StepRefines == ASSUME IInv, [Next]_vars PROVE [Service!Next]_(Service!vars)
<1> USE NilAssumption DEF IInv, TypeOK, Connectable, Service!vars
<1>1. ASSUME NEW s \in Streams, CreateStream(s) PROVE Service!Next
  BY <1>1 DEF CreateStream, Service!Next, Service!Open
<1>2. ASSUME NEW s \in Streams, PauseStream(s) PROVE Service!Next
  BY <1>2 DEF PauseStream, Service!Next, Service!Pause
<1>3. ASSUME NEW s \in Streams, ResumeStream(s) PROVE Service!Next
  BY <1>3 DEF ResumeStream, Service!Next, Service!Resume
<1>4. ASSUME NEW s \in Streams, StopStream(s) PROVE Service!Next
  <2>1. Fresh' = Fresh
    BY <1>4 DEF StopStream, Closing, HeldIsUsed, Fresh
  <2>2. Service!End(s)
    BY <1>4, <2>1 DEF StopStream, Service!End, Fresh
  <2> QED
    BY <2>2 DEF Service!Next
<1>5. ASSUME NEW s \in Streams, NEW p \in PCs, ConnectFails(s, p) PROVE Service!Next
  <2>1. Fresh' = Fresh \ {p}
    BY <1>5 DEF ConnectFails, Fresh
  <2>2. Service!Spoil(p)
    BY <1>5, <2>1 DEF ConnectFails, streamVars, Service!Spoil, Fresh
  <2> QED
    BY <2>2 DEF Service!Next
<1>6. ASSUME NEW s \in Streams, NEW p \in PCs, ConnectBroadcaster(s, p)
      PROVE  Service!Next
  <2>1. Fresh' \subseteq Fresh
    BY <1>6 DEF ConnectBroadcaster, Fresh
  <2>2. Service!GoLive(s)
    BY <1>6, <2>1 DEF ConnectBroadcaster, Service!GoLive, Fresh
  <2> QED
    BY <2>2 DEF Service!Next
<1>7. ASSUME NEW s \in Streams, NEW p \in PCs, ConnectListener(s, p)
      PROVE  Service!Next
  <2>1. Fresh' = Fresh \ {p}
    BY <1>7 DEF ConnectListener, Fresh
  <2>2. Service!Join(s, p)
    BY <1>7, <2>1 DEF ConnectListener, Service!Join, Fresh
  <2> QED
    BY <2>2 DEF Service!Next
<1>8. ASSUME NEW p \in PCs, LoopOnly(p) \/ AwaitTrack(p)
      PROVE  UNCHANGED Service!vars
  BY <1>8, LoopOnlyFrame DEF AwaitTrack
<1>9. ASSUME NEW p \in PCs, RemoveDead(p) PROVE Service!Next
  <2>1. own[p] \in Streams /\ dead[p] \in SUBSET PCs
    BY <1>9 DEF RemoveDead, LoopOwned
  <2>2. Service!Leave(own[p], dead[p])
    BY <1>9 DEF RemoveDead, Remaining, Service!Leave
  <2> QED
    BY <2>1, <2>2 DEF Service!Next
<1>10. CASE UNCHANGED vars
  BY <1>10 DEF vars
<1> QED
  BY <1>1, <1>2, <1>3, <1>4, <1>5, <1>6, <1>7, <1>8, <1>9, <1>10
     DEF Next, HubMethod, ForwardStep, LoopOnly

\* ImplementsService: seen through the refinement mapping, every behaviour of the
\* relay is one of the service.
THEOREM RelayImplementsService == Spec => ImplementsService
<1>1. Init => Service!Init
  BY DEF Init, Service!Init
<1> QED
  BY <1>1, Invariance, StepRefines, PTL DEF Spec, ImplementsService, Service!Spec

\* What was proved of the service, seen through the same mapping.
Promise == INSTANCE StreamServiceProofs WITH
             Seats    <- PCs,
             phase    <- status,
             audience <- listenerPeers,
             fresh    <- {p \in PCs : pc[p] = "free"}

\* A connection is in the list of one stream at most, and never again after it left
\* it, be it for this stream or another; an ended stream stays ended and has no list.
THEOREM RelayKeepsItsPromise == Spec => []Promise!SeatedOnce /\ Promise!NoWayBack
<1>1. Service!Init => Promise!Init
  BY DEF Service!Init, Promise!Init
<1>2. [Service!Next]_(Service!vars) => [Promise!Next]_(Promise!vars)
  BY DEF Service!Next, Service!Open, Service!GoLive, Service!Pause, Service!Resume,
         Service!Join, Service!Leave, Service!Spoil, Service!End, Service!vars,
         Promise!Next, Promise!Open, Promise!GoLive, Promise!Pause, Promise!Resume,
         Promise!Join, Promise!Leave, Promise!Spoil, Promise!End, Promise!vars
<1>3. ImplementsService => Promise!Spec
  BY <1>1, <1>2, PTL DEF ImplementsService, Service!Spec, Promise!Spec
<1> QED
  BY RelayImplementsService, <1>3, Promise!SeatsAreSeatedOnce, Promise!NobodyComesBack, PTL
==============================================================================

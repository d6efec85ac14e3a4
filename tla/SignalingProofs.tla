--------------------------- MODULE SignalingProofs ---------------------------
(***************************************************************************)
(* Proofs about Signaling, for any sets of sessions, streams and           *)
(* connections.                                                            *)
(*                                                                         *)
(* Sessions and handlers change the relay only through its methods, so     *)
(* every step is a step of the relay or leaves it alone.  What is proved   *)
(* about Relay therefore holds of the composition, and what a session      *)
(* relies on while it is between a hub call and a reply is reduced to what *)
(* one step of the relay can do to a connection and to an ended stream.    *)
(***************************************************************************)
EXTENDS Signaling, RelayProofs

\* the stream of a session was there when the session was opened
StreamIsThere ==
  \A c \in Sessions : session[c] \in {"read", "answer", "end"} =>
    status[streamId[c]] # "absent" \/ streamId[c] = Unknown

\* what AnswerIsAlive says of a connection
Alive(p) == own[p] \in Streams /\ (pc[p] = "open" \/ status[own[p]] = "ended")

SInv ==
  /\ IInv
  /\ SignalTypeOK
  /\ StreamIsThere
  /\ AnswerIsAlive
  /\ EndIsTrue

------------------------------------------------------------------------------
(* What one step of the relay does. *)

\* Every step of the composition is a step of the relay, or leaves it alone.
LEMMA StepOfRelay == ASSUME SignalTypeOK, [SignalNext]_allVars PROVE [Next]_vars
<1> USE DEF Next, HubMethod
<1>1. ASSUME HandlerStep PROVE Next
  BY <1>1 DEF HandlerStep
<1>2. ASSUME RelayStep PROVE Next
  BY <1>2 DEF RelayStep
<1>3. ASSUME NEW c \in Sessions, session[c] = "read" PROVE streamId[c] \in Streams
  BY <1>3 DEF SignalTypeOK
<1>4. ASSUME NEW c \in Sessions, NEW p \in PCs, Offer(c, p) PROVE Next
  BY <1>3, <1>4 DEF Offer
<1>5. ASSUME NEW c \in Sessions, OfferRefused(c) PROVE Next \/ UNCHANGED vars
  BY <1>3, <1>5 DEF OfferRefused
<1>6. ASSUME NEW c \in Sessions, PauseOrResume(c) PROVE Next
  BY <1>3, <1>6 DEF PauseOrResume
<1>7. ASSUME NEW c \in Sessions, End(c) PROVE Next \/ UNCHANGED vars
  BY <1>3, <1>7 DEF End, StopOrNot
<1>8. ASSUME NEW c \in Sessions,
             (\E s \in Streams : Accept(c, s)) \/ WriteAnswer(c) \/ WriteEnd(c) \/ Hangup(c)
      PROVE  UNCHANGED vars
  BY <1>8 DEF Accept, WriteAnswer, WriteEnd, Hangup
<1> USE DEF SignalNext
<1> HIDE DEF Next, HubMethod
<1> QED
  BY <1>1, <1>2, <1>4, <1>5, <1>6, <1>7, <1>8 DEF SessionStep, allVars

\* An ended stream stays ended.
LEMMA EndedStays ==
  ASSUME IInv, [Next]_vars, NEW s \in Streams, status[s] = "ended"
  PROVE  status'[s] = "ended"
<1> USE DEF IInv, TypeOK, Connectable
<1>1. ASSUME NEW t \in Streams,
             CreateStream(t) \/ PauseStream(t) \/ ResumeStream(t) \/ StopStream(t)
      PROVE  status'[s] = "ended"
  BY <1>1 DEF CreateStream, PauseStream, ResumeStream, StopStream
<1>2. ASSUME NEW t \in Streams, NEW p \in PCs,
             ConnectFails(t, p) \/ ConnectBroadcaster(t, p) \/ ConnectListener(t, p)
      PROVE  status'[s] = "ended"
  BY <1>2 DEF ConnectFails, ConnectBroadcaster, ConnectListener, streamVars
<1>3. ASSUME NEW p \in PCs, LoopOnly(p) \/ AwaitTrack(p) \/ RemoveDead(p)
      PROVE  status'[s] = "ended"
  BY <1>3, LoopOnlyFrame DEF AwaitTrack, RemoveDead
<1>4. CASE UNCHANGED vars
  BY <1>4 DEF vars
<1> QED
  BY <1>1, <1>2, <1>3, <1>4 DEF Next, HubMethod, ForwardStep, LoopOnly

\* A stream that was made is never unmade.
LEMMA MadeStays ==
  ASSUME IInv, [Next]_vars, NEW s \in Streams, status[s] # "absent"
  PROVE  status'[s] # "absent"
<1> USE DEF IInv, TypeOK
<1>1. ASSUME NEW t \in Streams,
             CreateStream(t) \/ PauseStream(t) \/ ResumeStream(t) \/ StopStream(t)
      PROVE  status'[s] # "absent"
  BY <1>1 DEF CreateStream, PauseStream, ResumeStream, StopStream
<1>2. ASSUME NEW t \in Streams, NEW p \in PCs,
             ConnectFails(t, p) \/ ConnectBroadcaster(t, p) \/ ConnectListener(t, p)
      PROVE  status'[s] # "absent"
  BY <1>2 DEF ConnectFails, ConnectBroadcaster, ConnectListener, streamVars
<1>3. ASSUME NEW p \in PCs, LoopOnly(p) \/ AwaitTrack(p) \/ RemoveDead(p)
      PROVE  status'[s] # "absent"
  BY <1>3, LoopOnlyFrame DEF AwaitTrack, RemoveDead
<1>4. CASE UNCHANGED vars
  BY <1>4 DEF vars
<1> QED
  BY <1>1, <1>2, <1>3, <1>4 DEF Next, HubMethod, ForwardStep, LoopOnly

\* Only a stop closes an open connection, and it closes those of its own stream.
LEMMA AliveStays ==
  ASSUME IInv, [Next]_vars, NEW p \in PCs, Alive(p)
  PROVE  Alive(p)'
<1> USE NilAssumption DEF IInv, TypeOK, OwnedIsMade
<1>1. own[p] \in Streams /\ pc[p] # "free"
  BY DEF Alive
<1>2. ASSUME own'[p] = own[p], pc'[p] = pc[p] PROVE Alive(p)'
  BY <1>1, <1>2, EndedStays DEF Alive
<1>3. ASSUME NEW s \in Streams,
             CreateStream(s) \/ PauseStream(s) \/ ResumeStream(s)
      PROVE  own'[p] = own[p] /\ pc'[p] = pc[p]
  BY <1>3 DEF CreateStream, PauseStream, ResumeStream
<1>4. ASSUME NEW s \in Streams, StopStream(s) PROVE Alive(p)'
  <2>1. own' = own /\ status' = [status EXCEPT ![s] = "ended"]
    BY <1>4 DEF StopStream
  <2>2. CASE p \in Closing(s)
    <3>1. own[p] = s
      BY <2>2 DEF Closing, HeldIsOwned
    <3> QED
      BY <2>1, <3>1 DEF Alive
  <2>3. CASE p \notin Closing(s)
    <3>1. pc'[p] = pc[p]
      BY <1>4, <2>3 DEF StopStream
    <3> QED
      BY <1>2, <2>1, <3>1
  <2> QED
    BY <2>2, <2>3
<1>5. ASSUME NEW s \in Streams, NEW q \in PCs,
             ConnectFails(s, q) \/ ConnectBroadcaster(s, q) \/ ConnectListener(s, q)
      PROVE  own'[p] = own[p] /\ pc'[p] = pc[p]
  BY <1>1, <1>5 DEF ConnectFails, ConnectBroadcaster, ConnectListener
<1>6. ASSUME NEW q \in PCs, LoopOnly(q) \/ AwaitTrack(q) \/ RemoveDead(q)
      PROVE  own'[p] = own[p] /\ pc'[p] = pc[p]
  BY <1>6, LoopOnlyFrame DEF AwaitTrack, RemoveDead
<1>7. ASSUME UNCHANGED vars PROVE own'[p] = own[p] /\ pc'[p] = pc[p]
  BY <1>7 DEF vars
<1> QED
  BY <1>2, <1>3, <1>4, <1>5, <1>6, <1>7 DEF Next, HubMethod, ForwardStep, LoopOnly

------------------------------------------------------------------------------
(* Invariance. *)

LEMMA InitSInv == SignalInit => SInv
<1> SUFFICES ASSUME SignalInit PROVE SInv
  OBVIOUS
<1>1. IInv
  BY InitIInv DEF SignalInit
<1>2. SignalTypeOK
  BY DEF SignalInit, SignalTypeOK
<1>3. StreamIsThere /\ AnswerIsAlive /\ EndIsTrue
  BY DEF SignalInit, StreamIsThere, AnswerIsAlive, EndIsTrue
<1> QED
  BY <1>1, <1>2, <1>3 DEF SInv

LEMMA SignalTypeStep ==
  ASSUME SInv, [SignalNext]_allVars PROVE SignalTypeOK'
<1> USE NilAssumption DEF SInv, SignalTypeOK
<1>1. ASSUME NEW c \in Sessions, NEW s \in Streams, Accept(c, s) PROVE SignalTypeOK'
  BY <1>1 DEF Accept
<1>2. ASSUME NEW c \in Sessions, NEW p \in PCs, Offer(c, p) PROVE SignalTypeOK'
  BY <1>2 DEF Offer, Negotiated
<1>3. ASSUME NEW c \in Sessions, OfferRefused(c) PROVE SignalTypeOK'
  BY <1>3 DEF OfferRefused
<1>4. ASSUME NEW c \in Sessions, WriteAnswer(c) PROVE SignalTypeOK'
  BY <1>4 DEF WriteAnswer, AfterAnswer
<1>5. ASSUME NEW c \in Sessions, End(c) \/ WriteEnd(c) \/ Hangup(c) PROVE SignalTypeOK'
  BY <1>5 DEF End, WriteEnd, Hangup
<1>6. ASSUME \/ HandlerStep \/ RelayStep \/ UNCHANGED allVars
             \/ \E c \in Sessions : PauseOrResume(c)
      PROVE  SignalTypeOK'
  BY <1>6 DEF HandlerStep, RelayStep, allVars, PauseOrResume, sessionVars
<1> QED
  BY <1>1, <1>2, <1>3, <1>4, <1>5, <1>6 DEF SignalNext, SessionStep

\* A session takes up a connection only in the step that opened it.
LEMMA AnswerStep == ASSUME SInv, [SignalNext]_allVars PROVE AnswerIsAlive'
<1> USE DEF SInv
<1>1. [Next]_vars
  BY StepOfRelay
<1> SUFFICES ASSUME NEW p \in answered' \union ({reply'[c] : c \in Sessions} \ {NoPC})
             PROVE  Alive(p)'
  BY DEF AnswerIsAlive, Alive
<1>2. ASSUME p \in answered \union ({reply[c] : c \in Sessions} \ {NoPC}) PROVE Alive(p)'
  <2>1. p \in PCs /\ Alive(p)
    BY <1>2 DEF AnswerIsAlive, Alive, SignalTypeOK
  <2> QED
    BY <1>1, <2>1, AliveStays
<1>3. ASSUME NEW c \in Sessions, NEW q \in PCs, Offer(c, q) PROVE Alive(p)'
  <2>1. CASE p \in answered \union ({reply[d] : d \in Sessions} \ {NoPC})
    BY <1>2, <2>1
  <2>2. CASE p \notin answered \union ({reply[d] : d \in Sessions} \ {NoPC})
    <3>1. p = q /\ pc'[q] = "open"
      BY <1>3, <2>2 DEF Offer, Negotiated, SignalTypeOK
    <3>2. streamId[c] \in Streams
      BY <1>3 DEF Offer, SignalTypeOK
    <3>3. own'[q] = streamId[c]
      BY <1>3 DEF Offer, ConnectBroadcaster, ConnectListener, IInv, TypeOK
    <3> QED
      BY <3>1, <3>2, <3>3 DEF Alive
  <2> QED
    BY <2>1, <2>2
<1>4. ASSUME NEW c \in Sessions, WriteAnswer(c) PROVE Alive(p)'
  BY <1>2, <1>4 DEF WriteAnswer, AfterAnswer, SignalTypeOK
<1>5. ASSUME UNCHANGED <<answered, reply>> PROVE Alive(p)'
  BY <1>2, <1>5
<1>6. ASSUME NEW c \in Sessions,
             \/ \E s \in Streams : Accept(c, s)
             \/ OfferRefused(c) \/ PauseOrResume(c) \/ End(c) \/ WriteEnd(c) \/ Hangup(c)
      PROVE  UNCHANGED <<answered, reply>>
  BY <1>6 DEF Accept, OfferRefused, PauseOrResume, End, WriteEnd, Hangup, sessionVars
<1>7. ASSUME HandlerStep \/ RelayStep \/ UNCHANGED allVars
      PROVE  UNCHANGED <<answered, reply>>
  BY <1>7 DEF HandlerStep, RelayStep, allVars, sessionVars
<1> QED
  BY <1>3, <1>4, <1>5, <1>6, <1>7 DEF SignalNext, SessionStep

\* A session announces an end only after its stop, and nothing undoes a stop.
LEMMA EndStep ==
  ASSUME SInv, [SignalNext]_allVars PROVE StreamIsThere' /\ EndIsTrue'
<1> DEFINE There(c) == status[streamId[c]] # "absent" \/ streamId[c] = Unknown
           Over(c) == status[streamId[c]] = "ended" \/ streamId[c] = Unknown
<1> USE DEF SInv, SignalTypeOK
<1>1. [Next]_vars
  BY StepOfRelay
<1>2. ASSUME NEW c \in Sessions, session[c] # "new", streamId'[c] = streamId[c]
      PROVE  (There(c) => There(c)') /\ (Over(c) => Over(c)')
  BY <1>1, <1>2, MadeStays, EndedStays
<1>3. ASSUME NEW c \in Sessions, NEW s \in Streams, Accept(c, s)
      PROVE  StreamIsThere' /\ EndIsTrue'
  <2>1. session[c] = "new" /\ c \notin told /\ UNCHANGED <<status, told>> /\ There(c)'
    BY <1>3 DEF Accept, vars
  <2>2. session'[c] # "end"
        /\ \A d \in Sessions \ {c} : session'[d] = session[d] /\ streamId'[d] = streamId[d]
    BY <1>3 DEF Accept
  <2> QED
    BY <2>1, <2>2 DEF StreamIsThere, EndIsTrue
<1>4. ASSUME NEW c \in Sessions, End(c) PROVE StreamIsThere' /\ EndIsTrue'
  <2>1. session[c] = "read" /\ UNCHANGED <<streamId, told>>
        /\ session' = [session EXCEPT ![c] = "end"]
    BY <1>4 DEF End
  <2>2. Over(c)'
    <3>1. streamId[c] \in Streams /\ There(c)
      BY <2>1 DEF StreamIsThere
    <3>2. CASE StopStream(streamId[c])
      BY <2>1, <3>1, <3>2 DEF StopStream, IInv, TypeOK
    <3>3. CASE ~Connectable(streamId[c]) /\ UNCHANGED vars
      BY <2>1, <3>1, <3>3 DEF Connectable, IInv, TypeOK, Statuses, vars
    <3> QED
      BY <1>4, <3>2, <3>3 DEF End, StopOrNot
  <2>3. There(c)'
    BY <1>2, <2>1 DEF StreamIsThere
  <2>4. ASSUME NEW d \in Sessions \ {c}, session'[d] \in {"read", "answer", "end"} \/ d \in told'
        PROVE  (There(d) => There(d)') /\ (Over(d) => Over(d)')
    BY <1>2, <2>1, <2>4
  <2> HIDE DEF There, Over
  <2>5. StreamIsThere'
    <3> SUFFICES ASSUME NEW d \in Sessions, session'[d] \in {"read", "answer", "end"}
                 PROVE  There(d)'
      BY DEF StreamIsThere, There
    <3> QED
      BY <2>1, <2>3, <2>4 DEF StreamIsThere, There
  <2>6. EndIsTrue'
    <3> SUFFICES ASSUME NEW d \in Sessions, session'[d] = "end" \/ d \in told'
                 PROVE  Over(d)'
      BY DEF EndIsTrue, Over
    <3> QED
      BY <2>1, <2>2, <2>4 DEF EndIsTrue, Over
  <2> QED
    BY <2>5, <2>6
<1>5. ASSUME \A c \in Sessions : \/ session'[c] = "closed"
                                 \/ session'[c] \in {"read", "answer"}
                                    /\ session[c] \in {"read", "answer"}
                                 \/ session'[c] = session[c],
             \A c \in told' \ told : session[c] = "end",
             UNCHANGED streamId
      PROVE  StreamIsThere' /\ EndIsTrue'
  <2>1. ASSUME NEW c \in Sessions, session'[c] \in {"read", "answer", "end"}
        PROVE  There(c)'
    <3>1. session[c] \in {"read", "answer", "end"} /\ There(c)
      BY <1>5, <2>1 DEF StreamIsThere
    <3> QED
      BY <1>2, <1>5, <3>1
  <2>2. ASSUME NEW c \in Sessions, session'[c] = "end" \/ c \in told' PROVE Over(c)'
    <3>1. (session[c] = "end" \/ c \in told) /\ Over(c)
      BY <1>5, <2>2 DEF EndIsTrue
    <3>2. session[c] # "new"
      BY <3>1
    <3> QED
      BY <1>2, <1>5, <3>1, <3>2
  <2> QED
    BY <2>1, <2>2 DEF StreamIsThere, EndIsTrue
<1>6. ASSUME NEW c \in Sessions, NEW p \in PCs, Offer(c, p)
      PROVE  StreamIsThere' /\ EndIsTrue'
  BY <1>5, <1>6 DEF Offer, Negotiated
<1>7. ASSUME NEW c \in Sessions,
             OfferRefused(c) \/ WriteAnswer(c) \/ PauseOrResume(c) \/ WriteEnd(c) \/ Hangup(c)
      PROVE  StreamIsThere' /\ EndIsTrue'
  BY <1>5, <1>7 DEF OfferRefused, WriteAnswer, PauseOrResume, WriteEnd, Hangup, sessionVars
<1>8. ASSUME HandlerStep \/ RelayStep \/ UNCHANGED allVars
      PROVE  StreamIsThere' /\ EndIsTrue'
  BY <1>5, <1>8 DEF HandlerStep, RelayStep, allVars, sessionVars
<1> QED
  BY <1>3, <1>4, <1>6, <1>7, <1>8 DEF SignalNext, SessionStep

------------------------------------------------------------------------------
\* SInv holds in every state of the relay with its sessions and handlers.
THEOREM SignalInvariance == SignalSpec => []SInv
<1>1. SInv /\ [SignalNext]_allVars => SInv'
  <2> SUFFICES ASSUME SInv, [SignalNext]_allVars PROVE SInv'
    OBVIOUS
  <2>1. [Next]_vars
    BY StepOfRelay DEF SInv
  <2>2. IInv'
    BY <2>1, StepIInv DEF SInv
  <2> QED
    BY <2>2, SignalTypeStep, AnswerStep, EndStep DEF SInv
<1> QED
  BY InitSInv, <1>1, PTL DEF SignalSpec

\* Every behaviour of the composition is one of the relay: what is proved about
\* Relay holds whatever its sessions and handlers do.
THEOREM SessionsUseTheRelay == SignalSpec => Spec
<1>1. SignalInit => Init
  BY DEF SignalInit
<1>2. SInv /\ [SignalNext]_allVars => [Next]_vars
  BY StepOfRelay DEF SInv
<1> QED
  BY <1>1, <1>2, SignalInvariance, PTL DEF SignalSpec, Spec

\* Type correctness: a session has a connection to answer for exactly while it is
\* about to write the answer, and only closed sessions were told of an end.
THEOREM SessionsTypeCorrect == SignalSpec => []SignalTypeOK
BY SignalInvariance, PTL DEF SInv

\* AnswerIsAlive: the connection of an answer is open until its stream ends, though
\* the answer is written some time after the hub returned it.
THEOREM AnswersAreAlive == SignalSpec => []AnswerIsAlive
BY SignalInvariance, PTL DEF SInv

\* EndIsTrue: what an end message says is so when it is written and ever after.
THEOREM EndsAreTrue == SignalSpec => []EndIsTrue
BY SignalInvariance, PTL DEF SInv

\* With sessions and handlers too, an ended stream keeps no connection, and an open
\* connection is held by its stream or was dropped in one of the two known ways, though
\* a session that hangs up leaves all it negotiated behind.
THEOREM StreamsStayInOrder == SignalSpec => []EndedIsQuiet /\ []OpenIsAccountedFor
BY SessionsUseTheRelay, EndedStaysQuiet, OpenAccounted, PTL

\* ImplementsService: what sessions and handlers make of the relay, whatever they do
\* between a hub call and its reply, is a stream service.
THEOREM SessionsImplementService == SignalSpec => ImplementsService
BY SessionsUseTheRelay, RelayImplementsService, PTL

\* So whatever sessions and handlers do, a listener is in one stream at most, and one
\* that left or was dropped does not come back.
THEOREM SessionsKeepThePromise ==
  SignalSpec => []Promise!SeatedOnce /\ Promise!NoWayBack
BY SessionsUseTheRelay, RelayKeepsItsPromise, PTL
==============================================================================

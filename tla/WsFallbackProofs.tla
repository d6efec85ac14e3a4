--------------------------- MODULE WsFallbackProofs ---------------------------
(***************************************************************************)
(* Proofs about WsFallback, for any connections, channel capacities and    *)
(* number of frames.                                                       *)
(***************************************************************************)
EXTENDS WsFallback, SequenceTheorems, TLAPS

Distinct(s) == \A i, j \in DOMAIN s : s[i] = s[j] => i = j

\* The channel holds the end of what was accepted; run fans out what it took last.
Queue ==
  /\ Len(broadcast) <= Len(accepted)
  /\ \A i \in 1 .. Len(broadcast) : broadcast[i] = accepted[Taken + i]
  /\ run = "write" => Taken >= 1 /\ frame = accepted[Taken]

\* A connection is registered once.  Until then it is no listener and was written
\* nothing.
RegisteredOnce ==
  /\ Distinct(register)
  /\ \A c \in Conns :
       /\ serve[c] \in {"idle", "registering"} => c \notin ToSet(register)
       /\ serve[c] \in {"idle", "registering"} \/ c \in ToSet(register) =>
            c \notin listeners /\ received[c] = <<>>

\* What a connection received ends with the k-th accepted frame.
Window(c, f) == \A i \in 1 .. Len(received[c]) : received[c][i] = accepted[f + i]
Fed(c, k) == \E f \in Nat : f + Len(received[c]) = k /\ Window(c, f)

\* A listener was written the frame under way or is still to be written it.
UpToDate ==
  /\ todo \intersect dead = {}
  /\ \A c \in Conns : \E k \in 0 .. Taken : Fed(c, k)
  /\ \A c \in listeners \ dead : Fed(c, IF c \in todo THEN Taken - 1 ELSE Taken)

IInv == TypeOK /\ OpenIsServed /\ ReturnedIsClosed /\ Queue /\ RegisteredOnce /\ UpToDate

------------------------------------------------------------------------------
(* The operators on channels. *)

LEMMA AppendFacts ==
  ASSUME NEW S, NEW s \in Seq(S), NEW x \in S
  PROVE  /\ Append(s, x) \in Seq(S) /\ Len(Append(s, x)) = Len(s) + 1
         /\ Len(s) \in Nat
         /\ \A i \in 1 .. Len(s) : Append(s, x)[i] = s[i]
         /\ Append(s, x)[Len(s) + 1] = x
         /\ ToSet(Append(s, x)) = ToSet(s) \union {x}
         /\ Distinct(s) /\ x \notin ToSet(s) => Distinct(Append(s, x))
<1>1. /\ Append(s, x) \in Seq(S) /\ Len(Append(s, x)) = Len(s) + 1
      /\ \A i \in 1 .. Len(s) : Append(s, x)[i] = s[i]
      /\ Append(s, x)[Len(s) + 1] = x
  BY AppendProperties
<1>2. /\ Len(s) \in Nat /\ DOMAIN s = 1 .. Len(s)
      /\ DOMAIN Append(s, x) = 1 .. Len(s) + 1
  BY <1>1, LenProperties
<1>3. ToSet(Append(s, x)) = ToSet(s) \union {x}
  <2>1. ASSUME NEW i \in 1 .. Len(s) + 1 PROVE Append(s, x)[i] \in ToSet(s) \union {x}
    BY <1>1, <1>2 DEF ToSet
  <2>2. ASSUME NEW y \in ToSet(s) \union {x} PROVE \E i \in 1 .. Len(s) + 1 : y = Append(s, x)[i]
    <3>1. CASE y = x
      BY <1>1, <1>2, <3>1
    <3>2. CASE y \in ToSet(s)
      BY <1>1, <1>2, <3>2 DEF ToSet
    <3> QED
      BY <2>2, <3>1, <3>2
  <2> QED
    BY <1>2, <2>1, <2>2 DEF ToSet
<1>4. Distinct(s) /\ x \notin ToSet(s) => Distinct(Append(s, x))
  BY <1>1, <1>2 DEF Distinct, ToSet
<1> QED
  BY <1>1, <1>2, <1>3, <1>4

LEMMA TailFacts ==
  ASSUME NEW S, NEW s \in Seq(S), s # <<>>
  PROVE  /\ Head(s) \in S /\ Head(s) = s[1]
         /\ Tail(s) \in Seq(S) /\ Len(Tail(s)) = Len(s) - 1 /\ Len(s) \in Nat \ {0}
         /\ \A i \in 1 .. Len(s) - 1 : Tail(s)[i] = s[i + 1]
         /\ ToSet(s) = {Head(s)} \union ToSet(Tail(s))
         /\ Distinct(s) => Distinct(Tail(s)) /\ Head(s) \notin ToSet(Tail(s))
<1>1. /\ Head(s) \in S /\ Tail(s) \in Seq(S) /\ Len(Tail(s)) = Len(s) - 1
      /\ \A i \in 1 .. Len(s) - 1 : Tail(s)[i] = s[i + 1]
  BY HeadTailProperties
<1>2. Len(s) \in Nat \ {0} /\ DOMAIN s = 1 .. Len(s) /\ DOMAIN Tail(s) = 1 .. Len(s) - 1
  BY <1>1, EmptySeq, LenProperties
<1>3. Head(s) = s[1]
  BY <1>2
<1>4. ToSet(s) = {Head(s)} \union ToSet(Tail(s))
  <2>1. ASSUME NEW i \in 1 .. Len(s) PROVE s[i] \in {Head(s)} \union ToSet(Tail(s))
    <3>1. CASE i = 1
      BY <1>3, <3>1
    <3>2. CASE i # 1
      <4>1. i - 1 \in 1 .. Len(s) - 1 /\ Tail(s)[i - 1] = s[i]
        BY <1>1, <1>2, <3>2
      <4> QED
        BY <1>2, <4>1 DEF ToSet
    <3> QED
      BY <3>1, <3>2
  <2>2. ASSUME NEW i \in 1 .. Len(s) - 1 PROVE Tail(s)[i] \in ToSet(s)
    BY <1>1, <1>2 DEF ToSet
  <2>3. Head(s) \in ToSet(s)
    BY <1>2, <1>3 DEF ToSet
  <2> QED
    BY <1>2, <2>1, <2>2, <2>3 DEF ToSet
<1>5. Distinct(s) => Distinct(Tail(s)) /\ Head(s) \notin ToSet(Tail(s))
  BY <1>1, <1>2, <1>3 DEF Distinct, ToSet
<1> QED
  BY <1>1, <1>2, <1>3, <1>4, <1>5

LEMMA Capacities ==
  /\ BroadcastCap \in Nat /\ RegisterCap \in Nat /\ MaxFrames \in Nat
  /\ BroadcastCap > 0 /\ RegisterCap > 0 /\ MaxFrames > 0
BY CapAssumption

------------------------------------------------------------------------------
(* Types. *)

LEMMA TypeStep == ASSUME TypeOK, [Next]_vars PROVE TypeOK'
<1> USE Capacities DEF TypeOK, serveVars, fanVars
<1>1. ASSUME NEW c \in Conns, Accept(c) \/ ReadError(c) \/ Disconnect(c) PROVE TypeOK'
  BY <1>1 DEF Accept, ReadError, Disconnect
<1>2. ASSUME NEW c \in Conns, Register(c) PROVE TypeOK'
  <2>1. Append(register, c) \in Seq(Conns) /\ Len(Append(register, c)) <= RegisterCap
    BY <1>2, AppendFacts DEF Register
  <2> QED
    BY <1>2, <2>1 DEF Register
<1>3. ASSUME NEW c \in Conns, Unregister(c) PROVE TypeOK'
  <2>1. Append(unregister, c) \in Seq(Conns) /\ Len(Append(unregister, c)) <= RegisterCap
    BY <1>3, AppendFacts DEF Unregister
  <2> QED
    BY <1>3, <2>1 DEF Unregister
<1>4. CASE Broadcast
  <2>1. sent + 1 \in Frames /\ sent + 1 \in 0 .. MaxFrames
    BY <1>4 DEF Broadcast, Frames
  <2>2. /\ Append(broadcast, sent + 1) \in Seq(Frames)
        /\ Append(accepted, sent + 1) \in Seq(Frames)
        /\ Len(Append(broadcast, sent + 1)) = Len(broadcast) + 1 /\ Len(broadcast) \in Nat
    BY <2>1, AppendFacts
  <2> QED
    BY <1>4, <2>1, <2>2 DEF Broadcast, Queued
<1>5. CASE Stop \/ SeeDone
  BY <1>5 DEF Stop, SeeDone
<1>6. CASE TakeRegister
  <2>1. /\ Head(register) \in Conns /\ Tail(register) \in Seq(Conns)
        /\ Len(Tail(register)) = Len(register) - 1 /\ Len(register) \in Nat
    BY <1>6, TailFacts DEF TakeRegister
  <2> QED
    BY <1>6, <2>1 DEF TakeRegister
<1>7. CASE TakeUnregister
  <2>1. /\ Head(unregister) \in Conns /\ Tail(unregister) \in Seq(Conns)
        /\ Len(Tail(unregister)) = Len(unregister) - 1 /\ Len(unregister) \in Nat
    BY <1>7, TailFacts DEF TakeUnregister
  <2> QED
    BY <1>7, <2>1 DEF TakeUnregister
<1>8. CASE TakeFrame
  <2>1. /\ Head(broadcast) \in Frames /\ Tail(broadcast) \in Seq(Frames)
        /\ Len(Tail(broadcast)) = Len(broadcast) - 1 /\ Len(broadcast) \in Nat
    BY <1>8, TailFacts DEF TakeFrame
  <2> QED
    BY <1>8, <2>1 DEF TakeFrame
<1>9. ASSUME NEW c \in Conns, WriteOk(c) PROVE TypeOK'
  <2>1. run = "write" /\ frame \in Frames
    BY <1>9 DEF WriteOk
  <2>2. Append(received[c], frame) \in Seq(Frames)
    BY <2>1, AppendFacts
  <2> QED
    BY <1>9, <2>1, <2>2 DEF WriteOk
<1>10. ASSUME NEW c \in Conns, WriteFails(c) PROVE TypeOK'
  BY <1>10 DEF WriteFails
<1>11. CASE EndFanOut
  BY <1>11 DEF EndFanOut
<1>12. CASE UNCHANGED vars
  BY <1>12 DEF vars
<1> QED
  BY <1>1, <1>2, <1>3, <1>4, <1>5, <1>6, <1>7, <1>8, <1>9, <1>10, <1>11, <1>12
     DEF Next, HubStep, ServeStep

------------------------------------------------------------------------------
(* Who is served and who was closed. *)

LEMMA ServedStep ==
  ASSUME TypeOK, OpenIsServed, ReturnedIsClosed, [Next]_vars
  PROVE  OpenIsServed' /\ ReturnedIsClosed'
<1> USE DEF TypeOK, OpenIsServed, ReturnedIsClosed, serveVars, fanVars
<1>0. listeners \union ToSet(register) \subseteq Conns
  <2>1. ASSUME NEW i \in DOMAIN register PROVE register[i] \in Conns
    BY LenProperties, ElementOfSeq
  <2> QED
    BY <2>1 DEF ToSet
<1>1. ASSUME NEW c \in Conns, Accept(c) \/ ReadError(c) \/ Disconnect(c)
      PROVE  OpenIsServed' /\ ReturnedIsClosed'
  <2>1. CASE Accept(c)
    <3>1. /\ UNCHANGED <<listeners, register, unregister>>
          /\ \A d \in Conns \ {c} : conn'[d] = conn[d] /\ serve'[d] = serve[d]
          /\ \/ serve'[c] = "registering"
             \/ serve'[c] = "returned" /\ conn'[c] = "closed"
      BY <2>1 DEF Accept
    <3> QED
      BY <1>0, <3>1
  <2>2. CASE ReadError(c)
    BY <2>2 DEF ReadError
  <2>3. CASE Disconnect(c)
    BY <2>3 DEF Disconnect
  <2> QED
    BY <1>1, <2>1, <2>2, <2>3
<1>2. ASSUME NEW c \in Conns, Register(c)
      PROVE  OpenIsServed' /\ ReturnedIsClosed'
  <2>1. ToSet(register') = ToSet(register) \union {c}
    BY <1>2, AppendFacts DEF Register
  <2> QED
    BY <1>2, <2>1 DEF Register
<1>3. ASSUME NEW c \in Conns, Unregister(c)
      PROVE  OpenIsServed' /\ ReturnedIsClosed'
  <2>1. ToSet(unregister') = ToSet(unregister) \union {c}
    BY <1>3, AppendFacts DEF Unregister
  <2> QED
    BY <1>3, <2>1 DEF Unregister
<1>4. CASE TakeRegister
  <2>1. Head(register) \in Conns /\ ToSet(register) = {Head(register)} \union ToSet(register')
    BY <1>4, TailFacts DEF TakeRegister
  <2> QED
    BY <1>4, <2>1 DEF TakeRegister
<1>5. CASE TakeUnregister
  <2>1. /\ Head(unregister) \in Conns
        /\ ToSet(unregister) = {Head(unregister)} \union ToSet(unregister')
    BY <1>5, TailFacts DEF TakeUnregister
  <2> QED
    BY <1>5, <2>1 DEF TakeUnregister
<1>6. CASE Broadcast \/ Stop \/ SeeDone \/ TakeFrame
  BY <1>6 DEF Broadcast, Stop, SeeDone, TakeFrame
<1>7. ASSUME NEW c \in Conns, WriteOk(c) \/ WriteFails(c)
      PROVE  OpenIsServed' /\ ReturnedIsClosed'
  BY <1>7 DEF WriteOk, WriteFails
<1>8. CASE EndFanOut
  <2>1. /\ listeners' = listeners \ dead /\ UNCHANGED <<serve, register, unregister>>
        /\ \A c \in Conns : conn'[c] = IF c \in dead THEN "closed" ELSE conn[c]
    BY <1>8 DEF EndFanOut
  <2>2. OpenIsServed'
    BY <2>1
  <2>3. ReturnedIsClosed'
    BY <1>0, <2>1
  <2> QED
    BY <2>2, <2>3
<1>9. CASE UNCHANGED vars
  BY <1>9 DEF vars
<1> QED
  BY <1>1, <1>2, <1>3, <1>4, <1>5, <1>6, <1>7, <1>8, <1>9 DEF Next, HubStep, ServeStep

------------------------------------------------------------------------------
(* What is in the channels. *)

LEMMA QueueStep == ASSUME TypeOK, Queue, [Next]_vars PROVE Queue'
<1> USE DEF TypeOK, Queue, Taken, serveVars, fanVars
<1>0. Len(broadcast) \in Nat /\ Len(accepted) \in Nat
  BY LenProperties
<1>1. ASSUME NEW c \in Conns,
             Accept(c) \/ ReadError(c) \/ Disconnect(c) \/ Register(c) \/ Unregister(c)
               \/ WriteOk(c) \/ WriteFails(c)
      PROVE  Queue'
  BY <1>1 DEF Accept, ReadError, Disconnect, Register, Unregister, WriteOk, WriteFails
<1>2. CASE Broadcast /\ Len(broadcast) < BroadcastCap
  <2>1. sent + 1 \in Frames
    BY <1>2, Capacities DEF Broadcast, Frames
  <2>2. /\ broadcast' = Append(broadcast, sent + 1)
        /\ accepted' = Append(accepted, sent + 1)
        /\ UNCHANGED <<run, frame>>
    BY <1>2 DEF Broadcast, Queued
  <2>3. /\ Len(broadcast') = Len(broadcast) + 1 /\ Len(accepted') = Len(accepted) + 1
        /\ \A i \in 1 .. Len(broadcast) : broadcast'[i] = broadcast[i]
        /\ \A i \in 1 .. Len(accepted) : accepted'[i] = accepted[i]
        /\ broadcast'[Len(broadcast) + 1] = sent + 1
        /\ accepted'[Len(accepted) + 1] = sent + 1
    BY <2>1, <2>2, AppendFacts
  <2> HIDE DEF TypeOK
  <2>4. ASSUME NEW i \in 1 .. Len(broadcast')
        PROVE  broadcast'[i] = accepted'[Len(accepted') - Len(broadcast') + i]
    <3>1. CASE i = Len(broadcast) + 1
      BY <1>0, <2>3, <3>1
    <3>2. CASE i # Len(broadcast) + 1
      <4>1. i \in 1 .. Len(broadcast) /\ Len(accepted) - Len(broadcast) + i \in 1 .. Len(accepted)
        BY <1>0, <2>3, <3>2
      <4> QED
        BY <1>0, <2>3, <4>1
    <3> QED
      BY <3>1, <3>2
  <2>5. run' = "write" => /\ Len(accepted') - Len(broadcast') >= 1
                          /\ frame' = accepted'[Len(accepted') - Len(broadcast')]
    <3>1. Len(accepted') - Len(broadcast') = Len(accepted) - Len(broadcast)
      BY <1>0, <2>3
    <3>2. ASSUME run = "write" PROVE Len(accepted) - Len(broadcast) \in 1 .. Len(accepted)
      BY <1>0, <3>2
    <3> QED
      BY <2>2, <2>3, <3>1, <3>2
  <2>6. Len(broadcast') <= Len(accepted')
    BY <1>0, <2>3
  <2> QED
    BY <2>4, <2>5, <2>6
<1>3. CASE Broadcast /\ ~(Len(broadcast) < BroadcastCap)
  BY <1>3 DEF Broadcast, Queued
<1>4. CASE Stop \/ SeeDone \/ TakeRegister \/ TakeUnregister \/ EndFanOut
  BY <1>4 DEF Stop, SeeDone, TakeRegister, TakeUnregister, EndFanOut
<1>5. CASE TakeFrame
  <2>1. /\ broadcast' = Tail(broadcast) /\ accepted' = accepted
        /\ run' = "write" /\ frame' = Head(broadcast) /\ broadcast # <<>>
    BY <1>5 DEF TakeFrame
  <2>2. /\ Len(broadcast') = Len(broadcast) - 1 /\ Len(broadcast) > 0
        /\ \A i \in 1 .. Len(broadcast) - 1 : broadcast'[i] = broadcast[i + 1]
        /\ Head(broadcast) = broadcast[1]
    BY <2>1, TailFacts
  <2> HIDE DEF TypeOK
  <2>3. ASSUME NEW i \in 1 .. Len(broadcast')
        PROVE  broadcast'[i] = accepted'[Len(accepted') - Len(broadcast') + i]
    BY <1>0, <2>1, <2>2
  <2> QED
    BY <1>0, <2>1, <2>2, <2>3
<1>6. CASE UNCHANGED vars
  BY <1>6 DEF vars
<1> QED
  BY <1>1, <1>2, <1>3, <1>4, <1>5, <1>6 DEF Next, HubStep, ServeStep

LEMMA RegisteredStep ==
  ASSUME TypeOK, RegisteredOnce, [Next]_vars PROVE RegisteredOnce'
<1> USE DEF TypeOK, RegisteredOnce, serveVars, fanVars
<1>1. ASSUME NEW c \in Conns,
             Accept(c) \/ ReadError(c) \/ Disconnect(c) \/ Unregister(c) \/ WriteFails(c)
      PROVE  RegisteredOnce'
  BY <1>1 DEF Accept, ReadError, Disconnect, Unregister, WriteFails
<1>2. ASSUME NEW c \in Conns, Register(c) PROVE RegisteredOnce'
  <2>1. c \notin ToSet(register)
    BY <1>2 DEF Register
  <2>2. ToSet(register') = ToSet(register) \union {c} /\ Distinct(register')
    BY <1>2, <2>1, AppendFacts DEF Register
  <2> QED
    BY <1>2, <2>2 DEF Register
<1>3. ASSUME NEW c \in Conns, WriteOk(c) PROVE RegisteredOnce'
  BY <1>3 DEF WriteOk
<1>4. CASE TakeRegister
  <2>1. /\ ToSet(register) = {Head(register)} \union ToSet(register')
        /\ Distinct(register') /\ Head(register) \notin ToSet(register')
    BY <1>4, TailFacts DEF TakeRegister
  <2> QED
    BY <1>4, <2>1 DEF TakeRegister
<1>5. CASE Broadcast \/ Stop \/ SeeDone \/ TakeUnregister \/ TakeFrame \/ EndFanOut
  BY <1>5 DEF Broadcast, Stop, SeeDone, TakeUnregister, TakeFrame, EndFanOut
<1>6. CASE UNCHANGED vars
  BY <1>6 DEF vars
<1> QED
  BY <1>1, <1>2, <1>3, <1>4, <1>5, <1>6 DEF Next, HubStep, ServeStep

------------------------------------------------------------------------------
(* What the listeners received. *)

\* A step that writes to nobody and takes no frame keeps what was received; if it
\* adds a listener, that one was written nothing.
LEMMA UpToDateKept ==
  ASSUME TypeOK, TypeOK', Queue, Queue', UpToDate, received' = received, Taken' = Taken,
         \A i \in 1 .. Len(accepted) : accepted'[i] = accepted[i],
         Len(accepted') >= Len(accepted), todo' \subseteq todo, todo' \intersect dead' = {},
         \A c \in listeners' \ dead' :
           \/ c \in listeners \ dead /\ (c \in todo <=> c \in todo')
           \/ received[c] = <<>> /\ c \notin todo'
  PROVE  UpToDate'
<1>0. /\ Len(accepted) \in Nat /\ Len(accepted') \in Nat /\ Len(broadcast) \in Nat
      /\ Taken \in Nat /\ Taken <= Len(accepted)
      /\ \A c \in Conns : Len(received[c]) \in Nat
  BY LenProperties DEF TypeOK, Queue, Taken
<1>1. ASSUME NEW c \in Conns, NEW k \in Int, k <= Taken, Fed(c, k) PROVE Fed(c, k)'
  <2>1. PICK f \in Nat : f + Len(received[c]) = k /\ Window(c, f)
    BY <1>1 DEF Fed
  <2>2. ASSUME NEW i \in 1 .. Len(received[c]) PROVE received[c][i] = accepted'[f + i]
    <3>1. f + i \in 1 .. Len(accepted)
      BY <1>0, <1>1, <2>1
    <3> QED
      BY <2>1, <3>1 DEF Window
  <2> QED
    BY <2>1, <2>2 DEF Fed, Window
<1>2. ASSUME NEW c \in Conns PROVE \E k \in 0 .. Taken' : Fed(c, k)'
  <2>1. PICK k \in 0 .. Taken : Fed(c, k)
    BY DEF UpToDate
  <2> QED
    BY <1>0, <1>1, <2>1
<1>3. ASSUME NEW c \in listeners' \ dead'
      PROVE  Fed(c, IF c \in todo THEN Taken - 1 ELSE Taken)'
  <2>1. c \in Conns
    BY DEF TypeOK
  <2>2. CASE c \in listeners \ dead /\ (c \in todo <=> c \in todo')
    <3>1. Fed(c, IF c \in todo THEN Taken - 1 ELSE Taken)
      BY <2>2 DEF UpToDate
    <3>2. CASE c \in todo
      <4>1. Fed(c, Taken - 1)'
        BY <1>0, <1>1, <2>1, <3>1, <3>2
      <4> QED
        BY <2>2, <3>2, <4>1
    <3>3. CASE c \notin todo
      <4>1. Fed(c, Taken)'
        BY <1>0, <1>1, <2>1, <3>1, <3>3
      <4> QED
        BY <2>2, <3>3, <4>1
    <3> QED
      BY <3>2, <3>3
  <2>3. CASE received[c] = <<>> /\ c \notin todo'
    <3>1. Len(received'[c]) = 0 /\ Taken' \in Nat
      BY <1>0, <2>3, EmptySeq
    <3>2. Fed(c, Taken)'
      BY <3>1 DEF Fed, Window
    <3> QED
      BY <2>3, <3>2
  <2> QED
    BY <2>2, <2>3
<1> QED
  BY <1>2, <1>3 DEF UpToDate

LEMMA UpToDateStep ==
  ASSUME TypeOK, TypeOK', Queue, Queue', RegisteredOnce, UpToDate, [Next]_vars
  PROVE  UpToDate'
<1>0. /\ Len(accepted) \in Nat /\ Len(broadcast) \in Nat /\ Taken \in Nat
      /\ Taken <= Len(accepted) /\ \A c \in Conns : Len(received[c]) \in Nat
  BY LenProperties DEF TypeOK, Queue, Taken
<1>00. todo \intersect dead = {}
  BY DEF UpToDate
<1> USE DEF serveVars, fanVars
<1>1. ASSUME NEW c \in Conns,
             Accept(c) \/ ReadError(c) \/ Disconnect(c) \/ Register(c) \/ Unregister(c)
      PROVE  UpToDate'
  <2>1. UNCHANGED <<broadcast, accepted, received, listeners, todo, dead>>
    BY <1>1 DEF Accept, ReadError, Disconnect, Register, Unregister
  <2> QED
    BY <1>0, <1>00, <2>1, UpToDateKept DEF Taken
<1>2. CASE Stop \/ SeeDone \/ UNCHANGED vars
  <2>1. UNCHANGED <<broadcast, accepted, received, listeners, todo, dead>>
    BY <1>2 DEF Stop, SeeDone, vars
  <2> QED
    BY <1>0, <1>00, <2>1, UpToDateKept DEF Taken
<1>3. CASE TakeUnregister
  <2>1. /\ UNCHANGED <<broadcast, accepted, received, todo, dead>>
        /\ listeners' \subseteq listeners
    BY <1>3 DEF TakeUnregister
  <2> QED
    BY <1>0, <1>00, <2>1, UpToDateKept DEF Taken
<1>4. CASE TakeRegister
  <2>1. /\ UNCHANGED <<broadcast, accepted, received, todo, dead>>
        /\ listeners' = listeners \union {Head(register)}
        /\ todo \subseteq listeners
    BY <1>4 DEF TakeRegister, TypeOK
  <2>2. /\ Head(register) \in Conns /\ received[Head(register)] = <<>>
        /\ Head(register) \notin listeners
    BY <1>4, TailFacts DEF TakeRegister, TypeOK, RegisteredOnce
  <2> QED
    BY <1>0, <1>00, <2>1, <2>2, UpToDateKept DEF Taken
<1>5. CASE EndFanOut
  <2>1. /\ UNCHANGED <<broadcast, accepted, received, todo>>
        /\ listeners' = listeners \ dead /\ dead' = {} /\ todo = {}
    BY <1>5 DEF EndFanOut, TypeOK
  <2> QED
    BY <1>0, <1>00, <2>1, UpToDateKept DEF Taken
<1>6. CASE Broadcast
  <2>1. UNCHANGED <<received, listeners, todo, dead>>
    BY <1>6 DEF Broadcast
  <2>2. /\ Taken' = Taken /\ Len(accepted') >= Len(accepted)
        /\ \A i \in 1 .. Len(accepted) : accepted'[i] = accepted[i]
    <3>1. CASE Len(broadcast) < BroadcastCap
      <4>1. sent + 1 \in Frames
        BY <1>6, Capacities DEF Broadcast, Frames, TypeOK
      <4>2. /\ Len(accepted') = Len(accepted) + 1 /\ Len(broadcast') = Len(broadcast) + 1
            /\ \A i \in 1 .. Len(accepted) : accepted'[i] = accepted[i]
        BY <1>6, <3>1, <4>1, AppendFacts DEF Broadcast, Queued, TypeOK
      <4> QED
        BY <1>0, <4>2 DEF Taken
    <3>2. CASE ~(Len(broadcast) < BroadcastCap)
      BY <1>0, <1>6, <3>2 DEF Broadcast, Queued, Taken
    <3> QED
      BY <3>1, <3>2
  <2> QED
    BY <1>00, <2>1, <2>2, UpToDateKept
<1>7. CASE TakeFrame
  <2>1. /\ UNCHANGED <<accepted, received, listeners, dead>>
        /\ todo' = listeners /\ broadcast' = Tail(broadcast)
        /\ todo = {} /\ dead = {}
    BY <1>7 DEF TakeFrame, TypeOK
  <2>2. Taken' = Taken + 1
    <3>1. Len(broadcast') = Len(broadcast) - 1
      BY <1>7, <2>1, TailFacts DEF TakeFrame, TypeOK
    <3>2. Len(accepted') = Len(accepted)
      BY <2>1
    <3>3. Taken' = Len(accepted) - (Len(broadcast) - 1)
      BY <3>1, <3>2 DEF Taken
    <3> QED
      BY <1>0, <3>3 DEF Taken
  <2>3. ASSUME NEW c \in Conns, NEW k \in Int, Fed(c, k) PROVE Fed(c, k)'
    BY <2>1, <2>3 DEF Fed, Window
  <2>4. ASSUME NEW c \in Conns PROVE \E k \in 0 .. Taken' : Fed(c, k)'
    <3>1. PICK k \in 0 .. Taken : Fed(c, k)
      BY DEF UpToDate
    <3> QED
      BY <1>0, <2>2, <2>3, <3>1
  <2>5. ASSUME NEW c \in listeners PROVE Fed(c, Taken - 1)'
    <3>1. c \in Conns
      BY DEF TypeOK
    <3>2. Fed(c, Taken)
      BY <2>1 DEF UpToDate
    <3>3. Taken = Taken' - 1
      BY <1>0, <2>2
    <3> QED
      BY <1>0, <2>3, <3>1, <3>2, <3>3
  <2> QED
    BY <2>1, <2>4, <2>5 DEF UpToDate
<1>8. ASSUME NEW c \in Conns, WriteFails(c) PROVE UpToDate'
  <2>1. /\ UNCHANGED <<broadcast, accepted, received, listeners>>
        /\ todo' = todo \ {c} /\ dead' = dead \union {c}
    BY <1>8 DEF WriteFails
  <2> QED
    BY <1>0, <1>00, <2>1, UpToDateKept DEF Taken
<1>9. ASSUME NEW c \in Conns, WriteOk(c) PROVE UpToDate'
  <2>1. /\ UNCHANGED <<broadcast, accepted, listeners, dead>>
        /\ c \in todo /\ todo' = todo \ {c} /\ Taken' = Taken
        /\ received' = [received EXCEPT ![c] = Append(@, frame)]
    BY <1>9 DEF WriteOk, Taken
  <2>2. c \in Conns /\ c \in listeners \ dead /\ run = "write"
    BY <1>00, <2>1 DEF TypeOK
  <2>3. Fed(c, Taken - 1) /\ Taken >= 1 /\ frame = accepted[Taken] /\ frame \in Frames
    BY <2>1, <2>2 DEF UpToDate, Queue, TypeOK
  <2>4. Fed(c, Taken)'
    <3>1. PICK f \in Nat : f + Len(received[c]) = Taken - 1 /\ Window(c, f)
      BY <2>3 DEF Fed
    <3>2. /\ Len(received'[c]) = Len(received[c]) + 1
          /\ \A i \in 1 .. Len(received[c]) : received'[c][i] = received[c][i]
          /\ received'[c][Len(received[c]) + 1] = accepted[Taken]
      <4>1. received'[c] = Append(received[c], frame) /\ received[c] \in Seq(Frames)
        BY <2>1, <2>2 DEF TypeOK
      <4> QED
        BY <2>3, <4>1, AppendFacts
    <3>3. f + Len(received'[c]) = Taken'
      BY <1>0, <2>1, <2>2, <2>3, <3>1, <3>2
    <3>4. ASSUME NEW i \in 1 .. Len(received'[c]) PROVE received'[c][i] = accepted'[f + i]
      <4>1. CASE i = Len(received[c]) + 1
        <5>1. f + i = Taken
          BY <1>0, <2>2, <3>1, <4>1
        <5> QED
          BY <2>1, <3>2, <4>1, <5>1
      <4>2. CASE i # Len(received[c]) + 1
        <5>1. i \in 1 .. Len(received[c])
          BY <1>0, <2>2, <3>2, <4>2
        <5> QED
          BY <2>1, <3>1, <3>2, <5>1 DEF Window
      <4> QED
        BY <4>1, <4>2
    <3> QED
      BY <3>3, <3>4 DEF Fed, Window
  <2>5. ASSUME NEW d \in Conns \ {c}, NEW k \in Int, Fed(d, k) PROVE Fed(d, k)'
    <3>1. received'[d] = received[d] /\ accepted' = accepted
      BY <2>1 DEF TypeOK
    <3> QED
      BY <2>5, <3>1 DEF Fed, Window
  <2>6. ASSUME NEW d \in Conns PROVE \E k \in 0 .. Taken' : Fed(d, k)'
    <3>1. CASE d = c
      BY <1>0, <2>1, <2>4, <3>1
    <3>2. CASE d # c
      <4>1. PICK k \in 0 .. Taken : Fed(d, k)
        BY DEF UpToDate
      <4> QED
        BY <1>0, <2>1, <2>5, <3>2, <4>1
    <3> QED
      BY <3>1, <3>2
  <2>7. ASSUME NEW d \in listeners \ dead
        PROVE  Fed(d, IF d \in todo THEN Taken - 1 ELSE Taken)'
    <3>0. d \in Conns
      BY DEF TypeOK
    <3>1. CASE d = c
      BY <2>1, <2>4, <3>1
    <3>2. CASE d # c /\ d \in todo
      <4>1. Fed(d, Taken - 1)
        BY <3>2 DEF UpToDate
      <4>2. Fed(d, Taken - 1)'
        BY <1>0, <2>1, <2>5, <3>0, <3>2, <4>1
      <4> QED
        BY <2>1, <3>2, <4>2
    <3>3. CASE d # c /\ d \notin todo
      <4>1. Fed(d, Taken)
        BY <3>3 DEF UpToDate
      <4>2. Fed(d, Taken)'
        BY <1>0, <2>1, <2>5, <3>0, <3>3, <4>1
      <4> QED
        BY <2>1, <3>3, <4>2
    <3> QED
      BY <3>1, <3>2, <3>3
  <2> QED
    BY <1>00, <2>1, <2>6, <2>7 DEF UpToDate
<1> QED
  BY <1>1, <1>2, <1>3, <1>4, <1>5, <1>6, <1>7, <1>8, <1>9 DEF Next, HubStep, ServeStep

LEMMA FedInOrder == ASSUME TypeOK, Queue, UpToDate PROVE DeliveredInOrder
<1>0. /\ Len(accepted) \in Nat /\ Len(broadcast) \in Nat /\ Taken <= Len(accepted)
      /\ Taken \in Nat
  BY LenProperties DEF TypeOK, Queue, Taken
<1> SUFFICES ASSUME NEW c \in Conns
             PROVE  \E from \in 1 .. Len(accepted) + 1 - Len(received[c]) :
                      received[c] = SubSeq(accepted, from, from + Len(received[c]) - 1)
  BY DEF DeliveredInOrder
<1> DEFINE n == Len(received[c])
<1>1. n \in Nat /\ received[c] \in Seq(Frames)
  BY LenProperties DEF TypeOK
<1>2. PICK k \in 0 .. Taken : Fed(c, k)
  BY DEF UpToDate
<1>3. PICK f \in Nat : f + n = k /\ Window(c, f)
  BY <1>2 DEF Fed
<1> DEFINE piece == SubSeq(accepted, f + 1, f + n)
<1>4. \A i \in f + 1 .. f + n : accepted[i] \in Frames
  BY <1>0, <1>1, <1>2, <1>3 DEF TypeOK
<1>5. /\ piece \in Seq(Frames)
      /\ Len(piece) = n
      /\ \A i \in 1 .. n : piece[i] = accepted[f + i]
  <2>1. /\ piece \in Seq(Frames)
        /\ Len(piece) = IF f + 1 <= f + n THEN (f + n) - (f + 1) + 1 ELSE 0
        /\ \A i \in 1 .. (f + n) - (f + 1) + 1 : piece[i] = accepted[(f + 1) + i - 1]
    <3> HIDE DEF n
    <3>1. f + 1 \in Int /\ f + n \in Int
      BY <1>1, <1>3
    <3> QED
      BY <1>4, <3>1, SubSeqProperties
  <2> HIDE DEF n, piece
  <2>2. (f + n) - (f + 1) + 1 = n /\ \A i \in 1 .. n : (f + 1) + i - 1 = f + i
    BY <1>1, <1>3
  <2> QED
    BY <1>1, <1>3, <2>1, <2>2
<1>6. received[c] = piece
  <2>1. \A i \in 1 .. Len(received[c]) : received[c][i] = piece[i]
    BY <1>3, <1>5 DEF Window
  <2> HIDE DEF piece
  <2> QED
    BY <1>1, <1>5, <2>1, SeqEqual
<1>7. f + 1 \in 1 .. Len(accepted) + 1 - n /\ f + n = (f + 1) + n - 1
  <2> HIDE DEF n
  <2> QED
    BY <1>0, <1>1, <1>2, <1>3
<1> QED
  BY <1>6, <1>7

------------------------------------------------------------------------------
LEMMA InitIInv == Init => IInv
<1> SUFFICES ASSUME Init PROVE IInv
  OBVIOUS
<1>1. /\ register = <<>> /\ unregister = <<>> /\ broadcast = <<>> /\ accepted = <<>>
      /\ \A c \in Conns : received[c] = <<>> /\ serve[c] = "idle"
      /\ listeners = {} /\ todo = {} /\ dead = {} /\ run = "select"
  BY DEF Init
<1>2. Len(<<>>) = 0 /\ DOMAIN <<>> = {}
  BY EmptySeq
<1>3. ToSet(<<>>) = {} /\ Distinct(<<>>)
  BY <1>2 DEF ToSet, Distinct
<1>4. TypeOK
  <2>1. <<>> \in Seq(Conns) /\ <<>> \in Seq(Frames) /\ 0 <= RegisterCap /\ 0 <= BroadcastCap
        /\ 0 \in 0 .. MaxFrames
    BY Capacities
  <2>2. received \in [Conns -> Seq(Frames)] /\ accepted \in Seq(Frames)
    BY <2>1 DEF Init
  <2>3. /\ register \in Seq(Conns) /\ Len(register) <= RegisterCap
        /\ unregister \in Seq(Conns) /\ Len(unregister) <= RegisterCap
        /\ broadcast \in Seq(Frames) /\ Len(broadcast) <= BroadcastCap
    BY <1>1, <1>2, <2>1
  <2>4. /\ conn \in [Conns -> {"new", "open", "gone", "closed"}]
        /\ serve \in [Conns -> {"idle", "registering", "reading", "unregistering", "returned"}]
        /\ run \in {"select", "write", "returned"}
        /\ frame \in (IF run = "write" THEN Frames ELSE {0}) /\ sent \in 0 .. MaxFrames
    BY <2>1 DEF Init
  <2> QED
    BY <1>1, <2>2, <2>3, <2>4 DEF Init, TypeOK
<1>5. OpenIsServed /\ ReturnedIsClosed
  BY <1>1, <1>3 DEF OpenIsServed, ReturnedIsClosed
<1>6. Queue
  BY <1>1, <1>2 DEF Queue, Taken
<1>7. RegisteredOnce
  BY <1>1, <1>3 DEF RegisteredOnce
<1>8. UpToDate
  <2>1. Taken = 0
    BY <1>1, <1>2 DEF Taken
  <2>2. \A c \in Conns : Fed(c, 0)
    BY <1>1, <1>2 DEF Fed, Window
  <2> QED
    BY <1>1, <2>1, <2>2 DEF UpToDate
<1> QED
  BY <1>4, <1>5, <1>6, <1>7, <1>8 DEF IInv

LEMMA Invariance == Spec => []IInv
<1>1. IInv /\ [Next]_vars => IInv'
  <2> SUFFICES ASSUME IInv, [Next]_vars PROVE IInv'
    OBVIOUS
  <2>1. TypeOK' /\ OpenIsServed' /\ ReturnedIsClosed'
    BY TypeStep, ServedStep DEF IInv
  <2>2. Queue' /\ RegisteredOnce'
    BY QueueStep, RegisteredStep DEF IInv
  <2>3. UpToDate'
    BY <2>1, <2>2, UpToDateStep DEF IInv
  <2> QED
    BY <2>1, <2>2, <2>3 DEF IInv
<1> QED
  BY InitIInv, <1>1, PTL DEF Spec

\* Type correctness: the channels keep to their capacities, and the fan-out to the
\* listeners of the map.
THEOREM TypeCorrect == Spec => []TypeOK
BY Invariance, PTL DEF IInv

\* A registered listener whose connection works is in the map, for any interleaving
\* of joins, departures, failures and frames.
THEOREM OpenConnectionsAreServed == Spec => []OpenIsServed
BY Invariance, PTL DEF IInv

\* ReturnedIsClosed: the hub closes the connection of every handler that returned,
\* in whatever order its registration and unregistration are taken.
THEOREM ReturnedAreClosed == Spec => []ReturnedIsClosed
BY Invariance, PTL DEF IInv

\* Every listener receives a contiguous run of the frames the hub accepted.
THEOREM FramesInOrder == Spec => []DeliveredInOrder
<1>1. IInv => DeliveredInOrder
  BY FedInOrder DEF IInv
<1> QED
  BY Invariance, <1>1, PTL

------------------------------------------------------------------------------
(* The hub implements FrameFeed. *)

\* the identities that never joined, and the members
Fresh == {c \in Conns : serve[c] \in {"idle", "registering"} \/ c \in ToSet(register)}
Members == listeners \ dead

\* What the feed knows of a step that moves only handlers, channels to the hub and
\* connections.
LEMMA HandlerRefines ==
  ASSUME TypeOK, RegisteredOnce, NEW c \in Conns,
         Accept(c) \/ ReadError(c) \/ Disconnect(c) \/ Register(c) \/ Unregister(c)
  PROVE  Feed!Next \/ UNCHANGED Feed!vars
<1> USE DEF TypeOK, serveVars, fanVars
<1>1. UNCHANGED <<accepted, broadcast, listeners, dead, todo, received>>
  BY DEF Accept, ReadError, Disconnect, Register, Unregister
<1>2. ASSUME Fresh' = Fresh PROVE UNCHANGED Feed!vars
  BY <1>1, <1>2 DEF Feed!vars, Taken, Fresh
<1>3. CASE Accept(c)
  <2>1. CASE serve'[c] = "registering"
    <3>1. Fresh' = Fresh
      BY <1>3, <2>1 DEF Accept, Fresh
    <3> QED
      BY <1>2, <3>1
  <2>2. CASE serve'[c] = "returned"
    <3>1. Fresh' = Fresh \ {c}
      BY <1>3, <2>2 DEF Accept, Fresh, RegisteredOnce
    <3>2. Feed!Spoil(c)
      BY <1>1, <3>1 DEF Feed!Spoil, Taken, Fresh
    <3> QED
      BY <3>2 DEF Feed!Next
  <2> QED
    BY <1>3, <2>1, <2>2 DEF Accept
<1>4. CASE Register(c)
  <2>1. ToSet(register') = ToSet(register) \union {c}
    BY <1>4, AppendFacts DEF Register
  <2>2. Fresh' = Fresh
    BY <1>4, <2>1 DEF Register, Fresh
  <2> QED
    BY <1>2, <2>2
<1>5. CASE ReadError(c) \/ Unregister(c) \/ Disconnect(c)
  <2>1. Fresh' = Fresh
    BY <1>5 DEF ReadError, Unregister, Disconnect, Fresh
  <2> QED
    BY <1>2, <2>1
<1> QED
  BY <1>3, <1>4, <1>5

\* A taken registration is a joining, a failed Write and a taken unregistration of a
\* listener are leavings, and what follows a fan-out changes nothing.
LEMMA FeedStep ==
  ASSUME TypeOK, Queue, RegisteredOnce, UpToDate, [Next]_vars
  PROVE  Feed!Next \/ UNCHANGED Feed!vars
<1>0. Len(accepted) \in Nat /\ Len(broadcast) \in Nat
  BY LenProperties DEF TypeOK
<1> USE DEF TypeOK, serveVars, fanVars
<1>1. ASSUME UNCHANGED <<accepted, broadcast, received, todo>>,
             Members' = Members, Fresh' = Fresh
      PROVE  UNCHANGED Feed!vars
  BY <1>1 DEF Feed!vars, Taken, Members, Fresh
<1>2. CASE Broadcast /\ Len(broadcast) < BroadcastCap
  <2>1. sent + 1 \in Frames
    BY <1>2, Capacities DEF Broadcast, Frames
  <2>2. /\ broadcast' = Append(broadcast, sent + 1) /\ accepted' = Append(accepted, sent + 1)
        /\ UNCHANGED <<listeners, dead, todo, received, serve, register>>
    BY <1>2 DEF Broadcast, Queued
  <2>3. Taken' = Taken
    <3>1. Len(broadcast') = Len(broadcast) + 1 /\ Len(accepted') = Len(accepted) + 1
      BY <2>1, <2>2, AppendFacts
    <3> HIDE DEF TypeOK
    <3> QED
      BY <1>0, <3>1 DEF Taken
  <2>4. Feed!Publish(sent + 1)
    BY <2>2, <2>3 DEF Feed!Publish
  <2> QED
    BY <2>1, <2>4 DEF Feed!Next
<1>3. CASE Broadcast /\ ~(Len(broadcast) < BroadcastCap)
  BY <1>1, <1>3 DEF Broadcast, Queued, Members, Fresh
<1>4. CASE Stop \/ SeeDone \/ UNCHANGED vars
  BY <1>1, <1>4 DEF Stop, SeeDone, vars, Members, Fresh
<1>5. CASE TakeRegister
  <2>1. PICK c \in Conns :
          /\ c = Head(register)
          /\ ToSet(register) = {c} \union ToSet(register')
          /\ c \notin ToSet(register')
    BY <1>5, TailFacts DEF TakeRegister, RegisteredOnce
  <2>2. /\ listeners' = listeners \union {c} /\ dead = {} /\ dead' = {}
        /\ UNCHANGED <<accepted, broadcast, received, todo, serve>>
    BY <1>5, <2>1 DEF TakeRegister
  <2>3. c \in Fresh /\ Fresh' = Fresh \ {c}
    BY <2>1, <2>2 DEF Fresh, RegisteredOnce
  <2>4. Feed!Join(c)
    BY <2>2, <2>3 DEF Feed!Join, Taken, Fresh
  <2> QED
    BY <2>4 DEF Feed!Next
<1>6. CASE TakeUnregister
  <2>1. Head(unregister) \in Conns
    BY <1>6, TailFacts DEF TakeUnregister
  <2>2. /\ listeners' = listeners \ {Head(unregister)}
        /\ todo = {} /\ dead = {} /\ dead' = {}
        /\ UNCHANGED <<accepted, broadcast, received, todo, serve, register>>
    BY <1>6 DEF TakeUnregister
  <2>3. CASE Head(unregister) \in listeners
    <3>1. Feed!Leave(Head(unregister))
      BY <2>2, <2>3 DEF Feed!Leave, Taken
    <3> QED
      BY <2>1, <3>1 DEF Feed!Next
  <2>4. CASE Head(unregister) \notin listeners
    BY <1>1, <2>2, <2>4 DEF Members, Fresh
  <2> QED
    BY <2>3, <2>4
<1>7. CASE TakeFrame
  <2>1. /\ todo = {} /\ dead = {} /\ todo' = listeners
        /\ broadcast' = Tail(broadcast) /\ broadcast # <<>>
        /\ UNCHANGED <<accepted, received, listeners, dead, serve, register>>
    BY <1>7 DEF TakeFrame
  <2>2. Len(Tail(broadcast)) = Len(broadcast) - 1 /\ Len(broadcast) > 0
    BY <2>1, TailFacts
  <2>3. Taken' = Taken + 1 /\ Taken < Len(accepted)
    <3> HIDE DEF TypeOK
    <3> QED
      BY <1>0, <2>1, <2>2 DEF Taken
  <2>4. Feed!NextFrame
    BY <2>1, <2>3 DEF Feed!NextFrame
  <2> QED
    BY <2>4 DEF Feed!Next
<1>8. ASSUME NEW c \in Conns, WriteOk(c) PROVE Feed!Next
  <2>1. /\ c \in todo /\ todo' = todo \ {c} /\ run = "write"
        /\ received' = [received EXCEPT ![c] = Append(@, frame)]
        /\ UNCHANGED <<accepted, broadcast, listeners, dead, serve, register>>
    BY <1>8 DEF WriteOk
  <2>2. frame = accepted[Taken]
    BY <2>1 DEF Queue
  <2>3. Feed!Deliver(c)
    BY <2>1, <2>2 DEF Feed!Deliver, Taken
  <2> QED
    BY <2>3 DEF Feed!Next
<1>9. ASSUME NEW c \in Conns, WriteFails(c) PROVE Feed!Next
  <2>1. /\ c \in todo /\ todo' = todo \ {c} /\ dead' = dead \union {c}
        /\ UNCHANGED <<accepted, broadcast, received, listeners, serve, register>>
    BY <1>9 DEF WriteFails
  <2>2. c \in Members /\ Members' = Members \ {c}
    BY <2>1 DEF Members, UpToDate
  <2>3. Feed!Leave(c)
    BY <2>1, <2>2 DEF Feed!Leave, Taken, Members
  <2> QED
    BY <2>3 DEF Feed!Next
<1>10. CASE EndFanOut
  BY <1>1, <1>10 DEF EndFanOut, Members, Fresh
<1> QED
  BY <1>2, <1>3, <1>4, <1>5, <1>6, <1>7, <1>8, <1>9, <1>10, HandlerRefines
     DEF Next, HubStep, ServeStep

\* ImplementsFeed: whatever the interleaving of joins, departures, failures and frames,
\* the frames go out one at a time, each to all who are members then.
THEOREM HubImplementsFeed == Spec => ImplementsFeed
<1>1. Init => Feed!Init
  <2>1. Len(<<>>) = 0 /\ ToSet(<<>>) = {}
    BY EmptySeq DEF ToSet
  <2> QED
    BY <2>1 DEF Init, Feed!Init, Taken
<1>2. IInv /\ [Next]_vars => [Feed!Next]_(Feed!vars)
  BY FeedStep DEF IInv
<1> QED
  BY <1>1, <1>2, Invariance, PTL DEF Spec, ImplementsFeed, Feed!Spec
==============================================================================

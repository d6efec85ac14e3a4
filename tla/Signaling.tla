------------------------------ MODULE Signaling ------------------------------
(***************************************************************************)
(* Signaling sessions over the relay: internal/signaling/handler.go, with  *)
(* the stream handlers of internal/router/router.go that call the same     *)
(* hub.                                                                    *)
(*                                                                         *)
(* A session is one WebSocket.  It reads a message, calls the hub, writes  *)
(* a reply, and reads the next one; the hub call is one step of the relay, *)
(* and other sessions, the handlers and the forwarding loops act between   *)
(* it and the reply.  A session keeps no reference to the connections it   *)
(* negotiated: when it goes, they stay.                                    *)
(*                                                                         *)
(* Stream ids are random (newID): nobody asks for one before it was made.  *)
(* A session may be opened for an id that will never exist, Unknown.       *)
(* Candidates and messages of an unknown type are read and change nothing. *)
(***************************************************************************)
EXTENDS Relay

CONSTANTS Sessions,   \* WebSockets of the signaling endpoint
          Unknown     \* a stream id that no stream will have

ASSUME UnknownAssumption == Unknown \in Streams

VARIABLES
  session,   \* what each session is about to do
  streamId,  \* the stream in its URL
  reply,     \* the connection whose answer it is about to write
  answered,  \* history: connections whose answer was written to the peer
  told       \* history: sessions the end message was written to

sessionVars == <<session, streamId, reply, answered, told>>
allVars == <<vars, sessionVars>>

SignalTypeOK ==
  /\ session \in [Sessions -> {"new", "read", "answer", "end", "closed"}]
  /\ streamId \in [Sessions -> Streams \union {NoStream}]
  /\ \A c \in Sessions : session[c] # "new" => streamId[c] \in Streams
  /\ reply \in [Sessions -> PCs \union {NoPC}]
  /\ \A c \in Sessions : session[c] = "answer" <=> reply[c] # NoPC
  /\ answered \subseteq PCs
  /\ told \subseteq {c \in Sessions : session[c] = "closed"}

SignalInit ==
  /\ Init
  /\ session = [c \in Sessions |-> "new"]
  /\ streamId = [c \in Sessions |-> NoStream]
  /\ reply = [c \in Sessions |-> NoPC]
  /\ answered = {}
  /\ told = {}

------------------------------------------------------------------------------
(* Mistakes this code could have been written with; no action uses them. *)

\* instead of Negotiated: the error of a connect is not looked at
NegotiatedAnyway(c, p) ==
  /\ session' = [session EXCEPT ![c] = "answer"]
  /\ reply' = [reply EXCEPT ![c] = p]

\* instead of AfterAnswer: the session goes on whatever became of its answer,
\* and writes it again
AfterAnswerKept(c) == reply[c]

------------------------------------------------------------------------------
(* One session. *)

Accept(c, s) ==
  /\ session[c] = "new"
  /\ status[s] # "absent" \/ s = Unknown
  /\ \E next \in {"read", "closed"} :      \* the upgrade may fail
       session' = [session EXCEPT ![c] = next]
  /\ streamId' = [streamId EXCEPT ![c] = s]
  /\ UNCHANGED <<vars, reply, answered, told>>

\* an error of the hub ends the session
Negotiated(c, p) ==
  IF pc'[p] = "open"
  THEN /\ session' = [session EXCEPT ![c] = "answer"]
       /\ reply' = [reply EXCEPT ![c] = p]
  ELSE /\ session' = [session EXCEPT ![c] = "closed"]
       /\ UNCHANGED reply

\* the role is the message's, not the session's
Offer(c, p) ==
  /\ session[c] = "read"
  /\ ConnectBroadcaster(streamId[c], p) \/ ConnectListener(streamId[c], p)
  /\ Negotiated(c, p)
  /\ UNCHANGED <<streamId, answered, told>>

OfferRefused(c) ==
  /\ session[c] = "read"
  /\ \/ \E p \in PCs : ConnectFails(streamId[c], p)
     \/ ~Connectable(streamId[c]) /\ UNCHANGED vars
  /\ session' = [session EXCEPT ![c] = "closed"]
  /\ UNCHANGED <<streamId, reply, answered, told>>

\* the reply, once it is written or cannot be
AfterAnswer(c) == NoPC

WriteAnswer(c) ==
  /\ session[c] = "answer"
  /\ \/ /\ session' = [session EXCEPT ![c] = "read"]
        /\ answered' = answered \union {reply[c]}
     \/ /\ session' = [session EXCEPT ![c] = "closed"]
        /\ UNCHANGED answered
  /\ reply' = [reply EXCEPT ![c] = AfterAnswer(c)]
  /\ UNCHANGED <<vars, streamId, told>>

\* an error is logged, and the next message is read
PauseOrResume(c) ==
  /\ session[c] = "read"
  /\ PauseStream(streamId[c]) \/ ResumeStream(streamId[c])
  /\ UNCHANGED sessionVars

\* a stream that has ended or does not exist is left as it is
StopOrNot(s) == StopStream(s) \/ (~Connectable(s) /\ UNCHANGED vars)

\* here too an error of the hub is logged: the end is announced all the same
End(c) ==
  /\ session[c] = "read"
  /\ StopOrNot(streamId[c])
  /\ session' = [session EXCEPT ![c] = "end"]
  /\ UNCHANGED <<streamId, reply, answered, told>>

\* broadcastEnd writes to the session that asked, and to no other
WriteEnd(c) ==
  /\ session[c] = "end"
  /\ session' = [session EXCEPT ![c] = "closed"]
  /\ told' = told \union {c} \/ UNCHANGED told
  /\ UNCHANGED <<vars, streamId, reply, answered>>

\* the peer is gone, or sent something that is not JSON
Hangup(c) ==
  /\ session[c] = "read"
  /\ session' = [session EXCEPT ![c] = "closed"]
  /\ UNCHANGED <<vars, streamId, reply, answered, told>>

SessionStep(c) ==
  \/ \E s \in Streams : Accept(c, s)
  \/ \E p \in PCs : Offer(c, p)
  \/ OfferRefused(c) \/ WriteAnswer(c) \/ PauseOrResume(c) \/ End(c) \/ WriteEnd(c)
  \/ Hangup(c)

------------------------------------------------------------------------------
(* The HTTP handlers for streams, and the relay's own steps. *)

HandlerStep ==
  /\ \E s \in Streams \ {Unknown} :
       CreateStream(s) \/ PauseStream(s) \/ ResumeStream(s) \/ StopStream(s)
  /\ UNCHANGED sessionVars

RelayStep ==
  /\ \E p \in PCs : OnTrack(p) \/ ForwardStep(p)
  /\ UNCHANGED sessionVars

SignalNext == HandlerStep \/ RelayStep \/ \E c \in Sessions : SessionStep(c)

SignalSpec == SignalInit /\ [][SignalNext]_allVars

------------------------------------------------------------------------------
(* Properties. *)

\* An answer is worth having: the connection it is about, whether the answer is
\* about to be written or was, is open until its stream ends.  A stop between the
\* hub call and the write is the only thing that can overtake it.
AnswerIsAlive ==
  \A p \in answered \union ({reply[c] : c \in Sessions} \ {NoPC}) :
    own[p] \in Streams /\ (pc[p] = "open" \/ status[own[p]] = "ended")

\* The end message tells the truth, and goes on telling it: the stream of a
\* session that is about to write it, or has, ended and stays ended, unless the
\* session's stream never was.
EndIsTrue ==
  \A c \in Sessions : (session[c] = "end" \/ c \in told) =>
    status[streamId[c]] = "ended" \/ streamId[c] = Unknown
==============================================================================

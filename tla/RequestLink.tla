---------------------------- MODULE RequestLink -----------------------------
(***************************************************************************)
(* One request and its answer over the serial line: the client of          *)
(* python/daft_protocol/client.py, a line that loses frames, and the       *)
(* duplicate detection at the top of Actuator::handle_packet.              *)
(*                                                                         *)
(* The device recognises a duplicate by message and sequence number alone. *)
(* A client object numbers its requests from 1, and a new object starts    *)
(* over.  The client here never repeats a request; a host that does (the   *)
(* tests of the firmware play one) is the constant Resends.                *)
(*                                                                         *)
(* EVENT and telemetry packets are left out: the client sets them aside    *)
(* before it looks at the sequence number.  PING is answered by an ACK and  *)
(* a PONG, everything else by one packet.                                  *)
(***************************************************************************)
EXTENDS Integers, Sequences

CONSTANTS
  Commands,      (* what can be asked: [msg, body]                          *)
  None,
  Resends,       (* TRUE for a host that repeats an unanswered request      *)
  MaxSeq,        (* bound: requests in a session, so next_seq does not wrap *)
  MaxSessions,   (* bound: client objects opened one after the other        *)
  Capacity       (* bound: frames under way in one direction                *)

ASSUME LinkAssumption ==
  /\ \A c \in Commands : DOMAIN c = {"msg", "body"}
  /\ Resends \in BOOLEAN
  /\ MaxSeq \in Nat
  /\ MaxSessions \in Nat \ {0}
  /\ Capacity \in Nat

VARIABLES
  session,     (* which client object is in use                             *)
  nextSeq,     (* its next_seq                                              *)
  pending,     (* the request it waits for, or None                         *)
  sawAck,      (* the ACK that a ping has seen, or None                     *)
  accepted,    (* the request it last got an answer to, and the answers     *)
  toDevice, toHost,
  lastRequest, (* last_request_, or None                                    *)
  lastAnswers, (* last_responses_                                           *)
  executed     (* the requests dispatched since the device booted, in order *)

client == <<session, nextSeq, pending, sawAck, accepted>>
device == <<lastRequest, lastAnswers, executed>>
vars == <<client, toDevice, toHost, device>>

(* Neither side can see the session of a request: it only tells requests    *)
(* with the same number apart here.                                         *)
Requests == [session : 1..MaxSessions, seq : 1..MaxSeq, command : Commands]

ASSUME NoneAssumption == None \notin Requests

Answers ==
  [seq : 1..MaxSeq, kind : {"ACK", "PONG", "other", "mismatch"}, to : Requests]

IsPing(request) == request.command.msg = "PING"

Reply(kind, request) == [seq |-> request.seq, kind |-> kind, to |-> request]

Replies(request) ==
  IF IsPing(request) THEN <<Reply("ACK", request), Reply("PONG", request)>>
  ELSE <<Reply("other", request)>>

-----------------------------------------------------------------------------

Init ==
  /\ session = 1
  /\ nextSeq = 1
  /\ pending = None
  /\ sawAck = None
  /\ accepted = None
  /\ toDevice = <<>>
  /\ toHost = <<>>
  /\ lastRequest = None
  /\ lastAnswers = <<>>
  /\ executed = <<>>

Transmit(request) ==
  /\ Len(toDevice) < Capacity
  /\ toDevice' = Append(toDevice, request)

(* DaftClient.request and ping: number the request, write it, wait. *)
Send(command) ==
  /\ pending = None
  /\ nextSeq <= MaxSeq
  /\ LET request == [session |-> session, seq |-> nextSeq, command |-> command]
     IN  /\ Transmit(request)
         /\ pending' = request
  /\ nextSeq' = nextSeq + 1
  /\ sawAck' = None
  /\ UNCHANGED <<session, accepted, toHost, device>>

Resend ==
  /\ Resends
  /\ pending # None
  /\ Transmit(pending)
  /\ UNCHANGED <<client, toHost, device>>

Reading == pending # None /\ toHost # <<>> /\ toHost' = Tail(toHost)

(* What each loop passes over with the right number on it: nothing in       *)
(* request, and in ping whatever is neither an ERROR, an ACK nor a PONG.    *)
PassesOver(answer) == IsPing(pending) /\ answer.kind = "other"

(* Answers with another number are skipped. *)
Skip ==
  /\ Reading
  /\ Head(toHost).seq # pending.seq \/ PassesOver(Head(toHost))
  /\ UNCHANGED <<client, toDevice, device>>

(* The ACK of a ping: it waits on for the PONG. *)
SeeAck ==
  /\ Reading
  /\ Head(toHost).seq = pending.seq
  /\ IsPing(pending) /\ Head(toHost).kind = "ACK"
  /\ sawAck' = Head(toHost)
  /\ UNCHANGED <<session, nextSeq, pending, accepted, toDevice, device>>

(* Any number will do. *)
ReceiveAny ==
  /\ Reading
  /\ ~PassesOver(Head(toHost)) /\ ~(IsPing(pending) /\ Head(toHost).kind = "ACK")
  /\ accepted' = [request |-> pending, answer |-> Head(toHost), ack |-> sawAck]
  /\ pending' = None
  /\ UNCHANGED <<session, nextSeq, sawAck, toDevice, device>>

(* The call returns with the answer; ping tells whether it saw the ACK. *)
Receive ==
  /\ Reading
  /\ Head(toHost).seq = pending.seq
  /\ ~PassesOver(Head(toHost)) /\ ~(IsPing(pending) /\ Head(toHost).kind = "ACK")
  /\ accepted' = [request |-> pending, answer |-> Head(toHost), ack |-> sawAck]
  /\ pending' = None
  /\ UNCHANGED <<session, nextSeq, sawAck, toDevice, device>>

(* read_packet gives up; the answer may still come. *)
GiveUp ==
  /\ pending # None
  /\ pending' = None
  /\ UNCHANGED <<session, nextSeq, sawAck, accepted, toDevice, toHost, device>>

(* Another client on the port: open() empties the input buffer. *)
NewSession ==
  /\ session < MaxSessions
  /\ session' = session + 1
  /\ nextSeq' = 1
  /\ pending' = None
  /\ sawAck' = None
  /\ accepted' = None
  /\ toHost' = <<>>
  /\ UNCHANGED <<toDevice, device>>

-----------------------------------------------------------------------------
(* The line: a frame that does not pass its CRC is as good as lost. *)

LoseRequest ==
  /\ toDevice # <<>>
  /\ toDevice' = Tail(toDevice)
  /\ UNCHANGED <<client, toHost, device>>

LoseAnswer ==
  /\ toHost # <<>>
  /\ toHost' = Tail(toHost)
  /\ UNCHANGED <<client, toDevice, device>>

-----------------------------------------------------------------------------

Respond(answers) ==
  /\ Len(toHost) + Len(answers) <= Capacity
  /\ toHost' = toHost \o answers

(* No duplicate detection. *)
NeverRepeated(request) == FALSE

LooksRepeated(request) ==
  /\ lastRequest # None
  /\ request.seq = lastRequest.seq
  /\ request.command.msg = lastRequest.command.msg

(* same_request *)
SameRequest(request) == request.command = lastRequest.command

(* replay_last_response *)
Replay ==
  /\ toDevice # <<>>
  /\ LooksRepeated(Head(toDevice))
  /\ SameRequest(Head(toDevice))
  /\ Respond(lastAnswers)
  /\ toDevice' = Tail(toDevice)
  /\ UNCHANGED <<client, device>>

(* ERR_DUPLICATE_MISMATCH, which is not remembered. *)
RejectMismatch ==
  /\ toDevice # <<>>
  /\ LET request == Head(toDevice)
     IN  /\ LooksRepeated(request)
         /\ ~SameRequest(request)
         /\ Respond(<<Reply("mismatch", request)>>)
  /\ toDevice' = Tail(toDevice)
  /\ UNCHANGED <<client, device>>

(* dispatch, then remember_request *)
Execute ==
  /\ toDevice # <<>>
  /\ LET request == Head(toDevice)
     IN  /\ ~LooksRepeated(request)
         /\ Respond(Replies(request))
         /\ executed' = Append(executed, request)
         /\ lastRequest' = request
         /\ lastAnswers' = Replies(request)
  /\ toDevice' = Tail(toDevice)
  /\ UNCHANGED client

(* begin without last_request_valid_ = false. *)
RebootRemembering ==
  /\ lastAnswers' = <<>>
  /\ executed' = <<>>
  /\ toDevice' = <<>>
  /\ UNCHANGED <<client, toHost, lastRequest>>

(* A reset forgets the last request and what the receive buffer held. *)
Reboot ==
  /\ lastRequest' = None
  /\ lastAnswers' = <<>>
  /\ executed' = <<>>
  /\ toDevice' = <<>>
  /\ UNCHANGED <<client, toHost>>

-----------------------------------------------------------------------------

Next ==
  \/ \E command \in Commands : Send(command)
  \/ Resend
  \/ Skip
  \/ SeeAck
  \/ Receive
  \/ GiveUp
  \/ NewSession
  \/ LoseRequest
  \/ LoseAnswer
  \/ Replay
  \/ RejectMismatch
  \/ Execute
  \/ Reboot

Spec == Init /\ [][Next]_vars

-----------------------------------------------------------------------------
(* Properties *)

(* The variables keep their ranges, and the answers kept for a replay are   *)
(* those of the request they are kept with.                                 *)
TypeOK ==
  /\ session \in 1..MaxSessions
  /\ nextSeq \in 1..MaxSeq + 1
  /\ pending \in Requests \cup {None}
  /\ sawAck \in Answers \cup {None}
  /\ accepted \in
       [request : Requests, answer : Answers, ack : Answers \cup {None}] \cup {None}
  /\ toDevice \in Seq(Requests)
  /\ toHost \in Seq(Answers)
  /\ lastRequest \in Requests \cup {None}
  /\ lastAnswers = IF lastRequest = None THEN <<>> ELSE Replies(lastRequest)
  /\ executed \in Seq(Requests)

SentBefore(r, q) == r.session < q.session \/ (r.session = q.session /\ r.seq < q.seq)

(* However often a request is repeated, lost, answered late or given up, it *)
(* takes effect at most once between two boots, and in the order of sending: *)
(* last_request_ holds one request, and that is enough.                     *)
EffectOnceInOrder ==
  \A i, j \in DOMAIN executed : i < j => SentBefore(executed[i], executed[j])

MineOrOlder(answer, request) ==
  answer.to = request \/ answer.to.session < request.session

(* The answer the client takes for its own is the answer to its request and *)
(* to no other it has sent, and a ping that returns TRUE has seen both of   *)
(* its own: only a request that an earlier client left behind under the     *)
(* same number can be answered in its place.                                *)
AnswerIsMine ==
  accepted # None =>
    /\ MineOrOlder(accepted.answer, accepted.request)
    /\ accepted.ack # None => MineOrOlder(accepted.ack, accepted.request)

(* A host that sends each request once is not told that it sent a different *)
(* one under the same number.                                               *)
NoFalseDuplicate == accepted # None => accepted.answer.kind # "mismatch"

=============================================================================

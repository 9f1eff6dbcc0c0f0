------------------------- MODULE RequestLinkProofs --------------------------
(***************************************************************************)
(* Theorems about RequestLink: requests take effect at most once and in    *)
(* the order of sending, and answers belong to their requests, for every   *)
(* set of commands, every number of clients and requests and every         *)
(* capacity of the line, with and without a host that repeats requests.    *)
(*                                                                         *)
(* Everything rests on one order: requests are sent in increasing order of *)
(* client and number, the line keeps that order, and a number is given out *)
(* once.                                                                   *)
(***************************************************************************)
EXTENDS RequestLink, SequenceTheorems, TLAPS

-----------------------------------------------------------------------------
(* The inductive invariant *)

NotAfter(r, q) == r = q \/ SentBefore(r, q)

(* A request that has been sent: by an earlier client or under a number     *)
(* that is used up; and none is later than the one the client waits for.    *)
Sent(r, clientNow, next, awaited) ==
  /\ r.session < clientNow \/ (r.session = clientNow /\ r.seq < next)
  /\ awaited # None => NotAfter(r, awaited)

WasSent(r) == Sent(r, session, nextSeq, pending)

PendingIsLast ==
  pending # None => pending.session = session /\ pending.seq = nextSeq - 1

(* The requests under way are in order, and none is before the last one     *)
(* that took effect.                                                        *)
LineInOrder ==
  /\ \A i \in DOMAIN toDevice : WasSent(toDevice[i])
  /\ \A i, j \in DOMAIN toDevice : i < j => NotAfter(toDevice[i], toDevice[j])
  /\ lastRequest # None =>
       \A i \in DOMAIN toDevice : NotAfter(lastRequest, toDevice[i])

LastIsExecuted ==
  /\ lastRequest # None => WasSent(lastRequest)
  /\ \A i \in DOMAIN executed : lastRequest # None /\ NotAfter(executed[i], lastRequest)

(* An answer bears the number of the request it is to.                      *)
AnswersToSent ==
  \A i \in DOMAIN toHost : toHost[i].seq = toHost[i].to.seq /\ WasSent(toHost[i].to)

AckIsMine == sawAck # None /\ pending # None => MineOrOlder(sawAck, pending)

OrderInv ==
  /\ PendingIsLast
  /\ LineInOrder
  /\ LastIsExecuted
  /\ AnswersToSent
  /\ AckIsMine

-----------------------------------------------------------------------------
(* Sequences *)

LEMMA TailFacts ==
  ASSUME NEW S, NEW s \in Seq(S), s # <<>>
  PROVE  /\ Head(s) \in S /\ Tail(s) \in Seq(S)
         /\ 1 \in DOMAIN s /\ Head(s) = s[1]
         /\ \A i \in DOMAIN Tail(s) : i \in Nat /\ i + 1 \in DOMAIN s /\ Tail(s)[i] = s[i + 1]
BY HeadTailProperties, EmptySeq, LenProperties

LEMMA AppendFacts ==
  ASSUME NEW S, NEW s \in Seq(S), NEW e \in S
  PROVE  /\ Append(s, e) \in Seq(S)
         /\ \A i \in DOMAIN Append(s, e) :
              \/ i \in DOMAIN s /\ Append(s, e)[i] = s[i]
              \/ i = Len(s) + 1 /\ Append(s, e)[i] = e
         /\ \A i \in DOMAIN s : i \in Nat /\ i < Len(s) + 1
BY AppendProperties, LenProperties

LEMMA ConcatFacts ==
  ASSUME NEW S, NEW s \in Seq(S), NEW t \in Seq(S)
  PROVE  /\ s \o t \in Seq(S)
         /\ \A i \in DOMAIN (s \o t) :
              \/ i \in DOMAIN s /\ (s \o t)[i] = s[i]
              \/ \E j \in DOMAIN t : (s \o t)[i] = t[j]
<1>1. /\ s \o t \in Seq(S)
      /\ Len(s \o t) = Len(s) + Len(t)
      /\ \A i \in 1..Len(s) + Len(t) : (s \o t)[i] = IF i <= Len(s) THEN s[i] ELSE t[i - Len(s)]
  BY ConcatProperties
<1>2. /\ DOMAIN (s \o t) = 1..Len(s) + Len(t)
      /\ DOMAIN s = 1..Len(s) /\ DOMAIN t = 1..Len(t) /\ Len(s) \in Nat /\ Len(t) \in Nat
  BY <1>1, LenProperties
<1>3. ASSUME NEW i \in DOMAIN (s \o t), i \notin DOMAIN s
      PROVE  i - Len(s) \in DOMAIN t /\ (s \o t)[i] = t[i - Len(s)]
  BY <1>1, <1>2, <1>3
<1> QED BY <1>1, <1>2, <1>3

-----------------------------------------------------------------------------
(* Requests and answers *)

LEMMA RequestParts ==
  ASSUME NEW r \in Requests
  PROVE  r.session \in Int /\ r.seq \in Int /\ r.command \in Commands
BY DEF Requests

LEMMA NotAfterTransitive ==
  ASSUME NEW p \in Requests, NEW q \in Requests, NEW r \in Requests,
         NotAfter(p, q), NotAfter(q, r)
  PROVE  NotAfter(p, r)
BY RequestParts DEF NotAfter, SentBefore

LEMMA ReplyType ==
  ASSUME NEW r \in Requests, NEW kind \in {"ACK", "PONG", "other", "mismatch"}
  PROVE  Reply(kind, r) \in Answers /\ Reply(kind, r).to = r /\ Reply(kind, r).seq = r.seq
BY DEF Reply, Answers, Requests

LEMMA RepliesFacts ==
  ASSUME NEW r \in Requests
  PROVE  /\ Replies(r) \in Seq(Answers)
         /\ \A i \in DOMAIN Replies(r) : Replies(r)[i].to = r /\ Replies(r)[i].seq = r.seq
<1>1. /\ Reply("ACK", r) \in Answers /\ Reply("PONG", r) \in Answers
      /\ Reply("other", r) \in Answers
  BY ReplyType
<1>2. CASE IsPing(r)
  <2>1. Replies(r) = <<Reply("ACK", r), Reply("PONG", r)>>
    BY <1>2 DEF Replies
  <2> QED BY <1>1, <2>1, ReplyType
<1>3. CASE ~IsPing(r)
  <2>1. Replies(r) = <<Reply("other", r)>>
    BY <1>3 DEF Replies
  <2> QED BY <1>1, <2>1, ReplyType
<1> QED BY <1>2, <1>3

-----------------------------------------------------------------------------
(* Type correctness *)

(* What the next send adds to the line.                                     *)
LEMMA TransmitFacts ==
  ASSUME NEW r \in Requests, toDevice \in Seq(Requests), Transmit(r)
  PROVE  toDevice' \in Seq(Requests)
BY AppendFacts DEF Transmit

LEMMA RespondFacts ==
  ASSUME NEW answers \in Seq(Answers), toHost \in Seq(Answers), Respond(answers)
  PROVE  toHost' \in Seq(Answers)
BY ConcatFacts DEF Respond

LEMMA LastAnswersType ==
  ASSUME TypeOK, lastRequest # None
  PROVE  lastRequest \in Requests /\ lastAnswers = Replies(lastRequest)
BY DEF TypeOK

(* All variables keep their ranges; what is kept for a replay are the       *)
(* answers to the request it is kept with (remember_request).               *)
THEOREM TypeCorrect == Spec => []TypeOK
<1>1. Init => TypeOK
  <2>1. 1 \in 1..MaxSessions /\ 1 \in 1..MaxSeq + 1
    BY LinkAssumption
  <2> QED BY <2>1, EmptySeq DEF Init, TypeOK
<1>2. TypeOK /\ [Next]_vars => TypeOK'
  <2> SUFFICES ASSUME TypeOK, [Next]_vars
               PROVE  TypeOK'
    OBVIOUS
  <2> USE DEF TypeOK, client, device
  <2>1. ASSUME NEW command \in Commands, Send(command)
        PROVE  TypeOK'
    <3> DEFINE request == [session |-> session, seq |-> nextSeq, command |-> command]
    <3>1. nextSeq \in 1..MaxSeq /\ nextSeq + 1 \in 1..MaxSeq + 1
      BY <2>1, LinkAssumption DEF Send
    <3>2. request \in Requests
      BY <3>1 DEF Requests
    <3>3. toDevice' \in Seq(Requests)
      BY <2>1, <3>2, TransmitFacts DEF Send
    <3> QED BY <2>1, <3>1, <3>2, <3>3 DEF Send
  <2>2. CASE Resend
    BY <2>2, TransmitFacts DEF Resend
  <2>3. ASSUME Reading
        PROVE  toHost' \in Seq(Answers) /\ Head(toHost) \in Answers /\ pending \in Requests
    BY <2>3, TailFacts DEF Reading
  <2>4. CASE Skip
    BY <2>3, <2>4 DEF Skip
  <2>5. CASE SeeAck
    BY <2>3, <2>5 DEF SeeAck
  <2>6. CASE Receive
    BY <2>3, <2>6 DEF Receive
  <2>7. CASE GiveUp
    BY <2>7 DEF GiveUp
  <2>8. CASE NewSession
    <3>1. session + 1 \in 1..MaxSessions /\ 1 \in 1..MaxSeq + 1
      BY <2>8, LinkAssumption DEF NewSession
    <3> QED BY <2>8, <3>1, EmptySeq DEF NewSession
  <2>9. CASE LoseRequest
    BY <2>9, TailFacts DEF LoseRequest
  <2>10. CASE LoseAnswer
    BY <2>10, TailFacts DEF LoseAnswer
  <2>11. ASSUME toDevice # <<>>
         PROVE  Head(toDevice) \in Requests /\ Tail(toDevice) \in Seq(Requests)
    BY <2>11, TailFacts
  <2>12. CASE Replay
    <3>1. lastAnswers \in Seq(Answers)
      BY <2>12, RepliesFacts, LastAnswersType DEF Replay, LooksRepeated
    <3> QED BY <2>11, <2>12, <3>1, RespondFacts DEF Replay
  <2>13. CASE RejectMismatch
    <3>1. Reply("mismatch", Head(toDevice)) \in Answers
      BY <2>11, <2>13, ReplyType DEF RejectMismatch
    <3>2. <<Reply("mismatch", Head(toDevice))>> \in Seq(Answers)
      BY <3>1
    <3> QED BY <2>11, <2>13, <3>2, RespondFacts DEF RejectMismatch
  <2>14. CASE Execute
    <3>1. Replies(Head(toDevice)) \in Seq(Answers)
      BY <2>11, <2>14, RepliesFacts DEF Execute
    <3>2. executed' \in Seq(Requests)
      BY <2>11, <2>14, AppendFacts DEF Execute
    <3>3. toHost' \in Seq(Answers)
      BY <2>14, <3>1, RespondFacts DEF Execute
    <3>4. lastAnswers' = IF lastRequest' = None THEN <<>> ELSE Replies(lastRequest')
      BY <2>11, <2>14, NoneAssumption DEF Execute
    <3> QED BY <2>11, <2>14, <3>2, <3>3, <3>4 DEF Execute
  <2>15. CASE Reboot
    BY <2>15, EmptySeq DEF Reboot
  <2>16. CASE UNCHANGED vars
    BY <2>16 DEF vars
  <2> QED
    BY <2>1, <2>2, <2>4, <2>5, <2>6, <2>7, <2>8, <2>9, <2>10, <2>12, <2>13, <2>14,
       <2>15, <2>16 DEF Next
<1> QED BY <1>1, <1>2, PTL DEF Spec

-----------------------------------------------------------------------------
(* The order *)

StillSent ==
  \A r \in Requests :
    Sent(r, session, nextSeq, pending) => Sent(r, session', nextSeq', pending')

LEMMA Elements ==
  ASSUME TypeOK
  PROVE  /\ \A i \in DOMAIN toDevice : toDevice[i] \in Requests
         /\ \A i \in DOMAIN executed : executed[i] \in Requests
         /\ \A i \in DOMAIN toHost : toHost[i] \in Answers /\ toHost[i].to \in Requests
<1>1. toDevice \in Seq(Requests) /\ executed \in Seq(Requests) /\ toHost \in Seq(Answers)
  BY DEF TypeOK
<1>2. \A a \in Answers : a.to \in Requests
  BY DEF Answers
<1> QED BY <1>1, <1>2

(* Steps of the client leave what the device sees as it is.                 *)
LEMMA LineKept ==
  ASSUME TypeOK, LineInOrder, LastIsExecuted, StillSent,
         UNCHANGED <<toDevice, device>>
  PROVE  LineInOrder' /\ LastIsExecuted'
<1> USE DEF device
<1>1. \A i \in DOMAIN toDevice : Sent(toDevice[i], session', nextSeq', pending')
  BY Elements DEF LineInOrder, WasSent, StillSent
<1>2. lastRequest # None => Sent(lastRequest, session', nextSeq', pending')
  BY DEF LastIsExecuted, WasSent, StillSent, TypeOK
<1>3. LineInOrder'
  BY <1>1 DEF LineInOrder, WasSent
<1>4. LastIsExecuted'
  BY <1>2 DEF LastIsExecuted, WasSent
<1> QED BY <1>3, <1>4

(* Answers may be taken off the line.                                       *)
LEMMA AnswersKept ==
  ASSUME TypeOK, AnswersToSent, StillSent,
         \A i \in DOMAIN toHost' : \E j \in DOMAIN toHost : toHost'[i] = toHost[j]
  PROVE  AnswersToSent'
<1> SUFFICES ASSUME NEW i \in DOMAIN toHost'
             PROVE  /\ toHost'[i].seq = toHost'[i].to.seq
                    /\ Sent(toHost'[i].to, session', nextSeq', pending')
  BY DEF AnswersToSent, WasSent
<1>1. PICK j \in DOMAIN toHost : toHost'[i] = toHost[j]
  OBVIOUS
<1> QED BY <1>1, Elements DEF AnswersToSent, WasSent, StillSent

(* And the device may add answers to a request that was sent.               *)
LEMMA AnswersAdded ==
  ASSUME TypeOK, AnswersToSent, UNCHANGED client,
         NEW r \in Requests, WasSent(r), NEW answers \in Seq(Answers),
         \A i \in DOMAIN answers : answers[i].to = r /\ answers[i].seq = r.seq,
         Respond(answers)
  PROVE  AnswersToSent'
<1> SUFFICES ASSUME NEW i \in DOMAIN toHost'
             PROVE  /\ toHost'[i].seq = toHost'[i].to.seq
                    /\ Sent(toHost'[i].to, session, nextSeq, pending)
  BY DEF AnswersToSent, WasSent, client
<1>1. toHost \in Seq(Answers) /\ toHost' = toHost \o answers
  BY DEF TypeOK, Respond
<1>2. CASE i \in DOMAIN toHost /\ toHost'[i] = toHost[i]
  BY <1>2 DEF AnswersToSent, WasSent
<1>3. CASE \E j \in DOMAIN answers : toHost'[i] = answers[j]
  BY <1>3 DEF WasSent
<1> QED BY <1>1, <1>2, <1>3, ConcatFacts

(* The client takes the head of the line off.                               *)
LEMMA ReadingFacts ==
  ASSUME TypeOK, Reading
  PROVE  /\ pending \in Requests /\ pending # None
         /\ Head(toHost) \in Answers /\ Head(toHost).to \in Requests
         /\ 1 \in DOMAIN toHost /\ Head(toHost) = toHost[1]
         /\ \A i \in DOMAIN toHost' : \E j \in DOMAIN toHost : toHost'[i] = toHost[j]
<1>1. toHost \in Seq(Answers) /\ toHost # <<>> /\ toHost' = Tail(toHost)
  BY DEF TypeOK, Reading
<1>2. pending \in Requests /\ pending # None
  BY DEF TypeOK, Reading
<1>3. 1 \in DOMAIN toHost /\ Head(toHost) = toHost[1]
  BY <1>1, TailFacts
<1>4. Head(toHost) \in Answers /\ Head(toHost).to \in Requests
  BY <1>3, Elements
<1>5. \A i \in DOMAIN toHost' : i + 1 \in DOMAIN toHost /\ toHost'[i] = toHost[i + 1]
  BY <1>1, TailFacts
<1> QED BY <1>2, <1>3, <1>4, <1>5

(* An answer under the number of the request the client waits for is the    *)
(* answer to it, or to a request of an earlier client.                      *)
LEMMA RightNumber ==
  ASSUME TypeOK, PendingIsLast, AnswersToSent, Reading, Head(toHost).seq = pending.seq
  PROVE  MineOrOlder(Head(toHost), pending)
<1> DEFINE to == Head(toHost).to
<1>1. to \in Requests /\ pending \in Requests /\ pending # None
  BY ReadingFacts
<1>2. to.seq = pending.seq /\ Sent(to, session, nextSeq, pending)
  BY ReadingFacts DEF AnswersToSent, WasSent
<1>3. to.session \in Int /\ to.seq \in Int /\ session \in Int
  BY <1>1, RequestParts DEF TypeOK
<1>4. pending.session = session
  BY <1>1 DEF PendingIsLast
<1>5. to = pending \/ SentBefore(to, pending)
  BY <1>1, <1>2 DEF Sent, NotAfter
<1> QED BY <1>2, <1>3, <1>4, <1>5 DEF SentBefore, MineOrOlder

(* What the device takes off the line next.                                 *)
LEMMA HeadFacts ==
  ASSUME TypeOK, LineInOrder, toDevice # <<>>
  PROVE  /\ Head(toDevice) \in Requests /\ WasSent(Head(toDevice))
         /\ lastRequest # None => NotAfter(lastRequest, Head(toDevice))
         /\ toDevice' = Tail(toDevice) =>
              /\ \A i \in DOMAIN toDevice' :
                   /\ i + 1 \in DOMAIN toDevice
                   /\ toDevice'[i] = toDevice[i + 1]
                   /\ NotAfter(Head(toDevice), toDevice'[i])
              /\ \A i, j \in DOMAIN toDevice' :
                   i < j => NotAfter(toDevice'[i], toDevice'[j])
<1>1. /\ Head(toDevice) \in Requests
      /\ 1 \in DOMAIN toDevice /\ Head(toDevice) = toDevice[1]
      /\ \A i \in DOMAIN Tail(toDevice) :
           i \in Nat /\ i + 1 \in DOMAIN toDevice /\ Tail(toDevice)[i] = toDevice[i + 1]
  BY TailFacts DEF TypeOK
<1>2. Tail(toDevice) \in Seq(Requests)
  BY TailFacts DEF TypeOK
<1>3. \A i \in DOMAIN Tail(toDevice) : i \in 1..Len(Tail(toDevice))
  BY <1>2, LenProperties
<1>4. ASSUME NEW i \in DOMAIN Tail(toDevice)
      PROVE  1 < i + 1 /\ NotAfter(Head(toDevice), toDevice[i + 1])
  BY <1>1, <1>3, <1>4 DEF LineInOrder
<1>5. ASSUME NEW i \in DOMAIN Tail(toDevice), NEW j \in DOMAIN Tail(toDevice), i < j
      PROVE  NotAfter(toDevice[i + 1], toDevice[j + 1])
  <2>1. i + 1 < j + 1 /\ i + 1 \in DOMAIN toDevice /\ j + 1 \in DOMAIN toDevice
    BY <1>1, <1>5
  <2> QED BY <2>1 DEF LineInOrder
<1> QED BY <1>1, <1>4, <1>5 DEF LineInOrder

(* A request taken off without taking effect.                               *)
LEMMA LineShortened ==
  ASSUME TypeOK, LineInOrder, LastIsExecuted, toDevice # <<>>,
         toDevice' = Tail(toDevice), UNCHANGED <<client, device>>
  PROVE  LineInOrder' /\ LastIsExecuted'
<1> USE DEF client, device
<1>1. \A i \in DOMAIN toDevice' : i + 1 \in DOMAIN toDevice /\ toDevice'[i] = toDevice[i + 1]
  BY HeadFacts
<1>2. LineInOrder'
  BY <1>1, HeadFacts DEF LineInOrder, WasSent
<1> QED BY <1>2 DEF LastIsExecuted, WasSent

(* A request added at the end: it is not before any that was sent.          *)
LEMMA LineLengthened ==
  ASSUME TypeOK, TypeOK', LineInOrder, LastIsExecuted, StillSent, UNCHANGED device,
         NEW r \in Requests, Transmit(r), Sent(r, session', nextSeq', pending'),
         \A q \in Requests : Sent(q, session, nextSeq, pending) => NotAfter(q, r)
  PROVE  LineInOrder' /\ LastIsExecuted'
<1> USE DEF device
<1>1. /\ \A i \in DOMAIN toDevice' :
           \/ i \in DOMAIN toDevice /\ toDevice'[i] = toDevice[i]
           \/ i = Len(toDevice) + 1 /\ toDevice'[i] = r
      /\ \A i \in DOMAIN toDevice : i \in Nat /\ i < Len(toDevice) + 1
  BY AppendFacts DEF TypeOK, Transmit
<1>2. Len(toDevice) \in Nat
  BY LenProperties DEF TypeOK
<1>3. \A i \in DOMAIN toDevice : Sent(toDevice[i], session, nextSeq, pending)
  BY DEF LineInOrder, WasSent
<1>4. \A i \in DOMAIN toDevice' : Sent(toDevice'[i], session', nextSeq', pending')
  BY <1>1, <1>3, Elements DEF StillSent
<1>5. ASSUME NEW i \in DOMAIN toDevice', NEW j \in DOMAIN toDevice', i < j
      PROVE  NotAfter(toDevice'[i], toDevice'[j])
  <2>1. i \in DOMAIN toDevice /\ toDevice'[i] = toDevice[i]
    BY <1>1, <1>2, <1>5
  <2>2. CASE j \in DOMAIN toDevice /\ toDevice'[j] = toDevice[j]
    BY <1>5, <2>1, <2>2 DEF LineInOrder
  <2>3. CASE toDevice'[j] = r
    BY <1>3, <2>1, <2>3, Elements
  <2> QED BY <1>1, <2>2, <2>3
<1>6. ASSUME lastRequest # None, NEW i \in DOMAIN toDevice'
      PROVE  NotAfter(lastRequest, toDevice'[i])
  <2>1. lastRequest \in Requests /\ Sent(lastRequest, session, nextSeq, pending)
    BY <1>6 DEF TypeOK, LastIsExecuted, WasSent
  <2> QED BY <1>1, <1>6, <2>1 DEF LineInOrder
<1>7. LineInOrder'
  BY <1>4, <1>5, <1>6 DEF LineInOrder, WasSent
<1>8. lastRequest # None => Sent(lastRequest, session', nextSeq', pending')
  BY DEF LastIsExecuted, WasSent, StillSent, TypeOK
<1>9. LastIsExecuted'
  BY <1>8 DEF LastIsExecuted, WasSent
<1> QED BY <1>7, <1>9

(* Steps of the client that wait for nothing new.                           *)
LEMMA ClientSteps ==
  ASSUME TypeOK, Receive \/ GiveUp \/ NewSession
  PROVE  StillSent
<1> SUFFICES ASSUME NEW r \in Requests, Sent(r, session, nextSeq, pending)
             PROVE  Sent(r, session', nextSeq', pending')
  BY DEF StillSent
<1>1. CASE Receive
  BY <1>1 DEF Receive, Sent
<1>2. CASE GiveUp
  BY <1>2 DEF GiveUp, Sent
<1>3. CASE NewSession
  BY <1>3, RequestParts DEF NewSession, Sent, TypeOK
<1> QED BY <1>1, <1>2, <1>3

LEMMA ClientSame ==
  ASSUME UNCHANGED client
  PROVE  StillSent
BY DEF StillSent, client

(* A new request comes after all that were sent.                            *)
LEMMA SendFacts ==
  ASSUME TypeOK, NEW command \in Commands, Send(command)
  PROVE  /\ pending' \in Requests /\ pending' # None
         /\ pending'.session = session /\ pending'.seq = nextSeq
         /\ Sent(pending', session', nextSeq', pending')
         /\ \A r \in Requests : Sent(r, session, nextSeq, pending) => NotAfter(r, pending')
         /\ StillSent
<1>1. nextSeq \in 1..MaxSeq
  BY LinkAssumption DEF TypeOK, Send
<1>2. pending' \in Requests
  BY <1>1 DEF TypeOK, Send, Requests
<1>3. pending' # None
  BY <1>2, NoneAssumption
<1>4. pending'.session = session /\ pending'.seq = nextSeq
  BY DEF Send
<1>5. Sent(pending', session', nextSeq', pending')
  BY <1>1, <1>4 DEF Send, Sent, NotAfter
<1>6. ASSUME NEW r \in Requests, Sent(r, session, nextSeq, pending)
      PROVE  NotAfter(r, pending') /\ Sent(r, session', nextSeq', pending')
  BY <1>1, <1>4, <1>6, RequestParts DEF Send, Sent, NotAfter, SentBefore
<1> QED BY <1>2, <1>3, <1>4, <1>5, <1>6 DEF StillSent

LEMMA OrderHolds == Spec => []OrderInv
<1>1. Init => OrderInv
  BY DEF Init, OrderInv, PendingIsLast, LineInOrder, LastIsExecuted, AnswersToSent, AckIsMine
<1>2. TypeOK /\ TypeOK' /\ OrderInv /\ [Next]_vars => OrderInv'
  <2> SUFFICES ASSUME TypeOK, TypeOK', OrderInv, [Next]_vars
               PROVE  OrderInv'
    OBVIOUS
  <2> USE DEF OrderInv
  <2>1. ASSUME NEW command \in Commands, Send(command)
        PROVE  OrderInv'
    <3>1. LineInOrder' /\ LastIsExecuted'
      BY <2>1, SendFacts, LineLengthened DEF Send
    <3>2. AnswersToSent'
      BY <2>1, SendFacts, AnswersKept DEF Send
    <3>3. PendingIsLast'
      BY <2>1, SendFacts DEF PendingIsLast, Send, TypeOK
    <3>4. AckIsMine'
      BY <2>1 DEF AckIsMine, Send
    <3> QED BY <3>1, <3>2, <3>3, <3>4
  <2>2. CASE Resend
    <3>1. UNCHANGED client /\ pending \in Requests /\ pending # None
      BY <2>2 DEF Resend, TypeOK
    <3>2. Sent(pending, session, nextSeq, pending)
      BY <3>1, RequestParts DEF PendingIsLast, Sent, NotAfter, TypeOK
    <3>3. LineInOrder' /\ LastIsExecuted'
      BY <2>2, <3>1, <3>2, ClientSame, LineLengthened DEF Resend, Sent, client
    <3>4. AnswersToSent'
      BY <2>2, <3>1, ClientSame, AnswersKept DEF Resend
    <3> QED BY <3>1, <3>3, <3>4 DEF client, PendingIsLast, AckIsMine
  <2>3. CASE Skip
    <3>1. UNCHANGED client /\ UNCHANGED <<toDevice, device>> /\ Reading
      BY <2>3 DEF Skip
    <3>2. LineInOrder' /\ LastIsExecuted' /\ AnswersToSent'
      BY <3>1, ClientSame, LineKept, ReadingFacts, AnswersKept
    <3> QED BY <3>1, <3>2 DEF client, PendingIsLast, AckIsMine
  <2>4. CASE SeeAck
    <3>1. UNCHANGED <<session, nextSeq, pending>> /\ UNCHANGED <<toDevice, device>> /\ Reading
      BY <2>4 DEF SeeAck
    <3>2. LineInOrder' /\ LastIsExecuted' /\ AnswersToSent'
      BY <3>1, LineKept, ReadingFacts, AnswersKept DEF StillSent
    <3>3. AckIsMine'
      BY <2>4, RightNumber DEF SeeAck, AckIsMine
    <3> QED BY <3>1, <3>2, <3>3 DEF PendingIsLast
  <2>5. CASE Receive
    <3>1. LineInOrder' /\ LastIsExecuted' /\ AnswersToSent'
      BY <2>5, ClientSteps, LineKept, ReadingFacts, AnswersKept DEF Receive
    <3> QED BY <2>5, <3>1 DEF Receive, PendingIsLast, AckIsMine
  <2>6. CASE GiveUp
    <3>1. LineInOrder' /\ LastIsExecuted' /\ AnswersToSent'
      BY <2>6, ClientSteps, LineKept, AnswersKept DEF GiveUp
    <3> QED BY <2>6, <3>1 DEF GiveUp, PendingIsLast, AckIsMine
  <2>7. CASE NewSession
    <3>1. LineInOrder' /\ LastIsExecuted' /\ AnswersToSent'
      BY <2>7, ClientSteps, LineKept, AnswersKept DEF NewSession
    <3> QED BY <2>7, <3>1 DEF NewSession, PendingIsLast, AckIsMine
  <2>8. CASE LoseRequest
    <3>1. LineInOrder' /\ LastIsExecuted'
      BY <2>8, LineShortened DEF LoseRequest
    <3>2. AnswersToSent'
      BY <2>8, ClientSame, AnswersKept DEF LoseRequest
    <3> QED BY <2>8, <3>1, <3>2 DEF LoseRequest, client, PendingIsLast, AckIsMine
  <2>9. CASE LoseAnswer
    <3>1. UNCHANGED client /\ UNCHANGED <<toDevice, device>>
      BY <2>9 DEF LoseAnswer
    <3>2. \A i \in DOMAIN toHost' : i + 1 \in DOMAIN toHost /\ toHost'[i] = toHost[i + 1]
      BY <2>9, TailFacts DEF LoseAnswer, TypeOK
    <3>3. LineInOrder' /\ LastIsExecuted' /\ AnswersToSent'
      BY <3>1, <3>2, ClientSame, LineKept, AnswersKept
    <3> QED BY <3>1, <3>3 DEF client, PendingIsLast, AckIsMine
  <2>10. CASE Replay
    <3>1. UNCHANGED client /\ UNCHANGED device /\ lastRequest # None
          /\ toDevice # <<>> /\ toDevice' = Tail(toDevice) /\ Respond(lastAnswers)
      BY <2>10 DEF Replay, LooksRepeated
    <3>2. lastRequest \in Requests /\ WasSent(lastRequest) /\ lastAnswers = Replies(lastRequest)
      BY <3>1, LastAnswersType DEF LastIsExecuted
    <3>3. AnswersToSent'
      BY <3>1, <3>2, RepliesFacts, AnswersAdded
    <3>4. LineInOrder' /\ LastIsExecuted'
      BY <3>1, LineShortened
    <3> QED BY <3>1, <3>3, <3>4 DEF client, PendingIsLast, AckIsMine
  <2>11. CASE RejectMismatch
    <3> DEFINE request == Head(toDevice)
               answers == <<Reply("mismatch", request)>>
    <3>1. UNCHANGED client /\ UNCHANGED device
          /\ toDevice # <<>> /\ toDevice' = Tail(toDevice) /\ Respond(answers)
      BY <2>11 DEF RejectMismatch
    <3>2. request \in Requests /\ WasSent(request)
      BY <3>1, HeadFacts
    <3>3. /\ answers \in Seq(Answers)
          /\ \A i \in DOMAIN answers : answers[i].to = request /\ answers[i].seq = request.seq
      BY <3>2, ReplyType
    <3>4. AnswersToSent'
      <4> HIDE DEF answers, request
      <4> QED BY <3>1, <3>2, <3>3, AnswersAdded
    <3>5. LineInOrder' /\ LastIsExecuted'
      BY <3>1, LineShortened
    <3> QED BY <3>1, <3>4, <3>5 DEF client, PendingIsLast, AckIsMine
  <2>12. CASE Execute
    <3> DEFINE request == Head(toDevice)
    <3>1. UNCHANGED client /\ toDevice # <<>> /\ toDevice' = Tail(toDevice)
          /\ Respond(Replies(request)) /\ lastRequest' = request
          /\ executed' = Append(executed, request)
      BY <2>12 DEF Execute
    <3>2. request \in Requests /\ WasSent(request)
      BY <3>1, HeadFacts
    <3>3. AnswersToSent'
      <4> HIDE DEF request
      <4> QED BY <3>1, <3>2, RepliesFacts, AnswersAdded
    <3>4. LineInOrder'
      BY <3>1, <3>2, HeadFacts DEF LineInOrder, WasSent, client
    <3>5. LastIsExecuted'
      <4>1. ASSUME NEW i \in DOMAIN executed
            PROVE  NotAfter(executed[i], request)
        <5>1. lastRequest # None /\ NotAfter(executed[i], lastRequest)
          BY <4>1 DEF LastIsExecuted
        <5>2. NotAfter(lastRequest, request)
          BY <3>1, <5>1, HeadFacts
        <5>3. executed[i] \in Requests /\ lastRequest \in Requests
          BY <4>1, <5>1, Elements DEF TypeOK
        <5> QED BY <3>2, <5>1, <5>2, <5>3, NotAfterTransitive
      <4>2. \A i \in DOMAIN executed' :
              \/ i \in DOMAIN executed /\ executed'[i] = executed[i]
              \/ executed'[i] = request
        BY <3>1, <3>2, AppendFacts DEF TypeOK
      <4>3. NotAfter(request, request) /\ request # None
        BY <3>2, NoneAssumption DEF NotAfter
      <4>4. Sent(request, session', nextSeq', pending')
        BY <3>1, <3>2 DEF WasSent, client
      <4> HIDE DEF request
      <4> QED BY <3>1, <4>1, <4>2, <4>3, <4>4 DEF LastIsExecuted, WasSent
    <3> QED BY <3>1, <3>3, <3>4, <3>5 DEF client, PendingIsLast, AckIsMine
  <2>13. CASE Reboot
    <3>1. AnswersToSent'
      BY <2>13, ClientSame, AnswersKept DEF Reboot
    <3>2. LineInOrder' /\ LastIsExecuted'
      BY <2>13 DEF Reboot, LineInOrder, LastIsExecuted
    <3> QED BY <2>13, <3>1, <3>2 DEF Reboot, client, PendingIsLast, AckIsMine
  <2>14. CASE UNCHANGED vars
    <3>1. LineInOrder' /\ LastIsExecuted' /\ AnswersToSent'
      BY <2>14, ClientSame, LineKept, AnswersKept DEF vars
    <3> QED BY <2>14, <3>1 DEF vars, client, PendingIsLast, AckIsMine
  <2> QED
    BY <2>1, <2>2, <2>3, <2>4, <2>5, <2>6, <2>7, <2>8, <2>9, <2>10, <2>11, <2>12, <2>13,
       <2>14 DEF Next
<1> QED BY <1>1, <1>2, TypeCorrect, PTL DEF Spec

(* Requests take effect at most once between two boots, and in the order of *)
(* sending (same_request, remember_request): a request that is dispatched   *)
(* differs from the one remembered, which nothing on the line precedes.     *)
THEOREM AtMostOnceInOrder == Spec => []EffectOnceInOrder
<1>1. Init => EffectOnceInOrder
  BY DEF Init, EffectOnceInOrder
<1>2. TypeOK /\ OrderInv /\ EffectOnceInOrder /\ [Next]_vars => EffectOnceInOrder'
  <2> SUFFICES ASSUME TypeOK, OrderInv, EffectOnceInOrder, [Next]_vars
               PROVE  EffectOnceInOrder'
    OBVIOUS
  <2>1. CASE Execute
    <3> DEFINE request == Head(toDevice)
    <3>1. toDevice # <<>> /\ ~LooksRepeated(request) /\ executed' = Append(executed, request)
      BY <2>1 DEF Execute
    <3>2. request \in Requests /\ (lastRequest # None => NotAfter(lastRequest, request))
      BY <3>1, HeadFacts DEF OrderInv
    <3>3. lastRequest # request
      BY <3>1, <3>2, NoneAssumption DEF LooksRepeated
    <3>4. ASSUME NEW i \in DOMAIN executed
          PROVE  SentBefore(executed[i], request)
      <4>1. lastRequest # None /\ NotAfter(executed[i], lastRequest)
        BY <3>4 DEF OrderInv, LastIsExecuted
      <4>2. SentBefore(lastRequest, request)
        BY <3>2, <3>3, <4>1 DEF NotAfter
      <4>3. executed[i] \in Requests /\ lastRequest \in Requests
        BY <3>4, <4>1, Elements DEF TypeOK
      <4> QED BY <3>2, <4>1, <4>2, <4>3, RequestParts DEF NotAfter, SentBefore
    <3>5. /\ \A i \in DOMAIN executed' :
               \/ i \in DOMAIN executed /\ executed'[i] = executed[i]
               \/ i = Len(executed) + 1 /\ executed'[i] = request
          /\ \A i \in DOMAIN executed : i \in Nat /\ i < Len(executed) + 1
      BY <3>1, <3>2, AppendFacts DEF TypeOK
    <3>6. Len(executed) \in Nat
      BY LenProperties DEF TypeOK
    <3>7. ASSUME NEW i \in DOMAIN executed', NEW j \in DOMAIN executed', i < j
          PROVE  SentBefore(executed'[i], executed'[j])
      <4> HIDE DEF request
      <4>1. i \in DOMAIN executed /\ executed'[i] = executed[i]
        BY <3>5, <3>6, <3>7
      <4> QED BY <3>4, <3>5, <3>7, <4>1 DEF EffectOnceInOrder
    <3> QED BY <3>7 DEF EffectOnceInOrder
  <2>2. CASE Reboot
    BY <2>2 DEF Reboot, EffectOnceInOrder
  <2>3. CASE UNCHANGED executed
    BY <2>3 DEF EffectOnceInOrder
  <2>4. Execute \/ Reboot \/ UNCHANGED executed
    BY DEF Next, vars, device, Send, Resend, Skip, SeeAck, Receive, GiveUp, NewSession,
           LoseRequest, LoseAnswer, Replay, RejectMismatch
  <2> QED BY <2>1, <2>2, <2>3, <2>4
<1> QED BY <1>1, <1>2, TypeCorrect, OrderHolds, PTL DEF Spec

(* A client takes no answer to another of its own requests for the answer   *)
(* to this one, and a ping no ACK (DaftClient.request, ping): within a      *)
(* client the numbers differ.                                               *)
THEOREM AnswersBelong == Spec => []AnswerIsMine
<1>1. Init => AnswerIsMine
  BY DEF Init, AnswerIsMine
<1>2. TypeOK /\ OrderInv /\ AnswerIsMine /\ [Next]_vars => AnswerIsMine'
  <2> SUFFICES ASSUME TypeOK, OrderInv, AnswerIsMine, [Next]_vars
               PROVE  AnswerIsMine'
    OBVIOUS
  <2>1. CASE Receive
    <3>1. accepted' = [request |-> pending, answer |-> Head(toHost), ack |-> sawAck]
          /\ Reading /\ Head(toHost).seq = pending.seq /\ pending # None
      BY <2>1 DEF Receive, Reading
    <3>2. MineOrOlder(Head(toHost), pending)
      BY <3>1, RightNumber DEF OrderInv
    <3>3. sawAck # None => MineOrOlder(sawAck, pending)
      BY <3>1 DEF OrderInv, AckIsMine
    <3> QED BY <3>1, <3>2, <3>3 DEF AnswerIsMine
  <2>2. CASE accepted' = None
    BY <2>2 DEF AnswerIsMine
  <2>3. CASE UNCHANGED accepted
    BY <2>3 DEF AnswerIsMine
  <2>4. Receive \/ accepted' = None \/ UNCHANGED accepted
    BY DEF Next, vars, client, Send, Resend, Skip, SeeAck, GiveUp, NewSession,
           LoseRequest, LoseAnswer, Replay, RejectMismatch, Execute, Reboot
  <2> QED BY <2>1, <2>2, <2>3, <2>4
<1> QED BY <1>1, <1>2, TypeCorrect, OrderHolds, PTL DEF Spec

=============================================================================

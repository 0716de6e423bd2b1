------------------------- MODULE FieldClient_proofs -------------------------
(***************************************************************************)
(* A connection for any number of ids and transactions and any size of     *)
(* replies: without a failure it is in step, and with ids in the headers   *)
(* no reply is ever taken for that of another request.                     *)
(***************************************************************************)
EXTENDS FieldClient, SequenceTheorems, TLAPS

Total == HeaderLen + BodyLen

(* Everything the client has yet to read. *)
Stream == rx \o wire

(* A transaction that waits has begun. *)
TypeInv == TypeOK /\ (waiting # "nothing" => op > 0)

(* What is in flight on a connection without a failure: at most the one    *)
(* reply that is waited for, less the header when that is read.            *)
InStep ==
    clean =>
        /\ waiting = "nothing" => reqs = <<>> /\ Len(Stream) = 0
        /\ waiting = "header" => \/ reqs = <<>> /\ Len(Stream) <= Total
                                 \/ Len(reqs) = 1 /\ Len(Stream) = 0
        /\ waiting = "body" => reqs = <<>> /\ Len(Stream) <= BodyLen

(* The id of the n-th request; MaxOps <= IdMod. *)
IdOf(n) == IF n = IdMod THEN 0 ELSE n

(* Replies are contiguous: counting on from a unit within its reply one    *)
(* stays in that reply.                                                    *)
Contiguous(s) ==
    \A i, j \in 1..Len(s) :
        i <= j /\ s[i].part + (j - i) <= Total =>
            s[j].part = s[i].part + (j - i) /\ s[j].answers = s[i].answers

(* The last reply is there to its end. *)
EndsWhole(s) == Len(s) > 0 => s[Len(s)].part = Total

(* A unit carries an id that names the request it answers, up to n. *)
Named(s, n) ==
    \A i \in 1..Len(s) : s[i].answers <= n /\ s[i].id = IdOf(s[i].answers)

(* Ids name their requests, and none is from the future. *)
IdInv ==
    /\ invoke = IdOf(op)
    /\ \A i \in 1..Len(reqs) : reqs[i].op <= op /\ reqs[i].id = IdOf(reqs[i].op)
    /\ Named(Stream, op)

(* The stream is made of replies, of which a failure may have taken the    *)
(* beginning and only a closed connection the end.                         *)
StreamInv ==
    /\ Contiguous(Stream)
    /\ conn = "up" => EndsWhole(Stream)
    /\ reqs # <<>> => conn = "up"
    /\ conn = "none" => waiting = "nothing" /\ Len(Stream) = 0

(* A client that waits for a body waits for the right one. *)
BodyInv ==
    waiting = "body" =>
        IF Len(Stream) = 0 THEN conn # "up"
        ELSE Stream[1].answers = op

(* With ids, the invariant that carries AnswersOwnRequest. *)
TaggedInv == IdInv /\ StreamInv /\ BodyInv /\ AnswersOwnRequest

----------------------------------------------------------------------------
(* The increment of _invoke in terms of the integer order. *)
LEMMA NextId ==
    ASSUME NEW m \in Nat \ {0}, NEW k \in 0..m-1
    PROVE  (k + 1) % m = IF k + 1 = m THEN 0 ELSE k + 1
<1>1. CASE k + 1 = m
  BY <1>1
<1>2. CASE k + 1 < m
  BY <1>2
<1> QED
  BY <1>1, <1>2

(* Dropping units leaves a suffix. *)
LEMMA DropIsSuffix ==
    ASSUME NEW S, NEW s \in Seq(S), NEW n \in 0..Len(s)
    PROVE  /\ Drop(s, n) \in Seq(S)
           /\ Len(Drop(s, n)) = Len(s) - n
           /\ \A i \in 1..(Len(s) - n) : Drop(s, n)[i] = s[i + n]
BY DEF Drop

(* A reply is a sequence of units of the stream. *)
LEMMA ReplyFacts ==
    ASSUME ClientAssumption,
           NEW r \in [id : 0..IdMod-1, op : 1..MaxOps], NEW nak \in BOOLEAN
    PROVE  /\ Reply(r, nak) \in Seq(Unit)
           /\ Len(Reply(r, nak)) = Total
           /\ \A i \in 1..Total :
                 /\ Reply(r, nak)[i].answers = r.op
                 /\ Reply(r, nak)[i].id = r.id
                 /\ Reply(r, nak)[i].part = i
<1>1. Total \in Nat
  BY DEF ClientAssumption, Total
<1>2. \A i \in 1..Total :
         [answers |-> r.op, id |-> r.id, part |-> i, nak |-> nak] \in Unit
  BY DEF Unit, Total
<1>3. Reply(r, nak) \in [1..Total -> Unit]
  BY <1>2 DEF Reply, Total
<1> QED
  BY <1>1, <1>3, SeqDef, LenProperties DEF Reply, Total

----------------------------------------------------------------------------
Request == [id : 0..IdMod-1, op : 1..MaxOps]

(* The client's variables, the requests and the stream keep their types:   *)
(* an id stays below IdMod and every unit is part of a reply.              *)
LEMMA TypeStep == ASSUME ClientAssumption, TypeInv, [Next]_vars PROVE TypeInv'
<1> USE DEF TypeInv, TypeOK
<1>0. reqs \in Seq(Request) /\ Len(rx) \in Nat /\ Len(wire) \in Nat
  BY LenProperties DEF Request
<1>1. CASE Begin
  <2>1. op' \in 1..MaxOps /\ invoke' \in 0..IdMod-1
    BY <1>1, NextId DEF Begin, ClientAssumption
  <2>2. [id |-> invoke', op |-> op'] \in Request
    BY <2>1 DEF Request
  <2>3. reqs' \in Seq(Request)
    BY <1>0, <1>1, <2>2, AppendProperties DEF Begin
  <2>4. TypeOK'
    BY <1>1, <2>1, <2>3 DEF Begin, Request
  <2> QED
    BY <1>1, <2>1, <2>4 DEF Begin
<1>2. CASE BeginOnDeadSocket
  <2>1. op' \in 1..MaxOps /\ invoke' \in 0..IdMod-1
    BY <1>2, NextId DEF BeginOnDeadSocket, ClientAssumption
  <2>2. /\ waiting' \in {"nothing", "header", "body"}
        /\ clean' \in BOOLEAN
    BY <1>2 DEF BeginOnDeadSocket
  <2>3. UNCHANGED <<conn, reqs, wire, rx, accepted>>
    BY <1>2 DEF BeginOnDeadSocket
  <2> QED
    BY <2>1, <2>2, <2>3
<1>3. CASE Serve
  <2>1. Head(reqs) \in Request /\ Tail(reqs) \in Seq(Request)
    BY <1>0, <1>3, HeadTailProperties DEF Serve
  <2>2. PICK nak \in BOOLEAN : wire' = wire \o Reply(Head(reqs), nak)
    BY <1>3 DEF Serve
  <2>3. Reply(Head(reqs), nak) \in Seq(Unit)
    BY <2>1, ReplyFacts DEF Request
  <2>4. wire' \in Seq(Unit)
    BY <2>2, <2>3, ConcatProperties
  <2> QED
    BY <1>3, <2>1, <2>4 DEF Serve, Request
<1>4. CASE Arrive
  BY <1>4, HeadTailProperties, AppendProperties DEF Arrive
<1>5. CASE ReadHeader
  <2>1. rx' \in Seq(Unit)
    BY <1>0, <1>5, DropIsSuffix DEF ReadHeader, ClientAssumption
  <2> QED
    BY <1>5, <2>1 DEF ReadHeader
<1>6. CASE RejectHeader
  <2>1. rx' \in Seq(Unit)
    BY <1>0, <1>6, DropIsSuffix DEF RejectHeader, ClientAssumption
  <2> QED
    BY <1>6, <2>1 DEF RejectHeader, Fail
<1>7. CASE ReadBody
  <2>1. rx' \in Seq(Unit)
    BY <1>0, <1>7, DropIsSuffix DEF ReadBody, ClientAssumption
  <2>2. rx # <<>>
    BY <1>7, EmptySeq DEF ReadBody, ClientAssumption
  <2>3. Head(rx) \in Unit
    BY <2>2, HeadTailProperties
  <2>4. Head(rx).answers \in 1..MaxOps
    BY <2>3 DEF Unit
  <2>5. op \in 1..MaxOps
    BY <1>7 DEF ReadBody, ClientAssumption
  <2>6. accepted' \subseteq [op : 1..MaxOps, answers : 1..MaxOps]
    BY <1>7, <2>4, <2>5 DEF ReadBody
  <2> QED
    BY <1>7, <2>1, <2>6 DEF ReadBody
<1>8. CASE Timeout
  BY <1>8, EmptySeq DEF Timeout, Fail
<1>9. CASE PeerCloses
  BY <1>9, EmptySeq DEF PeerCloses
<1>10. CASE Close
  BY <1>10, EmptySeq DEF Close
<1>11. CASE UNCHANGED vars
  BY <1>11 DEF vars
<1> QED
  BY <1>1, <1>2, <1>3, <1>4, <1>5, <1>6, <1>7, <1>8, <1>9, <1>10, <1>11 DEF Next

(* The connection keeps its types, and a client that waits has begun.      *)
THEOREM ClientTypes == Spec => []TypeInv
<1>1. Init => TypeInv
  BY ClientAssumption, EmptySeq DEF Init, TypeInv, TypeOK, ClientAssumption
<1>2. TypeInv /\ [Next]_vars => TypeInv'
  BY ClientAssumption, TypeStep
<1> QED
  BY <1>1, <1>2, PTL DEF Spec

(* An id stays below IdMod however long the client runs.                   *)
THEOREM ClientTypeCorrect == Spec => []TypeOK
<1>1. TypeInv => TypeOK
  BY DEF TypeInv
<1> QED
  BY <1>1, ClientTypes, PTL

----------------------------------------------------------------------------
(* What each kind of step does to the stream. *)
LEMMA StreamFacts ==
    ASSUME ClientAssumption, TypeInv
    PROVE  /\ Stream \in Seq(Unit) /\ rx \in Seq(Unit) /\ wire \in Seq(Unit)
           /\ Len(rx) \in Nat /\ Len(wire) \in Nat
           /\ Len(Stream) = Len(rx) + Len(wire)
           /\ \A i \in 1..Len(rx) : Stream[i] = rx[i]
           /\ \A i \in 1..Len(wire) : Stream[i + Len(rx)] = wire[i]
BY ConcatProperties, LenProperties DEF Stream, TypeInv, TypeOK

(* The client starts a request or the stream is handed over: no change.    *)
LEMMA StreamStays ==
    ASSUME ClientAssumption, TypeInv,
           UNCHANGED <<rx, wire>> \/ Arrive
    PROVE  Stream' = Stream
<1>1. CASE UNCHANGED <<rx, wire>>
  BY <1>1 DEF Stream
<1>2. CASE Arrive
  <2>1. wire # <<>> /\ wire \in Seq(Unit) /\ rx \in Seq(Unit)
    BY <1>2 DEF Arrive, TypeInv, TypeOK
  <2>2. Head(wire) \in Unit /\ Tail(wire) \in Seq(Unit)
    BY <2>1, HeadTailProperties
  <2>3. rx' = rx \o <<Head(wire)>>
    BY <1>2, <2>1, <2>2, AppendIsConcat DEF Arrive
  <2>4. <<Head(wire)>> \in Seq(Unit)
    BY <2>2
  <2>5. wire = <<Head(wire)>> \o Tail(wire)
    BY <2>1, <2>2, <2>4, HeadTailProperties, ConcatProperties, SeqEqual
  <2>6. rx' \o wire' = rx \o (<<Head(wire)>> \o Tail(wire))
    BY <1>2, <2>1, <2>2, <2>3, <2>4, ConcatAssociative DEF Arrive
  <2> QED
    BY <2>5, <2>6 DEF Stream
<1> QED
  BY <1>1, <1>2

(* The device adds a reply. *)
LEMMA StreamGrows ==
    ASSUME ClientAssumption, TypeInv, Serve
    PROVE  /\ Len(reqs) > 0 /\ Len(reqs') = Len(reqs) - 1
           /\ \A i \in 1..Len(reqs') : reqs'[i] = reqs[i + 1]
           /\ Len(Stream') = Len(Stream) + Total
           /\ \A i \in 1..Len(Stream) : Stream'[i] = Stream[i]
           /\ \A i \in 1..Total :
                 /\ Stream'[i + Len(Stream)].answers = reqs[1].op
                 /\ Stream'[i + Len(Stream)].id = reqs[1].id
                 /\ Stream'[i + Len(Stream)].part = i
<1>1. reqs \in Seq(Request) /\ reqs # <<>>
  BY DEF TypeInv, TypeOK, Request, Serve
<1>2. Head(reqs) \in Request /\ Head(reqs) = reqs[1] /\ Len(reqs) > 0
  BY <1>1, HeadTailProperties, EmptySeq
<1>3. PICK nak \in BOOLEAN : wire' = wire \o Reply(reqs[1], nak)
  BY <1>2 DEF Serve
<1>4. /\ Reply(reqs[1], nak) \in Seq(Unit)
      /\ Len(Reply(reqs[1], nak)) = Total
      /\ \A i \in 1..Total :
            /\ Reply(reqs[1], nak)[i].answers = reqs[1].op
            /\ Reply(reqs[1], nak)[i].id = reqs[1].id
            /\ Reply(reqs[1], nak)[i].part = i
  BY <1>2, ReplyFacts DEF Request
<1>5. Stream \in Seq(Unit) /\ wire \in Seq(Unit) /\ rx \in Seq(Unit)
  BY StreamFacts
<1>6. Stream' = Stream \o Reply(reqs[1], nak)
  <2>1. Stream' = rx \o (wire \o Reply(reqs[1], nak))
    BY <1>3 DEF Stream, Serve
  <2> QED
    BY <2>1, <1>4, <1>5, ConcatAssociative DEF Stream
<1>7. /\ Len(Stream \o Reply(reqs[1], nak)) = Len(Stream) + Total
      /\ \A i \in 1..(Len(Stream) + Total) : (Stream \o Reply(reqs[1], nak))[i] =
             IF i <= Len(Stream) THEN Stream[i] ELSE Reply(reqs[1], nak)[i - Len(Stream)]
  BY <1>4, <1>5, ConcatProperties
<1>8. Len(Stream) \in Nat /\ Total \in Nat
  BY <1>5, LenProperties DEF Total, ClientAssumption
<1>9. Len(reqs') = Len(reqs) - 1 /\ \A i \in 1..Len(reqs') : reqs'[i] = reqs[i + 1]
  BY <1>1, HeadTailProperties DEF Serve
<1>10. \A i \in 1..Total :
          Stream'[i + Len(Stream)] = Reply(reqs[1], nak)[i]
  BY <1>6, <1>7, <1>8
<1>11. \A i \in 1..Len(Stream) : Stream'[i] = Stream[i]
  BY <1>6, <1>7, <1>8
<1> QED
  BY <1>2, <1>4, <1>6, <1>7, <1>9, <1>10, <1>11

(* The client reads n units off, or throws away what it has received.      *)
LEMMA StreamShrinks ==
    ASSUME ClientAssumption, TypeInv, NEW n \in 0..Len(rx),
           rx' = Drop(rx, n), wire' = wire
    PROVE  /\ Len(Stream') = Len(Stream) - n
           /\ \A i \in 1..Len(Stream') : Stream'[i] = Stream[i + n]
<1>1. /\ Stream \in Seq(Unit) /\ rx \in Seq(Unit) /\ wire \in Seq(Unit)
      /\ Len(rx) \in Nat /\ Len(wire) \in Nat
      /\ Len(Stream) = Len(rx) + Len(wire)
      /\ \A i \in 1..Len(rx) : Stream[i] = rx[i]
      /\ \A i \in 1..Len(wire) : Stream[i + Len(rx)] = wire[i]
  BY StreamFacts
<1>2. /\ rx' \in Seq(Unit) /\ Len(rx') = Len(rx) - n
      /\ \A i \in 1..(Len(rx) - n) : rx'[i] = rx[i + n]
  BY <1>1, DropIsSuffix
<1>3. /\ Len(Stream') = Len(rx') + Len(wire)
      /\ \A i \in 1..Len(rx') + Len(wire) : Stream'[i] =
             IF i <= Len(rx') THEN rx'[i] ELSE wire[i - Len(rx')]
  BY <1>1, <1>2, ConcatProperties, ZenonT(30) DEF Stream
<1>4. ASSUME NEW i \in 1..Len(Stream'), i <= Len(rx')
      PROVE  Stream'[i] = Stream[i + n]
  BY <1>1, <1>2, <1>3, <1>4
<1>5. ASSUME NEW i \in 1..Len(Stream'), i > Len(rx')
      PROVE  Stream'[i] = Stream[i + n]
  <2>0. i \in 1..(Len(rx') + Len(wire)) /\ Len(rx') \in Nat
    BY <1>1, <1>2, <1>3
  <2>1. Stream'[i] = wire[i - Len(rx')] /\ i - Len(rx') \in 1..Len(wire)
    <3>1. Stream'[i] = IF i <= Len(rx') THEN rx'[i] ELSE wire[i - Len(rx')]
      BY <1>3, <2>0
    <3>2. ~(i <= Len(rx')) /\ i - Len(rx') \in 1..Len(wire)
      BY <1>1, <1>5, <2>0
    <3> QED
      BY <3>1, <3>2
  <2>2. Stream[(i - Len(rx')) + Len(rx)] = wire[i - Len(rx')]
    BY <1>1, <2>1
  <2>3. (i - Len(rx')) + Len(rx) = i + n
    BY <1>1, <1>2, <1>5
  <2> QED
    BY <2>1, <2>2, <2>3
<1> QED
  BY <1>1, <1>2, <1>3, <1>4, <1>5
(* A timeout throws away all that was received, a hang-up what was not.    *)
LEMMA StreamCut ==
    ASSUME ClientAssumption, TypeInv
    PROVE  /\ rx' = <<>> /\ wire' = wire =>
                 /\ Len(Stream') = Len(Stream) - Len(rx)
                 /\ \A i \in 1..Len(Stream') : Stream'[i] = Stream[i + Len(rx)]
           /\ rx' = rx /\ wire' = <<>> =>
                 /\ Len(Stream') = Len(rx)
                 /\ \A i \in 1..Len(Stream') : Stream'[i] = Stream[i]
           /\ rx' = <<>> /\ wire' = <<>> => Len(Stream') = 0
<1>1. /\ rx \in Seq(Unit) /\ wire \in Seq(Unit)
      /\ Len(rx) \in Nat /\ Len(wire) \in Nat
      /\ Len(Stream) = Len(rx) + Len(wire)
      /\ \A i \in 1..Len(rx) : Stream[i] = rx[i]
      /\ \A i \in 1..Len(wire) : Stream[i + Len(rx)] = wire[i]
  BY StreamFacts
<1>2. /\ rx' = <<>> /\ wire' = wire => Stream' = wire
      /\ rx' = rx /\ wire' = <<>> => Stream' = rx
      /\ rx' = <<>> /\ wire' = <<>> => Stream' = <<>>
  BY <1>1, ConcatEmptySeq, EmptySeq DEF Stream
<1> QED
  BY <1>1, <1>2, EmptySeq

----------------------------------------------------------------------------
(* One step keeps a connection without failures in step.                   *)
LEMMA InStepStep ==
    ASSUME ClientAssumption, TypeInv, InStep, [Next]_vars
    PROVE  InStep'
<1>0. /\ Len(rx) \in Nat /\ Len(wire) \in Nat
      /\ Len(Stream) = Len(rx) + Len(wire)
      /\ reqs \in Seq(Request) /\ Len(reqs) \in Nat
      /\ waiting \in {"nothing", "header", "body"}
  BY StreamFacts, LenProperties DEF TypeInv, TypeOK, Request
<1>00. HeaderLen \in Nat \ {0} /\ BodyLen \in Nat \ {0} /\ Total = HeaderLen + BodyLen
  BY DEF ClientAssumption, Total
<1>1. CASE Begin
  <2>1. Stream' = Stream
    BY <1>1, StreamStays DEF Begin
  <2>2. clean => reqs' = <<[id |-> invoke', op |-> op']>>
    BY <1>1 DEF Begin, InStep
  <2> QED
    BY <1>1, <2>1, <2>2 DEF Begin, InStep
<1>2. CASE BeginOnDeadSocket
  <2>1. Stream' = Stream
    BY <1>2, StreamStays DEF BeginOnDeadSocket
  <2>2. waiting = "nothing" /\ reqs' = reqs
    BY <1>2 DEF BeginOnDeadSocket
  <2>3. clean' => clean /\ waiting' = "header"
    BY <1>2, Zenon DEF BeginOnDeadSocket
  <2>4. clean => reqs' = <<>> /\ Len(Stream') = 0
    BY <2>1, <2>2 DEF InStep
  <2> QED
    BY <1>00, <2>3, <2>4 DEF InStep
<1>3. CASE Serve
  <2>1. reqs # <<>> /\ UNCHANGED <<waiting, clean>> /\ reqs' = Tail(reqs)
    BY <1>3 DEF Serve
  <2>2. Len(Stream') = Len(Stream) + Total /\ Len(reqs') = Len(reqs) - 1
    BY <1>3, StreamGrows
  <2>3. clean => waiting = "header" /\ Len(reqs) = 1 /\ Len(Stream) = 0
    BY <1>0, <2>1 DEF InStep
  <2>4. reqs' \in Seq(Request)
    BY <1>0, <2>1, HeadTailProperties
  <2>5. Len(reqs') = 0 => reqs' = <<>>
    BY <2>4, EmptySeq
  <2> QED
    BY <1>0, <1>00, <2>1, <2>2, <2>3, <2>5 DEF InStep
<1>4. CASE Arrive
  <2>1. Stream' = Stream
    BY <1>4, StreamStays
  <2> QED
    BY <1>4, <2>1 DEF Arrive, InStep
<1>5. CASE ReadHeader
  <2>1. Len(Stream') = Len(Stream) - HeaderLen
    BY <1>0, <1>00, <1>5, StreamShrinks DEF ReadHeader
  <2> QED
    BY <1>0, <1>00, <1>5, <2>1 DEF ReadHeader, InStep
<1>6. CASE RejectHeader
  BY <1>6 DEF RejectHeader, Fail, InStep
<1>7. CASE ReadBody
  <2>1. Len(Stream') = Len(Stream) - BodyLen
    BY <1>0, <1>00, <1>7, StreamShrinks DEF ReadBody
  <2> QED
    BY <1>0, <1>00, <1>7, <2>1 DEF ReadBody, InStep
<1>8. CASE Timeout
  BY <1>8 DEF Timeout, Fail, InStep
<1>9. CASE PeerCloses
  <2>1. Len(Stream') = Len(rx) /\ reqs' = <<>>
    BY <1>9, StreamCut DEF PeerCloses
  <2>2. UNCHANGED <<waiting, clean>>
    BY <1>9 DEF PeerCloses
  <2> QED
    BY <1>0, <1>00, <2>1, <2>2 DEF InStep
<1>10. CASE Close
  <2>1. Len(Stream') = 0
    BY <1>10, StreamCut DEF Close
  <2> QED
    BY <1>10, <2>1 DEF Close, InStep
<1>11. CASE UNCHANGED vars
  <2>1. Stream' = Stream
    BY <1>11, StreamStays DEF vars
  <2> QED
    BY <1>11, <2>1 DEF vars, InStep
<1> QED
  BY <1>1, <1>2, <1>3, <1>4, <1>5, <1>6, <1>7, <1>8, <1>9, <1>10, <1>11 DEF Next

(* On a connection where nothing has failed nothing is in flight between   *)
(* two transactions, with or without ids and for any size of replies.      *)
THEOREM CleanConnectionsPairUp == Spec => []CleanConnectionsAreInStep
<1>1. Init => InStep
  BY EmptySeq, ConcatEmptySeq DEF Init, InStep, Stream
<1>2. InStep /\ TypeInv /\ [Next]_vars => InStep'
  BY ClientAssumption, InStepStep
<1>3. InStep /\ TypeInv => CleanConnectionsAreInStep
  <2> SUFFICES ASSUME InStep, TypeInv, clean, waiting = "nothing"
               PROVE  reqs = <<>> /\ wire = <<>> /\ rx = <<>>
    BY DEF CleanConnectionsAreInStep
  <2>1. reqs = <<>> /\ Len(Stream) = 0
    BY DEF InStep
  <2>2. Len(rx) = 0 /\ Len(wire) = 0
    BY <2>1, ClientAssumption, StreamFacts
  <2> QED
    BY <2>1, <2>2, EmptySeq DEF TypeInv, TypeOK
<1> QED
  BY <1>1, <1>2, <1>3, ClientTypes, PTL DEF Spec

----------------------------------------------------------------------------
(* Losing the beginning of the stream. *)
LEMMA SuffixKeeps ==
    ASSUME NEW s \in Seq(Unit), NEW t \in Seq(Unit), NEW k \in Nat, NEW n \in Nat,
           Len(t) = Len(s) - k,
           \A i \in 1..Len(t) : t[i] = s[i + k]
    PROVE  /\ Contiguous(s) => Contiguous(t)
           /\ EndsWhole(s) => EndsWhole(t)
           /\ Named(s, n) => Named(t, n)
<1>1. Len(s) \in Nat /\ Len(t) \in Nat
  BY LenProperties
<1>2. Contiguous(s) => Contiguous(t)
  <2> SUFFICES ASSUME Contiguous(s), NEW i \in 1..Len(t), NEW j \in 1..Len(t),
                      i <= j, t[i].part + (j - i) <= Total
               PROVE  t[j].part = t[i].part + (j - i) /\ t[j].answers = t[i].answers
    BY DEF Contiguous
  <2>1. /\ i + k \in 1..Len(s) /\ j + k \in 1..Len(s) /\ i + k <= j + k
        /\ (j + k) - (i + k) = j - i
    BY <1>1
  <2>2. t[i] = s[i + k] /\ t[j] = s[j + k]
    OBVIOUS
  <2> QED
    BY <2>1, <2>2 DEF Contiguous
<1>3. EndsWhole(s) => EndsWhole(t)
  BY <1>1 DEF EndsWhole
<1>4. Named(s, n) => Named(t, n)
  BY <1>1 DEF Named
<1> QED
  BY <1>2, <1>3, <1>4

(* Losing the end of the stream. *)
LEMMA PrefixKeeps ==
    ASSUME NEW s \in Seq(Unit), NEW t \in Seq(Unit), NEW n \in Nat,
           Len(t) <= Len(s),
           \A i \in 1..Len(t) : t[i] = s[i]
    PROVE  /\ Contiguous(s) => Contiguous(t)
           /\ Named(s, n) => Named(t, n)
<1>1. Len(s) \in Nat /\ Len(t) \in Nat
  BY LenProperties
<1>2. \A i \in 1..Len(t) : i \in 1..Len(s) /\ t[i] = s[i]
  BY <1>1
<1> QED
  BY <1>2 DEF Contiguous, Named

(* A whole reply after a stream that ends with a whole reply. *)
LEMMA GrowthKeeps ==
    ASSUME ClientAssumption,
           NEW s \in Seq(Unit), NEW t \in Seq(Unit),
           NEW r \in Request, NEW n \in Nat, r.op <= n, r.id = IdOf(r.op),
           Len(t) = Len(s) + Total,
           \A i \in 1..Len(s) : t[i] = s[i],
           \A i \in 1..Total : /\ t[i + Len(s)].answers = r.op
                               /\ t[i + Len(s)].id = r.id
                               /\ t[i + Len(s)].part = i
    PROVE  /\ Contiguous(s) /\ EndsWhole(s) => Contiguous(t)
           /\ EndsWhole(t)
           /\ Named(s, n) => Named(t, n)
<1>1. Len(s) \in Nat /\ Total \in Nat \ {0}
  BY LenProperties DEF ClientAssumption, Total
<1>2. \A i \in 1..Len(t) : i <= Len(s) \/ i - Len(s) \in 1..Total
  BY <1>1
<1>3. \A i \in 1..Len(t) : i > Len(s) =>
          t[i].answers = r.op /\ t[i].id = r.id /\ t[i].part = i - Len(s)
  <2> SUFFICES ASSUME NEW i \in 1..Len(t), i > Len(s)
               PROVE  t[i].answers = r.op /\ t[i].id = r.id /\ t[i].part = i - Len(s)
    OBVIOUS
  <2>1. i - Len(s) \in 1..Total /\ (i - Len(s)) + Len(s) = i
    BY <1>1
  <2> QED
    BY <2>1
<1>4. \A i \in 1..Len(s) : s[i].part \in Int
  <2>1. \A i \in 1..Len(s) : s[i] \in Unit
    BY ElementOfSeq
  <2> QED
    BY <2>1, SMTT(30) DEF Unit, ClientAssumption
<1>5. ASSUME Contiguous(s), EndsWhole(s) PROVE Contiguous(t)
  <2> SUFFICES ASSUME NEW i \in 1..Len(t), NEW j \in 1..Len(t),
                      i <= j, t[i].part + (j - i) <= Total
               PROVE  t[j].part = t[i].part + (j - i) /\ t[j].answers = t[i].answers
    BY DEF Contiguous
  <2>1. CASE j <= Len(s)
    <3>1. i \in 1..Len(s) /\ j \in 1..Len(s)
      BY <1>1, <2>1
    <3>2. t[i] = s[i] /\ t[j] = s[j]
      BY <3>1
    <3> QED
      BY <1>5, <3>1, <3>2 DEF Contiguous
  <2>2. CASE i > Len(s)
    <3>1. j > Len(s)
      BY <1>1, <2>2
    <3>2. /\ t[i].answers = r.op /\ t[i].part = i - Len(s)
          /\ t[j].answers = r.op /\ t[j].part = j - Len(s)
      BY <1>3, <2>2, <3>1
    <3> QED
      BY <1>1, <3>2
  <2>3. CASE i <= Len(s) /\ j > Len(s)
    <3>1. i \in 1..Len(s) /\ Len(s) \in 1..Len(s) /\ t[i] = s[i] /\ s[i].part \in Int
      BY <1>1, <1>4, <2>3
    <3>2. s[i].part + (Len(s) - i) < Total
      BY <1>1, <2>3, <3>1
    <3>3. s[Len(s)].part = s[i].part + (Len(s) - i)
      <4>1. i <= Len(s) /\ s[i].part + (Len(s) - i) <= Total
        BY <1>1, <2>3, <3>1, <3>2
      <4> QED
        BY <1>5, <3>1, <4>1 DEF Contiguous
    <3>4. s[Len(s)].part = Total
      BY <1>5, <3>1 DEF EndsWhole
    <3> QED
      BY <1>1, <3>1, <3>2, <3>3, <3>4
  <2> QED
    BY <1>1, <2>1, <2>2, <2>3
<1>6. EndsWhole(t)
  <2>1. Total \in 1..Total /\ Len(t) = Total + Len(s)
    BY <1>1
  <2> QED
    BY <2>1 DEF EndsWhole
<1>7. ASSUME Named(s, n) PROVE Named(t, n)
  <2> SUFFICES ASSUME NEW i \in 1..Len(t)
               PROVE  t[i].answers <= n /\ t[i].id = IdOf(t[i].answers)
    BY DEF Named
  <2>1. CASE i <= Len(s)
    <3>1. i \in 1..Len(s) /\ t[i] = s[i]
      BY <1>1, <2>1
    <3> QED
      BY <1>7, <3>1 DEF Named
  <2>2. CASE i > Len(s)
    BY <1>3, <2>2
  <2> QED
    BY <1>1, <2>1, <2>2
<1> QED
  BY <1>5, <1>6, <1>7

----------------------------------------------------------------------------
(* One step keeps the ids apart and the stream a sequence of replies: the  *)
(* two facts about what is in flight.                                      *)
LEMMA FlightStep ==
    ASSUME ClientAssumption, TypeInv, TypeInv', IdInv, StreamInv, [Next]_vars
    PROVE  IdInv' /\ StreamInv'
<1>0. /\ Stream \in Seq(Unit) /\ Stream' \in Seq(Unit)
      /\ Len(Stream) \in Nat /\ Len(rx) \in Nat /\ Len(wire) \in Nat
      /\ Len(Stream) = Len(rx) + Len(wire)
      /\ reqs \in Seq(Request) /\ Len(reqs) \in Nat /\ op \in Nat
  <2>1. Stream' \in Seq(Unit)
    BY ConcatProperties DEF TypeInv, TypeOK, Stream
  <2> QED
    BY <2>1, StreamFacts, LenProperties DEF TypeInv, TypeOK, Request
<1>00. HeaderLen \in Nat /\ BodyLen \in Nat /\ Total \in Nat
  BY DEF ClientAssumption, Total
<1>01. Stream' = Stream =>
          /\ Contiguous(Stream)' /\ (EndsWhole(Stream) => EndsWhole(Stream)')
          /\ \A n \in Nat : Named(Stream, n) => Named(Stream, n)'
  BY DEF Contiguous, EndsWhole, Named, StreamInv
<1>02. IdOf(op) = op \/ op = MaxOps
  BY DEF IdOf, TypeInv, TypeOK, ClientAssumption
<1>1. CASE Begin
  <2>1. Stream' = Stream
    BY <1>1, StreamStays DEF Begin
  <2>2. op' = op + 1 /\ invoke' = IdOf(op') /\ op' \in 1..MaxOps /\ invoke' \in 0..IdMod-1
    <3>1. op' = op + 1 /\ op < MaxOps /\ invoke' = (invoke + 1) % IdMod
      BY <1>1 DEF Begin
    <3>2. invoke = op /\ invoke \in 0..IdMod-1 /\ IdMod \in Nat \ {0}
      BY <1>02, <3>1 DEF IdInv, TypeInv, TypeOK, ClientAssumption
    <3>3. (invoke + 1) % IdMod = IdOf(op + 1)
      BY <3>2, NextId DEF IdOf
    <3>4. op' \in 1..MaxOps /\ invoke' \in 0..IdMod-1
      BY <3>1, <3>2, <3>3 DEF IdOf, TypeInv, TypeOK, ClientAssumption
    <3> QED
      BY <3>1, <3>3, <3>4
  <2>3. [id |-> invoke', op |-> op'] \in Request
    BY <2>2 DEF Request
  <2>4. /\ Len(reqs') = Len(reqs) + 1
        /\ \A i \in 1..Len(reqs) : reqs'[i] = reqs[i]
        /\ reqs'[Len(reqs) + 1] = [id |-> invoke', op |-> op']
    BY <1>0, <1>1, <2>3, AppendProperties DEF Begin
  <2>5. \A i \in 1..Len(reqs') : reqs'[i].op <= op' /\ reqs'[i].id = IdOf(reqs'[i].op)
    <3> SUFFICES ASSUME NEW i \in 1..Len(reqs')
                 PROVE  reqs'[i].op <= op' /\ reqs'[i].id = IdOf(reqs'[i].op)
      OBVIOUS
    <3>1. CASE i <= Len(reqs)
      <4>1. i \in 1..Len(reqs) /\ reqs'[i] = reqs[i]
        BY <1>0, <2>4, <3>1
      <4>2. reqs[i] \in Request
        BY <1>0, <4>1, ElementOfSeq
      <4>3. reqs[i].op \in Nat
        BY <4>2 DEF Request, ClientAssumption
      <4>4. reqs[i].op <= op /\ reqs[i].id = IdOf(reqs[i].op)
        BY <4>1 DEF IdInv
      <4> QED
        BY <1>0, <2>2, <4>1, <4>3, <4>4, SMTT(30)
    <3>2. CASE i = Len(reqs) + 1
      BY <2>2, <2>4, <3>2
    <3> QED
      BY <1>0, <2>4, <3>1, <3>2
  <2>6. Named(Stream, op)'
    <3> SUFFICES ASSUME NEW i \in 1..Len(Stream)
                 PROVE  Stream[i].answers <= op + 1 /\ Stream[i].id = IdOf(Stream[i].answers)
      BY <2>1, <2>2 DEF Named
    <3>1. Stream[i] \in Unit
      BY <1>0, ElementOfSeq
    <3>2. Stream[i].answers \in Nat
      BY <3>1 DEF Unit, ClientAssumption
    <3> QED
      BY <1>0, <3>2 DEF IdInv, Named
  <2>7. conn = "none" => EndsWhole(Stream)
    BY <1>0 DEF StreamInv, EndsWhole
  <2>8. conn' = "up" /\ (conn = "up" \/ conn = "none")
    BY <1>1 DEF Begin, TypeInv, TypeOK
  <2> QED
    BY <1>01, <2>1, <2>2, <2>5, <2>6, <2>7, <2>8 DEF IdInv, StreamInv
<1>2. CASE BeginOnDeadSocket
  <2>1. Stream' = Stream
    BY <1>2, StreamStays DEF BeginOnDeadSocket
  <2>2. op' = op + 1 /\ invoke' = IdOf(op') /\ reqs' = reqs /\ conn = "dead" /\ conn' = "dead"
    BY <1>2, <1>02, NextId, SMTT(30) DEF BeginOnDeadSocket, IdInv, IdOf, TypeInv, TypeOK, ClientAssumption
  <2>3. reqs = <<>>
    BY <2>2 DEF StreamInv
  <2>4. Named(Stream, op)'
    <3> SUFFICES ASSUME NEW i \in 1..Len(Stream)
                 PROVE  Stream[i].answers <= op + 1 /\ Stream[i].id = IdOf(Stream[i].answers)
      BY <2>1, <2>2 DEF Named
    <3>1. Stream[i] \in Unit
      BY <1>0, ElementOfSeq
    <3>2. Stream[i].answers \in Nat
      BY <3>1 DEF Unit, ClientAssumption
    <3> QED
      BY <1>0, <3>2 DEF IdInv, Named
  <2>5. IdInv'
    BY <2>2, <2>3, <2>4, EmptySeq DEF IdInv
  <2> QED
    BY <1>01, <2>1, <2>2, <2>3, <2>5 DEF StreamInv
<1>3. CASE Serve
  <2>1. UNCHANGED <<conn, op, invoke, waiting>> /\ reqs # <<>>
    BY <1>3 DEF Serve
  <2>2. /\ Len(reqs) > 0 /\ Len(reqs') = Len(reqs) - 1
        /\ \A i \in 1..Len(reqs') : reqs'[i] = reqs[i + 1]
        /\ Len(Stream') = Len(Stream) + Total
        /\ \A i \in 1..Len(Stream) : Stream'[i] = Stream[i]
        /\ \A i \in 1..Total :
              /\ Stream'[i + Len(Stream)].answers = reqs[1].op
              /\ Stream'[i + Len(Stream)].id = reqs[1].id
              /\ Stream'[i + Len(Stream)].part = i
    BY <1>3, StreamGrows
  <2>3. reqs[1] \in Request /\ reqs[1].op <= op /\ reqs[1].id = IdOf(reqs[1].op)
    BY <1>0, <2>2, ElementOfSeq DEF IdInv
  <2>4. /\ Contiguous(Stream) /\ EndsWhole(Stream) => Contiguous(Stream')
        /\ EndsWhole(Stream')
        /\ Named(Stream, op) => Named(Stream', op)
    BY <1>0, <2>2, <2>3, GrowthKeeps
  <2>5. conn = "up" /\ Contiguous(Stream) /\ EndsWhole(Stream) /\ Named(Stream, op)
    BY <2>1 DEF IdInv, StreamInv
  <2>6. \A i \in 1..Len(reqs') : i + 1 \in 1..Len(reqs)
    BY <1>0, <2>2
  <2>7. \A i \in 1..Len(reqs') : reqs'[i].op <= op /\ reqs'[i].id = IdOf(reqs'[i].op)
    <3> SUFFICES ASSUME NEW i \in 1..Len(reqs')
                 PROVE  reqs'[i].op <= op /\ reqs'[i].id = IdOf(reqs'[i].op)
      OBVIOUS
    <3>1. i + 1 \in 1..Len(reqs) /\ reqs'[i] = reqs[i + 1]
      BY <2>2, <2>6
    <3> QED
      BY <3>1 DEF IdInv
  <2>8. Contiguous(Stream') /\ EndsWhole(Stream') /\ Named(Stream', op)
    BY <2>4, <2>5
  <2>9. IdInv'
    BY <2>1, <2>7, <2>8 DEF IdInv, Named
  <2> QED
    BY <2>1, <2>5, <2>8, <2>9 DEF StreamInv, Contiguous, EndsWhole
<1>4. CASE Arrive
  <2>1. Stream' = Stream
    BY <1>4, StreamStays
  <2>2. UNCHANGED <<conn, op, invoke, waiting, reqs>>
    BY <1>4 DEF Arrive
  <2> QED
    BY <1>0, <1>01, <2>1, <2>2 DEF IdInv, StreamInv
<1>5. ASSUME NEW n \in 0..Len(rx), rx' = Drop(rx, n) \/ (rx' = <<>> /\ n = Len(rx)), wire' = wire,
             waiting # "nothing", UNCHANGED <<conn, op, invoke, reqs>>
      PROVE  IdInv' /\ StreamInv'
  <2>1. /\ Len(Stream') = Len(Stream) - n
        /\ \A i \in 1..Len(Stream') : Stream'[i] = Stream[i + n]
    BY <1>5, StreamShrinks, StreamCut
  <2>2. /\ Contiguous(Stream) => Contiguous(Stream')
        /\ EndsWhole(Stream) => EndsWhole(Stream')
        /\ Named(Stream, op) => Named(Stream', op)
    BY <1>0, <2>1, SuffixKeeps
  <2>3. conn # "none"
    BY <1>5 DEF StreamInv
  <2>4. Contiguous(Stream)' /\ (conn = "up" => EndsWhole(Stream)') /\ Named(Stream, op)'
    BY <1>5, <2>2 DEF Contiguous, EndsWhole, Named, IdInv, StreamInv
  <2> QED
    BY <1>5, <2>3, <2>4 DEF IdInv, StreamInv
<1>6. CASE ReadHeader
  BY <1>0, <1>00, <1>5, <1>6 DEF ReadHeader
<1>7. CASE RejectHeader
  BY <1>0, <1>00, <1>5, <1>7 DEF RejectHeader
<1>8. CASE ReadBody
  BY <1>0, <1>00, <1>5, <1>8 DEF ReadBody
<1>9. CASE Timeout
  <2>1. rx' = <<>> /\ Len(rx) \in 0..Len(rx) /\ wire' = wire /\ waiting # "nothing"
        /\ UNCHANGED <<conn, op, invoke, reqs>>
    BY <1>0, <1>9 DEF Timeout
  <2> QED
    BY <1>5, <2>1
<1>10. CASE PeerCloses
  <2>1. /\ Len(Stream') = Len(rx)
        /\ \A i \in 1..Len(Stream') : Stream'[i] = Stream[i]
    BY <1>10, StreamCut DEF PeerCloses
  <2>2. /\ Contiguous(Stream) => Contiguous(Stream')
        /\ Named(Stream, op) => Named(Stream', op)
    BY <1>0, <2>1, PrefixKeeps
  <2>3. UNCHANGED <<op, invoke>> /\ reqs' = <<>> /\ conn' = "dead"
    BY <1>10 DEF PeerCloses
  <2>4. Contiguous(Stream)' /\ Named(Stream, op)'
    BY <2>2, <2>3 DEF Contiguous, Named, IdInv, StreamInv
  <2>5. IdInv'
    BY <2>3, <2>4, EmptySeq DEF IdInv
  <2> QED
    BY <2>3, <2>4, <2>5 DEF StreamInv
<1>11. CASE Close
  <2>1. Len(Stream') = 0
    BY <1>11, StreamCut DEF Close
  <2>2. UNCHANGED <<op, invoke, waiting>> /\ reqs' = <<>> /\ conn' = "none" /\ waiting = "nothing"
    BY <1>11 DEF Close
  <2>3. IdInv'
    BY <2>1, <2>2, EmptySeq DEF IdInv, Named
  <2> QED
    BY <2>1, <2>2, <2>3 DEF StreamInv, Contiguous
<1>12. CASE UNCHANGED vars
  <2>1. Stream' = Stream /\ UNCHANGED <<conn, op, invoke, waiting, reqs>>
    BY <1>12, StreamStays DEF vars
  <2> QED
    BY <1>0, <1>01, <2>1 DEF IdInv, StreamInv
<1> QED
  BY <1>1, <1>2, <1>3, <1>4, <1>6, <1>7, <1>8, <1>9, <1>10, <1>11, <1>12 DEF Next
(* Ids of different requests differ. *)
LEMMA IdsDiffer ==
    ASSUME ClientAssumption, NEW m \in 1..MaxOps, NEW n \in 1..MaxOps, IdOf(m) = IdOf(n)
    PROVE  m = n
BY DEF ClientAssumption, IdOf

(* A header with the id of the latest request is followed by its body, or  *)
(* by the end of a closed connection.                                      *)
LEMMA HeaderLeadsToBody ==
    ASSUME Tagged, ClientAssumption, TypeInv, IdInv, StreamInv, ReadHeader
    PROVE  BodyInv'
<1>0. /\ Stream \in Seq(Unit) /\ rx \in Seq(Unit)
      /\ Len(rx) \in Nat /\ Len(wire) \in Nat
      /\ Len(Stream) = Len(rx) + Len(wire)
      /\ \A i \in 1..Len(rx) : Stream[i] = rx[i]
  BY StreamFacts
<1>00. HeaderLen \in Nat \ {0} /\ BodyLen \in Nat \ {0} /\ Total = HeaderLen + BodyLen
  BY DEF ClientAssumption, Total
<1>1. /\ waiting = "header" /\ Len(rx) >= HeaderLen /\ rx' = Drop(rx, HeaderLen)
      /\ wire' = wire /\ UNCHANGED <<conn, op>>
      /\ Head(rx).part = 1 /\ Head(rx).id = invoke
  BY DEF ReadHeader, HeaderAccepted
<1>2. HeaderLen \in 0..Len(rx) /\ 1 \in 1..Len(rx) /\ 1 \in 1..Len(Stream)
  BY <1>0, <1>00, <1>1
<1>3. Head(rx) = Stream[1] /\ Stream[1] \in Unit
  BY <1>0, <1>2, ElementOfSeq
<1>4. Stream[1].part = 1 /\ Stream[1].answers = op
  <2>1. Stream[1].answers \in 1..MaxOps /\ Stream[1].answers <= op
    BY <1>2, <1>3 DEF Unit, IdInv, Named
  <2>2. op \in 1..MaxOps
    BY <1>1 DEF TypeInv, TypeOK, ClientAssumption
  <2>3. IdOf(Stream[1].answers) = IdOf(op)
    BY <1>1, <1>2, <1>3 DEF IdInv, Named
  <2> QED
    BY <1>1, <1>3, <2>1, <2>2, <2>3, IdsDiffer
<1>5. /\ Len(Stream') = Len(Stream) - HeaderLen
      /\ \A i \in 1..Len(Stream') : Stream'[i] = Stream[i + HeaderLen]
  BY <1>1, <1>2, StreamShrinks
<1>6. CASE Len(Stream) = HeaderLen
  <2>1. Stream[HeaderLen].part = 1 + (HeaderLen - 1)
    <3>1. HeaderLen \in 1..Len(Stream) /\ 1 <= HeaderLen /\ 1 + (HeaderLen - 1) <= Total
      BY <1>00, <1>6
    <3> QED
      BY <1>2, <1>4, <3>1 DEF StreamInv, Contiguous
  <2>2. Stream[Len(Stream)].part # Total
    BY <1>00, <1>6, <2>1
  <2>3. conn # "up"
    BY <1>2, <1>6, <1>00, <2>2 DEF StreamInv, EndsWhole
  <2>4. Len(Stream') = 0
    BY <1>00, <1>5, <1>6
  <2> QED
    BY <1>1, <2>3, <2>4 DEF BodyInv
<1>7. CASE Len(Stream) > HeaderLen
  <2>1. Stream[1 + HeaderLen].answers = op
    <3>1. /\ 1 + HeaderLen \in 1..Len(Stream) /\ 1 <= 1 + HeaderLen
          /\ 1 + ((1 + HeaderLen) - 1) <= Total
      BY <1>0, <1>00, <1>7
    <3> QED
      BY <1>2, <1>4, <3>1 DEF StreamInv, Contiguous
  <2>2. 1 \in 1..Len(Stream') /\ Len(Stream') # 0
    BY <1>0, <1>00, <1>5, <1>7
  <2>3. Stream'[1].answers = op
    BY <1>5, <2>1, <2>2
  <2> QED
    BY <1>1, <2>2, <2>3 DEF BodyInv
<1> QED
  BY <1>0, <1>00, <1>1, <1>6, <1>7

(* A client that waits for a body goes on waiting for the right one.       *)
LEMMA BodyStep ==
    ASSUME Tagged, ClientAssumption, TypeInv, IdInv, StreamInv, BodyInv, [Next]_vars
    PROVE  BodyInv'
<1> SUFFICES ASSUME waiting' = "body", ~ReadHeader
             PROVE  BodyInv'
  BY HeaderLeadsToBody DEF BodyInv
<1>1. waiting = "body" /\ op' = op
  BY DEF Next, Begin, BeginOnDeadSocket, Serve, Arrive, RejectHeader, ReadBody,
         Timeout, PeerCloses, Close, Fail, vars
<1>2. CASE Serve
  <2>1. conn = "up" /\ conn' = conn
    BY <1>2 DEF Serve, StreamInv
  <2>2. Len(Stream) \in Nat /\ Len(Stream) # 0
    BY <1>1, <2>1, StreamFacts DEF BodyInv
  <2>3. Total \in Nat /\ Len(Stream') = Len(Stream) + Total /\ Stream'[1] = Stream[1]
    BY <1>2, <2>2, StreamGrows DEF Total, ClientAssumption
  <2> QED
    BY <1>1, <2>2, <2>3 DEF BodyInv
<1>3. CASE PeerCloses
  <2>1. /\ Len(Stream') = Len(rx) /\ conn' = "dead"
        /\ \A i \in 1..Len(Stream') : Stream'[i] = Stream[i]
    BY <1>3, StreamCut DEF PeerCloses
  <2>2. Len(rx) \in Nat /\ Len(wire) \in Nat /\ Len(Stream) = Len(rx) + Len(wire)
    BY StreamFacts
  <2>3. CASE Len(rx) = 0
    BY <2>1, <2>3 DEF BodyInv
  <2>4. CASE Len(rx) > 0
    <3>1. 1 \in 1..Len(Stream') /\ Len(Stream') # 0 /\ Len(Stream) # 0
      BY <2>1, <2>2, <2>4
    <3> QED
      BY <1>1, <2>1, <3>1 DEF BodyInv
  <2> QED
    BY <2>2, <2>3, <2>4
<1>4. CASE ~Serve /\ ~PeerCloses
  <2>1. (UNCHANGED <<rx, wire>> \/ Arrive) /\ conn' = conn
    BY <1>1, <1>4 DEF Next, Begin, BeginOnDeadSocket, Arrive, RejectHeader, ReadBody,
                      Timeout, Close, Fail, vars
  <2>2. Stream' = Stream
    BY <2>1, StreamStays
  <2> QED
    BY <1>1, <2>1, <2>2 DEF BodyInv
<1> QED
  BY <1>2, <1>3, <1>4

(* The body that is read answers the request that waits for it.            *)
LEMMA AnswerStep ==
    ASSUME ClientAssumption, TypeInv, BodyInv, AnswersOwnRequest, [Next]_vars
    PROVE  AnswersOwnRequest'
<1>1. CASE ReadBody
  <2>1. /\ Len(rx) \in Nat /\ Len(wire) \in Nat /\ rx \in Seq(Unit)
        /\ Len(Stream) = Len(rx) + Len(wire)
        /\ \A i \in 1..Len(rx) : Stream[i] = rx[i]
    BY StreamFacts
  <2>2. waiting = "body" /\ Len(rx) >= BodyLen /\ BodyLen \in Nat \ {0}
    BY <1>1 DEF ReadBody, ClientAssumption
  <2>3. 1 \in 1..Len(rx) /\ Len(Stream) # 0
    BY <2>1, <2>2
  <2>4. Head(rx).answers = op
    BY <2>1, <2>2, <2>3 DEF BodyInv
  <2>5. accepted' = accepted \/ accepted' = accepted \cup {[op |-> op, answers |-> op]}
    BY <1>1, <2>4 DEF ReadBody
  <2> QED
    BY <2>5 DEF AnswersOwnRequest
<1>2. CASE ~ReadBody
  <2>1. accepted' = accepted
    BY <1>2 DEF Next, Begin, BeginOnDeadSocket, Serve, Arrive, ReadHeader, RejectHeader,
                Timeout, PeerCloses, Close, vars
  <2> QED
    BY <2>1 DEF AnswersOwnRequest
<1> QED
  BY <1>1, <1>2

(* With ids in the headers (FEnet), the reply a transaction returns is the *)
(* answer to its own request, whatever is late, lost, cut or left over.    *)
THEOREM TaggedAnswersOwnRequest ==
    ASSUME Tagged
    PROVE  Spec => []AnswersOwnRequest
<1>1. Init => TaggedInv
  <2> SUFFICES ASSUME Init PROVE TaggedInv
    OBVIOUS
  <2>1. Len(Stream) = 0 /\ Len(reqs) = 0
    BY EmptySeq, ConcatEmptySeq DEF Init, Stream
  <2> QED
    BY <2>1, ClientAssumption
       DEF Init, TaggedInv, IdInv, IdOf, StreamInv, BodyInv, AnswersOwnRequest,
           Contiguous, EndsWhole, Named, ClientAssumption
<1>2. TaggedInv /\ TypeInv /\ TypeInv' /\ [Next]_vars => TaggedInv'
  BY ClientAssumption, FlightStep, BodyStep, AnswerStep DEF TaggedInv
<1>3. TaggedInv => AnswersOwnRequest
  BY DEF TaggedInv
<1> QED
  BY <1>1, <1>2, <1>3, ClientTypes, PTL DEF Spec
=============================================================================

---------------------------- MODULE FieldClient ----------------------------
(***************************************************************************)
(* One connection of a PLC client (_transaction of the FEnet and MELSEC 3E *)
(* adapters) and the device that answers it over TCP.                      *)
(*                                                                         *)
(* A reply is a header and a body; the client reads it with _recv_exact,   *)
(* which throws away what it has read when the socket times out.  Neither  *)
(* a timeout nor a bad header closes the socket: the next transaction      *)
(* reads on from wherever the stream stands.                               *)
(***************************************************************************)
EXTENDS Integers, Sequences

CONSTANTS
    Tagged,     \* TRUE: header carries the request's id (FEnet); FALSE: none (MELSEC)
    IdMod,      \* number of ids, 2^16 in the code
    HeaderLen,  \* length of a reply header, in units of the stream
    BodyLen,    \* length of a reply body, in the same units
    MaxOps,     \* bound on the number of transactions
    MaxUnread   \* bound on the unread units of the stream

ASSUME ClientAssumption ==
    /\ Tagged \in BOOLEAN
    /\ IdMod \in Nat \ {0}
    /\ HeaderLen \in Nat \ {0}
    /\ BodyLen \in Nat \ {0}
    /\ MaxOps \in Nat
    /\ MaxOps <= IdMod     \* fewer transactions than ids: an id names one of them
    /\ MaxUnread \in Nat

VARIABLES
    conn,     \* "none", "up", or "dead": the peer has closed, the client has not
    op,       \* number of transactions started
    invoke,   \* _invoke, the id of the latest request
    waiting,  \* what _transaction is blocked on: "nothing", "header" or "body"
    reqs,     \* requests on their way to the device
    wire,     \* reply units on their way to the client
    rx,       \* reply units in the client's receive buffer
    clean,    \* TRUE while no transaction has failed on this connection
    accepted  \* history: which request each successful transaction's reply answers

vars == <<conn, op, invoke, waiting, reqs, wire, rx, clean, accepted>>

Init ==
    /\ conn = "none"
    /\ op = 0
    /\ invoke = 0
    /\ waiting = "nothing"
    /\ reqs = <<>>
    /\ wire = <<>>
    /\ rx = <<>>
    /\ clean = TRUE
    /\ accepted = {}

Need == IF waiting = "header" THEN HeaderLen ELSE BodyLen

Drop(s, n) == SubSeq(s, n + 1, Len(s))

(* The units of the reply to request r; nak: the device reports an error. *)
Reply(r, nak) ==
    [i \in 1..(HeaderLen + BodyLen) |->
        [answers |-> r.op, id |-> r.id, part |-> i, nak |-> nak]]

(* Mutation: the id in the reply is not compared. *)
HeaderAcceptedAnyId == Head(rx).part = 1

(* parse_header: signature (company id, subheader), then the id if any. *)
HeaderAccepted ==
    /\ Head(rx).part = 1
    /\ Tagged => Head(rx).id = invoke

Fail ==
    /\ waiting' = "nothing"
    /\ clean' = FALSE

----------------------------------------------------------------------------
(* Mutation: the id never wraps around. *)
BeginUnwrapped ==
    /\ waiting = "nothing" /\ op < MaxOps /\ conn # "dead"
    /\ Len(wire) + Len(rx) <= MaxUnread
    /\ conn' = "up"
    /\ op' = op + 1
    /\ invoke' = invoke + 1
    /\ reqs' = Append(reqs, [id |-> invoke', op |-> op'])
    /\ waiting' = "header"
    /\ UNCHANGED <<wire, rx, clean, accepted>>

(* _connect when the socket is not there, then the request goes out. *)
Begin ==
    /\ waiting = "nothing" /\ op < MaxOps /\ conn # "dead"
    /\ Len(wire) + Len(rx) <= MaxUnread
    /\ conn' = "up"
    /\ op' = op + 1
    /\ invoke' = (invoke + 1) % IdMod
    /\ reqs' = Append(reqs, [id |-> invoke', op |-> op'])
    /\ waiting' = "header"
    /\ UNCHANGED <<wire, rx, clean, accepted>>

(* Sending on a socket the peer has closed raises, or goes nowhere the     *)
(* first time; either way the client keeps the socket.                     *)
BeginOnDeadSocket ==
    /\ waiting = "nothing" /\ op < MaxOps /\ conn = "dead"
    /\ op' = op + 1
    /\ invoke' = (invoke + 1) % IdMod
    /\ \/ clean' = FALSE /\ UNCHANGED waiting
       \/ waiting' = "header" /\ UNCHANGED clean
    /\ UNCHANGED <<conn, reqs, wire, rx, accepted>>

(* The device serves the oldest request, with or without an error code. *)
Serve ==
    /\ reqs # <<>>
    /\ \E nak \in BOOLEAN : wire' = wire \o Reply(Head(reqs), nak)
    /\ reqs' = Tail(reqs)
    /\ UNCHANGED <<conn, op, invoke, waiting, rx, clean, accepted>>

(* TCP hands over bytes in pieces of any size. *)
Arrive ==
    /\ wire # <<>>
    /\ rx' = Append(rx, Head(wire))
    /\ wire' = Tail(wire)
    /\ UNCHANGED <<conn, op, invoke, waiting, reqs, clean, accepted>>

ReadHeader ==
    /\ waiting = "header" /\ Len(rx) >= HeaderLen
    /\ HeaderAccepted
    /\ rx' = Drop(rx, HeaderLen)
    /\ waiting' = "body"
    /\ UNCHANGED <<conn, op, invoke, reqs, wire, clean, accepted>>

(* Wrong signature or id: an exception, and the body stays in the stream. *)
RejectHeader ==
    /\ waiting = "header" /\ Len(rx) >= HeaderLen
    /\ ~HeaderAccepted
    /\ rx' = Drop(rx, HeaderLen)
    /\ Fail
    /\ UNCHANGED <<conn, op, invoke, reqs, wire, accepted>>

(* Mutation: an error code is raised before the body is read off. *)
ReadBodyLeavesNak ==
    /\ waiting = "body" /\ Len(rx) >= BodyLen
    /\ rx' = IF Head(rx).nak THEN rx ELSE Drop(rx, BodyLen)
    /\ waiting' = "nothing"
    /\ accepted' = IF Head(rx).nak THEN accepted
                   ELSE accepted \cup {[op |-> op, answers |-> Head(rx).answers]}
    /\ UNCHANGED <<conn, op, invoke, reqs, wire, clean>>

(* The body is complete; an error code in it raises, the stream is in step. *)
ReadBody ==
    /\ waiting = "body" /\ Len(rx) >= BodyLen
    /\ rx' = Drop(rx, BodyLen)
    /\ waiting' = "nothing"
    /\ accepted' = IF Head(rx).nak THEN accepted
                   ELSE accepted \cup {[op |-> op, answers |-> Head(rx).answers]}
    /\ UNCHANGED <<conn, op, invoke, reqs, wire, clean>>

(* Mutation: the timeout counts only while nothing has arrived. *)
TimeoutWhenSilent ==
    /\ waiting # "nothing" /\ rx = <<>>
    /\ rx' = <<>>
    /\ Fail
    /\ UNCHANGED <<conn, op, invoke, reqs, wire, accepted>>

(* The socket times out, or the stream of a closed connection ends; the    *)
(* part _recv_exact has read is lost.                                      *)
Timeout ==
    /\ waiting # "nothing" /\ Len(rx) < Need
    /\ rx' = <<>>
    /\ Fail
    /\ UNCHANGED <<conn, op, invoke, reqs, wire, accepted>>

(* The device closes the connection: what is in flight is lost, what the   *)
(* client has received it can still read.                                  *)
PeerCloses ==
    /\ conn = "up"
    /\ conn' = "dead"
    /\ reqs' = <<>> /\ wire' = <<>>
    /\ UNCHANGED <<op, invoke, waiting, rx, clean, accepted>>

(* close(): the only way back to a stream that starts at a header. *)
Close ==
    /\ waiting = "nothing" /\ conn # "none"
    /\ conn' = "none"
    /\ reqs' = <<>> /\ wire' = <<>> /\ rx' = <<>>
    /\ clean' = TRUE
    /\ UNCHANGED <<op, invoke, waiting, accepted>>

Next ==
    \/ Begin \/ BeginOnDeadSocket \/ Serve \/ Arrive
    \/ ReadHeader \/ RejectHeader \/ ReadBody \/ Timeout
    \/ PeerCloses \/ Close

(* A blocked recv ends: with data, or with the socket's timeout. *)
ClientSteps == ReadHeader \/ RejectHeader \/ ReadBody \/ Timeout

Spec == Init /\ [][Next]_vars /\ WF_vars(ClientSteps)

----------------------------------------------------------------------------
Unit == [answers : 1..MaxOps, id : 0..IdMod-1,
         part : 1..(HeaderLen + BodyLen), nak : BOOLEAN]

(* Ids stay below IdMod and everything in the stream is part of a reply. *)
TypeOK ==
    /\ conn \in {"none", "up", "dead"}
    /\ op \in 0..MaxOps
    /\ invoke \in 0..IdMod-1
    /\ waiting \in {"nothing", "header", "body"}
    /\ reqs \in Seq([id : 0..IdMod-1, op : 1..MaxOps])
    /\ wire \in Seq(Unit)
    /\ rx \in Seq(Unit)
    /\ clean \in BOOLEAN
    /\ accepted \subseteq [op : 1..MaxOps, answers : 1..MaxOps]

(* The reply a transaction returns is the answer to its own request, even  *)
(* when earlier replies arrive late, in pieces, or are skipped half read.  *)
AnswersOwnRequest == \A a \in accepted : a.answers = a.op

(* On a connection where nothing has failed, replies pair up with requests *)
(* with or without ids: between two transactions nothing is in flight, so  *)
(* only a failure that leaves the socket open can bring them out of step.  *)
CleanConnectionsAreInStep ==
    clean /\ waiting = "nothing" => reqs = <<>> /\ wire = <<>> /\ rx = <<>>

(* No transaction blocks for ever, whatever the device sends or omits. *)
TransactionsEnd == waiting # "nothing" ~> waiting = "nothing"
=============================================================================

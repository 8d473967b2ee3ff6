------------------------- MODULE DirectStreamProofs -------------------------
(***************************************************************************)
(* A direct stream, for any number of messages and any capacities.         *)
(*                                                                         *)
(* AlignedDeliversPrefix speaks of what an application has got, while the  *)
(* reader that loses its place loses it at a step between two parts of a   *)
(* message on the wire.  FlowInv is therefore about the whole way: what was*)
(* delivered, the message in hand, the data channel, the message half read,*)
(* the parts on the wire, the message half written and what was accepted   *)
(* continue each other without a gap, as long as the reader is aligned.    *)
(* EndsInv says what each end knows of itself in each phase, and the type  *)
(* invariants keep the queues sequences of numbers and parts.              *)
(***************************************************************************)
EXTENDS DirectStream, Integers, TLAPS

\* The phases before a stream is set up, and all of them.
SetUp == {"dial", "awaiting", "accept"}
Bridges == {"dial", "awaiting", "accept", "select", "header", "body", "closing",
            "deliver", "ending", "done"}

\* What an end may write.
Parts == [kind : {"open", "ack", "header", "body", "close"}, n : Nat]

\* The types of the flags ...
FlagTypeOK ==
    /\ bridge \in [Ends -> Bridges]
    /\ got \in [Ends -> BOOLEAN]
    /\ aligned \in [Ends -> BOOLEAN]
    /\ table \in [Ends -> BOOLEAN]
    /\ waiting \in [Ends -> BOOLEAN]
    /\ fwd \in [Ends -> {"none", "run", "gone", "closed"}]

\* ... and of what moves.
QueueTypeOK ==
    /\ out \in [Ends -> Nat]
    /\ inhand \in [Ends -> Nat]
    /\ sent \in [Ends -> Nat]
    /\ data \in [Ends -> Seq(Nat)]
    /\ recv \in [Ends -> Seq(Nat)]
    /\ recvd \in [Ends -> Seq(Nat)]
    /\ wire \in [Ends -> Seq(Parts)]

\* Nothing has happened at an end whose stream is not set up.
Unused(e) ==
    bridge[e] \in SetUp =>
        /\ sent[e] = 0 /\ data[e] = <<>>
        /\ recv[e] = <<>> /\ recvd[e] = <<>>
        /\ ~table[e] /\ ~waiting[e] /\ ~got[e] /\ fwd[e] = "none"
        /\ bridge[e] \in {"dial", "accept"} => wire[e] = <<>>

\* The data channel has the last messages that were accepted.
Queued(d, st) ==
    /\ Len(d) <= st
    /\ \A k \in 1..Len(d) : d[k] = st - Len(d) + k

\* What was passed on is numbered from 1.
Numbered(rd, rv) ==
    /\ \A k \in 1..Len(rd) : rd[k] = k
    /\ \A k \in 1..Len(rv) : rv[k] = Len(rd) + k

\* A bridge that can still pass on what it reads.
Live(b, a, f) == a /\ b \notin {"ending", "done"} /\ f # "gone"

\* Parts before the first header, less those of the frame that is half read.
Off(b, g) == IF b \in SetUp THEN -1 ELSE IF g THEN 1 ELSE 0

\* How many messages a bridge has read.
Base(b, rd, rv) == Len(rd) + Len(rv) + IF b = "deliver" THEN 1 ELSE 0

\* Every second part is a body, and the bodies continue what was read.
Bodies(w, off, base, st) ==
    \A i \in 1..Len(w), m \in Nat \ {0} :
        i + off = 2 * m => w[i].n = base + m /\ base + m <= st

\* How far the writing bridge is.
Written(b, o, d, st, len, off, base) ==
    /\ b \in {"dial", "accept"} => len = 0 /\ base = 0 /\ off = -1
    /\ b \in {"awaiting", "select", "deliver", "closing"} =>
          2 * (st - Len(d) - base) = len + off
    /\ b = "header" => o = st - Len(d) /\ 2 * (o - 1 - base) = len + off
    /\ b = "body" => o = st - Len(d) /\ 2 * (o - 1 - base) + 1 = len + off

\* What the bridge at the receiving end has done, and what follows it in the
\* buffers and at the sending end.
FlowOf(b, g, a, h, f, rd, rv, wb, o, d, st, w) ==
    /\ a => Numbered(rd, rv) /\ Len(rd) + Len(rv) <= st
    /\ Live(b, a, f) =>
          /\ Base(b, rd, rv) <= st
          /\ b = "deliver" => h = Base(b, rd, rv)
          /\ Bodies(w, Off(b, g), Base(b, rd, rv), st)
          /\ Written(wb, o, d, st, Len(w), Off(b, g), Base(b, rd, rv))

\* The way of the messages from the end w to the end r.
Flow(r, w) ==
    FlowOf(bridge[r], got[r], aligned[r], inhand[r], fwd[r], recvd[r], recv[r],
           bridge[w], out[w], data[w], sent[w], wire[w])

\* A read that has taken a header has not lost its place.
GotOK(e) == got[e] => aligned[e] /\ bridge[e] \in {"select", "closing", "ending", "done"}

\* A send waits with its stream in the table.
TableOK(e) == waiting[e] => table[e]

\* What holds at each end, whatever the other does.
EndOK(e) ==
    /\ Unused(e) /\ GotOK(e) /\ TableOK(e)
    /\ Queued(data[e], sent[e])

\* Both ends.
EndsInv == \A e \in Ends : EndOK(e)

\* The ways of the messages, in both directions.
FlowInv == \A e \in Ends : Flow(e, Peer(e))

----------------------------------------------------------------------------
(* Parts on the wire *)

\* A part that is read moves the others up.
LEMMA BodiesTail ==
    ASSUME NEW w \in Seq(Parts), w # <<>>, NEW off \in Int, NEW base \in Nat,
           NEW st \in Nat, Bodies(w, off, base, st)
    PROVE  Bodies(Tail(w), off + 1, base, st)
<1> SUFFICES ASSUME NEW i \in 1..Len(Tail(w)), NEW m \in Nat \ {0},
                    i + (off + 1) = 2 * m
             PROVE  Tail(w)[i].n = base + m /\ base + m <= st
    BY Zenon DEF Bodies
<1>1. i + 1 \in 1..Len(w) /\ Tail(w)[i] = w[i + 1]
    OBVIOUS
<1>2. (i + 1) + off = 2 * m
    OBVIOUS
<1> QED
    BY <1>1, <1>2, Zenon DEF Bodies

\* After a header, the next part is the body of the next message.
LEMMA BodiesRead ==
    ASSUME NEW w \in Seq(Parts), w # <<>>, NEW base \in Nat, NEW st \in Nat,
           Bodies(w, 1, base, st)
    PROVE  /\ Head(w).n = base + 1 /\ base + 1 <= st
           /\ Bodies(Tail(w), 0, base + 1, st)
<1>1. Head(w) = w[1] /\ 1 \in 1..Len(w)
    OBVIOUS
<1>2. Head(w).n = base + 1 /\ base + 1 <= st
    BY <1>1 DEF Bodies
<1>3. ASSUME NEW i \in 1..Len(Tail(w)), NEW m \in Nat \ {0}, i + 0 = 2 * m
      PROVE  Tail(w)[i].n = (base + 1) + m /\ (base + 1) + m <= st
  <2>1. i + 1 \in 1..Len(w) /\ Tail(w)[i] = w[i + 1]
    OBVIOUS
  <2>2. (i + 1) + 1 = 2 * (m + 1) /\ m + 1 \in Nat \ {0}
    BY <1>3
  <2>3. w[i + 1].n = base + (m + 1) /\ base + (m + 1) <= st
    BY <2>1, <2>2, Zenon DEF Bodies
  <2> QED
    BY <2>1, <2>3
<1> QED
    BY <1>2, <1>3 DEF Bodies

\* A part that is not a body of data is written where no body is due.
LEMMA BodiesOther ==
    ASSUME NEW w \in Seq(Parts), NEW x \in Parts, NEW off \in Int, NEW q \in Int,
           NEW base \in Nat, NEW st \in Nat, Bodies(w, off, base, st),
           Len(w) + off = 2 * q
    PROVE  Bodies(Append(w, x), off, base, st)
<1> SUFFICES ASSUME NEW i \in 1..Len(Append(w, x)), NEW m \in Nat \ {0},
                    i + off = 2 * m
             PROVE  Append(w, x)[i].n = base + m /\ base + m <= st
    BY Zenon DEF Bodies
<1>1. i # Len(w) + 1
    OBVIOUS
<1>2. i \in 1..Len(w) /\ Append(w, x)[i] = w[i]
    BY <1>1
<1> QED
    BY <1>2, Zenon DEF Bodies

\* The body of the next message is written where it is due.
LEMMA BodiesBody ==
    ASSUME NEW w \in Seq(Parts), NEW o \in Nat, NEW off \in Int,
           NEW base \in Nat, NEW st \in Nat, Bodies(w, off, base, st),
           2 * (o - 1 - base) + 1 = Len(w) + off, o <= st
    PROVE  Bodies(Append(w, Part("body", o)), off, base, st)
<1> DEFINE x == Part("body", o)
<1>0. x \in Parts /\ x.n = o
    BY DEF Part, Parts
<1> HIDE DEF x
<1> SUFFICES ASSUME NEW i \in 1..Len(Append(w, x)), NEW m \in Nat \ {0},
                    i + off = 2 * m
             PROVE  Append(w, x)[i].n = base + m /\ base + m <= st
    BY Zenon DEF Bodies, x
<1>1. CASE i = Len(w) + 1
  <2>1. Append(w, x)[i] = x
    BY <1>0, <1>1
  <2>2. o = base + m
    BY <1>1
  <2> QED
    BY <1>0, <2>1, <2>2
<1>2. CASE i # Len(w) + 1
  <2>1. i \in 1..Len(w) /\ Append(w, x)[i] = w[i]
    BY <1>0, <1>2
  <2> QED
    BY <2>1, Zenon DEF Bodies
<1> QED
    BY <1>1, <1>2

\* Messages that are accepted later change nothing about the parts.
LEMMA BodiesMore ==
    ASSUME NEW w \in Seq(Parts), NEW off \in Int, NEW base \in Nat, NEW st \in Nat,
           Bodies(w, off, base, st)
    PROVE  Bodies(w, off, base, st + 1)
<1> SUFFICES ASSUME NEW i \in 1..Len(w), NEW m \in Nat \ {0}, i + off = 2 * m
             PROVE  w[i].n = base + m /\ base + m <= st + 1
    BY Zenon DEF Bodies
<1>1. w[i].n = base + m /\ base + m <= st
    BY Zenon DEF Bodies
<1> QED
    BY <1>1

\* Offsets and counts are integers.
LEMMA OffBase ==
    ASSUME NEW b, NEW g, NEW rd \in Seq(Nat), NEW rv \in Seq(Nat)
    PROVE  Off(b, g) \in Int /\ Base(b, rd, rv) \in Nat
BY DEF Off, Base

----------------------------------------------------------------------------
(* Types and ends *)

\* The ends are an end and its peer.
LEMMA EndsArePeers ==
    ASSUME NEW e \in Ends
    PROVE  Peer(e) \in Ends /\ Peer(e) # e /\ Peer(Peer(e)) = e /\ Ends = {e, Peer(e)}
BY DEF Ends, Peer

\* Every step keeps the types of the flags.
LEMMA FlagsNext == FlagTypeOK /\ [Next]_vars => FlagTypeOK'
<1> SUFFICES ASSUME FlagTypeOK, [Next]_vars PROVE FlagTypeOK'
    OBVIOUS
<1> USE DEF FlagTypeOK, Bridges, Goto, bridgeVars, tableVars, recvVars
<1>i. "i" \in Ends /\ "r" \in Ends
    BY DEF Ends
<1>1. CASE DialOpen
    BY <1>1, <1>i DEF DialOpen, Started
<1>2. CASE DialAck
    BY <1>2, <1>i DEF DialAck, Started
<1>3. CASE AcceptOpen
    BY <1>3, <1>i DEF AcceptOpen, Started
<1>4. ASSUME NEW e \in Ends, SetUpFails(e) PROVE FlagTypeOK'
    BY <1>4 DEF SetUpFails
<1>5. ASSUME NEW e \in Ends, TakeData(e) PROVE FlagTypeOK'
    BY <1>5 DEF TakeData
<1>6. ASSUME NEW e \in Ends, WriteHeader(e) PROVE FlagTypeOK'
    BY <1>6 DEF WriteHeader
<1>7. ASSUME NEW e \in Ends, WriteBody(e) PROVE FlagTypeOK'
    BY <1>7 DEF WriteBody
<1>8. ASSUME NEW e \in Ends, WriteFails(e) PROVE FlagTypeOK'
    BY <1>8 DEF WriteFails
<1>9. ASSUME NEW e \in Ends, TakeClose(e) PROVE FlagTypeOK'
    BY <1>9 DEF TakeClose
<1>10. ASSUME NEW e \in Ends, WriteClose(e) PROVE FlagTypeOK'
    BY <1>10 DEF WriteClose
<1>11. ASSUME NEW e \in Ends, ReadHeader(e) PROVE FlagTypeOK'
    BY <1>11 DEF ReadHeader
<1>12. ASSUME NEW e \in Ends, ReadBody(e) PROVE FlagTypeOK'
    BY <1>12 DEF ReadBody
<1>13. ASSUME NEW e \in Ends, ReadClose(e) PROVE FlagTypeOK'
    BY <1>13 DEF ReadClose
<1>14. ASSUME NEW e \in Ends, ReadMisaligned(e) PROVE FlagTypeOK'
    BY <1>14 DEF ReadMisaligned
<1>15. ASSUME NEW e \in Ends, ReadFails(e) PROVE FlagTypeOK'
    BY <1>15 DEF ReadFails
<1>16. ASSUME NEW e \in Ends, Deliver(e) PROVE FlagTypeOK'
    BY <1>16 DEF Deliver
<1>17. ASSUME NEW e \in Ends, DeliverFails(e) PROVE FlagTypeOK'
    BY <1>17 DEF DeliverFails
<1>18. ASSUME NEW e \in Ends, BridgeDone(e) PROVE FlagTypeOK'
    BY <1>18 DEF BridgeDone
<1>19. ASSUME NEW e \in Ends, AgentSend(e) PROVE FlagTypeOK'
    BY <1>19 DEF AgentSend
<1>20. ASSUME NEW e \in Ends, AgentSendWaits(e) PROVE FlagTypeOK'
    BY <1>20 DEF AgentSendWaits
<1>21. ASSUME NEW e \in Ends, SendResumes(e) PROVE FlagTypeOK'
    BY <1>21 DEF SendResumes
<1>22. ASSUME NEW e \in Ends, AgentClose(e) PROVE FlagTypeOK'
    BY <1>22 DEF AgentClose
<1>23. ASSUME NEW e \in Ends, AgentLeaves(e) PROVE FlagTypeOK'
    BY <1>23 DEF AgentLeaves
<1>24. ASSUME NEW e \in Ends, Forward(e) PROVE FlagTypeOK'
    BY <1>24 DEF Forward
<1>25. ASSUME NEW e \in Ends, ForwardFails(e) PROVE FlagTypeOK'
    BY <1>25 DEF ForwardFails
<1>26. ASSUME NEW e \in Ends, ForwardClosed(e) PROVE FlagTypeOK'
    BY <1>26 DEF ForwardClosed
<1>27. CASE Drop
    BY <1>27 DEF Drop
<1>28. CASE UNCHANGED vars
    BY <1>28 DEF vars
<1> QED
    BY <1>1, <1>2, <1>3, <1>4, <1>5, <1>6, <1>7, <1>8, <1>9, <1>10, <1>11,
       <1>12, <1>13, <1>14, <1>15, <1>16, <1>17, <1>18, <1>19, <1>20, <1>21,
       <1>22, <1>23, <1>24, <1>25, <1>26, <1>27, <1>28 DEF Next, BridgeStep

\* Appending, taking and dropping keep the types of the queues.
LEMMA QueueTypes ==
    ASSUME NEW S, NEW f \in [Ends -> Seq(S)], NEW e \in Ends
    PROVE  /\ [f EXCEPT ![e] = <<>>] \in [Ends -> Seq(S)]
           /\ \A x \in S : [f EXCEPT ![e] = Append(f[e], x)] \in [Ends -> Seq(S)]
           /\ f[e] # <<>> => /\ [f EXCEPT ![e] = Tail(f[e])] \in [Ends -> Seq(S)]
                             /\ Head(f[e]) \in S
OBVIOUS

\* Every step keeps the types of what moves.
LEMMA QueuesNext == QueueTypeOK /\ [Next]_vars => QueueTypeOK'
<1> SUFFICES ASSUME QueueTypeOK, [Next]_vars PROVE QueueTypeOK'
    OBVIOUS
<1> USE DEF QueueTypeOK, Write, Consume, bridgeVars, tableVars, recvVars
<1>0. \A n \in Nat : \A k \in {"open", "ack", "header", "body", "close"} : Part(k, n) \in Parts
    BY DEF Part, Parts
<1>p. \A e \in Ends : Peer(e) \in Ends
    BY DEF Ends, Peer
<1>i. "i" \in Ends /\ "r" \in Ends /\ Peer("i") = "r" /\ Peer("r") = "i"
    BY DEF Ends, Peer
<1>1. CASE DialOpen
    BY <1>1, <1>0, <1>i, QueueTypes, Zenon DEF DialOpen, Started, Arrived, Inbound
<1>2. CASE DialAck
    BY <1>2, <1>0, <1>i, QueueTypes, Zenon DEF DialAck, Started, Arrived, Inbound
<1>3. CASE AcceptOpen
  <2> DEFINE w == [wire EXCEPT !["i"] = Tail(wire["i"])]
  <2>1. w \in [Ends -> Seq(Parts)]
    BY <1>3, <1>i, QueueTypes DEF AcceptOpen, Arrived, Inbound
  <2>2. wire' = [w EXCEPT !["r"] = Append(w["r"], Part("ack", 0))]
    BY <1>3, <1>i DEF AcceptOpen
  <2> HIDE DEF w
  <2>3. wire' \in [Ends -> Seq(Parts)]
    BY <1>0, <1>i, <2>1, <2>2, QueueTypes
  <2> QED
    BY <1>3, <2>3, Zenon DEF AcceptOpen
<1>4. ASSUME NEW e \in Ends, SetUpFails(e) PROVE QueueTypeOK'
    BY <1>4, <1>0, <1>p, QueueTypes DEF SetUpFails, Arrived, Inbound, Garbage
<1>5. ASSUME NEW e \in Ends, TakeData(e) PROVE QueueTypeOK'
    BY <1>5, <1>0, <1>p, QueueTypes, Zenon DEF TakeData, Arrived, Inbound, Garbage
<1>6. ASSUME NEW e \in Ends, WriteHeader(e) PROVE QueueTypeOK'
    BY <1>6, <1>0, <1>p, QueueTypes, SMTT(30) DEF WriteHeader, Arrived, Inbound, Garbage
<1>7. ASSUME NEW e \in Ends, WriteBody(e) PROVE QueueTypeOK'
    BY <1>7, <1>0, <1>p, QueueTypes, SMTT(30) DEF WriteBody, Arrived, Inbound, Garbage
<1>8. ASSUME NEW e \in Ends, WriteFails(e) PROVE QueueTypeOK'
    BY <1>8, <1>0, <1>p, QueueTypes, SMTT(30) DEF WriteFails, Arrived, Inbound, Garbage
<1>9. ASSUME NEW e \in Ends, TakeClose(e) PROVE QueueTypeOK'
    BY <1>9, <1>0, <1>p, QueueTypes DEF TakeClose, Arrived, Inbound, Garbage
<1>10. ASSUME NEW e \in Ends, WriteClose(e) PROVE QueueTypeOK'
  <2>0. wire' = wire \/ wire' = [wire EXCEPT ![e] = Append(wire[e], Part("close", 0))]
    BY <1>10, SMTT(30) DEF WriteClose
  <2>a. CASE wire' = wire
    BY <1>10, <2>a DEF WriteClose
  <2>b. CASE wire' = [wire EXCEPT ![e] = Append(wire[e], Part("close", 0))]
    BY <1>10, <2>b, <1>0, QueueTypes, SMTT(30) DEF WriteClose
  <2> QED
    BY <2>0, <2>a, <2>b, Zenon
<1>11. ASSUME NEW e \in Ends, ReadHeader(e) PROVE QueueTypeOK'
    BY <1>11, <1>0, <1>p, QueueTypes, Zenon DEF ReadHeader, Arrived, Inbound,
       Garbage
<1>12. ASSUME NEW e \in Ends, ReadBody(e) PROVE QueueTypeOK'
  <2>1. wire' \in [Ends -> Seq(Parts)] /\ Head(Inbound(e)) \in Parts
    BY <1>12, <1>p, QueueTypes, SMTT(30) DEF ReadBody, Arrived, Inbound
  <2>2. Head(Inbound(e)).n \in Nat
    BY <2>1, SMTT(30) DEF Parts
  <2>3. inhand' \in [Ends -> Nat]
    BY <1>12, <2>2 DEF ReadBody
  <2> QED
    BY <1>12, <2>1, <2>3, Zenon DEF ReadBody
<1>13. ASSUME NEW e \in Ends, ReadClose(e) PROVE QueueTypeOK'
    BY <1>13, <1>0, <1>p, QueueTypes, Zenon DEF ReadClose, Arrived, Inbound, Garbage
<1>14. ASSUME NEW e \in Ends, ReadMisaligned(e) PROVE QueueTypeOK'
  <2>1. wire' \in [Ends -> Seq(Parts)]
    BY <1>14, <1>p, QueueTypes DEF ReadMisaligned, Inbound
  <2>0. inhand' = inhand \/ inhand' = [inhand EXCEPT ![e] = 0]
    BY <1>14 DEF ReadMisaligned, Garbage
  <2>a. CASE inhand' = inhand
    BY <1>14, <2>1, <2>a, Zenon DEF ReadMisaligned
  <2>b. CASE inhand' = [inhand EXCEPT ![e] = 0]
    BY <1>14, <2>1, <2>b, Zenon DEF ReadMisaligned
  <2> QED
    BY <2>0, <2>a, <2>b, Zenon
<1>15. ASSUME NEW e \in Ends, ReadFails(e) PROVE QueueTypeOK'
    BY <1>15, <1>0, <1>p, QueueTypes DEF ReadFails, Arrived, Inbound, Garbage
<1>16. ASSUME NEW e \in Ends, Deliver(e) PROVE QueueTypeOK'
    BY <1>16, <1>0, <1>p, QueueTypes, SMTT(30) DEF Deliver, Arrived, Inbound, Garbage
<1>17. ASSUME NEW e \in Ends, DeliverFails(e) PROVE QueueTypeOK'
    BY <1>17, <1>0, <1>p, QueueTypes, SMTT(30) DEF DeliverFails, Arrived, Inbound, Garbage
<1>18. ASSUME NEW e \in Ends, BridgeDone(e) PROVE QueueTypeOK'
  <2>0. wire' = wire \/ wire' = [wire EXCEPT ![e] = <<>>]
    BY <1>18 DEF BridgeDone
  <2>2. data' \in [Ends -> Seq(Nat)]
    BY <1>18, QueueTypes DEF BridgeDone
  <2>a. CASE wire' = wire
    BY <1>18, <2>a, <2>2 DEF BridgeDone
  <2>b. CASE wire' = [wire EXCEPT ![e] = <<>>]
    BY <1>18, <2>b, <2>2, QueueTypes DEF BridgeDone
  <2> QED
    BY <2>0, <2>a, <2>b, Zenon
<1>19. ASSUME NEW e \in Ends, AgentSend(e) PROVE QueueTypeOK'
    BY <1>19, <1>0, <1>p, QueueTypes, SMTT(30) DEF AgentSend, Arrived, Inbound, Garbage
<1>20. ASSUME NEW e \in Ends, AgentSendWaits(e) PROVE QueueTypeOK'
    BY <1>20, <1>0, <1>p, QueueTypes, SMTT(30) DEF AgentSendWaits, Arrived, Inbound, Garbage
<1>21. ASSUME NEW e \in Ends, SendResumes(e) PROVE QueueTypeOK'
    BY <1>21, <1>0, <1>p, QueueTypes, SMTT(30) DEF SendResumes, Arrived, Inbound, Garbage
<1>22. ASSUME NEW e \in Ends, AgentClose(e) PROVE QueueTypeOK'
    BY <1>22, <1>0, <1>p, QueueTypes, SMTT(30) DEF AgentClose, Arrived, Inbound, Garbage
<1>23. ASSUME NEW e \in Ends, AgentLeaves(e) PROVE QueueTypeOK'
    BY <1>23, <1>0, <1>p, QueueTypes, SMTT(30) DEF AgentLeaves, Arrived, Inbound, Garbage
<1>24. ASSUME NEW e \in Ends, Forward(e) PROVE QueueTypeOK'
    BY <1>24, <1>0, <1>p, QueueTypes, Zenon DEF Forward, Arrived, Inbound, Garbage
<1>25. ASSUME NEW e \in Ends, ForwardFails(e) PROVE QueueTypeOK'
    BY <1>25, <1>0, <1>p, QueueTypes, SMTT(30) DEF ForwardFails, Arrived, Inbound, Garbage
<1>26. ASSUME NEW e \in Ends, ForwardClosed(e) PROVE QueueTypeOK'
    BY <1>26, <1>0, <1>p, QueueTypes, SMTT(30) DEF ForwardClosed, Arrived, Inbound, Garbage
<1>27. CASE Drop
    BY <1>27 DEF Drop
<1>28. CASE UNCHANGED vars
    BY <1>28 DEF vars
<1> QED
    BY <1>1, <1>2, <1>3, <1>4, <1>5, <1>6, <1>7, <1>8, <1>9, <1>10, <1>11,
       <1>12, <1>13, <1>14, <1>15, <1>16, <1>17, <1>18, <1>19, <1>20, <1>21,
       <1>22, <1>23, <1>24, <1>25, <1>26, <1>27, <1>28, Zenon DEF Next,
       BridgeStep

----------------------------------------------------------------------------
(* The ends *)

\* The messages left in the data channel are still the last ones.
LEMMA QueuedTail ==
    ASSUME NEW d \in Seq(Nat), NEW st \in Nat, Queued(d, st), d # <<>>
    PROVE  Queued(Tail(d), st) /\ Head(d) = st - Len(Tail(d)) /\ Len(d) = Len(Tail(d)) + 1
BY DEF Queued

\* A message that is accepted is the last of them.
LEMMA QueuedAppend ==
    ASSUME NEW d \in Seq(Nat), NEW st \in Nat, Queued(d, st)
    PROVE  Queued(Append(d, st + 1), st + 1) /\ Len(Append(d, st + 1)) = Len(d) + 1
<1>1. ASSUME NEW k \in 1..Len(Append(d, st + 1))
      PROVE  Append(d, st + 1)[k] = (st + 1) - Len(Append(d, st + 1)) + k
  <2>1. CASE k = Len(d) + 1
    BY <2>1
  <2>2. CASE k # Len(d) + 1
    BY <2>2 DEF Queued
  <2> QED
    BY <2>1, <2>2
<1> QED
    BY <1>1 DEF Queued

\* An empty channel has the last none.
LEMMA QueuedEmpty == \A st \in Nat : Queued(<<>>, st)
BY DEF Queued

\* Every step keeps what holds at each end.
LEMMA EndsNext ==
    ASSUME FlagTypeOK, QueueTypeOK, EndsInv, [Next]_vars
    PROVE  EndsInv'
<1> USE DEF EndsInv, EndOK, FlagTypeOK, QueueTypeOK, Unused, SetUp, GotOK, TableOK, Goto, bridgeVars, tableVars, recvVars
<1>p. \A e \in Ends : Peer(e) \in Ends /\ Peer(e) # e
    BY SMTT(30) DEF Ends, Peer
<1>i. "i" \in Ends /\ "r" \in Ends /\ Peer("i") = "r" /\ Peer("r") = "i"
    BY DEF Ends, Peer
<1>1. CASE DialOpen
    BY <1>1, <1>i, ZenonT(30) DEF DialOpen, Write
<1>2. CASE DialAck
  <2>1. EndOK("i")'
    BY <1>2, <1>i DEF DialAck, Started, Consume, Arrived, Inbound
  <2>2. EndOK("r")'
    BY <1>2, <1>i DEF DialAck, Started, Consume, Arrived, Inbound
  <2> QED
    BY <2>1, <2>2, ZenonT(30) DEF Ends
<1>3. CASE AcceptOpen
  <2>1. EndOK("i")'
    BY <1>3, <1>i DEF AcceptOpen, Started, Arrived, Inbound
  <2>2. EndOK("r")'
    BY <1>3, <1>i DEF AcceptOpen, Started, Arrived, Inbound
  <2> QED
    BY <2>1, <2>2, ZenonT(30) DEF Ends
<1>4. ASSUME NEW e \in Ends, SetUpFails(e) PROVE EndsInv'
    BY <1>4, <1>p, SMTT(30) DEF SetUpFails
<1>5. ASSUME NEW e \in Ends, TakeData(e) PROVE EndsInv'
    BY <1>5, <1>p, QueuedTail, ZenonT(30) DEF TakeData
<1>6. ASSUME NEW e \in Ends, WriteHeader(e) PROVE EndsInv'
    BY <1>6, <1>p, ZenonT(30) DEF WriteHeader, Write
<1>7. ASSUME NEW e \in Ends, WriteBody(e) PROVE EndsInv'
    BY <1>7, <1>p, SMTT(30) DEF WriteBody, Write
<1>8. ASSUME NEW e \in Ends, WriteFails(e) PROVE EndsInv'
    BY <1>8, <1>p, SMTT(30) DEF WriteFails
<1>9. ASSUME NEW e \in Ends, TakeClose(e) PROVE EndsInv'
    BY <1>9, <1>p, SMTT(30) DEF TakeClose
<1>10. ASSUME NEW e \in Ends, WriteClose(e) PROVE EndsInv'
    BY <1>10, <1>p, SMTT(30) DEF WriteClose, Write
<1>11. ASSUME NEW e \in Ends, ReadHeader(e) PROVE EndsInv'
    BY <1>11, <1>p, ZenonT(60) DEF ReadHeader, Consume, Arrived, Inbound, Reading
<1>12. ASSUME NEW e \in Ends, ReadBody(e) PROVE EndsInv'
    BY <1>12, <1>p DEF ReadBody, Consume, Arrived, Inbound, Reading
<1>13. ASSUME NEW e \in Ends, ReadClose(e) PROVE EndsInv'
    BY <1>13, <1>p, ZenonT(30) DEF ReadClose, Consume, Arrived, Inbound, Reading
<1>14. ASSUME NEW e \in Ends, ReadMisaligned(e) PROVE EndsInv'
  <2>1. PICK b \in {"ending", "deliver"} : bridge' = [bridge EXCEPT ![e] = b]
    BY <1>14 DEF ReadMisaligned
  <2>2. ~got[e]
    BY <1>14 DEF ReadMisaligned
  <2> QED
    BY <1>14, <1>p, <2>1, <2>2, ZenonT(30) DEF ReadMisaligned, Consume, Inbound
<1>15. ASSUME NEW e \in Ends, ReadFails(e) PROVE EndsInv'
    BY <1>15, <1>p, SMTT(30) DEF ReadFails
<1>16. ASSUME NEW e \in Ends, Deliver(e) PROVE EndsInv'
    BY <1>16, <1>p, SMTT(30) DEF Deliver
<1>17. ASSUME NEW e \in Ends, DeliverFails(e) PROVE EndsInv'
    BY <1>17, <1>p, SMTT(30) DEF DeliverFails
<1>18. ASSUME NEW e \in Ends, BridgeDone(e) PROVE EndsInv'
    BY <1>18, <1>p, QueuedEmpty, SMTT(30) DEF BridgeDone
<1>19. ASSUME NEW e \in Ends, AgentSend(e) PROVE EndsInv'
    BY <1>19, <1>p, QueuedAppend, ZenonT(30) DEF AgentSend
<1>20. ASSUME NEW e \in Ends, AgentSendWaits(e) PROVE EndsInv'
    BY <1>20, <1>p, SMTT(30) DEF AgentSendWaits
<1>21. ASSUME NEW e \in Ends, SendResumes(e) PROVE EndsInv'
    BY <1>21, <1>p, QueuedAppend, ZenonT(30) DEF SendResumes
<1>22. ASSUME NEW e \in Ends, AgentClose(e) PROVE EndsInv'
    BY <1>22, <1>p, SMTT(30) DEF AgentClose
<1>23. ASSUME NEW e \in Ends, AgentLeaves(e) PROVE EndsInv'
    BY <1>23, <1>p, SMTT(30) DEF AgentLeaves
<1>24. ASSUME NEW e \in Ends, Forward(e) PROVE EndsInv'
    BY <1>24, <1>p, SMTT(30) DEF Forward
<1>25. ASSUME NEW e \in Ends, ForwardFails(e) PROVE EndsInv'
    BY <1>25, <1>p DEF ForwardFails
<1>26. ASSUME NEW e \in Ends, ForwardClosed(e) PROVE EndsInv'
    BY <1>26, <1>p, SMTT(30) DEF ForwardClosed
<1>27. CASE Drop
    BY <1>27, SMTT(30) DEF Drop
<1>28. CASE UNCHANGED vars
    BY <1>28 DEF vars
<1> QED
    BY <1>1, <1>2, <1>3, <1>4, <1>5, <1>6, <1>7, <1>8, <1>9, <1>10, <1>11,
       <1>12, <1>13, <1>14, <1>15, <1>16, <1>17, <1>18, <1>19, <1>20, <1>21,
       <1>22, <1>23, <1>24, <1>25, <1>26, <1>27, <1>28, Zenon DEF Next,
       BridgeStep

----------------------------------------------------------------------------
(* The way of the messages *)

\* Out of its loop a bridge reads no more, whatever happens to the rest.
LEMMA FlowEnds ==
    ASSUME NEW b, NEW g, NEW a, NEW h, NEW f, NEW rd, NEW rv, NEW wb, NEW o,
           NEW d, NEW st, NEW w, FlowOf(b, g, a, h, f, rd, rv, wb, o, d, st, w),
           NEW b2 \in {"ending", "done"}, NEW f2, NEW g2, NEW h2, NEW wb2, NEW o2, NEW d2, NEW w2
    PROVE  FlowOf(b2, g2, a, h2, f2, rd, rv, wb2, o2, d2, st, w2)
BY DEF FlowOf, Live

\* A bridge that has lost its place is not spoken of.
LEMMA FlowLost ==
    ASSUME NEW b, NEW g, NEW h, NEW f, NEW rd, NEW rv, NEW wb, NEW o, NEW d, NEW st, NEW w
    PROVE  FlowOf(b, g, FALSE, h, f, rd, rv, wb, o, d, st, w)
BY DEF FlowOf, Live

\* A bridge that turns to writing, and back, has read as much as before.
LEMMA FlowMoves ==
    ASSUME NEW b \in {"select", "header", "body", "closing"},
           NEW b2 \in {"select", "header", "body", "closing"},
           NEW g, NEW a, NEW h, NEW f, NEW rd, NEW rv, NEW wb, NEW o,
           NEW d, NEW st, NEW w, FlowOf(b, g, a, h, f, rd, rv, wb, o, d, st, w)
    PROVE  FlowOf(b2, g, a, h, f, rd, rv, wb, o, d, st, w)
<1>1. Off(b, g) = Off(b2, g) /\ Base(b, rd, rv) = Base(b2, rd, rv)
    BY DEF Off, Base, SetUp
<1>2. Live(b2, a, f) => Live(b, a, f)
    BY DEF Live
<1> QED
    BY <1>1, <1>2 DEF FlowOf

\* A part that is read leaves the account of the writer right: the frame that
\* is waited for, a header, a body.
LEMMA WrittenOne ==
    ASSUME NEW wb, NEW o \in Nat, NEW d \in Seq(Nat), NEW st \in Nat,
           NEW w \in Seq(Parts), w # <<>>, NEW base \in Nat
    PROVE  /\ Written(wb, o, d, st, Len(w), -1, base)
                => Written(wb, o, d, st, Len(Tail(w)), 0, base)
           /\ Written(wb, o, d, st, Len(w), 0, base)
                => Written(wb, o, d, st, Len(Tail(w)), 1, base)
           /\ Written(wb, o, d, st, Len(w), 1, base)
                => Written(wb, o, d, st, Len(Tail(w)), 0, base + 1)
<1> DEFINE l == Len(w)
           l2 == Len(Tail(w))
           sd == st - Len(d)
<1>1. l \in Nat \ {0} /\ l2 \in Nat /\ l2 = l - 1 /\ sd \in Int
    OBVIOUS
<1> HIDE DEF l, l2, sd
<1>2. /\ l # 0
      /\ 2 * (sd - base) = l + (-1) => 2 * (sd - base) = l2 + 0
      /\ 2 * (o - 1 - base) = l + (-1) => 2 * (o - 1 - base) = l2 + 0
      /\ 2 * (o - 1 - base) + 1 = l + (-1) => 2 * (o - 1 - base) + 1 = l2 + 0
      /\ 2 * (sd - base) = l + 0 => 2 * (sd - base) = l2 + 1
      /\ 2 * (o - 1 - base) = l + 0 => 2 * (o - 1 - base) = l2 + 1
      /\ 2 * (o - 1 - base) + 1 = l + 0 => 2 * (o - 1 - base) + 1 = l2 + 1
      /\ 2 * (sd - base) = l + 1 => 2 * (sd - (base + 1)) = l2 + 0
      /\ 2 * (o - 1 - base) = l + 1 => 2 * (o - 1 - (base + 1)) = l2 + 0
      /\ 2 * (o - 1 - base) + 1 = l + 1 => 2 * (o - 1 - (base + 1)) + 1 = l2 + 0
    BY <1>1
<1> QED
    BY <1>2, ZenonT(30) DEF l, l2, sd, Written

\* A header was read.
LEMMA FlowHeaderRead ==
    ASSUME NEW h, NEW f, NEW rd \in Seq(Nat), NEW rv \in Seq(Nat), NEW wb, NEW o \in Nat,
           NEW d \in Seq(Nat), NEW st \in Nat, NEW w \in Seq(Parts), w # <<>>,
           FlowOf("select", FALSE, TRUE, h, f, rd, rv, wb, o, d, st, w)
    PROVE  FlowOf("select", TRUE, TRUE, h, f, rd, rv, wb, o, d, st, Tail(w))
<1> DEFINE base == Base("select", rd, rv)
<1>1. base \in Nat /\ Off("select", FALSE) = 0 /\ Off("select", TRUE) = 1
    BY DEF Base, Off, SetUp
<1>2. Len(Tail(w)) = Len(w) - 1 /\ Len(w) \in Nat \ {0} /\ Len(d) \in Nat
    OBVIOUS
<1> HIDE DEF base
<1>3. ASSUME f # "gone"
      PROVE  /\ Bodies(Tail(w), 1, base, st)
             /\ Written(wb, o, d, st, Len(Tail(w)), 1, base)
  <2>1. Bodies(w, 0, base, st) /\ Written(wb, o, d, st, Len(w), 0, base)
    BY <1>1, <1>3, Zenon DEF FlowOf, Live, base
  <2>2. Bodies(Tail(w), 0 + 1, base, st)
    BY <1>1, <2>1, BodiesTail
  <2>3. Written(wb, o, d, st, Len(Tail(w)), 1, base)
    BY <1>1, <1>2, <2>1, WrittenOne
  <2> QED
    BY <2>2, <2>3
<1> QED
    BY <1>1, <1>3, Zenon DEF FlowOf, Live, base

\* A body was read: it is the message after those read before.
LEMMA FlowBodyRead ==
    ASSUME NEW h, NEW f, NEW rd \in Seq(Nat), NEW rv \in Seq(Nat), NEW wb, NEW o \in Nat,
           NEW d \in Seq(Nat), NEW st \in Nat, NEW w \in Seq(Parts), w # <<>>,
           FlowOf("select", TRUE, TRUE, h, f, rd, rv, wb, o, d, st, w)
    PROVE  FlowOf("deliver", FALSE, TRUE, Head(w).n, f, rd, rv, wb, o, d, st, Tail(w))
<1> DEFINE base == Base("select", rd, rv)
<1>1. /\ base \in Nat /\ Off("select", TRUE) = 1 /\ Off("deliver", FALSE) = 0
      /\ Base("deliver", rd, rv) = base + 1
    BY DEF Base, Off, SetUp
<1>2. Len(Tail(w)) = Len(w) - 1 /\ Len(w) \in Nat \ {0} /\ Len(d) \in Nat
    OBVIOUS
<1> HIDE DEF base
<1>3. ASSUME f # "gone"
      PROVE  /\ Bodies(Tail(w), 0, base + 1, st)
             /\ Written(wb, o, d, st, Len(Tail(w)), 0, base + 1)
             /\ Head(w).n = base + 1 /\ base + 1 <= st
  <2>1. Bodies(w, 1, base, st) /\ Written(wb, o, d, st, Len(w), 1, base)
    BY <1>1, <1>3, Zenon DEF FlowOf, Live, base
  <2>2. /\ Bodies(Tail(w), 0, base + 1, st)
        /\ Head(w).n = base + 1 /\ base + 1 <= st
    BY <1>1, <2>1, BodiesRead
  <2>3. Written(wb, o, d, st, Len(Tail(w)), 0, base + 1)
    BY <1>1, <1>2, <2>1, WrittenOne
  <2> QED
    BY <2>2, <2>3
<1> QED
    BY <1>1, <1>3, Zenon DEF FlowOf, Live

\* The message in hand enters the receive channel.
LEMMA FlowDelivered ==
    ASSUME NEW a \in BOOLEAN, NEW h \in Nat, NEW f, NEW rd \in Seq(Nat), NEW rv \in Seq(Nat),
           NEW wb, NEW o, NEW d, NEW st \in Nat, NEW w, f # "gone",
           FlowOf("deliver", FALSE, a, h, f, rd, rv, wb, o, d, st, w)
    PROVE  FlowOf("select", FALSE, a, h, f, rd, Append(rv, h), wb, o, d, st, w)
<1>1. CASE a
  <2>1. /\ Len(Append(rv, h)) = Len(rv) + 1 /\ Append(rv, h) \in Seq(Nat)
        /\ \A k \in 1..Len(rv) : Append(rv, h)[k] = rv[k]
        /\ Append(rv, h)[Len(rv) + 1] = h
    OBVIOUS
  <2>2. /\ h = Len(rd) + Len(rv) + 1 /\ h <= st
        /\ Numbered(rd, rv)
    BY <1>1 DEF FlowOf, Live, Base
  <2>3. Numbered(rd, Append(rv, h))
    <3>1. ASSUME NEW k \in 1..Len(Append(rv, h))
          PROVE  Append(rv, h)[k] = Len(rd) + k
      <4>1. CASE k = Len(rv) + 1
        BY <2>1, <2>2, <4>1
      <4>2. CASE k # Len(rv) + 1
        <5>1. k \in 1..Len(rv)
            BY <2>1, <4>2
        <5> QED
            BY <2>1, <2>2, <5>1 DEF Numbered
      <4> QED
        BY <4>1, <4>2
    <3> QED
      BY <2>2, <3>1, SMTT(30) DEF Numbered
  <2>4. /\ Base("select", rd, Append(rv, h)) = Base("deliver", rd, rv)
        /\ Off("select", FALSE) = Off("deliver", FALSE)
    BY <2>1 DEF Base, Off, SetUp
  <2>5. Len(rd) + Len(Append(rv, h)) <= st
    BY <2>1, <2>2
  <2> QED
    BY <1>1, <2>3, <2>4, <2>5, Zenon DEF FlowOf, Live
<1>2. CASE ~a
    BY <1>2, Zenon DEF FlowOf, Live
<1> QED
    BY <1>1, <1>2, Zenon

\* A message is given to the agent.
LEMMA FlowForwarded ==
    ASSUME NEW b, NEW g, NEW a, NEW h, NEW f, NEW rd \in Seq(Nat), NEW rv \in Seq(Nat),
           rv # <<>>, NEW wb, NEW o, NEW d, NEW st, NEW w,
           FlowOf(b, g, a, h, f, rd, rv, wb, o, d, st, w)
    PROVE  FlowOf(b, g, a, h, f, Append(rd, Head(rv)), Tail(rv), wb, o, d, st, w)
<1> DEFINE rd2 == Append(rd, Head(rv))
           rv2 == Tail(rv)
<1>1. /\ Len(rd2) = Len(rd) + 1 /\ Len(rv2) = Len(rv) - 1 /\ Len(rv) \in Nat \ {0}
      /\ \A k \in 1..Len(rd) : rd2[k] = rd[k]
      /\ rd2[Len(rd) + 1] = rv[1]
      /\ \A k \in 1..Len(rv2) : rv2[k] = rv[k + 1]
    OBVIOUS
<1> HIDE DEF rd2, rv2
<1>2. Numbered(rd, rv) => Numbered(rd2, rv2)
  <2> SUFFICES ASSUME Numbered(rd, rv)
               PROVE  Numbered(rd2, rv2)
    OBVIOUS
  <2>1. ASSUME NEW k \in 1..Len(rd2)
        PROVE  rd2[k] = k
    <3>1. CASE k = Len(rd) + 1
      <4>1. rv[1] = Len(rd) + 1
        BY <1>1 DEF Numbered
      <4> QED
        BY <1>1, <3>1, <4>1
    <3>2. CASE k # Len(rd) + 1
      <4>1. k \in 1..Len(rd)
        BY <1>1, <3>2, SMTT(30)
      <4> QED
        BY <1>1, <4>1, ZenonT(30) DEF Numbered
    <3> QED
      BY <3>1, <3>2
  <2>2. ASSUME NEW k \in 1..Len(rv2)
        PROVE  rv2[k] = Len(rd2) + k
    <3>1. k + 1 \in 1..Len(rv)
      BY <1>1
    <3>2. rv[k + 1] = Len(rd) + (k + 1)
      BY <3>1, SMTT(30) DEF Numbered
    <3> QED
      BY <1>1, <3>2, SMTT(30)
  <2> QED
    BY <2>1, <2>2 DEF Numbered
<1>3. Base(b, rd2, rv2) = Base(b, rd, rv) /\ Len(rd2) + Len(rv2) = Len(rd) + Len(rv)
    BY <1>1, SMTT(30) DEF Base
<1>4. FlowOf(b, g, a, h, f, rd2, rv2, wb, o, d, st, w)
    BY <1>2, <1>3 DEF FlowOf
<1> QED
    BY <1>4 DEF rd2, rv2

\* The forwarder has dropped the receive channel.
LEMMA FlowGone ==
    ASSUME NEW b, NEW g, NEW a, NEW h, NEW f, NEW rd \in Seq(Nat), NEW rv \in Seq(Nat),
           NEW wb, NEW o, NEW d, NEW st \in Nat, NEW w,
           FlowOf(b, g, a, h, f, rd, rv, wb, o, d, st, w)
    PROVE  FlowOf(b, g, a, h, "gone", rd, <<>>, wb, o, d, st, w)
BY DEF FlowOf, Live, Numbered

\* The dial or the accept reads the frame it waits for and the bridge starts.
LEMMA FlowStarts ==
    ASSUME NEW b \in SetUp, NEW a, NEW h, NEW f, f # "gone", NEW wb, NEW o \in Nat,
           NEW d \in Seq(Nat), NEW st \in Nat, NEW w \in Seq(Parts), w # <<>>,
           NEW rd \in Seq(Nat), NEW rv \in Seq(Nat), rd = <<>>, rv = <<>>,
           FlowOf(b, FALSE, a, h, f, rd, rv, wb, o, d, st, w)
    PROVE  FlowOf("select", FALSE, a, h, "run", rd, rv, wb, o, d, st, Tail(w))
<1>1. /\ Base("select", rd, rv) = 0 /\ Base(b, rd, rv) = 0
      /\ Off("select", FALSE) = 0 /\ Off(b, FALSE) = -1
  <2>1. Len(rd) = 0 /\ Len(rv) = 0
    OBVIOUS
  <2>2. b # "deliver" /\ "select" \notin SetUp
    BY DEF SetUp
  <2> QED
    BY <2>1, <2>2 DEF Base, Off
<1>2. Len(Tail(w)) = Len(w) - 1 /\ Len(w) \in Nat \ {0} /\ Len(d) \in Nat
    OBVIOUS
<1>3. ASSUME a
      PROVE  /\ Bodies(Tail(w), 0, 0, st)
             /\ Written(wb, o, d, st, Len(Tail(w)), 0, 0)
  <2>1. Bodies(w, -1, 0, st) /\ Written(wb, o, d, st, Len(w), -1, 0)
    BY <1>1, <1>3, Zenon DEF FlowOf, Live, SetUp
  <2>2. Bodies(Tail(w), (-1) + 1, 0, st)
    BY <2>1, BodiesTail
  <2>3. Bodies(Tail(w), 0, 0, st)
    BY <2>2, SMTT(30)
  <2>4. Written(wb, o, d, st, Len(Tail(w)), 0, 0)
    BY <1>2, <2>1, WrittenOne
  <2> QED
    BY <2>3, <2>4
<1>4. a => Numbered(rd, rv) /\ Len(rd) + Len(rv) <= st
    BY DEF FlowOf
<1>5. Base("select", rd, rv) <= st /\ "select" # "deliver"
    BY <1>1
<1> QED
    BY <1>1, <1>3, <1>4, <1>5, Zenon DEF FlowOf, Live

\* The dial has written its RelayOpen and waits.
LEMMA FlowWaits ==
    ASSUME NEW b \in SetUp, NEW b2 \in SetUp, NEW g, NEW a, NEW h, NEW f, NEW rd,
           NEW rv, NEW wb, NEW o, NEW d, NEW st, NEW w,
           FlowOf(b, g, a, h, f, rd, rv, wb, o, d, st, w)
    PROVE  FlowOf(b2, g, a, h, f, rd, rv, wb, o, d, st, w)
BY DEF FlowOf, Live, Off, Base, SetUp

----------------------------------------------------------------------------
(* What the writing end does to the way *)

\* The phases in which a bridge owes no part of a frame.
Writes == {"awaiting", "select", "deliver", "closing"}

\* Between frames the writing bridge owes nothing.
LEMMA WriterMoves ==
    ASSUME NEW b, NEW g, NEW a, NEW h, NEW f, NEW rd, NEW rv, NEW wb \in Writes,
           NEW wb2 \in Writes, NEW o, NEW o2, NEW d, NEW st, NEW w,
           FlowOf(b, g, a, h, f, rd, rv, wb, o, d, st, w)
    PROVE  FlowOf(b, g, a, h, f, rd, rv, wb2, o2, d, st, w)
<1>1. ASSUME NEW len, NEW off, NEW base, Written(wb, o, d, st, len, off, base)
      PROVE  Written(wb2, o2, d, st, len, off, base)
    BY <1>1, SMTT(30) DEF Written, Writes
<1> QED
    BY <1>1 DEF FlowOf

\* A bridge that has ended writes no more; its channel may be dropped and its
\* last bytes lost.
LEMMA WriterEnds ==
    ASSUME NEW b, NEW g, NEW a, NEW h, NEW f, NEW rd, NEW rv, NEW wb,
           NEW wb2 \in {"ending", "done"}, NEW o, NEW o2, NEW d, NEW d2, NEW st, NEW w,
           FlowOf(b, g, a, h, f, rd, rv, wb, o, d, st, w)
    PROVE  /\ FlowOf(b, g, a, h, f, rd, rv, wb2, o2, d2, st, w)
           /\ FlowOf(b, g, a, h, f, rd, rv, wb2, o2, d2, st, <<>>)
<1>1. \A len, off, base : Written(wb2, o2, d2, st, len, off, base)
    BY DEF Written
<1>2. \A off, base : Bodies(<<>>, off, base, st)
    BY SMTT(30) DEF Bodies
<1> QED
    BY <1>1, <1>2 DEF FlowOf

\* The bridge takes the next message from its data channel.
LEMMA FlowTaken ==
    ASSUME NEW b, NEW g \in BOOLEAN, NEW a, NEW h, NEW f, NEW rd \in Seq(Nat),
           NEW rv \in Seq(Nat), NEW o, NEW d \in Seq(Nat), d # <<>>, NEW st \in Nat,
           NEW w \in Seq(Parts), Queued(d, st),
           FlowOf(b, g, a, h, f, rd, rv, "select", o, d, st, w)
    PROVE  FlowOf(b, g, a, h, f, rd, rv, "header", Head(d), Tail(d), st, w)
<1> DEFINE ld == Len(d)
           hd == Head(d)
           lt == Len(Tail(d))
           len == Len(w)
<1>1. /\ ld \in Nat \ {0} /\ lt = ld - 1 /\ len \in Nat
      /\ hd = st - ld + 1
    BY DEF Queued
<1>2. Off(b, g) \in Int /\ Base(b, rd, rv) \in Nat
    BY DEF Off, Base
<1> HIDE DEF ld, hd, lt, len
<1>3. ASSUME NEW off \in Int, NEW base \in Nat, 2 * (st - ld - base) = len + off
      PROVE  hd = st - lt /\ 2 * (hd - 1 - base) = len + off
    BY <1>1, <1>3
<1>4. ASSUME NEW off \in Int, NEW base \in Nat, Written("select", o, d, st, len, off, base)
      PROVE  Written("header", hd, Tail(d), st, len, off, base)
  <2>1. 2 * (st - ld - base) = len + off
    BY <1>4 DEF Written, ld
  <2>2. hd = st - lt /\ 2 * (hd - 1 - base) = len + off
    BY <1>3, <2>1
  <2> QED
    BY <2>2 DEF Written, lt
<1> QED
    BY <1>2, <1>4 DEF FlowOf, hd, len

\* The bridge writes the header of its message.
LEMMA FlowHeaderWritten ==
    ASSUME NEW b, NEW g \in BOOLEAN, NEW a, NEW h, NEW f, NEW rd \in Seq(Nat),
           NEW rv \in Seq(Nat), NEW o \in Nat, NEW d \in Seq(Nat), NEW st \in Nat,
           NEW w \in Seq(Parts),
           FlowOf(b, g, a, h, f, rd, rv, "header", o, d, st, w)
    PROVE  FlowOf(b, g, a, h, f, rd, rv, "body", o, d, st, Append(w, Part("header", 0)))
<1> DEFINE x == Part("header", 0)
           w2 == Append(w, x)
           len == Len(w)
           ld == Len(d)
<1>1. len \in Nat /\ Len(w2) = len + 1 /\ ld \in Nat
    OBVIOUS
<1>2. Off(b, g) \in Int /\ Base(b, rd, rv) \in Nat
    BY DEF Off, Base
<1>3. x \in Parts
    BY DEF Part, Parts
<1> HIDE DEF x
<1>4. ASSUME NEW off \in Int, NEW base \in Nat, Bodies(w, off, base, st),
             Written("header", o, d, st, Len(w), off, base)
      PROVE  Bodies(w2, off, base, st) /\ Written("body", o, d, st, Len(w2), off, base)
  <2>1. o = st - ld /\ 2 * (o - 1 - base) = len + off
    BY <1>4 DEF Written
  <2>2. len + off = 2 * (o - 1 - base) /\ o - 1 - base \in Int
    BY <2>1
  <2>3. Bodies(w2, off, base, st)
    BY <1>3, <1>4, <2>2, BodiesOther, Zenon
  <2> HIDE DEF len, w2, ld
  <2>4. 2 * (o - 1 - base) + 1 = (len + 1) + off
    BY <1>1, <2>1
  <2>5. Written("body", o, d, st, Len(w2), off, base)
    BY <1>1, <2>1, <2>4, ZenonT(30) DEF Written, ld
  <2> QED
    BY <2>3, <2>5
<1> HIDE DEF w2, len, ld
<1>5. FlowOf(b, g, a, h, f, rd, rv, "body", o, d, st, w2)
    BY <1>2, <1>4 DEF FlowOf
<1> QED
    BY <1>5 DEF w2, x

\* The bridge writes the body of its message.
LEMMA FlowBodyWritten ==
    ASSUME NEW b, NEW g \in BOOLEAN, NEW a, NEW h, NEW f, NEW rd \in Seq(Nat),
           NEW rv \in Seq(Nat), NEW o \in Nat, NEW d \in Seq(Nat), NEW st \in Nat,
           NEW w \in Seq(Parts),
           FlowOf(b, g, a, h, f, rd, rv, "body", o, d, st, w)
    PROVE  FlowOf(b, g, a, h, f, rd, rv, "select", o, d, st, Append(w, Part("body", o)))
<1> DEFINE w2 == Append(w, Part("body", o))
           len == Len(w)
           ld == Len(d)
<1>1. len \in Nat /\ Len(w2) = len + 1 /\ ld \in Nat
    OBVIOUS
<1>2. Off(b, g) \in Int /\ Base(b, rd, rv) \in Nat
    BY DEF Off, Base
<1>3. ASSUME NEW off \in Int, NEW base \in Nat, Bodies(w, off, base, st),
             Written("body", o, d, st, Len(w), off, base)
      PROVE  Bodies(w2, off, base, st) /\ Written("select", o, d, st, Len(w2), off, base)
  <2>1. o = st - ld /\ 2 * (o - 1 - base) + 1 = len + off
    BY <1>3 DEF Written
  <2>2. Bodies(w2, off, base, st)
    BY <1>1, <1>3, <2>1, BodiesBody, SMTT(30)
  <2> HIDE DEF len, w2, ld
  <2>3. 2 * (st - ld - base) = (len + 1) + off
    BY <1>1, <2>1
  <2>4. Written("select", o, d, st, Len(w2), off, base)
    BY <1>1, <2>3, Zenon DEF Written, ld
  <2> QED
    BY <2>2, <2>4
<1> HIDE DEF w2, len, ld
<1>4. FlowOf(b, g, a, h, f, rd, rv, "select", o, d, st, w2)
    BY <1>2, <1>3 DEF FlowOf
<1> QED
    BY <1>4 DEF w2

\* The bridge writes its RelayClose and ends.
LEMMA FlowCloseWritten ==
    ASSUME NEW b, NEW g \in BOOLEAN, NEW a, NEW h, NEW f, NEW rd \in Seq(Nat),
           NEW rv \in Seq(Nat), NEW o, NEW d \in Seq(Nat), NEW st \in Nat,
           NEW w \in Seq(Parts),
           FlowOf(b, g, a, h, f, rd, rv, "closing", o, d, st, w)
    PROVE  FlowOf(b, g, a, h, f, rd, rv, "ending", o, d, st, Append(w, Part("close", 0)))
<1> DEFINE x == Part("close", 0)
           w2 == Append(w, x)
<1>1. x \in Parts
    BY DEF Part, Parts
<1>2. Off(b, g) \in Int /\ Base(b, rd, rv) \in Nat
    BY DEF Off, Base
<1> HIDE DEF x
<1>3. ASSUME NEW off \in Int, NEW base \in Nat, Bodies(w, off, base, st),
             Written("closing", o, d, st, Len(w), off, base)
      PROVE  Bodies(w2, off, base, st) /\ Written("ending", o, d, st, Len(w2), off, base)
  <2>1. 2 * (st - Len(d) - base) = Len(w) + off
    BY <1>3 DEF Written
  <2>2. Len(w) + off = 2 * (st - Len(d) - base) /\ st - Len(d) - base \in Int
    BY <2>1
  <2>3. Bodies(w2, off, base, st)
    BY <1>1, <1>3, <2>2, BodiesOther, Zenon
  <2>4. Written("ending", o, d, st, Len(w2), off, base)
    BY SMTT(30) DEF Written
  <2> QED
    BY <2>3, <2>4
<1> HIDE DEF w2
<1>4. FlowOf(b, g, a, h, f, rd, rv, "ending", o, d, st, w2)
    BY <1>2, <1>3 DEF FlowOf
<1> QED
    BY <1>4 DEF w2, x

\* The manager accepts a message for a stream that is set up.
LEMMA FlowSent ==
    ASSUME NEW b, NEW g \in BOOLEAN, NEW a, NEW h, NEW f, NEW rd \in Seq(Nat),
           NEW rv \in Seq(Nat), NEW wb, wb \notin {"dial", "accept"}, NEW o \in Nat,
           NEW d \in Seq(Nat), NEW st \in Nat, NEW w \in Seq(Parts),
           FlowOf(b, g, a, h, f, rd, rv, wb, o, d, st, w)
    PROVE  FlowOf(b, g, a, h, f, rd, rv, wb, o, Append(d, st + 1), st + 1, w)
<1> DEFINE d2 == Append(d, st + 1)
           st2 == st + 1
           ld == Len(d)
           len == Len(w)
<1>1. Len(d2) = ld + 1 /\ ld \in Nat /\ len \in Nat
    OBVIOUS
<1>2. Off(b, g) \in Int /\ Base(b, rd, rv) \in Nat
    BY DEF Off, Base
<1>3. Base(b, rd, rv) <= st => Base(b, rd, rv) <= st2
    BY <1>2, SMTT(30)
<1>4. Len(rd) + Len(rv) <= st => Len(rd) + Len(rv) <= st2
    OBVIOUS
<1>5. ASSUME NEW off \in Int, NEW base \in Nat, Bodies(w, off, base, st)
      PROVE  Bodies(w, off, base, st2)
    BY <1>5, BodiesMore
<1> HIDE DEF d2, ld, len
<1>6. st2 - Len(d2) = st - ld /\ \A base : st2 - Len(d2) - base = st - ld - base
    BY <1>1
<1>7. ASSUME NEW off \in Int, NEW base \in Nat, Written(wb, o, d, st, len, off, base)
      PROVE  Written(wb, o, d2, st2, len, off, base)
    BY <1>6, <1>7, ZenonT(30) DEF Written, ld
<1> HIDE DEF st2
<1>8. FlowOf(b, g, a, h, f, rd, rv, wb, o, d2, st2, w)
    BY <1>2, <1>3, <1>4, <1>5, <1>7 DEF FlowOf, len
<1> QED
    BY <1>8 DEF d2, st2

\* The first frame of an end is on the wire.
LEMMA FlowOpened ==
    ASSUME NEW b, NEW g \in BOOLEAN, NEW a, NEW h, NEW f, NEW rd \in Seq(Nat),
           NEW rv \in Seq(Nat), NEW wb \in {"dial", "accept"},
           NEW wb2 \in Writes, NEW o, NEW d \in Seq(Nat), Len(d) <= 0,
           NEW st \in Nat, st <= 0, NEW w \in Seq(Parts), Len(w) <= 0, NEW x \in Parts,
           FlowOf(b, g, a, h, f, rd, rv, wb, o, d, st, w)
    PROVE  FlowOf(b, g, a, h, f, rd, rv, wb2, o, d, st, Append(w, x))
<1> DEFINE w2 == Append(w, x)
<1>1. Len(w2) = 1
    OBVIOUS
<1> HIDE DEF w2
<1>2. ASSUME NEW off, NEW base, Written(wb, o, d, st, Len(w), off, base)
      PROVE  Bodies(w2, off, base, st) /\ Written(wb2, o, d, st, Len(w2), off, base)
  <2>1. off = -1 /\ base = 0
    BY <1>2, SMTT(30) DEF Written
  <2>2. Bodies(w2, off, base, st)
    BY <1>1, <2>1 DEF Bodies
  <2>3. 2 * (st - Len(d) - base) = Len(w2) + off
    BY <1>1, <2>1
  <2>4. Written(wb2, o, d, st, Len(w2), off, base)
    BY <2>3, ZenonT(30) DEF Written, Writes
  <2> QED
    BY <2>2, <2>4
<1>3. FlowOf(b, g, a, h, f, rd, rv, wb2, o, d, st, w2)
    BY <1>2 DEF FlowOf
<1> QED
    BY <1>3 DEF w2

----------------------------------------------------------------------------
(* The steps *)

\* A step of one end leaves what the other end has, but for the wire.
PeerKept(p) ==
    /\ bridge'[p] = bridge[p] /\ got'[p] = got[p] /\ aligned'[p] = aligned[p]
    /\ inhand'[p] = inhand[p] /\ fwd'[p] = fwd[p] /\ recvd'[p] = recvd[p]
    /\ recv'[p] = recv[p] /\ out'[p] = out[p] /\ data'[p] = data[p]
    /\ sent'[p] = sent[p]

\* The types of what an end has.
EndTypeOK(e) ==
    /\ got[e] \in BOOLEAN /\ aligned[e] \in BOOLEAN
    /\ inhand[e] \in Nat /\ out[e] \in Nat /\ sent[e] \in Nat
    /\ data[e] \in Seq(Nat) /\ recv[e] \in Seq(Nat) /\ recvd[e] \in Seq(Nat)
    /\ wire[e] \in Seq(Parts)

\* The types, at one end.
LEMMA EndTypes ==
    ASSUME FlagTypeOK, QueueTypeOK, NEW e \in Ends
    PROVE  EndTypeOK(e)
BY DEF EndTypeOK, FlagTypeOK, QueueTypeOK

\* A dial or an accept that fails ends the stream.
LEMMA SetUpFailsFlows ==
    ASSUME FlagTypeOK, QueueTypeOK, EndsInv, NEW e \in Ends, NEW p \in Ends,
           p = Peer(e), e = Peer(p), e # p, Flow(e, p), Flow(p, e), SetUpFails(e)
    PROVE  Flow(e, p)' /\ Flow(p, e)'
<1>1. /\ bridge'[e] = "done" /\ got'[e] = got[e] /\ aligned'[e] = aligned[e]
      /\ inhand'[e] = inhand[e] /\ fwd'[e] = fwd[e] /\ recvd'[e] = recvd[e]
      /\ recv'[e] = recv[e] /\ out'[e] = out[e] /\ data'[e] = data[e]
      /\ sent'[e] = sent[e] /\ wire'[e] = wire[e]
      /\ PeerKept(p)
      /\ wire'[p] = wire[p]
    BY DEF SetUpFails, Goto, bridgeVars, tableVars, recvVars, FlagTypeOK,
       QueueTypeOK, PeerKept
<1>4. Flow(e, p)'
    BY <1>1, Zenon DEF Flow, FlowOf, Live, PeerKept
<1>5. Flow(p, e)'
  <2>1. FlowOf(bridge[p], got[p], aligned[p], inhand[p],
               fwd[p], recvd[p], recv[p], bridge[e],
               out[e], data[e], sent[e], wire[e])
    BY Zenon DEF Flow
  <2>2. FlowOf(bridge[p], got[p], aligned[p], inhand[p],
               fwd[p], recvd[p], recv[p], "done",
               out[e], data[e], sent[e], wire[e])
    BY <2>1, WriterEnds, ZenonT(30)
  <2> QED
    BY <1>1, <2>2, Zenon DEF Flow, PeerKept
<1> QED
    BY <1>4, <1>5, SMTT(30)

\* The message taken is the next one; a header that was read is lost and with it the place.
LEMMA TakeDataFlows ==
    ASSUME FlagTypeOK, QueueTypeOK, EndsInv, NEW e \in Ends, NEW p \in Ends,
           p = Peer(e), e = Peer(p), e # p, Flow(e, p), Flow(p, e), TakeData(e)
    PROVE  Flow(e, p)' /\ Flow(p, e)'
<1>1. /\ bridge'[e] = "header" /\ got'[e] = FALSE
      /\ aligned'[e] = (aligned[e] /\ ~got[e]) /\ inhand'[e] = inhand[e]
      /\ fwd'[e] = fwd[e] /\ recvd'[e] = recvd[e] /\ recv'[e] = recv[e]
      /\ out'[e] = Head(data[e]) /\ data'[e] = Tail(data[e])
      /\ sent'[e] = sent[e] /\ wire'[e] = wire[e]
      /\ PeerKept(p)
      /\ wire'[p] = wire[p]
    BY Zenon DEF TakeData, Goto, bridgeVars, tableVars, recvVars, FlagTypeOK,
       QueueTypeOK, PeerKept
<1>2. bridge[e] = "select" /\ data[e] # <<>>
    BY DEF TakeData
<1>3. EndTypeOK(e) /\ EndTypeOK(p)
    BY EndTypes
<1>4. Flow(e, p)'
  <2>1. CASE got[e]
    BY <1>1, <2>1, Zenon DEF Flow, FlowOf, Live, PeerKept
  <2>2. CASE ~got[e]
    <3>1. got[e] = FALSE
      BY <2>2, EndTypes, Zenon DEF EndTypeOK
    <3>2. FlowOf("header", FALSE, aligned[e], inhand[e], fwd[e], recvd[e], recv[e],
                 bridge[p], out[p], data[p], sent[p], wire[p])
      <4>1. FlowOf("select", FALSE, aligned[e], inhand[e], fwd[e], recvd[e], recv[e],
                 bridge[p], out[p], data[p], sent[p], wire[p])
        BY <1>2, <3>1, Zenon DEF Flow
      <4> QED
        BY <4>1, FlowMoves, Zenon
    <3>3. (aligned[e] /\ ~got[e]) = aligned[e]
      BY <3>1, EndTypes, Zenon DEF EndTypeOK
    <3> QED
      BY <1>1, <3>2, <3>3, Zenon DEF Flow, PeerKept
  <2> QED
    BY <2>1, <2>2
<1>5. Flow(p, e)'
  <2>q. /\ got[p] \in BOOLEAN /\ recvd[p] \in Seq(Nat) /\ recv[p] \in Seq(Nat)
        /\ data[e] \in Seq(Nat) /\ sent[e] \in Nat /\ wire[e] \in Seq(Parts)
        /\ data[e] # <<>> /\ Queued(data[e], sent[e])
    BY <1>2, <1>3, Zenon DEF EndsInv, EndOK, EndTypeOK
  <2>1. FlowOf(bridge[p], got[p], aligned[p], inhand[p],
               fwd[p], recvd[p], recv[p], "select",
               out[e], data[e], sent[e], wire[e])
    BY <1>2, <1>3, Zenon DEF Flow
  <2>2. FlowOf(bridge[p], got[p], aligned[p], inhand[p],
               fwd[p], recvd[p], recv[p], "header",
               Head(data[e]), Tail(data[e]), sent[e], wire[e])
    BY <2>1, <2>q, FlowTaken, ZenonT(30)
  <2> QED
    BY <1>2, <1>1, <2>2, Zenon DEF Flow, PeerKept
<1> QED
    BY <1>4, <1>5

\* The header goes where a header is due.
LEMMA WriteHeaderFlows ==
    ASSUME FlagTypeOK, QueueTypeOK, EndsInv, NEW e \in Ends, NEW p \in Ends,
           p = Peer(e), e = Peer(p), e # p, Flow(e, p), Flow(p, e), WriteHeader(e)
    PROVE  Flow(e, p)' /\ Flow(p, e)'
<1>1. /\ bridge'[e] = "body" /\ got'[e] = got[e] /\ aligned'[e] = aligned[e]
      /\ inhand'[e] = inhand[e] /\ fwd'[e] = fwd[e] /\ recvd'[e] = recvd[e]
      /\ recv'[e] = recv[e] /\ out'[e] = out[e] /\ data'[e] = data[e]
      /\ sent'[e] = sent[e] /\ wire'[e] = Append(wire[e], Part("header", 0))
      /\ PeerKept(p)
      /\ wire'[p] = wire[p]
    BY DEF WriteHeader, Goto, Write, bridgeVars, tableVars, recvVars,
       FlagTypeOK, QueueTypeOK, PeerKept
<1>2. bridge[e] = "header"
    BY DEF WriteHeader
<1>3. EndTypeOK(e) /\ EndTypeOK(p)
    BY EndTypes
<1>4. Flow(e, p)'
  <2>1. FlowOf("header", got[e], aligned[e], inhand[e],
               fwd[e], recvd[e], recv[e], bridge[p],
               out[p], data[p], sent[p], wire[p])
    BY <1>2, <1>3, Zenon DEF Flow
  <2>2. FlowOf("body", got[e], aligned[e], inhand[e],
               fwd[e], recvd[e], recv[e], bridge[p],
               out[p], data[p], sent[p], wire[p])
    BY <2>1, FlowMoves, Zenon
  <2> QED
    BY <1>2, <1>1, <2>2, Zenon DEF Flow, PeerKept
<1>5. Flow(p, e)'
  <2>1. FlowOf(bridge[p], got[p], aligned[p], inhand[p],
               fwd[p], recvd[p], recv[p], "header",
               out[e], data[e], sent[e], wire[e])
    BY <1>2, <1>3, Zenon DEF Flow
  <2>2. FlowOf(bridge[p], got[p], aligned[p], inhand[p],
               fwd[p], recvd[p], recv[p], "body",
               out[e], data[e], sent[e], Append(wire[e], Part("header", 0)))
    BY <1>2, <1>3, <2>1, FlowHeaderWritten, ZenonT(30) DEF EndTypeOK
  <2> QED
    BY <1>2, <1>1, <2>2, Zenon DEF Flow, PeerKept
<1> QED
    BY <1>4, <1>5

\* The body goes where it is due.
LEMMA WriteBodyFlows ==
    ASSUME FlagTypeOK, QueueTypeOK, EndsInv, NEW e \in Ends, NEW p \in Ends,
           p = Peer(e), e = Peer(p), e # p, Flow(e, p), Flow(p, e), WriteBody(e)
    PROVE  Flow(e, p)' /\ Flow(p, e)'
<1>1. /\ bridge'[e] = "select" /\ got'[e] = got[e] /\ aligned'[e] = aligned[e]
      /\ inhand'[e] = inhand[e] /\ fwd'[e] = fwd[e] /\ recvd'[e] = recvd[e]
      /\ recv'[e] = recv[e] /\ out'[e] = out[e] /\ data'[e] = data[e]
      /\ sent'[e] = sent[e] /\ wire'[e] = Append(wire[e], Part("body", out[e]))
      /\ PeerKept(p)
      /\ wire'[p] = wire[p]
    BY SMTT(30) DEF WriteBody, Goto, Write, bridgeVars, tableVars, recvVars,
       FlagTypeOK, QueueTypeOK, PeerKept
<1>2. bridge[e] = "body"
    BY Zenon DEF WriteBody
<1>3. EndTypeOK(e) /\ EndTypeOK(p)
    BY EndTypes
<1>4. Flow(e, p)'
  <2>1. FlowOf("body", got[e], aligned[e], inhand[e],
               fwd[e], recvd[e], recv[e], bridge[p],
               out[p], data[p], sent[p], wire[p])
    BY <1>2, <1>3, Zenon DEF Flow
  <2>2. FlowOf("select", got[e], aligned[e], inhand[e],
               fwd[e], recvd[e], recv[e], bridge[p],
               out[p], data[p], sent[p], wire[p])
    BY <2>1, FlowMoves, Zenon
  <2> QED
    BY <1>2, <1>1, <2>2, Zenon DEF Flow, PeerKept
<1>5. Flow(p, e)'
  <2>1. FlowOf(bridge[p], got[p], aligned[p], inhand[p],
               fwd[p], recvd[p], recv[p], "body",
               out[e], data[e], sent[e], wire[e])
    BY <1>2, <1>3, Zenon DEF Flow
  <2>3. /\ got[p] \in BOOLEAN /\ recvd[p] \in Seq(Nat) /\ recv[p] \in Seq(Nat)
        /\ out[e] \in Nat /\ data[e] \in Seq(Nat) /\ sent[e] \in Nat /\ wire[e] \in Seq(Parts)
    BY <1>3, Zenon DEF EndTypeOK
  <2>2. FlowOf(bridge[p], got[p], aligned[p], inhand[p],
               fwd[p], recvd[p], recv[p], "select",
               out[e], data[e], sent[e], Append(wire[e], Part("body", out[e])))
    BY <2>1, <2>3, FlowBodyWritten, ZenonT(30)
  <2> QED
    BY <1>2, <1>1, <2>2, Zenon DEF Flow, PeerKept
<1> QED
    BY <1>4, <1>5

\* A write that fails ends the bridge.
LEMMA WriteFailsFlows ==
    ASSUME FlagTypeOK, QueueTypeOK, EndsInv, NEW e \in Ends, NEW p \in Ends,
           p = Peer(e), e = Peer(p), e # p, Flow(e, p), Flow(p, e), WriteFails(e)
    PROVE  Flow(e, p)' /\ Flow(p, e)'
<1>1. /\ bridge'[e] = "ending" /\ got'[e] = got[e] /\ aligned'[e] = aligned[e]
      /\ inhand'[e] = inhand[e] /\ fwd'[e] = fwd[e] /\ recvd'[e] = recvd[e]
      /\ recv'[e] = recv[e] /\ out'[e] = out[e] /\ data'[e] = data[e]
      /\ sent'[e] = sent[e] /\ wire'[e] = wire[e]
      /\ PeerKept(p)
      /\ wire'[p] = wire[p]
    BY DEF WriteFails, Goto, bridgeVars, tableVars, recvVars, FlagTypeOK,
       QueueTypeOK, PeerKept
<1>4. Flow(e, p)'
    BY <1>1, Zenon DEF Flow, FlowOf, Live, PeerKept
<1>5. Flow(p, e)'
  <2>1. FlowOf(bridge[p], got[p], aligned[p], inhand[p],
               fwd[p], recvd[p], recv[p], bridge[e],
               out[e], data[e], sent[e], wire[e])
    BY Zenon DEF Flow
  <2>2. FlowOf(bridge[p], got[p], aligned[p], inhand[p],
               fwd[p], recvd[p], recv[p], "ending",
               out[e], data[e], sent[e], wire[e])
    BY <2>1, WriterEnds, ZenonT(30)
  <2> QED
    BY <1>1, <2>2, Zenon DEF Flow, PeerKept
<1> QED
    BY <1>4, <1>5

\* All that was accepted is written.
LEMMA TakeCloseFlows ==
    ASSUME FlagTypeOK, QueueTypeOK, EndsInv, NEW e \in Ends, NEW p \in Ends,
           p = Peer(e), e = Peer(p), e # p, Flow(e, p), Flow(p, e), TakeClose(e)
    PROVE  Flow(e, p)' /\ Flow(p, e)'
<1>1. /\ bridge'[e] = "closing" /\ got'[e] = got[e] /\ aligned'[e] = aligned[e]
      /\ inhand'[e] = inhand[e] /\ fwd'[e] = fwd[e] /\ recvd'[e] = recvd[e]
      /\ recv'[e] = recv[e] /\ out'[e] = out[e] /\ data'[e] = data[e]
      /\ sent'[e] = sent[e] /\ wire'[e] = wire[e]
      /\ PeerKept(p)
      /\ wire'[p] = wire[p]
    BY DEF TakeClose, Goto, bridgeVars, tableVars, recvVars, FlagTypeOK,
       QueueTypeOK, PeerKept
<1>2. bridge[e] = "select"
    BY Zenon DEF TakeClose
<1>3. EndTypeOK(e) /\ EndTypeOK(p)
    BY EndTypes
<1>4. Flow(e, p)'
  <2>1. FlowOf("select", got[e], aligned[e], inhand[e],
               fwd[e], recvd[e], recv[e], bridge[p],
               out[p], data[p], sent[p], wire[p])
    BY <1>2, <1>3, Zenon DEF Flow
  <2>2. FlowOf("closing", got[e], aligned[e], inhand[e],
               fwd[e], recvd[e], recv[e], bridge[p],
               out[p], data[p], sent[p], wire[p])
    BY <2>1, FlowMoves, Zenon
  <2> QED
    BY <1>2, <1>1, <2>2, Zenon DEF Flow, PeerKept
<1>5. Flow(p, e)'
  <2>1. FlowOf(bridge[p], got[p], aligned[p], inhand[p],
               fwd[p], recvd[p], recv[p], "select",
               out[e], data[e], sent[e], wire[e])
    BY <1>2, <1>3, Zenon DEF Flow
  <2>2. FlowOf(bridge[p], got[p], aligned[p], inhand[p],
               fwd[p], recvd[p], recv[p], "closing",
               out[e], data[e], sent[e], wire[e])
    BY <2>1, WriterMoves, ZenonT(30) DEF Writes
  <2> QED
    BY <1>2, <1>1, <2>2, Zenon DEF Flow, PeerKept
<1> QED
    BY <1>4, <1>5

\* A header is read.
LEMMA ReadHeaderFlows ==
    ASSUME FlagTypeOK, QueueTypeOK, EndsInv, NEW e \in Ends, NEW p \in Ends,
           p = Peer(e), e = Peer(p), e # p, Flow(e, p), Flow(p, e), ReadHeader(e)
    PROVE  Flow(e, p)' /\ Flow(p, e)'
<1>1. /\ bridge'[e] = bridge[e] /\ got'[e] = TRUE /\ aligned'[e] = aligned[e]
      /\ inhand'[e] = inhand[e] /\ fwd'[e] = fwd[e] /\ recvd'[e] = recvd[e]
      /\ recv'[e] = recv[e] /\ out'[e] = out[e] /\ data'[e] = data[e]
      /\ sent'[e] = sent[e] /\ wire'[e] = wire[e]
      /\ PeerKept(p)
      /\ wire'[p] = Tail(wire[p])
    BY Zenon DEF ReadHeader, Consume, Reading, Arrived, Inbound, bridgeVars,
       tableVars, recvVars, FlagTypeOK, QueueTypeOK, PeerKept
<1>2. bridge[e] = "select" /\ aligned[e] = TRUE /\ got[e] = FALSE /\ wire[p] # <<>>
    BY Zenon DEF ReadHeader, Reading, Arrived, Inbound, FlagTypeOK
<1>3. EndTypeOK(e) /\ EndTypeOK(p)
    BY EndTypes
<1>4. Flow(e, p)'
  <2>1. FlowOf("select", FALSE, TRUE, inhand[e],
               fwd[e], recvd[e], recv[e], bridge[p],
               out[p], data[p], sent[p], wire[p])
    BY <1>2, <1>3, Zenon DEF Flow
  <2>2. FlowOf("select", TRUE, TRUE, inhand[e],
               fwd[e], recvd[e], recv[e], bridge[p],
               out[p], data[p], sent[p], Tail(wire[p]))
    BY <1>2, <1>3, <2>1, FlowHeaderRead, Zenon DEF EndTypeOK
  <2> QED
    BY <1>2, <1>1, <2>2, ZenonT(30) DEF Flow, PeerKept
<1>5. Flow(p, e)'
    BY <1>1, Zenon DEF Flow, PeerKept
<1> QED
    BY <1>4, <1>5

\* The body read is that of the next message.
LEMMA ReadBodyFlows ==
    ASSUME FlagTypeOK, QueueTypeOK, EndsInv, NEW e \in Ends, NEW p \in Ends,
           p = Peer(e), e = Peer(p), e # p, Flow(e, p), Flow(p, e), ReadBody(e)
    PROVE  Flow(e, p)' /\ Flow(p, e)'
<1>1. /\ bridge'[e] = "deliver" /\ got'[e] = FALSE /\ aligned'[e] = aligned[e]
      /\ inhand'[e] = Head(wire[p]).n /\ fwd'[e] = fwd[e]
      /\ recvd'[e] = recvd[e] /\ recv'[e] = recv[e] /\ out'[e] = out[e]
      /\ data'[e] = data[e] /\ sent'[e] = sent[e] /\ wire'[e] = wire[e]
      /\ PeerKept(p)
      /\ wire'[p] = Tail(wire[p])
    BY Zenon DEF ReadBody, Goto, Consume, Reading, Arrived, Inbound,
       bridgeVars, tableVars, recvVars, FlagTypeOK, QueueTypeOK, PeerKept
<1>2. bridge[e] = "select" /\ aligned[e] = TRUE /\ got[e] = TRUE /\ wire[p] # <<>>
    BY Zenon DEF ReadBody, Reading, Arrived, Inbound, FlagTypeOK
<1>3. EndTypeOK(e) /\ EndTypeOK(p)
    BY EndTypes
<1>4. Flow(e, p)'
  <2>1. FlowOf("select", TRUE, TRUE, inhand[e],
               fwd[e], recvd[e], recv[e], bridge[p],
               out[p], data[p], sent[p], wire[p])
    BY <1>2, <1>3, Zenon DEF Flow
  <2>2. FlowOf("deliver", FALSE, TRUE, Head(wire[p]).n,
               fwd[e], recvd[e], recv[e], bridge[p],
               out[p], data[p], sent[p], Tail(wire[p]))
    BY <1>2, <1>3, <2>1, FlowBodyRead, ZenonT(30) DEF EndTypeOK
  <2> QED
    BY <1>2, <1>1, <2>2, Zenon DEF Flow, PeerKept
<1>5. Flow(p, e)'
  <2>1. FlowOf(bridge[p], got[p], aligned[p], inhand[p],
               fwd[p], recvd[p], recv[p], "select",
               out[e], data[e], sent[e], wire[e])
    BY <1>2, <1>3, Zenon DEF Flow
  <2>2. FlowOf(bridge[p], got[p], aligned[p], inhand[p],
               fwd[p], recvd[p], recv[p], "deliver",
               out[e], data[e], sent[e], wire[e])
    BY <2>1, WriterMoves, ZenonT(30) DEF Writes
  <2> QED
    BY <1>2, <1>1, <2>2, Zenon DEF Flow, PeerKept
<1> QED
    BY <1>4, <1>5

\* The peer has closed.
LEMMA ReadCloseFlows ==
    ASSUME FlagTypeOK, QueueTypeOK, EndsInv, NEW e \in Ends, NEW p \in Ends,
           p = Peer(e), e = Peer(p), e # p, Flow(e, p), Flow(p, e), ReadClose(e)
    PROVE  Flow(e, p)' /\ Flow(p, e)'
<1>1. /\ bridge'[e] = "ending" /\ got'[e] = got[e] /\ aligned'[e] = aligned[e]
      /\ inhand'[e] = inhand[e] /\ fwd'[e] = fwd[e] /\ recvd'[e] = recvd[e]
      /\ recv'[e] = recv[e] /\ out'[e] = out[e] /\ data'[e] = data[e]
      /\ sent'[e] = sent[e] /\ wire'[e] = wire[e]
      /\ PeerKept(p)
      /\ wire'[p] = Tail(wire[p])
    BY DEF ReadClose, Goto, Consume, bridgeVars, tableVars, recvVars,
       FlagTypeOK, QueueTypeOK, PeerKept
<1>4. Flow(e, p)'
    BY <1>1, Zenon DEF Flow, FlowOf, Live, PeerKept
<1>5. Flow(p, e)'
  <2>1. FlowOf(bridge[p], got[p], aligned[p], inhand[p],
               fwd[p], recvd[p], recv[p], bridge[e],
               out[e], data[e], sent[e], wire[e])
    BY Zenon DEF Flow
  <2>2. FlowOf(bridge[p], got[p], aligned[p], inhand[p],
               fwd[p], recvd[p], recv[p], "ending",
               out[e], data[e], sent[e], wire[e])
    BY <2>1, WriterEnds, ZenonT(30)
  <2> QED
    BY <1>1, <2>2, ZenonT(30) DEF Flow, PeerKept
<1> QED
    BY <1>4, <1>5

\* The connection has ended.
LEMMA ReadFailsFlows ==
    ASSUME FlagTypeOK, QueueTypeOK, EndsInv, NEW e \in Ends, NEW p \in Ends,
           p = Peer(e), e = Peer(p), e # p, Flow(e, p), Flow(p, e), ReadFails(e)
    PROVE  Flow(e, p)' /\ Flow(p, e)'
<1>1. /\ bridge'[e] = "ending" /\ got'[e] = got[e] /\ aligned'[e] = aligned[e]
      /\ inhand'[e] = inhand[e] /\ fwd'[e] = fwd[e] /\ recvd'[e] = recvd[e]
      /\ recv'[e] = recv[e] /\ out'[e] = out[e] /\ data'[e] = data[e]
      /\ sent'[e] = sent[e] /\ wire'[e] = wire[e]
      /\ PeerKept(p)
      /\ wire'[p] = wire[p]
    BY SMTT(30) DEF ReadFails, Goto, bridgeVars, tableVars, recvVars, FlagTypeOK,
       QueueTypeOK, PeerKept
<1>4. Flow(e, p)'
    BY <1>1, Zenon DEF Flow, FlowOf, Live, PeerKept
<1>5. Flow(p, e)'
  <2>1. FlowOf(bridge[p], got[p], aligned[p], inhand[p],
               fwd[p], recvd[p], recv[p], bridge[e],
               out[e], data[e], sent[e], wire[e])
    BY Zenon DEF Flow
  <2>2. FlowOf(bridge[p], got[p], aligned[p], inhand[p],
               fwd[p], recvd[p], recv[p], "ending",
               out[e], data[e], sent[e], wire[e])
    BY <2>1, WriterEnds, ZenonT(30)
  <2> QED
    BY <1>1, <2>2, Zenon DEF Flow, PeerKept
<1> QED
    BY <1>4, <1>5

\* The message enters the receive channel.
LEMMA DeliverFlows ==
    ASSUME FlagTypeOK, QueueTypeOK, EndsInv, NEW e \in Ends, NEW p \in Ends,
           p = Peer(e), e = Peer(p), e # p, Flow(e, p), Flow(p, e), Deliver(e)
    PROVE  Flow(e, p)' /\ Flow(p, e)'
<1>1. /\ bridge'[e] = "select" /\ got'[e] = got[e] /\ aligned'[e] = aligned[e]
      /\ inhand'[e] = inhand[e] /\ fwd'[e] = fwd[e] /\ recvd'[e] = recvd[e]
      /\ recv'[e] = Append(recv[e], inhand[e]) /\ out'[e] = out[e]
      /\ data'[e] = data[e] /\ sent'[e] = sent[e] /\ wire'[e] = wire[e]
      /\ PeerKept(p)
      /\ wire'[p] = wire[p]
    BY DEF Deliver, Goto, bridgeVars, tableVars, recvVars, FlagTypeOK,
       QueueTypeOK, PeerKept
<1>2. bridge[e] = "deliver" /\ got[e] = FALSE /\ fwd[e] # "gone"
    BY Zenon DEF Deliver, FlagTypeOK, EndsInv, EndOK, GotOK
<1>3. EndTypeOK(e) /\ EndTypeOK(p)
    BY EndTypes
<1>4. Flow(e, p)'
  <2>1. FlowOf("deliver", FALSE, aligned[e], inhand[e],
               fwd[e], recvd[e], recv[e], bridge[p],
               out[p], data[p], sent[p], wire[p])
    BY <1>2, <1>3, Zenon DEF Flow
  <2>2. FlowOf("select", FALSE, aligned[e], inhand[e],
               fwd[e], recvd[e], Append(recv[e], inhand[e]), bridge[p],
               out[p], data[p], sent[p], wire[p])
    BY <1>2, <1>3, <2>1, FlowDelivered, ZenonT(30) DEF EndTypeOK
  <2> QED
    BY <1>2, <1>1, <2>2, Zenon DEF Flow, PeerKept
<1>5. Flow(p, e)'
  <2>1. FlowOf(bridge[p], got[p], aligned[p], inhand[p],
               fwd[p], recvd[p], recv[p], "deliver",
               out[e], data[e], sent[e], wire[e])
    BY <1>2, <1>3, Zenon DEF Flow
  <2>2. FlowOf(bridge[p], got[p], aligned[p], inhand[p],
               fwd[p], recvd[p], recv[p], "select",
               out[e], data[e], sent[e], wire[e])
    BY <2>1, WriterMoves, ZenonT(30) DEF Writes
  <2> QED
    BY <1>2, <1>1, <2>2, Zenon DEF Flow, PeerKept
<1> QED
    BY <1>4, <1>5

\* The receive channel is gone.
LEMMA DeliverFailsFlows ==
    ASSUME FlagTypeOK, QueueTypeOK, EndsInv, NEW e \in Ends, NEW p \in Ends,
           p = Peer(e), e = Peer(p), e # p, Flow(e, p), Flow(p, e), DeliverFails(e)
    PROVE  Flow(e, p)' /\ Flow(p, e)'
<1>1. /\ bridge'[e] = "ending" /\ got'[e] = got[e] /\ aligned'[e] = aligned[e]
      /\ inhand'[e] = inhand[e] /\ fwd'[e] = fwd[e] /\ recvd'[e] = recvd[e]
      /\ recv'[e] = recv[e] /\ out'[e] = out[e] /\ data'[e] = data[e]
      /\ sent'[e] = sent[e] /\ wire'[e] = wire[e]
      /\ PeerKept(p)
      /\ wire'[p] = wire[p]
    BY SMTT(30) DEF DeliverFails, Goto, bridgeVars, tableVars, recvVars, FlagTypeOK,
       QueueTypeOK, PeerKept
<1>4. Flow(e, p)'
    BY <1>1, Zenon DEF Flow, FlowOf, Live, PeerKept
<1>5. Flow(p, e)'
  <2>1. FlowOf(bridge[p], got[p], aligned[p], inhand[p],
               fwd[p], recvd[p], recv[p], bridge[e],
               out[e], data[e], sent[e], wire[e])
    BY Zenon DEF Flow
  <2>2. FlowOf(bridge[p], got[p], aligned[p], inhand[p],
               fwd[p], recvd[p], recv[p], "ending",
               out[e], data[e], sent[e], wire[e])
    BY <2>1, WriterEnds, ZenonT(30)
  <2> QED
    BY <1>1, <2>2, Zenon DEF Flow, PeerKept
<1> QED
    BY <1>4, <1>5

\* A message is accepted.
LEMMA AgentSendFlows ==
    ASSUME FlagTypeOK, QueueTypeOK, EndsInv, NEW e \in Ends, NEW p \in Ends,
           p = Peer(e), e = Peer(p), e # p, Flow(e, p), Flow(p, e), AgentSend(e)
    PROVE  Flow(e, p)' /\ Flow(p, e)'
<1>1. /\ bridge'[e] = bridge[e] /\ got'[e] = got[e] /\ aligned'[e] = aligned[e]
      /\ inhand'[e] = inhand[e] /\ fwd'[e] = fwd[e] /\ recvd'[e] = recvd[e]
      /\ recv'[e] = recv[e] /\ out'[e] = out[e]
      /\ data'[e] = Append(data[e], sent[e] + 1) /\ sent'[e] = sent[e] + 1
      /\ wire'[e] = wire[e]
      /\ PeerKept(p)
      /\ wire'[p] = wire[p]
    BY DEF AgentSend, bridgeVars, tableVars, recvVars, FlagTypeOK,
       QueueTypeOK, PeerKept
<1>2. bridge[e] \notin {"dial", "accept"}
    BY Zenon DEF AgentSend, EndsInv, EndOK, Unused, SetUp
<1>3. EndTypeOK(e) /\ EndTypeOK(p)
    BY EndTypes
<1>4. Flow(e, p)'
    BY <1>1, Zenon DEF Flow, PeerKept
<1>5. Flow(p, e)'
  <2>1. FlowOf(bridge[p], got[p], aligned[p], inhand[p],
               fwd[p], recvd[p], recv[p], bridge[e],
               out[e], data[e], sent[e], wire[e])
    BY <1>2, <1>3, Zenon DEF Flow
  <2>3. /\ got[p] \in BOOLEAN /\ recvd[p] \in Seq(Nat) /\ recv[p] \in Seq(Nat)
        /\ out[e] \in Nat /\ data[e] \in Seq(Nat) /\ sent[e] \in Nat /\ wire[e] \in Seq(Parts)
    BY <1>3, Zenon DEF EndTypeOK
  <2>2. FlowOf(bridge[p], got[p], aligned[p], inhand[p],
               fwd[p], recvd[p], recv[p], bridge[e],
               out[e], Append(data[e], sent[e] + 1), sent[e] + 1, wire[e])
    BY <1>2, <2>1, <2>3, FlowSent, ZenonT(30)
  <2> QED
    BY <1>2, <1>1, <2>2, Zenon DEF Flow, PeerKept
<1> QED
    BY <1>4, <1>5

\* A message that waited is accepted.
LEMMA SendResumesFlows ==
    ASSUME FlagTypeOK, QueueTypeOK, EndsInv, NEW e \in Ends, NEW p \in Ends,
           p = Peer(e), e = Peer(p), e # p, Flow(e, p), Flow(p, e), SendResumes(e)
    PROVE  Flow(e, p)' /\ Flow(p, e)'
<1>1. /\ bridge'[e] = bridge[e] /\ got'[e] = got[e] /\ aligned'[e] = aligned[e]
      /\ inhand'[e] = inhand[e] /\ fwd'[e] = fwd[e] /\ recvd'[e] = recvd[e]
      /\ recv'[e] = recv[e] /\ out'[e] = out[e]
      /\ data'[e] = Append(data[e], sent[e] + 1) /\ sent'[e] = sent[e] + 1
      /\ wire'[e] = wire[e]
      /\ PeerKept(p)
      /\ wire'[p] = wire[p]
    BY DEF SendResumes, bridgeVars, tableVars, recvVars, FlagTypeOK,
       QueueTypeOK, PeerKept
<1>2. bridge[e] \notin {"dial", "accept"}
    BY ZenonT(30) DEF SendResumes, EndsInv, EndOK, Unused, SetUp
<1>3. EndTypeOK(e) /\ EndTypeOK(p)
    BY EndTypes
<1>4. Flow(e, p)'
    BY <1>1, Zenon DEF Flow, PeerKept
<1>5. Flow(p, e)'
  <2>1. FlowOf(bridge[p], got[p], aligned[p], inhand[p],
               fwd[p], recvd[p], recv[p], bridge[e],
               out[e], data[e], sent[e], wire[e])
    BY <1>2, <1>3, Zenon DEF Flow
  <2>3. /\ got[p] \in BOOLEAN /\ recvd[p] \in Seq(Nat) /\ recv[p] \in Seq(Nat)
        /\ out[e] \in Nat /\ data[e] \in Seq(Nat) /\ sent[e] \in Nat /\ wire[e] \in Seq(Parts)
    BY <1>3, Zenon DEF EndTypeOK
  <2>2. FlowOf(bridge[p], got[p], aligned[p], inhand[p],
               fwd[p], recvd[p], recv[p], bridge[e],
               out[e], Append(data[e], sent[e] + 1), sent[e] + 1, wire[e])
    BY <1>2, <2>1, <2>3, FlowSent, ZenonT(30)
  <2> QED
    BY <1>2, <1>1, <2>2, Zenon DEF Flow, PeerKept
<1> QED
    BY <1>4, <1>5

\* A message is given to the agent.
LEMMA ForwardFlows ==
    ASSUME FlagTypeOK, QueueTypeOK, EndsInv, NEW e \in Ends, NEW p \in Ends,
           p = Peer(e), e = Peer(p), e # p, Flow(e, p), Flow(p, e), Forward(e)
    PROVE  Flow(e, p)' /\ Flow(p, e)'
<1>1. /\ bridge'[e] = bridge[e] /\ got'[e] = got[e] /\ aligned'[e] = aligned[e]
      /\ inhand'[e] = inhand[e] /\ fwd'[e] = fwd[e]
      /\ recvd'[e] = Append(recvd[e], Head(recv[e])) /\ recv'[e] = Tail(recv[e])
      /\ out'[e] = out[e] /\ data'[e] = data[e] /\ sent'[e] = sent[e]
      /\ wire'[e] = wire[e]
      /\ PeerKept(p)
      /\ wire'[p] = wire[p]
    BY DEF Forward, bridgeVars, tableVars, recvVars, FlagTypeOK, QueueTypeOK,
       PeerKept
<1>2. recv[e] # <<>>
    BY DEF Forward
<1>3. EndTypeOK(e) /\ EndTypeOK(p)
    BY EndTypes
<1>4. Flow(e, p)'
  <2>1. FlowOf(bridge[e], got[e], aligned[e], inhand[e],
               fwd[e], recvd[e], recv[e], bridge[p],
               out[p], data[p], sent[p], wire[p])
    BY <1>2, <1>3, Zenon DEF Flow
  <2>2. FlowOf(bridge[e], got[e], aligned[e], inhand[e],
               fwd[e], Append(recvd[e], Head(recv[e])), Tail(recv[e]), bridge[p],
               out[p], data[p], sent[p], wire[p])
    BY <1>2, <1>3, <2>1, FlowForwarded, ZenonT(30) DEF EndTypeOK
  <2> QED
    BY <1>2, <1>1, <2>2, Zenon DEF Flow, PeerKept
<1>5. Flow(p, e)'
    BY <1>1, Zenon DEF Flow, PeerKept
<1> QED
    BY <1>4, <1>5

\* The forwarder ends.
LEMMA ForwardFailsFlows ==
    ASSUME FlagTypeOK, QueueTypeOK, EndsInv, NEW e \in Ends, NEW p \in Ends,
           p = Peer(e), e = Peer(p), e # p, Flow(e, p), Flow(p, e), ForwardFails(e)
    PROVE  Flow(e, p)' /\ Flow(p, e)'
<1>1. /\ bridge'[e] = bridge[e] /\ got'[e] = got[e] /\ aligned'[e] = aligned[e]
      /\ inhand'[e] = inhand[e] /\ fwd'[e] = "gone" /\ recvd'[e] = recvd[e]
      /\ recv'[e] = <<>> /\ out'[e] = out[e] /\ data'[e] = data[e]
      /\ sent'[e] = sent[e] /\ wire'[e] = wire[e]
      /\ PeerKept(p)
      /\ wire'[p] = wire[p]
    BY DEF ForwardFails, bridgeVars, tableVars, recvVars, FlagTypeOK,
       QueueTypeOK, PeerKept
<1>3. EndTypeOK(e) /\ EndTypeOK(p)
    BY EndTypes
<1>4. Flow(e, p)'
  <2>1. FlowOf(bridge[e], got[e], aligned[e], inhand[e],
               fwd[e], recvd[e], recv[e], bridge[p],
               out[p], data[p], sent[p], wire[p])
    BY Zenon DEF Flow
  <2>3. recvd[e] \in Seq(Nat) /\ recv[e] \in Seq(Nat) /\ sent[p] \in Nat
    BY <1>3, Zenon DEF EndTypeOK
  <2>2. FlowOf(bridge[e], got[e], aligned[e], inhand[e],
               "gone", recvd[e], <<>>, bridge[p],
               out[p], data[p], sent[p], wire[p])
    BY <2>1, <2>3, FlowGone, Zenon
  <2> QED
    BY <1>1, <2>2, Zenon DEF Flow, PeerKept
<1>5. Flow(p, e)'
    BY <1>1, ZenonT(30) DEF Flow, PeerKept
<1> QED
    BY <1>4, <1>5

\* The agent is told of the end.
LEMMA ForwardClosedFlows ==
    ASSUME FlagTypeOK, QueueTypeOK, EndsInv, NEW e \in Ends, NEW p \in Ends,
           p = Peer(e), e = Peer(p), e # p, Flow(e, p), Flow(p, e), ForwardClosed(e)
    PROVE  Flow(e, p)' /\ Flow(p, e)'
<1>1. /\ bridge'[e] = bridge[e] /\ got'[e] = got[e] /\ aligned'[e] = aligned[e]
      /\ inhand'[e] = inhand[e] /\ fwd'[e] = "closed" /\ recvd'[e] = recvd[e]
      /\ recv'[e] = recv[e] /\ out'[e] = out[e] /\ data'[e] = data[e]
      /\ sent'[e] = sent[e] /\ wire'[e] = wire[e]
      /\ PeerKept(p)
      /\ wire'[p] = wire[p]
    BY DEF ForwardClosed, bridgeVars, tableVars, recvVars, FlagTypeOK,
       QueueTypeOK, PeerKept
<1>2. bridge[e] = "done"
    BY Zenon DEF ForwardClosed
<1>4. Flow(e, p)'
    BY <1>1, <1>2, Zenon DEF Flow, FlowOf, Live, PeerKept
<1>5. Flow(p, e)'
    BY <1>1, Zenon DEF Flow, PeerKept
<1> QED
    BY <1>4, <1>5

\* The RelayClose goes out, or its write fails; the bridge ends.
LEMMA WriteCloseFlows ==
    ASSUME FlagTypeOK, QueueTypeOK, EndsInv, NEW e \in Ends, NEW p \in Ends,
           p = Peer(e), e = Peer(p), e # p, Flow(e, p), Flow(p, e), WriteClose(e)
    PROVE  Flow(e, p)' /\ Flow(p, e)'
<1>1. /\ bridge'[e] = "ending" /\ got'[e] = got[e] /\ aligned'[e] = aligned[e]
      /\ inhand'[e] = inhand[e] /\ fwd'[e] = fwd[e] /\ recvd'[e] = recvd[e]
      /\ recv'[e] = recv[e] /\ out'[e] = out[e] /\ data'[e] = data[e]
      /\ sent'[e] = sent[e]
      /\ PeerKept(p)
      /\ wire'[p] = wire[p]
      /\ \/ wire'[e] = wire[e]
         \/ wire'[e] = Append(wire[e], Part("close", 0))
      /\ bridge[e] = "closing"
    BY Zenon DEF WriteClose, Write, Goto, bridgeVars, tableVars, recvVars,
       FlagTypeOK, QueueTypeOK, PeerKept
<1>2. Flow(e, p)'
    BY <1>1, Zenon DEF Flow, FlowOf, Live, PeerKept
<1>3. Flow(p, e)'
  <2>1. FlowOf(bridge[p], got[p], aligned[p], inhand[p],
               fwd[p], recvd[p], recv[p], "closing",
               out[e], data[e], sent[e], wire[e])
    BY <1>1, Zenon DEF Flow, PeerKept
  <2>2. CASE wire'[e] = wire[e]
    <3>1. FlowOf(bridge[p], got[p], aligned[p], inhand[p],
               fwd[p], recvd[p], recv[p], "ending",
               out[e], data[e], sent[e], wire[e])
      BY <2>1, WriterEnds, ZenonT(30)
    <3> QED
      BY <1>1, <2>2, <3>1, Zenon DEF Flow, PeerKept
  <2>3. CASE wire'[e] = Append(wire[e], Part("close", 0))
    <3>1. /\ got[p] \in BOOLEAN /\ recvd[p] \in Seq(Nat) /\ recv[p] \in Seq(Nat)
          /\ data[e] \in Seq(Nat) /\ sent[e] \in Nat /\ wire[e] \in Seq(Parts)
      BY EndTypes, Zenon DEF EndTypeOK
    <3>2. FlowOf(bridge[p], got[p], aligned[p], inhand[p],
               fwd[p], recvd[p], recv[p], "ending",
               out[e], data[e], sent[e], Append(wire[e], Part("close", 0)))
      BY <2>1, <3>1, FlowCloseWritten, ZenonT(30)
    <3> QED
      BY <1>1, <2>3, <3>2, Zenon DEF Flow, PeerKept
  <2> QED
    BY <1>1, <2>2, <2>3, Zenon
<1> QED
    BY <1>2, <1>3

\* A bridge that has lost its place reads what it likes.
LEMMA ReadMisalignedFlows ==
    ASSUME FlagTypeOK, QueueTypeOK, EndsInv, NEW e \in Ends, NEW p \in Ends,
           p = Peer(e), e = Peer(p), e # p, Flow(e, p), Flow(p, e), ReadMisaligned(e)
    PROVE  Flow(e, p)' /\ Flow(p, e)'
<1>1. /\ got'[e] = got[e] /\ aligned'[e] = aligned[e] /\ fwd'[e] = fwd[e]
      /\ recvd'[e] = recvd[e] /\ recv'[e] = recv[e] /\ out'[e] = out[e]
      /\ data'[e] = data[e] /\ sent'[e] = sent[e] /\ wire'[e] = wire[e]
      /\ PeerKept(p)
      /\ bridge[e] = "select" /\ ~aligned[e]
      /\ bridge'[e] = "ending" \/ bridge'[e] = "deliver"
    BY SMTT(30) DEF ReadMisaligned, Consume, Goto, bridgeVars, tableVars, recvVars,
       FlagTypeOK, QueueTypeOK, PeerKept
<1>2. Flow(e, p)'
    BY <1>1, Zenon DEF Flow, FlowOf, Live, PeerKept
<1>3. Flow(p, e)'
  <2>1. FlowOf(bridge[p], got[p], aligned[p], inhand[p],
               fwd[p], recvd[p], recv[p], "select",
               out[e], data[e], sent[e], wire[e])
    BY <1>1, Zenon DEF Flow, PeerKept
  <2>2. CASE bridge'[e] = "ending"
    <3>1. FlowOf(bridge[p], got[p], aligned[p], inhand[p],
               fwd[p], recvd[p], recv[p], "ending",
               out[e], data[e], sent[e], wire[e])
      BY <2>1, WriterEnds, ZenonT(30)
    <3> QED
      BY <1>1, <2>2, <3>1, Zenon DEF Flow, PeerKept
  <2>3. CASE bridge'[e] = "deliver"
    <3>1. FlowOf(bridge[p], got[p], aligned[p], inhand[p],
               fwd[p], recvd[p], recv[p], "deliver",
               out[e], data[e], sent[e], wire[e])
      BY <2>1, WriterMoves, ZenonT(30) DEF Writes
    <3> QED
      BY <1>1, <2>3, <3>1, Zenon DEF Flow, PeerKept
  <2> QED
    BY <1>1, <2>2, <2>3, Zenon
<1> QED
    BY <1>2, <1>3

\* The bridge drops its channel, and perhaps its last bytes are lost.
LEMMA BridgeDoneFlows ==
    ASSUME FlagTypeOK, QueueTypeOK, EndsInv, NEW e \in Ends, NEW p \in Ends,
           p = Peer(e), e = Peer(p), e # p, Flow(e, p), Flow(p, e), BridgeDone(e)
    PROVE  Flow(e, p)' /\ Flow(p, e)'
<1>1. /\ bridge'[e] = "done" /\ got'[e] = got[e] /\ aligned'[e] = aligned[e]
      /\ inhand'[e] = inhand[e] /\ fwd'[e] = fwd[e] /\ recvd'[e] = recvd[e]
      /\ recv'[e] = recv[e] /\ out'[e] = out[e] /\ data'[e] = <<>>
      /\ sent'[e] = sent[e]
      /\ PeerKept(p)
      /\ wire'[p] = wire[p]
      /\ wire'[e] = wire[e] \/ wire'[e] = <<>>
    BY SMTT(30) DEF BridgeDone, Goto, bridgeVars, tableVars, recvVars, FlagTypeOK,
       QueueTypeOK, PeerKept
<1>2. Flow(e, p)'
    BY <1>1, Zenon DEF Flow, FlowOf, Live, PeerKept
<1>3. Flow(p, e)'
  <2>1. Flow(p, e)
    OBVIOUS
  <2>2. /\ FlowOf(bridge[p], got[p], aligned[p], inhand[p],
               fwd[p], recvd[p], recv[p], "done",
               out[e], <<>>, sent[e], wire[e])
        /\ FlowOf(bridge[p], got[p], aligned[p], inhand[p],
               fwd[p], recvd[p], recv[p], "done",
               out[e], <<>>, sent[e], <<>>)
    BY <2>1, WriterEnds, ZenonT(30) DEF Flow
  <2> QED
    BY <1>1, <2>2, Zenon DEF Flow, PeerKept
<1> QED
    BY <1>2, <1>3

\* The dial writes its RelayOpen.
LEMMA DialOpenFlows ==
    ASSUME FlagTypeOK, QueueTypeOK, EndsInv, NEW e \in Ends, NEW p \in Ends,
           e = "i", p = "r", Flow(e, p), Flow(p, e), DialOpen
    PROVE  Flow(e, p)' /\ Flow(p, e)'
<1>1. /\ bridge'[e] = "awaiting" /\ got'[e] = got[e] /\ aligned'[e] = aligned[e]
      /\ inhand'[e] = inhand[e] /\ fwd'[e] = fwd[e] /\ recvd'[e] = recvd[e]
      /\ recv'[e] = recv[e] /\ out'[e] = out[e] /\ data'[e] = data[e]
      /\ sent'[e] = sent[e] /\ wire'[e] = Append(wire[e], Part("open", 0))
      /\ PeerKept(p)
      /\ wire'[p] = wire[p]
      /\ bridge[e] = "dial"
    BY DEF DialOpen, Write, Goto, bridgeVars, tableVars, recvVars, FlagTypeOK,
       QueueTypeOK, PeerKept
<1>2. Flow(e, p)'
  <2>1. FlowOf("dial", got[e], aligned[e], inhand[e],
               fwd[e], recvd[e], recv[e], bridge[p],
               out[p], data[p], sent[p], wire[p])
    BY <1>1, Zenon DEF Flow, PeerKept
  <2>2. FlowOf("awaiting", got[e], aligned[e], inhand[e],
               fwd[e], recvd[e], recv[e], bridge[p],
               out[p], data[p], sent[p], wire[p])
    BY <2>1, FlowWaits, Zenon DEF SetUp
  <2> QED
    BY <1>1, <2>2, Zenon DEF Flow, PeerKept
<1>3. Flow(p, e)'
  <2>1. /\ got[p] \in BOOLEAN /\ recvd[p] \in Seq(Nat) /\ recv[p] \in Seq(Nat)
        /\ data[e] \in Seq(Nat) /\ sent[e] \in Nat /\ wire[e] \in Seq(Parts)
    BY EndTypes DEF EndTypeOK
  <2>2. data[e] = <<>> /\ sent[e] = 0 /\ wire[e] = <<>>
    BY <1>1, ZenonT(30) DEF EndsInv, EndOK, Unused, SetUp
  <2>3. Len(data[e]) <= 0 /\ sent[e] <= 0 /\ Len(wire[e]) <= 0
    BY <2>2
  <2>4. FlowOf(bridge[p], got[p], aligned[p], inhand[p],
               fwd[p], recvd[p], recv[p], "dial",
               out[e], data[e], sent[e], wire[e])
    BY <1>1, Zenon DEF Flow, PeerKept
  <2> DEFINE x == Part("open", 0)
  <2>5. x \in Parts /\ "awaiting" \in Writes /\ "select" \in Writes
    BY SMTT(30) DEF Part, Parts, Writes
  <2> HIDE DEF x
  <2>6. FlowOf(bridge[p], got[p], aligned[p], inhand[p],
               fwd[p], recvd[p], recv[p], "awaiting",
               out[e], data[e], sent[e], Append(wire[e], x))
    BY <2>1, <2>3, <2>4, <2>5, FlowOpened
  <2> QED
    BY <1>1, <2>6, Zenon DEF Flow, PeerKept, x
<1> QED
    BY <1>2, <1>3

\* The accept reads it and answers.
LEMMA AcceptOpenFlows ==
    ASSUME FlagTypeOK, QueueTypeOK, EndsInv, NEW e \in Ends, NEW p \in Ends,
           e = "r", p = "i", Flow(e, p), Flow(p, e), AcceptOpen
    PROVE  Flow(e, p)' /\ Flow(p, e)'
<1>1. /\ bridge'[e] = "select" /\ got'[e] = got[e] /\ aligned'[e] = aligned[e]
      /\ inhand'[e] = inhand[e] /\ fwd'[e] = "run" /\ recvd'[e] = recvd[e]
      /\ recv'[e] = recv[e] /\ out'[e] = out[e] /\ data'[e] = data[e]
      /\ sent'[e] = sent[e] /\ wire'[e] = Append(wire[e], Part("ack", 0))
      /\ PeerKept(p)
      /\ wire'[p] = Tail(wire[p])
      /\ bridge[e] = "accept" /\ wire[p] # <<>>
    BY Zenon DEF AcceptOpen, Started, Goto, Arrived, Inbound, Peer,
       bridgeVars, tableVars, recvVars, FlagTypeOK, QueueTypeOK, PeerKept
<1>2. Flow(e, p)'
  <2>1. /\ out[p] \in Nat /\ data[p] \in Seq(Nat) /\ sent[p] \in Nat
        /\ recvd[e] \in Seq(Nat) /\ recv[e] \in Seq(Nat) /\ wire[p] \in Seq(Parts)
    BY EndTypes DEF EndTypeOK
  <2>2. recvd[e] = <<>> /\ recv[e] = <<>> /\ got[e] = FALSE /\ fwd[e] # "gone"
    BY <1>1, ZenonT(30) DEF EndsInv, EndOK, Unused, SetUp, FlagTypeOK
  <2>3. FlowOf("accept", FALSE, aligned[e], inhand[e],
               fwd[e], recvd[e], recv[e], bridge[p],
               out[p], data[p], sent[p], wire[p])
    BY <1>1, <2>2, Zenon DEF Flow, PeerKept
  <2>4. FlowOf("select", FALSE, aligned[e], inhand[e],
               "run", recvd[e], recv[e], bridge[p],
               out[p], data[p], sent[p], Tail(wire[p]))
    BY <1>1, <2>1, <2>2, <2>3, FlowStarts, ZenonT(30) DEF SetUp
  <2> QED
    BY <1>1, <2>2, <2>4, ZenonT(30) DEF Flow, PeerKept
<1>3. Flow(p, e)'
  <2>1. /\ got[p] \in BOOLEAN /\ recvd[p] \in Seq(Nat) /\ recv[p] \in Seq(Nat)
        /\ data[e] \in Seq(Nat) /\ sent[e] \in Nat /\ wire[e] \in Seq(Parts)
    BY EndTypes DEF EndTypeOK
  <2>2. data[e] = <<>> /\ sent[e] = 0 /\ wire[e] = <<>>
    BY <1>1, Zenon DEF EndsInv, EndOK, Unused, SetUp
  <2>3. Len(data[e]) <= 0 /\ sent[e] <= 0 /\ Len(wire[e]) <= 0
    BY <2>2
  <2>4. FlowOf(bridge[p], got[p], aligned[p], inhand[p],
               fwd[p], recvd[p], recv[p], "accept",
               out[e], data[e], sent[e], wire[e])
    BY <1>1, Zenon DEF Flow, PeerKept
  <2> DEFINE x == Part("ack", 0)
  <2>5. x \in Parts /\ "awaiting" \in Writes /\ "select" \in Writes
    BY SMTT(30) DEF Part, Parts, Writes
  <2> HIDE DEF x
  <2>6. FlowOf(bridge[p], got[p], aligned[p], inhand[p],
               fwd[p], recvd[p], recv[p], "select",
               out[e], data[e], sent[e], Append(wire[e], x))
    BY <2>1, <2>3, <2>4, <2>5, FlowOpened, SMTT(30)
  <2> QED
    BY <1>1, <2>6, Zenon DEF Flow, PeerKept, x
<1> QED
    BY <1>2, <1>3

\* The dial reads the answer.
LEMMA DialAckFlows ==
    ASSUME FlagTypeOK, QueueTypeOK, EndsInv, NEW e \in Ends, NEW p \in Ends,
           e = "i", p = "r", Flow(e, p), Flow(p, e), DialAck
    PROVE  Flow(e, p)' /\ Flow(p, e)'
<1>1. /\ bridge'[e] = "select" /\ got'[e] = got[e] /\ aligned'[e] = aligned[e]
      /\ inhand'[e] = inhand[e] /\ fwd'[e] = "run" /\ recvd'[e] = recvd[e]
      /\ recv'[e] = recv[e] /\ out'[e] = out[e] /\ data'[e] = data[e]
      /\ sent'[e] = sent[e] /\ wire'[e] = wire[e]
      /\ PeerKept(p)
      /\ wire'[p] = Tail(wire[p])
      /\ bridge[e] = "awaiting" /\ wire[p] # <<>>
    BY DEF DialAck, Started, Goto, Consume, Arrived, Inbound, Peer,
       bridgeVars, tableVars, recvVars, FlagTypeOK, QueueTypeOK, PeerKept
<1>2. Flow(e, p)'
  <2>1. /\ out[p] \in Nat /\ data[p] \in Seq(Nat) /\ sent[p] \in Nat
        /\ recvd[e] \in Seq(Nat) /\ recv[e] \in Seq(Nat) /\ wire[p] \in Seq(Parts)
    BY EndTypes DEF EndTypeOK
  <2>2. recvd[e] = <<>> /\ recv[e] = <<>> /\ got[e] = FALSE /\ fwd[e] # "gone"
    BY <1>1, ZenonT(30) DEF EndsInv, EndOK, Unused, SetUp, FlagTypeOK
  <2>3. FlowOf("awaiting", FALSE, aligned[e], inhand[e],
               fwd[e], recvd[e], recv[e], bridge[p],
               out[p], data[p], sent[p], wire[p])
    BY <1>1, <2>2, Zenon DEF Flow, PeerKept
  <2>4. FlowOf("select", FALSE, aligned[e], inhand[e],
               "run", recvd[e], recv[e], bridge[p],
               out[p], data[p], sent[p], Tail(wire[p]))
    BY <1>1, <2>1, <2>2, <2>3, FlowStarts, ZenonT(30) DEF SetUp
  <2> QED
    BY <1>1, <2>2, <2>4, ZenonT(30) DEF Flow, PeerKept
<1>3. Flow(p, e)'
  <2>1. FlowOf(bridge[p], got[p], aligned[p], inhand[p],
               fwd[p], recvd[p], recv[p], "awaiting",
               out[e], data[e], sent[e], wire[e])
    BY <1>1, Zenon DEF Flow, PeerKept
  <2>2. FlowOf(bridge[p], got[p], aligned[p], inhand[p],
               fwd[p], recvd[p], recv[p], "select",
               out[e], data[e], sent[e], wire[e])
    BY <2>1, WriterMoves, ZenonT(30) DEF Writes
  <2> QED
    BY <1>1, <2>2, Zenon DEF Flow, PeerKept
<1> QED
    BY <1>2, <1>3

\* Steps that touch nothing of this.
LEMMA QuietFlows ==
    ASSUME NEW e \in Ends, NEW p \in Ends, Flow(e, p), Flow(p, e),
           UNCHANGED <<bridge, got, aligned, inhand, fwd, recvd, recv, out, data, sent, wire>>
    PROVE  Flow(e, p)' /\ Flow(p, e)'
BY Zenon DEF Flow

\* The way of the messages, both ways, is right after every step.
LEMMA FlowNext ==
    ASSUME FlagTypeOK, QueueTypeOK, EndsInv, FlowInv, [Next]_vars
    PROVE  FlowInv'
<1>1. ASSUME NEW e \in Ends, Flow(e, Peer(e))', Flow(Peer(e), e)'
      PROVE  FlowInv'
  <2>1. Peer(Peer(e)) = e /\ Ends = {e, Peer(e)}
    BY EndsArePeers
  <2>2. ASSUME NEW x \in Ends PROVE Flow(x, Peer(x))'
    BY <1>1, <2>1, <2>2
  <2> QED
    BY <2>2 DEF FlowInv
<1>2. ASSUME NEW e \in Ends
      PROVE  /\ Peer(e) \in Ends /\ Peer(e) # e /\ Peer(Peer(e)) = e
             /\ Flow(e, Peer(e)) /\ Flow(Peer(e), e)
  <2>1. Peer(e) \in Ends /\ Peer(e) # e /\ Peer(Peer(e)) = e
    BY EndsArePeers
  <2> QED
    BY <2>1 DEF FlowInv
<1>3. ASSUME NEW e \in Ends, UNCHANGED <<bridge, got, aligned, inhand, fwd, recvd, recv,
                                         out, data, sent, wire>>
      PROVE  FlowInv'
    BY <1>1, <1>2, <1>3, QuietFlows DEF EndTypeOK
<1>4. "i" \in Ends /\ "r" \in Ends /\ Peer("i") = "r" /\ Peer("r") = "i"
    BY DEF Ends, Peer
<1>5. CASE DialOpen
    BY <1>1, <1>2, <1>4, <1>5, DialOpenFlows
<1>6. CASE AcceptOpen
    BY <1>1, <1>2, <1>4, <1>6, AcceptOpenFlows
<1>7. CASE DialAck
    BY <1>1, <1>2, <1>4, <1>7, DialAckFlows
<1>8. ASSUME NEW e \in Ends, SetUpFails(e) PROVE FlowInv'
    BY <1>1, <1>2, <1>8, SetUpFailsFlows
<1>9. ASSUME NEW e \in Ends, TakeData(e) PROVE FlowInv'
    BY <1>1, <1>2, <1>9, TakeDataFlows
<1>10. ASSUME NEW e \in Ends, WriteHeader(e) PROVE FlowInv'
    BY <1>1, <1>2, <1>10, WriteHeaderFlows
<1>11. ASSUME NEW e \in Ends, WriteBody(e) PROVE FlowInv'
    BY <1>1, <1>2, <1>11, WriteBodyFlows
<1>12. ASSUME NEW e \in Ends, WriteFails(e) PROVE FlowInv'
    BY <1>1, <1>2, <1>12, WriteFailsFlows
<1>13. ASSUME NEW e \in Ends, TakeClose(e) PROVE FlowInv'
    BY <1>1, <1>2, <1>13, TakeCloseFlows
<1>14. ASSUME NEW e \in Ends, WriteClose(e) PROVE FlowInv'
    BY <1>1, <1>2, <1>14, WriteCloseFlows
<1>15. ASSUME NEW e \in Ends, ReadHeader(e) PROVE FlowInv'
    BY <1>1, <1>2, <1>15, ReadHeaderFlows
<1>16. ASSUME NEW e \in Ends, ReadBody(e) PROVE FlowInv'
    BY <1>1, <1>2, <1>16, ReadBodyFlows
<1>17. ASSUME NEW e \in Ends, ReadClose(e) PROVE FlowInv'
    BY <1>1, <1>2, <1>17, ReadCloseFlows
<1>18. ASSUME NEW e \in Ends, ReadMisaligned(e) PROVE FlowInv'
    BY <1>1, <1>2, <1>18, ReadMisalignedFlows
<1>19. ASSUME NEW e \in Ends, ReadFails(e) PROVE FlowInv'
    BY <1>1, <1>2, <1>19, ReadFailsFlows
<1>20. ASSUME NEW e \in Ends, Deliver(e) PROVE FlowInv'
    BY <1>1, <1>2, <1>20, DeliverFlows
<1>21. ASSUME NEW e \in Ends, DeliverFails(e) PROVE FlowInv'
    BY <1>1, <1>2, <1>21, DeliverFailsFlows
<1>22. ASSUME NEW e \in Ends, BridgeDone(e) PROVE FlowInv'
    BY <1>1, <1>2, <1>22, BridgeDoneFlows
<1>23. ASSUME NEW e \in Ends, AgentSend(e) PROVE FlowInv'
    BY <1>1, <1>2, <1>23, AgentSendFlows
<1>24. ASSUME NEW e \in Ends, SendResumes(e) PROVE FlowInv'
    BY <1>1, <1>2, <1>24, SendResumesFlows
<1>25. ASSUME NEW e \in Ends, Forward(e) PROVE FlowInv'
    BY <1>1, <1>2, <1>25, ForwardFlows
<1>26. ASSUME NEW e \in Ends, ForwardFails(e) PROVE FlowInv'
    BY <1>1, <1>2, <1>26, ForwardFailsFlows
<1>27. ASSUME NEW e \in Ends, ForwardClosed(e) PROVE FlowInv'
    BY <1>1, <1>2, <1>27, ForwardClosedFlows
<1>28. ASSUME NEW e \in Ends, AgentSendWaits(e) PROVE FlowInv'
    BY <1>3, <1>28 DEF AgentSendWaits, bridgeVars, tableVars, recvVars
<1>29. ASSUME NEW e \in Ends, AgentClose(e) PROVE FlowInv'
    BY <1>3, <1>29, SMTT(30) DEF AgentClose, bridgeVars, tableVars, recvVars
<1>30. ASSUME NEW e \in Ends, AgentLeaves(e) PROVE FlowInv'
    BY <1>3, <1>30 DEF AgentLeaves, bridgeVars, tableVars, recvVars
<1>31. CASE Drop
    BY <1>3, <1>4, <1>31 DEF Drop, bridgeVars, tableVars, recvVars
<1>32. CASE UNCHANGED vars
    BY <1>3, <1>4, <1>32 DEF vars, bridgeVars, tableVars, recvVars
<1> QED
    BY <1>5, <1>6, <1>7, <1>8, <1>9, <1>10, <1>11, <1>12, <1>13, <1>14, <1>15, SMTT(30),
       <1>16, <1>17, <1>18, <1>19, <1>20, <1>21, <1>22, <1>23, <1>24, <1>25,
       <1>26, <1>27, <1>28, <1>29, <1>30, <1>31, <1>32 DEF Next, BridgeStep

\* Numbered messages in two channels are numbered as one sequence.
LEMMA NumberedFromOne ==
    ASSUME NEW rd \in Seq(Nat), NEW rv \in Seq(Nat), NEW st, Numbered(rd, rv),
           Len(rd) + Len(rv) <= st
    PROVE  LET s == rd \o rv IN s = [k \in 1..Len(s) |-> k] /\ Len(s) <= st
<1> DEFINE s == rd \o rv
<1>1. /\ s \in Seq(Nat) /\ Len(s) = Len(rd) + Len(rv)
      /\ \A k \in 1..Len(s) : s[k] = IF k <= Len(rd) THEN rd[k] ELSE rv[k - Len(rd)]
    OBVIOUS
<1>2. ASSUME NEW k \in 1..Len(s) PROVE s[k] = k
  <2>1. CASE k <= Len(rd)
    BY <1>1, <2>1 DEF Numbered
  <2>2. CASE ~(k <= Len(rd))
    <3>1. k - Len(rd) \in 1..Len(rv)
      BY <1>1, <2>2
    <3>2. s[k] = rv[k - Len(rd)]
      BY <1>1, <2>2
    <3>3. rv[k - Len(rd)] = Len(rd) + (k - Len(rd))
      BY <3>1, SMTT(30) DEF Numbered
    <3> QED
      BY <3>2, <3>3
  <2> QED
    BY <2>1, <2>2
<1> HIDE DEF s
<1>3. s = [k \in 1..Len(s) |-> s[k]]
    BY <1>1
<1>4. s = [k \in 1..Len(s) |-> k]
    BY <1>2, <1>3
<1> QED
    BY <1>1, <1>4 DEF s

\* The inductive invariant.
DirectInv == FlagTypeOK /\ QueueTypeOK /\ EndsInv /\ FlowInv

\* It holds on a connection that has just been authenticated.
LEMMA DirectInvInit == Init => DirectInv
<1> SUFFICES ASSUME Init PROVE DirectInv
    OBVIOUS
<1>1. FlagTypeOK
  <2>1. bridge \in [Ends -> Bridges]
    BY SMTT(30) DEF Init, Ends, Bridges
  <2> QED
    BY <2>1 DEF Init, FlagTypeOK
<1>2. QueueTypeOK
    BY SMTT(30) DEF Init, QueueTypeOK
<1>3. ASSUME NEW e \in Ends
      PROVE  /\ bridge[e] \in {"dial", "accept"} /\ out[e] = 0 /\ got[e] = FALSE
             /\ aligned[e] = TRUE /\ inhand[e] = 0 /\ table[e] = FALSE
             /\ waiting[e] = FALSE /\ data[e] = <<>> /\ recv[e] = <<>>
             /\ recvd[e] = <<>> /\ fwd[e] = "none" /\ sent[e] = 0 /\ wire[e] = <<>>
    BY SMTT(30) DEF Init, Ends
<1>4. EndsInv
  <2> SUFFICES ASSUME NEW e \in Ends PROVE EndOK(e)
    BY DEF EndsInv
  <2>1. Queued(<<>>, 0)
    BY DEF Queued
  <2>2. Queued(data[e], sent[e])
    BY <1>3, <2>1, Zenon
  <2>3. Unused(e) /\ GotOK(e) /\ TableOK(e)
    BY <1>3, Zenon DEF Unused, GotOK, TableOK
  <2> QED
    BY <2>2, <2>3 DEF EndOK
<1>5. ASSUME NEW e \in Ends PROVE Flow(e, Peer(e))
  <2>1. Peer(e) \in Ends
    BY EndsArePeers
  <2>2. Numbered(<<>>, <<>>)
    BY DEF Numbered
  <2>3. Base(bridge[e], <<>>, <<>>) = 0 /\ Off(bridge[e], FALSE) = -1
    <3>1. bridge[e] \in SetUp /\ bridge[e] # "deliver"
      BY <1>3, Zenon DEF SetUp
    <3>2. Len(<<>>) = 0
      OBVIOUS
    <3> QED
      BY <3>1, <3>2 DEF Base, Off
  <2>4. Bodies(<<>>, -1, 0, 0)
    BY DEF Bodies
  <2>5. Written(bridge[Peer(e)], 0, <<>>, 0, 0, -1, 0)
    BY <1>3, <2>1, Zenon DEF Written
  <2>6. Len(<<>>) = 0 /\ 0 <= 0 /\ Len(<<>>) + Len(<<>>) <= 0
    OBVIOUS
  <2>7. bridge[e] # "deliver"
    BY <1>3, Zenon
  <2>8. FlowOf(bridge[e], FALSE, TRUE, 0, "none", <<>>, <<>>, bridge[Peer(e)], 0, <<>>, 0, <<>>)
    BY <2>2, <2>3, <2>4, <2>5, <2>6, <2>7, Zenon DEF FlowOf
  <2> QED
    BY <1>3, <2>1, <2>8, Zenon DEF Flow
<1> QED
    BY <1>1, <1>2, <1>4, <1>5 DEF DirectInv, FlowInv

\* The invariant of the direct connection: the parts on the wire, the message in
\* hand and the channels continue each other.
THEOREM DirectInvariant == Spec => []DirectInv
<1>1. DirectInv /\ [Next]_vars => DirectInv'
    BY FlagsNext, QueuesNext, EndsNext, FlowNext DEF DirectInv
<1> QED
    BY <1>1, DirectInvInit, PTL DEF Spec

\* What run_stream_bridge has passed on, as long as its select has not cut a
\* read in two, is what the manager of the other agent accepted: the first
\* messages, in order, none twice, for any number of messages and any sizes of
\* the channels and of the TCP buffers, with and without a lost connection.
THEOREM PrefixIsDelivered == Spec => []AlignedDeliversPrefix
<1>1. DirectInv => AlignedDeliversPrefix
  <2> SUFFICES ASSUME DirectInv, NEW e \in Ends, aligned[e]
               PROVE  LET s == recvd[e] \o recv[e] IN
                      /\ s = [k \in 1..Len(s) |-> k]
                      /\ Len(s) <= sent[Peer(e)]
    BY Zenon DEF AlignedDeliversPrefix
  <2>1. recvd[e] \in Seq(Nat) /\ recv[e] \in Seq(Nat)
    BY EndTypes DEF DirectInv, EndTypeOK
  <2>2. Numbered(recvd[e], recv[e]) /\ Len(recvd[e]) + Len(recv[e]) <= sent[Peer(e)]
    BY Zenon DEF DirectInv, FlowInv, Flow, FlowOf
  <2> QED
    BY <2>1, <2>2, NumberedFromOne, Zenon
<1> QED
    BY <1>1, DirectInvariant, PTL
=============================================================================

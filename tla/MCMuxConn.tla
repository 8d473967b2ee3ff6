------------------------------ MODULE MCMuxConn ------------------------------
(* Instances of MuxConn for TLC: who sends how much. *)
EXTENDS MuxConn

\* Stream 1 is idle; on stream 3 the initiator's agent sends two messages and
\* the responder's answers with one.
LaterAnswer == [i |-> [id \in Ids |-> IF id = 1 THEN 0 ELSE 2],
                r |-> [id \in Ids |-> IF id = 1 THEN 0 ELSE 1]]

\* Stream 1 is saturated by two messages, stream 3 has one.
Saturated == [i |-> [id \in Ids |-> IF id = 1 THEN 2 ELSE 1],
              r |-> [id \in Ids |-> 0]]
=============================================================================

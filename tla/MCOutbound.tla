----------------------------- MODULE MCOutbound -----------------------------
(* Small instances of Outbound for TLC. *)
EXTENDS Outbound, TLC

R(t, b, d, h) == [tier |-> t, blocking |-> b, delayed |-> d, head |-> h]
P(o, v, d) == [order |-> o, overflow |-> v, depth |-> d]

\* A background beacon, a delayed relay, a blocking text; an ACK through a head.
Beacon == R(0, FALSE, FALSE, FALSE)
Relay == R(1, FALSE, TRUE, FALSE)
Text == R(1, TRUE, FALSE, FALSE)
HeadAck == R(3, TRUE, FALSE, TRUE)

SafetyRequests == {Beacon, Relay, Text}
LivenessRequests == {Relay, Text, HeadAck}

\* The default preset and the no-backoff preset of meshtastic_sched.c, with a soft depth
\* of the array size (settable) or below it (8 of 16 as shipped).
BothPolicies == {P("PRIORITY", "DROP_LOWEST", 2), P("FIFO", "DROP_NEWEST", 1)}
LowDepth == {P("PRIORITY", "DROP_LOWEST", 1)}

Symmetry == Permutations(Frames)
=============================================================================

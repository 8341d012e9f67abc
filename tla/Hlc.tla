--------------------------------- MODULE Hlc ---------------------------------
(* The hybrid logical clock that versions configuration (meshtastic_hlc.c).  *)
(* A clock is a pair of physical milliseconds and a counter; a stamp is the  *)
(* clock's value with the id of the node that minted it.                     *)
EXTENDS Integers

CONSTANTS
    CounterMax,     \* UINT32_MAX
    MaxDrift,       \* MESHTASTIC_HLC_MAX_DRIFT_MS
    Tick            \* what an observation adds to the counter: 1 in the code.  A
                    \* system that observes for ever takes 0, which keeps the
                    \* counter finite; the theorems hold for both.

ASSUME HlcConstants ==
    CounterMax \in Nat \ {0} /\ MaxDrift \in Nat /\ Tick \in {0, 1}

Clock == [p : Nat, c : 0..CounterMax]
Stamp == [p : Nat, c : 0..CounterMax, n : Nat]
Unset == [p |-> 0, c |-> 0, n |-> 0]

Later(a, b) == IF a >= b THEN a ELSE b

\* A counter at its maximum spends a millisecond instead of wrapping.
Bump(p, from) ==
    IF from = CounterMax THEN [p |-> p + 1, c |-> 0] ELSE [p |-> p, c |-> from + 1]

\* The clock after a local write at wall-clock time now (0: never set).
Local(h, now) ==
    IF now > h.p THEN [p |-> now, c |-> 0] ELSE Bump(h.p, h.c)

MintAnonymous(h, n) == [p |-> h.p, c |-> h.c, n |-> 0]
Mint(h, n) == [p |-> h.p, c |-> h.c, n |-> n]

\* A stamp too far ahead of a clock that is set does not move it.
Clamped(s, now) == now > 0 /\ s.p > now + MaxDrift

Seen(p, from) == IF Tick = 0 THEN [p |-> p, c |-> from] ELSE Bump(p, from)

\* The clock after a stamp s has been seen.
Observe(h, s, now) ==
    LET r == IF Clamped(s, now) THEN now ELSE s.p
        l == Later(h.p, Later(r, now))
    IN  CASE l = h.p /\ l = r -> Seen(l, Later(h.c, s.c))
          [] l = h.p /\ l # r -> Seen(l, h.c)
          [] l # h.p /\ l = r -> Seen(l, s.c)
          [] OTHER -> [p |-> l, c |-> 0]

\* meshtastic_hlc_compare(a, b) > 0
Newer(a, b) ==
    \/ a.p > b.p
    \/ a.p = b.p /\ a.c > b.c
    \/ a.p = b.p /\ a.c = b.c /\ a.n > b.n
=============================================================================

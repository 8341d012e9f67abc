------------------------------- MODULE MCMesh -------------------------------
(* Small networks for TLC. *)
EXTENDS Mesh

CONSTANTS s, a, b, c, d, e, u1, u2, m1

TwoWay(pairs) == pairs \cup {<<p[2], p[1]>> : p \in pairs}

NoRoutes == [n \in Node |-> [m \in Node |-> 0]]

Byte == [n \in Node |-> CASE n = s -> 1 [] n = a -> 2 [] n = b -> 3 [] n = c -> 4
                          [] n = d -> 5 [] OTHER -> 6]

\* sends: what the application sends; losses: how many receptions are lost.
Plain == [links |-> {}, role |-> [n \in Node |-> "ROUTER"], mode |-> [n \in Node |-> "ALL"],
          favourites |-> {}, ignored |-> {}, keys |-> Node, low |-> Byte,
          routes |-> NoRoutes, sends |-> {}, losses |-> 0]

\* One relay, and a unicast that may be lost on the way there or back.
Line == [Plain EXCEPT !.links = TwoWay({<<s, a>>, <<a, d>>}), !.sends = {u1}, !.losses = 2]
\* Nobody hears us: two packets for a table of one, one of them sent twice.
Alone == [Plain EXCEPT !.sends = {u2, m1}]
\* The destination is next to us.
Pair == [Plain EXCEPT !.links = TwoWay({<<s, d>>}), !.sends = {u2}]
\* The same with a route learned earlier: through a, or through b, which has gone away.
Routed == [Line EXCEPT !.routes[s][d] = Byte[a], !.losses = 1]
Stale == [Line EXCEPT !.routes[s][d] = Byte[b], !.losses = 0]
\* The answer comes back over a relay that cannot hear us.
OneWay == [Plain EXCEPT !.links = TwoWay({<<s, a>>, <<a, d>>}) \cup {<<d, b>>, <<b, s>>},
                        !.sends = {u1}]
\* A long and a short path to c, and e behind it: a broadcast.
Detour == [Plain EXCEPT !.links = TwoWay({<<s, a>>, <<a, c>>, <<s, b>>, <<b, d>>, <<d, c>>,
                                          <<c, e>>}),
                        !.sends = {m1}]
\* Clients, a base and a mute one that hear each other; c ignores the sender.
Crowd == [Plain EXCEPT !.links = TwoWay({<<s, a>>, <<s, b>>, <<s, c>>, <<a, b>>, <<b, d>>,
                                         <<b, c>>}),
                       !.role = [n \in Node |-> CASE n = a -> "CLIENT" [] n = b -> "CLIENT_BASE"
                                                  [] OTHER -> "CLIENT_MUTE"],
                       !.ignored = {<<c, s>>}, !.keys = Node \ {a},
                       !.sends = {m1}]
\* A backbone of trusted routers, on which hops are not counted.
Backbone == [Plain EXCEPT !.links = TwoWay({<<s, a>>, <<a, b>>, <<b, c>>, <<c, d>>, <<d, e>>}),
                          !.favourites = {<<b, a>>, <<c, b>>, <<d, c>>},
                          !.sends = {m1}]
\* The destination lacks the key.
Keyless == [Plain EXCEPT !.links = TwoWay({<<s, d>>}), !.keys = Node \ {d},
                         !.sends = {u1}, !.losses = 1]

MCSends == {u1, u2, m1}
MCBroadcasts == {m1}
MCDest == [x \in MCSends |-> IF x = m1 THEN All ELSE d]
MCSubmits == [x \in MCSends |-> IF x = u2 THEN 2 ELSE 1]
MCNode == {s, a, b, c, d, e}
\* The settings of the runs.
Networks == {Line, Alone, Pair, Routed, Stale, OneWay, Detour, Crowd, Backbone}
NoKey == {Keyless}
=============================================================================

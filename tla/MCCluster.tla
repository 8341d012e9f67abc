----------------------------- MODULE MCCluster -----------------------------
(* Two members of a cluster, one configuration section and, in one setup, the
   private firmware section.  Each setup is one situation.                   *)
EXTENDS Cluster

MCPayload == [long |-> 2, other |-> 2, short |-> 1]
MCPrivate == {"fw"}
MCHeld == {"lora"}

Fw == [fw |-> 0]
Display == [display |-> 5]

NoRows(tag) == [k \in ({0} \cup Nodes) \X DOMAIN tag |-> NoRow]
Row(p, c, n, v) == [stamp |-> [p |-> p, c |-> c, n |-> n], val |-> v, sig |-> FALSE]
Store(tag, v) == [s \in DOMAIN tag |-> [val |-> v, stamp |-> Unset]]

\* Both know each other and share a clock; nothing has been written.
Plain(tag, budget) ==
    [tag |-> tag, cap |-> 4, build |-> "auto", masters |-> Nodes, managed |-> {},
     signers |-> {}, sig_required |-> FALSE, publish |-> {}, values |-> {"long"},
     times |-> {}, budget |-> budget, air |-> 1, slow |-> {2}, watch |-> FALSE, saves |-> FALSE,
     doc |-> [n \in Nodes |-> NoRows(tag)], kind |-> [n \in Nodes |-> "none"],
     store |-> [n \in Nodes |-> Store(tag, "short")],
     wall |-> [n \in Nodes |-> 1], known |-> [n \in Nodes |-> Nodes]]

Has(rows) == [k \in DOMAIN NoRows(Display) |-> IF k \in DOMAIN rows THEN rows[k] ELSE NoRow]
Base(v) == <<0, "display">> :> Row(1, 0, 1, v)
Own(n, v) == <<n, "display">> :> Row(1, 1, n, v)

\* Node 1's value of two fragments is replaced while it is being sent.
Replaced == [Plain(Display, <<"edit", 1>> :> 1 @@ <<"promote", 1>> :> 1)
                EXCEPT !.values = {"other"}, !.doc = <<Has(Base("long")), NoRows(Display)>>]

\* The same with frames that overtake one another or are lost, and no edit.
Shuffled == [Plain(Display, <<"lose", 0>> :> 1 @@ <<"early", 2>> :> 1)
                EXCEPT !.air = 2, !.doc = <<Has(Base("long")), NoRows(Display)>>]

\* Both members write the fleet's value at once.
Contended == [Plain(Display, <<"promote", 1>> :> 1 @@ <<"promote", 2>> :> 1)
                EXCEPT !.store[2] = Store(Display, "long")]

\* Node 2 pins its own value and takes the pin back.
Pinned == [Plain(Display, <<"pin", 2>> :> 1 @@ <<"unpin", 2>> :> 1)
                EXCEPT !.doc = <<Has(Base("long")), NoRows(Display)>>]

\* A table of two rows: the walk, or a pin of its own, overflows node 2.
Overflow == [Plain(Display, <<"pin", 2>> :> 1 @@ <<"edit", 2>> :> 1)
                EXCEPT !.cap = 2,
                       !.doc = <<Has(Base("short") @@ Own(1, "short")), Has(Own(1, "short"))>>]

\* Node 1 restarts, perhaps without its wall clock, between any two steps.
Restart == [Plain(Display, <<"promote", 1>> :> 1 @@ <<"reboot", 1>> :> 1)
                EXCEPT !.saves = TRUE]

\* Node 2 is narrowed, widened, told to forget and to pull.
Retold == [Plain(Display, <<"scope", 2>> :> 1 @@ <<"reset", 2>> :> 1 @@ <<"pull", 2>> :> 1)
                EXCEPT !.doc = <<Has(Base("short")), Has(Base("short") @@ Own(1, "short"))>>]

\* The members have yet to meet, entries are signed, and node 2's clock is behind.
Strangers == [Plain(Display, <<"promote", 1>> :> 1 @@ <<"clock", 2>> :> 1)
                EXCEPT !.known = [n \in Nodes |-> {}], !.signers = {1},
                       !.sig_required = TRUE, !.wall = <<9, 1>>, !.times = {9}]

\* The private section, published for one node and withdrawn.
Firmware == [Plain(Fw, <<"publish", 1>> :> 2)
                EXCEPT !.publish = {<<2, "fw">>}, !.values = {"short"}]

\* The channel comes and goes, and node 2 keeps the fleet's verdicts.
Leaving == [Plain(Display, <<"channel", 2>> :> 2)
                EXCEPT !.watch = TRUE, !.doc = <<Has(Base("short")), NoRows(Display)>>]

\* Each member holds a row the other lacks.
Apart == [Plain(Display, <<"lose", 0>> :> 0)
                EXCEPT !.slow = {}, !.doc = <<Has(Base("short")), Has(Own(2, "short"))>>]

\* A narrowed node whose own row only the other member holds.
Backstop == [Plain(Display, <<"lose", 0>> :> 0)
                EXCEPT !.slow = {}, !.kind = <<"none", "core">>,
                       !.doc = <<Has(Base("short") @@ Own(2, "short")), Has(Base("short"))>>]

MCSetups ==
    {Replaced, Shuffled, Contended, Pinned, Overflow, Restart, Retold, Strangers, Firmware, Leaving,
     Apart}

\* Node 2 unpins on top of the fleet's value, while node 1's newer one is on its way.
Unpinned == [Plain(Display, <<"unpin", 2>> :> 1)
                EXCEPT !.slow = {2}, !.wall = <<1, 3>>,
                       !.doc = <<Has(<<0, "display">> :> Row(2, 0, 1, "other")),
                                 Has(Base("long") @@ Own(2, "short"))>>]

UnpinSetups == {Unpinned}
LiveSetups == {Strangers, Leaving, Backstop}
=============================================================================

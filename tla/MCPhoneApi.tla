----------------------------- MODULE MCPhoneApi -----------------------------
(* Small instances of PhoneApi for TLC.                                     *)
EXTENDS PhoneApi

Setup(k, p, rs, c, w, d) ==
    [kind |-> k, policy |-> p, requests |-> rs, connects |-> c, writes |-> w, changes |-> d]
Reconnecting == Setup("ble", "protect", {ONLY_NODES}, 2, 1, 0)
Asking == Setup("ble", "protect", {ONLY_NODES}, 1, 2, 0)
Tcp == Setup("tcp", "protect", {7, ONLY_CONFIG}, 2, 1, 1)
TcpOldest == Setup("tcp", "oldest", {ONLY_NODES}, 2, 2, 0)
Serial == Setup("serial", "protect", {ONLY_NODES}, 0, 2, 0)
AllSetups == {Reconnecting, Asking, Tcp, TcpOldest, Serial}
OnlySerial == {Serial}

\* A sample, an admin message, a node info.
MCRank == [p \in Packets |-> <<2, 4, 3>>[p]]
MCTables == "CHANNELS" :> {0} @@ "CONFIGS" :> {0, 2} @@ "MODULES" :> {}
MCTableSize == "CHANNELS" :> 1 @@ "CONFIGS" :> 3 @@ "MODULES" :> 1
=============================================================================

---------------------------- MODULE MCPortHooks -----------------------------
(* Small instances of PortHooks for TLC. *)
EXTENDS PortHooks, TLC

CONSTANTS p1, p2, n1, n2, a4, a6, b6, sa, sb, u, w1, w2

Setting(n, ips, pairs) == [name |-> n, ips |-> ips, pairs |-> pairs]

(* An IPv4 address, and IPv6 addresses in two subnets with a gateway. *)
EuiOf == [p \in Ports |->
    (a6 :> sa) @@ (b6 :> sb) @@ [x \in Addrs \ {a6, b6} |-> NoAddr]]

(* p1 is renamed, or moved to another subnet; p2 may have its name. *)
Both == (p1 :> {Setting(n1, <<a6>>, {}), Setting(n1, <<b6>>, {u}), Setting(n2, <<b6>>, {})})
     @@ (p2 :> {Setting(n1, <<a4>>, {})})

(* A port with addresses of both versions. *)
Dual == p1 :> {Setting(n1, <<a4, a6>>, {})}
=============================================================================

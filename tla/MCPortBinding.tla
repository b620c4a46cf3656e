--------------------------- MODULE MCPortBinding ---------------------------
(* Small instances of PortBinding for TLC. *)
EXTENDS PortBinding, TLC

CONSTANTS p1, p2, p3, p4, a, b, c, w1, w2

VlanOfPort == [p \in Ports |-> IF p = p1 THEN 10 ELSE 20]

(* Three switch ports, two of them on one switch. *)
OneSwitchButC == (a :> "sw1") @@ (b :> "sw1") @@ (c :> "sw2")

OneServer == [w \in Threads |-> "s1"]

(* p1 moves between two switch ports, which p2 and p4 may have as well, and *)
(* p3 may be taken off its own.                                             *)
Movable == (p1 :> {<<a>>, <<b>>}) @@ (p2 :> {<<b, a>>}) @@ (p3 :> {<<>>, <<c>>}) @@ (p4 :> {<<a>>})

(* One of the two links of a port is replaced. *)
SecondReplaced == (p1 :> {<<a, b>>, <<a, c>>}) @@ (p2 :> {<<>>})
=============================================================================

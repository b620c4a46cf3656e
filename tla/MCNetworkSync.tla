--------------------------- MODULE MCNetworkSync ---------------------------
(* Small instances of NetworkSync for TLC. *)
EXTENDS NetworkSync

(* The controller starts empty. *)
EmptyController == [u \in Uids |-> Absent]

(* Somebody made a network by hand, on VLAN 30. *)
OneByHand ==
    [u \in Uids |->
        IF u = 1 THEN [name |-> ManualName, vlan |-> 30, zone |-> "internal",
                       v4 |-> "factory", v6 |-> "none"]
        ELSE Absent]

(* Somebody made networks by hand on the VLANs that Neutron is going to     *)
(* use, one with its zone and IPv4 subnet set, one that served IPv6 once.   *)
TwoInTheWay ==
    [u \in Uids |->
        CASE u = 1 -> [name |-> ManualName, vlan |-> 20, zone |-> "internal",
                       v4 |-> "factory", v6 |-> "cleared"]
          [] u = 2 -> [name |-> ManualName, vlan |-> 10, zone |-> "tenant",
                       v4 |-> "subnet", v6 |-> "none"]
          [] OTHER -> Absent]
=============================================================================

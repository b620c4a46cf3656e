------------------------------ MODULE MCNat66 ------------------------------
(* A small instance of Nat66 for TLC. *)
EXTENDS Nat66, TLC

CONSTANTS s1, s2, n1, n2, wan, wan2, vpn

OneNetEach == (s1 :> n1) @@ (s2 :> n2)
SecondByVpn == (s1 :> NoName) @@ (s2 :> vpn)
=============================================================================

------------------------------- MODULE Mirror -------------------------------
(***************************************************************************)
(* What mirroring promises: each network that is wanted on a VLAN ends up   *)
(* with an entry for that VLAN and with no other.  Somebody is at work on a *)
(* network from the change of what is wanted until what there is agrees.    *)
(***************************************************************************)
CONSTANTS Nets, Vlans, NoVlan

VARIABLES
    want,   \* VLAN each network should have an entry for, or none
    have,   \* entries there are: pairs of a network and a VLAN
    busy    \* networks somebody is at work on

vars == <<want, have, busy>>

Init == want = [n \in Nets |-> NoVlan] /\ have = {} /\ busy = {}

Mirrored(n) == \A v \in Vlans : <<n, v>> \in have <=> want[n] = v

(* The work starts with a change of what is wanted, or without one.         *)
Begin(n, v) ==
    /\ n \notin busy /\ busy' = busy \cup {n}
    /\ want' = [want EXCEPT ![n] = v]
    /\ UNCHANGED have

Add(n) ==
    /\ n \in busy /\ want[n] # NoVlan
    /\ have' = have \cup {<<n, want[n]>>}
    /\ UNCHANGED want

Remove(n, v) ==
    /\ n \in busy /\ want[n] # v
    /\ have' = have \ {<<n, v>>}
    /\ UNCHANGED want

(* The last change of a network may end the work on it.                     *)
StayOrRest(n) ==
    \/ UNCHANGED busy
    \/ busy' = busy \ {n} /\ Mirrored(n)'

Work(n) ==
    /\ \/ Add(n)
       \/ \E v \in Vlans : Remove(n, v)
       \/ n \in busy /\ UNCHANGED <<want, have>>
    /\ StayOrRest(n)

Next == \E n \in Nets : Work(n) \/ \E v \in Vlans \cup {NoVlan} : Begin(n, v)

Spec == Init /\ [][Next]_vars
=============================================================================

----------------------------- MODULE Nat66Proofs -----------------------------
(***************************************************************************)
(* Safety of the NAT66 policies for any number of networks, subnets,        *)
(* uplinks and policies, any failures and any changes by users.             *)
(***************************************************************************)
EXTENDS Nat66, FiniteSetTheorems, TLAPS

Labels == {"idle", "refresh", "list", "net", "sub", "write", "remove", "clean"}

(* Where the pass is: networks and subnets come one at a time, and the list *)
(* of policies is there from its listing on.                                *)
Progress ==
    /\ \A s \in todoSubs : NetOf[s] \notin todoNets
    /\ cur # NoSubnet => cur \notin todoSubs /\ NetOf[cur] \notin todoNets
    /\ cur # NoSubnet <=> pc \in {"write", "remove"}
    /\ req # Absent <=> pc = "write"
    /\ natListed => pc \notin {"idle", "refresh", "list"}
    /\ pc \in {"write", "remove", "clean"} => natListed
    /\ pc = "write" => cur \in known
    /\ pc \in {"refresh", "list"} => todoNets = Nets
    /\ pc \notin {"sub", "write", "remove"} => todoSubs = {}
    /\ pc = "clean" => todoNets = {}
    /\ doomed # {} => pc = "clean"

(* A write is for the subnet's own policy in the list, or the list has none.*)
Aimed ==
    pc = "write" =>
       IF req.pid = NoPid THEN PoliciesOf(snap, cur) = {} ELSE req.pid \in PoliciesOf(snap, cur)

(* Ids are never used again while the list has them.                        *)
SameSubnet ==
    \A i \in Pids : snap[i] # Absent /\ policies[i] # Absent => snap[i].desc = policies[i].desc

(* What the cleanup deletes.                                                *)
Condemned == \A i \in doomed : IsOrphan(snap[i])

OneEach(store) ==
    \A i, j \in Pids :
       /\ store[i] # Absent /\ store[j] # Absent
       /\ store[i].desc = store[j].desc /\ store[i].desc # Manual
       => i = j

(* Subnets that the pass has still to come to.                              *)
Ahead(s) ==
    natListed /\ (s \in todoSubs \/ NetOf[s] \in todoNets \/ (pc = "write" /\ cur = s))

(* The list has all policies of the subnets ahead.                          *)
ListComplete == \A s \in Subnets : Ahead(s) => PoliciesOf(policies, s) \subseteq PoliciesOf(snap, s)

(* Only subnets that have been created have policies.                       *)
Created ==
    /\ \A i \in Pids :
          /\ policies[i] # Absent /\ policies[i].desc # Manual => subnet[policies[i].desc] # "unborn"
          /\ snap[i] # Absent /\ snap[i].desc # Manual => subnet[snap[i].desc] # "unborn"
    /\ \A s \in todoSubs \cup tagged \cup ({cur} \ {NoSubnet}) : subnet[s] # "unborn"

Pending(s) == s \in todoSubs \/ NetOf[s] \in todoNets \/ (pc = "remove" /\ cur = s)

(* Without failures: the subnet of a listed policy that is still there is   *)
(* known to be tagged, or gone, or the pass has still to deal with it.      *)
Accounted ==
    faults = 0 /\ natListed => \A i \in Pids :
       snap[i] # Absent /\ policies[i] # Absent /\ snap[i].desc # Manual =>
          LET s == snap[i].desc IN s \in known \/ subnet[s] = "gone" \/ Pending(s)

IInv ==
    /\ TypeOK /\ Progress /\ Aimed /\ SameSubnet /\ Condemned
    /\ OneEach(policies) /\ OneEach(snap) /\ ListComplete /\ Created /\ Accounted

-----------------------------------------------------------------------------
(* The pure parts.                                                          *)

LEMMA ResolveTypes ==
  ASSUME NEW s \in Subnets, NEW N, N \subseteq Ifaces
  PROVE  Resolve(s, N) \in Ifaces \cup {NoName}
  <1> DEFINE wans == Wans \cap N
  <1>1. CASE EgressTag[s] # NoName \/ EgressOption # NoName
    BY <1>1, Nat66Assumption DEF Resolve
  <1>2. CASE EgressTag[s] = NoName /\ EgressOption = NoName
    <2>1. Cardinality(wans) = 1 => wans # {}
      BY FS_EmptySet
    <2>2. Cardinality(wans) = 1 => (CHOOSE w \in wans : TRUE) \in Ifaces
      BY <2>1
    <2> QED BY <1>2, <2>2 DEF Resolve
  <1> QED BY <1>1, <1>2

LEMMA ExistingTypes ==
  ASSUME NEW s, NEW i \in Existing(s)
  PROVE  /\ i \in Pids \cup {NoPid}
         /\ i = NoPid <=> i \notin Pids
         /\ i = NoPid => PoliciesOf(snap, s) = {}
         /\ i # NoPid => i \in PoliciesOf(snap, s)
  BY Nat66Assumption DEF Existing, PoliciesOf

LEMMA NoneExisting ==
  ASSUME NEW s
  PROVE  Existing(s) = {NoPid} <=> PoliciesOf(snap, s) = {}
  BY Nat66Assumption DEF Existing, PoliciesOf

LEMMA StoreTypes ==
  ASSUME TypeOK, NEW i \in Pids
  PROVE  /\ policies[i] # Absent =>
              /\ policies[i] \in Policy
              /\ policies[i].desc \in Subnets \cup {Manual} /\ policies[i].index \in Nat
         /\ snap[i] # Absent =>
              /\ snap[i] \in Policy \cup Shown
              /\ snap[i].desc \in Subnets \cup {Manual} /\ snap[i].index \in Nat \cup {NoIndex}
  BY DEF TypeOK, Policy, Shown

LEMMA FirstIndexTypes ==
  ASSUME TypeOK, NEW i \in Pids \cup {NoPid}, i # NoPid => snap[i] # Absent
  PROVE  FirstIndex(i) \in Nat
  BY StoreTypes, Nat66Assumption DEF FirstIndex

-----------------------------------------------------------------------------
(* Steps of the pass that write nothing.                                    *)

LEMMA StartPassInv ==
  ASSUME IInv, StartPass
  PROVE  IInv'
  <1> USE DEF IInv, StartPass, PassStep
  <1>1. TypeOK'
    BY DEF TypeOK
  <1>2. Progress'
    BY DEF Progress
  <1>3. Aimed' /\ SameSubnet' /\ Condemned' /\ OneEach(policies)' /\ OneEach(snap)'
    BY DEF Progress, Aimed, SameSubnet, Condemned, IsOrphan, OneEach, PoliciesOf
  <1>4. ListComplete' /\ Created' /\ Accounted'
    BY DEF Progress, ListComplete, Ahead, Created, Accounted, Pending
  <1> QED BY <1>1, <1>2, <1>3, <1>4

(* At the end of a pass, whenever that is, its list is empty.               *)
LEMMA EndPassInv ==
  ASSUME IInv, EndPass, PassStep, UNCHANGED policies, faults' \in 0..MaxFaults
  PROVE  IInv'
  <1> USE DEF IInv, EndPass, PassStep
  <1>1. TypeOK'
    BY DEF TypeOK, Empty
  <1>2. Progress'
    BY DEF Progress
  <1>3. Aimed' /\ SameSubnet' /\ Condemned' /\ OneEach(policies)' /\ OneEach(snap)'
    BY DEF Aimed, SameSubnet, Condemned, OneEach, Empty
  <1>4. ListComplete' /\ Created' /\ Accounted'
    BY DEF ListComplete, Ahead, Created, Accounted, Empty
  <1> QED BY <1>1, <1>2, <1>3, <1>4

LEMMA RefreshInv ==
  ASSUME IInv, Refresh
  PROVE  IInv'
  <1> USE DEF Refresh, PassStep
  <1>1. CASE Fault /\ EndPass
    <2>1. faults' \in 0..MaxFaults
      BY <1>1, Nat66Assumption DEF Fault, IInv, TypeOK
    <2> QED BY <1>1, <2>1, EndPassInv
  <1>2. CASE /\ pc' = "list" /\ names' = ifaces
             /\ UNCHANGED <<snap, natListed, known, todoNets, todoSubs, tagged, cur, req, doomed, faults>>
    <2> USE DEF IInv
    <2>1. TypeOK' /\ Progress'
      BY <1>2 DEF TypeOK, Progress
    <2>2. Aimed' /\ SameSubnet' /\ Condemned' /\ OneEach(policies)' /\ OneEach(snap)'
      BY <1>2 DEF Aimed, SameSubnet, Condemned, IsOrphan, OneEach
    <2>3. ListComplete' /\ Created' /\ Accounted'
      BY <1>2 DEF Progress, ListComplete, Ahead, Created, Accounted
    <2> QED BY <2>1, <2>2, <2>3
  <1> QED BY <1>1, <1>2

(* The list shows every policy with its description.                        *)
LEMMA ListPoliciesInv ==
  ASSUME IInv, ListPolicies
  PROVE  IInv'
  <1> USE DEF IInv, ListPolicies, PassStep
  <1>1. CASE Fault /\ UNCHANGED <<snap, natListed>>
    <2>1. TypeOK'
      BY <1>1, Nat66Assumption DEF TypeOK, Fault
    <2>2. Progress'
      BY <1>1 DEF Progress
    <2>3. Aimed' /\ SameSubnet' /\ Condemned' /\ OneEach(policies)' /\ OneEach(snap)'
      BY <1>1 DEF Aimed, SameSubnet, Condemned, IsOrphan, OneEach
    <2>4. ListComplete' /\ Created' /\ Accounted'
      BY <1>1 DEF Progress, ListComplete, Ahead, Created, Accounted
    <2> QED BY <2>1, <2>2, <2>3, <2>4
  <1>2. ASSUME NEW echoed \in {{}, Pids}, natListed' = TRUE, UNCHANGED faults,
               snap' = [i \in Pids |->
                           IF policies[i] = Absent \/ i \in echoed THEN policies[i]
                           ELSE [policies[i] EXCEPT !.index = NoIndex]]
        PROVE  IInv'
    <2>1. ASSUME NEW i \in Pids
          PROVE  /\ policies[i] = Absent => snap'[i] = Absent
                 /\ policies[i] # Absent =>
                       /\ snap'[i] \in Policy \cup Shown /\ snap'[i] # Absent
                       /\ snap'[i].desc = policies[i].desc
      <3>1. CASE policies[i] = Absent
        BY <1>2, <3>1
      <3>2. CASE policies[i] # Absent
        <4>1. policies[i] \in Policy
          BY <3>2, StoreTypes
        <4>2. [policies[i] EXCEPT !.index = NoIndex] \in Shown
          BY <4>1 DEF Policy, Shown
        <4>3. [policies[i] EXCEPT !.index = NoIndex].desc = policies[i].desc
          BY <4>1 DEF Policy
        <4> QED BY <1>2, <3>2, <4>1, <4>2, <4>3, AbsentIsNoRecord
      <3> QED BY <3>1, <3>2
    <2>2. TypeOK'
      <3>1. snap' \in [Pids -> Policy \cup Shown \cup {Absent}]
        BY <1>2, <2>1
      <3> QED BY <1>2, <3>1 DEF TypeOK
    <2>3. Progress'
      BY <1>2 DEF Progress
    <2>4. Aimed' /\ Condemned'
      BY <2>3 DEF Aimed, Condemned, Progress
    <2>5. SameSubnet' /\ OneEach(policies)' /\ OneEach(snap)'
      BY <2>1 DEF SameSubnet, OneEach
    <2>6. ListComplete'
      BY <2>1 DEF ListComplete, PoliciesOf
    <2>7. Created'
      BY <2>1 DEF Created
    <2>8. Accounted'
      <3>1. ASSUME NEW i \in Pids, snap'[i] # Absent, snap'[i].desc # Manual
            PROVE  NetOf[snap'[i].desc] \in todoNets'
        <4>1. snap'[i].desc \in Subnets
          BY <2>1, <3>1, StoreTypes
        <4> QED BY <4>1, Nat66Assumption DEF Progress
      <3> QED BY <3>1 DEF Accounted, Pending
    <2> QED BY <2>2, <2>3, <2>4, <2>5, <2>6, <2>7, <2>8
  <1> QED BY <1>1, <1>2

LEMMA FaultTypes ==
  ASSUME TypeOK, Fault
  PROVE  faults' \in 0..MaxFaults /\ faults' # 0
  BY Nat66Assumption DEF TypeOK, Fault

LEMMA NextNetInv ==
  ASSUME IInv, NextNet
  PROVE  IInv'
  <1> USE DEF IInv, PassStep
  <1>1. PICK n \in todoNets :
           /\ todoNets' = todoNets \ {n}
           /\ \/ /\ todoSubs' = {s \in Subnets : NetOf[s] = n /\ Live(s)}
                 /\ tagged' = {s \in Subnets : NetOf[s] = n /\ subnet[s] = "tagged"}
                 /\ pc' = "sub" /\ UNCHANGED faults
              \/ Fault /\ UNCHANGED <<todoSubs, tagged, pc>>
    BY DEF NextNet
  <1>2. pc = "net" /\ UNCHANGED <<subnet, ifaces, ops, policies, names, snap, natListed, known, cur, req, doomed>>
    BY DEF NextNet
  <1>3. todoSubs = {} /\ cur = NoSubnet /\ req = Absent /\ doomed = {}
    BY <1>2 DEF Progress
  <1>4. SameSubnet' /\ Condemned' /\ OneEach(policies)' /\ OneEach(snap)'
    BY <1>2 DEF SameSubnet, Condemned, IsOrphan, OneEach
  <1>5. CASE /\ todoSubs' = {s \in Subnets : NetOf[s] = n /\ Live(s)}
             /\ tagged' = {s \in Subnets : NetOf[s] = n /\ subnet[s] = "tagged"}
             /\ pc' = "sub" /\ UNCHANGED faults
    <2>1. TypeOK'
      BY <1>1, <1>2, <1>5 DEF TypeOK
    <2>2. Progress' /\ Aimed'
      BY <1>1, <1>2, <1>3, <1>5 DEF Progress, Aimed
    <2>3. ListComplete'
      BY <1>1, <1>2, <1>3, <1>5 DEF ListComplete, Ahead, PoliciesOf
    <2>4. Created'
      BY <1>2, <1>3, <1>5 DEF Created, Live
    <2>5. Accounted'
      <3> SUFFICES ASSUME faults = 0, natListed, NEW i \in Pids,
                          snap[i] # Absent, policies[i] # Absent, snap[i].desc # Manual,
                          snap[i].desc \notin known, subnet[snap[i].desc] # "gone"
                   PROVE  snap[i].desc \in todoSubs' \/ NetOf[snap[i].desc] \in todoNets'
        BY <1>2, <1>5 DEF Accounted, Pending
      <3>1. snap[i].desc \in Subnets /\ subnet[snap[i].desc] # "unborn"
        BY StoreTypes DEF Created
      <3>2. NetOf[snap[i].desc] \in todoNets
        BY <1>2, <1>3 DEF Accounted, Pending
      <3>3. Live(snap[i].desc)
        BY <3>1 DEF TypeOK, SubnetStates, Live
      <3> QED BY <1>1, <1>5, <3>1, <3>2, <3>3
    <2> QED BY <1>4, <2>1, <2>2, <2>3, <2>4, <2>5
  <1>6. CASE Fault /\ UNCHANGED <<todoSubs, tagged, pc>>
    <2>1. TypeOK'
      BY <1>1, <1>2, <1>6, FaultTypes DEF TypeOK
    <2>2. Progress' /\ Aimed'
      BY <1>1, <1>2, <1>3, <1>6 DEF Progress, Aimed
    <2>3. ListComplete' /\ Created'
      BY <1>1, <1>2, <1>3, <1>6 DEF ListComplete, Ahead, PoliciesOf, Created
    <2>4. Accounted'
      BY <1>6, FaultTypes DEF Accounted
    <2> QED BY <1>4, <2>1, <2>2, <2>3, <2>4
  <1> QED BY <1>1, <1>5, <1>6

(* A subnet is dealt with, or becomes the one that is worked on.            *)
LEMMA NextSubnetInv ==
  ASSUME IInv, NextSubnet
  PROVE  IInv'
  <1> USE DEF IInv, PassStep
  <1>1. PICK s \in todoSubs :
           /\ todoSubs' = todoSubs \ {s}
           /\ SkipSubnet(s) \/ NoPolicyWork(s) \/ BeginWrite(s) \/ BeginRemove(s)
    BY DEF NextSubnet
  <1>2. pc = "sub" /\ UNCHANGED <<subnet, ifaces, ops, policies, names, snap, natListed, todoNets, tagged, doomed>>
    BY DEF NextSubnet
  <1>3. /\ cur = NoSubnet /\ req = Absent /\ doomed = {} /\ s \in Subnets /\ s # NoSubnet
        /\ NetOf[s] \notin todoNets
    BY <1>2, Nat66Assumption DEF Progress, TypeOK
  <1>4. SameSubnet' /\ Condemned' /\ OneEach(policies)' /\ OneEach(snap)'
    BY <1>2, <1>3 DEF SameSubnet, Condemned, OneEach
  <1>5. Created'
    BY <1>1, <1>2, <1>3 DEF Created, SkipSubnet, NoPolicyWork, BeginWrite, BeginRemove
  <1>6. ListComplete'
    BY <1>1, <1>2, <1>3
       DEF ListComplete, Ahead, PoliciesOf, SkipSubnet, NoPolicyWork, BeginWrite, BeginRemove
  <1>7. CASE SkipSubnet(s)
    <2>1. TypeOK' /\ Accounted'
      BY <1>1, <1>2, <1>7, FaultTypes DEF TypeOK, Accounted, SkipSubnet
    <2>2. Progress' /\ Aimed'
      BY <1>1, <1>2, <1>3, <1>7 DEF Progress, Aimed, SkipSubnet
    <2> QED BY <1>4, <1>5, <1>6, <2>1, <2>2
  <1>8. CASE NoPolicyWork(s)
    <2>1. TypeOK'
      BY <1>1, <1>2, <1>3, <1>8 DEF TypeOK, NoPolicyWork
    <2>2. Progress' /\ Aimed'
      BY <1>1, <1>2, <1>3, <1>8 DEF Progress, Aimed, NoPolicyWork
    <2>3. natListed => s \in known' \/ PoliciesOf(snap, s) = {}
      BY <1>8, NoneExisting DEF NoPolicyWork
    <2>4. Accounted'
      BY <1>1, <1>2, <1>3, <1>8, <2>3 DEF Accounted, Pending, NoPolicyWork, PoliciesOf
    <2> QED BY <1>4, <1>5, <1>6, <2>1, <2>2, <2>4
  <1>9. CASE BeginWrite(s)
    <2> DEFINE out == Resolve(s, names)
    <2>1. PICK i \in Existing(s) :
             req' = [pid |-> i, out |-> out, index |-> FirstIndex(i), left |-> MaxAttempts]
      BY <1>9 DEF BeginWrite
    <2>2. /\ natListed /\ out # NoName /\ known' = known \cup {s}
          /\ cur' = s /\ pc' = "write" /\ UNCHANGED faults
      BY <1>9 DEF BeginWrite
    <2>3. out \in Ifaces
      BY <1>3, <2>2, ResolveTypes DEF TypeOK
    <2>4. i \in Pids \cup {NoPid} /\ (i # NoPid => i \in PoliciesOf(snap, s)) /\ (i = NoPid => PoliciesOf(snap, s) = {})
      BY ExistingTypes
    <2>5. FirstIndex(i) \in Nat
      BY <2>4, FirstIndexTypes DEF PoliciesOf
    <2>6. req' \in Request
      BY <2>1, <2>3, <2>4, <2>5, Nat66Assumption DEF Request
    <2>7. req' # Absent
      BY <2>6, AbsentIsNoRecord
    <2>8. TypeOK'
      BY <1>1, <1>2, <1>3, <2>2, <2>6 DEF TypeOK
    <2>9. Progress'
      BY <1>1, <1>2, <1>3, <2>2, <2>7 DEF Progress
    <2>10. Aimed'
      BY <1>2, <2>1, <2>2, <2>4 DEF Aimed, PoliciesOf
    <2>11. Accounted'
      BY <1>1, <1>2, <1>3, <2>2 DEF Accounted, Pending
    <2> QED BY <1>4, <1>5, <1>6, <2>8, <2>9, <2>10, <2>11
  <1>10. CASE BeginRemove(s)
    <2>1. TypeOK'
      BY <1>1, <1>2, <1>3, <1>10 DEF TypeOK, BeginRemove
    <2>2. Progress' /\ Aimed'
      BY <1>1, <1>2, <1>3, <1>10 DEF Progress, Aimed, BeginRemove
    <2>3. Accounted'
      BY <1>1, <1>2, <1>3, <1>10 DEF Accounted, Pending, BeginRemove
    <2> QED BY <1>4, <1>5, <1>6, <2>1, <2>2, <2>3
  <1> QED BY <1>1, <1>7, <1>8, <1>9, <1>10

LEMMA SubnetsDoneInv ==
  ASSUME IInv, SubnetsDone
  PROVE  IInv'
  <1> USE DEF IInv, SubnetsDone, PassStep
  <1>1. TypeOK' /\ Progress' /\ Aimed'
    BY DEF TypeOK, Progress, Aimed
  <1>2. SameSubnet' /\ Condemned' /\ OneEach(policies)' /\ OneEach(snap)'
    BY DEF SameSubnet, Condemned, IsOrphan, OneEach
  <1>3. ListComplete' /\ Created' /\ Accounted'
    BY DEF Progress, ListComplete, Ahead, PoliciesOf, Created, Accounted, Pending
  <1> QED BY <1>1, <1>2, <1>3

-----------------------------------------------------------------------------
(* Writes and deletes.                                                      *)

(* A policy that is only changed keeps its subnet.                          *)
SameOwners ==
    \A i \in Pids :
       /\ policies'[i] = Absent <=> policies[i] = Absent
       /\ policies[i] # Absent => policies'[i].desc = policies[i].desc

LEMMA OwnersKept ==
  ASSUME IInv, SameOwners
  PROVE  /\ OneEach(policies)'
         /\ \A s \in Subnets : PoliciesOf(policies', s) = PoliciesOf(policies, s)
  BY DEF IInv, SameOwners, OneEach, PoliciesOf

(* The pass goes on to the next subnet, having done nothing.                *)
LEMMA NothingWritten ==
  ASSUME IInv, pc = "write", BackToSubnets, PassStep, faults' \in 0..MaxFaults, faults' = 0 => faults = 0,
         SameOwners, policies' \in [Pids -> Policy \cup {Absent}],
         UNCHANGED <<snap, names, natListed, known, todoNets, todoSubs, tagged, doomed>>
  PROVE  IInv'
  <1> USE DEF IInv, PassStep, BackToSubnets
  <1>1. TypeOK' /\ Aimed'
    BY DEF TypeOK, Aimed
  <1>2. Progress'
    BY DEF Progress
  <1>3. SameSubnet' /\ Condemned' /\ OneEach(policies)' /\ OneEach(snap)'
    BY OwnersKept DEF SameSubnet, SameOwners, Condemned, IsOrphan, OneEach
  <1>4. ListComplete'
    BY OwnersKept DEF ListComplete, Ahead, PoliciesOf
  <1>5. Created'
    BY DEF Created, SameOwners
  <1>6. Accounted'
    BY DEF Accounted, Pending, SameOwners
  <1> QED BY <1>1, <1>2, <1>3, <1>4, <1>5, <1>6

LEMMA UpdateInv ==
  ASSUME IInv, pc = "write", req.pid # NoPid, policies[req.pid] # Absent, Apply(req.pid),
         BackToSubnets, PassStep, faults' \in 0..MaxFaults, faults' = 0 => faults = 0,
         UNCHANGED <<snap, names, natListed, known, todoNets, todoSubs, tagged, doomed>>
  PROVE  IInv' /\ SameOwners
  <1>1. req.pid \in PoliciesOf(snap, cur)
    BY DEF IInv, Aimed
  <1>2. policies[req.pid].desc = cur
    BY <1>1 DEF IInv, SameSubnet, PoliciesOf
  <1>3. Written \in Policy /\ Written.desc = cur
    BY Nat66Assumption DEF IInv, TypeOK, Progress, Written, Policy, Request
  <1>4. policies' = [policies EXCEPT ![req.pid] = Written]
    BY DEF Apply
  <1>5. policies' \in [Pids -> Policy \cup {Absent}]
    BY <1>3, <1>4 DEF IInv, TypeOK
  <1>6. SameOwners
    BY <1>2, <1>3, <1>4, AbsentIsNoRecord DEF IInv, TypeOK, SameOwners
  <1> QED BY <1>5, <1>6, NothingWritten

(* A create is for a subnet without a policy, and takes an unused id.       *)
LEMMA CreateInv ==
  ASSUME IInv, pc = "write", req.pid = NoPid, NEW i \in Fresh, Apply(i),
         \/ snap' = [snap EXCEPT ![i] = Written]
         \/ UNCHANGED snap,
         BackToSubnets, PassStep, faults' \in 0..MaxFaults, faults' = 0 => faults = 0,
         UNCHANGED <<names, natListed, known, todoNets, todoSubs, tagged, doomed>>
  PROVE  IInv'
  <1> USE DEF PassStep, BackToSubnets
  <1>1. cur \in Subnets /\ cur \in known /\ Ahead(cur) /\ doomed = {} /\ cur # Manual
    BY Nat66Assumption DEF IInv, TypeOK, Progress, Ahead
  <1>2. PoliciesOf(snap, cur) = {}
    BY DEF IInv, Aimed
  <1>3. PoliciesOf(policies, cur) = {}
    BY <1>1, <1>2 DEF IInv, ListComplete
  <1>4. Written \in Policy /\ Written.desc = cur /\ Written # Absent
    <2>1. Written \in Policy /\ Written.desc = cur
      BY <1>1 DEF IInv, TypeOK, Progress, Written, Policy, Request
    <2> QED BY <2>1, AbsentIsNoRecord
  <1>5. i \in Pids /\ policies[i] = Absent /\ snap[i] = Absent
    BY DEF Fresh
  <1>6. /\ policies'[i] = Written
        /\ \A k \in Pids \ {i} : policies'[k] = policies[k]
        /\ policies' \in [Pids -> Policy \cup {Absent}]
    BY <1>4, <1>5 DEF Apply, IInv, TypeOK
  <1>7. /\ snap'[i] \in {Written, Absent}
        /\ \A k \in Pids \ {i} : snap'[k] = snap[k]
        /\ snap' \in [Pids -> Policy \cup Shown \cup {Absent}]
    BY <1>4, <1>5 DEF IInv, TypeOK
  <1>8. TypeOK' /\ Aimed'
    BY <1>6, <1>7 DEF IInv, TypeOK, Aimed
  <1>9. Progress'
    BY DEF IInv, Progress
  <1>10. SameSubnet' /\ Condemned'
    BY <1>1, <1>4, <1>5, <1>6, <1>7 DEF IInv, SameSubnet, Condemned
  <1>11. OneEach(policies)' /\ OneEach(snap)'
    BY <1>2, <1>3, <1>4, <1>5, <1>6, <1>7 DEF IInv, OneEach, PoliciesOf
  <1>12. ListComplete'
    <2>1. ASSUME NEW s \in Subnets, Ahead(s)'
          PROVE  s # cur /\ Ahead(s)
      BY <2>1, <1>1 DEF Ahead, IInv, Progress
    <2>2. ASSUME NEW s \in Subnets, s # cur
          PROVE  PoliciesOf(policies', s) = PoliciesOf(policies, s) /\ PoliciesOf(snap', s) = PoliciesOf(snap, s)
      BY <2>2, <1>4, <1>5, <1>6, <1>7 DEF PoliciesOf
    <2> QED BY <2>1, <2>2 DEF ListComplete, IInv, PoliciesOf
  <1>13. Created'
    BY <1>1, <1>4, <1>5, <1>6, <1>7, Nat66Assumption DEF IInv, Created, Progress
  <1>14. Accounted'
    BY <1>1, <1>4, <1>5, <1>6, <1>7 DEF IInv, Accounted, Pending
  <1> QED BY <1>8, <1>9, <1>10, <1>11, <1>12, <1>13, <1>14 DEF IInv

LEMMA WriteInv ==
  ASSUME IInv, Write
  PROVE  IInv'
  <1>1. /\ pc = "write" /\ PassStep
        /\ UNCHANGED <<names, natListed, known, todoNets, todoSubs, tagged, doomed>>
        /\ TypeOK /\ faults \in 0..MaxFaults
    BY DEF Write, IInv, TypeOK
  <1>2. Fault => faults' \in 0..MaxFaults /\ faults' # 0
    BY <1>1, FaultTypes
  <1>3. Fresh # {} => (CHOOSE f \in Fresh : TRUE) \in Fresh
    OBVIOUS
  <1>4. UNCHANGED policies => SameOwners /\ policies' \in [Pids -> Policy \cup {Absent}]
    BY <1>1 DEF SameOwners, TypeOK
  <1>5. CASE WriteAccepted
    BY <1>1, <1>3, <1>5, UpdateInv, CreateInv DEF WriteAccepted
  <1>6. CASE WriteUnanswered
    BY <1>1, <1>2, <1>3, <1>6, UpdateInv, CreateInv DEF WriteUnanswered
  <1>7. CASE WriteRefused
    BY <1>1, <1>2, <1>4, <1>7, NothingWritten DEF WriteRefused
  <1>8. CASE IndexTaken /\ req.left > 1
    <2> USE DEF PassStep
    <2>1. /\ req' = [req EXCEPT !.index = @ + 1, !.left = @ - 1]
          /\ UNCHANGED <<pc, cur, policies, snap, faults>>
      BY <1>8 DEF IndexTaken
    <2>2. req \in Request /\ req # Absent
      BY <1>1 DEF IInv, TypeOK, Progress
    <2>3. req' \in Request /\ req'.pid = req.pid /\ req' # Absent
      <3>1. req.index + 1 \in Nat /\ req.left - 1 \in 0..MaxAttempts
        <4>1. req.index \in Nat /\ req.left \in 0..MaxAttempts
          BY <2>2 DEF Request
        <4> QED BY <1>8, <4>1, Nat66Assumption
      <3>2. req' \in Request /\ req'.pid = req.pid
        BY <2>1, <2>2, <3>1 DEF Request
      <3> QED BY <3>2, AbsentIsNoRecord
    <2>4. TypeOK'
      BY <1>1, <2>1, <2>3 DEF TypeOK
    <2>5. Progress' /\ Aimed'
      BY <1>1, <2>1, <2>3 DEF IInv, Progress, Aimed, PoliciesOf
    <2>6. SameSubnet' /\ Condemned' /\ OneEach(policies)' /\ OneEach(snap)'
      BY <1>1, <2>1 DEF IInv, SameSubnet, Condemned, IsOrphan, OneEach
    <2>7. ListComplete' /\ Created' /\ Accounted'
      BY <1>1, <2>1 DEF IInv, ListComplete, Ahead, PoliciesOf, Created, Accounted, Pending
    <2> QED BY <2>4, <2>5, <2>6, <2>7 DEF IInv
  <1>9. CASE IndexTaken /\ ~ (req.left > 1)
    BY <1>1, <1>4, <1>9, NothingWritten DEF IndexTaken
  <1> QED BY <1>5, <1>6, <1>7, <1>8, <1>9 DEF Write

(* A policy is gone, and the list may or may not have heard.                *)
LEMMA RemoveInv ==
  ASSUME IInv, Remove
  PROVE  IInv'
  <1> USE DEF IInv, PassStep, BackToSubnets
  <1>1. PICK i \in PoliciesOf(snap, cur) :
          \/ /\ policies[i] # Absent
             /\ policies' = [policies EXCEPT ![i] = Absent]
             /\ \/ snap' = [snap EXCEPT ![i] = Absent] /\ UNCHANGED faults
                \/ Fault /\ UNCHANGED snap
          \/ /\ policies[i] = Absent \/ faults < MaxFaults
             /\ faults' = IF policies[i] = Absent THEN faults ELSE faults + 1
             /\ UNCHANGED <<policies, snap>>
    BY DEF Remove
  <1>2. /\ pc = "remove" /\ BackToSubnets /\ PassStep
        /\ UNCHANGED <<names, natListed, known, todoNets, todoSubs, tagged, doomed>>
    BY DEF Remove
  <1>3. i \in Pids /\ snap[i] # Absent /\ snap[i].desc = cur /\ cur \in Subnets /\ cur # Manual /\ doomed = {}
    BY <1>2, Nat66Assumption DEF PoliciesOf, Progress, TypeOK
  <1>4. faults' \in 0..MaxFaults
    BY <1>1, FaultTypes, Nat66Assumption DEF TypeOK
  <1>5. /\ policies'[i] \in {policies[i], Absent} /\ snap'[i] \in {snap[i], Absent}
        /\ \A k \in Pids \ {i} : policies'[k] = policies[k] /\ snap'[k] = snap[k]
        /\ policies' \in [Pids -> Policy \cup {Absent}]
        /\ snap' \in [Pids -> Policy \cup Shown \cup {Absent}]
    BY <1>1, <1>3 DEF TypeOK
  <1>6. snap'[i] = Absent => policies'[i] = Absent
    BY <1>1, <1>3 DEF TypeOK
  <1>7. TypeOK' /\ Aimed'
    BY <1>2, <1>4, <1>5 DEF TypeOK, Aimed
  <1>8. Progress'
    BY <1>2 DEF Progress
  <1>9. SameSubnet' /\ Condemned' /\ OneEach(policies)' /\ OneEach(snap)'
    BY <1>2, <1>3, <1>5 DEF SameSubnet, Condemned, OneEach
  <1>10. ListComplete'
    BY <1>2, <1>3, <1>5, <1>6 DEF ListComplete, Ahead, PoliciesOf
  <1>11. Created'
    BY <1>2, <1>3, <1>5 DEF Created
  <1>12. Accounted'
    <2>1. faults' = 0 => faults = 0 /\ policies'[i] = Absent
      BY <1>1, <1>3, FaultTypes DEF TypeOK
    <2>2. \A k \in Pids \ {i} : snap[k] # Absent => snap[k].desc # cur
      BY <1>3 DEF OneEach
    <2> QED BY <1>2, <1>3, <1>5, <2>1, <2>2 DEF Accounted, Pending
  <1> QED BY <1>7, <1>8, <1>9, <1>10, <1>11, <1>12

LEMMA StartCleanupInv ==
  ASSUME IInv, StartCleanup
  PROVE  IInv'
  <1> USE DEF IInv, StartCleanup, PassStep
  <1>1. TypeOK' /\ Progress' /\ Aimed'
    BY DEF TypeOK, Progress, Aimed
  <1>2. SameSubnet' /\ Condemned' /\ OneEach(policies)' /\ OneEach(snap)'
    BY DEF SameSubnet, Condemned, IsOrphan, OneEach
  <1>3. ListComplete' /\ Created' /\ Accounted'
    BY DEF Progress, ListComplete, Ahead, PoliciesOf, Created, Accounted, Pending
  <1> QED BY <1>1, <1>2, <1>3

LEMMA DeleteOrphanInv ==
  ASSUME IInv, DeleteOrphan
  PROVE  IInv'
  <1> USE DEF IInv, PassStep
  <1>1. PICK i \in doomed :
          /\ doomed' = doomed \ {i}
          /\ \/ policies' = [policies EXCEPT ![i] = Absent] /\ UNCHANGED faults
             \/ Fault /\ UNCHANGED policies
    BY DEF DeleteOrphan
  <1>2. /\ pc = "clean" /\ PassStep
        /\ UNCHANGED <<pc, names, snap, natListed, known, todoNets, todoSubs, tagged, cur, req>>
    BY DEF DeleteOrphan
  <1>3. /\ \A k \in Pids : policies'[k] \in {policies[k], Absent}
        /\ policies' \in [Pids -> Policy \cup {Absent}]
        /\ faults' \in 0..MaxFaults /\ (faults' = 0 => faults = 0)
    BY <1>1, FaultTypes DEF TypeOK
  <1>4. TypeOK' /\ Progress' /\ Aimed'
    BY <1>1, <1>2, <1>3 DEF TypeOK, Progress, Aimed
  <1>5. SameSubnet' /\ Condemned' /\ OneEach(policies)' /\ OneEach(snap)'
    BY <1>1, <1>2, <1>3 DEF SameSubnet, Condemned, IsOrphan, OneEach
  <1>6. ListComplete' /\ Created' /\ Accounted'
    BY <1>2, <1>3 DEF Progress, ListComplete, Ahead, Created, Accounted, Pending
  <1> QED BY <1>4, <1>5, <1>6

LEMMA FinishPassInv ==
  ASSUME IInv, FinishPass
  PROVE  IInv'
  BY EndPassInv DEF FinishPass, IInv, TypeOK

-----------------------------------------------------------------------------
(* Users.                                                                   *)

LEMMA UserTypes ==
  ASSUME TypeOK, UserStep
  PROVE  ops' \in 0..MaxOps /\ ops' # ops /\ UNCHANGED <<pc, passVars, faults>>
  BY Nat66Assumption DEF TypeOK, UserStep

(* A deleted subnet stays deleted, and no step undoes its creation.         *)
LEMMA SetSubnetInv ==
  ASSUME IInv, NEW s \in Subnets, NEW from, NEW to \in SubnetStates \ {"unborn"}, "gone" \notin from,
         SetSubnet(s, from, to)
  PROVE  IInv'
  <1> USE DEF IInv, passVars
  <1>1. /\ ops' \in 0..MaxOps /\ subnet[s] \in from /\ subnet' = [subnet EXCEPT ![s] = to]
        /\ UNCHANGED <<ifaces, policies, pc, passVars, faults>>
    BY UserTypes DEF SetSubnet
  <1>2. TypeOK' /\ Progress' /\ Aimed'
    BY <1>1 DEF TypeOK, Progress, Aimed, PoliciesOf
  <1>3. SameSubnet' /\ Condemned' /\ OneEach(policies)' /\ OneEach(snap)'
    BY <1>1 DEF SameSubnet, Condemned, IsOrphan, OneEach
  <1>4. ListComplete'
    BY <1>1 DEF ListComplete, Ahead, PoliciesOf
  <1>5. \A x \in Subnets : /\ subnet[x] # "unborn" => subnet'[x] # "unborn"
                          /\ subnet[x] = "gone" => subnet'[x] = "gone"
    BY <1>1 DEF TypeOK
  <1>6. Created'
    BY <1>1, <1>5, StoreTypes DEF Created, TypeOK
  <1>7. Accounted'
    BY <1>1, <1>5, StoreTypes DEF Accounted, Pending
  <1> QED BY <1>2, <1>3, <1>4, <1>6, <1>7

LEMMA ToggleIfaceInv ==
  ASSUME IInv, NEW f \in Ifaces, ToggleIface(f)
  PROVE  IInv'
  <1> USE DEF IInv, passVars
  <1>1. /\ ops' \in 0..MaxOps /\ ifaces' \subseteq Ifaces
        /\ UNCHANGED <<subnet, policies, pc, passVars, faults>>
    BY UserTypes DEF ToggleIface, TypeOK
  <1>2. TypeOK' /\ Progress' /\ Aimed'
    BY <1>1 DEF TypeOK, Progress, Aimed, PoliciesOf
  <1>3. SameSubnet' /\ Condemned' /\ OneEach(policies)' /\ OneEach(snap)'
    BY <1>1 DEF SameSubnet, Condemned, IsOrphan, OneEach
  <1>4. ListComplete' /\ Created' /\ Accounted'
    BY <1>1 DEF ListComplete, Ahead, PoliciesOf, Created, Accounted, Pending
  <1> QED BY <1>2, <1>3, <1>4

(* A new policy of somebody else, a policy changed, a policy deleted.       *)
LEMMA EditPolicyInv ==
  ASSUME IInv, NEW i \in Pids, NEW p \in Policy \cup {Absent}, EditPolicy(i, p),
         \/ p = Absent
         \/ policies[i] = Absent /\ snap[i] = Absent /\ p # Absent /\ p.desc = Manual
         \/ policies[i] # Absent /\ p # Absent /\ p.desc = policies[i].desc
  PROVE  IInv'
  <1> USE DEF IInv, passVars
  <1>1. /\ ops' \in 0..MaxOps /\ UNCHANGED <<subnet, ifaces, pc, passVars, faults>>
        /\ policies'[i] = p /\ policies' \in [Pids -> Policy \cup {Absent}]
        /\ \A k \in Pids \ {i} : policies'[k] = policies[k]
    BY UserTypes DEF EditPolicy, TypeOK
  <1>2. TypeOK' /\ Progress' /\ Aimed'
    BY <1>1 DEF TypeOK, Progress, Aimed, PoliciesOf
  <1>3. SameSubnet' /\ Condemned' /\ OneEach(policies)' /\ OneEach(snap)'
    BY <1>1 DEF SameSubnet, Condemned, IsOrphan, OneEach
  <1>4. ListComplete'
    BY <1>1, Nat66Assumption DEF ListComplete, Ahead, PoliciesOf
  <1>5. Created' /\ Accounted'
    BY <1>1 DEF Created, Accounted, Pending
  <1> QED BY <1>2, <1>3, <1>4, <1>5

LEMMA UserInv ==
  ASSUME IInv, User
  PROVE  IInv'
  <1>1. ASSUME NEW s \in Subnets, CreateSubnet(s) \/ TagSubnet(s) \/ UntagSubnet(s) \/ DeleteSubnet(s)
        PROVE  IInv'
    BY <1>1, SetSubnetInv
       DEF CreateSubnet, TagSubnet, UntagSubnet, DeleteSubnet, SubnetStates
  <1>2. ASSUME NEW x \in 0..MaxIndex, AddManualPolicy(x)
        PROVE  IInv'
    <2>1. PICK out \in Ifaces :
             EditPolicy(CHOOSE f \in Fresh : TRUE,
                        [desc |-> Manual, out |-> out, right |-> TRUE, index |-> x])
      BY <1>2 DEF AddManualPolicy
    <2> DEFINE i == CHOOSE f \in Fresh : TRUE
               p == [desc |-> Manual, out |-> out, right |-> TRUE, index |-> x]
    <2>2. i \in Pids /\ policies[i] = Absent /\ snap[i] = Absent
      BY <1>2 DEF AddManualPolicy, Fresh
    <2>3. p \in Policy /\ p.desc = Manual
      BY Nat66Assumption DEF Policy
    <2> HIDE DEF i, p
    <2> QED BY <2>1, <2>2, <2>3, EditPolicyInv, AbsentIsNoRecord DEF i, p
  <1>3. ASSUME NEW i \in Pids,
               \/ SpoilPolicy(i) \/ DropPolicy(i)
               \/ \E f \in Ifaces : ReroutePolicy(i, f)
        PROVE  IInv'
    <2>1. CASE DropPolicy(i)
      BY <2>1, EditPolicyInv DEF DropPolicy
    <2>2. CASE SpoilPolicy(i)
      <3>1. policies[i] \in Policy
        BY <2>2, StoreTypes DEF IInv, SpoilPolicy
      <3>2. /\ [policies[i] EXCEPT !.right = FALSE] \in Policy
            /\ [policies[i] EXCEPT !.right = FALSE].desc = policies[i].desc
        BY <3>1 DEF Policy
      <3> QED BY <2>2, <3>2, EditPolicyInv, AbsentIsNoRecord DEF SpoilPolicy
    <2>3. ASSUME NEW f \in Ifaces, ReroutePolicy(i, f)
          PROVE  IInv'
      <3>1. policies[i] \in Policy
        BY <2>3, StoreTypes DEF IInv, ReroutePolicy
      <3>2. /\ [policies[i] EXCEPT !.out = f] \in Policy
            /\ [policies[i] EXCEPT !.out = f].desc = policies[i].desc
        BY <3>1 DEF Policy
      <3> QED BY <2>3, <3>2, EditPolicyInv, AbsentIsNoRecord DEF ReroutePolicy
    <2> QED BY <1>3, <2>1, <2>2, <2>3
  <1>4. ASSUME NEW f \in Ifaces, ToggleIface(f)
        PROVE  IInv'
    BY <1>4, ToggleIfaceInv
  <1> QED BY <1>1, <1>2, <1>3, <1>4 DEF User

-----------------------------------------------------------------------------
LEMMA InitInv == Init => IInv
  <1> SUFFICES ASSUME Init PROVE IInv
    OBVIOUS
  <1> USE DEF Init, Empty
  <1>1. TypeOK
    <2>1. ops \in 0..MaxOps /\ faults \in 0..MaxFaults
      BY Nat66Assumption
    <2>2. subnet \in [Subnets -> SubnetStates]
      BY DEF SubnetStates
    <2>3. policies \in [Pids -> Policy \cup {Absent}] /\ snap \in [Pids -> Policy \cup Shown \cup {Absent}]
      OBVIOUS
    <2> QED BY <2>1, <2>2, <2>3 DEF TypeOK
  <1>2. Progress /\ Aimed
    BY DEF Progress, Aimed
  <1>3. SameSubnet /\ Condemned /\ OneEach(policies) /\ OneEach(snap)
    BY DEF SameSubnet, Condemned, OneEach
  <1>4. ListComplete /\ Created /\ Accounted
    BY DEF ListComplete, Ahead, Created, Accounted
  <1> QED BY <1>1, <1>2, <1>3, <1>4 DEF IInv

LEMMA StutterInv ==
  ASSUME IInv, UNCHANGED vars
  PROVE  IInv'
  <1> USE DEF IInv, vars, passVars
  <1>1. TypeOK' /\ Progress' /\ Aimed'
    BY DEF TypeOK, Progress, Aimed, PoliciesOf
  <1>2. SameSubnet' /\ Condemned' /\ OneEach(policies)' /\ OneEach(snap)'
    BY DEF SameSubnet, Condemned, IsOrphan, OneEach
  <1>3. ListComplete' /\ Created' /\ Accounted'
    BY DEF ListComplete, Ahead, PoliciesOf, Created, Accounted, Pending
  <1> QED BY <1>1, <1>2, <1>3

LEMMA NextInv ==
  ASSUME IInv, [Next]_vars
  PROVE  IInv'
  <1>1. Pass => IInv'
    BY StartPassInv, RefreshInv, ListPoliciesInv, NextNetInv, NextSubnetInv, SubnetsDoneInv,
       WriteInv, RemoveInv, StartCleanupInv, DeleteOrphanInv, FinishPassInv DEF Pass
  <1> QED BY <1>1, UserInv, StutterInv DEF Next

LEMMA Invariance == Spec => []IInv
  BY InitInv, NextInv, PTL DEF Spec

(* The types hold, whatever fails and whoever changes what.                 *)
THEOREM TypeCorrect == Spec => []TypeOK
  BY Invariance, PTL DEF IInv

LEMMA AtMostOne ==
  ASSUME IInv, NEW s \in Subnets
  PROVE  Cardinality(PoliciesOf(policies, s)) <= 1
  <1>1. CASE PoliciesOf(policies, s) = {}
    BY <1>1, FS_EmptySet
  <1>2. CASE PoliciesOf(policies, s) # {}
    <2>1. PICK i \in PoliciesOf(policies, s) : TRUE
      BY <1>2
    <2>2. PoliciesOf(policies, s) = {i}
      BY <2>1, Nat66Assumption DEF IInv, OneEach, PoliciesOf
    <2>3. Cardinality({i}) = 1
      BY FS_Singleton
    <2> QED BY <2>2, <2>3
  <1> QED BY <1>1, <1>2

(* A subnet never has two policies, although a create whose answer is lost  *)
(* is not in the list the rest of the pass works on: the subnet is behind   *)
(* it by then, and the list of the next pass is complete.                   *)
THEOREM OnePolicy == Spec => []OnePolicyPerSubnet
  <1>1. IInv => OnePolicyPerSubnet
    BY AtMostOne DEF OnePolicyPerSubnet
  <1> QED BY <1>1, Invariance, PTL

-----------------------------------------------------------------------------
(* What steps do to a policy.                                               *)

(* A step of the pass writes to the policy the list names for the subnet,   *)
(* or to an id nobody has.                                                  *)
LEMMA WriteTouches ==
  ASSUME IInv, Write, NEW i \in Pids, policies[i] # Absent, policies'[i] # policies[i]
  PROVE  policies[i].desc = cur /\ cur \in Subnets /\ policies'[i] = Written
  <1>1. pc = "write" /\ cur \in Subnets
    BY DEF Write, IInv, TypeOK, Progress
  <1>2. Fresh # {} => (CHOOSE f \in Fresh : TRUE) \in Fresh
    OBVIOUS
  <1>3. i \notin Fresh
    BY DEF Fresh
  <1>4. req.pid # NoPid /\ Apply(req.pid)
    BY <1>2, <1>3 DEF Write, WriteAccepted, WriteUnanswered, WriteRefused, IndexTaken, Apply, IInv, TypeOK
  <1>5. i = req.pid /\ policies'[i] = Written
    BY <1>4 DEF Apply, IInv, TypeOK
  <1>6. snap[i] # Absent /\ snap[i].desc = cur
    BY <1>1, <1>4, <1>5 DEF IInv, Aimed, PoliciesOf
  <1> QED BY <1>1, <1>5, <1>6 DEF IInv, SameSubnet

(* Otherwise the pass only deletes: what is listed for the subnet, and what *)
(* the cleanup has found orphaned.                                          *)
LEMMA PassTouches ==
  ASSUME IInv, Pass, ~ Write, NEW i \in Pids, policies[i] # Absent, policies'[i] # policies[i]
  PROVE  /\ policies'[i] = Absent
         /\ \/ Remove /\ i \in PoliciesOf(snap, cur)
            \/ DeleteOrphan /\ i \in doomed
  <1>1. Remove \/ DeleteOrphan
    BY DEF Pass, StartPass, Refresh, ListPolicies, NextNet, NextSubnet, SubnetsDone,
           StartCleanup, FinishPass
  <1>2. CASE Remove
    BY <1>2 DEF Remove, IInv, TypeOK
  <1>3. CASE DeleteOrphan
    BY <1>3 DEF DeleteOrphan, IInv, TypeOK
  <1> QED BY <1>1, <1>2, <1>3

(* No step of the pass changes or deletes a policy that somebody else made, *)
(* whatever its copy of the list says by then.                              *)
THEOREM ManualSafe == Spec => ManualPoliciesUntouched
  <1>1. ASSUME IInv, [Next]_vars, NEW i \in Pids,
               policies[i] # Absent, policies[i].desc = Manual, policies'[i] # policies[i]
        PROVE  ops' # ops
    <2>1. Pass \/ User
      BY <1>1 DEF Next, vars
    <2>2. CASE User
      BY <2>2, <1>1, UserTypes
         DEF User, CreateSubnet, TagSubnet, UntagSubnet, DeleteSubnet, SetSubnet, AddManualPolicy,
             SpoilPolicy, DropPolicy, ReroutePolicy, EditPolicy, ToggleIface, IInv
    <2>3. ~ Write
      BY <1>1, WriteTouches, Nat66Assumption
    <2>4. ASSUME Pass
          PROVE  FALSE
      <3>1. snap[i] # Absent /\ snap[i].desc # Manual
        BY <1>1, <2>3, <2>4, PassTouches, Nat66Assumption
           DEF Remove, PoliciesOf, Condemned, IsOrphan, IInv, TypeOK, Progress
      <3> QED BY <1>1, <3>1 DEF IInv, SameSubnet
    <2> QED BY <2>1, <2>2, <2>4
  <1>2. IInv /\ [Next]_vars => [\A i \in Pids :
           policies[i] # Absent /\ policies[i].desc = Manual /\ policies'[i] # policies[i]
              => ops' # ops]_vars
    BY <1>1
  <1> QED BY <1>2, Invariance, PTL DEF Spec, ManualPoliciesUntouched

(* An update never gives a policy to another subnet, and a policy of the    *)
(* driver keeps its subnet as long as it exists.                            *)
THEOREM KeepsDescription == Spec => DescriptionKept
  <1>1. ASSUME IInv, [Next]_vars, NEW i \in Pids, policies[i] # Absent, policies'[i] # Absent
        PROVE  policies'[i].desc = policies[i].desc
    <2>1. CASE policies'[i] = policies[i]
      BY <2>1
    <2>2. CASE policies'[i] # policies[i]
      <3>1. Pass \/ User
        BY <1>1, <2>2 DEF Next, vars
      <3>2. CASE Write
        BY <1>1, <2>2, <3>2, WriteTouches DEF Written
      <3>3. CASE Pass /\ ~ Write
        BY <1>1, <2>2, <3>3, PassTouches
      <3>4. CASE User
        <4>1. \/ \E x \in 0..MaxIndex : AddManualPolicy(x)
              \/ \E k \in Pids : SpoilPolicy(k) \/ DropPolicy(k) \/ \E f \in Ifaces : ReroutePolicy(k, f)
          BY <2>2, <3>4 DEF User, CreateSubnet, TagSubnet, UntagSubnet, DeleteSubnet, SetSubnet, ToggleIface
        <4>2. ASSUME NEW x \in 0..MaxIndex, AddManualPolicy(x)
              PROVE  FALSE
          BY <1>1, <2>2, <4>2 DEF AddManualPolicy, EditPolicy, Fresh, IInv, TypeOK
        <4>3. ASSUME NEW k \in Pids, SpoilPolicy(k) \/ DropPolicy(k) \/ \E f \in Ifaces : ReroutePolicy(k, f)
              PROVE  policies'[i].desc = policies[i].desc
          BY <1>1, <2>2, <4>3, StoreTypes
             DEF SpoilPolicy, DropPolicy, ReroutePolicy, EditPolicy, IInv, TypeOK, Policy
        <4> QED BY <4>1, <4>2, <4>3
      <3> QED BY <3>1, <3>2, <3>3, <3>4
    <2> QED BY <2>1, <2>2
  <1>2. IInv /\ [Next]_vars => [\A i \in Pids :
           policies[i] # Absent /\ policies'[i] # Absent => policies'[i].desc = policies[i].desc]_vars
    BY <1>1
  <1> QED BY <1>2, Invariance, PTL DEF Spec, DescriptionKept

(* The cleanup keeps its promise as long as no request has failed: it only  *)
(* deletes policies of subnets that Neutron has deleted.                    *)
THEOREM CleanPass == Spec => CleanPassDeletesGoneOnly
  <1>1. ASSUME IInv, [Next]_vars, NEW i \in Pids, LosesPolicy(i), faults = 0
        PROVE  policies[i].desc \in Subnets /\ subnet[policies[i].desc] = "gone"
    <2>1. /\ pc = "clean" /\ ops' = ops /\ policies[i] # Absent /\ policies'[i] = Absent
          /\ policies'[i] # policies[i]
      BY <1>1 DEF LosesPolicy
    <2>2. ~ User
      BY <1>1, <2>1, UserTypes
         DEF User, CreateSubnet, TagSubnet, UntagSubnet, DeleteSubnet, SetSubnet, AddManualPolicy,
             SpoilPolicy, DropPolicy, ReroutePolicy, EditPolicy, ToggleIface, IInv
    <2>3. Pass /\ ~ Write /\ ~ Remove
      BY <1>1, <2>1, <2>2 DEF Next, vars, Write, Remove
    <2>4. i \in doomed
      BY <1>1, <2>1, <2>3, PassTouches
    <2>5. IsOrphan(snap[i]) /\ snap[i].desc = policies[i].desc
      BY <1>1, <2>1, <2>4 DEF IInv, Condemned, SameSubnet, IsOrphan
    <2>6. snap[i].desc \in Subnets /\ subnet[snap[i].desc] = "gone"
      BY <1>1, <2>1, <2>5, StoreTypes DEF IInv, Accounted, Pending, IsOrphan, Progress
    <2> QED BY <2>5, <2>6
  <1>2. IInv /\ [Next]_vars => [\A i \in Pids :
           LosesPolicy(i) /\ faults = 0 =>
              policies[i].desc \in Subnets /\ subnet[policies[i].desc] = "gone"]_vars
    BY <1>1
  <1> QED BY <1>2, Invariance, PTL DEF Spec, CleanPassDeletesGoneOnly
=============================================================================

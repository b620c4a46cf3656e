------------------------------- MODULE Nat66 -------------------------------
(***************************************************************************)
(* The NAT66 part of _sync_networks (unifi_mech.py): a masquerade policy on *)
(* the controller for every IPv6 subnet that carries CONF.unifi.nat66_tag.  *)
(* The pass takes one copy of the policy list and works from that copy      *)
(* while users change tags and subnets in Neutron, people edit policies and *)
(* uplinks in the UniFi UI, and requests fail.                              *)
(*                                                                          *)
(* What the pass does to networkconf objects is in NetworkSync; here it is  *)
(* only a place where a network or a subnet can be skipped.                 *)
(***************************************************************************)
EXTENDS Naturals, FiniteSets

CONSTANTS
    Nets, Subnets,    \* VLAN networks, and ids of IPv6 subnets
    NetOf,            \* the network of a subnet
    Ifaces, Wans,     \* networkconf names a policy can egress by; those of purpose wan
    EgressTag,        \* name in a subnet's nat66_egress_tag_prefix tag, or NoName
    EgressOption,     \* CONF.unifi.nat66_egress_interface, or NoName
    Pids,             \* ids the controller can give a policy
    Manual,           \* any description that is not of this driver's making
    NoName, NoPid, NoSubnet, NoIndex, Absent,     \* null values
    MaxAttempts,      \* max_attempts of _write_nat66_policy_with_retry
    MaxIndex,         \* bound: highest rule_index people choose
    MaxOps, MaxFaults \* bounds: changes by users, failed requests

ASSUME Nat66Assumption ==
    /\ NetOf \in [Subnets -> Nets]
    /\ Wans \subseteq Ifaces
    /\ EgressTag \in [Subnets -> Ifaces \cup {NoName}]
    /\ EgressOption \in Ifaces \cup {NoName}
    /\ NoName \notin Ifaces /\ NoPid \notin Pids /\ NoSubnet \notin Subnets
    /\ NoIndex \notin Nat /\ Manual \notin Subnets
    /\ MaxAttempts \in Nat \ {0}
    /\ MaxIndex \in Nat /\ MaxOps \in Nat /\ MaxFaults \in Nat

(* A policy's description names a subnet or is somebody else's.  "right"    *)
(* stands for: enabled, and the source address is the subnet's cidr.        *)
Policy == [desc : Subnets \cup {Manual}, out : Ifaces, right : BOOLEAN, index : Nat]

(* As GET shows it: it does not always echo rule_index.                     *)
Shown == [desc : Subnets \cup {Manual}, out : Ifaces, right : BOOLEAN,
          index : Nat \cup {NoIndex}]

(* A policy being written: pid is NoPid for a create.                       *)
Request == [pid : Pids \cup {NoPid}, out : Ifaces, index : Nat, left : 0..MaxAttempts]

ASSUME AbsentIsNoRecord == Absent \notin Policy \cup Shown \cup Request

SubnetStates == {"unborn", "plain", "tagged", "gone"}

VARIABLES
    subnet,    \* Neutron: state of each subnet
    ifaces,    \* the controller: names that exist
    policies,  \* the controller: pid -> policy or Absent
    pc,        \* next step of the pass
    names,     \* all_networks_by_name, as of the start of the pass
    snap,      \* nat_policies: pid -> policy as shown, or Absent
    natListed, \* is nat_policies a list?  (None after a failed listing)
    known,     \* known_tagged_subnet_ids
    todoNets,  \* networks of the pass still to come
    todoSubs,  \* subnets of the current network still to come ...
    tagged,    \* ... and those of them that carried the tag when listed
    cur,       \* the subnet being worked on
    req,       \* the write in progress, or Absent
    doomed,    \* policies the cleanup has still to delete
    ops, faults

passVars == <<names, snap, natListed, known, todoNets, todoSubs, tagged, cur, req, doomed>>
vars == <<subnet, ifaces, policies, pc, passVars, ops, faults>>

Empty == [i \in Pids |-> Absent]

Init ==
    /\ subnet = [s \in Subnets |-> "unborn"]
    /\ ifaces = Ifaces
    /\ policies = Empty
    /\ pc = "idle"
    /\ names = {} /\ snap = Empty /\ natListed = FALSE /\ known = {}
    /\ todoNets = {} /\ todoSubs = {} /\ tagged = {}
    /\ cur = NoSubnet /\ req = Absent /\ doomed = {}
    /\ ops = 0 /\ faults = 0

Live(s) == subnet[s] \in {"plain", "tagged"}

-----------------------------------------------------------------------------
(* Pure parts.                                                              *)

(* _resolve_nat66_egress_interface over the names N: the subnet's tag       *)
(* decides, else the option decides, else the only WAN there is.            *)
Resolve(s, N) ==
    LET named(x) == IF x \in N THEN x ELSE NoName
        wans == Wans \cap N
    IN IF EgressTag[s] # NoName THEN named(EgressTag[s])
       ELSE IF EgressOption # NoName THEN named(EgressOption)
       ELSE IF Cardinality(wans) = 1 THEN CHOOSE w \in wans : TRUE
       ELSE NoName

PoliciesOf(store, s) == {i \in Pids : store[i] # Absent /\ store[i].desc = s}

(* Mutants: a disabled policy does not count; any policy of the driver does. *)
ExistingEnabled(s) ==
    LET hits == {i \in PoliciesOf(snap, s) : snap[i].right}
    IN IF hits = {} THEN {NoPid} ELSE hits

ExistingAny(s) ==
    LET hits == {i \in Pids : snap[i] # Absent /\ snap[i].desc # Manual}
    IN IF hits = {} THEN {NoPid} ELSE hits

Existing(s) ==
    LET hits == PoliciesOf(snap, s) IN IF hits = {} THEN {NoPid} ELSE hits

(* Mutant: the egress is not compared. *)
InSyncAnywhere(i, out) == i # NoPid /\ snap[i].right

InSync(i, out) == i # NoPid /\ snap[i].right /\ snap[i].out = out

(* Mutant: the update sends back the rule_index it was shown, null or not. *)
FirstIndexEchoed(i) == IF i = NoPid THEN 0 ELSE snap[i].index

(* A create, and an update whose policy shows no rule_index, start from 0.  *)
FirstIndex(i) == IF i = NoPid \/ snap[i].index = NoIndex THEN 0 ELSE snap[i].index

Fault == faults < MaxFaults /\ faults' = faults + 1

(* Requests of the pass touch neither Neutron nor the uplinks.              *)
PassStep == UNCHANGED <<subnet, ifaces, ops>>

-----------------------------------------------------------------------------
(* The pass.                                                                *)

StartPass ==
    /\ pc = "idle"
    /\ pc' = "refresh" /\ todoNets' = Nets
    /\ PassStep
    /\ UNCHANGED <<policies, names, snap, natListed, known, todoSubs, tagged, cur, req, doomed, faults>>

EndPass ==
    /\ pc' = "idle"
    /\ names' = {} /\ snap' = Empty /\ natListed' = FALSE /\ known' = {}
    /\ todoNets' = {} /\ todoSubs' = {} /\ tagged' = {}
    /\ cur' = NoSubnet /\ req' = Absent /\ doomed' = {}

(* A failure before the policies are listed is caught by the outer try.     *)
Refresh ==
    /\ pc = "refresh"
    /\ \/ /\ pc' = "list" /\ names' = ifaces
          /\ UNCHANGED <<snap, natListed, known, todoNets, todoSubs, tagged, cur, req, doomed, faults>>
       \/ Fault /\ EndPass
    /\ PassStep /\ UNCHANGED policies

(* GET echoes the rule indexes of some policies only.                       *)
ListPolicies ==
    /\ pc = "list"
    /\ \/ /\ \E echoed \in {{}, Pids} :
                snap' = [i \in Pids |->
                            IF policies[i] = Absent \/ i \in echoed THEN policies[i]
                            ELSE [policies[i] EXCEPT !.index = NoIndex]]
          /\ natListed' = TRUE /\ UNCHANGED faults
       \/ Fault /\ UNCHANGED <<snap, natListed>>
    /\ pc' = "net"
    /\ PassStep
    /\ UNCHANGED <<policies, names, known, todoNets, todoSubs, tagged, cur, req, doomed>>

(* _reconcile_network and get_subnets of the next network; a failure of     *)
(* either goes on with the network after it.                                *)
NextNet ==
    /\ pc = "net"
    /\ \E n \in todoNets :
          /\ todoNets' = todoNets \ {n}
          /\ \/ /\ todoSubs' = {s \in Subnets : NetOf[s] = n /\ Live(s)}
                /\ tagged' = {s \in Subnets : NetOf[s] = n /\ subnet[s] = "tagged"}
                /\ pc' = "sub" /\ UNCHANGED faults
             \/ Fault /\ UNCHANGED <<todoSubs, tagged, pc>>
    /\ PassStep
    /\ UNCHANGED <<policies, names, snap, natListed, known, cur, req, doomed>>

(* _reconcile_subnet of the next subnet, then the branch for its policy.    *)
SkipSubnet(s) ==
    /\ Fault
    /\ UNCHANGED <<pc, known, cur, req>>

(* Mutant: a subnet is known once its egress is resolved. *)
NoPolicyWorkKnownLate(s) ==
    /\ \/ ~ natListed /\ UNCHANGED known
       \/ /\ natListed /\ s \notin tagged /\ Existing(s) = {NoPid}
          /\ UNCHANGED known
       \/ /\ natListed /\ s \in tagged /\ Resolve(s, names) = NoName
          /\ UNCHANGED known
       \/ /\ natListed /\ s \in tagged /\ Resolve(s, names) # NoName
          /\ \E i \in Existing(s) : InSync(i, Resolve(s, names))
          /\ known' = known \cup {s}
    /\ UNCHANGED <<pc, cur, req, faults>>

NoPolicyWork(s) ==
    /\ \/ ~ natListed /\ UNCHANGED known
       \/ /\ natListed /\ s \notin tagged /\ Existing(s) = {NoPid}
          /\ UNCHANGED known
       \/ /\ natListed /\ s \in tagged
          /\ \/ Resolve(s, names) = NoName
             \/ \E i \in Existing(s) : InSync(i, Resolve(s, names))
          /\ known' = known \cup {s}
    /\ UNCHANGED <<pc, cur, req, faults>>

BeginWrite(s) ==
    /\ natListed /\ s \in tagged
    /\ LET out == Resolve(s, names) IN
          /\ out # NoName
          /\ \E i \in Existing(s) :
                /\ ~ InSync(i, out)
                /\ req' = [pid |-> i, out |-> out, index |-> FirstIndex(i), left |-> MaxAttempts]
    /\ known' = known \cup {s}
    /\ cur' = s /\ pc' = "write"
    /\ UNCHANGED faults

BeginRemove(s) ==
    /\ natListed /\ s \notin tagged /\ Existing(s) # {NoPid}
    /\ cur' = s /\ pc' = "remove"
    /\ UNCHANGED <<known, req, faults>>

NextSubnet ==
    /\ pc = "sub"
    /\ \E s \in todoSubs :
          /\ todoSubs' = todoSubs \ {s}
          /\ SkipSubnet(s) \/ NoPolicyWork(s) \/ BeginWrite(s) \/ BeginRemove(s)
    /\ PassStep
    /\ UNCHANGED <<policies, names, snap, natListed, todoNets, tagged, doomed>>

SubnetsDone ==
    /\ pc = "sub" /\ todoSubs = {}
    /\ pc' = "net" /\ tagged' = {}
    /\ PassStep
    /\ UNCHANGED <<policies, names, snap, natListed, known, todoNets, todoSubs, cur, req, doomed, faults>>

BackToSubnets == pc' = "sub" /\ cur' = NoSubnet /\ req' = Absent

(* One attempt of _write_nat66_policy_with_retry.  The controller refuses   *)
(* an index that another policy has, and an update of a policy it has not.  *)
Taken(i, x) == \E k \in Pids \ {i} : policies[k] # Absent /\ policies[k].index = x

Written == [desc |-> cur, out |-> req.out, right |-> TRUE, index |-> req.index]

(* Ids nobody knows: the controller never hands one out twice.              *)
Fresh == {i \in Pids : policies[i] = Absent /\ snap[i] = Absent}

Apply(i) == policies' = [policies EXCEPT ![i] = Written]

WriteAccepted ==
    /\ ~ Taken(req.pid, req.index)
    /\ \/ /\ req.pid # NoPid /\ policies[req.pid] # Absent
          /\ Apply(req.pid) /\ UNCHANGED snap
       \/ /\ req.pid = NoPid
          /\ LET i == CHOOSE f \in Fresh : TRUE IN
                /\ Fresh # {} /\ Apply(i)
                /\ snap' = [snap EXCEPT ![i] = Written]
    /\ BackToSubnets /\ UNCHANGED faults

(* Applied, but the answer is lost: nothing is added to nat_policies.       *)
WriteUnanswered ==
    /\ ~ Taken(req.pid, req.index)
    /\ \/ req.pid # NoPid /\ policies[req.pid] # Absent /\ Apply(req.pid)
       \/ req.pid = NoPid /\ Fresh # {} /\ Apply(CHOOSE f \in Fresh : TRUE)
    /\ Fault /\ BackToSubnets /\ UNCHANGED snap

WriteRefused ==
    /\ \/ req.pid # NoPid /\ policies[req.pid] = Absent /\ UNCHANGED faults
       \/ Fault
    /\ BackToSubnets /\ UNCHANGED <<policies, snap>>

IndexTaken ==
    /\ req.pid # NoPid => policies[req.pid] # Absent
    /\ Taken(req.pid, req.index)
    /\ IF req.left > 1
       THEN /\ req' = [req EXCEPT !.index = @ + 1, !.left = @ - 1]
            /\ UNCHANGED <<pc, cur>>
       ELSE BackToSubnets
    /\ UNCHANGED <<policies, snap, faults>>

Write ==
    /\ pc = "write"
    /\ WriteAccepted \/ WriteUnanswered \/ WriteRefused \/ IndexTaken
    /\ PassStep
    /\ UNCHANGED <<names, natListed, known, todoNets, todoSubs, tagged, doomed>>

(* _remove_nat66_policy: the list loses the entry only on success.          *)
Remove ==
    /\ pc = "remove"
    /\ \E i \in PoliciesOf(snap, cur) :
          \/ /\ policies[i] # Absent
             /\ policies' = [policies EXCEPT ![i] = Absent]
             /\ \/ snap' = [snap EXCEPT ![i] = Absent] /\ UNCHANGED faults
                \/ Fault /\ UNCHANGED snap
          \/ /\ policies[i] = Absent \/ faults < MaxFaults
             /\ faults' = IF policies[i] = Absent THEN faults ELSE faults + 1
             /\ UNCHANGED <<policies, snap>>
    /\ BackToSubnets
    /\ PassStep
    /\ UNCHANGED <<names, natListed, known, todoNets, todoSubs, tagged, doomed>>

(* Mutants: people's policies count; a disabled policy does not. *)
IsOrphanAny(p) == p # Absent /\ p.desc \notin known
IsOrphanEnabled(p) == p # Absent /\ p.desc # Manual /\ p.desc \notin known /\ p.right

(* _cleanup_orphaned_nat66_policies, over the copy the pass worked on.      *)
IsOrphan(p) == p # Absent /\ p.desc # Manual /\ p.desc \notin known

StartCleanup ==
    /\ pc = "net" /\ todoNets = {} /\ natListed
    /\ doomed' = {i \in Pids : IsOrphan(snap[i])}
    /\ pc' = "clean"
    /\ PassStep
    /\ UNCHANGED <<policies, names, snap, natListed, known, todoNets, todoSubs, tagged, cur, req, faults>>

DeleteOrphan ==
    /\ pc = "clean"
    /\ \E i \in doomed :
          /\ doomed' = doomed \ {i}
          /\ \/ policies' = [policies EXCEPT ![i] = Absent] /\ UNCHANGED faults
             \/ Fault /\ UNCHANGED policies
    /\ PassStep
    /\ UNCHANGED <<pc, names, snap, natListed, known, todoNets, todoSubs, tagged, cur, req>>

FinishPass ==
    /\ \/ pc = "net" /\ todoNets = {} /\ ~ natListed
       \/ pc = "clean" /\ doomed = {}
    /\ EndPass
    /\ PassStep /\ UNCHANGED <<policies, faults>>

-----------------------------------------------------------------------------
(* Neutron's users, and people at the UniFi UI.                             *)

UserStep == ops < MaxOps /\ ops' = ops + 1 /\ UNCHANGED <<pc, passVars, faults>>

SetSubnet(s, from, to) ==
    /\ UserStep
    /\ subnet[s] \in from
    /\ subnet' = [subnet EXCEPT ![s] = to]
    /\ UNCHANGED <<ifaces, policies>>

CreateSubnet(s) == SetSubnet(s, {"unborn"}, "plain") \/ SetSubnet(s, {"unborn"}, "tagged")
TagSubnet(s) == SetSubnet(s, {"plain"}, "tagged")
UntagSubnet(s) == SetSubnet(s, {"tagged"}, "plain")
DeleteSubnet(s) == SetSubnet(s, {"plain", "tagged"}, "gone")

EditPolicy(i, p) ==
    /\ UserStep
    /\ policies' = [policies EXCEPT ![i] = p]
    /\ UNCHANGED <<subnet, ifaces>>

AddManualPolicy(x) ==
    /\ Fresh # {} /\ ~ Taken(NoPid, x)
    /\ \E out \in Ifaces :
          EditPolicy(CHOOSE f \in Fresh : TRUE,
                     [desc |-> Manual, out |-> out, right |-> TRUE, index |-> x])

SpoilPolicy(i) == policies[i] # Absent /\ EditPolicy(i, [policies[i] EXCEPT !.right = FALSE])
ReroutePolicy(i, f) == policies[i] # Absent /\ EditPolicy(i, [policies[i] EXCEPT !.out = f])
DropPolicy(i) == policies[i] # Absent /\ EditPolicy(i, Absent)

(* An uplink or tunnel appears or disappears.                               *)
ToggleIface(f) ==
    /\ UserStep
    /\ ifaces' = IF f \in ifaces THEN ifaces \ {f} ELSE ifaces \cup {f}
    /\ UNCHANGED <<subnet, policies>>

Pass ==
    \/ StartPass \/ Refresh \/ ListPolicies \/ NextNet \/ NextSubnet \/ SubnetsDone
    \/ Write \/ Remove \/ StartCleanup \/ DeleteOrphan \/ FinishPass

User ==
    \/ \E s \in Subnets : CreateSubnet(s) \/ TagSubnet(s) \/ UntagSubnet(s) \/ DeleteSubnet(s)
    \/ \E x \in 0..MaxIndex : AddManualPolicy(x)
    \/ \E i \in Pids : SpoilPolicy(i) \/ DropPolicy(i) \/ \E f \in Ifaces : ReroutePolicy(i, f)
    \/ \E f \in Ifaces : ToggleIface(f)

Next == Pass \/ User

Spec == Init /\ [][Next]_vars

(* The looping call keeps calling, and a pass that has begun goes on.       *)
FairSpec == Spec /\ WF_vars(Pass)

-----------------------------------------------------------------------------
(* Type invariant of the NAT66 policies and of the pass's locals.           *)
TypeOK ==
    /\ subnet \in [Subnets -> SubnetStates]
    /\ ifaces \subseteq Ifaces /\ names \subseteq Ifaces
    /\ policies \in [Pids -> Policy \cup {Absent}]
    /\ snap \in [Pids -> Policy \cup Shown \cup {Absent}]
    /\ pc \in {"idle", "refresh", "list", "net", "sub", "write", "remove", "clean"}
    /\ natListed \in BOOLEAN
    /\ known \subseteq Subnets /\ tagged \subseteq Subnets /\ todoSubs \subseteq Subnets
    /\ todoNets \subseteq Nets
    /\ cur \in Subnets \cup {NoSubnet}
    /\ req \in Request \cup {Absent}
    /\ doomed \subseteq Pids
    /\ ops \in 0..MaxOps /\ faults \in 0..MaxFaults

(* No step of the pass changes or deletes a policy that somebody else made. *)
ManualPoliciesUntouched ==
    [][\A i \in Pids :
          policies[i] # Absent /\ policies[i].desc = Manual /\ policies'[i] # policies[i]
             => ops' # ops]_vars

(* A subnet never has two policies, although a create whose answer is lost  *)
(* is not in the list the rest of the pass works on.                        *)
OnePolicyPerSubnet == \A s \in Subnets : Cardinality(PoliciesOf(policies, s)) <= 1

LosesPolicy(i) == pc = "clean" /\ ops' = ops /\ policies[i] # Absent /\ policies'[i] = Absent
OfUntaggedSubnet(p) == p.desc \in Subnets /\ subnet[p.desc] # "tagged"

(* The docstring of _cleanup_orphaned_nat66_policies: it is "specifically   *)
(* for a subnet deleted from Neutron entirely", so it never deletes the     *)
(* policy of a subnet that exists and is tagged.                            *)
CleanupSparesTagged ==
    [][\A i \in Pids : LosesPolicy(i) => OfUntaggedSubnet(policies[i])]_vars

(* The cleanup decides by the set of subnets the pass found tagged, which   *)
(* is complete as long as no request has failed: then it deletes what the   *)
(* docstring says and nothing else, however tags, egresses and policies     *)
(* change during the pass.                                                  *)
CleanPassDeletesGoneOnly ==
    [][\A i \in Pids :
          LosesPolicy(i) /\ faults = 0 =>
             policies[i].desc \in Subnets /\ subnet[policies[i].desc] = "gone"]_vars

(* An update never gives a policy to another subnet, and a policy of the    *)
(* driver keeps its subnet as long as it exists.                            *)
DescriptionKept ==
    [][\A i \in Pids :
          policies[i] # Absent /\ policies'[i] # Absent => policies'[i].desc = policies[i].desc]_vars

(* Changes by users and faults are finitely many: then every tagged subnet  *)
(* whose egress can be resolved has a policy that is right and egresses     *)
(* there.                                                                   *)
TaggedSubnetsMasqueraded ==
    \A s \in Subnets :
       <>[](subnet[s] = "tagged" /\ Resolve(s, ifaces) # NoName =>
               \E i \in PoliciesOf(policies, s) :
                  policies[i].right /\ policies[i].out = Resolve(s, ifaces))

(* config.py: "removing the tag removes the policy"; so does deleting the   *)
(* subnet.                                                                  *)
UntaggedSubnetsCleared ==
    \A s \in Subnets : <>[](subnet[s] # "tagged" => PoliciesOf(policies, s) = {})
=============================================================================

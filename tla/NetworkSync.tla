---------------------------- MODULE NetworkSync ----------------------------
(***************************************************************************)
(* VLAN networks and subnets of Neutron mirrored as UniFi networkconf       *)
(* objects (unifi_mech.py).  Two kinds of process write the controller and  *)
(* take no lock against each other:                                         *)
(*                                                                          *)
(*   - a thread of Hooks runs one ML2 *_postcommit hook at a time, after    *)
(*     Neutron has committed the change the hook is told about;             *)
(*   - Sync is the looping call that runs _sync_networks over and over.     *)
(*                                                                          *)
(* A step is one request to the controller or to Neutron together with the  *)
(* code that runs up to the next request, so two processes interleave       *)
(* exactly where the code waits for an answer.  Every update is a PUT of    *)
(* the whole object, built from the copy (raw) the process read earlier.    *)
(***************************************************************************)
EXTENDS Naturals, FiniteSets

CONSTANTS
    Nets,            \* ids of Neutron networks of type vlan
    External,        \* those of them with router:external set
    Vlans,           \* segmentation ids
    Versions,        \* IP versions a subnet may have, within {4, 6}
    Uids,            \* ids the controller can give a networkconf object
    Hooks,           \* threads that run postcommit hooks
    Sync,            \* the process of the periodic reconciliation loop
    ManualName,      \* any name that is not of this driver's making
    NoVlan, NoNet, NoUid, Absent, Unborn, Gone,   \* null values
    HandMade,        \* networkconf objects that exist before the driver runs
    ZoneConfigured,  \* is CONF.unifi.default_firewall_zone set?
    SyncEnabled,     \* CONF.unifi.sync_startup
    Drift,           \* do people edit these objects in the UniFi UI?
    RejectsTakenVlan,\* does the controller refuse a second network on a VLAN?
    MaxOps,          \* bound: changes made by users of Neutron and UniFi
    MaxFaults        \* bound: failed requests and crashed processes

Procs == Hooks \cup {Sync}

(* The name _network_name builds carries the VLAN and a prefix of the       *)
(* network id that is long enough to tell networks apart.                   *)
DriverName(n, v) == <<v, n>>
DriverNames == Vlans \X Nets
Names == DriverNames \cup {ManualName}

(* IPv4 section: "factory" is what a new networkconf object gets (DHCP and  *)
(* auto-scale on), "synthetic" what _reconcile_ipv4_disablement writes.     *)
V4States == {"factory", "synthetic", "subnet", "cleared"}
V6States == {"none", "subnet", "cleared"}
Zones == {"internal", "tenant"}

Conf == [name : Names, vlan : Vlans, zone : Zones, v4 : V4States, v6 : V6States]

NeutronNet == [vlan : Vlans, subnets : SUBSET Versions]

Ops == {"none", "createNet", "updateNet", "deleteNet",
        "createSubnet", "updateSubnet", "deleteSubnet"}

(* What a hook is told, or the network a sync pass is working on.           *)
Job == [op : Ops, net : Nets \cup {NoNet}, vlan : Vlans \cup {NoVlan},
        old : Vlans \cup {NoVlan}, ver : Versions \cup {0}]

NoJob == [op |-> "none", net |-> NoNet, vlan |-> NoVlan, old |-> NoVlan, ver |-> 0]

Reconciling == {"find", "post", "rename", "refind", "zone", "v4read", "v4put"}
HookSteps == Reconciling \cup {"updFind", "updDelete", "delFind", "unassign",
                               "delete", "subFind", "subPut", "clrFind", "clrPut"}
SyncSteps == (Reconciling \ {"find"}) \cup
             {"refresh", "next", "subList", "subs", "subPut", "clean", "unassign", "delete"}
Labels == {"idle", "connect", "off"} \cup HookSteps \cup SyncSteps

(* What initialize() leads to: without sync_startup there is no loop, with  *)
(* it the loop is started behind the test of the connection.                *)
Boot == IF SyncEnabled THEN "connect" ELSE "off"

ASSUME NetworkSyncAssumption ==
    /\ External \subseteq Nets /\ Versions \subseteq {4, 6}
    /\ Sync \notin Hooks
    /\ ManualName \notin DriverNames
    /\ NoVlan \notin Vlans /\ NoNet \notin Nets /\ NoUid \notin Uids
    /\ Absent \notin Conf /\ {Unborn, Gone} \cap NeutronNet = {}
    /\ HandMade \in [Uids -> Conf \cup {Absent}]
    /\ \A u \in Uids : HandMade[u] # Absent => HandMade[u].name = ManualName
    /\ {ZoneConfigured, SyncEnabled, Drift, RejectsTakenVlan} \subseteq BOOLEAN
    /\ MaxOps \in Nat /\ MaxFaults \in Nat

VARIABLES
    neutron,  \* Neutron's database: network id -> network, Unborn or Gone
    claimed,  \* history: VLANs some Neutron network has ever used
    unifi,    \* the controller's database: uid -> networkconf or Absent
    pc,       \* next request of each process
    job,      \* its arguments
    obj,      \* uid of the networkconf object the process has looked up
    raw,      \* and that object as it was when it was looked up
    cache,    \* Sync only: controller.networks of the pass
    listed,   \* Sync only: vlan_networks, network id -> VLAN or NoVlan
    todo,     \* Sync only: networks of the pass still to be reconciled
    subs,     \* Sync only: subnets of the current network still to be written
    orphans,  \* Sync only: objects the cleanup has still to delete
    ops, faults

passVars == <<cache, listed, todo, subs, orphans>>
vars == <<neutron, claimed, unifi, pc, job, obj, raw, passVars, ops, faults>>

EmptyStore == [u \in Uids |-> Absent]
NothingListed == [n \in Nets |-> NoVlan]

Live(n) == neutron[n] \in NeutronNet

Init ==
    /\ neutron = [n \in Nets |-> Unborn]
    /\ claimed = {}
    /\ unifi = HandMade
    /\ pc = [p \in Procs |-> IF p = Sync THEN Boot ELSE "idle"]
    /\ job = [p \in Procs |-> NoJob]
    /\ obj = [p \in Procs |-> NoUid]
    /\ raw = [p \in Procs |-> Absent]
    /\ cache = EmptyStore /\ listed = NothingListed
    /\ todo = {} /\ subs = {} /\ orphans = {}
    /\ ops = 0 /\ faults = 0
-----------------------------------------------------------------------------
(* How a step ends: go on at another label, leave the hook (or the network  *)
(* the pass is working on), or let an exception out of it.                  *)

Goto(p, l) ==
    /\ pc' = [pc EXCEPT ![p] = l]
    /\ UNCHANGED <<neutron, job, obj, raw>>

Hold(p, u, r, l) ==
    /\ obj' = [obj EXCEPT ![p] = u]
    /\ raw' = [raw EXCEPT ![p] = r]
    /\ pc' = [pc EXCEPT ![p] = l]
    /\ UNCHANGED <<neutron, job>>

LeaveTo(p, l) ==
    /\ pc' = [pc EXCEPT ![p] = l]
    /\ job' = [job EXCEPT ![p] = NoJob]
    /\ obj' = [obj EXCEPT ![p] = NoUid]
    /\ raw' = [raw EXCEPT ![p] = Absent]
    /\ UNCHANGED neutron

Leave(p) == LeaveTo(p, IF p = Sync THEN "next" ELSE "idle")

SubnetsOf(n) == IF Live(n) THEN neutron[n].subnets ELSE {}

(* ML2 deletes the resource whose create hook raised, which runs its delete *)
(* hook; an updated resource stays updated.                                 *)
DeleteAfterFailedCreate(p) ==
    /\ neutron' = [neutron EXCEPT ![job[p].net] = Gone]
    /\ job' = [job EXCEPT ![p].op = "deleteNet", ![p].vlan = neutron[job[p].net].vlan]
    /\ pc' = [pc EXCEPT ![p] = "delFind"]
    /\ UNCHANGED <<obj, raw>>

DropAfterFailedCreate(p) ==
    /\ neutron' = [neutron EXCEPT ![job[p].net].subnets = @ \ {job[p].ver}]
    /\ job' = [job EXCEPT ![p].op = "deleteSubnet"]
    /\ pc' = [pc EXCEPT ![p] = "clrFind"]
    /\ UNCHANGED <<obj, raw>>

Raise(p) ==
    \/ job[p].op = "createNet" /\ Live(job[p].net) /\ DeleteAfterFailedCreate(p)
    \/ /\ job[p].op = "createSubnet" /\ job[p].ver \in SubnetsOf(job[p].net)
       /\ DropAfterFailedCreate(p)
    \/ /\ ~ (job[p].op = "createNet" /\ Live(job[p].net))
       /\ ~ (job[p].op = "createSubnet" /\ job[p].ver \in SubnetsOf(job[p].net))
       /\ Leave(p)

-----------------------------------------------------------------------------
(* Requests.  Any request may fail, and one that writes may fail after the  *)
(* controller has applied it (the answer is lost).  The controller refuses  *)
(* to write or delete an object it does not have.                           *)

Fault == faults < MaxFaults /\ faults' = faults + 1

Get(ok, err) ==
    /\ \/ ok /\ UNCHANGED faults
       \/ Fault /\ err
    /\ UNCHANGED <<unifi, claimed, ops>>

Put(p, c, ok, err) ==
    /\ \/ /\ unifi[obj[p]] # Absent
          /\ unifi' = [unifi EXCEPT ![obj[p]] = c]
          /\ \/ ok /\ UNCHANGED faults
             \/ Fault /\ err
       \/ /\ unifi[obj[p]] = Absent /\ err
          /\ UNCHANGED <<unifi, faults>>
       \/ Fault /\ err /\ UNCHANGED unifi
    /\ UNCHANGED <<claimed, ops, passVars>>

(* controller.networks after update(): a copy of the controller's list.     *)
(* _unifi_network_for_vlan takes the first entry with the VLAN.             *)
Found(store, v) ==
    LET hits == {u \in Uids : store[u] # Absent /\ store[u].vlan = v}
    IN IF hits = {} THEN {NoUid} ELSE hits

View(store, u) == IF u = NoUid THEN Absent ELSE store[u]

-----------------------------------------------------------------------------
(* _reconcile_network, shared by the create and update hooks and the pass.  *)

AfterName(r) == IF ZoneConfigured /\ r.zone # "tenant" THEN "zone" ELSE "v4read"

(* Mutant: an object on the right VLAN is taken as it is. *)
FirstWriteNoRename(j, r) == IF r = Absent THEN "post" ELSE AfterName(r)

FirstWrite(j, r) ==
    IF r = Absent THEN "post"
    ELSE IF r.name # DriverName(j.net, j.vlan) THEN "rename"
    ELSE AfterName(r)

Reconciled(p) == IF p = Sync THEN Goto(p, "subList") ELSE Leave(p)

Find(p) ==
    /\ pc[p] = "find"
    /\ Get(\E u \in Found(unifi, job[p].vlan) :
              Hold(p, u, View(unifi, u), FirstWrite(job[p], View(unifi, u))),
           Raise(p))
    /\ UNCHANGED passVars

(* Mutant: the new object gets the segmentation id from before the change. *)
NewConfOldVlan(j) ==
    [name |-> DriverName(j.net, j.vlan), vlan |-> j.old,
     zone |-> "internal", v4 |-> "factory", v6 |-> "none"]

NewConf(j) ==
    [name |-> DriverName(j.net, j.vlan), vlan |-> j.vlan,
     zone |-> "internal", v4 |-> "factory", v6 |-> "none"]

(* Ids nobody knows: the controller never hands one out twice.              *)
Fresh ==
    {u \in Uids : /\ HandMade[u] = Absent /\ unifi[u] = Absent /\ cache[u] = Absent
                  /\ \A p \in Procs : obj[p] # u}

Taken(v) == \E u \in Uids : unifi[u] # Absent /\ unifi[u].vlan = v

Post(p) ==
    /\ pc[p] = "post"
    /\ \/ /\ ~ (RejectsTakenVlan /\ Taken(job[p].vlan))
          /\ \E u \in Fresh :
                /\ u = CHOOSE f \in Fresh : TRUE
                /\ unifi' = [unifi EXCEPT ![u] = NewConf(job[p])]
          /\ \/ Goto(p, "refind") /\ UNCHANGED faults
             \/ Fault /\ Raise(p)
       \/ /\ RejectsTakenVlan /\ Taken(job[p].vlan) /\ Raise(p)
          /\ UNCHANGED <<unifi, faults>>
       \/ Fault /\ Raise(p) /\ UNCHANGED unifi
    /\ UNCHANGED <<claimed, ops, passVars>>

Rename(p) ==
    /\ pc[p] = "rename"
    /\ Put(p, [raw[p] EXCEPT !.name = DriverName(job[p].net, job[p].vlan)],
           Goto(p, "refind"), Raise(p))

(* Mutant: the lookup after a write leaves the list of the pass as it was. *)
RefindStale(p) ==
    /\ pc[p] = "refind"
    /\ Get(\E u \in Found(unifi, job[p].vlan) :
              IF u = NoUid THEN Reconciled(p) ELSE Hold(p, u, unifi[u], AfterName(unifi[u])),
           Raise(p))
    /\ UNCHANGED passVars

(* The lookup after a write always refreshes, in the pass too.              *)
Refind(p) ==
    /\ pc[p] = "refind"
    /\ Get(/\ \E u \in Found(unifi, job[p].vlan) :
                 IF u = NoUid THEN Reconciled(p)
                 ELSE Hold(p, u, unifi[u], AfterName(unifi[u]))
           /\ cache' = IF p = Sync THEN unifi ELSE cache,
           Raise(p) /\ UNCHANGED cache)
    /\ UNCHANGED <<listed, todo, subs, orphans>>

AssignZone(p) ==
    /\ pc[p] = "zone"
    /\ Put(p, [raw[p] EXCEPT !.zone = "tenant"], Goto(p, "v4read"), Goto(p, "v4read"))

ReadV4Subnets(p) ==
    /\ pc[p] = "v4read"
    /\ Get(IF 4 \in SubnetsOf(job[p].net) \/ raw[p].v4 = "synthetic"
           THEN Reconciled(p) ELSE Goto(p, "v4put"),
           Reconciled(p))
    /\ UNCHANGED passVars

DisableV4(p) ==
    /\ pc[p] = "v4put"
    /\ Put(p, [raw[p] EXCEPT !.v4 = "synthetic"], Reconciled(p), Raise(p))

-----------------------------------------------------------------------------
(* The rest of the network hooks.                                           *)

(* Mutant: a changed segmentation id leaves the object of the old one. *)
FindOldKeeps(p) ==
    /\ pc[p] = "updFind"
    /\ Goto(p, "find")
    /\ UNCHANGED <<unifi, claimed, ops, faults, passVars>>

FindOld(p) ==
    /\ pc[p] = "updFind"
    /\ Get(\E u \in Found(unifi, job[p].old) :
              Hold(p, u, View(unifi, u), IF u = NoUid THEN "find" ELSE "updDelete"),
           Raise(p))
    /\ UNCHANGED passVars

DeleteOld(p) ==
    /\ pc[p] = "updDelete"
    /\ Put(p, Absent, Goto(p, "find"), Raise(p))

FirstDelete(r) == IF ZoneConfigured /\ r.zone = "tenant" THEN "unassign" ELSE "delete"

FindDoomed(p) ==
    /\ pc[p] = "delFind"
    /\ Get(\E u \in Found(unifi, job[p].vlan) :
              IF u = NoUid THEN Leave(p) ELSE Hold(p, u, unifi[u], FirstDelete(unifi[u])),
           Leave(p))
    /\ UNCHANGED passVars

UnassignZone(p) ==
    /\ pc[p] = "unassign"
    /\ Put(p, [raw[p] EXCEPT !.zone = "internal"], Goto(p, "delete"), Goto(p, "delete"))

(* delete_network_postcommit and the cleanup both swallow a failure.        *)
Delete(p) ==
    /\ pc[p] = "delete"
    /\ LET over == LeaveTo(p, IF p = Sync THEN "clean" ELSE "idle")
       IN Put(p, Absent, over, over)

-----------------------------------------------------------------------------
(* Subnet hooks.  The field groups _subnet_unifi_fields and                 *)
(* _subnet_clear_fields write; a cleared section keeps its subnet, so       *)
(* clearing a synthetic one leaves it synthetic.                            *)

(* Mutant: a disabled IPv4 section is not enabled again. *)
WithSubnetUnlessDisabled(r, ver) ==
    IF ver = 6 THEN [r EXCEPT !.v6 = "subnet"]
    ELSE IF r.v4 = "synthetic" THEN r ELSE [r EXCEPT !.v4 = "subnet"]

WithSubnet(r, ver) ==
    IF ver = 4 THEN [r EXCEPT !.v4 = "subnet"] ELSE [r EXCEPT !.v6 = "subnet"]

(* Mutant: only DHCPv4 is turned off. *)
ClearedV4Only(r, ver) ==
    IF ver = 6 \/ r.v4 = "synthetic" THEN r ELSE [r EXCEPT !.v4 = "cleared"]

ClearedSubnet(r, ver) ==
    IF ver = 6 THEN [r EXCEPT !.v6 = "cleared"]
    ELSE IF r.v4 = "synthetic" THEN r ELSE [r EXCEPT !.v4 = "cleared"]

FindForSubnet(p) ==
    /\ pc[p] = "subFind"
    /\ Get(\E u \in Found(unifi, job[p].vlan) :
              IF u = NoUid THEN Leave(p) ELSE Hold(p, u, unifi[u], "subPut"),
           Raise(p))
    /\ UNCHANGED passVars

PutSubnet(p) ==
    /\ pc[p] = "subPut"
    /\ LET over == IF p = Sync THEN Goto(p, "subs") ELSE Leave(p)
           fail == IF p = Sync THEN Goto(p, "subs") ELSE Raise(p)
       IN Put(p, WithSubnet(raw[p], job[p].ver), over, fail)

FindToClear(p) ==
    /\ pc[p] = "clrFind"
    /\ Get(\E u \in Found(unifi, job[p].vlan) :
              IF u = NoUid THEN Leave(p) ELSE Hold(p, u, unifi[u], "clrPut"),
           Leave(p))
    /\ UNCHANGED passVars

ClearSubnet(p) ==
    /\ pc[p] = "clrPut"
    /\ Put(p, ClearedSubnet(raw[p], job[p].ver), Leave(p), Leave(p))

-----------------------------------------------------------------------------
(* _sync_networks.                                                          *)

SyncOnly == UNCHANGED <<neutron, claimed, unifi, ops>>

(* The end of initialize(): it logs that the test of the connection failed  *)
(* and returns, so that this server never starts its loop.                  *)
Connect ==
    /\ pc[Sync] = "connect"
    /\ Get(Goto(Sync, "idle"), Goto(Sync, "off"))
    /\ UNCHANGED passVars

DropPass(l) ==
    /\ LeaveTo(Sync, l)
    /\ cache' = EmptyStore /\ listed' = NothingListed
    /\ todo' = {} /\ subs' = {} /\ orphans' = {}

EndPass == DropPass("idle")

(* plugin.get_networks; a failure here leaves the loop where it is.         *)
StartPass ==
    /\ pc[Sync] = "idle"
    /\ listed' = [n \in Nets |->
                     IF Live(n) /\ n \notin External THEN neutron[n].vlan ELSE NoVlan]
    /\ todo' = {n \in Nets : Live(n) /\ n \notin External}
    /\ Goto(Sync, "refresh")
    /\ UNCHANGED <<claimed, unifi, cache, subs, orphans, ops, faults>>

Refresh ==
    /\ pc[Sync] = "refresh"
    /\ Get(Goto(Sync, "next") /\ cache' = unifi /\ UNCHANGED <<listed, todo, subs, orphans>>,
           EndPass)

(* The lookup of the pass does not refresh: it is no request of its own.    *)
NextNetwork ==
    /\ pc[Sync] = "next"
    /\ \E n \in todo :
          LET j == [NoJob EXCEPT !.net = n, !.vlan = listed[n]]
          IN \E u \in Found(cache, listed[n]) :
                /\ todo' = todo \ {n}
                /\ job' = [job EXCEPT ![Sync] = j]
                /\ obj' = [obj EXCEPT ![Sync] = u]
                /\ raw' = [raw EXCEPT ![Sync] = View(cache, u)]
                /\ pc' = [pc EXCEPT ![Sync] = FirstWrite(j, View(cache, u))]
    /\ SyncOnly /\ UNCHANGED <<cache, listed, subs, orphans, faults>>

ListSubnets ==
    /\ pc[Sync] = "subList"
    /\ Get(Goto(Sync, "subs") /\ subs' = SubnetsOf(job[Sync].net),
           Leave(Sync) /\ UNCHANGED subs)
    /\ UNCHANGED <<cache, listed, todo, orphans>>

(* _reconcile_subnet(refresh=False) up to its PUT.                          *)
NextSubnet ==
    /\ pc[Sync] = "subs"
    /\ \E ver \in subs, u \in Found(cache, job[Sync].vlan) :
          /\ subs' = subs \ {ver}
          /\ job' = [job EXCEPT ![Sync].ver = ver]
          /\ obj' = [obj EXCEPT ![Sync] = u]
          /\ raw' = [raw EXCEPT ![Sync] = View(cache, u)]
          /\ pc' = [pc EXCEPT ![Sync] = IF u = NoUid THEN "subs" ELSE "subPut"]
    /\ SyncOnly /\ UNCHANGED <<cache, listed, todo, orphans, faults>>

SubnetsDone ==
    /\ pc[Sync] = "subs" /\ subs = {}
    /\ Leave(Sync)
    /\ SyncOnly /\ UNCHANGED <<passVars, faults>>

(* Mutant: an object that no listed network names is an orphan. *)
IsOrphanUnlisted(r) ==
    r # Absent /\ ~ \E n \in Nets, v \in Vlans : r.name = DriverName(n, v) /\ listed[n] # NoVlan

(* _cleanup_orphaned_networks looks at the cache, so at the pass's latest   *)
(* reading of the controller, and at the listing the pass started from.     *)
IsOrphan(r) ==
    r # Absent /\ \E n \in Nets, v \in Vlans : r.name = DriverName(n, v) /\ listed[n] = NoVlan

(* Mutant: nothing is done when Neutron lists no network. *)
StartCleanupIfAny ==
    /\ pc[Sync] = "next" /\ todo = {}
    /\ orphans' = IF listed = NothingListed THEN {} ELSE {u \in Uids : IsOrphan(cache[u])}
    /\ Goto(Sync, "clean")
    /\ SyncOnly /\ UNCHANGED <<cache, listed, todo, subs, faults>>

StartCleanup ==
    /\ pc[Sync] = "next" /\ todo = {}
    /\ orphans' = {u \in Uids : IsOrphan(cache[u])}
    /\ Goto(Sync, "clean")
    /\ SyncOnly /\ UNCHANGED <<cache, listed, todo, subs, faults>>

NextOrphan ==
    /\ pc[Sync] = "clean"
    /\ \E u \in orphans :
          /\ orphans' = orphans \ {u}
          /\ Hold(Sync, u, cache[u], FirstDelete(cache[u]))
    /\ SyncOnly /\ UNCHANGED <<cache, listed, todo, subs, faults>>

FinishPass ==
    /\ pc[Sync] = "clean" /\ orphans = {}
    /\ EndPass
    /\ SyncOnly /\ UNCHANGED faults

-----------------------------------------------------------------------------
(* Changes made by users.  Neutron gives a VLAN to one live network at a    *)
(* time; it commits the change, then a thread runs the hook.                *)

UserStep == ops < MaxOps /\ ops' = ops + 1 /\ UNCHANGED <<unifi, faults, obj, raw, passVars>>

Free(v) == \A n \in Nets : Live(n) => neutron[n].vlan # v

Run(w, l, j) ==
    /\ pc[w] = "idle"
    /\ pc' = [pc EXCEPT ![w] = l]
    /\ job' = [job EXCEPT ![w] = j]

(* The create hook ignores an external network.                             *)
CreateNetwork(w, n, v) ==
    /\ UserStep
    /\ neutron[n] = Unborn /\ Free(v)
    /\ neutron' = [neutron EXCEPT ![n] = [vlan |-> v, subnets |-> {}]]
    /\ claimed' = claimed \cup {v}
    /\ IF n \in External THEN UNCHANGED <<pc, job>>
       ELSE Run(w, "find", [NoJob EXCEPT !.op = "createNet", !.net = n, !.vlan = v])

(* The update and delete hooks do not look at router:external.  The update  *)
(* hook ignores every change but that of the segmentation id.               *)
ChangeVlan(w, n, v) ==
    /\ UserStep
    /\ Live(n) /\ Free(v)
    /\ neutron' = [neutron EXCEPT ![n].vlan = v]
    /\ claimed' = claimed \cup {v}
    /\ Run(w, "updFind", [NoJob EXCEPT !.op = "updateNet", !.net = n, !.vlan = v,
                                       !.old = neutron[n].vlan])

DeleteNetwork(w, n) ==
    /\ UserStep
    /\ Live(n) /\ neutron[n].subnets = {}
    /\ neutron' = [neutron EXCEPT ![n] = Gone]
    /\ Run(w, "delFind", [NoJob EXCEPT !.op = "deleteNet", !.net = n, !.vlan = neutron[n].vlan])
    /\ UNCHANGED claimed

SubnetJob(o, n, ver) ==
    [NoJob EXCEPT !.op = o, !.net = n, !.vlan = neutron[n].vlan, !.ver = ver]

CreateSubnet(w, n, ver) ==
    /\ UserStep
    /\ Live(n) /\ n \notin External /\ ver \notin neutron[n].subnets
    /\ neutron' = [neutron EXCEPT ![n].subnets = @ \cup {ver}]
    /\ Run(w, "subFind", SubnetJob("createSubnet", n, ver))
    /\ UNCHANGED claimed

UpdateSubnet(w, n, ver) ==
    /\ UserStep
    /\ Live(n) /\ n \notin External /\ ver \in neutron[n].subnets
    /\ Run(w, "subFind", SubnetJob("updateSubnet", n, ver))
    /\ UNCHANGED <<neutron, claimed>>

DeleteSubnet(w, n, ver) ==
    /\ UserStep
    /\ Live(n) /\ n \notin External /\ ver \in neutron[n].subnets
    /\ neutron' = [neutron EXCEPT ![n].subnets = @ \ {ver}]
    /\ Run(w, "clrFind", SubnetJob("deleteSubnet", n, ver))
    /\ UNCHANGED claimed

(* Drift: somebody renames or deletes an object in the UniFi UI, on a VLAN  *)
(* that Neutron uses.                                                       *)
DriftByHand(u, c) ==
    /\ Drift /\ ops < MaxOps /\ ops' = ops + 1
    /\ unifi[u] # Absent /\ unifi[u].vlan \in claimed
    /\ unifi' = [unifi EXCEPT ![u] = c]
    /\ UNCHANGED <<neutron, claimed, pc, job, obj, raw, passVars, faults>>

RenameByHand(u) == DriftByHand(u, [unifi[u] EXCEPT !.name = ManualName])
DeleteByHand(u) == DriftByHand(u, Absent)

(* A process dies between two requests; nothing it holds survives.          *)
CrashHook(w) ==
    /\ pc[w] # "idle" /\ Fault
    /\ Leave(w)
    /\ UNCHANGED <<claimed, unifi, passVars, ops>>

(* The server restarts, in a pass or between two, and initializes again.    *)
CrashSync ==
    /\ pc[Sync] # Boot /\ Fault
    /\ DropPass(Boot)
    /\ SyncOnly

-----------------------------------------------------------------------------
ReconcileStep(p) ==
    Post(p) \/ Rename(p) \/ Refind(p) \/ AssignZone(p) \/ ReadV4Subnets(p) \/ DisableV4(p)

HookStep(w) ==
    \/ Find(w) \/ ReconcileStep(w)
    \/ FindOld(w) \/ DeleteOld(w)
    \/ FindDoomed(w) \/ UnassignZone(w) \/ Delete(w)
    \/ FindForSubnet(w) \/ PutSubnet(w) \/ FindToClear(w) \/ ClearSubnet(w)

SyncStep ==
    \/ Connect \/ StartPass \/ Refresh \/ NextNetwork \/ ReconcileStep(Sync)
    \/ ListSubnets \/ NextSubnet \/ PutSubnet(Sync) \/ SubnetsDone
    \/ StartCleanup \/ NextOrphan \/ UnassignZone(Sync) \/ Delete(Sync) \/ FinishPass

UserAction(w) ==
    \E n \in Nets :
       \/ \E v \in Vlans : CreateNetwork(w, n, v) \/ ChangeVlan(w, n, v)
       \/ DeleteNetwork(w, n)
       \/ \E ver \in Versions :
             CreateSubnet(w, n, ver) \/ UpdateSubnet(w, n, ver) \/ DeleteSubnet(w, n, ver)

Next ==
    \/ \E w \in Hooks : HookStep(w) \/ UserAction(w) \/ CrashHook(w)
    \/ SyncStep \/ CrashSync
    \/ \E u \in Uids : RenameByHand(u) \/ DeleteByHand(u)

Spec == Init /\ [][Next]_vars

(* Threads run, initialize() returns, and a looping call that was started   *)
(* calls again: each hook goes on, and so does the pass.  Nothing is        *)
(* assumed of a loop that a failed connection test kept from starting.      *)
FairSpec == Spec /\ WF_vars(SyncStep) /\ \A w \in Hooks : WF_vars(HookStep(w))

-----------------------------------------------------------------------------
(* Type invariant of the mirroring state and of every process's locals.     *)
TypeOK ==
    /\ neutron \in [Nets -> NeutronNet \cup {Unborn, Gone}]
    /\ claimed \subseteq Vlans
    /\ unifi \in [Uids -> Conf \cup {Absent}]
    /\ pc \in [Procs -> Labels]
    /\ job \in [Procs -> Job]
    /\ obj \in [Procs -> Uids \cup {NoUid}]
    /\ raw \in [Procs -> Conf \cup {Absent}]
    /\ cache \in [Uids -> Conf \cup {Absent}]
    /\ listed \in [Nets -> Vlans \cup {NoVlan}]
    /\ todo \subseteq Nets /\ subs \subseteq Versions /\ orphans \subseteq Uids
    /\ ops \in 0..MaxOps /\ faults \in 0..MaxFaults
-----------------------------------------------------------------------------
(* Safety. *)

(* No process ever writes or deletes a hand-made object on a VLAN that no   *)
(* Neutron network has used: every request goes to an object found by the   *)
(* VLAN of a Neutron network, or whose cached name is the driver's own.     *)
HandMadeUntouched ==
    \A u \in Uids :
       HandMade[u] # Absent /\ HandMade[u].vlan \notin claimed => unifi[u] = HandMade[u]

(* A step in which the cleanup of the pass deletes u. *)
CleanupDeletes(u) ==
    /\ pc[Sync] = "delete" /\ pc'[Sync] # "delete"
    /\ unifi[u] # Absent /\ unifi'[u] = Absent

(* _cleanup_orphaned_networks does not delete the object of a network that  *)
(* was in the listing of the pass and has kept its VLAN since.              *)
CleanupSparesListed ==
    [][\A u \in Uids, n \in Nets :
          CleanupDeletes(u) /\ Live(n) /\ neutron[n].vlan = listed[n]
             => unifi[u].name # DriverName(n, listed[n])]_vars

(* The docstring of _cleanup_orphaned_networks: it deletes UniFi networks   *)
(* "whose Neutron network is gone", so never that of a live network.        *)
CleanupSparesLive ==
    [][\A u \in Uids, n \in Nets :
          CleanupDeletes(u) /\ Live(n) => unifi[u].name # DriverName(n, neutron[n].vlan)]_vars

Serves(u, n) == unifi[u] # Absent /\ unifi[u].vlan = neutron[n].vlan

NamedFor(u, n) == Serves(u, n) /\ unifi[u].name = DriverName(n, neutron[n].vlan)

Ours(n) == Live(n) /\ n \notin External

Idle == \A w \in Hooks : pc[w] = "idle"

(* Whenever no hook is running, every Neutron network has exactly one       *)
(* object with its VLAN and name, and the driver has left no other behind   *)
(* (the hooks alone: one thread, no failures, no pass).                     *)
HooksMirror ==
    Idle =>
       /\ \A n \in Nets : Ours(n) =>
             \E u \in Uids : NamedFor(u, n) /\ \A x \in Uids : Serves(x, n) => x = u
       /\ \A u \in Uids : unifi[u] # Absent /\ unifi[u].name \in DriverNames =>
             \E n \in Nets : Ours(n) /\ NamedFor(u, n)

(* Whenever no hook is running, the controller serves no subnet that        *)
(* Neutron does not have, and a network without an IPv4 subnet has no       *)
(* factory DHCP range left on (the hooks alone).                            *)
HooksServeNoStaleSubnet ==
    Idle =>
       \A n \in Nets, u \in Uids : Ours(n) /\ Serves(u, n) =>
          /\ 4 \notin SubnetsOf(n) => unifi[u].v4 \in {"synthetic", "cleared"}
          /\ 6 \notin SubnetsOf(n) => unifi[u].v6 \in {"none", "cleared"}

Mirroring == INSTANCE Mirror WITH
    want <- [n \in Nets |-> IF Ours(n) THEN neutron[n].vlan ELSE NoVlan],
    have <- {e \in Nets \X Vlans : \E u \in Uids :
                unifi[u] # Absent /\ unifi[u].vlan = e[2] /\ unifi[u].name = DriverName(e[1], e[2])},
    busy <- {job[w].net : w \in {x \in Hooks : pc[x] # "idle"}}

(* The hooks alone keep a mirror: a hook takes away only what its network   *)
(* should not have and adds only what it should, leaves the objects of      *)
(* other networks alone, and returns when its network is mirrored.          *)
ImplementsMirror == Mirroring!Spec

-----------------------------------------------------------------------------
(* Liveness.  Changes by users and faults are finitely many.  The first     *)
(* three speak of a server whose loop was started: Looping fails for good   *)
(* when the last connection test of initialize() failed.                    *)

Looping == pc[Sync] # "off"

(* Whatever the hooks lost, every Neutron network ends up with an object    *)
(* that has its VLAN and its name, if there is a loop.                      *)
NetworksMirrored ==
    \A n \in Nets : <>[](Looping /\ Ours(n) => \E u \in Uids : NamedFor(u, n))

(* Objects of networks that are gone do not stay: the cleanup of the loop   *)
(* gets them.                                                               *)
OrphansRemoved ==
    \A u \in Uids, n \in Nets :
       <>[](Looping /\ unifi[u] # Absent /\ (\E v \in Vlans : unifi[u].name = DriverName(n, v))
               => Live(n))

ServedIn(u, ver) == IF ver = 4 THEN unifi[u].v4 = "subnet" ELSE unifi[u].v6 = "subnet"

(* A network with a single subnet ends up serving it, if there is a loop.   *)
OnlySubnetServed ==
    \A n \in Nets, ver \in Versions :
       <>[](Looping /\ Ours(n) /\ SubnetsOf(n) = {ver}
               => \E u \in Uids : Serves(u, n) /\ ServedIn(u, ver))

(* _reconcile_subnet: "Ensure a UniFi network's subnet/DHCP fields match    *)
(* this Neutron subnet", for each subnet of a network.                      *)
EverySubnetServed ==
    \A n \in Nets, ver \in Versions :
       <>[](Looping /\ Ours(n) /\ ver \in SubnetsOf(n)
               => \E u \in Uids : Serves(u, n) /\ ServedIn(u, ver))
=============================================================================

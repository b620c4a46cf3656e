---------------------------- MODULE PortBinding ----------------------------
(***************************************************************************)
(* Switch ports configured for Neutron ports (unifi_mech.py, the port       *)
(* *_postcommit hooks with _configure_port and _unconfigure_port).          *)
(*                                                                          *)
(* A hook looks the switch up, then PUTs its override table; the table is   *)
(* built from the device as it was looked up, with one entry replaced.      *)
(* What a hook has configured is remembered in port_mappings, a dictionary  *)
(* of the neutron-server process, with one switch port per Neutron port.    *)
(***************************************************************************)
EXTENDS Naturals, Sequences, FiniteSets

CONSTANTS
    Ports,            \* Neutron ports with a binding profile
    VlanOf,           \* segmentation id of a port's network
    Profiles,         \* lists of links a port may be given (local_link_information)
    Slots, SwitchOf,  \* switch ports, and the switch of each
    Servers,          \* neutron-server processes
    Threads, ServerOf,\* threads that run hooks, and the process of each
    Vlans,
    DefaultVlan,      \* the VLAN a switch port is reset to
    DefaultListed,    \* does the controller list a network with that VLAN?
    Retries,          \* CONF.unifi.port_setup_retry_count
    NoPort, NoSlot, NoTask, Blank,   \* null values
    MaxOps, MaxFaults \* bounds: changes by users, failed requests and restarts

Lists == UNION {Profiles[p] : p \in Ports}

ASSUME PortBindingAssumption ==
    /\ VlanOf \in [Ports -> Vlans] /\ DefaultVlan \notin Vlans
    /\ DOMAIN SwitchOf = Slots
    /\ ServerOf \in [Threads -> Servers]
    /\ DOMAIN Profiles = Ports /\ \A l \in Lists : l \in Seq(Slots)
    /\ DefaultListed \in BOOLEAN
    /\ Retries \in Nat /\ MaxOps \in Nat /\ MaxFaults \in Nat

(* An override sets the name (of the Neutron port) and the native network.  *)
Conf == [vlan : Vlans \cup {DefaultVlan}, owner : Ports \cup {NoPort}]
Factory == [vlan |-> DefaultVlan, owner |-> NoPort]
ConfOf(p) == [vlan |-> VlanOf[p], owner |-> p]

Tables == [Slots -> Conf]

(* A running hook: links are those still to be configured, the first of     *)
(* them in work; slot is the switch port it configures or resets just now.  *)
Task == [op : {"create", "update", "delete"}, port : Ports, links : Seq(Slots),
         doing : {"configure", "reset"}, slot : Slots]

ASSUME NullsAreNoValues ==
    NoPort \notin Ports /\ NoSlot \notin Slots /\ NoTask \notin Task /\ Blank \notin Tables

VARIABLES
    live,     \* Neutron: ports that exist ...
    born,     \* ... and those that ever did
    links,    \* Neutron: local_link_information of each port
    slots,    \* the controller: configuration of every switch port
    mapping,  \* port_mappings of each process
    pc,       \* next request of each thread
    task,     \* the hook it runs
    seen,     \* the switch ports as its lookup showed them
    left,     \* attempts left of the PUT
    failed,   \* history: ports whose last hook raised or was killed ...
    hurt,     \* ... and ports whose switch port a later hook of these reset
    ops, faults

vars == <<live, born, links, slots, mapping, pc, task, seen, left, failed, hurt, ops, faults>>

SlotsOf(l) == {l[i] : i \in DOMAIN l}

Nothing == [p \in Ports |-> NoSlot]

Init ==
    /\ live = {} /\ born = {}
    /\ links = [p \in Ports |-> <<>>]
    /\ slots = [s \in Slots |-> Factory]
    /\ mapping = [v \in Servers |-> Nothing]
    /\ pc = [w \in Threads |-> "idle"]
    /\ task = [w \in Threads |-> NoTask]
    /\ seen = [w \in Threads |-> Blank]
    /\ left = [w \in Threads |-> 0]
    /\ failed = {} /\ hurt = {}
    /\ ops = 0 /\ faults = 0

Known(w, p) == mapping[ServerOf[w]][p]

-----------------------------------------------------------------------------
(* What a hook does next.                                                   *)

SetTask(w, t) ==
    /\ task' = [task EXCEPT ![w] = t]
    /\ pc' = [pc EXCEPT ![w] = IF t = NoTask THEN "idle" ELSE "look"]
    /\ seen' = [seen EXCEPT ![w] = Blank]
    /\ left' = [left EXCEPT ![w] = 0]

(* Mutant: the old switch port is left as it is. *)
AimNoReset(op, p, l, m) ==
    [op |-> op, port |-> p, links |-> l, doing |-> "configure", slot |-> Head(l)]

(* The loop of the update hook over links, with m the mapping it consults:  *)
(* a switch port other than the link's is reset first.                      *)
Aim(op, p, l, m) ==
    LET moved == op = "update" /\ m # NoSlot /\ m # Head(l)
    IN [op |-> op, port |-> p, links |-> l,
        doing |-> IF moved THEN "reset" ELSE "configure",
        slot |-> IF moved THEN m ELSE Head(l)]

Forget(p, m) == [op |-> "delete", port |-> p, links |-> <<>>, doing |-> "reset", slot |-> m]

(* Mutant: a port keeps its first mapping. *)
RecordFirst(w, t) ==
    mapping' = [mapping EXCEPT ![ServerOf[w]][t.port] = IF @ = NoSlot THEN t.slot ELSE @]

(* port_mappings[port_id] = the link just configured. *)
Record(w, t) == mapping' = [mapping EXCEPT ![ServerOf[w]][t.port] = t.slot]

Configured(w) ==
    LET t == task[w]
        rest == Tail(t.links)
    IN /\ Record(w, t)
       /\ SetTask(w, IF rest = <<>> THEN NoTask ELSE Aim(t.op, t.port, rest, t.slot))
       /\ failed' = IF rest = <<>> THEN failed \ {t.port} ELSE failed
       /\ UNCHANGED live

(* Mutant: the update hook is done once it has reset the old switch port. *)
ResetOverEnds(w) ==
    LET t == task[w]
    IN /\ mapping' = [mapping EXCEPT ![ServerOf[w]][t.port] = NoSlot]
       /\ SetTask(w, NoTask)
       /\ UNCHANGED <<live, failed>>

(* _unconfigure_port swallows its failures: its caller goes on either way,  *)
(* and the delete hook drops the mapping.                                   *)
ResetOver(w) ==
    LET t == task[w]
    IN /\ \/ /\ t.op = "delete"
             /\ mapping' = [mapping EXCEPT ![ServerOf[w]][t.port] = NoSlot]
             /\ SetTask(w, NoTask)
          \/ /\ t.op = "update"
             /\ SetTask(w, [t EXCEPT !.doing = "configure", !.slot = Head(t.links)])
             /\ UNCHANGED mapping
       /\ UNCHANGED <<live, failed>>

(* Mutant: the delete hook does not ask whether there is a mapping. *)
RaiseUnasked(w) ==
    LET t == task[w]
    IN /\ \/ /\ t.op = "create" /\ t.port \in live
             /\ live' = live \ {t.port}
             /\ SetTask(w, Forget(t.port, Known(w, t.port)))
          \/ /\ t.op = "update" \/ t.port \notin live
             /\ SetTask(w, NoTask) /\ UNCHANGED live
       /\ failed' = failed \cup {t.port}
       /\ UNCHANGED mapping

(* The exception leaves the hook.  ML2 deletes a port whose create hook     *)
(* raised, and runs its delete hook; an updated port stays updated.         *)
Raise(w) ==
    LET t == task[w]
        m == Known(w, t.port)
    IN /\ \/ /\ t.op = "create" /\ t.port \in live
             /\ live' = live \ {t.port}
             /\ SetTask(w, IF m = NoSlot THEN NoTask ELSE Forget(t.port, m))
          \/ /\ t.op = "update" \/ t.port \notin live
             /\ SetTask(w, NoTask) /\ UNCHANGED live
       /\ failed' = failed \cup {t.port}
       /\ UNCHANGED mapping

Over(w) == IF task[w].doing = "configure" THEN Configured(w) ELSE ResetOver(w)
GiveUp(w) == IF task[w].doing = "configure" THEN Raise(w) ELSE ResetOver(w)

-----------------------------------------------------------------------------
(* Requests.                                                                *)

Fault == faults < MaxFaults /\ faults' = faults + 1

(* networks.update and devices.update: nothing is kept of the first but     *)
(* that the VLAN has a network.  With no attempts allowed nothing is sent,  *)
(* and nothing is raised.                                                   *)
Look(w) ==
    /\ pc[w] = "look"
    /\ LET listed == task[w].doing = "configure" \/ DefaultListed IN
          \/ /\ listed
             /\ IF Retries = 0 THEN Over(w)
                ELSE /\ pc' = [pc EXCEPT ![w] = "put"]
                     /\ seen' = [seen EXCEPT ![w] = slots]
                     /\ left' = [left EXCEPT ![w] = Retries]
                     /\ UNCHANGED <<task, mapping, live, failed>>
             /\ UNCHANGED faults
          \/ ~ listed /\ GiveUp(w) /\ UNCHANGED faults
          \/ Fault /\ GiveUp(w)
    /\ UNCHANGED <<born, links, slots, hurt, ops>>

(* The client sends the override table of the switch it looked up, with one *)
(* entry replaced.                                                          *)
Overridden(w, conf) ==
    LET t == task[w]
    IN [s \in Slots |->
           IF s = t.slot THEN conf
           ELSE IF SwitchOf[s] = SwitchOf[t.slot] THEN seen[w][s]
           ELSE slots[s]]

Written(w) ==
    Overridden(w, IF task[w].doing = "configure" THEN ConfOf(task[w].port) ELSE Factory)

(* Mutant: the last failed attempt counts as done. *)
AgainOrDone(w) ==
    IF left[w] > 1
    THEN /\ left' = [left EXCEPT ![w] = @ - 1]
         /\ UNCHANGED <<pc, task, seen, mapping, live, failed>>
    ELSE Over(w)

(* The attempts of one PUT; the exception of the last one is raised. *)
AgainOrNot(w) ==
    IF left[w] > 1
    THEN /\ left' = [left EXCEPT ![w] = @ - 1]
         /\ UNCHANGED <<pc, task, seen, mapping, live, failed>>
    ELSE GiveUp(w)

(* A hook that raised has left its port's mapping as it was: the switch port *)
(* that a later hook resets for it may be another port's by now.            *)
Hurt(w) ==
    LET t == task[w]
    IN IF t.doing = "reset" /\ t.port \in failed THEN {seen[w][t.slot].owner} \ {NoPort} ELSE {}

(* A PUT may fail, before or after it has been applied.                     *)
Put(w) ==
    /\ pc[w] = "put"
    /\ \/ slots' = Written(w) /\ Over(w) /\ UNCHANGED faults
       \/ slots' = Written(w) /\ Fault /\ AgainOrNot(w)
       \/ Fault /\ AgainOrNot(w) /\ UNCHANGED slots
    /\ hurt' = hurt \cup Hurt(w)
    /\ UNCHANGED <<born, links, ops>>

-----------------------------------------------------------------------------
(* Changes made by users.  A switch port is given to one Neutron port at a  *)
(* time: another may have it as soon as Neutron's database says so.         *)

Free(s, p) == \A q \in live \ {p} : s \notin SlotsOf(links[q])

UserStep(w) == pc[w] = "idle" /\ ops < MaxOps /\ ops' = ops + 1 /\ UNCHANGED <<slots, mapping, hurt, faults>>

Give(p, l) ==
    /\ l \in Profiles[p] /\ \A s \in SlotsOf(l) : Free(s, p)
    /\ links' = [links EXCEPT ![p] = l]

NoHook == UNCHANGED <<pc, task, seen, left>>

(* Without links the create and the update hook return early.               *)
CreatePort(w, p, l) ==
    /\ UserStep(w)
    /\ p \notin born /\ Give(p, l)
    /\ born' = born \cup {p} /\ live' = live \cup {p}
    /\ IF l = <<>> THEN NoHook ELSE SetTask(w, Aim("create", p, l, Known(w, p)))
    /\ UNCHANGED failed

UpdatePort(w, p, l) ==
    /\ UserStep(w)
    /\ p \in live /\ l # links[p] /\ Give(p, l)
    /\ IF l = <<>> THEN NoHook ELSE SetTask(w, Aim("update", p, l, Known(w, p)))
    /\ UNCHANGED <<live, born, failed>>

DeletePort(w, p) ==
    /\ UserStep(w)
    /\ p \in live
    /\ live' = live \ {p}
    /\ LET m == Known(w, p) IN IF m = NoSlot THEN NoHook ELSE SetTask(w, Forget(p, m))
    /\ UNCHANGED <<born, links, failed>>

(* A server dies and starts again: its threads' hooks and its port_mappings *)
(* are gone.                                                                *)
Restart(v) ==
    /\ Fault
    /\ LET killed == {w \in Threads : ServerOf[w] = v} IN
          /\ pc' = [w \in Threads |-> IF w \in killed THEN "idle" ELSE pc[w]]
          /\ task' = [w \in Threads |-> IF w \in killed THEN NoTask ELSE task[w]]
          /\ seen' = [w \in Threads |-> IF w \in killed THEN Blank ELSE seen[w]]
          /\ left' = [w \in Threads |-> IF w \in killed THEN 0 ELSE left[w]]
          /\ failed' = failed \cup {task[w].port : w \in {k \in killed : task[k] # NoTask}}
    /\ mapping' = [mapping EXCEPT ![v] = Nothing]
    /\ UNCHANGED <<live, born, links, slots, hurt, ops>>

Next ==
    \/ \E w \in Threads :
          \/ Look(w) \/ Put(w)
          \/ \E p \in Ports :
                \/ \E l \in Profiles[p] : CreatePort(w, p, l) \/ UpdatePort(w, p, l)
                \/ DeletePort(w, p)
    \/ \E v \in Servers : Restart(v)

Spec == Init /\ [][Next]_vars

-----------------------------------------------------------------------------
(* Type invariant of the switch ports, the mappings and the hooks.          *)
TypeOK ==
    /\ live \subseteq born /\ born \subseteq Ports
    /\ failed \subseteq Ports /\ hurt \subseteq Ports
    /\ links \in [Ports -> Seq(Slots)]
    /\ slots \in Tables
    /\ mapping \in [Servers -> [Ports -> Slots \cup {NoSlot}]]
    /\ pc \in [Threads -> {"idle", "look", "put"}]
    /\ task \in [Threads -> Task \cup {NoTask}]
    /\ seen \in [Threads -> Tables \cup {Blank}]
    /\ left \in [Threads -> 0..Retries]
    /\ ops \in 0..MaxOps /\ faults \in 0..MaxFaults

Idle == \A w \in Threads : pc[w] = "idle"

(* create_port_postcommit and update_port_postcommit configure each link:   *)
(* when no hook is running and the last one of a port returned normally,    *)
(* every switch port it links has its name and its network, unless a hook   *)
(* of another port that once raised has reset it.                           *)
LinksConfigured ==
    Idle => \A p \in live \ (failed \cup hurt) : \A s \in SlotsOf(links[p]) : slots[s] = ConfOf(p)

(* delete_port_postcommit: when no hook is running, no switch port is still *)
(* configured for a Neutron port that is gone and had one link at most (if  *)
(* all requests succeeded).                                                 *)
DeletedPortsReset ==
    Idle /\ faults = 0 => \A s \in Slots :
       LET p == slots[s].owner IN p \in live \cup {NoPort} \/ Len(links[p]) > 1

(* No hook of one port changes a switch port that another live port links   *)
(* and that has been configured for it: port_mappings never points at       *)
(* what is somebody else's by now (if all requests succeeded).              *)
NoForeignReset ==
    [][faults' = 0 => \A s \in Slots, q \in Ports :
          slots[s].owner = q /\ q \in live /\ s \in SlotsOf(links[q]) /\ slots'[s] # slots[s]
             => \A w \in Threads : task'[w] # task[w] => task[w].port = q]_vars
=============================================================================

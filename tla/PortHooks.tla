----------------------------- MODULE PortHooks ------------------------------
(***************************************************************************)
(* The port hooks of the mechanism driver (unifi_mech.py, create_port_,     *)
(* update_port_ and delete_port_postcommit) up to the switch port, which    *)
(* PortBinding models: DNS records first, then _authorize_port_slaac_       *)
(* addresses, which adds the port's SLAAC addresses to its allowed address  *)
(* pairs by another update of the port.  That update runs the update hook   *)
(* inside the running one, which has nothing left to do behind it.          *)
(***************************************************************************)
EXTENDS DnsRecords, FiniteSets, Functions

CONSTANTS
    SlaacOf,     \* a port's SLAAC address in the subnet of a fixed address: none
                 \* if that subnet is an IPv4 one, has no gateway or is not a /64,
                 \* or if the port's network is not a VLAN network
    Settings,    \* names, addresses and pairs that users may give to each port
    NoAddr,
    MaxOps       \* bound on changes by users

ASSUME PortHooksAssumption ==
    /\ NoAddr \notin Addrs
    /\ SlaacOf \in [Ports -> [Addrs -> Addrs \cup {NoAddr}]]
    /\ Settings \in [Ports -> SUBSET Port]
    /\ NoHook \notin Hook
    /\ MaxOps \in Nat

VARIABLES
    live,       \* Neutron: ports that exist ...
    born,       \* ... and those that ever did
    port,       \* Neutron: name, fixed addresses and allowed pairs of each
    asked,      \* history: pairs that users asked for
    skipped,    \* history: ports whose SLAAC addresses a failure left out
    crossed,    \* history: ports that two hooks worked on at a time ...
    contended,  \* ... and names that two hooks or two ports had at a time
    ops

dbVars == <<live, born, port, asked, ops>>
vars == <<records, pc, hook, left, hits, botched, faults,
          live, born, port, asked, skipped, crossed, contended, ops>>

Init ==
    /\ DnsInit
    /\ pc = [w \in Threads |-> "idle"]
    /\ hook = [w \in Threads |-> NoHook]
    /\ live = {} /\ born = {}
    /\ port = [p \in Ports |-> [name |-> NoName, ips |-> <<>>, pairs |-> {}]]
    /\ asked = [p \in Ports |-> {}]
    /\ skipped = {} /\ crossed = {} /\ contended = {}
    /\ ops = 0 /\ faults = 0

Others(w) == {x \in Threads \ {w} : hook[x] # NoHook}

NamesOf(h) == {h.old, h.state.name} \ {NoName}

(* History: who else is at work on this port, or on or behind its names.    *)
Watch(w, h) ==
    /\ crossed' = IF \E x \in Others(w) : hook[x].port = h.port
                  THEN crossed \cup {h.port} ELSE crossed
    /\ contended' = contended \cup
          (NamesOf(h) \cap ((UNION {NamesOf(hook[x]) : x \in Others(w)})
                            \cup {port[q].name : q \in live \ {h.port}}))

(* The change is in Neutron's database, and thread w runs the hook of it.   *)
Commit(w, op, p, new) ==
    LET h == [op |-> op, port |-> p, old |-> port[p].name, state |-> new]
    IN /\ Begin(w, h) /\ Watch(w, h)
       /\ port' = [port EXCEPT ![p] = new]
       /\ UNCHANGED <<records, botched>>

-----------------------------------------------------------------------------
(* Changes made by users.  The thread of a request runs its hook to the end.*)

UserStep(w) == pc[w] = "idle" /\ ops < MaxOps /\ ops' = ops + 1 /\ UNCHANGED faults

CreatePort(w, p, new) ==
    /\ UserStep(w) /\ p \notin born
    /\ Commit(w, "create", p, new)
    /\ live' = live \cup {p} /\ born' = born \cup {p}
    /\ asked' = [asked EXCEPT ![p] = new.pairs]
    /\ skipped' = skipped \ {p}

(* An update that does not name the pairs leaves them as they are.          *)
UpdatePort(w, p, new, named) ==
    /\ UserStep(w) /\ p \in live
    /\ Commit(w, "update", p, IF named THEN new ELSE [new EXCEPT !.pairs = port[p].pairs])
    /\ asked' = IF named THEN [asked EXCEPT ![p] = new.pairs] ELSE asked
    /\ skipped' = skipped \ {p}
    /\ UNCHANGED <<live, born>>

DeletePort(w, p) ==
    /\ UserStep(w) /\ p \in live
    /\ Commit(w, "delete", p, port[p])
    /\ live' = live \ {p}
    /\ UNCHANGED <<born, asked, skipped>>

-----------------------------------------------------------------------------
(* _authorize_port_slaac_addresses.  It works on the port as the hook was   *)
(* shown it, and swallows its failures.                                     *)

AuthorizeOver(w) == Goto(w, "idle") /\ UNCHANGED <<left, hits>>

AuthorizeFailed(w) == skipped' = skipped \cup {hook[w].port} /\ AuthorizeOver(w)

(* Mutant: the pairs of the port are not looked at. *)
NewPairsAgain(p, s) == {SlaacOf[p][a] : a \in Range(s.ips)} \ {NoAddr}

NewPairs(p, s) ==
    {SlaacOf[p][a] : a \in Range(s.ips)} \ ({NoAddr} \cup s.pairs \cup Range(s.ips))

(* plugin.get_subnets *)
Subnets(w) ==
    /\ pc[w] = "subnets"
    /\ \/ /\ IF NewPairs(hook[w].port, hook[w].state) = {} THEN AuthorizeOver(w)
             ELSE Goto(w, "authorize") /\ UNCHANGED <<left, hits>>
          /\ UNCHANGED <<skipped, faults>>
       \/ Fault /\ AuthorizeFailed(w)
    /\ UNCHANGED <<records, botched, dbVars, crossed, contended>>

(* Mutant: the new pairs replace the old ones. *)
AuthorizedOnly(h) == [port[h.port] EXCEPT !.pairs = NewPairs(h.port, h.state)]

(* The update names the pairs alone; other fields stay what they are now.   *)
Authorized(h) == [port[h.port] EXCEPT !.pairs = h.state.pairs \cup NewPairs(h.port, h.state)]

(* Mutant: the update that the hook makes runs no hook. *)
AuthorizeQuietly(w) ==
    /\ pc[w] = "authorize"
    /\ IF hook[w].port \in live
       THEN port' = [port EXCEPT ![hook[w].port] = Authorized(hook[w])]
       ELSE UNCHANGED port
    /\ AuthorizeOver(w)
    /\ UNCHANGED <<records, botched, live, born, asked, ops, skipped, crossed, contended, faults>>

(* plugin.update_port: the port may be gone, and then the update fails.     *)
Authorize(w) ==
    /\ pc[w] = "authorize"
    /\ LET h == hook[w] IN
          \/ /\ h.port \in live
             /\ Commit(w, "update", h.port, Authorized(h))
             /\ UNCHANGED <<live, born, asked, ops, skipped, faults>>
          \/ /\ h.port \notin live
             /\ AuthorizeOver(w)
             /\ UNCHANGED <<records, botched, dbVars, skipped, crossed, contended, faults>>
          \/ /\ Fault /\ AuthorizeFailed(w)
             /\ UNCHANGED <<records, botched, dbVars, crossed, contended>>

(* A process dies with its hook: nothing of what it had left is done.       *)
Die(w) ==
    /\ hook[w] # NoHook /\ Fault
    /\ Goto(w, "idle")
    /\ left' = [left EXCEPT ![w] = <<>>] /\ hits' = [hits EXCEPT ![w] = {}]
    /\ botched' = botched \cup NamesOf(hook[w])
    /\ skipped' = skipped \cup {hook[w].port}
    /\ UNCHANGED <<records, dbVars, crossed, contended>>

DnsWork(w) == DnsStep(w) /\ UNCHANGED <<dbVars, skipped, crossed, contended>>

HookStep(w) == DnsWork(w) \/ Subnets(w) \/ Authorize(w)

Next ==
    \E w \in Threads :
       \/ HookStep(w) \/ Die(w)
       \/ \E p \in Ports :
             \/ \E new \in Settings[p] :
                   CreatePort(w, p, new) \/ \E named \in BOOLEAN : UpdatePort(w, p, new, named)
             \/ DeletePort(w, p)

Spec == Init /\ [][Next]_vars

(* Requests are answered, so a hook that can go on does.                    *)
FairSpec == Spec /\ \A w \in Threads : WF_vars(HookStep(w))

-----------------------------------------------------------------------------
(* Type invariant of the ports and the hooks.                               *)
TypeOK ==
    /\ DnsTypeOK
    /\ pc \in [Threads -> {"idle", "find", "delete", "look", "write", "subnets", "authorize"}]
    /\ hook \in [Threads -> Hook \cup {NoHook}]
    /\ \A w \in Threads : hook[w] = NoHook <=> pc[w] = "idle"
    /\ live \subseteq born /\ born \subseteq Ports
    /\ port \in [Ports -> Port]
    /\ asked \in [Ports -> SUBSET Addrs]
    /\ skipped \subseteq Ports /\ crossed \subseteq Ports /\ contended \subseteq Names
    /\ ops \in 0..MaxOps /\ faults \in 0..MaxFaults

Idle == \A w \in Threads : pc[w] = "idle"

Settled(n) == n \notin contended \cup botched

(* configuration.rst: a record with the name of a port points at its        *)
(* address.  When no hook runs, a live port's name has exactly one record,  *)
(* with one of the port's addresses (no request failed, and nobody else     *)
(* had the name at the same time).                                          *)
NamesResolve ==
    Idle /\ Enabled => \A p \in live :
       LET n == port[p].name IN
          n # NoName /\ Settled(n) /\ port[p].ips # <<>> =>
             \E i \in Rids : Named(n) = {i} /\ records[i].addr \in Range(port[p].ips)

(* delete_port_dns_records: when no hook runs, a name with a record is the  *)
(* name of a live port (with the same provisos).                            *)
NoStaleRecords ==
    Idle => \A n \in Names : Settled(n) /\ Named(n) # {} => \E p \in live : port[p].name = n

(* When no hook runs, every SLAAC address of a live port is one the port    *)
(* may use, however the hooks of the port overlapped: each update that adds *)
(* pairs is checked by a hook of its own.                                   *)
SlaacAuthorized == Idle => \A p \in live \ skipped : NewPairs(p, port[p]) = {}

(* A hook never takes a pair away that a user asked for, unless another     *)
(* hook of the same port was at work.                                       *)
AskedPairsKept == \A p \in live \ crossed : asked[p] \subseteq port[p].pairs

(* The update hook inside the hook comes to an end: an address that has     *)
(* been authorized is not authorized again.  So, as users stop making       *)
(* changes (MaxOps), all hooks return.                                      *)
HooksReturn == <>[]Idle

(* configuration.rst:71 "Supports both IPv4 (A records) and IPv6 (AAAA      *)
(* records)": every address of a named port has a record.                   *)
EveryAddressResolves ==
    Idle => \A p \in live :
       port[p].name # NoName /\ Settled(port[p].name) =>
          Range(port[p].ips) \subseteq {records[i].addr : i \in Named(port[p].name)}
=============================================================================

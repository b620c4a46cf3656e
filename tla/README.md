# A TLA+ model of the UniFi ML2 mechanism driver

`unifi_ml2_driver` is a Neutron ML2 mechanism driver. It mirrors Neutron's VLAN
networks and subnets as *networkconf* objects of a UniFi controller, keeps NAT66
masquerade policies for tagged IPv6 subnets, configures switch ports for
bare-metal ports, and writes DNS records. This directory models it in TLA+,
checks the models with TLC and proves theorems about them with TLAPS.

    tlc -workers 2 -config Converges.cfg MCNetworkSync
    tlapm NetworkSyncProofs.tla

Paths and line numbers are those of `src/`; a bare line number is one of
`unifi_ml2_driver/unifi_mech.py`.

## 1. The system

### Who acts

* **Hooks.** ML2 commits a change to Neutron's database and then calls the
  driver's `*_postcommit` hook in the thread that serves the API request. Threads
  and neutron-server processes run hooks at the same time; no hook takes a lock.
* **The pass.** `_sync_networks` (197-344), called for ever by a fixed-interval
  looping call when `sync_startup` is set (157-160) and the connection test of
  `initialize()` succeeded (126-134). It lists Neutron's networks,
  reads the controller once, repairs each network and each of its subnets, and
  then deletes objects and policies whose network or subnet is gone.
* **The controller.** It stores objects. A write is a PUT of a *whole* object, or
  of a switch's whole override table, so every writer that builds its PUT from an
  old copy writes old fields back.
* **People**, who edit the same objects in the UniFi UI, and Neutron's tag API,
  which calls no hook at all.

A hook and a pass wait for an answer at every request. Those are the points where
others run, so a step of the models is one request with the code up to the next.

### Inventory

| component | state it keeps | operations | hard behaviour | what makes it correct |
|---|---|---|---|---|
| network and subnet mirroring (197-386, 689-1457) | networkconf objects; the copy a hook or pass holds; the pass's cache and listing | network and subnet hooks, `_reconcile_network`, `_reconcile_subnet`, zone, IPv4 disablement, `_cleanup_orphaned_networks` | hooks race with the pass; stale copies written back; lost answers; crash between two requests; manual drift | what people made is not touched; a live network keeps its object; drift and lost hooks are repaired; orphans go |
| NAT66 policies (244-278, 311-341, 388-673; `nat_policy.py`) | policies; the list of the pass, edited as the pass goes | list, resolve egress, create, update, remove, cleanup, `rule_index` retry | list stale for a whole pass; create without an answer; partial pass before a cleanup; index collisions | one policy per subnet; others' policies untouched; a tagged subnet keeps its policy, an untagged one loses it |
| switch ports (1564-2073) | override table of each switch; `port_mappings` in memory | port hooks, `_configure_port`, `_unconfigure_port` | whole-table PUT; one mapping for many links; mapping lost in a restart; retries | linked switch ports are configured, those of deleted ports reset, others left alone |
| port binding (1786-1869) | none | `bind_port`, `_is_switch_supported` | read-only | reports VLAN segments of known switches |
| SLAAC addresses (1459-1549) | `allowed_address_pairs` in Neutron | `_authorize_port_slaac_addresses` | read-modify-write of another component's field from the port as the hook was shown it; the update runs the update hook inside the hook | every SLAAC address ends up authorized; users' pairs survive; the hooks return |
| DNS records (`dns_handler.py`) | records, found by name only | create, update, delete | lookup and write are two requests; shared names, dual-stack ports, partial deletion, swallowed failures | a port's name has one record with its address; nothing stays behind |
| pool lock (`locking.py`) | the rest of a generator of names, per object; locks of the tooz coordinator | enter, exit | timeout or retry for ever; death inside; failed release or lost answer; lock given away under its holder; re-entry of one object | at most pool-size holders; a dead holder's place comes back; a place is never given back twice; whoever tries gets in or gives up |
| trunk driver (`trunk_driver.py`, 2075-2106) | none | subport callbacks | handler and driver call each other with different payloads | callbacks return |
| controller connection (`unifi_api.py`, 162-195) | event loop per hook | login, error translation | loop of an OS thread shared by greenthreads | failures surface as exceptions |
| configuration, exceptions | options | declarations | | |

`PROJECT.json` has this list with what is modelled of each, and every hazard of
the code at its line, with the properties that speak of it.

## 2. Modules

| module | what it is |
|---|---|
| `NetworkSync`, `MCNetworkSync` | network and subnet mirroring: hooks, pass, users, faults; its small instances for TLC |
| `Mirror` | abstract: what mirroring promises; the hooks of `NetworkSync` implement it |
| `NetworkSyncProofs` | its type invariant and a safety invariant, proved |
| `HooksAloneProofs` | two more safety invariants and the refinement of `Mirror`, proved for hooks that run alone |
| `Nat66`, `MCNat66` | the policy part of the pass |
| `Nat66Proofs` | its type invariant, a safety invariant and three action properties, proved |
| `PortBinding`, `MCPortBinding` | switch port configuration |
| `PortBindingProofs` | its type invariant, proved |
| `SwitchPortProofs` | its two safety invariants and its action property, proved for one thread |
| `DnsRecords` | DNS records of ports, one request per step |
| `PortHooks`, `MCPortHooks` | the port hooks: `DnsRecords` composed with the SLAAC authorization and the hook inside the hook |
| `PortHooksProofs` | its type invariant, a safety invariant and an action property of the SLAAC authorization, proved |
| `PortNamesProofs` | its two safety invariants of the DNS records, proved |
| `PoolLock`, `MCPoolLock` | the pool lock |
| `CountingLock` | abstract: a lock with a number of places; `PoolLock` implements it |
| `PoolLockProofs` | its type invariant, its limit and the refinement, proved |

### NetworkSync

| model | code |
|---|---|
| `neutron` | Neutron's networks and subnets; changed in the step that starts a hook, since ML2 calls *post*commit hooks |
| `unifi` | the controller's networkconf objects: name, VLAN, firewall zone, IPv4 section, IPv6 section |
| `pc[p]`, `job[p]` | the next request of a hook thread or of the pass, and what it was told |
| `obj[p]`, `raw[p]` | the networkconf the process looked up and its `raw` dictionary: what its next PUT is built from |
| `cache`, `listed`, `todo`, `subs`, `orphans` | `controller.networks`, `vlan_networks` and the loops of the pass |
| `claimed` | history: VLANs Neutron has ever used, for stating properties |

Actions follow the code in order. `Find`/`Post`/`Rename`/`Refind`/`AssignZone`/
`ReadV4Subnets`/`DisableV4` are `_reconcile_network` and what it calls, shared by
hooks and pass as in the code: the pass comes in through `NextNetwork`, whose lookup
is in the cache (`refresh=False`) and therefore no request. `FindOld`/`DeleteOld`
are the update hook, `FindDoomed`/`UnassignZone`/`Delete` the delete hook;
`NextOrphan` enters the same two requests for the cleanup.
`FindForSubnet`/`PutSubnet` and `FindToClear`/`ClearSubnet` are the subnet hooks.
`Get` and `Put` say what can become of a request: answered, failed, or (a write)
applied with the answer lost. `Raise`, `Leave` and `Goto` are how the code goes on,
and encode which exceptions each caller swallows. When a create hook raises, ML2
deletes the resource and thereby runs the delete hook; after a failed update hook
the resource stays as updated. A crash drops what a process holds.

The pass is a process with a boot. `Connect` is the connection test of `initialize()`
(126-134): if it succeeds the looping call is started (`idle`, between two passes), if
it fails there is no loop (`off`), and nothing tries again before the server restarts.
`CrashSync` is that restart, from any of these, and comes to the test again (`Boot`).
Without `sync_startup` there is no loop from the start.

The IPv4 section has four states: `factory` (what a new networkconf gets: DHCP
and auto-scale on), `synthetic` (what `_reconcile_ipv4_disablement` writes),
`subnet`, and `cleared` (DHCP off after a subnet is deleted). Clearing leaves a
synthetic section as it is, because all fields it writes are off already.

Left out: names are <<VLAN, network>> pairs, so that two networks whose ids share
the truncated prefix (1267-1280) are not confused; networks that are not of type
vlan, which every hook ignores; the content of DHCP ranges and DNS servers. After
`controller.networks.update()` the client's list is taken to be the controller's:
nothing in `src/` says what it does with an entry that has vanished, and the
comment at 1339-1344 relies on the list being current.

**Mirror.** `want` is the VLAN each network should have an entry for, `have` the
entries there are, `busy` the networks somebody is at work on. Work on a network
starts with a change and ends only in a state in which its entries agree with what
is wanted. `Mirroring` in `NetworkSync` maps `have` to the networkconf objects that
carry the driver's names, and `busy` to the networks of running network hooks;
every step of a hook must then be a step of `Mirror`.

### Nat66

The pass again, seen from the policies: `StartPass`, `Refresh` (names of uplinks and
tunnels), `ListPolicies`, then per network and subnet `NextNet` and `NextSubnet`,
which ends in one of four branches: the subnet is skipped because something before
failed, there is nothing to do, a policy is to be written (`Write`, one attempt of
the retry loop per step), or one is to be removed (`Remove`). `StartCleanup` and
`DeleteOrphan` are `_cleanup_orphaned_nat66_policies`. `snap` is the list of the
pass, which a create appends to and a removal takes from, and nothing else
updates; `known` is `known_tagged_subnet_ids`. GET may leave rule indexes out, as
the comments at 563-574 report, so a policy in the list may show `NoIndex`.

A policy is its description, egress and index, and whether the rest (enabled,
source address) is right. Meanwhile users create, tag, untag and delete
subnets, and people add, disable, reroute and delete policies and take uplinks away
and bring them back (a name stands for the id behind it, so a policy stays right
across that). IPv4 subnets get no policy and are left out; the networkconf requests of the same pass
appear only as a place where a network or subnet may be skipped.

### PortBinding

`slots` holds each switch port's native network and the port it is named for,
`mapping` is `port_mappings` of each process. A hook's work on one switch port is
`Look` (networks and devices lists; only the latter is kept, as `seen`) and `Put`
(one attempt). `Aim` says what the loop over `local_link_information` does next: in
the update hook a mapping to some other switch port is reset first. `Over` and
`GiveUp` distinguish `_configure_port`, which raises, from `_unconfigure_port`, which
swallows. The client request takes the device and one override, so the PUT carries
the table as it was looked up with one entry replaced (`Overridden`, external).
Users give a switch port to one live Neutron port at a time.

`failed` and `hurt` are histories: a port whose last hook raised, and a port whose
switch port a later hook of such a port has reset.

Left out: `bind_port` (reads only), translation of port names to numbers, storm
control and port security fields. The DNS and SLAAC calls at the start of the same
hooks are in `PortHooks`; they swallow all failures and share no state with the
switch ports, so the two modules are kept apart.

### DnsRecords and PortHooks

`DnsRecords` is `dns_handler.py`. A hook has a name to drop (`Drop`: the port is
deleted or its name changed) and a name to keep (`Keep`). `Find` lists the records of
the first, `Delete` deletes one of them; `Look` lists the records of the second for
the next address in `left`, and `Write` posts a record or puts the first that was
found (`hits`). Any failure, and deleting or updating what is gone meanwhile, skips the
rest of the name's work and no more (`DropFailed`, `KeepFailed`). The controller may
list records in any order, so "the first" is any record of the name.

`PortHooks` adds the changes by users, each of which starts a hook with the port as
ML2 shows it (`hook`), and what follows the DNS work of a create or update hook:
`Subnets` (`get_subnets` and the choice of new pairs) and `Authorize`, the
`plugin.update_port` that commits the pairs and runs the update hook for them. The
outer hook has nothing left to do then, so the inner hook takes its place. `Die` is
the end of a process in the middle of a hook. Histories: `asked` is the last value
users gave to a port's pairs; `skipped`, `botched`, `crossed`, `contended` record
whose authorization was left out, on whose name a request failed, which ports two
hooks worked on at a time, and which names two ports or hooks had at a time.

Left out: the arithmetic of `_eui64_address` (the constant `SlaacOf`), record types
(A or AAAA goes with the content), and changes of a network's `dns_domain`.

### PoolLock

`Enter`, `Grab`, `Miss` and `Exit` follow `__enter__` and `__exit__`; one attempt is
one step. `given` counts the names that the generator made in `__init__` has given:
with `Renew` each `with` statement has an object of its own, without it one object is
entered again. `owner` is whom the coordinator holds each lock for.

What can go wrong with a call is in the action of the call: in `Miss` the coordinator
fails, maybe after it has given the lock (the answer is lost, and the thread goes on
trying while it owns a lock it does not know of); in `Exit` `release()` may raise, and
the thread leaves while the lock stays with it. `Die` ends the process of a thread at
any stage: its locks become those of a member that is gone (`Dead`), and `Expire` is
tooz freeing these. `Evict` is tooz freeing the lock of a *live* member whose heartbeat
came late. The thread inside does not notice, and its release later frees nothing, even
if the name has another owner by then (`Released`). `evictions` counts them.

`CountingLock` says what this comes to: a user waits, is in, or strays (inside without a
place); a place is lost by a death, a failed release or a lost answer, at most one for
each, and may be found again.

## 3. Runs

Every bound is a constant of the module: `MaxOps` changes by users, `MaxFaults`
failed requests or crashes. "Violated" runs are the findings of section 5.

| run | what it shows |
|---|---|
| `NetworkSync` | `CleanupSparesListed`: with one hook thread beside the pass and no failures, the cleanup never deletes the object of a network that was in the pass's listing and kept its VLAN. Two networks, two VLANs, three changes, zone set: enough for delete, create on the same VLAN and a rename under a running pass. |
| `HooksAlone` | `HooksMirror`, `HooksServeNoStaleSubnet`: hooks alone (`sync_startup` off), one at a time, requests succeed, up to six changes, both IP versions, and a hand-made object on either of the two VLANs: whenever none is running the controller is exactly Neutron's mirror. `ImplementsMirror`: on the way there, too, every step is one of `Mirror`. The historic bug described at 777-786 is a mutant of both. |
| `Converges` | `NetworksMirrored`, `OrphansRemoved`, `OnlySubnetServed` under fairness, on a server whose loop was started (`Looping`), with manual renames and deletions, two changes and two faults anywhere (enough for a restart whose connection test fails); and `HandMadeUntouched` under the same, with a hand-made object and an external network that hooks ignore. Three networks, two VLANs, four uids. |
| `CleanupLive`, `DualStack` | violated |
| `Nat66` | `OnePolicyPerSubnet`, `ManualPoliciesUntouched`, `DescriptionKept`, `CleanPassDeletesGoneOnly` (while no request has failed, the cleanup deletes policies of subnets that are gone only), and under fairness `TaggedSubnetsMasqueraded`, `UntaggedSubnetsCleared` (for a loop that was started: `Nat66` begins there): two subnets on two networks, one with an egress tag, two WANs and a tunnel, three changes, one fault. |
| `Nat66PartialPass` | violated: the same without the condition, with one failure |
| `SwitchPorts` | `LinksConfigured`, `DeletedPortsReset`, `NoForeignReset`: four ports, one with two links, moved among three switch ports on two switches, in one process and thread, seven changes, three failures or restarts, two attempts per PUT. A hook that returned normally did its work even then; the other two properties are stated for histories without failures. |
| `LinkReplaced` | violated |
| `PortHooks` | `NamesResolve`, `NoStaleRecords`, `SlaacAuthorized`, `AskedPairsKept`, and under fairness `HooksReturn`: two ports that may have the same name, one of them renamed and moved to another subnet, two threads, three changes, one fault. The first two speak of names on which no request failed and which no two ports or hooks had at a time; `SlaacAuthorized` excepts ports whose last hook failed, `AskedPairsKept` ports on which two hooks overlapped. Two threads and three changes are what it takes for one hook to overtake another of the same port and for a name to be handed on. |
| `DnsDualStack` | violated |
| `PoolLock` | `AtMostPoolSize` (the pool size, plus one for each lock given away under a live member), `ImplementsCountingLock`, and under fairness `TryingEnds`: three threads for two names, one of the threads with a timeout, two `with` statements each, two failed calls, failed releases, lost answers or deaths, one eviction; every `with` statement uses an object of its own. Two faults are enough for all names to be leaked, one eviction for a stray whose name has a new owner. |

`TypeOK` is checked once per module. Every property of a passing run has a mutant:
an operator beside the one it replaces, with a plausible bug, under which TLC finds
the property violated.

**Limits that matter.** `CleanupSparesListed` is a property of one hook thread
without failures. With two, a create hook of a network that has been deleted
meanwhile can rename the object on its VLAN back while the pass decides by the name
it cached, and the property fails; so it does when a failed request leaves the
cache old. `SwitchPorts` replaces no single link of a port with several and has one
thread: section 5 says what happens otherwise. In `Nat66` there are more attempts (4)
than policies, as the code's 50 are meant to be. `NamesResolve` and
`NoStaleRecords` except names on which a request failed (nothing repairs them) and
names that two hooks or ports had at the same time: there the records are whatever
the last writer left, and a test of the exception shows each property false without
it. `SlaacAuthorized` needs no such exception for overlapping hooks.

`CHECK_DEADLOCK FALSE` is set where the loop does not run (`HooksAlone`) or there is
none (`PortBinding`, `PortHooks`, `PoolLock`): when users are done, these systems
rest. So does `NetworkSync` when a connection test may fail (`Converges`).
Everywhere else the looping call keeps the model going, and deadlock is checked.

**Fairness.** `FairSpec` lets the pass go on (`WF_vars(SyncStep)`, `WF_vars(Pass)`)
and each hook thread too: requests have a client timeout and the looping call starts
the next pass after any return of the last, which the outer `try` (219, 343)
guarantees. That takes a looping call that was started, and `initialize()` starts none
when its connection test fails (126-134). In `NetworkSync` this is a step of the model
(`Connect`) and not a matter of fairness: nothing is enabled for the pass at `off`, and
the three liveness properties say what holds where `Looping` does (section 5 says what
happens where it does not). `Nat66` starts behind the test: its two liveness properties are those of a server
whose loop runs. In `PortHooks` each hook goes on (`HookStep`), for the same reason. In
`PoolLock` the retry of tenacity goes on (`Grab` or `Miss`), the body of a `with`
statement ends (`Exit`), and the coordinator drops members that are gone (`Expire`);
fairness of `Grab` alone is *not* assumed, since nothing lets a thread find a lock
free, nor of a release that succeeds. `TryingEnds` holds because entries are finitely
many; where every name is held for a live member that has no use for it (`AllLeaked`)
a thread without a timeout tries for ever, and the property says that this is the only
way. Nothing is assumed about
users or faults, which are finitely many too; liveness properties have the form
<>[](...), or say that what has begun ends.

## 4. What is proved

`NetworkSyncProofs` proves, for every value of the constants (any number of
networks, VLANs, uids and hook threads, any setting of the options, any bound):

* `TypeCorrect`: `Spec => []TypeOK`
* `HandMadeSafe`: `Spec => []HandMadeUntouched`. An object people made on a VLAN
  that Neutron has never used stays as it is, whatever hooks, the pass, failures
  and crashes do.

The only assumption is `NetworkSyncAssumption`, which TLC evaluates in every run.
`HandMadeUntouched` is not inductive: a process about to write might hold the uid of
such an object. `IInv` adds where processes get their uids from.

* `ProcInv`: what a process holds (types; the object it is going to write exists in
  its hands; the VLAN it works on has been claimed; a held copy is one whose VLAN
  is claimed).
* `StoreInv`: an object that is on an unclaimed VLAN is a hand-made one and
  unchanged, and the driver's names are only on claimed VLANs.
* `PassInv`: the same of the cache and of the cleanup's list, and a listed network's
  VLAN is claimed.

There is one lemma per action; the step lemma combines them, and the two theorems
follow by PTL. `claimed` only grows, which is why a VLAN read long ago still
justifies a write.

`HooksAloneProofs` proves, for any networks, VLANs, uids and versions and any number of changes:

* `ObjectsMirrored`: `Alone => (Spec => []HooksMirror)`
* `NoStaleSubnets`: `Alone => (Spec => []HooksServeNoStaleSubnet)`
* `Implements`: `Alone => (Spec => ImplementsMirror)`

`Alone` says what the three need, and the `HooksAlone` instance satisfies it:

* `OneThread`: hooks take no lock, and of two that overlap one may write back or delete
  what the other has just written.
* `Quiet`: no failed request, no pass, no drift. A failed hook is not run again, so
  only the pass can repair what it left (`Converges` checks that it does).
* No external network, because the update hook mirrors those too (section 5).
* `OneByHandPerVlan`: a hook adopts the first object that it finds on its VLAN, so a
  second one would stay there beside the network's own.
* `NoneServes6`: an adopted object keeps its IPv6 section, which no hook but that of an
  IPv6 subnet ever writes. Its IPv4 section is taken care of by the IPv4 disablement.

The properties speak of moments without hooks; the invariant `AInv` says what is true
in the middle of one. `Store`: a VLAN has one object at most, and an object either has
no name of the driver's, or one for the VLAN it is on. `LiveApart`: no two live networks
share a VLAN. `Settled`: a network that no hook works on has exactly the entry it should
have, and serves no version without a subnet. `Work` says for each phase of a hook which
entry its network still has: that of the old VLAN while the update hook is `Leaving` it,
none while the network is `Coming`, that of its VLAN while a hook is `Finishing`,
`Serving`, `Clearing` or `Going`; further, that the copy a hook `Holds` agrees with the
object in all but the zone, so that a PUT of the whole object changes only what the hook
means to change, and which IP versions are already `InOrder`. `AInv` contains the
invariant of `NetworkSyncProofs`, which gives the types.

For the refinement `EntriesMove` sums a hook's step up: the entries of its network stay,
get the one wanted, or lose one not wanted, and when the hook ends the network is
settled. All other networks are settled before and after, so `HaveMap` changes in the
hook's network only (`HookMirrors`); a user's change moves `want` for one network and
makes it busy (`UserMirrors`).

`PortHooksProofs` proves, for any number of ports, threads, names and addresses:

* `TypeCorrect`: `Spec => []TypeOK`
* `Authorizes`: `Spec => []SlaacAuthorized`
* `KeepsAskedPairs`: `Spec => []AskedPairsKept` (for ports on which no two hooks
  overlapped)

The assumptions are `DnsAssumption` and `PortHooksAssumption`. `SlaacAuthorized` speaks of
moments without hooks. `Awaited` says why it holds at these: a live port with an
address that is not authorized has a running hook that was shown the port *as it is
now*. Such a hook exists from the commit on, whatever older hooks of the port write
over it, because each of their writes starts a new hook. `UpToDate` says that a hook
alone with its port knows it as it is, which is why its update keeps the pairs users
asked for. `Unspent` (a hook that has not come to the name to keep has all addresses
left) makes types inductive. One lemma covers all commits (`ChangeInv`) and one all
steps of a hook that commit nothing (`MovesInv`).

`PortNamesProofs` proves, under the same assumptions:

* `PortNamesResolve`: `Spec => []NamesResolve`
* `NoneStale`: `Spec => []NoStaleRecords`

The second is about names: one that has a record is the name of a live port. Both
except names on which a request failed or which two ports or hooks had at a time, and
both speak of moments without hooks, so the invariant says what a running hook
has still to do. The records of a name that nobody else ever had (`OneOwner`) and on
which no request failed are those of the port's addresses, except for what the
port's hook has still to write (its `left`) or to drop (`NameInv`); a hook alone with
its port knows the port as it is (`Current`), one that was overtaken is marked in the
histories (`Switched`), and what a hook found and will write over or delete is still
there (`Held`, `Remaining`). The invariant of `PortHooksProofs` gives the types.

`Nat66Proofs` proves, for any networks, subnets, tags, uplinks, policies and
indexes, from `Nat66Assumption` and `AbsentIsNoRecord` (the value for "no policy" is not
a policy):

* `TypeCorrect`: `Spec => []TypeOK`
* `OnePolicy`: `Spec => []OnePolicyPerSubnet`
* `ManualSafe`, `KeepsDescription`: no step of the pass changes a policy of others,
  or any policy's description
* `CleanPass`: `Spec => CleanPassDeletesGoneOnly`

`OnePolicyPerSubnet` rests on the pass's list. `ListComplete`: of a subnet that the pass
has still to come to (`Ahead`), all policies are in `snap`. So a create that is
answered with an error does no harm: its policy is not in the list, but the pass does
not come back to that subnet. `Created` (only subnets that have been created have
policies) covers subnets made during a pass, and `OneEach` of the list makes the policy
that is found the only one. `Aimed` and `SameSubnet` say that the policy a write or
removal is aimed at belongs to the subnet in work, whatever people do to it meanwhile;
`Condemned`, that what the cleanup is going to delete has a description of the
driver's; `Accounted`, that without a failure the subnet of a listed policy that still
exists is known, gone, or one the pass has still to deal with.

`PortBindingProofs` proves `TypeCorrect`, `Spec => []TypeOK`, for any number of ports, links,
switches, processes and threads, from `PortBindingAssumption` and `NullsAreNoValues`.
`SwitchPortProofs` proves, for any failures, retries and restarts:

* `ConfiguredAsLinked`: `Orderly => (Spec => []LinksConfigured)`
* `ResetWhenDeleted`: `Orderly /\ DefaultListed => (Spec => []DeletedPortsReset)`
* `OthersLeftAlone`: `Orderly => (Spec => NoForeignReset)`

`Orderly` is what the code needs and does not enforce. One thread runs the hooks
(`Lone`); no port replaces a link of several (`LinksMovedWhole`); a port that may be
taken off its links shares its switch ports with no other (`DetachedAlone`); a PUT is
tried at least once. Each is necessary: without one of the first three TLC finds
`LinksConfigured` violated (section 5), without the last nothing is written at all. The
`SwitchPorts` instance satisfies it. The invariant relates `port_mappings` to the
switch ports: what is remembered is a link of the port's own and of nobody else's
(`Remembered`), a link is configured or its hook has still to come to it (`Kept`), the
lookup shows all *other* switch ports of the switch as they are (`Shown`), which is why
writing back the whole table changes one entry, and without failures a switch port
with a port's name is remembered for that port (`Owned`).

`PoolLockProofs` proves, for any number of threads and any pool size, from
`PoolLockAssumption`:

* `TypeCorrect`: `Spec => []TypeOK`
* `PoolLimits`: `Spec => []AtMostPoolSize`
* `Implements`: `Coordinated => (Spec => ImplementsCountingLock)`

A thread inside need not own the lock it has: the coordinator may have given it away.
The invariant counts these threads. `HasLock`: with a coordinator, a thread inside was
given a lock. `StraysEvicted`: the threads inside that do not own theirs are at most as
many as the evictions. The others own theirs, the map from them to their locks is
injective, and a count over the names gives the limit. It holds for failed calls and
releases, lost answers and deaths, since none of these lets a thread in, and it is
the most one can say: an eviction does let one more in. For the refinement each
action is mapped by a lemma: a thread that grabs a name takes a place, since used, lost
and free names add up to the pool. With one object entered again and again (`Renew`
false) the safety theorems hold as well; only `TryingEnds` fails (section 5).

Only model-checked: the liveness properties (`NetworksMirrored`, `OrphansRemoved`,
`OnlySubnetServed`, `TaggedSubnetsMasqueraded`, `UntaggedSubnetsCleared`, `HooksReturn`,
`TryingEnds`), since fairness is out of the prover's reach, and `CleanupSparesListed` of
`NetworkSync`, whose invariant would have to say what a hook and a pass that overlap
know of each other's objects at every pair of steps.

## 5. Where code and documentation disagree

1. `CleanupLive`. The orphan cleanup deletes live networks' objects: it matches the
   controller's current names against a listing made before the controller was read
   (224-237, 364-374), while its docstring (347) speaks of networks "whose Neutron
   network is gone". The next pass makes the object again, without its zone or
   subnets until then.
2. `DualStack`. In the pass every subnet's PUT is built from the copy cached before
   the pass wrote (1442-1453): of two subnets whose hooks were lost one is never
   served.
3. `Nat66PartialPass`. The docstring (651-654) demands a complete set of known
   subnets; the caller passes a partial one after any failure.
4. `LinkReplaced`. `port_mappings` has one link per port, and the update loop takes
   the link it just configured for the old one (1717-1731).
5. `DnsDualStack`. A record is looked for by name alone (`dns_handler.py`, 116), so the
   AAAA record of a dual-stack port overwrites its A record, although the
   documentation says both are supported (`configuration.rst`, 71).

The models have more, without a run of their own:

* One failed connection test in `initialize()` (126-134) leaves a server without a loop
  until it is restarted, though `sync_startup` is set and called the loop's "sole gate"
  (`config.py`, 73-78). Hooks connect on their own and go on, and nothing repairs what
  they lose: without `Looping` in them, the liveness properties of `NetworkSync` fail.
* The name of an object is called the safety boundary for manually created networks
  (350-353), but `_reconcile_network` gives that name to any object it finds on the
  VLAN (1326), and the cleanup deletes it when the network goes. `HandMadeUntouched`
  is therefore about VLANs that Neutron never used.
* Changing the VLAN of an external network mirrors it: the update hook does not look
  at `router:external` (760), which the create hook (705) and the pass (232) do.
* The zone assignment is undone by the next PUT of the same object, which was built
  before it (1348, 1414, 1449); when that is the IPv4 disablement, in the hook, too.
* The synthetic IPv4 subnet ("required, not optional", 1382) is undone by the
  subnet's PUT of the same pass, for the reason of `DualStack`.
* The locks that the documentation describes (`configuration.rst`, 129-160) are
  taken nowhere in the driver, whatever `[ngs_coordination]` says. Two hook threads
  whose ports are on one switch write each other's override away (1962): in
  `SwitchPorts` with two `Threads`, `LinksConfigured` fails.
* When an update hook fails after it has reset the old switch port, `port_mappings`
  still points there. A later hook of that port resets the switch port again, though
  it may be another port's by then (`hurt`).
* A port whose links are all taken away keeps its mapping and its switch port: the
  update hook returns early (1681-1690). When another port has taken the switch port
  meanwhile, deleting or moving the first resets it under the second, with no failure
  anywhere. In `SwitchPorts` a port that may lose its links shares no switch port;
  where it does, `LinksConfigured` fails.
* Deleting a port with two links resets the last one only: the mapping has no room
  for the first.
* A port whose fixed addresses are all removed keeps its DNS record (the handler
  loops over no address, 191); so does one whose network has got another
  `dns_domain`, since every later deletion looks for the new full name (66).
* When a name is handed from one port to another while both hooks run, the first
  port's hook may delete the second port's record (230).
* A `PoolLock` object that is entered again starts behind the names it tried before,
  and has none left in the end (`locking.py`, 48), though its docstring (26-29) says that
  it tries until the timeout is reached: with `Renew` false `TryingEnds` fails.
* `PoolLock` does not learn that the coordinator has given its lock away, and no limit
  holds then (`AtMostPoolSize` counts the evictions); a `release()` that raises (81) and
  an `acquire` whose answer is lost (61) leave a lock with a member that never gives it
  back, and when all are left so, threads without a timeout try for ever.

Read but not modelled: the trunk callbacks. `subports_added` of the driver (2086) hands
the trunk handler a dictionary, the handler reads `payload.states`, and every subport
notification ends in an AttributeError; with that repaired, driver and handler would
call each other for ever. `_configure_port` and `_unconfigure_port` look a named switch
port up with `hasattr` on a dictionary (1913-1916), so a name is never found although
the comment (1908) says it may be one. The docstring of
`_write_nat66_policy_with_retry` starts from "0, or one past the highest value" that
GET reports (570-571); the code starts from the policy's own index or from 0 (597).

## 6. Not modelled

* `bind_port` and `_is_switch_supported` read the controller's devices and report a
  binding; they change neither the controller nor the driver.
* The trunk driver (section 5): no state, no branch, a certain exception.
* A second neutron-server process with a loop of its own: `NetworkSync` has one pass.
* The controller connection: login, translation of errors, and the event loop that
  each hook installs (187). Its failures are the failed requests of all modules.
* A composition of `NetworkSync` and `PortBinding`: switch ports name their network by
  the object's uid, which a pass that makes an object again replaces (1925).
* The content of names, DHCP ranges and addresses (pure formatting, covered by unit
  tests), options, the tempest plugin, devstack and tools.

## 7. Plan

1. The theorem `CleanupSparesListed`, for one hook thread beside the pass.
2. The pass as a set of processes, for the second loop.
3. The composition of switch ports with the objects they name.

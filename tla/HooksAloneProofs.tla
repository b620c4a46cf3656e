-------------------------- MODULE HooksAloneProofs --------------------------
(***************************************************************************)
(* One hook thread alone with the controller mirrors Neutron's networks:    *)
(* for any networks, VLANs and subnets, any number of changes, and any      *)
(* objects that people had made before, one on a VLAN.                      *)
(***************************************************************************)
EXTENDS NetworkSyncProofs

(* What the theorems suppose: hooks do not overlap, no request fails, there *)
(* is no pass and no drift, and no network is external.                     *)
OneThread == \A w, x \in Hooks : w = x
Quiet == MaxFaults = 0 /\ ~ SyncEnabled /\ ~ Drift
OneByHandPerVlan ==
    \A u, x \in Uids :
       HandMade[u] # Absent /\ HandMade[x] # Absent /\ HandMade[u].vlan = HandMade[x].vlan => u = x
NoneServes6 == \A u \in Uids : HandMade[u] # Absent => HandMade[u].v6 # "subnet"

Alone == OneThread /\ Quiet /\ External = {} /\ OneByHandPerVlan /\ NoneServes6

-----------------------------------------------------------------------------
(* The invariant.                                                           *)

On(u, v) == unifi[u] # Absent /\ unifi[u].vlan = v

(* The controller has an entry of the network for the VLAN.                 *)
Has(n, v) == \E u \in Uids : On(u, v) /\ unifi[u].name = DriverName(n, v)

Store ==
    /\ \A u, x \in Uids, v \in Vlans : On(u, v) /\ On(x, v) => u = x
    /\ \A u \in Uids : unifi[u] # Absent =>
          \/ unifi[u].name = ManualName /\ unifi[u].v6 # "subnet"
          \/ \E n \in Nets : unifi[u].name = DriverName(n, unifi[u].vlan)

LiveApart == \A m, n \in Nets : Live(m) /\ Live(n) /\ neutron[m].vlan = neutron[n].vlan => m = n

Off(c, ver) == IF ver = 4 THEN c.v4 \in {"synthetic", "cleared"} ELSE c.v6 \in {"none", "cleared"}

(* What the network's object serves of an IP version is a subnet's.         *)
Clean(n, ver) ==
    Live(n) /\ ver \notin SubnetsOf(n) => \A u \in Uids : Serves(u, n) => Off(unifi[u], ver)

Wants(n, v) == Live(n) /\ neutron[n].vlan = v

Settled(n) ==
    /\ \A v \in Vlans : Has(n, v) <=> Wants(n, v)
    /\ Clean(n, 4) /\ Clean(n, 6)

(* The phases of a hook.                                                    *)
Leaving == {"updFind", "updDelete"}
Coming == {"find", "post", "rename"}
Finishing == {"refind", "zone", "v4read", "v4put"}
Serving == {"subFind", "subPut"}
Clearing == {"clrFind", "clrPut"}
Going == {"delFind", "unassign", "delete"}

Holding ==
    {"updDelete", "rename", "zone", "v4read", "v4put", "unassign", "delete", "subPut", "clrPut"}

(* The VLAN whose object the hook works on.                                 *)
At(w) == IF pc[w] \in Leaving THEN job[w].old ELSE job[w].vlan

(* The looked-up object is there, and the copy shows all of it but its zone.*)
Holds(w) ==
    LET u == obj[w]
    IN /\ u \in Uids /\ On(u, At(w)) /\ raw[w] \in Conf
       /\ raw[w].name = unifi[u].name /\ raw[w].vlan = unifi[u].vlan
       /\ raw[w].v4 = unifi[u].v4 /\ raw[w].v6 = unifi[u].v6

(* The versions whose section is in order by now.                           *)
InOrder(w, ver) ==
    \/ pc[w] \in Finishing /\ ver = 6
    \/ pc[w] \in Serving
    \/ pc[w] \in Clearing /\ ver # job[w].ver

Work(w) ==
    LET j == job[w]
    IN /\ j.net \in Nets /\ j.vlan \in Vlans /\ At(w) \in Vlans
       /\ pc[w] \in Leaving \cup Coming \cup Finishing \cup Serving \cup Clearing \cup Going
       /\ Live(j.net) <=> pc[w] \notin Going
       /\ Live(j.net) => neutron[j.net].vlan = j.vlan
       /\ pc[w] \in Leaving => j.old # j.vlan
       /\ \A v \in Vlans : Has(j.net, v) <=> pc[w] \notin Coming /\ v = At(w)
       /\ pc[w] \in Holding => Holds(w)
       /\ pc[w] = "post" => \A u \in Uids : ~ On(u, j.vlan)
       /\ pc[w] \in Serving => j.ver \in SubnetsOf(j.net)
       /\ pc[w] \in Clearing => j.ver \notin SubnetsOf(j.net)
       /\ pc[w] = "v4put" => 4 \notin SubnetsOf(j.net)
       /\ \A ver \in {4, 6} : InOrder(w, ver) => Clean(j.net, ver)

Busy(w, n) == pc[w] # "idle" /\ job[w].net = n

AInv ==
    /\ IInv /\ pc[Sync] = "off"
    /\ Store /\ LiveApart
    /\ \A n \in Nets : (\A w \in Hooks : ~ Busy(w, n)) => Settled(n)
    /\ \A w \in Hooks : pc[w] # "idle" => Work(w)

-----------------------------------------------------------------------------
(* Facts about states.                                                      *)

Phases == {Leaving, Coming, Finishing, Serving, Clearing, Going}

LEMMA Typed ==
  ASSUME IInv
  PROVE  /\ neutron \in [Nets -> NeutronNet \cup {Unborn, Gone}]
         /\ unifi \in [Uids -> Conf \cup {Absent}]
         /\ pc \in [Procs -> Labels] /\ job \in [Procs -> Job]
         /\ obj \in [Procs -> Uids \cup {NoUid}] /\ raw \in [Procs -> Conf \cup {Absent}]
         /\ \A n \in Nets : Live(n) => neutron[n].vlan \in Vlans
         /\ Hooks \subseteq Procs /\ Sync \in Procs /\ Sync \notin Hooks
  BY NetworkSyncAssumption DEF IInv, ProcInv, StoreInv, Procs, Live, NeutronNet

LEMMA NoFault ==
  ASSUME IInv, Alone
  PROVE  ~ Fault
  BY DEF IInv, StoreInv, Alone, Quiet, Fault

LEMMA PhaseLabels ==
  ASSUME NEW P \in Phases, NEW l \in P
  PROVE  /\ l # "idle"
         /\ l \in Leaving \cup Coming \cup Finishing \cup Serving \cup Clearing \cup Going
         /\ l \in Leaving <=> P = Leaving
         /\ l \in Coming <=> P = Coming
         /\ l \in Finishing <=> P = Finishing
         /\ l \in Serving <=> P = Serving
         /\ l \in Clearing <=> P = Clearing
         /\ l \in Going <=> P = Going
  BY DEF Phases, Leaving, Coming, Finishing, Serving, Clearing, Going

LEMMA FoundIs ==
  ASSUME NEW v, NEW u \in Found(unifi, v)
  PROVE  \/ u = NoUid /\ \A x \in Uids : ~ On(x, v)
         \/ u \in Uids /\ u # NoUid /\ On(u, v) /\ View(unifi, u) = unifi[u]
  BY NetworkSyncAssumption DEF Found, On, View

(* No other network's object is on the VLAN a hook works on.                *)
LEMMA OthersElsewhere ==
  ASSUME AInv, Alone, NEW w \in Hooks, pc[w] # "idle", NEW m \in Nets, m # job[w].net
  PROVE  Settled(m) /\ (Live(m) => neutron[m].vlan # At(w))
  <1> DEFINE n == job[w].net
  <1>1. Work(w) /\ n \in Nets
    BY DEF AInv, Work
  <1>2. Settled(m)
    BY DEF AInv, Busy, Alone, OneThread
  <1>3. ASSUME Live(m), neutron[m].vlan = At(w)
        PROVE  FALSE
    <2>1. CASE pc[w] \in Coming
      <3>1. Live(n) /\ neutron[n].vlan = At(w)
        BY <1>1, <2>1 DEF Work, At, Coming, Leaving, Going
      <3> QED BY <1>1, <1>3, <3>1 DEF AInv, LiveApart
    <2>2. CASE pc[w] \notin Coming
      <3>1. Has(n, At(w)) /\ At(w) \in Vlans
        BY <1>1, <2>2 DEF Work
      <3>2. Has(m, At(w))
        BY <1>2, <1>3, <3>1 DEF Settled, Wants
      <3>3. PICK u \in Uids : On(u, At(w)) /\ unifi[u].name = DriverName(n, At(w))
        BY <3>1 DEF Has
      <3>4. PICK x \in Uids : On(x, At(w)) /\ unifi[x].name = DriverName(m, At(w))
        BY <3>2 DEF Has
      <3>5. u = x
        BY <3>1, <3>3, <3>4 DEF AInv, Store
      <3> QED BY <3>3, <3>4, <3>5 DEF DriverName
    <2> QED BY <2>1, <2>2
  <1> QED BY <1>2, <1>3

(* The object a hook holds is the only one on its VLAN, and but for one it  *)
(* is going to rename it has the network's name.                            *)
LEMMA HeldIs ==
  ASSUME AInv, Alone, NEW w \in Hooks, pc[w] \in Holding
  PROVE  /\ Holds(w) /\ unifi[obj[w]] \in Conf
         /\ \A x \in Uids : On(x, At(w)) => x = obj[w]
         /\ pc[w] # "rename" => raw[w].name = DriverName(job[w].net, At(w))
  <1>1. Work(w) /\ Holds(w) /\ At(w) \in Vlans
    BY DEF AInv, Work, Holding
  <1>2. obj[w] \in Uids /\ On(obj[w], At(w)) /\ unifi[obj[w]] \in Conf
    BY <1>1, Typed DEF Holds, On, AInv
  <1>3. \A x \in Uids : On(x, At(w)) => x = obj[w]
    BY <1>1, <1>2 DEF AInv, Store
  <1>4. pc[w] # "rename" => pc[w] \notin Coming
    BY DEF Coming, Holding
  <1>5. pc[w] # "rename" => raw[w].name = DriverName(job[w].net, At(w))
    BY <1>1, <1>3, <1>4 DEF Work, Holds, Has
  <1> QED BY <1>1, <1>2, <1>3, <1>5

-----------------------------------------------------------------------------
(* The parts of a hook's step.                                              *)

LEMMA SameStore ==
  ASSUME UNCHANGED <<unifi, neutron>>
  PROVE  /\ Store <=> Store'
         /\ LiveApart <=> LiveApart'
         /\ \A u, v : On(u, v)' <=> On(u, v)
         /\ \A n, v : Has(n, v)' <=> Has(n, v)
         /\ \A n : /\ Live(n)' <=> Live(n)
                   /\ SubnetsOf(n)' = SubnetsOf(n)
                   /\ \A ver : Clean(n, ver)' <=> Clean(n, ver)
                   /\ Settled(n)' <=> Settled(n)
  BY DEF Store, LiveApart, On, Has, Live, SubnetsOf, Clean, Serves, Settled, Wants

LEMMA Assemble ==
  ASSUME AInv, Alone, IInv', NEW w \in Hooks, pc[w] # "idle", NEW n \in Nets, n = job[w].net,
         neutron' = neutron, pc'[Sync] = pc[Sync], Store',
         \A m \in Nets \ {n} : Settled(m)',
         \/ pc'[w] = "idle" /\ Settled(n)'
         \/ pc'[w] # "idle" /\ job'[w].net = n /\ Work(w)'
  PROVE  AInv'
  <1>1. LiveApart'
    BY DEF AInv, LiveApart, Live
  <1>2. \A x \in Hooks : x = w
    BY DEF Alone, OneThread
  <1>3. \A m \in Nets : (\A x \in Hooks : ~ Busy(x, m)') => Settled(m)'
    BY <1>2 DEF Busy
  <1>4. \A x \in Hooks : pc'[x] # "idle" => Work(x)'
    <2> SUFFICES ASSUME NEW x \in Hooks, pc'[x] # "idle"
                 PROVE  Work(x)'
      OBVIOUS
    <2>1. x = w
      BY <1>2
    <2> QED BY <2>1
  <1> QED BY <1>1, <1>3, <1>4 DEF AInv

(* A request that reads, after which the hook is in the same phase.         *)
LEMMA Reading ==
  ASSUME AInv, Alone, IInv', NEW w \in Hooks, UNCHANGED <<unifi, neutron>>,
         pc'[Sync] = pc[Sync], job'[w] = job[w],
         NEW P \in Phases, pc[w] \in P, pc'[w] \in P,
         pc'[w] \in Holding => Holds(w)',
         pc'[w] = "post" => \A u \in Uids : ~ On(u, job[w].vlan),
         pc'[w] = "v4put" => 4 \notin SubnetsOf(job[w].net)
  PROVE  AInv'
  <1>1. PICK n \in Nets : n = job[w].net
    BY PhaseLabels DEF AInv, Work
  <1>2. Work(w) /\ pc[w] # "idle" /\ pc'[w] # "idle"
    BY PhaseLabels DEF AInv
  <1>3. /\ pc'[w] \in Leaving <=> pc[w] \in Leaving
        /\ pc'[w] \in Coming <=> pc[w] \in Coming
        /\ pc'[w] \in Finishing <=> pc[w] \in Finishing
        /\ pc'[w] \in Serving <=> pc[w] \in Serving
        /\ pc'[w] \in Clearing <=> pc[w] \in Clearing
        /\ pc'[w] \in Going <=> pc[w] \in Going
        /\ pc'[w] \in Leaving \cup Coming \cup Finishing \cup Serving \cup Clearing \cup Going
    BY PhaseLabels
  <1>4. At(w)' = At(w) /\ \A ver : InOrder(w, ver)' <=> InOrder(w, ver)
    BY <1>3 DEF At, InOrder
  <1>5. Work(w)'
    <2>1. \A v \in Vlans : Has(job[w].net, v)' <=> Has(job[w].net, v)
      BY SameStore
    <2> QED BY <1>2, <1>3, <1>4, SameStore DEF Work
  <1>6. \A m \in Nets \ {n} : Settled(m)'
    BY <1>1, <1>2, OthersElsewhere, SameStore
  <1> QED BY <1>1, <1>2, <1>5, <1>6, SameStore, Assemble DEF AInv

(* A request that writes the object on the hook's VLAN y, or removes it.    *)
Written(n, y, u, c) ==
    /\ unifi' = [unifi EXCEPT ![u] = c]
    /\ \A x \in Uids : On(x, y) => x = u
    /\ unifi[u] # Absent => On(u, y)
    /\ c # Absent => c \in Conf /\ c.vlan = y /\ c.name = DriverName(n, y)

LEMMA StoreAfter ==
  ASSUME IInv, NEW n \in Nets, NEW y \in Vlans, NEW u \in Uids, NEW c, Written(n, y, u, c)
  PROVE  /\ \A x \in Uids \ {u}, v \in Vlans : On(x, v)' <=> On(x, v)
         /\ \A x \in Uids \ {u} : unifi'[x] = unifi[x]
         /\ \A v \in Vlans : On(u, v)' <=> c # Absent /\ v = y
         /\ unifi'[u] = c
         /\ \A v \in Vlans : v # y => ~ On(u, v)
  BY Typed DEF Written, On

LEMMA StoreKept ==
  ASSUME IInv, Store, NEW n \in Nets, NEW y \in Vlans, NEW u \in Uids, NEW c, Written(n, y, u, c)
  PROVE  Store'
  <1>0. /\ \A x \in Uids \ {u}, v \in Vlans : On(x, v)' <=> On(x, v)
        /\ \A x \in Uids \ {u} : unifi'[x] = unifi[x]
        /\ unifi'[u] = c
        /\ \A v \in Vlans : v # y => ~ On(u, v)' /\ ~ On(u, v)
    BY StoreAfter
  <1>1. ASSUME NEW s \in Uids, NEW x \in Uids, NEW v \in Vlans, On(s, v)', On(x, v)'
        PROVE  s = x
    <2>1. CASE v = y
      <3>1. \A r \in Uids \ {u} : ~ On(r, v)'
        BY <1>0, <2>1 DEF Written
      <3> QED BY <1>1, <3>1
    <2>2. CASE v # y
      <3>1. s # u /\ x # u
        BY <1>0, <1>1, <2>2
      <3> QED BY <1>0, <1>1, <3>1 DEF Store
    <2> QED BY <2>1, <2>2
  <1>2. ASSUME NEW x \in Uids, unifi'[x] # Absent
        PROVE  \/ unifi'[x].name = ManualName /\ unifi'[x].v6 # "subnet"
               \/ \E m \in Nets : unifi'[x].name = DriverName(m, unifi'[x].vlan)
    <2>1. CASE x = u
      BY <1>0, <1>2, <2>1 DEF Written
    <2>2. CASE x # u
      BY <1>0, <1>2, <2>2 DEF Store
    <2> QED BY <2>1, <2>2
  <1> QED BY <1>1, <1>2 DEF Store

LEMMA EntriesAfter ==
  ASSUME IInv, NEW n \in Nets, NEW y \in Vlans, NEW u \in Uids, NEW c, Written(n, y, u, c)
  PROVE  /\ \A m \in Nets, v \in Vlans : v # y => (Has(m, v)' <=> Has(m, v))
         /\ \A m \in Nets \ {n} : ~ Has(m, y)'
         /\ Has(n, y)' <=> c # Absent
  <1>0. /\ \A x \in Uids \ {u}, v \in Vlans : On(x, v)' <=> On(x, v)
        /\ \A x \in Uids \ {u} : unifi'[x] = unifi[x]
        /\ unifi'[u] = c
        /\ \A v \in Vlans : On(u, v)' <=> c # Absent /\ v = y
        /\ \A v \in Vlans : v # y => ~ On(u, v)
    BY StoreAfter
  <1>1. ASSUME NEW m \in Nets, NEW v \in Vlans, v # y
        PROVE  Has(m, v)' <=> Has(m, v)
    <2>1. ~ On(u, v) /\ ~ On(u, v)'
      BY <1>0, <1>1
    <2> QED BY <1>0, <2>1 DEF Has
  <1>2. \A x \in Uids \ {u} : ~ On(x, y)'
    BY <1>0 DEF Written
  <1>3. \A m \in Nets : Has(m, y)' <=> c # Absent /\ c.name = DriverName(m, y)
    BY <1>0, <1>2 DEF Has
  <1>4. \A m \in Nets \ {n} : DriverName(m, y) # DriverName(n, y)
    BY DEF DriverName
  <1> QED BY <1>1, <1>3, <1>4 DEF Written

LEMMA OthersSettled ==
  ASSUME AInv, Alone, NEW w \in Hooks, pc[w] # "idle", neutron' = neutron,
         NEW n \in Nets, n = job[w].net, NEW y \in Vlans, y = At(w),
         NEW u \in Uids, NEW c, Written(n, y, u, c),
         NEW m \in Nets \ {n}
  PROVE  Settled(m)'
  <1>1. Settled(m) /\ (Live(m) => neutron[m].vlan # y)
    BY OthersElsewhere
  <1>2. Live(m)' <=> Live(m)
    BY DEF Live
  <1>3. SubnetsOf(m)' = SubnetsOf(m)
    BY <1>2 DEF SubnetsOf
  <1>4. \A v \in Vlans : Has(m, v)' <=> Wants(m, v)'
    <2>1. \A v \in Vlans : Has(m, v) <=> Wants(m, v)
      BY <1>1 DEF Settled
    <2>2. ~ Wants(m, y) /\ ~ Has(m, y)'
      BY <1>1, EntriesAfter DEF AInv, Wants
    <2>3. \A v \in Vlans : Wants(m, v)' <=> Wants(m, v)
      BY <1>2 DEF Wants
    <2> QED BY <2>1, <2>2, <2>3, EntriesAfter DEF AInv
  <1>5. ASSUME NEW ver, Clean(m, ver)
        PROVE  Clean(m, ver)'
    <2> SUFFICES ASSUME Live(m), ver \notin SubnetsOf(m), NEW x \in Uids, Serves(x, m)'
                 PROVE  Off(unifi'[x], ver)
      BY <1>2, <1>3 DEF Clean, Off
    <2>1. neutron[m].vlan \in Vlans /\ neutron[m].vlan # y
      BY <1>1, Typed DEF AInv
    <2>2. On(x, neutron[m].vlan)'
      BY DEF Serves, On
    <2>3. x # u /\ unifi'[x] = unifi[x]
      BY <2>1, <2>2, StoreAfter DEF AInv, On
    <2>4. Serves(x, m)
      BY <2>3 DEF Serves
    <2> QED BY <1>5, <2>3, <2>4 DEF Clean
  <1> QED BY <1>1, <1>4, <1>5 DEF Settled

LEMMA CleanAfter ==
  ASSUME IInv, NEW n \in Nets, NEW y \in Vlans, NEW u \in Uids, NEW c, Written(n, y, u, c),
         neutron' = neutron, Live(n) => neutron[n].vlan = y, NEW ver,
         c # Absent /\ ver \notin SubnetsOf(n) => Off(c, ver)
  PROVE  Clean(n, ver)'
  <1>1. SubnetsOf(n)' = SubnetsOf(n) /\ (Live(n)' <=> Live(n))
    BY DEF SubnetsOf, Live
  <1> SUFFICES ASSUME Live(n), ver \notin SubnetsOf(n), NEW x \in Uids, Serves(x, n)'
               PROVE  Off(unifi'[x], ver)
    BY <1>1 DEF Clean, Off
  <1>2. On(x, y)'
    BY DEF Serves, On
  <1>3. /\ x # u => (On(x, y)' <=> On(x, y))
        /\ unifi'[u] = c
        /\ On(u, y)' <=> c # Absent
    BY StoreAfter
  <1>4. x = u
    BY <1>2, <1>3 DEF Written
  <1> QED BY <1>2, <1>3, <1>4

-----------------------------------------------------------------------------
(* The hooks' lookups.                                                      *)

(* A lookup that ends in the same phase with the object in hand.            *)
LEMMA Taking ==
  ASSUME AInv, Alone, IInv', NEW w \in Hooks, UNCHANGED unifi,
         NEW P \in Phases, pc[w] \in P, NEW l \in P, l # "post", l # "v4put",
         NEW u \in Uids, On(u, At(w)), Hold(w, u, unifi[u], l)
  PROVE  AInv'
  <1>1. /\ pc'[w] = l /\ pc'[Sync] = pc[Sync] /\ obj'[w] = u /\ raw'[w] = unifi[u]
        /\ UNCHANGED <<neutron, job>> /\ unifi[u] \in Conf
    BY Typed DEF AInv, Hold, On
  <1>2. At(w)' = At(w)
    BY <1>1, PhaseLabels DEF At
  <1>3. Holds(w)'
    BY <1>1, <1>2 DEF Holds, On
  <1> QED BY <1>1, <1>3, Reading

LEMMA FindTurn ==
  ASSUME AInv, Alone, IInv', NEW w \in Hooks, Find(w)
  PROVE  AInv'
  <1>1. /\ pc[w] = "find" /\ UNCHANGED unifi
        /\ \E u \in Found(unifi, job[w].vlan) :
              Hold(w, u, View(unifi, u), FirstWrite(job[w], View(unifi, u)))
    BY NoFault DEF AInv, Find, Get
  <1>2. PICK u \in Found(unifi, job[w].vlan) :
              Hold(w, u, View(unifi, u), FirstWrite(job[w], View(unifi, u)))
    BY <1>1
  <1>3. /\ At(w) = job[w].vlan /\ pc[w] \in Coming /\ Coming \in Phases
        /\ "rename" \in Coming /\ "post" \in Coming
    BY <1>1 DEF At, Coming, Leaving, Phases
  <1>4. Work(w)
    BY <1>1 DEF AInv
  <1>5. CASE u = NoUid
    <2>1. /\ pc'[w] = "post" /\ pc'[Sync] = pc[Sync] /\ UNCHANGED <<neutron, job>>
      BY <1>2, <1>5, Typed DEF AInv, Hold, View, FirstWrite
    <2>2. \A x \in Uids : ~ On(x, job[w].vlan)
      BY <1>2, <1>5, FoundIs
    <2> QED BY <1>1, <1>3, <2>1, <2>2, Reading DEF Holding
  <1>6. CASE u # NoUid
    <2>1. u \in Uids /\ On(u, At(w)) /\ View(unifi, u) = unifi[u]
      BY <1>2, <1>3, <1>6, FoundIs
    <2>2. ~ Has(job[w].net, job[w].vlan)
      BY <1>3, <1>4 DEF Work
    <2>3. FirstWrite(job[w], unifi[u]) = "rename"
      BY <1>3, <2>1, <2>2 DEF FirstWrite, Has, On
    <2> QED BY <1>1, <1>2, <1>3, <2>1, <2>3, Taking
  <1> QED BY <1>5, <1>6

LEMMA RefindTurn ==
  ASSUME AInv, Alone, IInv', NEW w \in Hooks, Refind(w)
  PROVE  AInv'
  <1>1. /\ pc[w] = "refind" /\ UNCHANGED unifi
        /\ \E u \in Found(unifi, job[w].vlan) :
                 IF u = NoUid THEN Reconciled(w)
                 ELSE Hold(w, u, unifi[u], AfterName(unifi[u]))
    BY NoFault DEF AInv, Refind, Get
  <1>2. PICK u \in Found(unifi, job[w].vlan) :
                 IF u = NoUid THEN Reconciled(w)
                 ELSE Hold(w, u, unifi[u], AfterName(unifi[u]))
    BY <1>1
  <1>3. /\ At(w) = job[w].vlan /\ pc[w] \in Finishing /\ Finishing \in Phases
        /\ AfterName(unifi[u]) \in Finishing \ {"post", "v4put"}
    BY <1>1 DEF At, Finishing, Leaving, Phases, AfterName
  <1>4. Has(job[w].net, job[w].vlan)
    BY <1>1, <1>3 DEF AInv, Work, Coming
  <1>5. u \in Uids /\ u # NoUid /\ On(u, At(w))
    BY <1>2, <1>3, <1>4, FoundIs DEF Has
  <1> QED BY <1>1, <1>2, <1>3, <1>5, Taking

LEMMA ReadV4SubnetsTurn ==
  ASSUME AInv, Alone, IInv', NEW w \in Hooks, ReadV4Subnets(w)
  PROVE  AInv'
  <1>1. /\ pc[w] = "v4read" /\ UNCHANGED unifi
        /\ IF 4 \in SubnetsOf(job[w].net) \/ raw[w].v4 = "synthetic"
           THEN Reconciled(w) ELSE Goto(w, "v4put")
    BY NoFault DEF AInv, ReadV4Subnets, Get
  <1>2. /\ pc[w] \in Finishing /\ Finishing \in Phases /\ "v4put" \in Finishing
        /\ At(w) = job[w].vlan
    BY <1>1 DEF Finishing, Phases, At, Leaving
  <1>3. Work(w) /\ w # Sync /\ pc[w] # "idle"
    BY <1>1, Typed DEF AInv
  <1>4. CASE 4 \in SubnetsOf(job[w].net) \/ raw[w].v4 = "synthetic"
    <2>1. Leave(w)
      BY <1>1, <1>3, <1>4 DEF Reconciled
    <2>2. pc'[w] = "idle" /\ pc'[Sync] = pc[Sync] /\ UNCHANGED neutron
      BY <1>3, <2>1, Typed DEF AInv, Leave, LeaveTo
    <2>3. PICK n \in Nets : n = job[w].net
      BY <1>3 DEF Work
    <2>4. Clean(n, 4)
      <3> SUFFICES ASSUME 4 \notin SubnetsOf(n), NEW u \in Uids, Serves(u, n), Live(n)
                   PROVE  Off(unifi[u], 4)
        BY DEF Clean
      <3>1. On(u, At(w))
        BY <1>2, <1>3, <2>3 DEF Serves, On, Work
      <3>2. u = obj[w] /\ Holds(w)
        BY <1>1, <3>1, HeldIs DEF Holding
      <3> QED BY <1>4, <2>3, <3>2 DEF Holds, Off
    <2>5. Clean(n, 6)
      <3>1. InOrder(w, 6)
        BY <1>2 DEF InOrder
      <3> QED BY <1>3, <2>3, <3>1 DEF Work
    <2>6. \A v \in Vlans : Has(n, v) <=> Wants(n, v)
      BY <1>1, <1>2, <1>3, <2>3 DEF Work, Wants, Going, Coming
    <2>7. Settled(n)'
      BY <1>1, <2>2, <2>4, <2>5, <2>6, SameStore DEF Settled
    <2>8. Store' /\ \A m \in Nets \ {n} : Settled(m)'
      BY <1>1, <1>3, <2>2, <2>3, SameStore, OthersElsewhere DEF AInv
    <2> QED BY <1>3, <2>2, <2>3, <2>7, <2>8, Assemble
  <1>5. CASE ~ (4 \in SubnetsOf(job[w].net) \/ raw[w].v4 = "synthetic")
    <2>1. /\ pc'[w] = "v4put" /\ pc'[Sync] = pc[Sync] /\ UNCHANGED <<neutron, job, obj, raw>>
      BY <1>1, <1>5, Typed DEF AInv, Goto
    <2>2. Holds(w)'
      <3>1. Holds(w) /\ At(w)' = At(w)
        BY <1>1, <2>1, HeldIs DEF Holding, At, Leaving
      <3> QED BY <1>1, <2>1, <3>1 DEF Holds, On
    <2> QED BY <1>1, <1>2, <1>5, <2>1, <2>2, Reading
  <1> QED BY <1>4, <1>5

LEMMA FindOldTurn ==
  ASSUME AInv, Alone, IInv', NEW w \in Hooks, FindOld(w)
  PROVE  AInv'
  <1>1. /\ pc[w] = "updFind" /\ UNCHANGED unifi
        /\ \E u \in Found(unifi, job[w].old) :
              Hold(w, u, View(unifi, u), IF u = NoUid THEN "find" ELSE "updDelete")
    BY NoFault DEF AInv, FindOld, Get
  <1>2. PICK u \in Found(unifi, job[w].old) :
              Hold(w, u, View(unifi, u), IF u = NoUid THEN "find" ELSE "updDelete")
    BY <1>1
  <1>3. /\ At(w) = job[w].old /\ pc[w] \in Leaving /\ Leaving \in Phases
        /\ "updDelete" \in Leaving \ {"post", "v4put"}
    BY <1>1 DEF At, Leaving, Phases
  <1>4. Has(job[w].net, job[w].old)
    BY <1>1, <1>3 DEF AInv, Work, Coming
  <1>5. u \in Uids /\ u # NoUid /\ On(u, At(w)) /\ View(unifi, u) = unifi[u]
    BY <1>2, <1>3, <1>4, FoundIs DEF Has
  <1> QED BY <1>1, <1>2, <1>3, <1>5, Taking

(* The lookups of the delete hook and of the subnet hooks go straight to a  *)
(* write.                                                                   *)
LEMMA LookupTurn ==
  ASSUME AInv, Alone, IInv', NEW w \in Hooks, FindDoomed(w) \/ FindForSubnet(w) \/ FindToClear(w)
  PROVE  AInv'
  <1>1. UNCHANGED unifi /\ pc[w] \in {"delFind", "subFind", "clrFind"}
    BY NoFault DEF AInv, FindDoomed, FindForSubnet, FindToClear, Get
  <1>2. At(w) = job[w].vlan /\ Work(w)
    BY <1>1 DEF At, Leaving, AInv
  <1>3. Has(job[w].net, job[w].vlan)
    BY <1>1, <1>2 DEF Work, Coming
  <1>4. \A u \in Found(unifi, job[w].vlan) : u \in Uids /\ u # NoUid /\ On(u, At(w))
    BY <1>2, <1>3, FoundIs DEF Has
  <1>5. CASE FindDoomed(w)
    <2>1. \E u \in Found(unifi, job[w].vlan) : Hold(w, u, unifi[u], FirstDelete(unifi[u]))
      BY <1>4, <1>5, NoFault DEF AInv, FindDoomed, Get
    <2>2. \A r : FirstDelete(r) \in Going \ {"post", "v4put"}
      BY DEF FirstDelete, Going
    <2>3. pc[w] \in Going /\ Going \in Phases
      BY <1>5 DEF FindDoomed, Going, Phases
    <2> QED BY <1>1, <1>4, <2>1, <2>2, <2>3, Taking
  <1>6. CASE FindForSubnet(w)
    <2>1. \E u \in Found(unifi, job[w].vlan) : Hold(w, u, unifi[u], "subPut")
      BY <1>4, <1>6, NoFault DEF AInv, FindForSubnet, Get
    <2>2. pc[w] \in Serving /\ Serving \in Phases /\ "subPut" \in Serving \ {"post", "v4put"}
      BY <1>6 DEF FindForSubnet, Serving, Phases
    <2> QED BY <1>1, <1>4, <2>1, <2>2, Taking
  <1>7. CASE FindToClear(w)
    <2>1. \E u \in Found(unifi, job[w].vlan) : Hold(w, u, unifi[u], "clrPut")
      BY <1>4, <1>7, NoFault DEF AInv, FindToClear, Get
    <2>2. pc[w] \in Clearing /\ Clearing \in Phases /\ "clrPut" \in Clearing \ {"post", "v4put"}
      BY <1>7 DEF FindToClear, Clearing, Phases
    <2> QED BY <1>1, <1>4, <2>1, <2>2, Taking
  <1> QED BY <1>5, <1>6, <1>7

-----------------------------------------------------------------------------
(* The hooks' writes.                                                       *)

(* What a write is built from.                                              *)
LEMMA Rewritten ==
  ASSUME AInv, Alone, NEW w \in Hooks, pc[w] \in Holding, NEW n \in Nets, n = job[w].net,
         NEW c, unifi' = [unifi EXCEPT ![obj[w]] = c],
         c # Absent => c \in Conf /\ c.vlan = At(w) /\ c.name = DriverName(n, At(w))
  PROVE  obj[w] \in Uids /\ At(w) \in Vlans /\ Written(n, At(w), obj[w], c)
  <1>1. Holds(w) /\ \A x \in Uids : On(x, At(w)) => x = obj[w]
    BY HeldIs
  <1>2. At(w) \in Vlans
    BY DEF AInv, Work, Holding
  <1> QED BY <1>1, <1>2 DEF Written, Holds

(* A write after which the hook goes on.                                    *)
LEMMA WritingOn ==
  ASSUME AInv, Alone, IInv', NEW w \in Hooks, pc[w] # "idle", neutron' = neutron,
         pc'[Sync] = pc[Sync], job'[w] = job[w],
         NEW n \in Nets, n = job[w].net, NEW y \in Vlans, y = At(w),
         NEW u \in Uids, NEW c, Written(n, y, u, c),
         pc'[w] \in (Coming \cup Finishing \cup Going) \ {"post", "v4put"},
         pc'[w] \in Going <=> ~ Live(n),
         pc'[w] \in Coming => pc[w] \in Leaving /\ c = Absent,
         pc'[w] \notin Coming => pc[w] \notin Leaving /\ c # Absent,
         pc'[w] \in Holding => Holds(w)',
         pc'[w] \in Finishing /\ 6 \notin SubnetsOf(n) => Off(c, 6)
  PROVE  AInv'
  <1>1. Work(w)
    BY DEF AInv
  <1>2. /\ pc'[w] # "idle" /\ pc'[w] \notin Leaving /\ pc'[w] \notin Serving /\ pc'[w] \notin Clearing
        /\ pc'[w] \in Finishing => pc'[w] \notin Coming
        /\ pc'[w] \in Leaving \cup Coming \cup Finishing \cup Serving \cup Clearing \cup Going
    BY DEF Leaving, Coming, Finishing, Serving, Clearing, Going
  <1>3. At(w)' = job[w].vlan
    BY <1>2 DEF At
  <1>4. Live(n)' <=> Live(n)
    BY DEF Live
  <1>5. Live(n)' => neutron'[n].vlan = job[w].vlan
    BY <1>1, <1>4 DEF Work
  <1>6. ASSUME NEW v \in Vlans
        PROVE  Has(n, v)' <=> pc'[w] \notin Coming /\ v = job[w].vlan
    <2>1. /\ v # y => (Has(n, v)' <=> Has(n, v))
          /\ v = y => (Has(n, v)' <=> c # Absent)
      BY EntriesAfter DEF AInv
    <2>2. Has(n, v) <=> pc[w] \notin Coming /\ v = At(w)
      BY <1>1 DEF Work
    <2>3. pc[w] \in Leaving \/ At(w) = job[w].vlan
      BY DEF At
    <2> QED BY <2>1, <2>2, <2>3
  <1>7. pc'[w] \in Finishing => Clean(n, 6)'
    <2> SUFFICES ASSUME pc'[w] \in Finishing
                 PROVE  Clean(n, 6)'
      OBVIOUS
    <2>1. Live(n) => neutron[n].vlan = y
      <3>1. pc'[w] \notin Coming
        BY DEF Finishing, Coming
      <3>2. At(w) = job[w].vlan
        BY <3>1 DEF At
      <3> QED BY <1>1, <3>2 DEF Work
    <2> QED BY <2>1, CleanAfter DEF AInv
  <1>8. Work(w)'
    <2>1. \A ver \in {4, 6} : InOrder(w, ver)' => Clean(n, ver)'
      BY <1>2, <1>7 DEF InOrder
    <2>2. /\ job'[w] = job[w] /\ job[w].net = n /\ job[w].vlan \in Vlans
          /\ Live(job[w].net)' <=> pc'[w] \notin Going
      BY <1>1, <1>2, <1>4 DEF Work, Live
    <2>3. \A v \in Vlans : Has(job[w].net, v)' <=> pc'[w] \notin Coming /\ v = At(w)'
      BY <1>2, <1>3, <1>6 DEF Has
    <2> QED BY <1>2, <1>3, <1>5, <2>1, <2>2, <2>3 DEF Work, Live, Clean
  <1>9. Store' /\ \A m \in Nets \ {n} : Settled(m)'
    BY StoreKept, OthersSettled DEF AInv
  <1> QED BY <1>2, <1>8, <1>9, Assemble

(* A write with which the hook ends.                                        *)
LEMMA WritingLast ==
  ASSUME AInv, Alone, IInv', NEW w \in Hooks, pc[w] \in Holding \ (Leaving \cup Coming),
         Leave(w), NEW n \in Nets, n = job[w].net,
         NEW c, unifi' = [unifi EXCEPT ![obj[w]] = c],
         Live(n) => /\ c \in Conf /\ c.vlan = At(w) /\ c.name = DriverName(n, At(w))
                    /\ \A ver \in {4, 6} \ SubnetsOf(n) : Off(c, ver),
         ~ Live(n) => c = Absent
  PROVE  AInv'
  <1>1. Work(w) /\ pc[w] # "idle" /\ w # Sync
    BY Typed DEF AInv, Holding
  <1>2. PICK y \in Vlans : y = At(w)
    BY <1>1 DEF Work
  <1>3. PICK u \in Uids : u = obj[w] /\ Written(n, y, u, c)
    BY <1>2, Rewritten
  <1>4. pc'[w] = "idle" /\ pc'[Sync] = pc[Sync] /\ UNCHANGED neutron
    BY <1>1, Typed DEF AInv, Leave, LeaveTo
  <1>5. (Live(n)' <=> Live(n)) /\ (Live(n) => neutron[n].vlan = y)
    BY <1>1, <1>2, <1>4 DEF Live, Work, At
  <1>6. c = Absent <=> ~ Live(n)
    BY NetworkSyncAssumption
  <1>7. \A v \in Vlans : Has(n, v)' <=> Wants(n, v)'
    <2>1. /\ \A v \in Vlans : v # y => (Has(n, v)' <=> Has(n, v))
          /\ Has(n, y)' <=> c # Absent
      BY <1>3, EntriesAfter DEF AInv
    <2>2. \A v \in Vlans : Has(n, v) => v = y
      BY <1>1, <1>2 DEF Work
    <2> QED BY <1>4, <1>5, <1>6, <2>1, <2>2 DEF Wants
  <1>8. Clean(n, 4)' /\ Clean(n, 6)'
    <2>1. c # Absent /\ 4 \notin SubnetsOf(n) => Off(c, 4)
      BY <1>6
    <2>2. c # Absent /\ 6 \notin SubnetsOf(n) => Off(c, 6)
      BY <1>6
    <2> QED BY <1>3, <1>4, <1>5, <2>1, <2>2, CleanAfter DEF AInv
  <1>9. Settled(n)'
    BY <1>7, <1>8 DEF Settled
  <1>10. Store' /\ \A m \in Nets \ {n} : Settled(m)'
    BY <1>1, <1>2, <1>3, <1>4, StoreKept, OthersSettled DEF AInv
  <1> QED BY <1>1, <1>4, <1>9, <1>10, Assemble

(* Nothing fails: the object is there, and the request succeeds.            *)
LEMMA RenameTurn ==
  ASSUME AInv, Alone, IInv', NEW w \in Hooks, Rename(w)
  PROVE  AInv'
  <1> DEFINE c == [raw[w] EXCEPT !.name = DriverName(job[w].net, job[w].vlan)]
  <1>1. pc[w] = "rename" /\ pc[w] \in Holding /\ At(w) = job[w].vlan
    BY DEF Rename, Holding, At, Leaving
  <1>2. Holds(w) /\ Work(w) /\ unifi[obj[w]] \in Conf
    BY <1>1, HeldIs DEF AInv
  <1>3. Goto(w, "refind") /\ unifi' = [unifi EXCEPT ![obj[w]] = c]
    BY <1>2, NoFault DEF AInv, Rename, Put, Holds, On
  <1>4. PICK n \in Nets : n = job[w].net
    BY <1>2 DEF Work
  <1>5. PICK y \in Vlans : y = At(w)
    BY <1>2 DEF Work
  <1>6. c \in Conf /\ c.vlan = y /\ c.name = DriverName(n, y) /\ c.v6 = raw[w].v6
    <2>1. DriverName(n, y) \in Names
      BY DEF DriverName, Names, DriverNames
    <2> QED BY <1>1, <1>2, <1>4, <1>5, <2>1 DEF Holds, On, Conf
  <1> HIDE DEF c
  <1>7. obj[w] \in Uids /\ Written(n, y, obj[w], c)
    BY <1>1, <1>3, <1>4, <1>5, <1>6, Rewritten
  <1>8. Off(c, 6)
    <2>1. ~ Has(n, y)
      BY <1>1, <1>2, <1>4, <1>5 DEF Work, Coming
    <2>2. unifi[obj[w]].v6 # "subnet"
      <3>1. unifi[obj[w]].vlan = y /\ unifi[obj[w]] # Absent
        BY <1>2, <1>5 DEF Holds, On
      <3>2. \A m \in Nets \ {n} : ~ (Live(m) /\ neutron[m].vlan = y) /\ Settled(m)
        BY <1>1, <1>4, <1>5, OthersElsewhere
      <3>3. \A m \in Nets : ~ Has(m, y)
        BY <2>1, <3>2 DEF Settled, Wants
      <3>4. \A m \in Nets : unifi[obj[w]].name # DriverName(m, unifi[obj[w]].vlan)
        BY <1>7, <3>1, <3>3 DEF Has, On
      <3> QED BY <1>7, <3>1, <3>4 DEF AInv, Store
    <2> QED BY <1>2, <1>6, <2>2 DEF Off, Holds, Conf, V6States
  <1>9. /\ pc'[w] = "refind" /\ pc'[Sync] = pc[Sync] /\ UNCHANGED <<neutron, job>>
        /\ "refind" \in Finishing \ (Coming \cup Going \cup Holding)
    BY <1>3, Typed DEF AInv, Goto, Coming, Finishing, Going, Holding
  <1>10. Live(n) /\ pc[w] \notin Leaving /\ pc[w] # "idle" /\ c # Absent
    BY <1>1, <1>2, <1>4, <1>6, NetworkSyncAssumption DEF Work, Going, Leaving
  <1> QED BY <1>4, <1>5, <1>7, <1>8, <1>9, <1>10, WritingOn

LEMMA PostTurn ==
  ASSUME AInv, Alone, IInv', NEW w \in Hooks, Post(w)
  PROVE  AInv'
  <1> DEFINE c == NewConf(job[w])
  <1>1. pc[w] = "post" /\ At(w) = job[w].vlan
    BY DEF Post, At, Leaving
  <1>2. Work(w)
    BY <1>1 DEF AInv
  <1>3. \A x \in Uids : ~ On(x, job[w].vlan)
    BY <1>1, <1>2 DEF Work
  <1>4. ~ Taken(job[w].vlan)
    BY <1>3 DEF Taken, On
  <1>5. Goto(w, "refind") /\ \E u \in Fresh : unifi' = [unifi EXCEPT ![u] = c]
    BY <1>4, NoFault DEF AInv, Post
  <1>6. PICK u \in Fresh : unifi' = [unifi EXCEPT ![u] = c]
    BY <1>5
  <1>7. PICK n \in Nets : n = job[w].net
    BY <1>2 DEF Work
  <1>8. PICK y \in Vlans : y = At(w)
    BY <1>2 DEF Work
  <1>9. c \in Conf /\ c.vlan = y /\ c.name = DriverName(n, y) /\ Off(c, 6) /\ c # Absent
    <2>1. DriverName(n, y) \in Names
      BY DEF DriverName, Names, DriverNames
    <2>2. c \in Conf /\ c.vlan = y /\ c.name = DriverName(n, y) /\ c.v6 = "none"
      BY <1>1, <1>7, <1>8, <2>1 DEF NewConf, Conf, Zones, V4States, V6States
    <2> QED BY <2>2, NetworkSyncAssumption DEF Off
  <1> HIDE DEF c
  <1>10. u \in Uids /\ Written(n, y, u, c)
    BY <1>1, <1>3, <1>6, <1>8, <1>9 DEF Written, Fresh
  <1>11. /\ pc'[w] = "refind" /\ pc'[Sync] = pc[Sync] /\ UNCHANGED <<neutron, job>>
         /\ "refind" \in Finishing \ (Coming \cup Going \cup Holding)
    BY <1>5, Typed DEF AInv, Goto, Coming, Finishing, Going, Holding
  <1>12. Live(n) /\ pc[w] \notin Leaving /\ pc[w] # "idle"
    BY <1>1, <1>2, <1>7 DEF Work, Going, Leaving
  <1> QED BY <1>7, <1>8, <1>9, <1>10, <1>11, <1>12, WritingOn

LEMMA AssignZoneTurn ==
  ASSUME AInv, Alone, IInv', NEW w \in Hooks, AssignZone(w)
  PROVE  AInv'
  <1> DEFINE c == [raw[w] EXCEPT !.zone = "tenant"]
  <1>1. pc[w] = "zone" /\ pc[w] \in Holding /\ pc[w] \in Finishing /\ At(w) = job[w].vlan
    BY DEF AssignZone, Holding, Finishing, At, Leaving
  <1>2. Holds(w) /\ Work(w) /\ unifi[obj[w]] \in Conf /\ raw[w].name = DriverName(job[w].net, At(w))
    BY <1>1, HeldIs DEF AInv
  <1>3. Goto(w, "v4read") /\ unifi' = [unifi EXCEPT ![obj[w]] = c]
    BY <1>2, NoFault DEF AInv, AssignZone, Put, Holds, On
  <1>4. PICK n \in Nets : n = job[w].net
    BY <1>2 DEF Work
  <1>5. PICK y \in Vlans : y = At(w)
    BY <1>2 DEF Work
  <1>6. /\ c \in Conf /\ c.vlan = y /\ c.name = DriverName(n, y)
        /\ c.name = raw[w].name /\ c.vlan = raw[w].vlan /\ c.v4 = raw[w].v4 /\ c.v6 = raw[w].v6
    BY <1>2, <1>4, <1>5 DEF Holds, On, Conf, Zones
  <1> HIDE DEF c
  <1>7. obj[w] \in Uids /\ Written(n, y, obj[w], c)
    BY <1>1, <1>3, <1>4, <1>5, <1>6, Rewritten
  <1>8. 6 \notin SubnetsOf(n) => Off(c, 6)
    <2>1. Clean(n, 6)
      <3>1. InOrder(w, 6)
        BY <1>1 DEF InOrder
      <3> QED BY <1>2, <1>4, <3>1 DEF Work
    <2>2. Live(n) /\ neutron[n].vlan = y
      BY <1>1, <1>2, <1>4, <1>5 DEF Work, Going
    <2>3. Serves(obj[w], n)
      BY <1>2, <1>5, <2>2 DEF Holds, On, Serves
    <2> QED BY <1>2, <1>6, <1>7, <2>1, <2>2, <2>3 DEF Clean, Off, Holds
  <1>9. /\ pc'[w] = "v4read" /\ pc'[Sync] = pc[Sync] /\ UNCHANGED <<neutron, job, obj, raw>>
        /\ "v4read" \in Finishing \ (Coming \cup Going)
    BY <1>3, Typed DEF AInv, Goto, Coming, Finishing, Going
  <1>10. Live(n) /\ pc[w] \notin Leaving /\ pc[w] # "idle" /\ c # Absent
    BY <1>1, <1>2, <1>4, <1>6, NetworkSyncAssumption DEF Work, Going, Leaving
  <1>11. Holds(w)'
    <2>1. At(w)' = y /\ unifi'[obj[w]] = c
      BY <1>1, <1>3, <1>5, <1>7, <1>9, Typed DEF AInv, At, Leaving
    <2> QED BY <1>2, <1>6, <1>9, <1>10, <2>1 DEF Holds, On
  <1> QED BY <1>4, <1>5, <1>7, <1>8, <1>9, <1>10, <1>11, WritingOn

LEMMA UnassignZoneTurn ==
  ASSUME AInv, Alone, IInv', NEW w \in Hooks, UnassignZone(w)
  PROVE  AInv'
  <1> DEFINE c == [raw[w] EXCEPT !.zone = "internal"]
  <1>1. pc[w] = "unassign" /\ pc[w] \in Holding /\ pc[w] \in Going /\ At(w) = job[w].vlan
    BY DEF UnassignZone, Holding, Going, At, Leaving
  <1>2. Holds(w) /\ Work(w) /\ unifi[obj[w]] \in Conf /\ raw[w].name = DriverName(job[w].net, At(w))
    BY <1>1, HeldIs DEF AInv
  <1>3. Goto(w, "delete") /\ unifi' = [unifi EXCEPT ![obj[w]] = c]
    BY <1>2, NoFault DEF AInv, UnassignZone, Put, Holds, On
  <1>4. PICK n \in Nets : n = job[w].net
    BY <1>2 DEF Work
  <1>5. PICK y \in Vlans : y = At(w)
    BY <1>2 DEF Work
  <1>6. /\ c \in Conf /\ c.vlan = y /\ c.name = DriverName(n, y)
        /\ c.name = raw[w].name /\ c.vlan = raw[w].vlan /\ c.v4 = raw[w].v4 /\ c.v6 = raw[w].v6
    BY <1>2, <1>4, <1>5 DEF Holds, On, Conf, Zones
  <1> HIDE DEF c
  <1>7. obj[w] \in Uids /\ Written(n, y, obj[w], c)
    BY <1>1, <1>3, <1>4, <1>5, <1>6, Rewritten
  <1>8. /\ pc'[w] = "delete" /\ pc'[Sync] = pc[Sync] /\ UNCHANGED <<neutron, job, obj, raw>>
        /\ "delete" \in Going \ (Coming \cup Finishing)
    BY <1>3, Typed DEF AInv, Goto, Coming, Finishing, Going
  <1>9. ~ Live(n) /\ pc[w] \notin Leaving /\ pc[w] # "idle" /\ c # Absent
    BY <1>1, <1>2, <1>4, <1>6, NetworkSyncAssumption DEF Work, Going, Leaving
  <1>10. Holds(w)'
    <2>1. At(w)' = y /\ unifi'[obj[w]] = c
      BY <1>1, <1>3, <1>5, <1>7, <1>8, Typed DEF AInv, At, Leaving
    <2> QED BY <1>2, <1>6, <1>8, <1>9, <2>1 DEF Holds, On
  <1> QED BY <1>4, <1>5, <1>7, <1>8, <1>9, <1>10, WritingOn

LEMMA DeleteOldTurn ==
  ASSUME AInv, Alone, IInv', NEW w \in Hooks, DeleteOld(w)
  PROVE  AInv'
  <1>1. pc[w] = "updDelete" /\ pc[w] \in Holding /\ pc[w] \in Leaving
    BY DEF DeleteOld, Holding, Leaving
  <1>2. Holds(w) /\ Work(w) /\ unifi[obj[w]] \in Conf
    BY <1>1, HeldIs DEF AInv
  <1>3. Goto(w, "find") /\ unifi' = [unifi EXCEPT ![obj[w]] = Absent]
    BY <1>2, NoFault DEF AInv, DeleteOld, Put, Holds, On
  <1>4. PICK n \in Nets : n = job[w].net
    BY <1>2 DEF Work
  <1>5. PICK y \in Vlans : y = At(w)
    BY <1>2 DEF Work
  <1>6. obj[w] \in Uids /\ Written(n, y, obj[w], Absent)
    BY <1>1, <1>3, <1>4, <1>5, Rewritten
  <1>7. /\ pc'[w] = "find" /\ pc'[Sync] = pc[Sync] /\ UNCHANGED <<neutron, job>>
        /\ "find" \in Coming \ (Finishing \cup Going \cup Holding)
    BY <1>3, Typed DEF AInv, Goto, Coming, Finishing, Going, Holding
  <1>8. Live(n) /\ pc[w] # "idle"
    BY <1>1, <1>2, <1>4 DEF Work, Going
  <1> QED BY <1>1, <1>4, <1>5, <1>6, <1>7, <1>8, WritingOn

LEMMA DeleteTurn ==
  ASSUME AInv, Alone, IInv', NEW w \in Hooks, Delete(w)
  PROVE  AInv'
  <1>1. pc[w] = "delete" /\ pc[w] \in Holding \ (Leaving \cup Coming)
    BY DEF Delete, Holding, Leaving, Coming
  <1>2. Holds(w) /\ Work(w) /\ unifi[obj[w]] \in Conf /\ w # Sync
    BY <1>1, HeldIs, Typed DEF AInv
  <1>3. Leave(w) /\ unifi' = [unifi EXCEPT ![obj[w]] = Absent]
    BY <1>2, NoFault DEF AInv, Delete, Put, Holds, On, Leave
  <1>4. PICK n \in Nets : n = job[w].net
    BY <1>2 DEF Work
  <1>5. ~ Live(n)
    BY <1>1, <1>2, <1>4 DEF Work, Going
  <1> QED BY <1>1, <1>3, <1>4, <1>5, WritingLast

(* The writes that end a hook write an object the network keeps.            *)
LEMMA LastWrite ==
  ASSUME AInv, Alone, NEW w \in Hooks, pc[w] \in {"v4put", "subPut", "clrPut"}
  PROVE  /\ pc[w] \in Holding \ (Leaving \cup Coming) /\ w # Sync
         /\ Holds(w) /\ unifi[obj[w]] # Absent /\ Work(w) /\ Live(job[w].net)
         /\ raw[w].vlan = At(w) /\ raw[w].name = DriverName(job[w].net, At(w))
         /\ \A ver \in {4, 6} \ SubnetsOf(job[w].net) : InOrder(w, ver) => Off(raw[w], ver)
  <1>1. pc[w] \in Holding \ (Leaving \cup Coming) /\ pc[w] \notin Going /\ At(w) = job[w].vlan
    BY DEF Holding, Leaving, Coming, Going, At
  <1>2. Holds(w) /\ unifi[obj[w]] # Absent /\ Work(w) /\ raw[w].name = DriverName(job[w].net, At(w))
    BY <1>1, HeldIs DEF AInv, Holds, On, Leaving, Coming
  <1>3. raw[w].vlan = At(w) /\ Live(job[w].net)
    BY <1>1, <1>2 DEF Holds, On, Work
  <1>4. ASSUME NEW ver \in {4, 6} \ SubnetsOf(job[w].net), InOrder(w, ver)
        PROVE  Off(raw[w], ver)
    <2>1. Clean(job[w].net, ver)
      BY <1>2, <1>4 DEF Work
    <2>2. Serves(obj[w], job[w].net)
      BY <1>1, <1>2, <1>3 DEF Serves, Holds, On, Work
    <2>3. Off(unifi[obj[w]], ver)
      BY <1>2, <1>3, <2>1, <2>2 DEF Clean, Holds
    <2> QED BY <1>2, <2>3 DEF Off, Holds
  <1> QED BY <1>1, <1>2, <1>3, <1>4, Typed DEF AInv

LEMMA DisableV4Turn ==
  ASSUME AInv, Alone, IInv', NEW w \in Hooks, DisableV4(w)
  PROVE  AInv'
  <1> DEFINE c == [raw[w] EXCEPT !.v4 = "synthetic"]
  <1>1. pc[w] = "v4put"
    BY DEF DisableV4
  <1>2. /\ pc[w] \in Holding \ (Leaving \cup Coming) /\ w # Sync
        /\ Holds(w) /\ unifi[obj[w]] # Absent /\ Work(w) /\ Live(job[w].net)
        /\ raw[w].vlan = At(w) /\ raw[w].name = DriverName(job[w].net, At(w))
        /\ \A ver \in {4, 6} \ SubnetsOf(job[w].net) : InOrder(w, ver) => Off(raw[w], ver)
    BY <1>1, LastWrite
  <1>3. Leave(w) /\ unifi' = [unifi EXCEPT ![obj[w]] = c]
    BY <1>2, NoFault DEF AInv, DisableV4, Put, Reconciled
  <1>4. PICK n \in Nets : n = job[w].net
    BY <1>2 DEF Work
  <1>5. /\ c \in Conf /\ c.vlan = At(w) /\ c.name = DriverName(n, At(w))
        /\ c.v4 = "synthetic" /\ c.v6 = raw[w].v6
    BY <1>2, <1>4 DEF Holds, Conf, V4States
  <1> HIDE DEF c
  <1>6. InOrder(w, 6)
    BY <1>1 DEF InOrder, Finishing
  <1>7. \A ver \in {4, 6} \ SubnetsOf(n) : Off(c, ver)
    BY <1>2, <1>4, <1>5, <1>6 DEF Off
  <1> QED BY <1>2, <1>3, <1>4, <1>5, <1>7, WritingLast

LEMMA PutSubnetTurn ==
  ASSUME AInv, Alone, IInv', NEW w \in Hooks, PutSubnet(w)
  PROVE  AInv'
  <1> DEFINE c == WithSubnet(raw[w], job[w].ver)
  <1>1. pc[w] = "subPut"
    BY DEF PutSubnet
  <1>2. /\ pc[w] \in Holding \ (Leaving \cup Coming) /\ w # Sync
        /\ Holds(w) /\ unifi[obj[w]] # Absent /\ Work(w) /\ Live(job[w].net)
        /\ raw[w].vlan = At(w) /\ raw[w].name = DriverName(job[w].net, At(w))
        /\ \A ver \in {4, 6} \ SubnetsOf(job[w].net) : InOrder(w, ver) => Off(raw[w], ver)
    BY <1>1, LastWrite
  <1>3. Leave(w) /\ unifi' = [unifi EXCEPT ![obj[w]] = c]
    BY <1>2, NoFault DEF AInv, PutSubnet, Put
  <1>4. PICK n \in Nets : n = job[w].net
    BY <1>2 DEF Work
  <1>5. PICK k : k = job[w].ver
    OBVIOUS
  <1>6. k \in SubnetsOf(n) /\ InOrder(w, 4) /\ InOrder(w, 6)
    BY <1>1, <1>2, <1>4, <1>5 DEF Work, InOrder, Serving
  <1>7. /\ c \in Conf /\ c.vlan = At(w) /\ c.name = DriverName(n, At(w))
        /\ k # 4 => c.v4 = raw[w].v4
        /\ k = 4 => c.v6 = raw[w].v6
    BY <1>2, <1>4, <1>5 DEF Holds, Conf, V4States, V6States, WithSubnet
  <1>8. k \in {4, 6}
    BY <1>4, <1>6, NetworkSyncAssumption, Typed DEF AInv, SubnetsOf, Live, NeutronNet
  <1> HIDE DEF c
  <1>9. \A ver \in {4, 6} \ SubnetsOf(n) : Off(c, ver)
    <2> SUFFICES ASSUME NEW ver \in {4, 6} \ SubnetsOf(n)
                 PROVE  Off(c, ver)
      OBVIOUS
    <2>1. ver # k /\ Off(raw[w], ver)
      BY <1>2, <1>4, <1>6
    <2> QED BY <1>7, <1>8, <2>1 DEF Off
  <1> QED BY <1>2, <1>3, <1>4, <1>7, <1>9, WritingLast

LEMMA ClearSubnetTurn ==
  ASSUME AInv, Alone, IInv', NEW w \in Hooks, ClearSubnet(w)
  PROVE  AInv'
  <1> DEFINE c == ClearedSubnet(raw[w], job[w].ver)
  <1>1. pc[w] = "clrPut"
    BY DEF ClearSubnet
  <1>2. /\ pc[w] \in Holding \ (Leaving \cup Coming) /\ w # Sync
        /\ Holds(w) /\ unifi[obj[w]] # Absent /\ Work(w) /\ Live(job[w].net)
        /\ raw[w].vlan = At(w) /\ raw[w].name = DriverName(job[w].net, At(w))
        /\ \A ver \in {4, 6} \ SubnetsOf(job[w].net) : InOrder(w, ver) => Off(raw[w], ver)
    BY <1>1, LastWrite
  <1>3. Leave(w) /\ unifi' = [unifi EXCEPT ![obj[w]] = c]
    BY <1>2, NoFault DEF AInv, ClearSubnet, Put
  <1>4. PICK n \in Nets : n = job[w].net
    BY <1>2 DEF Work
  <1>5. PICK k : k = job[w].ver
    OBVIOUS
  <1>6. \A ver : ver # k => InOrder(w, ver)
    BY <1>1, <1>5 DEF InOrder, Clearing
  <1>7. /\ c \in Conf /\ c.vlan = At(w) /\ c.name = DriverName(n, At(w))
        /\ k = 6 => c.v4 = raw[w].v4 /\ c.v6 = "cleared"
        /\ k # 6 => c.v6 = raw[w].v6 /\ c.v4 \in {"synthetic", "cleared"}
    BY <1>2, <1>4, <1>5 DEF Holds, Conf, V4States, V6States, ClearedSubnet
  <1> HIDE DEF c
  <1>8. \A ver \in {4, 6} \ SubnetsOf(n) : Off(c, ver)
    <2> SUFFICES ASSUME NEW ver \in {4, 6} \ SubnetsOf(n)
                 PROVE  Off(c, ver)
      OBVIOUS
    <2>1. ver # k => Off(raw[w], ver)
      BY <1>2, <1>4, <1>6
    <2> QED BY <1>7, <2>1 DEF Off
  <1> QED BY <1>2, <1>3, <1>4, <1>7, <1>8, WritingLast

LEMMA HookTurn ==
  ASSUME AInv, Alone, IInv', NEW w \in Hooks, HookStep(w)
  PROVE  AInv'
  BY FindTurn, RefindTurn, ReadV4SubnetsTurn, FindOldTurn, LookupTurn, RenameTurn, PostTurn,
     AssignZoneTurn, UnassignZoneTurn, DeleteOldTurn, DeleteTurn, DisableV4Turn, PutSubnetTurn,
     ClearSubnetTurn DEF HookStep, ReconcileStep

-----------------------------------------------------------------------------
(* Changes by users, each of which starts a hook.                           *)

LEMMA AllSettled ==
  ASSUME AInv, Alone, NEW w \in Hooks, pc[w] = "idle"
  PROVE  \A m \in Nets : Settled(m)
  BY DEF AInv, Alone, OneThread, Busy

LEMMA Starting ==
  ASSUME AInv, Alone, IInv', NEW w \in Hooks, UNCHANGED unifi, NEW n \in Nets,
         \A m \in Nets \ {n} : neutron'[m] = neutron[m], LiveApart',
         NEW l \in Labels, l # "idle", NEW j, j.net = n, Run(w, l, j), Work(w)'
  PROVE  AInv'
  <1>1. /\ pc[w] = "idle" /\ pc'[w] = l /\ pc'[Sync] = pc[Sync] /\ job'[w] = j
    BY Typed DEF AInv, Run
  <1>2. \A x \in Hooks : x = w
    BY DEF Alone, OneThread
  <1>3. Store'
    BY DEF AInv, Store, On
  <1>4. ASSUME NEW m \in Nets \ {n}
        PROVE  Settled(m)'
    <2>1. /\ Live(m)' <=> Live(m)
          /\ SubnetsOf(m)' = SubnetsOf(m) /\ neutron'[m] = neutron[m]
      BY DEF Live, SubnetsOf
    <2>2. \A ver : Clean(m, ver)' <=> Clean(m, ver)
      BY <2>1 DEF Clean, Serves, Off
    <2>3. \A v : (Has(m, v)' <=> Has(m, v)) /\ (Wants(m, v)' <=> Wants(m, v))
      BY <2>1 DEF Has, On, Wants
    <2> QED BY <1>1, <2>2, <2>3, AllSettled DEF Settled
  <1>5. ASSUME NEW m \in Nets, \A x \in Hooks : ~ Busy(x, m)'
        PROVE  Settled(m)'
    BY <1>1, <1>4, <1>5 DEF Busy
  <1>6. \A x \in Hooks : pc'[x] # "idle" => Work(x)'
    <2> SUFFICES ASSUME NEW x \in Hooks PROVE Work(x)'
      OBVIOUS
    <2>1. x = w
      BY <1>2
    <2> QED BY <2>1
  <1> QED BY <1>1, <1>3, <1>5, <1>6 DEF AInv

LEMMA StartLabels ==
  {"find", "updFind", "delFind", "subFind", "clrFind"} \subseteq Labels \ (Holding \cup {"idle"})
  BY DEF Labels, HookSteps, Reconciling, Holding

LEMMA CreateNetworkTurn ==
  ASSUME AInv, Alone, IInv', NEW w \in Hooks, NEW n \in Nets, NEW v \in Vlans, CreateNetwork(w, n, v)
  PROVE  AInv'
  <1> DEFINE j == [NoJob EXCEPT !.op = "createNet", !.net = n, !.vlan = v]
  <1>1. /\ UNCHANGED unifi /\ Run(w, "find", j) /\ neutron[n] = Unborn /\ Free(v)
        /\ neutron' = [neutron EXCEPT ![n] = [vlan |-> v, subnets |-> {}]]
    BY DEF CreateNetwork, UserStep, Alone
  <1>2. j.net = n /\ j.vlan = v
    BY DEF NoJob
  <1> HIDE DEF j
  <1>3. pc'[w] = "find" /\ job'[w] = j /\ pc[w] = "idle"
    BY <1>1, Typed DEF AInv, Run
  <1>4. /\ neutron'[n] = [vlan |-> v, subnets |-> {}] /\ neutron'[n].vlan = v
        /\ \A m \in Nets \ {n} : neutron'[m] = neutron[m]
        /\ ~ Live(n) /\ Live(n)'
        /\ \A m \in Nets \ {n} : Live(m)' <=> Live(m)
    BY <1>1, Typed, NetworkSyncAssumption DEF AInv, Live, NeutronNet
  <1>5. LiveApart'
    BY <1>1, <1>4 DEF AInv, LiveApart, Free
  <1>6. Work(w)'
    <2>1. \A x \in Vlans : ~ Has(n, x)'
      BY <1>1, <1>3, <1>4, AllSettled DEF Settled, Wants, Has, On
    <2>2. At(w)' = v
      BY <1>2, <1>3 DEF At, Leaving
    <2>3. \A ver \in {4, 6} : ~ InOrder(w, ver)'
      BY <1>3 DEF InOrder, Finishing, Serving, Clearing
    <2>4. /\ \A x \in Vlans : ~ Has(job[w].net, x)'
          /\ Live(job[w].net)' /\ neutron'[job'[w].net].vlan = v
      BY <1>2, <1>3, <1>4, <2>1 DEF Has, Live
    <2> QED BY <1>2, <1>3, <2>2, <2>3, <2>4, StartLabels
        DEF Work, Leaving, Coming, Going, Serving, Clearing
  <1> QED BY <1>1, <1>2, <1>4, <1>5, <1>6, Starting, StartLabels

LEMMA ChangeVlanTurn ==
  ASSUME AInv, Alone, IInv', NEW w \in Hooks, NEW n \in Nets, NEW v \in Vlans, ChangeVlan(w, n, v)
  PROVE  AInv'
  <1> DEFINE j == [NoJob EXCEPT !.op = "updateNet", !.net = n, !.vlan = v, !.old = neutron[n].vlan]
  <1>1. /\ UNCHANGED unifi /\ Run(w, "updFind", j) /\ Live(n) /\ Free(v)
        /\ neutron' = [neutron EXCEPT ![n].vlan = v]
    BY DEF ChangeVlan, UserStep
  <1>2. PICK old \in Vlans : old = neutron[n].vlan
    BY <1>1, Typed DEF AInv
  <1>3. j.net = n /\ j.vlan = v /\ j.old = old /\ old # v
    BY <1>1, <1>2 DEF NoJob, Free
  <1> HIDE DEF j
  <1>4. pc'[w] = "updFind" /\ job'[w] = j /\ pc[w] = "idle"
    BY <1>1, Typed DEF AInv, Run
  <1>5. /\ neutron'[n].vlan = v /\ Live(n)'
        /\ \A m \in Nets \ {n} : neutron'[m] = neutron[m] /\ (Live(m)' <=> Live(m))
    BY <1>1, Typed DEF AInv, Live, NeutronNet
  <1>6. LiveApart'
    BY <1>1, <1>5 DEF AInv, LiveApart, Free
  <1>7. Work(w)'
    <2>1. \A x \in Vlans : Has(n, x)' <=> x = old
      BY <1>1, <1>2, <1>4, AllSettled DEF Settled, Wants, Has, On
    <2>2. At(w)' = old
      BY <1>3, <1>4 DEF At, Leaving
    <2>3. \A ver \in {4, 6} : ~ InOrder(w, ver)'
      BY <1>4 DEF InOrder, Finishing, Serving, Clearing
    <2>4. /\ \A x \in Vlans : Has(job[w].net, x)' <=> x = old
          /\ Live(job[w].net)' /\ neutron'[job'[w].net].vlan = v
      BY <1>3, <1>4, <1>5, <2>1 DEF Has, Live
    <2> QED BY <1>3, <1>4, <2>2, <2>3, <2>4, StartLabels
        DEF Work, Leaving, Coming, Going, Serving, Clearing
  <1> QED BY <1>1, <1>3, <1>5, <1>6, <1>7, Starting, StartLabels

LEMMA DeleteNetworkTurn ==
  ASSUME AInv, Alone, IInv', NEW w \in Hooks, NEW n \in Nets, DeleteNetwork(w, n)
  PROVE  AInv'
  <1> DEFINE j == [NoJob EXCEPT !.op = "deleteNet", !.net = n, !.vlan = neutron[n].vlan]
  <1>1. /\ UNCHANGED unifi /\ Run(w, "delFind", j) /\ Live(n)
        /\ neutron' = [neutron EXCEPT ![n] = Gone]
    BY DEF DeleteNetwork, UserStep
  <1>2. PICK v \in Vlans : v = neutron[n].vlan
    BY <1>1, Typed DEF AInv
  <1>3. j.net = n /\ j.vlan = v
    BY <1>2 DEF NoJob
  <1> HIDE DEF j
  <1>4. pc'[w] = "delFind" /\ job'[w] = j /\ pc[w] = "idle"
    BY <1>1, Typed DEF AInv, Run
  <1>5. /\ ~ Live(n)'
        /\ \A m \in Nets \ {n} : neutron'[m] = neutron[m] /\ (Live(m)' <=> Live(m))
    BY <1>1, Typed, NetworkSyncAssumption DEF AInv, Live
  <1>6. LiveApart'
    BY <1>5 DEF AInv, LiveApart
  <1>7. Work(w)'
    <2>1. \A x \in Vlans : Has(n, x)' <=> x = v
      BY <1>1, <1>2, <1>4, AllSettled DEF Settled, Wants, Has, On
    <2>2. At(w)' = v
      BY <1>3, <1>4 DEF At, Leaving
    <2>3. \A ver \in {4, 6} : ~ InOrder(w, ver)'
      BY <1>4 DEF InOrder, Finishing, Serving, Clearing
    <2>4. /\ \A x \in Vlans : Has(job[w].net, x)' <=> x = v
          /\ ~ Live(job[w].net)'
      BY <1>3, <1>4, <1>5, <2>1 DEF Has, Live
    <2> QED BY <1>3, <1>4, <2>2, <2>3, <2>4, StartLabels
        DEF Work, Leaving, Coming, Going, Serving, Clearing
  <1> QED BY <1>1, <1>3, <1>5, <1>6, <1>7, Starting, StartLabels

(* The subnet hooks find the network's object as it should be, but for the  *)
(* version that is no subnet's any more.                                    *)
LEMMA SubnetTurn ==
  ASSUME AInv, Alone, IInv', NEW w \in Hooks, NEW n \in Nets, NEW ver \in Versions,
         CreateSubnet(w, n, ver) \/ UpdateSubnet(w, n, ver) \/ DeleteSubnet(w, n, ver)
  PROVE  AInv'
  <1>1. PICK o, l, s : /\ UNCHANGED unifi /\ Run(w, l, SubnetJob(o, n, ver)) /\ Live(n)
                       /\ s \subseteq Versions
                       /\ neutron' = [neutron EXCEPT ![n].subnets = s]
                       /\ \/ l = "subFind" /\ ver \in s /\ neutron[n].subnets \subseteq s
                          \/ l = "clrFind" /\ s = neutron[n].subnets \ {ver}
    <2> DEFINE t == neutron[n].subnets
    <2>1. UNCHANGED unifi /\ Live(n) /\ t \subseteq Versions
      BY Typed DEF AInv, CreateSubnet, UpdateSubnet, DeleteSubnet, UserStep, Live, NeutronNet
    <2>2. CASE CreateSubnet(w, n, ver)
      <3>1. /\ Run(w, "subFind", SubnetJob("createSubnet", n, ver)) /\ t \cup {ver} \subseteq Versions
            /\ neutron' = [neutron EXCEPT ![n].subnets = t \cup {ver}]
        BY <2>1, <2>2 DEF CreateSubnet
      <3> QED BY <2>1, <3>1
    <2>3. CASE UpdateSubnet(w, n, ver)
      <3>1. Run(w, "subFind", SubnetJob("updateSubnet", n, ver)) /\ ver \in t
        BY <2>3 DEF UpdateSubnet
      <3>2. neutron' = [neutron EXCEPT ![n].subnets = t]
        BY <2>1, <2>3, Typed DEF AInv, UpdateSubnet, Live, NeutronNet
      <3> QED BY <2>1, <3>1, <3>2
    <2>4. CASE DeleteSubnet(w, n, ver)
      <3>1. /\ Run(w, "clrFind", SubnetJob("deleteSubnet", n, ver)) /\ t \ {ver} \subseteq Versions
            /\ neutron' = [neutron EXCEPT ![n].subnets = t \ {ver}]
        BY <2>1, <2>4 DEF DeleteSubnet
      <3> QED BY <2>1, <3>1
    <2> QED BY <2>2, <2>3, <2>4
  <1> DEFINE j == SubnetJob(o, n, ver)
  <1>2. PICK v \in Vlans : v = neutron[n].vlan
    BY <1>1, Typed DEF AInv
  <1>3. j.net = n /\ j.vlan = v /\ j.ver = ver
    BY <1>2 DEF NoJob, SubnetJob
  <1> HIDE DEF j
  <1>4. pc'[w] = l /\ job'[w] = j /\ pc[w] = "idle" /\ l \in {"subFind", "clrFind"}
    BY <1>1, Typed DEF AInv, Run, j
  <1>5. /\ neutron'[n].vlan = v /\ neutron'[n].subnets = s /\ Live(n)'
        /\ \A m \in Nets \ {n} : neutron'[m] = neutron[m] /\ (Live(m)' <=> Live(m))
    BY <1>1, <1>2, Typed DEF AInv, Live, NeutronNet
  <1>6. SubnetsOf(n) = neutron[n].subnets /\ SubnetsOf(n)' = s
    BY <1>1, <1>5 DEF SubnetsOf
  <1>7. LiveApart'
    BY <1>1, <1>2, <1>5 DEF AInv, LiveApart
  <1>8. Work(w)'
    <2>1. \A x \in Vlans : Has(n, x)' <=> x = v
      BY <1>1, <1>2, <1>4, AllSettled DEF Settled, Wants, Has, On
    <2>2. At(w)' = v
      BY <1>3, <1>4 DEF At, Leaving
    <2>3. ASSUME NEW k \in {4, 6}, InOrder(w, k)'
          PROVE  Clean(n, k)'
      <3>1. Clean(n, k)
        BY <1>4, AllSettled DEF Settled
      <3>2. k \notin s => k \notin neutron[n].subnets
        BY <1>1, <1>3, <1>4, <2>3 DEF InOrder, Finishing, Serving, Clearing
      <3>3. \A u \in Uids : Serves(u, n)' <=> Serves(u, n)
        BY <1>1, <1>2, <1>5 DEF Serves
      <3> QED BY <1>1, <1>5, <1>6, <3>1, <3>2, <3>3 DEF Clean, Off
    <2>4. /\ \A x \in Vlans : Has(job[w].net, x)' <=> x = v
          /\ Live(job[w].net)' /\ neutron'[job'[w].net].vlan = v
          /\ SubnetsOf(job[w].net)' = s
          /\ \A k \in {4, 6} : InOrder(w, k)' => Clean(job[w].net, k)'
      BY <1>3, <1>4, <1>5, <1>6, <2>1, <2>3 DEF Has, Live, SubnetsOf, Clean
    <2>5. (l \in Serving => ver \in s) /\ (l \in Clearing => ver \notin s)
      BY <1>1 DEF Serving, Clearing
    <2> QED BY <1>3, <1>4, <2>2, <2>4, <2>5, StartLabels
        DEF Work, Leaving, Coming, Going, Serving, Clearing
  <1> QED BY <1>1, <1>3, <1>4, <1>5, <1>7, <1>8, Starting, StartLabels DEF j

-----------------------------------------------------------------------------
(* The invariant holds.                                                     *)

LEMMA InitAlone == Init /\ Alone => AInv
  <1> SUFFICES ASSUME Init, Alone PROVE AInv
    OBVIOUS
  <1> USE NetworkSyncAssumption
  <1>1. IInv
    BY InitInv
  <1>2. unifi = HandMade /\ pc[Sync] = "off" /\ \A w \in Hooks : pc[w] = "idle"
    BY DEF Init, Boot, Alone, Quiet, Procs
  <1>3. \A n \in Nets : ~ Live(n)
    BY DEF Init, Live
  <1>4. Store
    BY <1>2 DEF Store, On, Alone, OneByHandPerVlan, NoneServes6
  <1>5. \A n \in Nets, v \in Vlans : ~ Has(n, v)
    <2>1. \A n \in Nets, v \in Vlans : DriverName(n, v) # ManualName
      BY DEF DriverName, DriverNames
    <2> QED BY <1>2, <2>1 DEF Has, On
  <1>6. LiveApart /\ \A n \in Nets : Settled(n)
    BY <1>3, <1>5 DEF LiveApart, Settled, Wants, Clean
  <1> QED BY <1>1, <1>2, <1>4, <1>6, Typed DEF AInv

LEMMA UserTurn ==
  ASSUME AInv, Alone, IInv', NEW w \in Hooks, UserAction(w)
  PROVE  AInv'
  BY CreateNetworkTurn, ChangeVlanTurn, DeleteNetworkTurn, SubnetTurn DEF UserAction

(* No pass ever starts, nobody edits objects and no process dies.           *)
LEMMA NothingElse ==
  ASSUME AInv, Alone
  PROVE  /\ ~ SyncStep /\ ~ CrashSync
         /\ \A w \in Hooks : ~ CrashHook(w)
         /\ \A u \in Uids : ~ RenameByHand(u) /\ ~ DeleteByHand(u)
  <1>1. ~ SyncStep
    BY DEF AInv, Alone, Quiet, SyncStep, Connect, StartPass, Refresh, NextNetwork, ReconcileStep, Post, Rename,
       Refind, AssignZone, ReadV4Subnets, DisableV4, ListSubnets, NextSubnet, PutSubnet, SubnetsDone,
       StartCleanup, NextOrphan, UnassignZone, Delete, FinishPass
  <1>2. ~ CrashSync /\ \A w \in Hooks : ~ CrashHook(w)
    BY NoFault DEF AInv, CrashSync, CrashHook
  <1>3. \A u \in Uids : ~ RenameByHand(u) /\ ~ DeleteByHand(u)
    BY DEF Alone, Quiet, RenameByHand, DeleteByHand, DriftByHand
  <1> QED BY <1>1, <1>2, <1>3

LEMMA HooksOnly ==
  ASSUME AInv, Alone, Next
  PROVE  \E w \in Hooks : HookStep(w) \/ UserAction(w)
  BY NothingElse DEF Next

LEMMA StutterAlone == AInv /\ UNCHANGED vars => AInv'
  <1> SUFFICES ASSUME AInv, UNCHANGED vars PROVE AInv'
    OBVIOUS
  <1>1. IInv'
    BY StutterInv DEF AInv
  <1>2. UNCHANGED <<unifi, neutron, pc, job, obj, raw>>
    BY DEF vars
  <1>3. \A w \in Hooks : Work(w) => Work(w)'
    BY <1>2 DEF Work, At, Holds, On, Has, InOrder, Clean, Live, SubnetsOf, Serves, Off
  <1> QED BY <1>1, <1>2, <1>3, SameStore DEF AInv, Busy

LEMMA NextAlone ==
  ASSUME AInv, Alone, [Next]_vars
  PROVE  AInv'
  <1>1. CASE UNCHANGED vars
    BY <1>1, StutterAlone
  <1>2. CASE Next
    <2>1. IInv'
      BY <1>2, NextInv DEF AInv
    <2> QED BY <1>2, <2>1, HooksOnly, HookTurn, UserTurn
  <1> QED BY <1>1, <1>2

AloneInv == Alone /\ AInv

LEMMA InvarianceAlone == Alone => (Spec => []AloneInv)
  <1>1. Init /\ Alone => AloneInv
    BY InitAlone DEF AloneInv
  <1>2. AloneInv /\ [Next]_vars => AloneInv'
    <2>1. Alone' <=> Alone
      BY DEF Alone, OneThread, Quiet, OneByHandPerVlan, NoneServes6
    <2> QED BY <2>1, NextAlone DEF AloneInv
  <1>3. Alone => []Alone
    <2>1. Alone => Alone'
      OBVIOUS
    <2> QED BY <2>1, PTL
  <1> QED BY <1>1, <1>2, <1>3, PTL DEF Spec

-----------------------------------------------------------------------------
(* What holds whenever no hook is running.                                  *)

LEMMA IdleSettled ==
  ASSUME AInv, Idle, NEW n \in Nets
  PROVE  Settled(n)
  BY Typed DEF AInv, Idle, Busy

(* The network hooks, one at a time, with all requests succeeding: between  *)
(* them the controller has one object for each Neutron network, with its    *)
(* VLAN and name, and none of the driver's for any other.                   *)
THEOREM ObjectsMirrored == Alone => (Spec => []HooksMirror)
  <1>1. AloneInv => HooksMirror
    <2> SUFFICES ASSUME AInv, Alone, Idle
                 PROVE  /\ \A n \in Nets : Ours(n) =>
                              \E u \in Uids : NamedFor(u, n) /\ \A x \in Uids : Serves(x, n) => x = u
                        /\ \A u \in Uids : unifi[u] # Absent /\ unifi[u].name \in DriverNames =>
                              \E n \in Nets : Ours(n) /\ NamedFor(u, n)
      BY DEF AloneInv, HooksMirror
    <2>1. ASSUME NEW n \in Nets, Ours(n)
          PROVE  \E u \in Uids : NamedFor(u, n) /\ \A x \in Uids : Serves(x, n) => x = u
      <3>1. neutron[n].vlan \in Vlans /\ Has(n, neutron[n].vlan)
        BY <2>1, IdleSettled, Typed DEF AInv, Ours, Settled, Wants
      <3>2. PICK u \in Uids : On(u, neutron[n].vlan) /\ unifi[u].name = DriverName(n, neutron[n].vlan)
        BY <3>1 DEF Has
      <3>3. \A x \in Uids : Serves(x, n) => x = u
        BY <3>1, <3>2 DEF Serves, On, AInv, Store
      <3> QED BY <3>2, <3>3 DEF NamedFor, Serves, On
    <2>2. ASSUME NEW u \in Uids, unifi[u] # Absent, unifi[u].name \in DriverNames
          PROVE  \E n \in Nets : Ours(n) /\ NamedFor(u, n)
      <3>1. PICK n \in Nets : unifi[u].name = DriverName(n, unifi[u].vlan)
        BY <2>2, NetworkSyncAssumption DEF AInv, Store
      <3>2. unifi[u].vlan \in Vlans
        BY <2>2, Typed DEF AInv, Conf
      <3>3. Has(n, unifi[u].vlan)
        BY <2>2, <3>1 DEF Has, On
      <3>4. Wants(n, unifi[u].vlan)
        BY <3>2, <3>3, IdleSettled DEF Settled
      <3> QED BY <2>2, <3>1, <3>4 DEF Wants, Ours, NamedFor, Serves, Alone
    <2> QED BY <2>1, <2>2
  <1> QED BY <1>1, InvarianceAlone, PTL

(* The subnet hooks and the IPv4 disablement under the same hypotheses: no  *)
(* object of a network serves a subnet that Neutron does not have.          *)
THEOREM NoStaleSubnets == Alone => (Spec => []HooksServeNoStaleSubnet)
  <1>1. AloneInv => HooksServeNoStaleSubnet
    <2> SUFFICES ASSUME AInv, Idle, NEW n \in Nets, NEW u \in Uids, Ours(n), Serves(u, n)
                 PROVE  /\ 4 \notin SubnetsOf(n) => unifi[u].v4 \in {"synthetic", "cleared"}
                        /\ 6 \notin SubnetsOf(n) => unifi[u].v6 \in {"none", "cleared"}
      BY DEF AloneInv, HooksServeNoStaleSubnet
    <2>1. Clean(n, 4) /\ Clean(n, 6) /\ Live(n)
      BY IdleSettled DEF Settled, Ours
    <2>2. 4 \notin SubnetsOf(n) => unifi[u].v4 \in {"synthetic", "cleared"}
      BY <2>1 DEF Clean, Off
    <2>3. 6 \notin SubnetsOf(n) => unifi[u].v6 \in {"none", "cleared"}
      BY <2>1 DEF Clean, Off
    <2> QED BY <2>2, <2>3
  <1> QED BY <1>1, InvarianceAlone, PTL

-----------------------------------------------------------------------------
(* The refinement: what is wanted, what there is, and who is at work.       *)

WantMap == [n \in Nets |-> IF Ours(n) THEN neutron[n].vlan ELSE NoVlan]
HaveMap == {e \in Nets \X Vlans : \E u \in Uids :
               unifi[u] # Absent /\ unifi[u].vlan = e[2] /\ unifi[u].name = DriverName(e[1], e[2])}
BusyMap == {job[w].net : w \in {x \in Hooks : pc[x] # "idle"}}

LEMMA WantIs ==
  ASSUME AInv, Alone, NEW n \in Nets
  PROVE  /\ WantMap[n] \in Vlans \cup {NoVlan}
         /\ \A v \in Vlans : WantMap[n] = v <=> Wants(n, v)
         /\ WantMap[n] = NoVlan <=> ~ Live(n)
  BY NetworkSyncAssumption, Typed DEF AInv, WantMap, Wants, Ours, Alone

LEMMA HaveIs ==
  /\ HaveMap \subseteq Nets \X Vlans
  /\ \A n \in Nets, v \in Vlans : <<n, v>> \in HaveMap <=> Has(n, v)
  BY DEF HaveMap, Has, On

LEMMA BusyIs ==
  ASSUME Alone, NEW w \in Hooks
  PROVE  BusyMap = IF pc[w] = "idle" THEN {} ELSE {job[w].net}
  BY DEF BusyMap, Alone, OneThread

(* How a hook goes on: never back to an earlier phase.                      *)
Onward(w, l) ==
    /\ l # "idle"
    /\ pc[w] \in Leaving => l \in Leaving \cup Coming
    /\ pc[w] \notin Leaving => l \notin Leaving
    /\ pc[w] \notin Leaving \cup Coming => l \notin Coming

GoesOn(w) ==
    \/ pc[w] \notin Leaving /\ Leave(w)
    \/ \E l : Onward(w, l) /\ (Goto(w, l) \/ \E u, r : Hold(w, u, r, l))

LEMMA LookupsGoOn ==
  ASSUME AInv, Alone, NEW w \in Hooks,
         \/ Find(w) \/ Refind(w) \/ ReadV4Subnets(w) \/ FindOld(w)
         \/ FindDoomed(w) \/ FindForSubnet(w) \/ FindToClear(w)
  PROVE  GoesOn(w)
  <1> USE NoFault, Typed DEF AInv, Get, GoesOn
  <1>1. CASE Find(w)
    <2>1. \A j, r : FirstWrite(j, r) \notin Leaving \cup {"idle"}
      BY DEF FirstWrite, AfterName, Leaving
    <2> QED BY <1>1, <2>1 DEF Find, Onward, Leaving, Coming
  <1>2. CASE Refind(w) \/ ReadV4Subnets(w)
    <2>1. pc[w] \in {"refind", "v4read"} /\ w # Sync
      BY <1>2 DEF Refind, ReadV4Subnets
    <2>2. \A r : Onward(w, AfterName(r)) /\ Onward(w, "v4put") /\ pc[w] \notin Leaving
      BY <2>1 DEF AfterName, Onward, Leaving, Coming
    <2> QED BY <1>2, <2>1, <2>2 DEF Refind, ReadV4Subnets, Reconciled
  <1>3. CASE FindOld(w)
    <2>1. Onward(w, "find") /\ Onward(w, "updDelete")
      BY <1>3 DEF FindOld, Onward, Leaving, Coming
    <2> QED BY <1>3, <2>1 DEF FindOld
  <1>4. CASE FindDoomed(w) \/ FindForSubnet(w) \/ FindToClear(w)
    <2>1. pc[w] \in {"delFind", "subFind", "clrFind"}
      BY <1>4 DEF FindDoomed, FindForSubnet, FindToClear
    <2>2. /\ \A r : Onward(w, FirstDelete(r))
          /\ Onward(w, "subPut") /\ Onward(w, "clrPut") /\ pc[w] \notin Leaving
      BY <2>1 DEF FirstDelete, Onward, Leaving, Coming
    <2> QED BY <1>4, <2>2 DEF FindDoomed, FindForSubnet, FindToClear
  <1> QED BY <1>1, <1>2, <1>3, <1>4

LEMMA WritesGoOn ==
  ASSUME AInv, Alone, NEW w \in Hooks,
         \/ Post(w) \/ Rename(w) \/ AssignZone(w) \/ DisableV4(w) \/ DeleteOld(w)
         \/ UnassignZone(w) \/ Delete(w) \/ PutSubnet(w) \/ ClearSubnet(w)
  PROVE  GoesOn(w)
  <1>1. w # Sync /\ ~ Fault
    BY NoFault, Typed DEF AInv
  <1>2. pc[w] \in Holding => unifi[obj[w]] # Absent
    BY HeldIs DEF Holds, On
  <1>3. CASE Post(w)
    <2>1. ~ Taken(job[w].vlan)
      BY <1>3 DEF Post, AInv, Work, Taken, On
    <2>2. Goto(w, "refind") /\ Onward(w, "refind")
      BY <1>1, <1>3, <2>1 DEF Post, Onward, Leaving, Coming
    <2> QED BY <2>2 DEF GoesOn
  <1>4. CASE Rename(w)
    <2>1. Goto(w, "refind") /\ Onward(w, "refind")
      BY <1>1, <1>2, <1>4 DEF Rename, Put, Holding, Onward, Leaving, Coming
    <2> QED BY <2>1 DEF GoesOn
  <1>5. CASE AssignZone(w)
    <2>1. Goto(w, "v4read") /\ Onward(w, "v4read")
      BY <1>1, <1>2, <1>5 DEF AssignZone, Put, Holding, Onward, Leaving, Coming
    <2> QED BY <2>1 DEF GoesOn
  <1>6. CASE DeleteOld(w)
    <2>1. Goto(w, "find") /\ Onward(w, "find")
      BY <1>1, <1>2, <1>6 DEF DeleteOld, Put, Holding, Onward, Leaving, Coming
    <2> QED BY <2>1 DEF GoesOn
  <1>7. CASE UnassignZone(w)
    <2>1. Goto(w, "delete") /\ Onward(w, "delete")
      BY <1>1, <1>2, <1>7 DEF UnassignZone, Put, Holding, Onward, Leaving, Coming
    <2> QED BY <2>1 DEF GoesOn
  <1>8. CASE DisableV4(w)
    <2>1. Leave(w) /\ pc[w] \notin Leaving
      BY <1>1, <1>2, <1>8 DEF DisableV4, Put, Reconciled, Holding, Leaving
    <2> QED BY <2>1 DEF GoesOn
  <1>9. CASE Delete(w)
    <2>1. Leave(w) /\ pc[w] \notin Leaving
      BY <1>1, <1>2, <1>9 DEF Delete, Put, Leave, Holding, Leaving
    <2> QED BY <2>1 DEF GoesOn
  <1>10. CASE PutSubnet(w)
    <2>1. Leave(w) /\ pc[w] \notin Leaving
      BY <1>1, <1>2, <1>10 DEF PutSubnet, Put, Holding, Leaving
    <2> QED BY <2>1 DEF GoesOn
  <1>11. CASE ClearSubnet(w)
    <2>1. Leave(w) /\ pc[w] \notin Leaving
      BY <1>1, <1>2, <1>11 DEF ClearSubnet, Put, Holding, Leaving
    <2> QED BY <2>1 DEF GoesOn
  <1> QED BY <1>3, <1>4, <1>5, <1>6, <1>7, <1>8, <1>9, <1>10, <1>11

LEMMA HookGoesOn ==
  ASSUME AInv, Alone, NEW w \in Hooks, HookStep(w)
  PROVE  /\ GoesOn(w) /\ pc[w] # "idle"
  <1>1. GoesOn(w)
    BY LookupsGoOn, WritesGoOn DEF HookStep, ReconcileStep
  <1>2. pc[w] # "idle"
    BY DEF HookStep, ReconcileStep, Find, Refind, ReadV4Subnets, FindOld, FindDoomed, FindForSubnet,
       FindToClear, Post, Rename, AssignZone, DisableV4, DeleteOld, UnassignZone, Delete, PutSubnet,
       ClearSubnet
  <1> QED BY <1>1, <1>2

(* What a step of a hook does to the entries of its network.                *)
LEMMA EntriesMove ==
  ASSUME AInv, AInv', Alone, NEW w \in Hooks, GoesOn(w), pc[w] # "idle", NEW n \in Nets, n = job[w].net
  PROVE  /\ neutron' = neutron
         /\ pc'[w] = "idle" \/ (pc'[w] # "idle" /\ job'[w].net = n)
         /\ pc'[w] = "idle" => Settled(n)'
         /\ \/ \A v \in Vlans : Has(n, v)' <=> Has(n, v)
            \/ Live(n) /\ \A v \in Vlans : Has(n, v)' <=> Has(n, v) \/ Wants(n, v)
            \/ \E y \in Vlans : ~ Wants(n, y) /\ \A v \in Vlans : Has(n, v)' <=> Has(n, v) /\ v # y
  <1>1. Work(w) /\ w # Sync /\ neutron' = neutron
    BY Typed DEF AInv, GoesOn, Goto, Hold, Leave, LeaveTo
  <1>2. PICK v, old : v = job[w].vlan /\ old = job[w].old
    OBVIOUS
  <1>3. /\ v \in Vlans
        /\ \A x \in Vlans : Wants(n, x) <=> Live(n) /\ x = v
        /\ pc[w] \in Leaving => Live(n) /\ old \in Vlans /\ old # v
        /\ \A x \in Vlans : pc[w] \in Leaving => (Has(n, x) <=> x = old)
        /\ \A x \in Vlans : pc[w] \in Coming => Live(n) /\ ~ Has(n, x)
        /\ \A x \in Vlans : pc[w] \notin Leaving \cup Coming => (Has(n, x) <=> x = v)
    <2>1. pc[w] \in Leaving => pc[w] \notin Coming /\ pc[w] \notin Going
      BY DEF Leaving, Coming, Going
    <2>2. pc[w] \in Coming => pc[w] \notin Going
      BY DEF Coming, Going
    <2> QED BY <1>1, <1>2, <2>1, <2>2 DEF Work, At, Wants
  <1>4. CASE pc[w] \notin Leaving /\ Leave(w)
    <2>1. pc'[w] = "idle"
      BY <1>1, <1>4, Typed DEF AInv, Leave, LeaveTo
    <2>2. Settled(n)'
      BY <2>1 DEF AInv, Busy, Alone, OneThread
    <2>3. \A x \in Vlans : Has(n, x)' <=> Wants(n, x)
      BY <1>1, <2>2 DEF Settled, Wants, Live
    <2>4. CASE Live(n)
      BY <1>1, <1>3, <1>4, <2>1, <2>2, <2>3, <2>4
    <2>5. CASE ~ Live(n)
      <3>1. \A x \in Vlans : Has(n, x)' <=> Has(n, x) /\ x # v
        BY <1>3, <1>4, <2>3, <2>5
      <3> QED BY <1>1, <1>3, <2>1, <2>2, <2>5, <3>1
    <2> QED BY <2>4, <2>5
  <1>5. ASSUME NEW l, Onward(w, l), Goto(w, l) \/ \E u, r : Hold(w, u, r, l)
        PROVE  /\ pc'[w] # "idle" /\ job'[w].net = n
               /\ \/ \A x \in Vlans : Has(n, x)' <=> Has(n, x)
                  \/ Live(n) /\ \A x \in Vlans : Has(n, x)' <=> Has(n, x) \/ Wants(n, x)
                  \/ \E y \in Vlans : ~ Wants(n, y) /\ \A x \in Vlans : Has(n, x)' <=> Has(n, x) /\ x # y
    <2>1. pc'[w] = l /\ job' = job /\ l # "idle"
      BY <1>5, Typed DEF AInv, Goto, Hold, Onward
    <2>2. Work(w)'
      BY <1>5, <2>1 DEF AInv
    <2>3. /\ \A x \in Vlans : l \in Leaving => (Has(n, x)' <=> x = old)
          /\ \A x \in Vlans : l \in Coming => ~ Has(n, x)'
          /\ \A x \in Vlans : l \notin Leaving \cup Coming => (Has(n, x)' <=> x = v)
      <3>1. l \in Leaving => l \notin Coming
        BY DEF Leaving, Coming
      <3>2. \A x \in Vlans : Has(n, x)' <=> Has(job[w].net, x)'
        BY <2>1 DEF Has
      <3> QED BY <1>2, <2>1, <2>2, <3>1, <3>2 DEF Work, At
    <2>4. CASE pc[w] \in Leaving
      <3>1. l \in Leaving \cup Coming /\ Live(n) /\ old \in Vlans /\ ~ Wants(n, old)
        BY <1>3, <1>5, <2>4 DEF Onward
      <3>2. CASE l \in Leaving
        BY <1>3, <1>5, <2>1, <2>3, <2>4, <3>2
      <3>3. CASE l \in Coming
        <4>1. \A x \in Vlans : Has(n, x)' <=> Has(n, x) /\ x # old
          BY <1>3, <2>3, <2>4, <3>3
        <4> QED BY <1>5, <2>1, <3>1, <4>1
      <3> QED BY <3>1, <3>2, <3>3
    <2>5. CASE pc[w] \in Coming
      <3>1. l \notin Leaving
        BY <1>5, <2>5 DEF Onward, Leaving, Coming
      <3>2. CASE l \in Coming
        BY <1>3, <1>5, <2>1, <2>3, <2>5, <3>2
      <3>3. CASE l \notin Coming
        <4>1. Live(n) /\ \A x \in Vlans : Has(n, x)' <=> Has(n, x) \/ Wants(n, x)
          BY <1>3, <2>3, <2>5, <3>1, <3>3
        <4> QED BY <1>5, <2>1, <4>1
      <3> QED BY <3>2, <3>3
    <2>6. CASE pc[w] \notin Leaving \cup Coming
      <3>1. l \notin Leaving \cup Coming
        BY <1>5, <2>6 DEF Onward
      <3> QED BY <1>3, <1>5, <2>1, <2>3, <2>6, <3>1
    <2> QED BY <2>4, <2>5, <2>6
  <1>6. CASE \E l : Onward(w, l) /\ (Goto(w, l) \/ \E u, r : Hold(w, u, r, l))
    BY <1>1, <1>5, <1>6
  <1> QED BY <1>4, <1>6 DEF GoesOn

LEMMA InitMirrors == Init /\ Alone => Mirroring!Init
  <1> SUFFICES ASSUME Init, Alone PROVE Mirroring!Init
    OBVIOUS
  <1>1. AInv /\ (\A n \in Nets : ~ Live(n)) /\ \A w \in Hooks : pc[w] = "idle"
    BY InitAlone, NetworkSyncAssumption DEF Init, Live, Procs
  <1>2. WantMap = [n \in Nets |-> NoVlan]
    BY <1>1 DEF WantMap, Ours
  <1>3. HaveMap = {}
    <2>1. \A n \in Nets : Settled(n)
      BY <1>1 DEF AInv, Busy
    <2>2. \A n \in Nets, v \in Vlans : ~ Has(n, v)
      BY <1>1, <2>1 DEF Settled, Wants
    <2> QED BY <2>2, HaveIs
  <1>4. BusyMap = {}
    BY <1>1 DEF BusyMap
  <1> QED BY <1>2, <1>3, <1>4 DEF Mirroring!Init, WantMap, HaveMap, BusyMap

(* Two sets of entries are told apart network by network.                   *)
LEMMA SameEntries ==
  ASSUME NEW S, NEW T, S \subseteq Nets \X Vlans, T \subseteq Nets \X Vlans,
         \A m \in Nets, v \in Vlans : <<m, v>> \in S <=> <<m, v>> \in T
  PROVE  S = T
  OBVIOUS

LEMMA HaveIsNext ==
  /\ HaveMap' \subseteq Nets \X Vlans
  /\ \A n \in Nets, v \in Vlans : <<n, v>> \in HaveMap' <=> Has(n, v)'
  BY DEF HaveMap, Has, On

LEMMA HookMirrors ==
  ASSUME AInv, AInv', Alone, NEW w \in Hooks, HookStep(w)
  PROVE  \E n \in Nets : Mirroring!Work(n)
  <1>1. GoesOn(w) /\ pc[w] # "idle"
    BY HookGoesOn
  <1>2. PICK n \in Nets : n = job[w].net
    BY <1>1 DEF AInv, Work
  <1>3. /\ neutron' = neutron
        /\ pc'[w] = "idle" \/ (pc'[w] # "idle" /\ job'[w].net = n)
        /\ pc'[w] = "idle" => Settled(n)'
        /\ \/ \A v \in Vlans : Has(n, v)' <=> Has(n, v)
           \/ Live(n) /\ \A v \in Vlans : Has(n, v)' <=> Has(n, v) \/ Wants(n, v)
           \/ \E y \in Vlans : ~ Wants(n, y) /\ \A v \in Vlans : Has(n, v)' <=> Has(n, v) /\ v # y
    BY <1>1, <1>2, EntriesMove
  <1>4. WantMap' = WantMap
    BY <1>3 DEF WantMap, Ours, Live
  <1>5. BusyMap = {n} /\ BusyMap' = IF pc'[w] = "idle" THEN {} ELSE {n}
    <2>1. BusyMap' = IF pc'[w] = "idle" THEN {} ELSE {job'[w].net}
      BY DEF BusyMap, Alone, OneThread
    <2> QED BY <1>1, <1>2, <1>3, <2>1, BusyIs
  <1>6. \A m \in Nets \ {n}, v \in Vlans : <<m, v>> \in HaveMap' <=> <<m, v>> \in HaveMap
    <2> SUFFICES ASSUME NEW m \in Nets \ {n}, NEW v \in Vlans
                 PROVE  Has(m, v)' <=> Has(m, v)
      BY HaveIs, HaveIsNext
    <2>1. Settled(m)
      BY <1>1, <1>2, OthersElsewhere
    <2>2. Settled(m)'
      BY <1>3 DEF AInv, Busy, Alone, OneThread
    <2>3. Wants(m, v)' <=> Wants(m, v)
      BY <1>3 DEF Wants, Live
    <2> QED BY <2>1, <2>2, <2>3 DEF Settled
  <1>7. /\ \/ UNCHANGED HaveMap
           \/ WantMap[n] # NoVlan /\ HaveMap' = HaveMap \cup {<<n, WantMap[n]>>}
           \/ \E y \in Vlans : WantMap[n] # y /\ HaveMap' = HaveMap \ {<<n, y>>}
    <2>1. CASE \A v \in Vlans : Has(n, v)' <=> Has(n, v)
      <3>1. \A m \in Nets, v \in Vlans : <<m, v>> \in HaveMap' <=> <<m, v>> \in HaveMap
        BY <1>6, <2>1, HaveIs, HaveIsNext
      <3>2. HaveMap' = HaveMap
        BY <3>1, HaveIs, HaveIsNext, SameEntries
      <3> QED BY <3>2
    <2>2. CASE Live(n) /\ \A v \in Vlans : Has(n, v)' <=> Has(n, v) \/ Wants(n, v)
      <3>1. WantMap[n] \in Vlans /\ WantMap[n] # NoVlan /\ \A v \in Vlans : Wants(n, v) <=> v = WantMap[n]
        BY <2>2, WantIs
      <3>2. \A m \in Nets, v \in Vlans :
               <<m, v>> \in HaveMap' <=> <<m, v>> \in HaveMap \cup {<<n, WantMap[n]>>}
        BY <1>6, <2>2, <3>1, HaveIs, HaveIsNext
      <3>3. HaveMap' = HaveMap \cup {<<n, WantMap[n]>>}
        <4>1. HaveMap \cup {<<n, WantMap[n]>>} \subseteq Nets \X Vlans
          BY <3>1, HaveIs
        <4> QED BY <3>2, <4>1, HaveIsNext, SameEntries
      <3> QED BY <3>1, <3>3
    <2>3. ASSUME NEW y \in Vlans, ~ Wants(n, y), \A v \in Vlans : Has(n, v)' <=> Has(n, v) /\ v # y
          PROVE  WantMap[n] # y /\ HaveMap' = HaveMap \ {<<n, y>>}
      <3>1. WantMap[n] # y
        BY <2>3, WantIs
      <3>2. \A m \in Nets, v \in Vlans :
               <<m, v>> \in HaveMap' <=> <<m, v>> \in HaveMap \ {<<n, y>>}
        BY <1>6, <2>3, HaveIs, HaveIsNext
      <3>3. HaveMap' = HaveMap \ {<<n, y>>}
        <4>1. HaveMap \ {<<n, y>>} \subseteq Nets \X Vlans
          BY HaveIs
        <4> QED BY <3>2, <4>1, HaveIsNext, SameEntries
      <3> QED BY <3>1, <3>3
    <2> QED BY <1>3, <2>1, <2>2, <2>3
  <1>8. \/ UNCHANGED BusyMap
        \/ /\ BusyMap' = BusyMap \ {n}
           /\ \A v \in Vlans : <<n, v>> \in HaveMap' <=> WantMap'[n] = v
    <2>1. CASE pc'[w] # "idle"
      BY <1>5, <2>1
    <2>2. CASE pc'[w] = "idle"
      <3>1. BusyMap' = BusyMap \ {n}
        BY <1>5, <2>2
      <3>2. \A v \in Vlans : Has(n, v)' <=> Wants(n, v)
        BY <1>3, <2>2 DEF Settled, Wants, Live
      <3>3. \A v \in Vlans : <<n, v>> \in HaveMap' <=> WantMap'[n] = v
        BY <1>4, <3>2, WantIs, HaveIsNext
      <3> QED BY <3>1, <3>3
    <2> QED BY <2>1, <2>2
  <1>9. n \in BusyMap
    BY <1>5
  <1> USE DEF WantMap, HaveMap, BusyMap
  <1>10. Mirroring!StayOrRest(n)
    BY <1>8 DEF Mirroring!StayOrRest, Mirroring!Mirrored
  <1>11. \/ Mirroring!Add(n)
         \/ \E v \in Vlans : Mirroring!Remove(n, v)
         \/ n \in BusyMap /\ UNCHANGED <<WantMap, HaveMap>>
    BY <1>4, <1>7, <1>9 DEF Mirroring!Add, Mirroring!Remove
  <1> QED BY <1>10, <1>11 DEF Mirroring!Work

LEMMA StartsOn ==
  ASSUME AInv, NEW w \in Hooks, NEW l, l # "idle", NEW j, Run(w, l, j)
  PROVE  pc[w] = "idle" /\ pc'[w] # "idle" /\ job'[w] = j
  BY Typed DEF AInv, Run

LEMMA UserStarts ==
  ASSUME AInv, Alone, NEW w \in Hooks, UserAction(w)
  PROVE  \E n \in Nets :
            /\ UNCHANGED unifi
            /\ \A m \in Nets \ {n} : neutron'[m] = neutron[m]
            /\ pc[w] = "idle" /\ pc'[w] # "idle" /\ job'[w].net = n
  <1>1. PICK n \in Nets : \E l, j :
            /\ l # "idle" /\ UNCHANGED unifi /\ Run(w, l, j) /\ j.net = n
            /\ \A m \in Nets \ {n} : neutron'[m] = neutron[m]
    <2>1. ASSUME NEW n \in Nets, NEW v \in Vlans, CreateNetwork(w, n, v)
          PROVE  \E j : /\ UNCHANGED unifi /\ Run(w, "find", j) /\ j.net = n
                        /\ \A m \in Nets \ {n} : neutron'[m] = neutron[m]
      <3> DEFINE j == [NoJob EXCEPT !.op = "createNet", !.net = n, !.vlan = v]
      <3>1. /\ UNCHANGED unifi /\ Run(w, "find", j)
            /\ neutron' = [neutron EXCEPT ![n] = [vlan |-> v, subnets |-> {}]]
        BY <2>1 DEF CreateNetwork, UserStep, Alone
      <3>2. j.net = n
        BY DEF NoJob
      <3>3. \A m \in Nets \ {n} : neutron'[m] = neutron[m]
        BY <3>1, Typed DEF AInv
      <3> QED BY <3>1, <3>2, <3>3
    <2>2. ASSUME NEW n \in Nets, NEW v \in Vlans, ChangeVlan(w, n, v)
          PROVE  \E j : /\ UNCHANGED unifi /\ Run(w, "updFind", j) /\ j.net = n
                        /\ \A m \in Nets \ {n} : neutron'[m] = neutron[m]
      <3> DEFINE j == [NoJob EXCEPT !.op = "updateNet", !.net = n, !.vlan = v, !.old = neutron[n].vlan]
      <3>1. /\ UNCHANGED unifi /\ Run(w, "updFind", j)
            /\ neutron' = [neutron EXCEPT ![n].vlan = v]
        BY <2>2 DEF ChangeVlan, UserStep
      <3>2. j.net = n
        BY DEF NoJob
      <3>3. \A m \in Nets \ {n} : neutron'[m] = neutron[m]
        BY <3>1, Typed DEF AInv
      <3> QED BY <3>1, <3>2, <3>3
    <2>3. ASSUME NEW n \in Nets, DeleteNetwork(w, n)
          PROVE  \E j : /\ UNCHANGED unifi /\ Run(w, "delFind", j) /\ j.net = n
                        /\ \A m \in Nets \ {n} : neutron'[m] = neutron[m]
      <3> DEFINE j == [NoJob EXCEPT !.op = "deleteNet", !.net = n, !.vlan = neutron[n].vlan]
      <3>1. /\ UNCHANGED unifi /\ Run(w, "delFind", j)
            /\ neutron' = [neutron EXCEPT ![n] = Gone]
        BY <2>3 DEF DeleteNetwork, UserStep
      <3>2. j.net = n
        BY DEF NoJob
      <3>3. \A m \in Nets \ {n} : neutron'[m] = neutron[m]
        BY <3>1, Typed DEF AInv
      <3> QED BY <3>1, <3>2, <3>3
    <2>4. ASSUME NEW n \in Nets, NEW ver \in Versions,
                 CreateSubnet(w, n, ver) \/ UpdateSubnet(w, n, ver) \/ DeleteSubnet(w, n, ver)
          PROVE  \E l, j :
                    /\ l # "idle" /\ UNCHANGED unifi /\ Run(w, l, j) /\ j.net = n
                    /\ \A m \in Nets \ {n} : neutron'[m] = neutron[m]
      <3>1. PICK o, l :
               /\ l # "idle" /\ UNCHANGED unifi /\ Run(w, l, SubnetJob(o, n, ver))
               /\ \A m \in Nets \ {n} : neutron'[m] = neutron[m]
        <4>1. CASE CreateSubnet(w, n, ver)
          <5> DEFINE s == neutron[n].subnets \cup {ver}
          <5>1. /\ UNCHANGED unifi /\ Run(w, "subFind", SubnetJob("createSubnet", n, ver))
                /\ neutron' = [neutron EXCEPT ![n].subnets = s]
            BY <4>1 DEF CreateSubnet, UserStep
          <5>2. \A m \in Nets \ {n} : neutron'[m] = neutron[m]
            BY <5>1, Typed DEF AInv
          <5> QED BY <5>1, <5>2
        <4>2. CASE UpdateSubnet(w, n, ver)
          <5>1. /\ UNCHANGED <<unifi, neutron>>
                /\ Run(w, "subFind", SubnetJob("updateSubnet", n, ver))
            BY <4>2 DEF UpdateSubnet, UserStep
          <5>2. \A m \in Nets \ {n} : neutron'[m] = neutron[m]
            BY <5>1, Typed DEF AInv
          <5> QED BY <5>1, <5>2
        <4>3. CASE DeleteSubnet(w, n, ver)
          <5> DEFINE s == neutron[n].subnets \ {ver}
          <5>1. /\ UNCHANGED unifi /\ Run(w, "clrFind", SubnetJob("deleteSubnet", n, ver))
                /\ neutron' = [neutron EXCEPT ![n].subnets = s]
            BY <4>3 DEF DeleteSubnet, UserStep
          <5>2. \A m \in Nets \ {n} : neutron'[m] = neutron[m]
            BY <5>1, Typed DEF AInv
          <5> QED BY <5>1, <5>2
        <4> QED BY <2>4, <4>1, <4>2, <4>3
      <3>2. SubnetJob(o, n, ver).net = n
        BY DEF SubnetJob, NoJob
      <3> QED BY <3>1, <3>2
    <2> QED BY <2>1, <2>2, <2>3, <2>4 DEF UserAction
  <1>2. pc[w] = "idle" /\ pc'[w] # "idle" /\ job'[w].net = n
    BY <1>1, StartsOn
  <1> QED BY <1>1, <1>2

LEMMA UserMirrors ==
  ASSUME AInv, AInv', Alone, NEW w \in Hooks, UserAction(w)
  PROVE  \E n \in Nets : \E v \in Vlans \cup {NoVlan} : Mirroring!Begin(n, v)
  <1>1. PICK n \in Nets :
            /\ UNCHANGED unifi
            /\ \A m \in Nets \ {n} : neutron'[m] = neutron[m]
            /\ pc[w] = "idle" /\ pc'[w] # "idle" /\ job'[w].net = n
    BY UserStarts
  <1>2. BusyMap = {} /\ BusyMap' = {n}
    BY <1>1 DEF BusyMap, Alone, OneThread
  <1>3. HaveMap' = HaveMap
    BY <1>1 DEF HaveMap
  <1>4. PICK v \in Vlans \cup {NoVlan} : WantMap' = [WantMap EXCEPT ![n] = v]
    <2>1. WantMap'[n] \in Vlans \cup {NoVlan}
      <3>1. Live(n)' => neutron'[n].vlan \in Vlans
        BY DEF AInv, IInv, ProcInv, StoreInv, Live, NeutronNet
      <3> QED BY <3>1 DEF WantMap, Ours
    <2>2. \A m \in Nets \ {n} : WantMap'[m] = WantMap[m]
      BY <1>1 DEF WantMap, Ours, Live
    <2>3. WantMap' = [WantMap EXCEPT ![n] = WantMap'[n]]
      BY <2>2 DEF WantMap
    <2> QED BY <2>1, <2>3
  <1>5. Mirroring!Begin(n, v)
    BY <1>2, <1>3, <1>4 DEF Mirroring!Begin, WantMap, HaveMap, BusyMap
  <1> QED BY <1>5

LEMMA NextMirrors ==
  ASSUME AloneInv, AloneInv', [Next]_vars
  PROVE  [Mirroring!Next]_(Mirroring!vars)
  <1>1. CASE UNCHANGED vars
    <2>1. WantMap' = WantMap /\ HaveMap' = HaveMap /\ BusyMap' = BusyMap
      BY <1>1 DEF vars, WantMap, Ours, Live, HaveMap, BusyMap
    <2> QED BY <2>1 DEF Mirroring!vars, WantMap, HaveMap, BusyMap
  <1>2. CASE Next
    <2>1. PICK w \in Hooks : HookStep(w) \/ UserAction(w)
      BY <1>2, HooksOnly DEF AloneInv
    <2>2. HookStep(w) => \E n \in Nets : Mirroring!Work(n)
      BY HookMirrors DEF AloneInv
    <2>3. UserAction(w) => \E n \in Nets : \E v \in Vlans \cup {NoVlan} : Mirroring!Begin(n, v)
      BY UserMirrors DEF AloneInv
    <2> QED BY <2>1, <2>2, <2>3 DEF Mirroring!Next
  <1> QED BY <1>1, <1>2

(* A hook alone takes away only what its network should not have and adds   *)
(* only what it should, touches no other network's objects, and returns     *)
(* only when its network is mirrored.                                       *)
THEOREM Implements == Alone => (Spec => ImplementsMirror)
  <1>1. Alone => (Init => Mirroring!Init)
    BY InitMirrors
  <1>2. AloneInv /\ AloneInv' /\ [Next]_vars => [Mirroring!Next]_(Mirroring!vars)
    BY NextMirrors
  <1>3. Alone => (Spec => Init /\ [][Next]_vars /\ []AloneInv)
    BY InvarianceAlone, PTL DEF Spec
  <1>4. (Spec => Init /\ [][Next]_vars /\ []AloneInv) /\ (Init => Mirroring!Init)
          => (Spec => Mirroring!Spec)
    BY <1>2, PTL DEF Mirroring!Spec
  <1> QED BY <1>1, <1>3, <1>4 DEF ImplementsMirror
=============================================================================

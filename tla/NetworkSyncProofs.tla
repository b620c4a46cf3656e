------------------------- MODULE NetworkSyncProofs -------------------------
(***************************************************************************)
(* Type correctness of NetworkSync, and the safety boundary around objects  *)
(* made by hand, for every number of networks, VLANs, hook threads,         *)
(* changes and failures.                                                    *)
(***************************************************************************)
EXTENDS NetworkSync, TLAPS

(* An object the driver must not touch. *)
Protected(u) == HandMade[u] # Absent /\ HandMade[u].vlan \notin claimed

(* Where a process is going to use the name of its network. *)
Naming == {"find", "post", "rename", "updFind", "updDelete"}

(* Neutron and the processes: a VLAN in use is one that Neutron has given   *)
(* out, a process that holds an object holds a copy of it, and no process   *)
(* holds a protected object.                                                *)
ProcInv ==
    /\ neutron \in [Nets -> NeutronNet \cup {Unborn, Gone}]
    /\ pc \in [Procs -> Labels]
    /\ job \in [Procs -> Job]
    /\ obj \in [Procs -> Uids \cup {NoUid}]
    /\ raw \in [Procs -> Conf \cup {Absent}]
    /\ \A n \in Nets : Live(n) => neutron[n].vlan \in claimed
    /\ \A p \in Procs : /\ job[p].vlan \in claimed \cup {NoVlan}
                        /\ job[p].old \in claimed \cup {NoVlan}
                        /\ job[p].op # "none" => job[p].net \in Nets
                        /\ pc[p] \in Naming => job[p].net \in Nets /\ job[p].vlan \in Vlans
                        /\ obj[p] \in Uids => raw[p] \in Conf /\ ~ Protected(obj[p])

(* The controller. *)
StoreInv ==
    /\ claimed \subseteq Vlans
    /\ unifi \in [Uids -> Conf \cup {Absent}]
    /\ HandMadeUntouched
    /\ ops \in 0..MaxOps /\ faults \in 0..MaxFaults

Cleaning == {"clean", "unassign", "delete"}

(* The pass: its cache shows a protected object as it was made, and its     *)
(* cleanup has only objects that are not protected.                         *)
PassInv ==
    /\ cache \in [Uids -> Conf \cup {Absent}]
    /\ listed \in [Nets -> Vlans \cup {NoVlan}]
    /\ todo \subseteq Nets /\ subs \subseteq Versions /\ orphans \subseteq Uids
    /\ \A n \in Nets : listed[n] \in claimed \cup {NoVlan}
    /\ \A n \in todo : listed[n] # NoVlan
    /\ \A u \in Uids : Protected(u) => cache[u] \in {HandMade[u], Absent}
    /\ orphans # {} => pc[Sync] \in Cleaning
    /\ \A u \in orphans : cache[u] \in Conf /\ ~ Protected(u)

IInv == ProcInv /\ StoreInv /\ PassInv

(* The inductive invariant is stronger than the two properties. *)
LEMMA InvImplies == IInv => TypeOK /\ HandMadeUntouched
  BY DEF IInv, ProcInv, StoreInv, PassInv, TypeOK

LEMMA InitInv == Init => IInv
  <1> USE NetworkSyncAssumption
  <1> SUFFICES ASSUME Init PROVE IInv
    OBVIOUS
  <1>1. ProcInv
    BY DEF Init, Boot, ProcInv, NoJob, Job, Ops, Labels, Live, Naming
  <1>2. StoreInv
    BY DEF Init, StoreInv, HandMadeUntouched
  <1>3. PassInv
    BY DEF Init, PassInv, EmptyStore, NothingListed
  <1> QED
    BY <1>1, <1>2, <1>3 DEF IInv

-----------------------------------------------------------------------------
(* What a lookup by a VLAN in use returns, in a copy of the controller that *)
(* shows protected objects as they were made: never a protected object.     *)
LEMMA FoundOK ==
    ASSUME NEW store \in [Uids -> Conf \cup {Absent}],
           \A x \in Uids : Protected(x) => store[x] \in {HandMade[x], Absent},
           NEW v \in claimed \cup {NoVlan}, NEW u \in Found(store, v)
    PROVE  /\ u \in Uids \cup {NoUid}
           /\ View(store, u) \in Conf \cup {Absent}
           /\ u # NoUid => View(store, u) = store[u]
           /\ u \in Uids => View(store, u) \in Conf /\ ~ Protected(u)
  <1> USE NetworkSyncAssumption
  <1>1. CASE u = NoUid
    BY <1>1 DEF View
  <1>2. CASE u # NoUid
    <2>1. u \in Uids /\ store[u] # Absent /\ store[u].vlan = v
      BY <1>2 DEF Found
    <2>2. store[u] \in Conf
      BY <2>1
    <2>3. v \in claimed
      BY <2>1, <2>2 DEF Conf
    <2>4. ~ Protected(u)
      BY <2>1, <2>3 DEF Protected
    <2> QED
      BY <2>1, <2>2, <2>4, <1>2 DEF View
  <1> QED
    BY <1>1, <1>2

LEMMA UnifiShows ==
    ASSUME StoreInv
    PROVE  \A x \in Uids : Protected(x) => unifi[x] \in {HandMade[x], Absent}
  BY DEF StoreInv, HandMadeUntouched, Protected

-----------------------------------------------------------------------------
(* Each way a step can end keeps the part of the invariant about processes. *)

Moves(p, l) == pc' = [pc EXCEPT ![p] = l]

LEMMA LeaveToOK ==
    ASSUME ProcInv, NEW p \in Procs, NEW l \in Labels \ Naming, LeaveTo(p, l), UNCHANGED claimed
    PROVE  ProcInv' /\ Moves(p, l)
  BY NetworkSyncAssumption
  DEF ProcInv, LeaveTo, Moves, Live, Protected, NoJob, Job, Ops

LEMMA LeaveOK ==
    ASSUME ProcInv, NEW p \in Procs, Leave(p), UNCHANGED claimed
    PROVE  ProcInv' /\ \E l \in Labels : Moves(p, l)
  <1>1. {"next", "idle"} \subseteq Labels \ Naming
    BY DEF Labels, SyncSteps, Naming
  <1> QED
    BY <1>1, LeaveToOK DEF Leave

LEMMA GotoOK ==
    ASSUME ProcInv, NEW p \in Procs, NEW l \in Labels, l \in Naming => pc[p] \in Naming,
           Goto(p, l), UNCHANGED claimed
    PROVE  ProcInv' /\ Moves(p, l)
  BY DEF ProcInv, Goto, Moves, Live, Protected

LEMMA HoldOK ==
    ASSUME ProcInv, NEW p \in Procs, NEW l \in Labels, l \in Naming => pc[p] \in Naming,
           NEW u \in Uids \cup {NoUid}, NEW r \in Conf \cup {Absent},
           u \in Uids => r \in Conf /\ ~ Protected(u),
           Hold(p, u, r, l), UNCHANGED claimed
    PROVE  ProcInv' /\ Moves(p, l)
  BY NetworkSyncAssumption DEF ProcInv, Hold, Moves, Live, Protected

LEMMA RaiseOK ==
    ASSUME ProcInv, NEW p \in Procs, Raise(p), UNCHANGED claimed
    PROVE  ProcInv' /\ \E l \in Labels : Moves(p, l)
  <1> USE NetworkSyncAssumption
  <1> DEFINE n == job[p].net
  <1>0. /\ {"delFind", "clrFind"} \subseteq Labels \ Naming
        /\ {"deleteNet", "deleteSubnet"} \subseteq Ops
    BY DEF Labels, HookSteps, Ops, Naming
  <1>1. CASE Leave(p)
    BY <1>1, LeaveOK
  <1>2. CASE /\ job[p].op = "createNet" /\ Live(n)
             /\ DeleteAfterFailedCreate(p)
    <2>1. n \in Nets /\ neutron[n].vlan \in claimed /\ neutron[n].vlan \in Vlans /\ job[p] \in Job
      BY <1>2 DEF ProcInv, Live, NeutronNet
    <2>2. /\ neutron' = [neutron EXCEPT ![n] = Gone] /\ UNCHANGED <<obj, raw>>
          /\ job' = [job EXCEPT ![p] = [@ EXCEPT !.op = "deleteNet", !.vlan = neutron[n].vlan]]
          /\ Moves(p, "delFind")
      BY <1>2 DEF DeleteAfterFailedCreate, Moves
    <2>3. [job[p] EXCEPT !.op = "deleteNet", !.vlan = neutron[n].vlan] \in Job
      BY <1>0, <2>1 DEF Job
    <2>4. job' \in [Procs -> Job] /\ pc' \in [Procs -> Labels]
      BY <1>0, <2>2, <2>3 DEF ProcInv, Moves
    <2>5. /\ neutron' \in [Nets -> NeutronNet \cup {Unborn, Gone}]
          /\ \A m \in Nets : Live(m)' => neutron'[m].vlan \in claimed'
      BY <2>2 DEF ProcInv, Live
    <2>6. \A q \in Procs : /\ job'[q].vlan \in claimed' \cup {NoVlan}
                           /\ job'[q].old \in claimed' \cup {NoVlan}
                           /\ job'[q].op # "none" => job'[q].net \in Nets
      BY <2>1, <2>2 DEF ProcInv, Job
    <2>7. \A q \in Procs : pc'[q] \in Naming => job'[q].net \in Nets /\ job'[q].vlan \in Vlans
      BY <1>0, <2>2 DEF ProcInv, Moves
    <2>8. \A q \in Procs : obj'[q] \in Uids => raw'[q] \in Conf /\ ~ Protected(obj[q])'
      BY <2>2 DEF ProcInv, Protected
    <2>9. obj' \in [Procs -> Uids \cup {NoUid}] /\ raw' \in [Procs -> Conf \cup {Absent}]
      BY <2>2 DEF ProcInv
    <2>10. ProcInv'
      BY <2>4, <2>5, <2>6, <2>7, <2>8, <2>9 DEF ProcInv
    <2> QED
      BY <1>0, <2>2, <2>10
  <1>3. CASE /\ job[p].op = "createSubnet" /\ job[p].ver \in SubnetsOf(n)
             /\ DropAfterFailedCreate(p)
    <2>1. n \in Nets /\ neutron[n] \in NeutronNet /\ job[p] \in Job
      BY <1>3 DEF ProcInv, SubnetsOf, Live
    <2>2. /\ neutron' = [neutron EXCEPT ![n].subnets = @ \ {job[p].ver}] /\ UNCHANGED <<obj, raw>>
          /\ job' = [job EXCEPT ![p].op = "deleteSubnet"]
          /\ Moves(p, "clrFind")
      BY <1>3 DEF DropAfterFailedCreate, Moves
    <2>3. [job[p] EXCEPT !.op = "deleteSubnet"] \in Job
      BY <1>0, <2>1 DEF Job
    <2>4. job' \in [Procs -> Job] /\ pc' \in [Procs -> Labels]
      BY <1>0, <2>2, <2>3 DEF ProcInv, Moves
    <2>5. /\ neutron' \in [Nets -> NeutronNet \cup {Unborn, Gone}]
          /\ \A m \in Nets : Live(m)' => neutron'[m].vlan \in claimed'
      BY <2>1, <2>2 DEF ProcInv, Live, NeutronNet
    <2>6. \A q \in Procs : /\ job'[q].vlan \in claimed' \cup {NoVlan}
                           /\ job'[q].old \in claimed' \cup {NoVlan}
                           /\ job'[q].op # "none" => job'[q].net \in Nets
      BY <2>1, <2>2 DEF ProcInv, Job
    <2>7. \A q \in Procs : pc'[q] \in Naming => job'[q].net \in Nets /\ job'[q].vlan \in Vlans
      BY <1>0, <2>2 DEF ProcInv, Moves
    <2>8. \A q \in Procs : obj'[q] \in Uids => raw'[q] \in Conf /\ ~ Protected(obj[q])'
      BY <2>2 DEF ProcInv, Protected
    <2>9. obj' \in [Procs -> Uids \cup {NoUid}] /\ raw' \in [Procs -> Conf \cup {Absent}]
      BY <2>2 DEF ProcInv
    <2>10. ProcInv'
      BY <2>4, <2>5, <2>6, <2>7, <2>8, <2>9 DEF ProcInv
    <2> QED
      BY <1>0, <2>2, <2>10
  <1> QED
    BY <1>1, <1>2, <1>3 DEF Raise

(* A step that leaves the pass alone keeps its part of the invariant. *)
LEMMA PassKept ==
    ASSUME PassInv, NEW p \in Procs, NEW l \in Labels, Moves(p, l), pc \in [Procs -> Labels],
           UNCHANGED <<claimed, passVars>>,
           p = Sync => orphans = {} \/ l \in Cleaning
    PROVE  PassInv'
  BY DEF PassInv, Moves, passVars, Protected, Procs

-----------------------------------------------------------------------------
(* What a request does to the controller. *)

Reads == UNCHANGED <<unifi, claimed, ops>> /\ (UNCHANGED faults \/ Fault)

Writes(p, c) ==
    /\ unifi' = unifi \/ unifi' = [unifi EXCEPT ![obj[p]] = c]
    /\ UNCHANGED faults \/ Fault
    /\ UNCHANGED <<claimed, ops, passVars>>

LEMMA FaultOK ==
    ASSUME faults \in 0..MaxFaults, UNCHANGED faults \/ Fault
    PROVE  faults' \in 0..MaxFaults
  BY NetworkSyncAssumption DEF Fault

LEMMA ReadsOK ==
    ASSUME StoreInv, Reads
    PROVE  StoreInv'
  BY FaultOK DEF StoreInv, Reads, HandMadeUntouched

LEMMA WritesOK ==
    ASSUME IInv, NEW p \in Procs, NEW c, Writes(p, c), obj[p] \in Uids => c \in Conf \cup {Absent}
    PROVE  StoreInv'
  <1>1. faults' \in 0..MaxFaults
    BY FaultOK DEF IInv, StoreInv, Writes
  <1>2. unifi' \in [Uids -> Conf \cup {Absent}]
    BY DEF IInv, StoreInv, Writes
  <1>3. \A u \in Uids : Protected(u) => unifi'[u] = unifi[u]
    BY DEF IInv, StoreInv, ProcInv, Writes
  <1>4. HandMadeUntouched'
    BY <1>3 DEF IInv, StoreInv, HandMadeUntouched, Protected, Writes
  <1> QED
    BY <1>1, <1>2, <1>4 DEF IInv, StoreInv, Writes

-----------------------------------------------------------------------------
(* The labels a lookup leads to. *)
LEMMA NextLabels ==
    ASSUME NEW j, NEW r
    PROVE  /\ FirstWrite(j, r) \in Labels
           /\ AfterName(r) \in Labels \ Naming
           /\ FirstDelete(r) \in (Labels \ Naming) \cap Cleaning
  BY DEF FirstWrite, AfterName, FirstDelete, Labels, HookSteps, SyncSteps, Reconciling, Naming, Cleaning

LEMMA NotCleaning ==
    ASSUME PassInv, NEW p \in Procs, pc[p] \notin Cleaning, p = Sync
    PROVE  orphans = {}
  BY DEF PassInv

LEMMA ReconciledOK ==
    ASSUME ProcInv, NEW p \in Procs, Reconciled(p), UNCHANGED claimed
    PROVE  ProcInv' /\ \E l \in Labels : Moves(p, l)
  <1>1. "subList" \in Labels \ Naming
    BY DEF Labels, SyncSteps, Naming
  <1> QED
    BY <1>1, GotoOK, LeaveOK DEF Reconciled

(* A lookup in the controller, then a move to the label the copy calls for. *)
LEMMA LookUpOK ==
    ASSUME ProcInv, StoreInv, NEW p \in Procs, UNCHANGED claimed,
           NEW v \in claimed \cup {NoVlan}, NEW u \in Found(unifi, v),
           NEW l \in Labels, l \in Naming => pc[p] \in Naming,
           Hold(p, u, View(unifi, u), l)
    PROVE  ProcInv' /\ Moves(p, l)
  <1>1. /\ u \in Uids \cup {NoUid}
        /\ View(unifi, u) \in Conf \cup {Absent}
        /\ u \in Uids => View(unifi, u) \in Conf /\ ~ Protected(u)
    BY FoundOK, UnifiShows DEF StoreInv
  <1> QED
    BY <1>1, HoldOK

-----------------------------------------------------------------------------
(* The hooks' lookups. *)

LEMMA FindOK ==
    ASSUME IInv, NEW p \in Hooks, Find(p)
    PROVE  IInv'
  <1> USE DEF IInv
  <1>0. p \in Procs /\ p # Sync /\ pc[p] = "find" /\ job[p].vlan \in claimed \cup {NoVlan}
    BY NetworkSyncAssumption DEF Find, Procs, ProcInv
  <1>1. /\ Reads /\ UNCHANGED passVars /\ UNCHANGED claimed
        /\ \/ \E u \in Found(unifi, job[p].vlan) :
                 Hold(p, u, View(unifi, u), FirstWrite(job[p], View(unifi, u)))
           \/ Raise(p)
    BY DEF Find, Get, Reads
  <1>2. StoreInv'
    BY <1>1, ReadsOK
  <1>3. ProcInv' /\ \E l \in Labels : Moves(p, l)
    <2>1. CASE Raise(p)
      BY <1>0, <1>1, <2>1, RaiseOK
    <2>2. CASE \E u \in Found(unifi, job[p].vlan) :
                 Hold(p, u, View(unifi, u), FirstWrite(job[p], View(unifi, u)))
      <3>1. PICK u \in Found(unifi, job[p].vlan) :
                 Hold(p, u, View(unifi, u), FirstWrite(job[p], View(unifi, u)))
        BY <2>2
      <3>2. FirstWrite(job[p], View(unifi, u)) \in Labels /\ pc[p] \in Naming
        BY <1>0, NextLabels DEF Naming
      <3> QED
        BY <1>0, <1>1, <3>1, <3>2, LookUpOK
    <2> QED
      BY <1>1, <2>1, <2>2
  <1>4. PassInv'
    BY <1>0, <1>1, <1>3, PassKept DEF ProcInv
  <1> QED
    BY <1>2, <1>3, <1>4

LEMMA FindOldOK ==
    ASSUME IInv, NEW p \in Hooks, FindOld(p)
    PROVE  IInv'
  <1> USE DEF IInv
  <1>0. p \in Procs /\ p # Sync /\ pc[p] = "updFind" /\ job[p].old \in claimed \cup {NoVlan}
    BY NetworkSyncAssumption DEF FindOld, Procs, ProcInv
  <1>1. /\ Reads /\ UNCHANGED passVars /\ UNCHANGED claimed
        /\ \/ \E u \in Found(unifi, job[p].old) :
                 Hold(p, u, View(unifi, u), IF u = NoUid THEN "find" ELSE "updDelete")
           \/ Raise(p)
    BY DEF FindOld, Get, Reads
  <1>2. StoreInv'
    BY <1>1, ReadsOK
  <1>3. ProcInv' /\ \E l \in Labels : Moves(p, l)
    <2>1. CASE Raise(p)
      BY <1>0, <1>1, <2>1, RaiseOK
    <2>2. CASE \E u \in Found(unifi, job[p].old) :
                 Hold(p, u, View(unifi, u), IF u = NoUid THEN "find" ELSE "updDelete")
      <3>1. PICK u \in Found(unifi, job[p].old) :
                 Hold(p, u, View(unifi, u), IF u = NoUid THEN "find" ELSE "updDelete")
        BY <2>2
      <3>2. {"find", "updDelete"} \subseteq Labels /\ pc[p] \in Naming
        BY <1>0 DEF Labels, HookSteps, Reconciling, Naming
      <3> QED
        BY <1>0, <1>1, <3>1, <3>2, LookUpOK
    <2> QED
      BY <1>1, <2>1, <2>2
  <1>4. PassInv'
    BY <1>0, <1>1, <1>3, PassKept DEF ProcInv
  <1> QED
    BY <1>2, <1>3, <1>4

LEMMA FindDoomedOK ==
    ASSUME IInv, NEW p \in Hooks, FindDoomed(p)
    PROVE  IInv'
  <1> USE DEF IInv
  <1>0. p \in Procs /\ p # Sync /\ pc[p] = "delFind" /\ job[p].vlan \in claimed \cup {NoVlan}
    BY NetworkSyncAssumption DEF FindDoomed, Procs, ProcInv
  <1>1. /\ Reads /\ UNCHANGED passVars /\ UNCHANGED claimed
        /\ \/ \E u \in Found(unifi, job[p].vlan) :
                 IF u = NoUid THEN Leave(p) ELSE Hold(p, u, unifi[u], FirstDelete(unifi[u]))
           \/ Leave(p)
    BY DEF FindDoomed, Get, Reads
  <1>2. StoreInv'
    BY <1>1, ReadsOK
  <1>3. ProcInv' /\ \E l \in Labels : Moves(p, l)
    <2>1. CASE Leave(p)
      BY <1>0, <1>1, <2>1, LeaveOK
    <2>2. CASE \E u \in Found(unifi, job[p].vlan) :
                 IF u = NoUid THEN Leave(p) ELSE Hold(p, u, unifi[u], FirstDelete(unifi[u]))
      <3>1. PICK u \in Found(unifi, job[p].vlan) :
                 IF u = NoUid THEN Leave(p) ELSE Hold(p, u, unifi[u], FirstDelete(unifi[u]))
        BY <2>2
      <3>2. FirstDelete(unifi[u]) \in Labels \ Naming
        BY NextLabels
      <3>3. CASE u = NoUid
        BY <1>0, <1>1, <3>1, <3>3, LeaveOK
      <3>4. CASE u # NoUid
        <4>1. Hold(p, u, View(unifi, u), FirstDelete(unifi[u]))
          BY <3>1, <3>4 DEF View
        <4> QED
          BY <1>0, <1>1, <3>2, <4>1, LookUpOK
      <3> QED
        BY <3>3, <3>4
    <2> QED
      BY <1>1, <2>1, <2>2
  <1>4. PassInv'
    BY <1>0, <1>1, <1>3, PassKept DEF ProcInv
  <1> QED
    BY <1>2, <1>3, <1>4

LEMMA FindForSubnetOK ==
    ASSUME IInv, NEW p \in Hooks, FindForSubnet(p)
    PROVE  IInv'
  <1> USE DEF IInv
  <1>0. p \in Procs /\ p # Sync /\ pc[p] = "subFind" /\ job[p].vlan \in claimed \cup {NoVlan}
    BY NetworkSyncAssumption DEF FindForSubnet, Procs, ProcInv
  <1>1. /\ Reads /\ UNCHANGED passVars /\ UNCHANGED claimed
        /\ \/ \E u \in Found(unifi, job[p].vlan) :
                 IF u = NoUid THEN Leave(p) ELSE Hold(p, u, unifi[u], "subPut")
           \/ Raise(p)
    BY DEF FindForSubnet, Get, Reads
  <1>2. StoreInv'
    BY <1>1, ReadsOK
  <1>3. ProcInv' /\ \E l \in Labels : Moves(p, l)
    <2>1. CASE Raise(p)
      BY <1>0, <1>1, <2>1, RaiseOK
    <2>2. CASE \E u \in Found(unifi, job[p].vlan) :
                 IF u = NoUid THEN Leave(p) ELSE Hold(p, u, unifi[u], "subPut")
      <3>1. PICK u \in Found(unifi, job[p].vlan) :
                 IF u = NoUid THEN Leave(p) ELSE Hold(p, u, unifi[u], "subPut")
        BY <2>2
      <3>2. "subPut" \in Labels \ Naming
        BY DEF Labels, HookSteps, Naming
      <3>3. CASE u = NoUid
        BY <1>0, <1>1, <3>1, <3>3, LeaveOK
      <3>4. CASE u # NoUid
        <4>1. Hold(p, u, View(unifi, u), "subPut")
          BY <3>1, <3>4 DEF View
        <4> QED
          BY <1>0, <1>1, <3>2, <4>1, LookUpOK
      <3> QED
        BY <3>3, <3>4
    <2> QED
      BY <1>1, <2>1, <2>2
  <1>4. PassInv'
    BY <1>0, <1>1, <1>3, PassKept DEF ProcInv
  <1> QED
    BY <1>2, <1>3, <1>4

LEMMA FindToClearOK ==
    ASSUME IInv, NEW p \in Hooks, FindToClear(p)
    PROVE  IInv'
  <1> USE DEF IInv
  <1>0. p \in Procs /\ p # Sync /\ pc[p] = "clrFind" /\ job[p].vlan \in claimed \cup {NoVlan}
    BY NetworkSyncAssumption DEF FindToClear, Procs, ProcInv
  <1>1. /\ Reads /\ UNCHANGED passVars /\ UNCHANGED claimed
        /\ \/ \E u \in Found(unifi, job[p].vlan) :
                 IF u = NoUid THEN Leave(p) ELSE Hold(p, u, unifi[u], "clrPut")
           \/ Leave(p)
    BY DEF FindToClear, Get, Reads
  <1>2. StoreInv'
    BY <1>1, ReadsOK
  <1>3. ProcInv' /\ \E l \in Labels : Moves(p, l)
    <2>1. CASE Leave(p)
      BY <1>0, <1>1, <2>1, LeaveOK
    <2>2. CASE \E u \in Found(unifi, job[p].vlan) :
                 IF u = NoUid THEN Leave(p) ELSE Hold(p, u, unifi[u], "clrPut")
      <3>1. PICK u \in Found(unifi, job[p].vlan) :
                 IF u = NoUid THEN Leave(p) ELSE Hold(p, u, unifi[u], "clrPut")
        BY <2>2
      <3>2. "clrPut" \in Labels \ Naming
        BY DEF Labels, HookSteps, Naming
      <3>3. CASE u = NoUid
        BY <1>0, <1>1, <3>1, <3>3, LeaveOK
      <3>4. CASE u # NoUid
        <4>1. Hold(p, u, View(unifi, u), "clrPut")
          BY <3>1, <3>4 DEF View
        <4> QED
          BY <1>0, <1>1, <3>2, <4>1, LookUpOK
      <3> QED
        BY <3>3, <3>4
    <2> QED
      BY <1>1, <2>1, <2>2
  <1>4. PassInv'
    BY <1>0, <1>1, <1>3, PassKept DEF ProcInv
  <1> QED
    BY <1>2, <1>3, <1>4

-----------------------------------------------------------------------------
(* The writes, of hooks and of the pass. *)

(* A write that ends well or with an exception: what is left to show is     *)
(* what it writes and where it goes.                                        *)
LEMMA WriteStepOK ==
    ASSUME IInv, NEW p \in Procs, NEW c, Writes(p, c), obj[p] \in Uids => c \in Conf \cup {Absent},
           ProcInv', NEW l \in Labels, Moves(p, l),
           pc[p] \in Cleaning => l \in Cleaning \/ p # Sync
    PROVE  IInv'
  <1>1. StoreInv'
    BY WritesOK
  <1>2. p = Sync => orphans = {} \/ l \in Cleaning
    BY NotCleaning DEF IInv
  <1>3. PassInv'
    BY <1>2, PassKept DEF IInv, ProcInv, Writes
  <1> QED
    BY <1>1, <1>3 DEF IInv

LEMMA RenameOK ==
    ASSUME IInv, NEW p \in Procs, Rename(p)
    PROVE  IInv'
  <1> USE DEF IInv
  <1> DEFINE c == [raw[p] EXCEPT !.name = DriverName(job[p].net, job[p].vlan)]
  <1>0. p \in Procs /\ pc[p] = "rename" /\ pc[p] \notin Cleaning
    BY DEF Rename, Cleaning, Procs
  <1>1. /\ Writes(p, c) /\ UNCHANGED claimed
        /\ Goto(p, "refind") \/ Raise(p)
    BY DEF Rename, Put, Writes
  <1>2. obj[p] \in Uids => c \in Conf \cup {Absent}
    <2>1. DriverName(job[p].net, job[p].vlan) \in Names
      BY <1>0 DEF ProcInv, Naming, DriverName, Names, DriverNames
    <2> QED
      BY <1>0, <2>1 DEF ProcInv, Conf
  <1>3. ProcInv' /\ \E l \in Labels : Moves(p, l)
    <2>1. "refind" \in Labels \ Naming
      BY <1>0 DEF Labels, HookSteps, SyncSteps, Reconciling, Naming
    <2> QED
      BY <1>0, <1>1, <2>1, GotoOK, RaiseOK
  <1> QED
    BY <1>0, <1>1, <1>2, <1>3, WriteStepOK

LEMMA AssignZoneOK ==
    ASSUME IInv, NEW p \in Procs, AssignZone(p)
    PROVE  IInv'
  <1> USE DEF IInv
  <1> DEFINE c == [raw[p] EXCEPT !.zone = "tenant"]
  <1>0. p \in Procs /\ pc[p] = "zone" /\ pc[p] \notin Cleaning
    BY DEF AssignZone, Cleaning, Procs
  <1>1. /\ Writes(p, c) /\ UNCHANGED claimed
        /\ Goto(p, "v4read")
    BY DEF AssignZone, Put, Writes
  <1>2. obj[p] \in Uids => c \in Conf \cup {Absent}
    BY <1>0 DEF ProcInv, Conf, Zones
  <1>3. ProcInv' /\ \E l \in Labels : Moves(p, l)
    <2>1. "v4read" \in Labels \ Naming
      BY <1>0 DEF Labels, HookSteps, SyncSteps, Reconciling, Naming
    <2> QED
      BY <1>0, <1>1, <2>1, GotoOK
  <1> QED
    BY <1>0, <1>1, <1>2, <1>3, WriteStepOK

LEMMA DisableV4OK ==
    ASSUME IInv, NEW p \in Procs, DisableV4(p)
    PROVE  IInv'
  <1> USE DEF IInv
  <1> DEFINE c == [raw[p] EXCEPT !.v4 = "synthetic"]
  <1>0. p \in Procs /\ pc[p] = "v4put" /\ pc[p] \notin Cleaning
    BY DEF DisableV4, Cleaning, Procs
  <1>1. /\ Writes(p, c) /\ UNCHANGED claimed
        /\ Reconciled(p) \/ Raise(p)
    BY DEF DisableV4, Put, Writes
  <1>2. obj[p] \in Uids => c \in Conf \cup {Absent}
    BY <1>0 DEF ProcInv, Conf, V4States
  <1>3. ProcInv' /\ \E l \in Labels : Moves(p, l)
    <2>1. TRUE
      BY <1>0 DEF Labels, HookSteps, SyncSteps, Reconciling, Naming
    <2> QED
      BY <1>0, <1>1, <2>1, ReconciledOK, RaiseOK
  <1> QED
    BY <1>0, <1>1, <1>2, <1>3, WriteStepOK

LEMMA DeleteOldOK ==
    ASSUME IInv, NEW p \in Hooks, DeleteOld(p)
    PROVE  IInv'
  <1> USE DEF IInv
  <1> DEFINE c == Absent
  <1>0. p \in Procs /\ pc[p] = "updDelete" /\ pc[p] \notin Cleaning
    BY DEF DeleteOld, Cleaning, Procs
  <1>1. /\ Writes(p, c) /\ UNCHANGED claimed
        /\ Goto(p, "find") \/ Raise(p)
    BY DEF DeleteOld, Put, Writes
  <1>2. obj[p] \in Uids => c \in Conf \cup {Absent}
    OBVIOUS
  <1>3. ProcInv' /\ \E l \in Labels : Moves(p, l)
    <2>1. "find" \in Labels /\ pc[p] \in Naming
      BY <1>0 DEF Labels, HookSteps, SyncSteps, Reconciling, Naming
    <2> QED
      BY <1>0, <1>1, <2>1, GotoOK, RaiseOK
  <1> QED
    BY <1>0, <1>1, <1>2, <1>3, WriteStepOK

LEMMA PutSubnetOK ==
    ASSUME IInv, NEW p \in Procs, PutSubnet(p)
    PROVE  IInv'
  <1> USE DEF IInv
  <1> DEFINE c == WithSubnet(raw[p], job[p].ver)
  <1>0. p \in Procs /\ pc[p] = "subPut" /\ pc[p] \notin Cleaning
    BY DEF PutSubnet, Cleaning, Procs
  <1>1. /\ Writes(p, c) /\ UNCHANGED claimed
        /\ (Goto(p, "subs") /\ p = Sync) \/ Leave(p) \/ Raise(p)
    BY DEF PutSubnet, Put, Writes
  <1>2. obj[p] \in Uids => c \in Conf \cup {Absent}
    BY <1>0 DEF ProcInv, WithSubnet, Conf, V4States, V6States
  <1>3. ProcInv' /\ \E l \in Labels : Moves(p, l)
    <2>1. "subs" \in Labels \ Naming
      BY <1>0 DEF Labels, HookSteps, SyncSteps, Reconciling, Naming
    <2> QED
      BY <1>0, <1>1, <2>1, GotoOK, LeaveOK, RaiseOK
  <1> QED
    BY <1>0, <1>1, <1>2, <1>3, WriteStepOK

LEMMA ClearSubnetOK ==
    ASSUME IInv, NEW p \in Hooks, ClearSubnet(p)
    PROVE  IInv'
  <1> USE DEF IInv
  <1> DEFINE c == ClearedSubnet(raw[p], job[p].ver)
  <1>0. p \in Procs /\ pc[p] = "clrPut" /\ pc[p] \notin Cleaning
    BY DEF ClearSubnet, Cleaning, Procs
  <1>1. /\ Writes(p, c) /\ UNCHANGED claimed
        /\ Leave(p)
    BY DEF ClearSubnet, Put, Writes
  <1>2. obj[p] \in Uids => c \in Conf \cup {Absent}
    BY <1>0 DEF ProcInv, ClearedSubnet, Conf, V4States, V6States
  <1>3. ProcInv' /\ \E l \in Labels : Moves(p, l)
    <2>1. TRUE
      BY <1>0 DEF Labels, HookSteps, SyncSteps, Reconciling, Naming
    <2> QED
      BY <1>0, <1>1, <2>1, LeaveOK
  <1> QED
    BY <1>0, <1>1, <1>2, <1>3, WriteStepOK

LEMMA UnassignZoneOK ==
    ASSUME IInv, NEW p \in Procs, UnassignZone(p)
    PROVE  IInv'
  <1> USE DEF IInv
  <1> DEFINE c == [raw[p] EXCEPT !.zone = "internal"]
  <1>0. "delete" \in (Labels \ Naming) \cap Cleaning
    BY DEF Labels, HookSteps, SyncSteps, Naming, Cleaning
  <1>1. /\ Writes(p, c) /\ UNCHANGED claimed
        /\ Goto(p, "delete")
    BY DEF UnassignZone, Put, Writes
  <1>2. obj[p] \in Uids => c \in Conf \cup {Absent}
    BY <1>0 DEF ProcInv, Conf, Zones
  <1>3. ProcInv' /\ Moves(p, "delete")
    BY <1>0, <1>1, GotoOK
  <1> QED
    BY <1>0, <1>1, <1>2, <1>3, WriteStepOK

LEMMA DeleteOK ==
    ASSUME IInv, NEW p \in Procs, Delete(p)
    PROVE  IInv'
  <1> USE DEF IInv
  <1> DEFINE c == Absent
  <1>0. {"clean", "idle"} \subseteq Labels \ Naming /\ "clean" \in Cleaning
    BY DEF Labels, HookSteps, SyncSteps, Naming, Cleaning
  <1>1. /\ Writes(p, c) /\ UNCHANGED claimed
        /\ LeaveTo(p, IF p = Sync THEN "clean" ELSE "idle")
    BY DEF Delete, Put, Writes
  <1>2. obj[p] \in Uids => c \in Conf \cup {Absent}
    OBVIOUS
  <1>3. ProcInv' /\ Moves(p, IF p = Sync THEN "clean" ELSE "idle")
    BY <1>0, <1>1, LeaveToOK
  <1> QED
    BY <1>0, <1>1, <1>2, <1>3, WriteStepOK

LEMMA PostOK ==
    ASSUME IInv, NEW p \in Procs, Post(p)
    PROVE  IInv'
  <1> USE DEF IInv
  <1>0. /\ pc[p] = "post" /\ pc[p] \notin Cleaning /\ "refind" \in Labels \ Naming
        /\ job[p].net \in Nets /\ job[p].vlan \in Vlans
    BY DEF Post, Cleaning, Naming, Labels, SyncSteps, Reconciling, ProcInv
  <1>1. /\ Goto(p, "refind") \/ Raise(p)
        /\ UNCHANGED faults \/ Fault
        /\ UNCHANGED <<claimed, ops, passVars>>
    BY DEF Post
  <1>2. \/ unifi' = unifi
        \/ \E u \in Fresh : unifi' = [unifi EXCEPT ![u] = NewConf(job[p])]
    BY DEF Post
  <1>3. StoreInv'
    <2>1. faults' \in 0..MaxFaults
      BY <1>1, FaultOK DEF StoreInv
    <2>2. NewConf(job[p]) \in Conf
      BY <1>0 DEF NewConf, Conf, Names, DriverNames, DriverName, Zones, V4States, V6States
    <2>3. unifi' \in [Uids -> Conf \cup {Absent}]
      BY <1>2, <2>2 DEF StoreInv
    <2>4. \A u \in Uids : HandMade[u] # Absent => unifi'[u] = unifi[u]
      BY <1>2 DEF Fresh, StoreInv
    <2>5. HandMadeUntouched'
      BY <1>1, <2>4 DEF StoreInv, HandMadeUntouched
    <2> QED
      BY <1>1, <2>1, <2>3, <2>5 DEF StoreInv
  <1>4. ProcInv' /\ \E l \in Labels : Moves(p, l)
    BY <1>0, <1>1, GotoOK, RaiseOK
  <1>5. PassInv'
    BY <1>0, <1>1, <1>4, NotCleaning, PassKept DEF ProcInv
  <1> QED
    BY <1>3, <1>4, <1>5

-----------------------------------------------------------------------------
(* The reads of _reconcile_network after its first write. *)

LEMMA RefindOK ==
    ASSUME IInv, NEW p \in Procs, Refind(p)
    PROVE  IInv'
  <1> USE DEF IInv
  <1>0. pc[p] = "refind" /\ pc[p] \notin Cleaning /\ job[p].vlan \in claimed \cup {NoVlan}
    BY DEF Refind, Cleaning, ProcInv
  <1>1. /\ Reads /\ UNCHANGED <<claimed, listed, todo, subs, orphans>>
        /\ \/ Raise(p)
           \/ \E u \in Found(unifi, job[p].vlan) :
                 IF u = NoUid THEN Reconciled(p) ELSE Hold(p, u, unifi[u], AfterName(unifi[u]))
        /\ cache' = cache \/ cache' = unifi
    BY DEF Refind, Get, Reads
  <1>2. StoreInv'
    BY <1>1, ReadsOK
  <1>3. ProcInv' /\ \E l \in Labels : Moves(p, l)
    <2>1. CASE Raise(p)
      BY <1>1, <2>1, RaiseOK
    <2>2. CASE \E u \in Found(unifi, job[p].vlan) :
                 IF u = NoUid THEN Reconciled(p) ELSE Hold(p, u, unifi[u], AfterName(unifi[u]))
      <3>1. PICK u \in Found(unifi, job[p].vlan) :
                 IF u = NoUid THEN Reconciled(p) ELSE Hold(p, u, unifi[u], AfterName(unifi[u]))
        BY <2>2
      <3>2. CASE u = NoUid
        BY <1>1, <3>1, <3>2, ReconciledOK
      <3>3. CASE u # NoUid
        <4>1. Hold(p, u, View(unifi, u), AfterName(unifi[u]))
          BY <3>1, <3>3 DEF View
        <4> QED
          BY <1>0, <1>1, <4>1, NextLabels, LookUpOK
      <3> QED
        BY <3>2, <3>3
    <2> QED
      BY <1>1, <2>1, <2>2
  <1>4. PassInv'
    <2>1. p = Sync => orphans = {}
      BY <1>0, NotCleaning
    <2>2. CASE cache' = cache
      BY <1>1, <1>3, <2>1, <2>2, PassKept DEF passVars, ProcInv
    <2>3. CASE cache' = unifi
      <3>1. orphans = {} \/ (p # Sync /\ pc'[Sync] = pc[Sync] /\ cache' = cache)
        BY <1>3, <2>1 DEF Refind, Get, Moves, ProcInv
      <3>2. \A x \in Uids : Protected(x)' => cache'[x] \in {HandMade[x], Absent}
        BY <1>1, <2>3, UnifiShows DEF Protected
      <3> QED
        BY <1>1, <2>3, <3>1, <3>2 DEF PassInv, StoreInv, Protected
    <2> QED
      BY <1>1, <2>2, <2>3
  <1> QED
    BY <1>2, <1>3, <1>4

LEMMA ReadV4SubnetsOK ==
    ASSUME IInv, NEW p \in Procs, ReadV4Subnets(p)
    PROVE  IInv'
  <1> USE DEF IInv
  <1>0. pc[p] = "v4read" /\ pc[p] \notin Cleaning /\ "v4put" \in Labels \ Naming
    BY DEF ReadV4Subnets, Cleaning, Naming, Labels, SyncSteps, Reconciling
  <1>1. /\ Reads /\ UNCHANGED claimed /\ UNCHANGED passVars
        /\ Goto(p, "v4put") \/ Reconciled(p)
    BY DEF ReadV4Subnets, Get, Reads
  <1>2. StoreInv'
    BY <1>1, ReadsOK
  <1>3. ProcInv' /\ \E l \in Labels : Moves(p, l)
    BY <1>0, <1>1, GotoOK, ReconciledOK
  <1>4. PassInv'
    BY <1>0, <1>1, <1>3, NotCleaning, PassKept DEF ProcInv
  <1> QED
    BY <1>2, <1>3, <1>4

-----------------------------------------------------------------------------
(* The pass. *)

LEMMA SyncProc == Sync \in Procs
  BY DEF Procs

LEMMA SyncOnlyOK ==
    ASSUME StoreInv, SyncOnly, UNCHANGED faults \/ Fault
    PROVE  StoreInv'
  BY FaultOK DEF StoreInv, SyncOnly, HandMadeUntouched

LEMMA ConnectOK ==
    ASSUME IInv, Connect
    PROVE  IInv'
  <1> USE SyncProc DEF IInv
  <1>1. Reads /\ UNCHANGED <<claimed, passVars>> /\ orphans = {}
    BY NotCleaning DEF Connect, Get, Reads, Cleaning
  <1>2. {"idle", "off"} \subseteq Labels \ Naming
    BY DEF Labels, Naming
  <1>3. ProcInv' /\ \E l \in Labels : Moves(Sync, l)
    BY <1>1, <1>2, GotoOK DEF Connect, Get
  <1> QED
    BY <1>1, <1>3, ReadsOK, PassKept DEF ProcInv

LEMMA DropPassOK ==
    ASSUME ProcInv, NEW l \in Labels \ Naming, DropPass(l), UNCHANGED claimed
    PROVE  ProcInv' /\ PassInv'
  <1>1. ProcInv'
    BY SyncProc, LeaveToOK DEF DropPass
  <1>2. PassInv'
    BY DEF DropPass, PassInv, EmptyStore, NothingListed
  <1> QED
    BY <1>1, <1>2

LEMMA EndPassOK ==
    ASSUME ProcInv, EndPass, UNCHANGED claimed
    PROVE  ProcInv' /\ PassInv'
  <1>1. "idle" \in Labels \ Naming
    BY DEF Labels, Naming
  <1> QED
    BY <1>1, DropPassOK DEF EndPass

LEMMA StartPassOK ==
    ASSUME IInv, StartPass
    PROVE  IInv'
  <1> USE DEF IInv
  <1>1. Goto(Sync, "refresh") /\ UNCHANGED <<claimed, unifi, cache, subs, orphans, ops, faults>>
    BY DEF StartPass
  <1>2. "refresh" \in Labels \ Naming
    BY DEF Labels, SyncSteps, Naming
  <1>3. ProcInv'
    BY <1>1, <1>2, SyncProc, GotoOK
  <1>4. StoreInv'
    BY <1>1 DEF StoreInv, HandMadeUntouched
  <1>5. orphans = {}
    BY SyncProc, NotCleaning DEF StartPass, Cleaning
  <1>6. /\ listed' \in [Nets -> Vlans \cup {NoVlan}]
        /\ \A n \in Nets : listed'[n] \in claimed \cup {NoVlan}
    BY DEF StartPass, ProcInv, Live, NeutronNet
  <1>7. todo' \subseteq Nets /\ \A n \in todo' : listed'[n] # NoVlan
    BY NetworkSyncAssumption DEF StartPass, Live, NeutronNet
  <1> QED
    BY <1>1, <1>3, <1>4, <1>5, <1>6, <1>7 DEF PassInv, Protected

LEMMA RefreshOK ==
    ASSUME IInv, Refresh
    PROVE  IInv'
  <1> USE DEF IInv
  <1>1. Reads /\ UNCHANGED claimed
    BY DEF Refresh, Get, Reads
  <1>2. StoreInv'
    BY <1>1, ReadsOK
  <1>3. CASE EndPass
    BY <1>1, <1>2, <1>3, EndPassOK
  <1>4. CASE /\ Goto(Sync, "next") /\ cache' = unifi
             /\ UNCHANGED <<listed, todo, subs, orphans>>
    <2>1. "next" \in Labels \ Naming
      BY DEF Labels, SyncSteps, Naming
    <2>2. ProcInv'
      BY <1>1, <1>4, <2>1, SyncProc, GotoOK
    <2>3. orphans = {}
      BY SyncProc, NotCleaning DEF Refresh, Cleaning
    <2>4. PassInv'
      BY <1>1, <1>4, <2>3, UnifiShows DEF PassInv, StoreInv, Protected
    <2> QED
      BY <1>2, <2>2, <2>4
  <1> QED
    BY <1>3, <1>4 DEF Refresh, Get

(* Both lookups of the pass set job, obj, raw and pc of Sync at once. *)
LEMMA SyncLookUpOK ==
    ASSUME IInv, UNCHANGED <<claimed, neutron>>,
           NEW j \in Job, j.vlan \in claimed, j.old = NoVlan, j.op # "none" => j.net \in Nets,
           NEW u \in Found(cache, j.vlan),
           NEW l \in Labels, l \in Naming => j.net \in Nets,
           job' = [job EXCEPT ![Sync] = j], obj' = [obj EXCEPT ![Sync] = u],
           raw' = [raw EXCEPT ![Sync] = View(cache, u)], Moves(Sync, l)
    PROVE  ProcInv'
  <1> USE NetworkSyncAssumption, SyncProc DEF IInv
  <1>1. /\ u \in Uids \cup {NoUid}
        /\ View(cache, u) \in Conf \cup {Absent}
        /\ u \in Uids => View(cache, u) \in Conf /\ ~ Protected(u)
    BY FoundOK DEF PassInv
  <1>2. j.vlan \in Vlans
    BY DEF StoreInv
  <1>3. /\ pc' \in [Procs -> Labels] /\ job' \in [Procs -> Job]
        /\ obj' \in [Procs -> Uids \cup {NoUid}] /\ raw' \in [Procs -> Conf \cup {Absent}]
    BY <1>1 DEF ProcInv, Moves
  <1>4. /\ neutron' \in [Nets -> NeutronNet \cup {Unborn, Gone}]
        /\ \A n \in Nets : Live(n)' => neutron'[n].vlan \in claimed'
    BY DEF ProcInv, Live
  <1>5. \A p \in Procs : /\ job'[p].vlan \in claimed' \cup {NoVlan}
                         /\ job'[p].old \in claimed' \cup {NoVlan}
                         /\ job'[p].op # "none" => job'[p].net \in Nets
    BY DEF ProcInv
  <1>6. \A p \in Procs : pc'[p] \in Naming => job'[p].net \in Nets /\ job'[p].vlan \in Vlans
    BY <1>2 DEF ProcInv, Moves
  <1>7. \A p \in Procs : obj'[p] \in Uids => raw'[p] \in Conf /\ ~ Protected(obj[p])'
    BY <1>1 DEF ProcInv, Protected
  <1> QED
    BY <1>3, <1>4, <1>5, <1>6, <1>7 DEF ProcInv

LEMMA NextNetworkOK ==
    ASSUME IInv, NextNetwork
    PROVE  IInv'
  <1> USE DEF IInv
  <1>0. PICK n \in todo : \E u \in Found(cache, listed[n]) :
          LET k == [NoJob EXCEPT !.net = n, !.vlan = listed[n]]
          IN /\ todo' = todo \ {n}
             /\ job' = [job EXCEPT ![Sync] = k]
             /\ obj' = [obj EXCEPT ![Sync] = u]
             /\ raw' = [raw EXCEPT ![Sync] = View(cache, u)]
             /\ pc' = [pc EXCEPT ![Sync] = FirstWrite(k, View(cache, u))]
    BY DEF NextNetwork
  <1> DEFINE j == [NoJob EXCEPT !.net = n, !.vlan = listed[n]]
  <1>1. PICK u \in Found(cache, listed[n]) :
          /\ todo' = todo \ {n}
          /\ job' = [job EXCEPT ![Sync] = j]
          /\ obj' = [obj EXCEPT ![Sync] = u]
          /\ raw' = [raw EXCEPT ![Sync] = View(cache, u)]
          /\ pc' = [pc EXCEPT ![Sync] = FirstWrite(j, View(cache, u))]
    BY <1>0
  <1> DEFINE l == FirstWrite(j, View(cache, u))
  <1>2. /\ n \in Nets /\ listed[n] \in claimed /\ listed[n] \in Vlans
        /\ UNCHANGED <<claimed, neutron, unifi, ops, faults, cache, listed, subs, orphans>>
        /\ orphans = {}
    BY SyncProc, NotCleaning DEF NextNetwork, SyncOnly, Cleaning, PassInv, StoreInv
  <1>3. /\ j \in Job /\ j.vlan = listed[n] /\ j.old = NoVlan /\ j.op = "none" /\ j.net = n
    BY <1>2 DEF NoJob, Job, Ops
  <1>4. l \in Labels
    BY NextLabels
  <1>5. Moves(Sync, l)
    BY <1>1 DEF Moves
  <1>6. ProcInv'
    <2> HIDE DEF j, l
    <2> QED
      BY <1>1, <1>2, <1>3, <1>4, <1>5, SyncLookUpOK DEF j
  <1>7. StoreInv'
    BY <1>2 DEF StoreInv, HandMadeUntouched
  <1>8. PassInv'
    BY <1>1, <1>2 DEF PassInv, Protected
  <1> QED
    BY <1>6, <1>7, <1>8

LEMMA ListSubnetsOK ==
    ASSUME IInv, ListSubnets
    PROVE  IInv'
  <1> USE DEF IInv
  <1>1. /\ Reads /\ UNCHANGED <<claimed, cache, listed, todo, orphans>>
        /\ Goto(Sync, "subs") \/ Leave(Sync)
        /\ subs' = subs \/ subs' = SubnetsOf(job[Sync].net)
    BY DEF ListSubnets, Get, Reads
  <1>2. StoreInv'
    BY <1>1, ReadsOK
  <1>3. "subs" \in Labels \ Naming
    BY DEF Labels, SyncSteps, Naming
  <1>4. ProcInv'
    BY <1>1, <1>3, SyncProc, GotoOK, LeaveOK
  <1>5. orphans = {}
    BY SyncProc, NotCleaning DEF ListSubnets, Cleaning
  <1>6. subs' \subseteq Versions
    BY <1>1 DEF PassInv, ProcInv, SubnetsOf, Live, NeutronNet
  <1> QED
    BY <1>1, <1>2, <1>4, <1>5, <1>6 DEF PassInv, Protected

LEMMA NextSubnetOK ==
    ASSUME IInv, NextSubnet
    PROVE  IInv'
  <1> USE NetworkSyncAssumption, SyncProc DEF IInv
  <1>1. PICK ver \in subs, u \in Found(cache, job[Sync].vlan) :
          /\ subs' = subs \ {ver}
          /\ job' = [job EXCEPT ![Sync].ver = ver]
          /\ obj' = [obj EXCEPT ![Sync] = u]
          /\ raw' = [raw EXCEPT ![Sync] = View(cache, u)]
          /\ pc' = [pc EXCEPT ![Sync] = IF u = NoUid THEN "subs" ELSE "subPut"]
    BY DEF NextSubnet
  <1>2. /\ UNCHANGED <<claimed, neutron, unifi, ops, faults, cache, listed, todo, orphans>>
        /\ orphans = {} /\ {"subs", "subPut"} \subseteq Labels \ Naming
    BY NotCleaning DEF NextSubnet, SyncOnly, Cleaning, Labels, SyncSteps, HookSteps, Naming
  <1>3. /\ u \in Uids \cup {NoUid}
        /\ View(cache, u) \in Conf \cup {Absent}
        /\ u \in Uids => View(cache, u) \in Conf /\ ~ Protected(u)
    BY FoundOK DEF PassInv, ProcInv
  <1>4. [job[Sync] EXCEPT !.ver = ver] \in Job
    BY DEF ProcInv, PassInv, Job
  <1>5. ProcInv'
    <2>1. /\ pc' \in [Procs -> Labels] /\ job' \in [Procs -> Job]
          /\ obj' \in [Procs -> Uids \cup {NoUid}] /\ raw' \in [Procs -> Conf \cup {Absent}]
      BY <1>1, <1>2, <1>3, <1>4 DEF ProcInv
    <2>2. /\ neutron' \in [Nets -> NeutronNet \cup {Unborn, Gone}]
          /\ \A n \in Nets : Live(n)' => neutron'[n].vlan \in claimed'
      BY <1>2 DEF ProcInv, Live
    <2>3. \A p \in Procs : /\ job'[p].vlan \in claimed' \cup {NoVlan}
                           /\ job'[p].old \in claimed' \cup {NoVlan}
                           /\ job'[p].op # "none" => job'[p].net \in Nets
      BY <1>1, <1>2 DEF ProcInv, Job
    <2>4. \A p \in Procs : pc'[p] \in Naming => job'[p].net \in Nets /\ job'[p].vlan \in Vlans
      BY <1>1, <1>2 DEF ProcInv, Job
    <2>5. \A p \in Procs : obj'[p] \in Uids => raw'[p] \in Conf /\ ~ Protected(obj[p])'
      BY <1>1, <1>2, <1>3 DEF ProcInv, Protected
    <2> QED
      BY <2>1, <2>2, <2>3, <2>4, <2>5 DEF ProcInv
  <1>6. StoreInv'
    BY <1>2 DEF StoreInv, HandMadeUntouched
  <1>7. PassInv'
    BY <1>1, <1>2 DEF PassInv, Protected
  <1> QED
    BY <1>5, <1>6, <1>7

LEMMA SubnetsDoneOK ==
    ASSUME IInv, SubnetsDone
    PROVE  IInv'
  <1> USE SyncProc DEF IInv
  <1>1. Leave(Sync) /\ SyncOnly /\ UNCHANGED <<claimed, passVars, faults>> /\ orphans = {}
    BY NotCleaning DEF SubnetsDone, SyncOnly, Cleaning
  <1>2. ProcInv' /\ \E l \in Labels : Moves(Sync, l)
    BY <1>1, LeaveOK
  <1> QED
    BY <1>1, <1>2, SyncOnlyOK, PassKept DEF ProcInv

LEMMA StartCleanupOK ==
    ASSUME IInv, StartCleanup
    PROVE  IInv'
  <1> USE NetworkSyncAssumption, SyncProc DEF IInv
  <1>1. /\ Goto(Sync, "clean") /\ SyncOnly
        /\ UNCHANGED <<claimed, cache, listed, todo, subs, faults>>
        /\ orphans' = {u \in Uids : IsOrphan(cache[u])}
    BY DEF StartCleanup, SyncOnly
  <1>2. "clean" \in Labels \ Naming
    BY DEF Labels, SyncSteps, Naming
  <1>3. ProcInv' /\ Moves(Sync, "clean")
    BY <1>1, <1>2, GotoOK
  <1>4. StoreInv'
    BY <1>1, SyncOnlyOK
  <1>5. \A u \in orphans' : u \in Uids /\ cache[u] \in Conf /\ ~ Protected(u)
    <2> TAKE u \in orphans'
    <2>1. u \in Uids /\ cache[u] # Absent /\ cache[u].name \in DriverNames
      <3>1. u \in Uids /\ IsOrphan(cache[u])
        BY <1>1
      <3>2. PICK n \in Nets, v \in Vlans : cache[u].name = DriverName(n, v)
        BY <3>1 DEF IsOrphan
      <3>3. DriverName(n, v) \in DriverNames
        BY DEF DriverName, DriverNames
      <3> QED
        BY <3>1, <3>2, <3>3 DEF IsOrphan
    <2>2. cache[u] # HandMade[u]
      <3>1. HandMade[u] # Absent => HandMade[u].name \notin DriverNames
        BY <2>1
      <3> QED
        BY <2>1, <3>1
    <2>3. cache[u] \in Conf
      BY <2>1 DEF PassInv
    <2> QED
      BY <2>1, <2>2, <2>3 DEF PassInv
  <1>6. pc'[Sync] \in Cleaning
    BY <1>3 DEF ProcInv, Moves, Cleaning
  <1> QED
    BY <1>1, <1>3, <1>4, <1>5, <1>6 DEF PassInv, Protected

LEMMA NextOrphanOK ==
    ASSUME IInv, NextOrphan
    PROVE  IInv'
  <1> USE NetworkSyncAssumption, SyncProc DEF IInv
  <1>1. PICK u \in orphans : orphans' = orphans \ {u} /\ Hold(Sync, u, cache[u], FirstDelete(cache[u]))
    BY DEF NextOrphan
  <1>2. SyncOnly /\ UNCHANGED <<claimed, cache, listed, todo, subs, faults>>
    BY DEF NextOrphan, SyncOnly
  <1>3. u \in Uids /\ cache[u] \in Conf /\ ~ Protected(u)
    BY DEF PassInv
  <1>4. FirstDelete(cache[u]) \in (Labels \ Naming) \cap Cleaning
    BY NextLabels
  <1>5. ProcInv' /\ Moves(Sync, FirstDelete(cache[u]))
    BY <1>1, <1>2, <1>3, <1>4, HoldOK
  <1>6. StoreInv'
    BY <1>2, SyncOnlyOK
  <1>7. pc'[Sync] \in Cleaning
    BY <1>4, <1>5 DEF Moves, ProcInv
  <1> QED
    BY <1>1, <1>2, <1>5, <1>6, <1>7 DEF PassInv, Protected

LEMMA FinishPassOK ==
    ASSUME IInv, FinishPass
    PROVE  IInv'
  <1>1. EndPass /\ SyncOnly /\ UNCHANGED faults /\ UNCHANGED claimed
    BY DEF FinishPass, SyncOnly
  <1> QED
    BY <1>1, EndPassOK, SyncOnlyOK DEF IInv

LEMMA CrashSyncOK ==
    ASSUME IInv, CrashSync
    PROVE  IInv'
  <1>1. DropPass(Boot) /\ SyncOnly /\ Fault /\ UNCHANGED claimed
    BY DEF CrashSync, SyncOnly
  <1>2. Boot \in Labels \ Naming
    BY DEF Boot, Labels, Naming
  <1> QED
    BY <1>1, <1>2, DropPassOK, SyncOnlyOK DEF IInv

-----------------------------------------------------------------------------
(* The users, and crashes. *)

(* A user's step that hands a job to a thread. *)
LEMMA RunOK ==
    ASSUME IInv, NEW w \in Hooks, NEW l \in Labels, NEW j \in Job, UserStep, Run(w, l, j),
           claimed \subseteq claimed', claimed' \subseteq Vlans,
           neutron' \in [Nets -> NeutronNet \cup {Unborn, Gone}],
           \A n \in Nets : Live(n)' => neutron'[n].vlan \in claimed',
           j.vlan \in claimed', j.old \in claimed' \cup {NoVlan}, j.net \in Nets
    PROVE  IInv'
  <1> USE NetworkSyncAssumption DEF IInv
  <1>1. /\ w \in Procs /\ w # Sync
        /\ UNCHANGED <<unifi, faults, obj, raw, passVars>>
        /\ ops' \in 0..MaxOps
        /\ pc' = [pc EXCEPT ![w] = l] /\ job' = [job EXCEPT ![w] = j]
    BY DEF UserStep, Run, Procs, StoreInv
  <1>2. \A u \in Uids : Protected(u)' => Protected(u)
    BY DEF Protected
  <1>3. ProcInv'
    <2>1. /\ pc' \in [Procs -> Labels] /\ job' \in [Procs -> Job]
          /\ obj' \in [Procs -> Uids \cup {NoUid}] /\ raw' \in [Procs -> Conf \cup {Absent}]
      BY <1>1 DEF ProcInv
    <2>2. \A p \in Procs : /\ job'[p].vlan \in claimed' \cup {NoVlan}
                           /\ job'[p].old \in claimed' \cup {NoVlan}
                           /\ job'[p].op # "none" => job'[p].net \in Nets
      BY <1>1 DEF ProcInv
    <2>3. \A p \in Procs : pc'[p] \in Naming => job'[p].net \in Nets /\ job'[p].vlan \in Vlans
      BY <1>1 DEF ProcInv
    <2>4. \A p \in Procs : obj'[p] \in Uids => raw'[p] \in Conf /\ ~ Protected(obj[p])'
      BY <1>1, <1>2 DEF ProcInv
    <2> QED
      BY <2>1, <2>2, <2>3, <2>4 DEF ProcInv
  <1>4. StoreInv'
    BY <1>1 DEF StoreInv, HandMadeUntouched
  <1>5. PassInv'
    BY <1>1, <1>2 DEF PassInv, ProcInv, passVars
  <1> QED
    BY <1>3, <1>4, <1>5

LEMMA CreateNetworkOK ==
    ASSUME IInv, NEW w \in Hooks, NEW n \in Nets, NEW v \in Vlans, CreateNetwork(w, n, v)
    PROVE  IInv'
  <1> USE NetworkSyncAssumption DEF IInv
  <1> DEFINE j == [NoJob EXCEPT !.op = "createNet", !.net = n, !.vlan = v]
  <1>1. /\ UserStep /\ claimed' = claimed \cup {v}
        /\ neutron' = [neutron EXCEPT ![n] = [vlan |-> v, subnets |-> {}]]
    BY DEF CreateNetwork
  <1>2. /\ claimed \subseteq claimed' /\ claimed' \subseteq Vlans
        /\ neutron' \in [Nets -> NeutronNet \cup {Unborn, Gone}]
        /\ \A m \in Nets : Live(m)' => neutron'[m].vlan \in claimed'
    BY <1>1 DEF ProcInv, StoreInv, Live, NeutronNet
  <1>3. CASE n \in External
    <2>1. UNCHANGED <<pc, job, unifi, faults, obj, raw, passVars>> /\ ops' \in 0..MaxOps
      BY <1>1, <1>3 DEF CreateNetwork, UserStep, StoreInv
    <2>2. \A u \in Uids : Protected(u)' => Protected(u)
      BY <1>2 DEF Protected
    <2>3. ProcInv'
      BY <1>2, <2>1, <2>2 DEF ProcInv
    <2>4. StoreInv'
      BY <1>2, <2>1 DEF StoreInv, HandMadeUntouched
    <2>5. PassInv'
      BY <1>2, <2>1, <2>2 DEF PassInv, passVars
    <2> QED
      BY <2>3, <2>4, <2>5
  <1>4. CASE n \notin External
    <2>1. Run(w, "find", j)
      BY <1>4 DEF CreateNetwork
    <2>2. j \in Job /\ j.vlan = v /\ j.old = NoVlan /\ j.net = n
      BY DEF NoJob, Job, Ops
    <2>3. "find" \in Labels
      BY DEF Labels, HookSteps, Reconciling
    <2> HIDE DEF j
    <2> QED
      BY <1>1, <1>2, <2>1, <2>2, <2>3, RunOK
  <1> QED
    BY <1>3, <1>4

LEMMA ChangeVlanOK ==
    ASSUME IInv, NEW w \in Hooks, NEW n \in Nets, NEW v \in Vlans, ChangeVlan(w, n, v)
    PROVE  IInv'
  <1> USE NetworkSyncAssumption DEF IInv
  <1> DEFINE j == [NoJob EXCEPT !.op = "updateNet", !.net = n, !.vlan = v,
                                !.old = neutron[n].vlan]
  <1>1. /\ UserStep /\ claimed' = claimed \cup {v} /\ Run(w, "updFind", j)
        /\ neutron' = [neutron EXCEPT ![n].vlan = v] /\ neutron[n] \in NeutronNet
    BY DEF ChangeVlan, Live
  <1>2. /\ claimed \subseteq claimed' /\ claimed' \subseteq Vlans
        /\ neutron' \in [Nets -> NeutronNet \cup {Unborn, Gone}]
        /\ \A m \in Nets : Live(m)' => neutron'[m].vlan \in claimed'
    BY <1>1 DEF ProcInv, StoreInv, Live, NeutronNet
  <1>3. neutron[n].vlan \in claimed /\ neutron[n].vlan \in Vlans
    BY <1>1 DEF ProcInv, StoreInv, Live
  <1>4. j \in Job /\ j.vlan = v /\ j.old = neutron[n].vlan /\ j.net = n
    BY <1>3 DEF NoJob, Job, Ops
  <1>5. "updFind" \in Labels
    BY DEF Labels, HookSteps
  <1> HIDE DEF j
  <1> QED
    BY <1>1, <1>2, <1>3, <1>4, <1>5, RunOK

LEMMA DeleteNetworkOK ==
    ASSUME IInv, NEW w \in Hooks, NEW n \in Nets, DeleteNetwork(w, n)
    PROVE  IInv'
  <1> USE NetworkSyncAssumption DEF IInv
  <1> DEFINE j == [NoJob EXCEPT !.op = "deleteNet", !.net = n, !.vlan = neutron[n].vlan]
  <1>1. /\ UserStep /\ claimed' = claimed /\ Run(w, "delFind", j)
        /\ neutron' = [neutron EXCEPT ![n] = Gone] /\ neutron[n] \in NeutronNet
    BY DEF DeleteNetwork, Live
  <1>2. /\ claimed' \subseteq Vlans
        /\ neutron' \in [Nets -> NeutronNet \cup {Unborn, Gone}]
        /\ \A m \in Nets : Live(m)' => neutron'[m].vlan \in claimed'
    BY <1>1 DEF ProcInv, StoreInv, Live
  <1>3. neutron[n].vlan \in claimed /\ neutron[n].vlan \in Vlans
    BY <1>1 DEF ProcInv, StoreInv, Live
  <1>4. j \in Job /\ j.vlan = neutron[n].vlan /\ j.old = NoVlan /\ j.net = n
    BY <1>3 DEF NoJob, Job, Ops
  <1>5. "delFind" \in Labels
    BY DEF Labels, HookSteps
  <1> HIDE DEF j
  <1> QED
    BY <1>1, <1>2, <1>3, <1>4, <1>5, RunOK

(* The three subnet hooks differ in their label and in what Neutron has     *)
(* committed.                                                               *)
LEMMA SubnetUserOK ==
    ASSUME IInv, NEW w \in Hooks, NEW n \in Nets, NEW ver \in Versions,
           NEW o \in {"createSubnet", "updateSubnet", "deleteSubnet"},
           NEW l \in {"subFind", "clrFind"}, NEW S \in SUBSET Versions,
           Live(n), UserStep, UNCHANGED claimed,
           neutron' = [neutron EXCEPT ![n].subnets = S],
           Run(w, l, SubnetJob(o, n, ver))
    PROVE  IInv'
  <1> USE NetworkSyncAssumption DEF IInv
  <1> DEFINE j == SubnetJob(o, n, ver)
  <1>1. /\ claimed' \subseteq Vlans
        /\ neutron' \in [Nets -> NeutronNet \cup {Unborn, Gone}]
        /\ \A m \in Nets : Live(m)' => neutron'[m].vlan \in claimed'
    BY DEF ProcInv, StoreInv, Live, NeutronNet
  <1>2. neutron[n].vlan \in claimed /\ neutron[n].vlan \in Vlans
    BY DEF ProcInv, StoreInv
  <1>3. j \in Job /\ j.vlan = neutron[n].vlan /\ j.old = NoVlan /\ j.net = n
    BY <1>2 DEF SubnetJob, NoJob, Job, Ops
  <1>4. l \in Labels
    BY DEF Labels, HookSteps
  <1> HIDE DEF j
  <1> QED
    BY <1>1, <1>2, <1>3, <1>4, RunOK DEF j

LEMMA SubnetHooksOK ==
    ASSUME IInv, NEW w \in Hooks, NEW n \in Nets, NEW ver \in Versions,
           CreateSubnet(w, n, ver) \/ UpdateSubnet(w, n, ver) \/ DeleteSubnet(w, n, ver)
    PROVE  IInv'
  <1>1. Live(n) /\ UserStep /\ UNCHANGED claimed /\ neutron[n].subnets \in SUBSET Versions
    BY DEF CreateSubnet, UpdateSubnet, DeleteSubnet, Live, NeutronNet
  <1>2. neutron = [neutron EXCEPT ![n].subnets = neutron[n].subnets]
    BY <1>1 DEF IInv, ProcInv, Live, NeutronNet
  <1>3. CASE CreateSubnet(w, n, ver)
    <2>1. neutron[n].subnets \cup {ver} \in SUBSET Versions
      BY <1>1
    <2>2. /\ neutron' = [neutron EXCEPT ![n].subnets = neutron[n].subnets \cup {ver}]
          /\ Run(w, "subFind", SubnetJob("createSubnet", n, ver))
      BY <1>3 DEF CreateSubnet
    <2> QED
      BY <1>1, <2>1, <2>2, SubnetUserOK
  <1>4. CASE UpdateSubnet(w, n, ver)
    <2>1. /\ neutron' = [neutron EXCEPT ![n].subnets = neutron[n].subnets]
          /\ Run(w, "subFind", SubnetJob("updateSubnet", n, ver))
      BY <1>2, <1>4 DEF UpdateSubnet
    <2> QED
      BY <1>1, <2>1, SubnetUserOK
  <1>5. CASE DeleteSubnet(w, n, ver)
    <2>1. neutron[n].subnets \ {ver} \in SUBSET Versions
      BY <1>1
    <2>2. /\ neutron' = [neutron EXCEPT ![n].subnets = neutron[n].subnets \ {ver}]
          /\ Run(w, "clrFind", SubnetJob("deleteSubnet", n, ver))
      BY <1>5 DEF DeleteSubnet
    <2> QED
      BY <1>1, <2>1, <2>2, SubnetUserOK
  <1> QED
    BY <1>3, <1>4, <1>5

LEMMA DriftOK ==
    ASSUME IInv, NEW u \in Uids, RenameByHand(u) \/ DeleteByHand(u)
    PROVE  IInv'
  <1> USE NetworkSyncAssumption DEF IInv
  <1>1. PICK c \in Conf \cup {Absent} : DriftByHand(u, c)
    <2>1. unifi[u] \in Conf => [unifi[u] EXCEPT !.name = ManualName] \in Conf
      BY DEF Conf, Names
    <2>2. unifi[u] \in Conf
      BY DEF RenameByHand, DeleteByHand, DriftByHand, StoreInv
    <2> QED
      BY <2>1, <2>2 DEF RenameByHand, DeleteByHand
  <1>2. /\ UNCHANGED <<neutron, claimed, pc, job, obj, raw, passVars, faults>>
        /\ unifi' = [unifi EXCEPT ![u] = c] /\ ops' \in 0..MaxOps
        /\ unifi[u] # Absent /\ unifi[u].vlan \in claimed
    BY <1>1 DEF DriftByHand, StoreInv
  <1>3. ProcInv'
    BY <1>2 DEF ProcInv, Live, Protected
  <1>4. HandMadeUntouched'
    BY <1>2 DEF StoreInv, HandMadeUntouched
  <1>5. StoreInv'
    BY <1>2, <1>4 DEF StoreInv
  <1>6. PassInv'
    BY <1>2 DEF PassInv, passVars, Protected
  <1> QED
    BY <1>3, <1>5, <1>6

LEMMA CrashHookOK ==
    ASSUME IInv, NEW w \in Hooks, CrashHook(w)
    PROVE  IInv'
  <1> USE DEF IInv
  <1>1. /\ w \in Procs /\ w # Sync /\ Leave(w) /\ Fault
        /\ UNCHANGED <<claimed, unifi, passVars, ops>>
    BY NetworkSyncAssumption DEF CrashHook, Procs
  <1>2. ProcInv' /\ \E l \in Labels : Moves(w, l)
    BY <1>1, LeaveOK
  <1>3. StoreInv'
    BY <1>1, FaultOK DEF StoreInv, HandMadeUntouched
  <1> QED
    BY <1>1, <1>2, <1>3, PassKept DEF ProcInv

-----------------------------------------------------------------------------
LEMMA StutterInv == IInv /\ UNCHANGED vars => IInv'
  BY DEF IInv, ProcInv, StoreInv, PassInv, vars, passVars, Live, Protected, HandMadeUntouched

(* Every step keeps the inductive invariant: one lemma per action. *)
LEMMA NextInv == IInv /\ [Next]_vars => IInv'
  <1> SUFFICES ASSUME IInv, [Next]_vars PROVE IInv'
    OBVIOUS
  <1>1. ASSUME NEW p \in Procs, ReconcileStep(p) PROVE IInv'
    BY <1>1, PostOK, RenameOK, RefindOK, AssignZoneOK, ReadV4SubnetsOK, DisableV4OK
    DEF ReconcileStep
  <1>2. ASSUME NEW w \in Hooks, HookStep(w) PROVE IInv'
    <2>1. w \in Procs
      BY DEF Procs
    <2> QED
      BY <1>1, <1>2, <2>1, FindOK, FindOldOK, DeleteOldOK, FindDoomedOK, UnassignZoneOK, DeleteOK,
         FindForSubnetOK, PutSubnetOK, FindToClearOK, ClearSubnetOK
      DEF HookStep
  <1>3. ASSUME NEW w \in Hooks, UserAction(w) PROVE IInv'
    BY <1>3, CreateNetworkOK, ChangeVlanOK, DeleteNetworkOK, SubnetHooksOK DEF UserAction
  <1>4. ASSUME SyncStep PROVE IInv'
    BY <1>1, <1>4, SyncProc, ConnectOK, StartPassOK, RefreshOK, NextNetworkOK, ListSubnetsOK, NextSubnetOK,
       PutSubnetOK, SubnetsDoneOK, StartCleanupOK, NextOrphanOK, UnassignZoneOK, DeleteOK,
       FinishPassOK
    DEF SyncStep
  <1> QED
    BY <1>2, <1>3, <1>4, CrashHookOK, CrashSyncOK, DriftOK, StutterInv DEF Next

LEMMA SpecInv == Spec => []IInv
  BY InitInv, NextInv, PTL DEF Spec

(* In every behaviour, with any number of failures and of concurrent hooks, *)
(* every component keeps its type.                                          *)
THEOREM TypeCorrect == Spec => []TypeOK
  BY SpecInv, InvImplies, PTL

(* In every behaviour, an object made by hand on a VLAN that Neutron has    *)
(* never used is exactly as it was made: no hook, no pass and no cleanup    *)
(* wrote or deleted it, whatever stale copies they worked from.             *)
THEOREM HandMadeSafe == Spec => []HandMadeUntouched
  BY SpecInv, InvImplies, PTL
=============================================================================

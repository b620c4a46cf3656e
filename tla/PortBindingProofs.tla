------------------------- MODULE PortBindingProofs -------------------------
(***************************************************************************)
(* The hooks that configure switch ports: their types for any processes,    *)
(* threads and ports; and for a lone thread, what holds of the switch       *)
(* ports while hooks fail and processes restart.                            *)
(***************************************************************************)
EXTENDS PortBinding, SequenceTheorems, TLAPS

(* A thread has a hook unless it is idle, and attempts left for a PUT.      *)
Busy ==
    \A w \in Threads :
       /\ task[w] = NoTask <=> pc[w] = "idle"
       /\ pc[w] = "put" => seen[w] \in Tables /\ left[w] # 0

(* What a hook does fits the hook: only a delete hook has no links, only    *)
(* the others configure, and a create hook resets nothing.                  *)
Fit(t) ==
    /\ t.op # "delete" => t.links # <<>>
    /\ t.doing = "configure" => t.op # "delete" /\ t.slot = Head(t.links)
    /\ t.doing = "reset" => t.op # "create"

AtWork == \A w \in Threads : task[w] # NoTask => Fit(task[w])

TInv == TypeOK /\ Busy /\ AtWork

-----------------------------------------------------------------------------
(* Lists of links and hooks.                                                *)

LEMMA Links ==
  ASSUME NEW l \in Seq(Slots), l # <<>>
  PROVE  /\ Head(l) \in Slots /\ Tail(l) \in Seq(Slots)
         /\ SlotsOf(l) = {Head(l)} \cup SlotsOf(Tail(l))
         /\ Len(l) = 1 <=> Tail(l) = <<>>
  <1>1. /\ Len(l) \in Nat /\ Len(l) # 0
        /\ Head(l) = l[1] /\ Tail(l) \in Seq(Slots) /\ Len(Tail(l)) = Len(l) - 1
        /\ \A i \in 1..Len(Tail(l)) : Tail(l)[i] = l[i + 1]
    BY HeadTailProperties, EmptySeq, LenProperties
  <1>2. DOMAIN l = 1..Len(l) /\ DOMAIN Tail(l) = 1..Len(Tail(l))
    BY <1>1, LenProperties
  <1>3. SlotsOf(l) \subseteq {Head(l)} \cup SlotsOf(Tail(l))
    <2>1. SUFFICES ASSUME NEW i \in 1..Len(l)
                   PROVE  l[i] \in {Head(l)} \cup SlotsOf(Tail(l))
      BY <1>2 DEF SlotsOf
    <2>2. CASE i = 1
      BY <1>1, <2>2
    <2>3. CASE i # 1
      <3>1. i - 1 \in 1..Len(Tail(l)) /\ (i - 1) + 1 = i
        BY <1>1, <2>3
      <3>2. Tail(l)[i - 1] = l[i]
        BY <1>1, <3>1
      <3> QED BY <1>2, <3>1, <3>2 DEF SlotsOf
    <2> QED BY <2>2, <2>3
  <1>4. {Head(l)} \cup SlotsOf(Tail(l)) \subseteq SlotsOf(l)
    <2>1. Head(l) \in SlotsOf(l)
      BY <1>1, <1>2 DEF SlotsOf
    <2>2. ASSUME NEW i \in 1..Len(Tail(l))
          PROVE  Tail(l)[i] \in SlotsOf(l)
      <3>1. i + 1 \in 1..Len(l)
        BY <1>1
      <3> QED BY <1>1, <1>2, <3>1 DEF SlotsOf
    <2> QED BY <1>2, <2>1, <2>2 DEF SlotsOf
  <1>5. Len(l) = 1 <=> Tail(l) = <<>>
    <2>1. Len(l) = 1 <=> Len(Tail(l)) = 0
      BY <1>1
    <2> QED BY <1>1, <2>1, EmptySeq
  <1>6. Head(l) \in Slots
    BY <1>1, <1>2, ElementOfSeq
  <1> QED BY <1>1, <1>3, <1>4, <1>5, <1>6

LEMMA NoLinks == SlotsOf(<<>>) = {}
  BY DEF SlotsOf

LEMMA AimFits ==
  ASSUME NEW op \in {"create", "update"}, NEW p \in Ports, NEW l \in Seq(Slots), l # <<>>,
         NEW m \in Slots \cup {NoSlot}
  PROVE  Aim(op, p, l, m) \in Task /\ Fit(Aim(op, p, l, m))
  BY Links DEF Aim, Task, Fit

LEMMA ForgetFits ==
  ASSUME NEW p \in Ports, NEW m \in Slots
  PROVE  Forget(p, m) \in Task /\ Fit(Forget(p, m))
  BY DEF Forget, Task, Fit

-----------------------------------------------------------------------------
(* Types.                                                                   *)

HookTypes ==
    /\ pc \in [Threads -> {"idle", "look", "put"}]
    /\ task \in [Threads -> Task \cup {NoTask}]
    /\ seen \in [Threads -> Tables \cup {Blank}]
    /\ left \in [Threads -> 0..Retries]

PlaceTypes ==
    /\ live \subseteq born /\ born \subseteq Ports
    /\ failed \subseteq Ports /\ hurt \subseteq Ports
    /\ links \in [Ports -> Seq(Slots)]
    /\ slots \in Tables
    /\ mapping \in [Servers -> [Ports -> Slots \cup {NoSlot}]]

(* A hook begins, goes on or ends.                                          *)
LEMMA SetTaskTypes ==
  ASSUME TInv, NEW w \in Threads, NEW t \in Task \cup {NoTask}, t # NoTask => Fit(t), SetTask(w, t)
  PROVE  (HookTypes /\ Busy /\ AtWork)'
  <1>1. /\ task' = [task EXCEPT ![w] = t]
        /\ pc' = [pc EXCEPT ![w] = IF t = NoTask THEN "idle" ELSE "look"]
        /\ seen' = [seen EXCEPT ![w] = Blank]
        /\ left' = [left EXCEPT ![w] = 0]
    BY DEF SetTask
  <1>2. HookTypes'
    BY <1>1, PortBindingAssumption DEF TInv, TypeOK, HookTypes
  <1>3. /\ task'[w] = t /\ pc'[w] = IF t = NoTask THEN "idle" ELSE "look"
        /\ \A x \in Threads \ {w} : task'[x] = task[x] /\ pc'[x] = pc[x]
                                    /\ seen'[x] = seen[x] /\ left'[x] = left[x]
    BY <1>1 DEF TInv, TypeOK
  <1>4. Busy'
    BY <1>3 DEF TInv, Busy
  <1>5. AtWork'
    BY <1>3 DEF TInv, AtWork
  <1> QED BY <1>2, <1>4, <1>5

LEMMA TaskTypes ==
  ASSUME TInv, NEW w \in Threads, pc[w] # "idle"
  PROVE  /\ task[w] # NoTask /\ task[w] \in Task /\ Fit(task[w])
         /\ task[w].port \in Ports /\ task[w].links \in Seq(Slots) /\ task[w].slot \in Slots
         /\ task[w].op \in {"create", "update", "delete"}
         /\ task[w].doing \in {"configure", "reset"}
         /\ ServerOf[w] \in Servers /\ Known(w, task[w].port) \in Slots \cup {NoSlot}
  BY PortBindingAssumption DEF TInv, TypeOK, Busy, AtWork, Task, Known

LEMMA ConfiguredTypes ==
  ASSUME TInv, NEW w \in Threads, pc[w] # "idle", task[w].doing = "configure", Configured(w)
  PROVE  /\ (HookTypes /\ Busy /\ AtWork)'
         /\ live' = live /\ failed' \subseteq failed
         /\ mapping' \in [Servers -> [Ports -> Slots \cup {NoSlot}]]
  <1> DEFINE t == task[w]
             rest == Tail(t.links)
             u == IF rest = <<>> THEN NoTask ELSE Aim(t.op, t.port, rest, t.slot)
  <1>1. t \in Task /\ t.op \in {"create", "update"} /\ t.links # <<>> /\ t.links \in Seq(Slots)
        /\ t.port \in Ports /\ t.slot \in Slots /\ ServerOf[w] \in Servers
    BY TaskTypes DEF Fit
  <1>2. rest \in Seq(Slots)
    BY <1>1, Links
  <1>3. u \in Task \cup {NoTask} /\ (u # NoTask => Fit(u))
    BY <1>1, <1>2, AimFits
  <1>4. SetTask(w, u)
    BY DEF Configured
  <1>5. (HookTypes /\ Busy /\ AtWork)'
    <2> HIDE DEF u
    <2> QED BY <1>3, <1>4, SetTaskTypes
  <1>6. mapping' \in [Servers -> [Ports -> Slots \cup {NoSlot}]]
    BY <1>1 DEF Configured, Record, TInv, TypeOK
  <1> QED BY <1>5, <1>6 DEF Configured

LEMMA ResetOverTypes ==
  ASSUME TInv, NEW w \in Threads, pc[w] # "idle", task[w].doing = "reset", ResetOver(w)
  PROVE  /\ (HookTypes /\ Busy /\ AtWork)'
         /\ live' = live /\ failed' = failed
         /\ mapping' \in [Servers -> [Ports -> Slots \cup {NoSlot}]]
  <1> DEFINE t == task[w]
  <1>1. t \in Task /\ t.links \in Seq(Slots) /\ t.port \in Ports /\ ServerOf[w] \in Servers
    BY TaskTypes
  <1>2. CASE t.op = "delete"
    <2>1. SetTask(w, NoTask) /\ mapping' = [mapping EXCEPT ![ServerOf[w]][t.port] = NoSlot]
      BY <1>2 DEF ResetOver
    <2>2. (HookTypes /\ Busy /\ AtWork)'
      BY <2>1, SetTaskTypes
    <2> QED BY <1>1, <2>1, <2>2 DEF ResetOver, TInv, TypeOK
  <1>3. CASE t.op = "update"
    <2> DEFINE u == [t EXCEPT !.doing = "configure", !.slot = Head(t.links)]
    <2>1. SetTask(w, u) /\ mapping' = mapping
      BY <1>3 DEF ResetOver
    <2>2. t.links # <<>>
      BY <1>3, TaskTypes DEF Fit
    <2>3. u \in Task /\ Fit(u)
      BY <1>1, <1>3, <2>2, Links DEF Task, Fit
    <2>4. (HookTypes /\ Busy /\ AtWork)'
      <3> HIDE DEF u
      <3> QED BY <2>1, <2>3, SetTaskTypes
    <2> QED BY <2>1, <2>4 DEF ResetOver, TInv, TypeOK
  <1> QED BY <1>2, <1>3 DEF ResetOver

LEMMA RaiseTypes ==
  ASSUME TInv, NEW w \in Threads, pc[w] # "idle", task[w].doing = "configure", Raise(w)
  PROVE  /\ (HookTypes /\ Busy /\ AtWork)'
         /\ live' \subseteq live /\ failed' = failed \cup {task[w].port}
         /\ mapping' = mapping
  <1> DEFINE t == task[w]
             m == Known(w, t.port)
             u == IF m = NoSlot THEN NoTask ELSE Forget(t.port, m)
  <1>1. t.port \in Ports /\ m \in Slots \cup {NoSlot}
    BY TaskTypes
  <1>2. u \in Task \cup {NoTask} /\ (u # NoTask => Fit(u))
    BY <1>1, ForgetFits
  <1>3. SetTask(w, u) \/ SetTask(w, NoTask)
    BY DEF Raise
  <1>4. (HookTypes /\ Busy /\ AtWork)'
    <2> HIDE DEF u
    <2> QED BY <1>2, <1>3, SetTaskTypes
  <1> QED BY <1>4 DEF Raise

(* Whatever a hook does once it is done with a switch port.                 *)
LEMMA OnwardTypes ==
  ASSUME TInv, NEW w \in Threads, pc[w] # "idle", Over(w) \/ GiveUp(w),
         slots' \in Tables, UNCHANGED <<born, links>>, hurt' \subseteq Ports,
         ops' = ops, faults' \in 0..MaxFaults
  PROVE  TInv'
  <1>1. /\ (HookTypes /\ Busy /\ AtWork)'
        /\ live' \subseteq live /\ failed' \subseteq Ports
        /\ mapping' \in [Servers -> [Ports -> Slots \cup {NoSlot}]]
    <2>1. task[w].doing \in {"configure", "reset"} /\ task[w].port \in Ports
      BY TaskTypes
    <2>2. CASE task[w].doing = "configure" /\ Over(w)
      BY <2>2, ConfiguredTypes DEF Over, TInv, TypeOK
    <2>3. CASE task[w].doing = "configure" /\ GiveUp(w)
      BY <2>1, <2>3, RaiseTypes DEF GiveUp, TInv, TypeOK
    <2>4. CASE task[w].doing = "reset"
      BY <2>4, ResetOverTypes DEF Over, GiveUp, TInv, TypeOK
    <2> QED BY <2>1, <2>2, <2>3, <2>4
  <1> QED BY <1>1 DEF HookTypes, TInv, TypeOK

LEMMA Writable ==
  ASSUME TInv, NEW w \in Threads, pc[w] = "put"
  PROVE  Written(w) \in Tables /\ Hurt(w) \subseteq Ports
  <1>1. /\ task[w].port \in Ports /\ task[w].slot \in Slots
        /\ task[w].doing \in {"configure", "reset"} /\ VlanOf[task[w].port] \in Vlans
    BY TaskTypes, PortBindingAssumption
  <1>2. ConfOf(task[w].port) \in Conf /\ Factory \in Conf
    BY <1>1 DEF ConfOf, Factory, Conf
  <1>3. \A s \in Slots : seen[w][s] \in Conf /\ slots[s] \in Conf
    BY DEF TInv, TypeOK, Busy, Tables
  <1>4. Written(w) \in Tables
    BY <1>2, <1>3 DEF Written, Overridden, Tables
  <1>5. Hurt(w) \subseteq Ports
    BY <1>1, <1>3 DEF Hurt, Conf
  <1> QED BY <1>4, <1>5

LEMMA LookTypes ==
  ASSUME TInv, NEW w \in Threads, Look(w)
  PROVE  TInv'
  <1>1. /\ UNCHANGED <<born, links, slots, hurt, ops>> /\ pc[w] = "look"
        /\ faults' \in 0..MaxFaults
    BY PortBindingAssumption DEF Look, Fault, TInv, TypeOK
  <1>2. CASE Over(w) \/ GiveUp(w)
    BY <1>1, <1>2, OnwardTypes DEF TInv, TypeOK
  <1>3. CASE /\ Retries # 0
             /\ pc' = [pc EXCEPT ![w] = "put"] /\ seen' = [seen EXCEPT ![w] = slots]
             /\ left' = [left EXCEPT ![w] = Retries]
             /\ UNCHANGED <<task, mapping, live, failed>>
    <2>1. TypeOK'
      BY <1>1, <1>3, PortBindingAssumption DEF TInv, TypeOK
    <2>2. Busy'
      BY <1>1, <1>3 DEF TInv, TypeOK, Busy
    <2>3. AtWork'
      BY <1>3 DEF TInv, AtWork
    <2> QED BY <2>1, <2>2, <2>3 DEF TInv
  <1> QED BY <1>2, <1>3 DEF Look

LEMMA PutTypes ==
  ASSUME TInv, NEW w \in Threads, Put(w)
  PROVE  TInv'
  <1>1. /\ UNCHANGED <<born, links, ops>> /\ pc[w] = "put"
        /\ slots' \in Tables /\ hurt' \subseteq Ports /\ faults' \in 0..MaxFaults
    BY Writable, PortBindingAssumption DEF Put, Fault, TInv, TypeOK
  <1>2. CASE Over(w) \/ GiveUp(w)
    BY <1>1, <1>2, OnwardTypes
  <1>3. CASE /\ left[w] > 1 /\ left' = [left EXCEPT ![w] = @ - 1]
             /\ UNCHANGED <<pc, task, seen, mapping, live, failed>>
    <2>1. left[w] \in 0..Retries /\ left[w] - 1 \in 0..Retries /\ left[w] - 1 # 0
      BY <1>3, PortBindingAssumption DEF TInv, TypeOK
    <2>2. TypeOK'
      BY <1>1, <1>3, <2>1 DEF TInv, TypeOK
    <2>3. Busy'
      BY <1>3, <2>1 DEF TInv, TypeOK, Busy
    <2>4. AtWork'
      BY <1>3 DEF TInv, AtWork
    <2> QED BY <2>2, <2>3, <2>4 DEF TInv
  <1> QED BY <1>2, <1>3 DEF Put, AgainOrNot

(* Users: a hook begins, or none does.                                      *)
LEMMA UserTypes ==
  ASSUME TInv, NEW w \in Threads, UserStep(w), NoHook \/ \E t \in Task : Fit(t) /\ SetTask(w, t),
         links' \in [Ports -> Seq(Slots)], live' \subseteq born', born' \subseteq Ports,
         failed' = failed
  PROVE  TInv'
  <1>1. UNCHANGED <<slots, mapping, hurt, faults>> /\ ops' \in 0..MaxOps
    BY PortBindingAssumption DEF UserStep, TInv, TypeOK
  <1>2. (HookTypes /\ Busy /\ AtWork)'
    <2>1. CASE NoHook
      BY <2>1 DEF NoHook, TInv, TypeOK, HookTypes, Busy, AtWork
    <2> QED BY <2>1, SetTaskTypes
  <1> QED BY <1>1, <1>2 DEF HookTypes, TInv, TypeOK

LEMMA Listed ==
  ASSUME NEW p \in Ports, NEW l \in Profiles[p]
  PROVE  l \in Seq(Slots)
  BY PortBindingAssumption DEF Lists

LEMMA CreatePortTypes ==
  ASSUME TInv, NEW w \in Threads, NEW p \in Ports, NEW l \in Profiles[p], CreatePort(w, p, l)
  PROVE  TInv'
  <1> DEFINE t == Aim("create", p, l, Known(w, p))
  <1>1. Known(w, p) \in Slots \cup {NoSlot} /\ l \in Seq(Slots)
    BY Listed, PortBindingAssumption DEF TInv, TypeOK, Known
  <1>2. /\ links' \in [Ports -> Seq(Slots)] /\ live' \subseteq born' /\ born' \subseteq Ports
        /\ failed' = failed /\ UserStep(w)
    BY <1>1 DEF CreatePort, Give, TInv, TypeOK
  <1>3. NoHook \/ (t \in Task /\ Fit(t) /\ SetTask(w, t))
    BY <1>1, AimFits DEF CreatePort
  <1> HIDE DEF t
  <1> QED BY <1>2, <1>3, UserTypes

LEMMA UpdatePortTypes ==
  ASSUME TInv, NEW w \in Threads, NEW p \in Ports, NEW l \in Profiles[p], UpdatePort(w, p, l)
  PROVE  TInv'
  <1> DEFINE t == Aim("update", p, l, Known(w, p))
  <1>1. Known(w, p) \in Slots \cup {NoSlot} /\ l \in Seq(Slots)
    BY Listed, PortBindingAssumption DEF TInv, TypeOK, Known
  <1>2. /\ links' \in [Ports -> Seq(Slots)] /\ live' \subseteq born' /\ born' \subseteq Ports
        /\ failed' = failed /\ UserStep(w)
    BY <1>1 DEF UpdatePort, Give, TInv, TypeOK
  <1>3. NoHook \/ (t \in Task /\ Fit(t) /\ SetTask(w, t))
    BY <1>1, AimFits DEF UpdatePort
  <1> HIDE DEF t
  <1> QED BY <1>2, <1>3, UserTypes

LEMMA DeletePortTypes ==
  ASSUME TInv, NEW w \in Threads, NEW p \in Ports, DeletePort(w, p)
  PROVE  TInv'
  <1> DEFINE t == Forget(p, Known(w, p))
  <1>1. Known(w, p) \in Slots \cup {NoSlot}
    BY PortBindingAssumption DEF TInv, TypeOK, Known
  <1>2. /\ links' \in [Ports -> Seq(Slots)] /\ live' \subseteq born' /\ born' \subseteq Ports
        /\ failed' = failed /\ UserStep(w)
    BY DEF DeletePort, TInv, TypeOK
  <1>3. NoHook \/ (t \in Task /\ Fit(t) /\ SetTask(w, t))
    BY <1>1, ForgetFits DEF DeletePort
  <1> HIDE DEF t
  <1> QED BY <1>2, <1>3, UserTypes

LEMMA RestartTypes ==
  ASSUME TInv, NEW v \in Servers, Restart(v)
  PROVE  TInv'
  <1>1. /\ \A w \in Threads :
            \/ pc'[w] = "idle" /\ task'[w] = NoTask /\ seen'[w] = Blank /\ left'[w] = 0
            \/ pc'[w] = pc[w] /\ task'[w] = task[w] /\ seen'[w] = seen[w] /\ left'[w] = left[w]
        /\ pc' \in [Threads -> {"idle", "look", "put"}] /\ task' \in [Threads -> Task \cup {NoTask}]
        /\ seen' \in [Threads -> Tables \cup {Blank}] /\ left' \in [Threads -> 0..Retries]
    BY PortBindingAssumption DEF Restart, TInv, TypeOK
  <1>2. faults' \in 0..MaxFaults /\ UNCHANGED <<live, born, links, slots, hurt, ops>>
    BY PortBindingAssumption DEF Restart, Fault, TInv, TypeOK
  <1>3. mapping' \in [Servers -> [Ports -> Slots \cup {NoSlot}]]
    BY DEF Restart, Nothing, TInv, TypeOK
  <1>4. failed' \subseteq Ports
    <2>1. \A w \in Threads : task[w] # NoTask => task[w].port \in Ports
      BY DEF TInv, TypeOK, Task
    <2> QED BY <2>1 DEF Restart, TInv, TypeOK
  <1>5. TypeOK'
    BY <1>1, <1>2, <1>3, <1>4 DEF TInv, TypeOK
  <1>6. Busy' /\ AtWork'
    BY <1>1 DEF TInv, Busy, AtWork
  <1> QED BY <1>5, <1>6 DEF TInv

LEMMA InitTypes == Init => TInv
  BY PortBindingAssumption DEF Init, TInv, TypeOK, Busy, AtWork, Tables, Conf, Factory, Nothing

LEMMA NextTypes == TInv /\ [Next]_vars => TInv'
  <1>1. CASE UNCHANGED vars
    BY <1>1 DEF vars, TInv, TypeOK, Busy, AtWork
  <1> QED BY <1>1, LookTypes, PutTypes, CreatePortTypes, UpdatePortTypes, DeletePortTypes,
             RestartTypes DEF Next

LEMMA Types == Spec => []TInv
  BY InitTypes, NextTypes, PTL DEF Spec

(* Switch ports, mappings and hooks keep their types, for any number of     *)
(* processes, threads and ports, with any failures: a hook that runs has a  *)
(* link to configure or a switch port to reset.                             *)
THEOREM TypeCorrect == Spec => []TypeOK
  <1>1. TInv => TypeOK
    BY DEF TInv
  <1> QED BY <1>1, Types, PTL
=============================================================================

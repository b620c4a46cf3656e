-------------------------- MODULE SwitchPortProofs --------------------------
(***************************************************************************)
(* What holds of switch ports and port_mappings while one thread runs the   *)
(* hooks, for any processes, ports, switches and lists of links, and any    *)
(* failed requests and restarts.                                            *)
(***************************************************************************)
EXTENDS PortBindingProofs

(* The links of a port never change, or it has one at most.                 *)
Steady(p) == \A l, k \in Profiles[p] : l = k
SingleLinked(p) == \A l \in Profiles[p] : Len(l) \in {0, 1}

SlotsFor(p) == UNION {SlotsOf(l) : l \in Profiles[p]}

Lone == Threads # {} /\ \A w, x \in Threads : w = x
LinksMovedWhole == \A p \in Ports : Steady(p) \/ SingleLinked(p)

(* A port that may be taken off its links shares them with no other: its    *)
(* mapping outlives them.                                                   *)
DetachedAlone ==
    \A p, q \in Ports : <<>> \in Profiles[p] /\ p # q => SlotsFor(p) \cap SlotsFor(q) = {}

(* What the theorems suppose; with two threads, with lists of links that    *)
(* change in part, or with a shared switch port that a port is taken off,   *)
(* the properties fail.                                                     *)
Orderly == Lone /\ LinksMovedWhole /\ DetachedAlone /\ Retries # 0

-----------------------------------------------------------------------------
(* The invariant.                                                           *)

Apart == \A p, q \in live : p # q => SlotsOf(links[p]) \cap SlotsOf(links[q]) = {}

Given == failed \subseteq born /\ \A p \in born : links[p] \in Profiles[p]

(* A create hook has yet to configure some of the links; an update hook,    *)
(* the one link; and what is reset is the switch port remembered.           *)
Purpose(w) ==
    LET t == task[w]
        p == t.port
    IN /\ p \in born
       /\ p \in live <=> t.op # "delete"
       /\ t.op = "create" => p \notin failed /\ SlotsOf(t.links) \subseteq SlotsOf(links[p])
       /\ t.op = "update" => t.links = links[p] /\ Len(t.links) = 1
       /\ t.doing = "reset" => t.slot = Known(w, p)

Purposeful == \A w \in Threads : task[w] # NoTask => Purpose(w)

(* The lookup still shows the other switch ports as they are.               *)
Shows(w) ==
    LET t == task[w]
    IN /\ \A s \in Slots \ {t.slot} : SwitchOf[s] = SwitchOf[t.slot] => seen[w][s] = slots[s]
       /\ t.doing = "reset" => slots[t.slot] \in {seen[w][t.slot], Factory}

Shown == \A w \in Threads : pc[w] = "put" => Shows(w)

On(w, p) == task[w] # NoTask /\ task[w].port = p

(* A link is configured, or a hook has still to come to it.                 *)
Cared(p, s) ==
    \/ slots[s] = ConfOf(p)
    \/ \E w \in Threads : On(w, p) /\ s \in SlotsOf(task[w].links)

Kept == \A p \in live \ (failed \cup hurt) : \A s \in SlotsOf(links[p]) : Cared(p, s)

(* A switch port that is remembered is no other port's, and one of the      *)
(* port's own unless its hook runs or the port was taken off its links.     *)
Recalls(w, q) ==
    /\ Known(w, q) \in SlotsFor(q)
    /\ \A p \in live \ {q} : Known(w, q) \notin SlotsOf(links[p])
    /\ ~ On(w, q) => q \in live /\ (<<>> \in Profiles[q] \/ Known(w, q) \in SlotsOf(links[q]))

Remembered == \A w \in Threads, q \in Ports \ failed : Known(w, q) # NoSlot => Recalls(w, q)

(* Without failures no hook raises, and the one switch port configured for  *)
(* a port that has one link at most is the one remembered.                  *)
Owns(p, s) ==
    /\ p \in born
    /\ Len(links[p]) \in {0, 1} => \A w \in Threads :
          /\ s = Known(w, p)
          /\ On(w, p) /\ task[w].doing = "configure" => s = task[w].slot

Owned ==
    faults = 0 =>
       /\ failed = {}
       /\ DefaultListed =>
             \A s \in Slots, p \in Ports : slots[s].owner = p => Owns(p, s)

Safe == Apart /\ Given /\ Purposeful /\ Shown /\ Kept /\ Remembered /\ Owned

IInv == TInv /\ Safe

-----------------------------------------------------------------------------
(* The parts of a step.                                                     *)

(* The switch port in work, and no other, takes its new configuration.      *)
Target(w) == IF task[w].doing = "configure" THEN ConfOf(task[w].port) ELSE Factory

Wrote(w) == slots' = [slots EXCEPT ![task[w].slot] = Target(w)]

LEMMA WrittenIs ==
  ASSUME IInv, NEW w \in Threads, pc[w] = "put"
  PROVE  Written(w) = [slots EXCEPT ![task[w].slot] = Target(w)]
  <1>1. slots \in [Slots -> Conf] /\ task[w].slot \in Slots
    BY TaskTypes DEF IInv, TInv, TypeOK, Tables
  <1>2. \A s \in Slots \ {task[w].slot} :
           SwitchOf[s] = SwitchOf[task[w].slot] => seen[w][s] = slots[s]
    BY DEF IInv, Safe, Shown, Shows
  <1>3. Written(w) = [s \in Slots |-> IF s = task[w].slot THEN Target(w) ELSE slots[s]]
    BY <1>2 DEF Written, Overridden, Target
  <1> QED BY <1>1, <1>3

LEMMA ProfileSlots ==
  ASSUME NEW p \in Ports, NEW l \in Profiles[p]
  PROVE  SlotsOf(l) \subseteq SlotsFor(p)
  BY DEF SlotsFor

LEMMA Memory ==
  ASSUME TInv, NEW w \in Threads, NEW p \in Ports, NEW m,
         mapping' = [mapping EXCEPT ![ServerOf[w]][p] = m]
  PROVE  /\ Known(w, p)' = m
         /\ \A q \in Ports \ {p} : Known(w, q)' = Known(w, q)
  <1>1. mapping \in [Servers -> [Ports -> Slots \cup {NoSlot}]] /\ ServerOf[w] \in Servers
    BY PortBindingAssumption DEF TInv, TypeOK
  <1>2. mapping'[ServerOf[w]] = [mapping[ServerOf[w]] EXCEPT ![p] = m]
    BY <1>1
  <1>3. mapping'[ServerOf[w]][p] = m
    BY <1>1, <1>2
  <1>4. \A q \in Ports \ {p} : mapping'[ServerOf[w]][q] = mapping[ServerOf[w]][q]
    BY <1>1, <1>2
  <1> QED BY <1>3, <1>4 DEF Known

LEMMA OneSlot ==
  ASSUME NEW l \in Seq(Slots), Len(l) \in {0, 1}, NEW s \in SlotsOf(l), NEW r \in SlotsOf(l)
  PROVE  s = r
  BY LenProperties DEF SlotsOf

(* What a request leaves of the switch ports, applied or not.               *)
Effect(w) ==
    \/ slots' = slots /\ hurt \subseteq hurt'
    \/ pc[w] = "put" /\ Wrote(w) /\ hurt' = hurt \cup Hurt(w)

(* The hook of one port spares what another has configured, or the other    *)
(* has been hurt.                                                           *)
LEMMA Spares ==
  ASSUME Orderly, IInv, NEW w \in Threads, pc[w] # "idle", Effect(w),
         NEW p \in Ports, p = task[w].port, NEW k \in Slots, k = task[w].slot,
         NEW q \in live \ {p}, q \notin failed, q \notin hurt', NEW s \in SlotsOf(links[q])
  PROVE  slots'[s] = ConfOf(q)
  <1>1. s \in Slots /\ q \in Ports
    BY ElementOfSeq DEF SlotsOf, IInv, TInv, TypeOK
  <1>2. \A x \in Threads : x = w
    BY DEF Orderly, Lone
  <1>3. hurt \subseteq hurt'
    BY DEF Effect
  <1>4. slots[s] = ConfOf(q)
    BY <1>2, <1>3 DEF IInv, Safe, Kept, Cared, On
  <1>5. CASE slots' = slots
    BY <1>4, <1>5
  <1>6. CASE pc[w] = "put" /\ Wrote(w) /\ hurt' = hurt \cup Hurt(w)
    <2>1. SUFFICES s # k
      BY <1>1, <1>4, <1>6 DEF Wrote, IInv, TInv, TypeOK, Tables
    <2>2. task[w] # NoTask /\ task[w].doing \in {"configure", "reset"} /\ Fit(task[w]) /\ Purpose(w)
          /\ task[w].links \in Seq(Slots) /\ task[w].op \in {"create", "update", "delete"}
      BY TaskTypes DEF IInv, Safe, Purposeful
    <2>3. CASE task[w].doing = "configure"
      <3>1. k \in SlotsOf(links[p]) /\ p \in live
        BY <2>2, <2>3, Links DEF Fit, Purpose
      <3> QED BY <3>1 DEF IInv, Safe, Apart
    <2>4. CASE task[w].doing = "reset" /\ p \notin failed
      <3>1. Known(w, p) = k /\ k # NoSlot
        BY <2>2, <2>4, NullsAreNoValues DEF Purpose
      <3>2. Recalls(w, p)
        BY <2>4, <3>1 DEF IInv, Safe, Remembered
      <3> QED BY <3>1, <3>2 DEF Recalls
    <2>5. CASE task[w].doing = "reset" /\ p \in failed
      <3>1. SUFFICES ASSUME s = k
                     PROVE  FALSE
        OBVIOUS
      <3>2. slots[k] # Factory
        BY <1>1, <1>4, <3>1, NullsAreNoValues DEF ConfOf, Factory
      <3>3. seen[w][k] = slots[k]
        BY <1>6, <2>5, <3>2 DEF IInv, Safe, Shown, Shows
      <3>4. seen[w][k].owner = q /\ q # NoPort
        BY <1>1, <1>4, <3>1, <3>3, NullsAreNoValues DEF ConfOf
      <3>5. q \in Hurt(w)
        BY <2>5, <3>4 DEF Hurt
      <3> QED BY <1>6, <3>5
    <2> QED BY <2>2, <2>3, <2>4, <2>5
  <1> QED BY <1>5, <1>6 DEF Effect

(* A hook has configured a link.                                            *)
LEMMA ConfiguredSafe ==
  ASSUME Orderly, IInv, TInv', NEW w \in Threads, pc[w] = "put", task[w].doing = "configure",
         NEW p \in Ports, p = task[w].port, NEW k \in Slots, k = task[w].slot,
         Configured(w), Wrote(w), UNCHANGED <<born, links, hurt, faults>>
  PROVE  Safe'
  <1> DEFINE t == task[w]
             rest == Tail(t.links)
  <1>1. /\ t # NoTask /\ t.op \in {"create", "update"} /\ t.links \in Seq(Slots) /\ t.links # <<>>
        /\ k = Head(t.links)
        /\ ServerOf[w] \in Servers
    BY TaskTypes DEF Fit, IInv
  <1>2. /\ p \in live /\ p \in born
        /\ t.op = "create" => p \notin failed /\ SlotsOf(t.links) \subseteq SlotsOf(links[p])
        /\ t.op = "update" => t.links = links[p] /\ Len(t.links) = 1
    BY <1>1 DEF IInv, Safe, Purposeful, Purpose
  <1>3. /\ SlotsOf(t.links) = {k} \cup SlotsOf(rest) /\ rest \in Seq(Slots)
        /\ Len(t.links) = 1 => rest = <<>>
    BY <1>1, Links
  <1>4. SlotsOf(t.links) \subseteq SlotsOf(links[p]) /\ k \in SlotsOf(links[p])
    BY <1>1, <1>2, <1>3
  <1>5. \/ rest = <<>> /\ task'[w] = NoTask
        \/ /\ rest # <<>> /\ t.op = "create" /\ task'[w] # NoTask
           /\ task'[w].op = "create" /\ task'[w].port = p /\ task'[w].links = rest
           /\ task'[w].doing = "configure" /\ task'[w].slot = Head(rest)
    <2>1. t.op = "create" => Aim(t.op, p, rest, k) =
             [op |-> "create", port |-> p, links |-> rest, doing |-> "configure", slot |-> Head(rest)]
      BY DEF Aim
    <2>2. rest # <<>> => Aim(t.op, p, rest, k) # NoTask
      BY <1>1, <1>3, AimFits, NullsAreNoValues
    <2>3. task'[w] = IF rest = <<>> THEN NoTask ELSE Aim(t.op, p, rest, k)
      BY DEF Configured, SetTask, IInv, TInv, TypeOK
    <2>4. CASE rest = <<>>
      BY <2>3, <2>4
    <2>5. CASE rest # <<>>
      <3>1. t.op = "create"
        BY <1>1, <1>2, <1>3, <2>5
      <3>2. task'[w] # NoTask
        BY <2>2, <2>3, <2>5
      <3>3. task'[w] = [op |-> "create", port |-> p, links |-> rest,
                        doing |-> "configure", slot |-> Head(rest)]
        BY <2>1, <2>3, <2>5, <3>1
      <3>4. /\ task'[w].op = "create" /\ task'[w].port = p /\ task'[w].links = rest
            /\ task'[w].doing = "configure" /\ task'[w].slot = Head(rest)
        BY <3>3
      <3> QED BY <2>5, <3>1, <3>2, <3>4
    <2> QED BY <2>4, <2>5
  <1>6. /\ pc'[w] # "put" /\ live' = live
        /\ failed' = IF rest = <<>> THEN failed \ {p} ELSE failed
    BY DEF Configured, SetTask, IInv, TInv, TypeOK
  <1>7. /\ Known(w, p)' = k
        /\ \A q \in Ports \ {p} : Known(w, q)' = Known(w, q)
    <2>1. mapping' = [mapping EXCEPT ![ServerOf[w]][p] = k]
      BY DEF Configured, Record
    <2> QED BY <2>1, Memory DEF IInv
  <1>8. /\ slots'[k] = ConfOf(p)
        /\ \A s \in Slots \ {k} : slots'[s] = slots[s]
    BY <1>1 DEF Wrote, Target, IInv, TInv, TypeOK, Tables
  <1>9. \A x \in Threads : x = w
    BY DEF Orderly, Lone
  <1>10. Apart' /\ Given'
    BY <1>6 DEF IInv, Safe, Apart, Given
  <1>11. Purposeful'
    BY <1>1, <1>2, <1>3, <1>4, <1>5, <1>6, <1>9 DEF Purposeful, Purpose
  <1>12. Shown'
    BY <1>6, <1>9 DEF Shown
  <1>13. Kept'
    <2>1. SUFFICES ASSUME NEW q \in live, q \notin failed', q \notin hurt, NEW s \in SlotsOf(links[q])
                   PROVE  Cared(q, s)'
      BY <1>6 DEF Kept
    <2>2. s \in Slots
      BY ElementOfSeq DEF SlotsOf, IInv, TInv, TypeOK
    <2>3. CASE q = p
      <3>1. CASE s = k
        BY <1>8, <2>3, <3>1 DEF Cared, ConfOf
      <3>2. CASE s # k /\ s \in SlotsOf(t.links)
        <4>1. s \in SlotsOf(rest) /\ rest # <<>>
          BY <1>3, <3>2, NoLinks
        <4>2. task'[w] # NoTask /\ task'[w].port = p /\ task'[w].links = rest
          BY <1>5, <4>1
        <4> QED BY <2>3, <4>1, <4>2 DEF Cared, On
      <3>3. CASE s \notin SlotsOf(t.links)
        <4>1. p \notin failed
          BY <1>1, <1>2, <2>3, <3>3
        <4>2. slots[s] = ConfOf(p)
          BY <1>2, <1>9, <2>1, <2>3, <3>3, <4>1 DEF IInv, Safe, Kept, Cared
        <4> QED BY <1>3, <1>8, <2>2, <2>3, <3>3, <4>2 DEF Cared, ConfOf
      <3> QED BY <3>1, <3>2, <3>3
    <2>4. CASE q # p
      <3>1. s # k
        BY <1>2, <1>4, <2>4 DEF IInv, Safe, Apart
      <3>2. q \notin failed
        BY <1>6, <2>1, <2>4
      <3>3. slots[s] = ConfOf(q)
        BY <1>9, <2>1, <2>4, <3>2 DEF IInv, Safe, Kept, Cared, On
      <3> QED BY <1>8, <2>2, <3>1, <3>3 DEF Cared, ConfOf
    <2> QED BY <2>3, <2>4
  <1>14. Remembered'
    <2>1. SUFFICES ASSUME NEW q \in Ports, q \notin failed', Known(w, q)' # NoSlot
                   PROVE  Recalls(w, q)'
      BY <1>9 DEF Remembered
    <2>2. CASE q = p
      <3>1. k \in SlotsFor(p)
        BY <1>1, <1>2, <1>4, ProfileSlots DEF IInv, Safe, Given
      <3>2. \A r \in live \ {p} : k \notin SlotsOf(links[r])
        BY <1>2, <1>4 DEF IInv, Safe, Apart
      <3> QED BY <1>2, <1>4, <1>6, <1>7, <2>2, <3>1, <3>2 DEF Recalls, Known
    <2>3. CASE q # p
      <3>1. q \notin failed /\ Known(w, q) # NoSlot /\ Known(w, q)' = Known(w, q)
        BY <1>6, <1>7, <2>1, <2>3
      <3>2. Recalls(w, q)
        BY <3>1 DEF IInv, Safe, Remembered
      <3> QED BY <1>6, <2>3, <3>1, <3>2 DEF Recalls, On
    <2> QED BY <2>2, <2>3
  <1>15. Owned'
    <2>1. SUFFICES ASSUME faults = 0
                   PROVE  /\ failed' = {}
                          /\ DefaultListed => \A s \in Slots, q \in Ports :
                                slots'[s].owner = q => Owns(q, s)'
      BY DEF Owned
    <2>2. failed = {}
      BY <2>1 DEF IInv, Safe, Owned
    <2>3. ASSUME DefaultListed, NEW s \in Slots, NEW q \in Ports, slots'[s].owner = q
          PROVE  Owns(q, s)'
      <3>1. CASE s = k
        <4>1. q = p
          BY <1>8, <2>3, <3>1 DEF ConfOf
        <4>2. ASSUME Len(links[p]) \in {0, 1}, On(w, p)'
              PROVE  s = task'[w].slot
          <5>1. rest # <<>> /\ task'[w].slot = Head(rest)
            BY <1>5, <4>2 DEF On
          <5>2. Head(rest) \in SlotsOf(links[p])
            BY <1>3, <1>4, <5>1, Links
          <5>3. links[p] \in Seq(Slots)
            BY <1>1 DEF IInv, TInv, TypeOK
          <5> QED BY <1>4, <3>1, <4>2, <5>1, <5>2, <5>3, OneSlot
        <4> QED BY <1>2, <1>7, <1>9, <3>1, <4>1, <4>2 DEF Owns, Known
      <3>2. CASE s # k
        <4>1. slots[s].owner = q /\ Owns(q, s)
          BY <1>8, <2>1, <2>3, <3>2 DEF IInv, Safe, Owned
        <4>2. CASE q = p
          <5>1. Len(links[p]) \in {0, 1} => s = k
            BY <1>1, <4>1, <4>2 DEF Owns, On
          <5> QED BY <1>2, <3>2, <4>2, <5>1 DEF Owns
        <4>3. CASE q # p
          BY <1>5, <1>7, <1>9, <4>1, <4>3 DEF Owns, On
        <4> QED BY <4>2, <4>3
      <3> QED BY <3>1, <3>2
    <2> QED BY <1>6, <2>2, <2>3
  <1> QED BY <1>10, <1>11, <1>12, <1>13, <1>14, <1>15 DEF Safe

(* A hook has reset a switch port, or has failed to.                        *)
LEMMA ResetOverSafe ==
  ASSUME Orderly, IInv, TInv', NEW w \in Threads, pc[w] # "idle", task[w].doing = "reset",
         NEW p \in Ports, p = task[w].port, NEW k \in Slots, k = task[w].slot,
         ResetOver(w), Effect(w), UNCHANGED <<born, links>>,
         faults' = 0 => faults = 0 /\ (DefaultListed => Wrote(w))
  PROVE  Safe'
  <1> DEFINE t == task[w]
  <1>1. /\ t # NoTask /\ t.op \in {"update", "delete"} /\ t.links \in Seq(Slots)
        /\ t.op = "update" => t.links # <<>>
        /\ t \in Task
    BY TaskTypes DEF Fit, IInv
  <1>2. /\ p \in born /\ k = Known(w, p)
        /\ p \in live <=> t.op # "delete"
        /\ t.op = "update" => t.links = links[p] /\ Len(t.links) = 1
    BY <1>1 DEF IInv, Safe, Purposeful, Purpose
  <1>3. \/ /\ t.op = "delete" /\ task'[w] = NoTask
           /\ mapping' = [mapping EXCEPT ![ServerOf[w]][p] = NoSlot]
        \/ /\ t.op = "update" /\ task'[w] # NoTask /\ task'[w].op = "update" /\ task'[w].port = p
           /\ task'[w].links = t.links /\ task'[w].doing = "configure"
           /\ task'[w].slot = Head(t.links) /\ mapping' = mapping
    <2> DEFINE u == [t EXCEPT !.doing = "configure", !.slot = Head(t.links)]
    <2>1. CASE t.op = "delete"
      BY <2>1 DEF ResetOver, SetTask, IInv, TInv, TypeOK
    <2>2. CASE t.op = "update"
      <3>1. task'[w] = u /\ mapping' = mapping
        BY <2>2 DEF ResetOver, SetTask, IInv, TInv, TypeOK
      <3>2. u \in Task
        BY <1>1, <2>2, Links DEF Task
      <3>3. u.op = "update" /\ u.port = p /\ u.links = t.links /\ u.doing = "configure"
            /\ u.slot = Head(t.links)
        BY <1>1, <2>2 DEF Task
      <3> HIDE DEF u
      <3>4. u # NoTask
        BY <3>2, NullsAreNoValues
      <3> QED BY <2>2, <3>1, <3>3, <3>4
    <2> QED BY <1>1, <2>1, <2>2
  <1>4. pc'[w] # "put" /\ live' = live /\ failed' = failed
    BY DEF ResetOver, SetTask, IInv, TInv, TypeOK
  <1>5. \A x \in Threads : x = w
    BY DEF Orderly, Lone
  <1>6. /\ \A q \in Ports \ {p} : Known(w, q)' = Known(w, q)
        /\ Known(w, p)' = IF t.op = "delete" THEN NoSlot ELSE k
    <2>1. CASE mapping' = mapping /\ t.op = "update"
      BY <1>2, <2>1 DEF Known
    <2>2. CASE mapping' = [mapping EXCEPT ![ServerOf[w]][p] = NoSlot] /\ t.op = "delete"
      BY <2>2, Memory DEF IInv
    <2> QED BY <1>3, <2>1, <2>2
  <1>7. Apart' /\ Given'
    BY <1>4 DEF IInv, Safe, Apart, Given
  <1>8. Purposeful'
    BY <1>2, <1>3, <1>4, <1>5 DEF Purposeful, Purpose
  <1>9. Shown'
    BY <1>4, <1>5 DEF Shown
  <1>10. Kept'
    <2>1. SUFFICES ASSUME NEW q \in live, q \notin failed, q \notin hurt', NEW s \in SlotsOf(links[q])
                   PROVE  Cared(q, s)'
      BY <1>4 DEF Kept
    <2>2. CASE q = p
      BY <1>2, <1>3, <2>2 DEF Cared, On
    <2>3. CASE q # p
      <3>1. slots'[s] = ConfOf(q)
        BY <2>1, <2>3, Spares
      <3> QED BY <3>1 DEF Cared, ConfOf
    <2> QED BY <2>2, <2>3
  <1>11. Remembered'
    <2>1. SUFFICES ASSUME NEW q \in Ports, q \notin failed, Known(w, q)' # NoSlot
                   PROVE  Recalls(w, q)'
      BY <1>4, <1>5 DEF Remembered
    <2>2. Known(w, q)' = Known(w, q) /\ (q = p => t.op = "update")
      BY <1>1, <1>2, <1>6, <2>1 DEF Known
    <2>3. Recalls(w, q)
      BY <2>1, <2>2 DEF IInv, Safe, Remembered
    <2>4. On(w, q)' <=> On(w, q)
      BY <1>1, <1>3, <2>2 DEF On
    <2> QED BY <1>4, <2>2, <2>3, <2>4 DEF Recalls
  <1>12. Owned'
    <2>1. SUFFICES ASSUME faults' = 0
                   PROVE  /\ failed = {}
                          /\ DefaultListed => \A s \in Slots, q \in Ports :
                                slots'[s].owner = q => Owns(q, s)'
      BY <1>4 DEF Owned
    <2>2. failed = {}
      BY <2>1 DEF IInv, Safe, Owned
    <2>3. ASSUME DefaultListed, NEW s \in Slots, NEW q \in Ports, slots'[s].owner = q
          PROVE  Owns(q, s)'
      <3>1. slots' = [slots EXCEPT ![k] = Factory]
        BY <2>1, <2>3 DEF Wrote, Target
      <3>2. s # k /\ slots[s].owner = q
        BY <2>3, <3>1, NullsAreNoValues DEF Factory, IInv, TInv, TypeOK, Tables
      <3>3. Owns(q, s)
        BY <2>1, <2>3, <3>2 DEF IInv, Safe, Owned
      <3>4. q = p => Len(links[p]) \notin {0, 1}
        BY <1>2, <3>2, <3>3 DEF Owns
      <3>5. q # p => Known(w, q)' = Known(w, q) /\ ~ On(w, q)'
        BY <1>3, <1>6 DEF On
      <3> QED BY <1>5, <3>3, <3>4, <3>5 DEF Owns
    <2> QED BY <2>2, <2>3
  <1> QED BY <1>7, <1>8, <1>9, <1>10, <1>11, <1>12 DEF Safe

(* The exception leaves the hook.                                           *)
LEMMA RaiseSafe ==
  ASSUME Orderly, IInv, TInv', NEW w \in Threads, pc[w] # "idle", task[w].doing = "configure",
         NEW p \in Ports, p = task[w].port, NEW k \in Slots, k = task[w].slot,
         Raise(w), Effect(w), UNCHANGED <<born, links>>, faults' # 0
  PROVE  Safe'
  <1> DEFINE t == task[w]
             m == Known(w, p)
  <1>1. t # NoTask /\ t.op \in {"create", "update"} /\ m \in Slots \cup {NoSlot}
    BY TaskTypes DEF Fit, IInv
  <1>2. p \in live /\ p \in born
    BY <1>1 DEF IInv, Safe, Purposeful, Purpose
  <1>3. /\ pc'[w] # "put" /\ failed' = failed \cup {p} /\ mapping' = mapping
        /\ \/ task'[w] = NoTask /\ live' \in {live, live \ {p}}
           \/ task'[w] = Forget(p, m) /\ m # NoSlot /\ live' = live \ {p}
    BY <1>2 DEF Raise, SetTask, IInv, TInv, TypeOK
  <1>4. \A x \in Threads : x = w
    BY DEF Orderly, Lone
  <1>5. \A q \in Ports : Known(w, q)' = Known(w, q)
    BY <1>3 DEF Known
  <1>6. Apart' /\ Given'
    BY <1>2, <1>3 DEF IInv, Safe, Apart, Given
  <1>7. Purposeful'
    <2>1. CASE task'[w] = NoTask
      BY <1>4, <2>1 DEF Purposeful
    <2>2. CASE task'[w] = Forget(p, m) /\ live' = live \ {p}
      <3>1. task'[w].op = "delete" /\ task'[w].port = p /\ task'[w].slot = m
        BY <2>2 DEF Forget
      <3>2. Purpose(w)'
        BY <1>2, <1>3, <2>2, <3>1 DEF Purpose, Known
      <3> QED BY <1>4, <3>2 DEF Purposeful
    <2> QED BY <1>3, <2>1, <2>2
  <1>8. Shown'
    BY <1>3, <1>4 DEF Shown
  <1>9. Kept'
    <2>1. SUFFICES ASSUME NEW q \in live', q \notin failed', q \notin hurt', NEW s \in SlotsOf(links[q])
                   PROVE  Cared(q, s)'
      BY DEF Kept
    <2>2. q \in live \ {p} /\ q \notin failed
      BY <1>3, <2>1
    <2>3. slots'[s] = ConfOf(q)
      BY <2>1, <2>2, Spares
    <2> QED BY <2>3 DEF Cared, ConfOf
  <1>10. Remembered'
    <2>1. SUFFICES ASSUME NEW q \in Ports, q \notin failed, q # p, Known(w, q)' # NoSlot
                   PROVE  Recalls(w, q)'
      BY <1>3, <1>4 DEF Remembered
    <2>2. Recalls(w, q)
      BY <1>5, <2>1 DEF IInv, Safe, Remembered
    <2>3. ~ On(w, q) /\ (q \in live <=> q \in live')
      BY <1>3, <2>1 DEF On
    <2> QED BY <1>3, <1>5, <2>2, <2>3 DEF Recalls
  <1>11. Owned'
    BY DEF Owned
  <1> QED BY <1>6, <1>7, <1>8, <1>9, <1>10, <1>11 DEF Safe

(* Another attempt of a PUT.                                                *)
LEMMA AgainSafe ==
  ASSUME Orderly, IInv, TInv', NEW w \in Threads, pc[w] = "put",
         NEW p \in Ports, p = task[w].port, NEW k \in Slots, k = task[w].slot,
         UNCHANGED <<born, links, pc, task, seen, mapping, live, failed>>,
         Effect(w), faults' # 0
  PROVE  Safe'
  <1> DEFINE t == task[w]
  <1>1. \A x \in Threads : x = w
    BY DEF Orderly, Lone
  <1>2. /\ t # NoTask /\ Fit(t) /\ Purpose(w) /\ Shows(w)
        /\ t.links \in Seq(Slots) /\ t.op \in {"create", "update", "delete"}
        /\ t.doing \in {"configure", "reset"}
    BY TaskTypes DEF IInv, Safe, Purposeful, Shown
  <1>3. \/ slots' = slots
        \/ slots' = [slots EXCEPT ![k] = Target(w)]
    BY DEF Effect, Wrote
  <1>4. slots \in [Slots -> Conf]
    BY DEF IInv, TInv, TypeOK, Tables
  <1>5. Apart' /\ Given'
    BY DEF IInv, Safe, Apart, Given
  <1>6. Purposeful'
    BY DEF IInv, Safe, Purposeful, Purpose, Known
  <1>7. Shown'
    BY <1>1, <1>2, <1>3, <1>4 DEF Shown, Shows, Target
  <1>8. Kept'
    <2>1. SUFFICES ASSUME NEW q \in live, q \notin failed, q \notin hurt', NEW s \in SlotsOf(links[q])
                   PROVE  Cared(q, s)'
      BY DEF Kept
    <2>2. CASE q # p
      <3>1. slots'[s] = ConfOf(q)
        BY <2>1, <2>2, Spares
      <3> QED BY <3>1 DEF Cared, ConfOf
    <2>3. CASE q = p /\ s \in SlotsOf(t.links)
      BY <1>2, <2>3 DEF Cared, On
    <2>4. CASE q = p /\ s \notin SlotsOf(t.links)
      <3>1. q \notin hurt
        BY <2>1 DEF Effect
      <3>2. slots[s] = ConfOf(p)
        BY <1>1, <2>1, <2>4, <3>1 DEF IInv, Safe, Kept, Cared
      <3>3. t.doing = "configure"
        BY <1>2, <2>1, <2>4 DEF Purpose, Fit
      <3>4. slots'[s] = ConfOf(p)
        <4>1. s \in Slots
          BY ElementOfSeq DEF SlotsOf, IInv, TInv, TypeOK
        <4> QED BY <1>3, <1>4, <3>2, <3>3, <4>1 DEF Target
      <3> QED BY <2>4, <3>4 DEF Cared, ConfOf
    <2> QED BY <2>2, <2>3, <2>4
  <1>9. Remembered'
    BY DEF IInv, Safe, Remembered, Recalls, Known, On
  <1>10. Owned'
    BY DEF Owned
  <1> QED BY <1>5, <1>6, <1>7, <1>8, <1>9, <1>10 DEF Safe

(* The lookup has shown the switch.                                         *)
LEMMA LookedSafe ==
  ASSUME Orderly, IInv, TInv', NEW w \in Threads, pc[w] = "look",
         pc' = [pc EXCEPT ![w] = "put"], seen' = [seen EXCEPT ![w] = slots],
         UNCHANGED <<live, born, links, slots, mapping, task, failed, hurt, faults>>
  PROVE  Safe'
  <1>1. \A x \in Threads : x = w
    BY DEF Orderly, Lone
  <1>2. seen'[w] = slots
    BY DEF IInv, TInv, TypeOK
  <1>3. Shown'
    BY <1>1, <1>2 DEF Shown, Shows
  <1>4. (Apart /\ Given /\ Purposeful)'
    BY DEF IInv, Safe, Apart, Given, Purposeful, Purpose, Known
  <1>5. (Kept /\ Remembered /\ Owned)'
    BY DEF IInv, Safe, Kept, Cared, Remembered, Recalls, Owned, Owns, Known, On
  <1> QED BY <1>3, <1>4, <1>5 DEF Safe

-----------------------------------------------------------------------------
(* The steps.                                                               *)

LEMMA FaultCounts ==
  ASSUME TInv, Fault
  PROVE  faults' # 0
  BY PortBindingAssumption DEF Fault, TInv, TypeOK

LEMMA LookSafe ==
  ASSUME Orderly, IInv, TInv', NEW w \in Threads, Look(w)
  PROVE  Safe'
  <1>1. pc[w] = "look" /\ UNCHANGED <<born, links, slots, hurt>> /\ Effect(w)
    BY DEF Look, Effect
  <1>2. PICK p \in Ports, k \in Slots : p = task[w].port /\ k = task[w].slot
    BY <1>1, TaskTypes DEF IInv
  <1>3. task[w].doing \in {"configure", "reset"}
    BY <1>1, TaskTypes DEF IInv
  <1>4. CASE /\ pc' = [pc EXCEPT ![w] = "put"] /\ seen' = [seen EXCEPT ![w] = slots]
             /\ UNCHANGED <<task, mapping, live, failed, faults>>
    BY <1>1, <1>4, LookedSafe
  <1>5. CASE task[w].doing = "reset" /\ ~ DefaultListed /\ GiveUp(w) /\ UNCHANGED faults
    BY <1>1, <1>2, <1>5, ResetOverSafe DEF GiveUp
  <1>6. CASE Fault /\ GiveUp(w)
    <2>1. faults' # 0
      BY <1>6, FaultCounts DEF IInv
    <2>2. CASE task[w].doing = "configure"
      BY <1>1, <1>2, <1>6, <2>1, <2>2, RaiseSafe DEF GiveUp
    <2>3. CASE task[w].doing = "reset"
      BY <1>1, <1>2, <1>6, <2>1, <2>3, ResetOverSafe DEF GiveUp
    <2> QED BY <1>3, <2>2, <2>3
  <1> QED BY <1>3, <1>4, <1>5, <1>6 DEF Look, Orderly

LEMMA PutSafe ==
  ASSUME Orderly, IInv, TInv', NEW w \in Threads, Put(w)
  PROVE  Safe'
  <1>1. /\ pc[w] = "put" /\ UNCHANGED <<born, links>>
        /\ hurt' = hurt \cup Hurt(w)
    BY DEF Put
  <1>2. PICK p \in Ports, k \in Slots : p = task[w].port /\ k = task[w].slot
    BY <1>1, TaskTypes DEF IInv
  <1>3. task[w].doing \in {"configure", "reset"}
    BY <1>1, TaskTypes DEF IInv
  <1>4. Effect(w) /\ (slots' = Written(w) => Wrote(w))
    BY <1>1, WrittenIs DEF Put, Effect, Wrote
  <1>5. CASE slots' = Written(w) /\ Over(w) /\ UNCHANGED faults
    <2>1. CASE task[w].doing = "configure"
      <3>1. hurt' = hurt
        BY <1>1, <2>1 DEF Hurt
      <3> QED BY <1>1, <1>2, <1>4, <1>5, <2>1, <3>1, ConfiguredSafe DEF Over
    <2>2. CASE task[w].doing = "reset"
      BY <1>1, <1>2, <1>4, <1>5, <2>2, ResetOverSafe DEF Over
    <2> QED BY <1>3, <2>1, <2>2
  <1>6. CASE Fault /\ AgainOrNot(w)
    <2>1. faults' # 0
      BY <1>6, FaultCounts DEF IInv
    <2>2. CASE UNCHANGED <<pc, task, seen, mapping, live, failed>>
      BY <1>1, <1>2, <1>4, <2>1, <2>2, AgainSafe
    <2>3. CASE GiveUp(w) /\ task[w].doing = "configure"
      BY <1>1, <1>2, <1>4, <2>1, <2>3, RaiseSafe DEF GiveUp
    <2>4. CASE GiveUp(w) /\ task[w].doing = "reset"
      BY <1>1, <1>2, <1>4, <2>1, <2>4, ResetOverSafe DEF GiveUp
    <2> QED BY <1>3, <1>6, <2>2, <2>3, <2>4 DEF AgainOrNot
  <1> QED BY <1>5, <1>6 DEF Put

(* A port is given links.                                                   *)
LEMMA GivenSafe ==
  ASSUME Orderly, IInv, TInv', NEW w \in Threads, NEW p \in Ports, NEW l \in Profiles[p],
         UserStep(w), Give(p, l), NEW op \in {"create", "update"},
         op = "create" => p \notin born,
         op = "update" => p \in live /\ l # links[p],
         live' = live \cup {p}, born' = born \cup {p}, failed' = failed,
         IF l = <<>> THEN NoHook ELSE SetTask(w, Aim(op, p, l, Known(w, p)))
  PROVE  Safe'
  <1> DEFINE m == Known(w, p)
             t == Aim(op, p, l, m)
  <1>1. /\ l \in Seq(Slots) /\ m \in Slots \cup {NoSlot} /\ pc[w] = "idle" /\ task[w] = NoTask
        /\ UNCHANGED <<slots, mapping, hurt, faults>>
    BY Listed, PortBindingAssumption DEF UserStep, Known, IInv, TInv, TypeOK, Busy
  <1>2. \A x \in Threads : x = w
    BY DEF Orderly, Lone
  <1>3. /\ links'[p] = l /\ \A q \in Ports \ {p} : links'[q] = links[q]
        /\ \A s \in SlotsOf(l) : \A q \in live \ {p} : s \notin SlotsOf(links[q])
    BY DEF Give, Free, IInv, TInv, TypeOK
  <1>4. live \subseteq born /\ born \subseteq Ports /\ failed \subseteq born
    BY DEF IInv, TInv, TypeOK, Safe, Given
  <1>5. op = "update" => Len(l) \in {0, 1} /\ Len(links[p]) \in {0, 1}
    <2>1. op = "update" => links[p] \in Profiles[p]
      BY <1>4 DEF IInv, Safe, Given
    <2> QED BY <2>1 DEF Orderly, LinksMovedWhole, Steady, SingleLinked
  <1>6. /\ pc'[w] # "put"
        /\ l = <<>> => task'[w] = NoTask
        /\ l # <<>> => /\ task'[w] = t /\ t # NoTask
                       /\ t.op = op /\ t.port = p /\ t.links = l
                       /\ t.doing = "reset" => t.slot = m
                       /\ t.doing = "configure" /\ op = "update" /\ m # NoSlot => t.slot = m
    <2>1. CASE l = <<>>
      BY <1>1, <2>1 DEF NoHook
    <2>2. CASE l # <<>>
      <3>1. t \in Task
        BY <1>1, <2>2, AimFits
      <3>2. /\ t.op = op /\ t.port = p /\ t.links = l
            /\ t.doing = "reset" => t.slot = m
            /\ t.doing = "configure" /\ op = "update" /\ m # NoSlot => t.slot = m
        BY DEF Aim
      <3> HIDE DEF t
      <3>3. task'[w] = t /\ t # NoTask /\ pc'[w] # "put"
        BY <2>2, <3>1, NullsAreNoValues DEF t, SetTask, IInv, TInv, TypeOK
      <3> QED BY <2>2, <3>2, <3>3
    <2> QED BY <2>1, <2>2
  <1> HIDE DEF t
  <1>7. \A q \in Ports \ {p} : ~ On(w, q)'
    BY <1>6 DEF On
  <1>8. Apart'
    <2>1. \A q \in live \ {p} : SlotsOf(l) \cap SlotsOf(links[q]) = {}
      BY <1>3
    <2>2. SUFFICES ASSUME NEW q \in live', NEW r \in live', q # r
                   PROVE  SlotsOf(links'[q]) \cap SlotsOf(links'[r]) = {}
      BY DEF Apart
    <2>3. CASE q = p
      BY <1>3, <1>4, <2>1, <2>2, <2>3
    <2>4. CASE r = p
      BY <1>3, <1>4, <2>1, <2>2, <2>4
    <2>5. CASE q # p /\ r # p
      BY <1>3, <1>4, <2>2, <2>5 DEF IInv, Safe, Apart
    <2> QED BY <2>3, <2>4, <2>5
  <1>9. Given'
    BY <1>3, <1>4 DEF IInv, Safe, Given
  <1>10. Purposeful'
    <2>1. ASSUME l # <<>>
          PROVE  Purpose(w)'
      <3>1. op = "update" => Len(l) = 1
        BY <1>1, <1>5, <2>1, EmptySeq
      <3>2. Known(w, p)' = m
        BY <1>1 DEF Known
      <3>3. /\ task'[w].op = op /\ task'[w].port = p /\ task'[w].links = l
            /\ task'[w].doing = "reset" => task'[w].slot = m
        BY <1>6, <2>1
      <3> QED BY <1>1, <1>3, <1>4, <3>1, <3>3 DEF Purpose, Known
    <2> QED BY <1>2, <1>6, <2>1 DEF Purposeful
  <1>11. Shown'
    BY <1>2, <1>6 DEF Shown
  <1>12. Kept'
    <2>1. SUFFICES ASSUME NEW q \in live', q \notin failed, q \notin hurt, NEW s \in SlotsOf(links'[q])
                   PROVE  Cared(q, s)'
      BY <1>1 DEF Kept
    <2>2. CASE q = p
      <3>1. s \in SlotsOf(l) /\ l # <<>>
        BY <1>3, <2>1, <2>2, NoLinks
      <3>2. task'[w] # NoTask /\ task'[w].port = p /\ task'[w].links = l
        BY <1>6, <3>1
      <3> QED BY <2>2, <3>1, <3>2 DEF Cared, On
    <2>3. CASE q # p
      <3>1. q \in live /\ s \in SlotsOf(links[q])
        BY <1>3, <1>4, <2>1, <2>3
      <3>2. slots[s] = ConfOf(q)
        BY <1>1, <1>2, <2>1, <3>1 DEF IInv, Safe, Kept, Cared, On
      <3> QED BY <1>1, <3>2 DEF Cared, ConfOf
    <2> QED BY <2>2, <2>3
  <1>13. Remembered'
    <2>1. SUFFICES ASSUME NEW q \in Ports, q \notin failed, Known(w, q) # NoSlot
                   PROVE  Recalls(w, q)'
      BY <1>1, <1>2 DEF Remembered, Known
    <2>2. /\ Recalls(w, q) /\ ~ On(w, q)
          /\ q \in live /\ (<<>> \in Profiles[q] \/ Known(w, q) \in SlotsOf(links[q]))
      BY <1>1, <2>1 DEF IInv, Safe, Remembered, Recalls, On
    <2>3. Known(w, q)' = Known(w, q)
      BY <1>1 DEF Known
    <2>4. CASE q = p
      <3>1. \A r \in live' \ {q} : Known(w, q) \notin SlotsOf(links'[r])
        BY <1>3, <1>4, <2>2, <2>4 DEF Recalls
      <3>2. <<>> \in Profiles[q] \/ On(w, q)'
        BY <1>6, <2>4 DEF On
      <3> QED BY <2>2, <2>3, <2>4, <3>1, <3>2 DEF Recalls
    <2>5. CASE q # p
      <3>1. Known(w, q) \notin SlotsOf(l)
        <4>1. CASE Known(w, q) \in SlotsOf(links[q])
          BY <1>3, <2>2, <2>5, <4>1
        <4>2. CASE <<>> \in Profiles[q]
          <5>1. SlotsOf(l) \subseteq SlotsFor(p) /\ SlotsFor(q) \cap SlotsFor(p) = {}
            BY <2>5, <4>2, ProfileSlots DEF Orderly, DetachedAlone
          <5> QED BY <2>2, <5>1 DEF Recalls
        <4> QED BY <2>2, <4>1, <4>2
      <3>2. \A r \in live' \ {q} : Known(w, q) \notin SlotsOf(links'[r])
        BY <1>3, <1>4, <2>2, <3>1 DEF Recalls
      <3> QED BY <1>3, <1>7, <2>2, <2>3, <2>5, <3>2 DEF Recalls
    <2> QED BY <2>4, <2>5
  <1>14. Owned'
    <2>1. SUFFICES ASSUME faults = 0
                   PROVE  /\ failed = {}
                          /\ DefaultListed => \A s \in Slots, q \in Ports :
                                slots[s].owner = q => Owns(q, s)'
      BY <1>1 DEF Owned
    <2>2. failed = {}
      BY <2>1 DEF IInv, Safe, Owned
    <2>3. ASSUME DefaultListed, NEW s \in Slots, NEW q \in Ports, slots[s].owner = q
          PROVE  Owns(q, s)'
      <3>1. Owns(q, s)
        BY <2>1, <2>3 DEF IInv, Safe, Owned
      <3>2. Known(w, q)' = Known(w, q)
        BY <1>1 DEF Known
      <3>3. CASE q = p
        <4>1. op = "update" /\ s = m /\ m # NoSlot
          BY <1>5, <3>1, <3>3, NullsAreNoValues DEF Owns
        <4>2. On(w, p)' /\ task'[w].doing = "configure" => s = task'[w].slot
          BY <1>6, <4>1 DEF On
        <4> QED BY <1>1, <1>2, <3>1, <3>3, <4>1, <4>2 DEF Owns, Known
      <3>4. CASE q # p
        BY <1>2, <1>3, <1>7, <3>1, <3>2, <3>4 DEF Owns
      <3> QED BY <3>3, <3>4
    <2> QED BY <2>2, <2>3
  <1> QED BY <1>8, <1>9, <1>10, <1>11, <1>12, <1>13, <1>14 DEF Safe

LEMMA CreatePortSafe ==
  ASSUME Orderly, IInv, TInv', NEW w \in Threads, NEW p \in Ports, NEW l \in Profiles[p],
         CreatePort(w, p, l)
  PROVE  Safe'
  BY GivenSafe DEF CreatePort

LEMMA UpdatePortSafe ==
  ASSUME Orderly, IInv, TInv', NEW w \in Threads, NEW p \in Ports, NEW l \in Profiles[p],
         UpdatePort(w, p, l)
  PROVE  Safe'
  <1>1. live' = live \cup {p} /\ born' = born \cup {p}
    BY DEF UpdatePort, IInv, TInv, TypeOK
  <1> QED BY <1>1, GivenSafe DEF UpdatePort

LEMMA DeletePortSafe ==
  ASSUME Orderly, IInv, TInv', NEW w \in Threads, NEW p \in Ports, DeletePort(w, p)
  PROVE  Safe'
  <1> DEFINE m == Known(w, p)
  <1>1. /\ pc[w] = "idle" /\ task[w] = NoTask /\ p \in live /\ live' = live \ {p}
        /\ UNCHANGED <<born, links, slots, mapping, failed, hurt, faults>>
        /\ m \in Slots \cup {NoSlot}
    BY PortBindingAssumption DEF DeletePort, UserStep, Known, IInv, TInv, TypeOK, Busy
  <1>2. \A x \in Threads : x = w
    BY DEF Orderly, Lone
  <1>3. /\ pc'[w] # "put"
        /\ m = NoSlot => task'[w] = NoTask
        /\ m # NoSlot => /\ task'[w] # NoTask /\ task'[w].op = "delete" /\ task'[w].port = p
                         /\ task'[w].doing = "reset" /\ task'[w].slot = m
    <2>1. CASE m = NoSlot
      BY <1>1, <2>1 DEF DeletePort, NoHook
    <2>2. CASE m # NoSlot
      <3>1. task'[w] = Forget(p, m) /\ pc'[w] # "put"
        BY <2>2, ForgetFits, NullsAreNoValues DEF DeletePort, SetTask, IInv, TInv, TypeOK
      <3>2. Forget(p, m) # NoTask
        BY <1>1, <2>2, ForgetFits, NullsAreNoValues
      <3> QED BY <2>2, <3>1, <3>2 DEF Forget
    <2> QED BY <2>1, <2>2
  <1>4. \A q \in Ports : Known(w, q)' = Known(w, q) /\ (On(w, q)' => q = p)
    BY <1>1, <1>3 DEF Known, On
  <1>5. Apart' /\ Given'
    BY <1>1 DEF IInv, Safe, Apart, Given
  <1>6. Purposeful'
    <2>1. ASSUME m # NoSlot
          PROVE  Purpose(w)'
      BY <1>1, <1>3, <2>1 DEF Purpose, Known, IInv, TInv, TypeOK
    <2> QED BY <1>2, <1>3, <2>1 DEF Purposeful
  <1>7. Shown'
    BY <1>2, <1>3 DEF Shown
  <1>8. Kept'
    <2>1. SUFFICES ASSUME NEW q \in live \ {p}, q \notin failed, q \notin hurt, NEW s \in SlotsOf(links[q])
                   PROVE  Cared(q, s)'
      BY <1>1 DEF Kept
    <2>2. slots[s] = ConfOf(q)
      BY <1>1, <1>2, <2>1 DEF IInv, Safe, Kept, Cared, On
    <2> QED BY <1>1, <2>2 DEF Cared, ConfOf
  <1>9. Remembered'
    <2>1. SUFFICES ASSUME NEW q \in Ports, q \notin failed, Known(w, q) # NoSlot
                   PROVE  Recalls(w, q)'
      BY <1>1, <1>2, <1>4 DEF Remembered
    <2>2. Recalls(w, q) /\ ~ On(w, q)
      BY <1>1, <2>1 DEF IInv, Safe, Remembered, On
    <2>3. q = p => On(w, q)'
      BY <1>3, <2>1 DEF On
    <2> QED BY <1>1, <1>4, <2>2, <2>3 DEF Recalls
  <1>10. Owned'
    <2>1. \A q \in Ports : ~ (On(w, q)' /\ task'[w].doing = "configure")
      BY <1>3 DEF On
    <2> QED BY <1>1, <1>2, <1>4, <2>1 DEF IInv, Safe, Owned, Owns
  <1> QED BY <1>5, <1>6, <1>7, <1>8, <1>9, <1>10 DEF Safe

LEMMA RestartSafe ==
  ASSUME Orderly, IInv, TInv', NEW v \in Servers, Restart(v)
  PROVE  Safe'
  <1>1. PICK w \in Threads : \A x \in Threads : x = w
    BY DEF Orderly, Lone
  <1>2. UNCHANGED <<live, born, links, slots, hurt>> /\ faults' # 0
    BY FaultCounts DEF Restart, IInv
  <1>3. Owned'
    BY <1>2 DEF Owned
  <1>4. Apart'
    BY <1>2 DEF IInv, Safe, Apart
  <1>5. ServerOf[w] \in Servers
    BY PortBindingAssumption
  <1>6. CASE ServerOf[w] = v
    <2>1. pc'[w] = "idle" /\ task'[w] = NoTask
      BY <1>6 DEF Restart
    <2>2. \A q \in Ports : Known(w, q)' = NoSlot
      BY <1>5, <1>6 DEF Restart, Nothing, Known, IInv, TInv, TypeOK
    <2>3. /\ failed \subseteq failed' /\ (task[w] # NoTask => task[w].port \in failed')
          /\ failed' \subseteq born
      <3>1. task[w] # NoTask => task[w].port \in born
        BY DEF IInv, Safe, Purposeful, Purpose
      <3>2. failed' = failed \cup {task[x].port : x \in {y \in Threads : ServerOf[y] = v /\ task[y] # NoTask}}
        BY DEF Restart
      <3>3. failed \subseteq born
        BY DEF IInv, Safe, Given
      <3> QED BY <1>1, <1>6, <3>1, <3>2, <3>3
    <2>4. Given'
      BY <1>2, <2>3 DEF IInv, Safe, Given
    <2>5. Kept'
      <3>1. SUFFICES ASSUME NEW q \in live, q \notin failed', q \notin hurt, NEW s \in SlotsOf(links[q])
                     PROVE  Cared(q, s)'
        BY <1>2 DEF Kept
      <3>2. slots[s] = ConfOf(q)
        BY <1>1, <2>3, <3>1 DEF IInv, Safe, Kept, Cared, On
      <3> QED BY <1>2, <3>2 DEF Cared, ConfOf
    <2>6. Purposeful' /\ Shown' /\ Remembered'
      BY <1>1, <2>1, <2>2 DEF Purposeful, Shown, Remembered
    <2> QED BY <1>3, <1>4, <2>4, <2>5, <2>6 DEF Safe
  <1>7. CASE ServerOf[w] # v
    <2>1. pc'[w] = pc[w] /\ task'[w] = task[w] /\ seen'[w] = seen[w] /\ left'[w] = left[w]
      BY <1>7 DEF Restart
    <2>2. \A q \in Ports : Known(w, q)' = Known(w, q)
      BY <1>5, <1>7 DEF Restart, Known, IInv, TInv, TypeOK
    <2>3. failed' = failed
      BY <1>1, <1>7 DEF Restart
    <2>4. Given'
      BY <1>2, <2>3 DEF IInv, Safe, Given
    <2>5. Purposeful'
      <3>1. mapping'[ServerOf[w]] = mapping[ServerOf[w]]
        BY <1>5, <1>7 DEF Restart, IInv, TInv, TypeOK
      <3> QED BY <1>1, <1>2, <2>1, <2>3, <3>1 DEF IInv, Safe, Purposeful, Purpose, Known
    <2>6. Shown'
      BY <1>1, <1>2, <2>1 DEF IInv, Safe, Shown, Shows
    <2>7. Kept'
      BY <1>1, <1>2, <2>1, <2>3 DEF IInv, Safe, Kept, Cared, On, ConfOf
    <2>8. Remembered'
      BY <1>1, <1>2, <2>1, <2>2, <2>3 DEF IInv, Safe, Remembered, Recalls, On
    <2> QED BY <1>3, <1>4, <2>4, <2>5, <2>6, <2>7, <2>8 DEF Safe
  <1> QED BY <1>6, <1>7

LEMMA InitSafe == Init => Safe
  <1> SUFFICES ASSUME Init
               PROVE  Safe
    OBVIOUS
  <1>1. /\ live = {} /\ born = {} /\ failed = {}
        /\ \A w \in Threads : task[w] = NoTask /\ pc[w] = "idle"
        /\ \A w \in Threads, q \in Ports : Known(w, q) = NoSlot
        /\ \A s \in Slots : slots[s].owner = NoPort
    BY PortBindingAssumption DEF Init, Factory, Known, Nothing
  <1>2. Apart /\ Given /\ Purposeful /\ Shown /\ Kept /\ Remembered
    BY <1>1 DEF Apart, Given, Purposeful, Shown, Kept, Remembered
  <1>3. Owned
    BY <1>1, NullsAreNoValues DEF Owned
  <1> QED BY <1>2, <1>3 DEF Safe

LEMMA StutterSafe ==
  ASSUME IInv, UNCHANGED vars
  PROVE  Safe'
  <1>1. (Apart /\ Given /\ Purposeful /\ Shown)'
    BY DEF vars, IInv, Safe, Apart, Given, Purposeful, Purpose, Known, Shown, Shows
  <1>2. (Kept /\ Remembered /\ Owned)'
    BY DEF vars, IInv, Safe, Kept, Cared, Remembered, Recalls, Owned, Owns, On, Known
  <1> QED BY <1>1, <1>2 DEF Safe

LEMMA NextSafe ==
  ASSUME Orderly, IInv, [Next]_vars
  PROVE  IInv'
  <1>1. TInv'
    BY NextTypes DEF IInv
  <1>2. Safe'
    BY <1>1, StutterSafe, LookSafe, PutSafe, CreatePortSafe, UpdatePortSafe, DeletePortSafe,
       RestartSafe DEF Next
  <1> QED BY <1>1, <1>2 DEF IInv

OInv == Orderly /\ IInv

LEMMA Invariance == Orderly => (Spec => []OInv)
  <1>1. Orderly /\ Init => OInv
    BY InitTypes, InitSafe DEF OInv, IInv
  <1>2. OInv /\ [Next]_vars => OInv'
    <2>1. Orderly => Orderly'
      BY DEF Orderly, Lone, LinksMovedWhole, DetachedAlone, Steady, SingleLinked, SlotsFor, SlotsOf
    <2> QED BY <2>1, NextSafe DEF OInv
  <1> QED BY <1>1, <1>2, PTL DEF Spec

-----------------------------------------------------------------------------
(* The theorems.                                                            *)

LEMMA IdleHasNoHook ==
  ASSUME IInv, Idle, NEW w \in Threads
  PROVE  task[w] = NoTask
  BY DEF Idle, IInv, TInv, Busy

(* update_port_postcommit and create_port_postcommit with one thread, after *)
(* any failed requests and restarts: once the hooks are done, the switch    *)
(* ports of a port whose last hook returned normally have its name and its  *)
(* network, unless a hook of another port that had raised has reset one.    *)
THEOREM ConfiguredAsLinked == Orderly => (Spec => []LinksConfigured)
  <1>1. OInv => LinksConfigured
    <2>1. SUFFICES ASSUME IInv, Idle, NEW p \in live \ (failed \cup hurt), NEW s \in SlotsOf(links[p])
                   PROVE  slots[s] = ConfOf(p)
      BY DEF OInv, LinksConfigured
    <2> QED BY <2>1, IdleHasNoHook DEF IInv, Safe, Kept, Cared, On
  <1> QED BY <1>1, Invariance, PTL

(* delete_port_postcommit with one thread, while no request has failed:     *)
(* no switch port stays configured for a port that is gone, unless it had   *)
(* several links; the controller must list a network with the default VLAN. *)
THEOREM ResetWhenDeleted == Orderly /\ DefaultListed => (Spec => []DeletedPortsReset)
  <1>1. OInv /\ DefaultListed => DeletedPortsReset
    <2>1. SUFFICES ASSUME Orderly, DefaultListed, IInv, Idle, faults = 0, NEW s \in Slots,
                          slots[s].owner \notin live, slots[s].owner # NoPort
                   PROVE  Len(links[slots[s].owner]) > 1
      BY DEF OInv, DeletedPortsReset
    <2>2. PICK p \in Ports : p = slots[s].owner
      BY <2>1 DEF IInv, TInv, TypeOK, Tables, Conf
    <2>3. failed = {} /\ Owns(p, s)
      BY <2>1, <2>2 DEF IInv, Safe, Owned
    <2>4. PICK w \in Threads : TRUE
      BY <2>1 DEF Orderly, Lone
    <2>5. Known(w, p) # s
      <3>1. ~ On(w, p)
        BY <2>1, IdleHasNoHook DEF On
      <3>2. Known(w, p) = NoSlot
        BY <2>1, <2>2, <2>3, <3>1 DEF IInv, Safe, Remembered, Recalls
      <3> QED BY <3>2, NullsAreNoValues
    <2>6. Len(links[p]) > 1
      <3>1. links[p] \in Seq(Slots)
        BY <2>1 DEF IInv, TInv, TypeOK
      <3>2. PICK n \in Nat : n = Len(links[p])
        BY <3>1, LenProperties
      <3>3. n # 0 /\ n # 1
        BY <2>3, <2>5, <3>2 DEF Owns
      <3>4. n > 1
        BY <3>3
      <3> QED BY <3>2, <3>4
    <2> QED BY <2>2, <2>6
  <1>2. DefaultListed => DefaultListed'
    OBVIOUS
  <1> QED BY <1>1, <1>2, Invariance, PTL

(* _unconfigure_port and _configure_port with one thread, while no request  *)
(* has failed: what port_mappings remembers is never another port's switch  *)
(* port, so a hook leaves alone what is configured for another live port.   *)
THEOREM OthersLeftAlone == Orderly => (Spec => NoForeignReset)
  <1> DEFINE A == faults' = 0 => \A s \in Slots, q \in Ports :
                slots[s].owner = q /\ q \in live /\ s \in SlotsOf(links[q]) /\ slots'[s] # slots[s]
                   => \A w \in Threads : task'[w] # task[w] => task[w].port = q
  <1>1. OInv /\ [Next]_vars => [A]_vars
    <2>1. SUFFICES ASSUME Orderly, IInv, Next, faults' = 0, NEW s \in Slots, NEW q \in Ports,
                          q \in live, s \in SlotsOf(links[q]), slots'[s] # slots[s],
                          NEW w \in Threads
                   PROVE  task[w].port = q
      BY DEF OInv
    <2>2. Put(w)
      <3>1. \A x \in Threads : x = w
        BY <2>1 DEF Orderly, Lone
      <3> QED BY <2>1, <3>1 DEF Next, Look, CreatePort, UpdatePort, DeletePort, UserStep, Restart
    <2>3. ~ Fault
      BY <2>1, FaultCounts DEF IInv
    <2>4. pc[w] = "put" /\ Wrote(w) /\ faults = 0
      <3>1. pc[w] = "put" /\ slots' = Written(w) /\ faults' = faults
        BY <2>2, <2>3 DEF Put
      <3>2. Written(w) = [slots EXCEPT ![task[w].slot] = Target(w)]
        BY <2>1, <3>1, WrittenIs
      <3> QED BY <2>1, <3>1, <3>2 DEF Wrote
    <2>5. PICK p \in Ports, k \in Slots : p = task[w].port /\ k = task[w].slot
      BY <2>1, <2>4, TaskTypes DEF IInv
    <2>6. s = k
      BY <2>1, <2>4, <2>5 DEF Wrote, IInv, TInv, TypeOK, Tables
    <2>7. task[w] # NoTask /\ Fit(task[w]) /\ Purpose(w) /\ task[w].links \in Seq(Slots)
          /\ task[w].doing \in {"configure", "reset"} /\ task[w].op \in {"create", "update", "delete"}
      BY <2>1, <2>4, TaskTypes DEF IInv, Safe, Purposeful
    <2>8. CASE task[w].doing = "configure"
      <3>1. s \in SlotsOf(links[p]) /\ p \in live
        BY <2>5, <2>6, <2>7, <2>8, Links DEF Fit, Purpose
      <3> QED BY <2>1, <2>5, <3>1 DEF IInv, Safe, Apart
    <2>9. CASE task[w].doing = "reset"
      <3>1. Known(w, p) = s /\ s # NoSlot
        BY <2>5, <2>6, <2>7, <2>9, NullsAreNoValues DEF Purpose
      <3>2. Recalls(w, p)
        BY <2>1, <2>4, <3>1 DEF IInv, Safe, Owned, Remembered
      <3> QED BY <2>1, <2>5, <3>1, <3>2 DEF Recalls
    <2> QED BY <2>7, <2>8, <2>9
  <1> QED BY <1>1, Invariance, PTL DEF Spec, NoForeignReset
=============================================================================

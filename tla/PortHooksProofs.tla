-------------------------- MODULE PortHooksProofs ---------------------------
(***************************************************************************)
(* The port hooks for any number of threads, ports and names, with any      *)
(* failures: types, SLAAC addresses that are authorized, and pairs that     *)
(* users asked for.                                                         *)
(***************************************************************************)
EXTENDS PortHooks, SequenceTheorems, TLAPS

Stages == {"idle", "find", "delete", "look", "write", "subnets", "authorize"}

(* Until a hook has come to the name to keep, it has all addresses left.    *)
Unspent == \A w \in Threads : pc[w] \in {"find", "delete"} => left[w] = hook[w].state.ips

(* Thread w runs a hook that is going to look at port p as it is now.       *)
Looks(w, p) ==
    /\ hook[w] # NoHook /\ hook[w].op # "delete"
    /\ hook[w].port = p /\ hook[w].state = port[p]

(* A port with an address that is not authorized has such a hook.           *)
Awaited == \A p \in live \ skipped : NewPairs(p, port[p]) = {} \/ \E w \in Threads : Looks(w, p)

(* Without another hook beside it, a hook knows the port as it is.          *)
UpToDate ==
    \A w \in Threads :
       hook[w] # NoHook /\ hook[w].port \notin crossed => hook[w].state = port[hook[w].port]

IInv == TypeOK /\ Unspent /\ Awaited /\ UpToDate /\ AskedPairsKept

-----------------------------------------------------------------------------
(* Where a hook goes, and what it drops and keeps.                          *)

LEMMA KeepFirstTypes ==
  ASSUME NEW h \in Hook
  PROVE  /\ KeepFirst(h) \in {"look", "subnets", "idle"}
         /\ KeepFirst(h) = "look" => Keep(h) \in Names /\ h.state.ips # <<>>
         /\ KeepFirst(h) = "idle" => h.op = "delete"
         /\ DnsOver(h) \in {"subnets", "idle"}
         /\ DnsOver(h) = "idle" => h.op = "delete"
  BY DEF KeepFirst, Keep, DnsOver, Hook, Port

LEMMA DropFirstTypes ==
  ASSUME NEW h \in Hook
  PROVE  /\ DropFirst(h) \in {"find", "look", "subnets", "idle"}
         /\ DropFirst(h) = "find" => Drop(h) \in Names
         /\ DropFirst(h) = "look" => Keep(h) \in Names /\ h.state.ips # <<>>
         /\ DropFirst(h) = "idle" => h.op = "delete"
  BY KeepFirstTypes DEF DropFirst, Drop, Hook, Port

(* A hook begins.                                                           *)
LEMMA BeginTypes ==
  ASSUME TypeOK, Unspent, NEW w \in Threads, NEW h \in Hook, Begin(w, h),
         UNCHANGED <<records, botched>>
  PROVE  /\ DnsTypeOK' /\ Unspent'
         /\ pc' \in [Threads -> Stages] /\ hook' \in [Threads -> Hook \cup {NoHook}]
         /\ \A x \in Threads : hook'[x] = NoHook <=> pc'[x] = "idle"
         /\ \A x \in Threads \ {w} : hook'[x] = hook[x]
         /\ hook'[w] = h \/ (hook'[w] = NoHook /\ h.op = "delete")
  <1> USE PortHooksAssumption DEF Begin, Stages
  <1>1. h.state.ips \in Seq(Addrs)
    BY DEF Hook, Port
  <1>2. pc'[w] = DropFirst(h) /\ left'[w] = h.state.ips /\ hits'[w] = {}
    BY DEF TypeOK, DnsTypeOK
  <1>3. /\ pc' \in [Threads -> Stages] /\ hook' \in [Threads -> Hook \cup {NoHook}]
        /\ \A x \in Threads : hook'[x] = NoHook <=> pc'[x] = "idle"
        /\ \A x \in Threads \ {w} : hook'[x] = hook[x] /\ pc'[x] = pc[x] /\ left'[x] = left[x] /\ hits'[x] = hits[x]
        /\ hook'[w] = h \/ (hook'[w] = NoHook /\ h.op = "delete")
    BY DropFirstTypes DEF TypeOK, DnsTypeOK
  <1>4. DnsTypeOK'
    <2>1. /\ records' \in [Rids -> Record \cup {NoRecord}]
          /\ left' \in [Threads -> Seq(Addrs)]
          /\ hits' \in [Threads -> SUBSET Rids]
          /\ botched' \subseteq Names
      BY <1>1 DEF TypeOK, DnsTypeOK
    <2>2. ASSUME NEW x \in Threads
          PROVE  /\ pc'[x] \in {"look", "write"} => left'[x] # <<>> /\ Keep(hook'[x]) \in Names
                 /\ pc'[x] \in {"find", "delete"} => Drop(hook'[x]) \in Names
                 /\ pc'[x] = "delete" => hits'[x] # {}
      <3>1. CASE x = w
        <4>1. pc'[w] # "idle" => hook'[w] = h
          BY <1>3
        <4> QED BY <1>2, <3>1, <4>1, DropFirstTypes
      <3>2. CASE x # w
        BY <1>3, <3>2 DEF TypeOK, DnsTypeOK
      <3> QED BY <3>1, <3>2
    <2> QED BY <2>1, <2>2 DEF DnsTypeOK
  <1>5. Unspent'
    BY <1>2, <1>3, DropFirstTypes DEF Unspent
  <1> QED BY <1>3, <1>4, <1>5

-----------------------------------------------------------------------------
(* The requests about DNS records.                                          *)

(* What a step of the hook of thread w leaves behind.                       *)
Moves(w) ==
    /\ DnsTypeOK' /\ Unspent'
    /\ pc' \in [Threads -> Stages] /\ hook' \in [Threads -> Hook \cup {NoHook}]
    /\ \A x \in Threads : hook'[x] = NoHook <=> pc'[x] = "idle"
    /\ \A x \in Threads \ {w} : hook'[x] = hook[x]
    /\ faults' \in 0..MaxFaults

(* The records are not the last thing of a hook, except of a delete hook.   *)
DnsMoves(w) ==
    /\ Moves(w)
    /\ hook'[w] = hook[w] \/ (hook'[w] = NoHook /\ hook[w].op = "delete")

(* A thread at work has a hook; others keep what they hold.                 *)
LEMMA Goes ==
  ASSUME TypeOK, Unspent, NEW w \in Threads, NEW stage \in Stages,
         pc[w] # "idle", Goto(w, stage),
         stage \in {"look", "write"} => left'[w] # <<>> /\ Keep(hook[w]) \in Names,
         stage \in {"find", "delete"} => Drop(hook[w]) \in Names /\ left'[w] = hook[w].state.ips,
         stage = "delete" => hits'[w] # {},
         left' \in [Threads -> Seq(Addrs)], hits' \in [Threads -> SUBSET Rids],
         \A x \in Threads \ {w} : left'[x] = left[x] /\ hits'[x] = hits[x],
         records' \in [Rids -> Record \cup {NoRecord}], botched' \subseteq Names,
         faults' \in 0..MaxFaults
  PROVE  /\ Moves(w)
         /\ hook'[w] = IF stage = "idle" THEN NoHook ELSE hook[w]
  <1> USE PortHooksAssumption DEF Goto, Stages
  <1>1. hook[w] \in Hook
    BY DEF TypeOK
  <1>2. /\ pc' \in [Threads -> Stages] /\ hook' \in [Threads -> Hook \cup {NoHook}]
        /\ pc'[w] = stage /\ hook'[w] = IF stage = "idle" THEN NoHook ELSE hook[w]
        /\ \A x \in Threads \ {w} : hook'[x] = hook[x] /\ pc'[x] = pc[x]
    BY <1>1 DEF TypeOK
  <1>3. \A x \in Threads : hook'[x] = NoHook <=> pc'[x] = "idle"
    BY <1>1, <1>2 DEF TypeOK
  <1>4. ASSUME NEW x \in Threads
        PROVE  /\ pc'[x] \in {"look", "write"} => left'[x] # <<>> /\ Keep(hook'[x]) \in Names
               /\ pc'[x] \in {"find", "delete"} => Drop(hook'[x]) \in Names
               /\ pc'[x] = "delete" => hits'[x] # {}
    BY <1>2 DEF TypeOK, DnsTypeOK
  <1>5. DnsTypeOK'
    BY <1>4 DEF DnsTypeOK
  <1>6. Unspent'
    BY <1>2 DEF Unspent
  <1> QED BY <1>2, <1>3, <1>5, <1>6 DEF Moves

LEMMA DropOverMoves ==
  ASSUME TypeOK, Unspent, NEW w \in Threads, pc[w] \in {"find", "delete"}, DropOver(w),
         records' \in [Rids -> Record \cup {NoRecord}], botched' \subseteq Names,
         faults' \in 0..MaxFaults
  PROVE  DnsMoves(w)
  <1>1. hook[w] \in Hook
    BY DEF TypeOK
  <1>2. left[w] = hook[w].state.ips
    BY DEF Unspent
  <1>3. /\ left' \in [Threads -> Seq(Addrs)] /\ hits' \in [Threads -> SUBSET Rids]
        /\ left' = left /\ \A x \in Threads \ {w} : hits'[x] = hits[x]
    BY DEF DropOver, TypeOK, DnsTypeOK
  <1>4. KeepFirst(hook[w]) \in Stages /\ Goto(w, KeepFirst(hook[w]))
    BY <1>1, KeepFirstTypes DEF Stages, DropOver
  <1> QED BY <1>1, <1>2, <1>3, <1>4, KeepFirstTypes, Goes DEF DnsMoves

LEMMA DropFailedMoves ==
  ASSUME TypeOK, Unspent, NEW w \in Threads, pc[w] \in {"find", "delete"}, DropFailed(w),
         records' \in [Rids -> Record \cup {NoRecord}], faults' \in 0..MaxFaults
  PROVE  DnsMoves(w)
  <1>1. botched' \subseteq Names
    BY DEF DropFailed, Botch, TypeOK, DnsTypeOK
  <1> QED BY <1>1, DropOverMoves DEF DropFailed

LEMMA FindMoves ==
  ASSUME TypeOK, Unspent, NEW w \in Threads, Find(w)
  PROVE  DnsMoves(w)
  <1>1. /\ pc[w] = "find" /\ records' \in [Rids -> Record \cup {NoRecord}]
        /\ faults' \in 0..MaxFaults
    BY DnsAssumption DEF Find, Fault, TypeOK, DnsTypeOK
  <1>2. CASE botched' = botched /\ DropOver(w)
    BY <1>1, <1>2, DropOverMoves DEF TypeOK, DnsTypeOK
  <1>3. CASE DropFailed(w)
    BY <1>1, <1>3, DropFailedMoves
  <1>4. ASSUME NEW found, found = Named(Drop(hook[w])), found # {},
               hits' = [hits EXCEPT ![w] = found],
               Goto(w, "delete"), UNCHANGED left, UNCHANGED botched
        PROVE  DnsMoves(w)
    <2>1. found \subseteq Rids
      BY <1>4 DEF Named
    <2>2. /\ hits' \in [Threads -> SUBSET Rids] /\ hits'[w] = found
          /\ \A x \in Threads \ {w} : left'[x] = left[x] /\ hits'[x] = hits[x]
          /\ left' \in [Threads -> Seq(Addrs)] /\ botched' \subseteq Names
      BY <1>4, <2>1 DEF TypeOK, DnsTypeOK
    <2>3. Drop(hook[w]) \in Names /\ left'[w] = hook[w].state.ips /\ "delete" \in Stages
      BY <1>1, <1>4 DEF TypeOK, DnsTypeOK, Unspent, Stages
    <2> QED BY <1>1, <1>4, <2>2, <2>3, Goes DEF DnsMoves
  <1> QED BY <1>2, <1>3, <1>4 DEF Find

LEMMA DeleteMoves ==
  ASSUME TypeOK, Unspent, NEW w \in Threads, Delete(w)
  PROVE  DnsMoves(w)
  <1>1. /\ pc[w] = "delete" /\ records' \in [Rids -> Record \cup {NoRecord}]
        /\ faults' \in 0..MaxFaults
    BY DnsAssumption DEF Delete, Fault, TypeOK, DnsTypeOK
  <1>2. CASE DropFailed(w)
    BY <1>1, <1>2, DropFailedMoves
  <1>3. ASSUME NEW i \in hits[w], Deleted(w, i), UNCHANGED botched
        PROVE  DnsMoves(w)
    <2>1. CASE DropOver(w)
      BY <1>1, <1>3, <2>1, DropOverMoves DEF TypeOK, DnsTypeOK
    <2>2. CASE /\ hits[w] # {i} /\ hits' = [hits EXCEPT ![w] = @ \ {i}]
               /\ UNCHANGED <<pc, hook, left>>
      <3>1. hits' \in [Threads -> SUBSET Rids] /\ hits'[w] # {}
        BY <1>3, <2>2 DEF TypeOK, DnsTypeOK
      <3>2. DnsTypeOK'
        <4>1. ASSUME NEW x \in Threads, pc[x] = "delete" PROVE hits'[x] # {}
          BY <2>2, <3>1, <4>1 DEF TypeOK, DnsTypeOK
        <4> QED BY <1>1, <1>3, <2>2, <3>1, <4>1 DEF TypeOK, DnsTypeOK
      <3>3. Unspent'
        BY <2>2 DEF Unspent
      <3> QED BY <1>1, <2>2, <3>2, <3>3 DEF DnsMoves, Moves, TypeOK, Stages
    <2> QED BY <1>3, <2>1, <2>2 DEF Deleted
  <1> QED BY <1>2, <1>3 DEF Delete

-----------------------------------------------------------------------------
LEMMA KeepFailedMoves ==
  ASSUME TypeOK, Unspent, NEW w \in Threads, pc[w] \in {"look", "write"}, KeepFailed(w),
         records' \in [Rids -> Record \cup {NoRecord}], faults' \in 0..MaxFaults
  PROVE  DnsMoves(w)
  <1>1. hook[w] \in Hook
    BY DEF TypeOK
  <1>2. /\ left' \in [Threads -> Seq(Addrs)] /\ hits' \in [Threads -> SUBSET Rids]
        /\ \A x \in Threads \ {w} : left'[x] = left[x] /\ hits'[x] = hits[x]
        /\ botched' \subseteq Names
    BY DEF KeepFailed, Botch, TypeOK, DnsTypeOK
  <1>3. DnsOver(hook[w]) \in Stages /\ Goto(w, DnsOver(hook[w]))
    BY <1>1, KeepFirstTypes DEF Stages, KeepFailed
  <1> QED BY <1>1, <1>2, <1>3, KeepFirstTypes, Goes DEF DnsMoves

LEMMA KeptMoves ==
  ASSUME TypeOK, Unspent, NEW w \in Threads, pc[w] \in {"look", "write"}, Kept(w),
         records' \in [Rids -> Record \cup {NoRecord}], UNCHANGED botched,
         faults' \in 0..MaxFaults
  PROVE  DnsMoves(w)
  <1>1. hook[w] \in Hook /\ left[w] \in Seq(Addrs) /\ left[w] # <<>> /\ Keep(hook[w]) \in Names
    BY DEF TypeOK, DnsTypeOK
  <1>2. Tail(left[w]) \in Seq(Addrs) /\ (Len(left[w]) # 1 => Tail(left[w]) # <<>>)
    <2>1. ASSUME NEW s \in Seq(Addrs), s # <<>>
          PROVE  Tail(s) \in Seq(Addrs) /\ (Len(s) # 1 => Tail(s) # <<>>)
      <3>1. Tail(s) \in Seq(Addrs) /\ Len(Tail(s)) = Len(s) - 1
        BY <2>1, HeadTailProperties, Zenon
      <3>2. Len(s) # 1 => Len(Tail(s)) # 0
        BY <3>1
      <3>3. Tail(s) = <<>> => Len(Tail(s)) = 0
        BY EmptySeq, Zenon
      <3> QED BY <3>1, <3>2, <3>3, Zenon
    <2> QED BY <1>1, <2>1
  <1>3. /\ left' \in [Threads -> Seq(Addrs)] /\ hits' \in [Threads -> SUBSET Rids]
        /\ \A x \in Threads \ {w} : left'[x] = left[x] /\ hits'[x] = hits[x]
        /\ botched' \subseteq Names /\ left'[w] = Tail(left[w])
    BY <1>2 DEF Kept, TypeOK, DnsTypeOK
  <1>4. CASE Len(left[w]) = 1
    <2>1. DnsOver(hook[w]) \in Stages /\ Goto(w, DnsOver(hook[w]))
      BY <1>1, <1>4, KeepFirstTypes DEF Stages, Kept
    <2> QED BY <1>1, <1>3, <2>1, KeepFirstTypes, Goes DEF DnsMoves
  <1>5. CASE Len(left[w]) # 1
    <2>1. "look" \in Stages /\ Goto(w, "look")
      BY <1>5 DEF Stages, Kept
    <2> QED BY <1>1, <1>2, <1>3, <1>5, <2>1, Goes DEF DnsMoves
  <1> QED BY <1>4, <1>5

LEMMA LookMoves ==
  ASSUME TypeOK, Unspent, NEW w \in Threads, Look(w)
  PROVE  DnsMoves(w)
  <1>1. /\ pc[w] = "look" /\ records' \in [Rids -> Record \cup {NoRecord}]
        /\ faults' \in 0..MaxFaults
    BY DnsAssumption DEF Look, Fault, TypeOK, DnsTypeOK
  <1>2. CASE Kept(w) /\ UNCHANGED botched
    BY <1>1, <1>2, KeptMoves
  <1>3. CASE KeepFailed(w)
    BY <1>1, <1>3, KeepFailedMoves
  <1>4. ASSUME NEW i \in Existing(Keep(hook[w]), Head(left[w])),
               hits' = [hits EXCEPT ![w] = {i} \ {NoRid}],
               Goto(w, "write"), UNCHANGED left, UNCHANGED botched
        PROVE  DnsMoves(w)
    <2>1. {i} \ {NoRid} \subseteq Rids
      BY <1>4 DEF Existing, Named
    <2>2. /\ hits' \in [Threads -> SUBSET Rids]
          /\ \A x \in Threads \ {w} : left'[x] = left[x] /\ hits'[x] = hits[x]
          /\ left' \in [Threads -> Seq(Addrs)] /\ botched' \subseteq Names
      BY <1>4, <2>1 DEF TypeOK, DnsTypeOK
    <2>3. Keep(hook[w]) \in Names /\ left'[w] # <<>> /\ "write" \in Stages
      BY <1>1, <1>4 DEF TypeOK, DnsTypeOK, Stages
    <2> QED BY <1>1, <1>4, <2>2, <2>3, Goes DEF DnsMoves
  <1> QED BY <1>2, <1>3, <1>4 DEF Look

LEMMA WriteMoves ==
  ASSUME TypeOK, Unspent, NEW w \in Threads, Write(w)
  PROVE  DnsMoves(w)
  <1>1. pc[w] = "write" /\ faults' \in 0..MaxFaults
    BY DnsAssumption DEF Write, Fault, TypeOK
  <1>2. records' \in [Rids -> Record \cup {NoRecord}]
    <2>1. [name |-> Keep(hook[w]), addr |-> Head(left[w])] \in Record
      BY <1>1 DEF TypeOK, DnsTypeOK, Record
    <2>2. records \in [Rids -> Record \cup {NoRecord}]
      BY DEF TypeOK, DnsTypeOK
    <2> QED BY <2>1, <2>2 DEF Write
  <1>3. CASE Kept(w) /\ UNCHANGED botched
    BY <1>1, <1>2, <1>3, KeptMoves
  <1>4. CASE KeepFailed(w)
    BY <1>1, <1>2, <1>4, KeepFailedMoves
  <1> QED BY <1>3, <1>4 DEF Write

LEMMA DnsStepMoves ==
  ASSUME TypeOK, Unspent, NEW w \in Threads, DnsStep(w)
  PROVE  DnsMoves(w)
  BY FindMoves, DeleteMoves, LookMoves, WriteMoves DEF DnsStep

-----------------------------------------------------------------------------
(* A change that Neutron commits, with the hook of it.                      *)

LEMMA NewPairsTypes ==
  ASSUME NEW p \in Ports, NEW s \in Port
  PROVE  NewPairs(p, s) \subseteq Addrs
  BY PortHooksAssumption DEF NewPairs, Port, Range

LEMMA CommitTypes ==
  ASSUME IInv, NEW w \in Threads, NEW op \in {"create", "update", "delete"},
         NEW p \in Ports, NEW new \in Port, Commit(w, op, p, new),
         hook[w] = NoHook \/ hook[w].port = p
  PROVE  /\ DnsTypeOK' /\ Unspent' /\ UpToDate'
         /\ pc' \in [Threads -> Stages] /\ hook' \in [Threads -> Hook \cup {NoHook}]
         /\ \A x \in Threads : hook'[x] = NoHook <=> pc'[x] = "idle"
         /\ port' \in [Ports -> Port] /\ crossed' \subseteq Ports /\ contended' \subseteq Names
         /\ crossed \subseteq crossed'
         /\ port'[p] = new /\ \A q \in Ports \ {p} : port'[q] = port[q]
         /\ op # "delete" => Looks(w, p)'
         /\ \A q \in Ports \ {p}, x \in Threads : Looks(x, q) => Looks(x, q)'
  <1> USE PortHooksAssumption DEF IInv
  <1> DEFINE h == [op |-> op, port |-> p, old |-> port[p].name, state |-> new]
  <1>1. h \in Hook
    BY DEF TypeOK, Hook, Port
  <1>2. /\ Begin(w, h) /\ Watch(w, h)
        /\ port' = [port EXCEPT ![p] = new] /\ UNCHANGED <<records, botched>>
    BY DEF Commit
  <1>3. /\ DnsTypeOK' /\ Unspent'
        /\ pc' \in [Threads -> Stages] /\ hook' \in [Threads -> Hook \cup {NoHook}]
        /\ \A x \in Threads : hook'[x] = NoHook <=> pc'[x] = "idle"
        /\ \A x \in Threads \ {w} : hook'[x] = hook[x]
        /\ hook'[w] = h \/ (hook'[w] = NoHook /\ h.op = "delete")
    <2> HIDE DEF h
    <2> QED BY <1>1, <1>2, BeginTypes
  <1>4. /\ port' \in [Ports -> Port] /\ port'[p] = new
        /\ \A q \in Ports \ {p} : port'[q] = port[q]
    BY <1>2 DEF TypeOK
  <1>5. h.port = p /\ h.op = op /\ h.state = new
    OBVIOUS
  <1>6. crossed' \subseteq Ports /\ crossed \subseteq crossed'
    BY <1>2, <1>5 DEF Watch, TypeOK
  <1>7. contended' \subseteq Names
    <2>1. NamesOf(h) \subseteq Names
      BY <1>1 DEF NamesOf, Hook, Port
    <2> HIDE DEF h
    <2> QED BY <1>2, <2>1 DEF Watch, TypeOK
  <1>8. UpToDate'
    <2> SUFFICES ASSUME NEW x \in Threads, hook'[x] # NoHook, hook'[x].port \notin crossed'
                 PROVE  hook'[x].state = port'[hook'[x].port]
      BY DEF UpToDate
    <2>1. CASE x = w
      BY <1>3, <1>4, <1>5, <2>1
    <2>2. CASE x # w
      <3>1. hook'[x] = hook[x] /\ hook[x] \in Hook
        BY <1>3, <2>2 DEF TypeOK
      <3>2. hook[x].port # p
        BY <1>2, <1>5, <2>2, <3>1 DEF Watch, Others
      <3>3. hook[x].port \in Ports
        BY <3>1 DEF Hook
      <3> QED BY <1>4, <1>6, <3>1, <3>2, <3>3 DEF UpToDate
    <2> QED BY <2>1, <2>2
  <1>9. op # "delete" => Looks(w, p)'
    <2>1. h # NoHook
      BY <1>1
    <2> HIDE DEF h
    <2> QED BY <1>3, <1>4, <1>5, <2>1 DEF Looks
  <1>10. ASSUME NEW q \in Ports \ {p}, NEW x \in Threads, Looks(x, q)
         PROVE  Looks(x, q)'
    <2>1. x # w
      BY <1>10 DEF Looks
    <2> QED BY <1>3, <1>4, <1>10, <2>1 DEF Looks
  <1> QED BY <1>3, <1>4, <1>6, <1>7, <1>8, <1>9, <1>10

(* All of the invariant, after a change that concerned port p.              *)
LEMMA ChangeInv ==
  ASSUME IInv, NEW w \in Threads, NEW op \in {"create", "update", "delete"},
         NEW p \in Ports, NEW new \in Port, Commit(w, op, p, new),
         hook[w] = NoHook \/ hook[w].port = p,
         live' \subseteq born', born' \subseteq Ports, live' \subseteq live \cup {p},
         op = "delete" => p \notin live',
         asked' \in [Ports -> SUBSET Addrs],
         \A q \in Ports \ {p} : asked'[q] = asked[q],
         p \in live' \ crossed' => asked'[p] \subseteq new.pairs,
         skipped' \subseteq Ports, skipped \subseteq skipped' \cup {p},
         ops' \in 0..MaxOps, faults' \in 0..MaxFaults
  PROVE  IInv'
  <1>1. TypeOK' /\ Unspent' /\ UpToDate'
    BY CommitTypes DEF TypeOK, Stages
  <1>2. Awaited'
    <2> SUFFICES ASSUME NEW q \in live' \ skipped'
                 PROVE  NewPairs(q, port[q])' = {} \/ \E x \in Threads : Looks(x, q)'
      BY DEF Awaited
    <2>1. CASE q = p
      BY <2>1, CommitTypes
    <2>2. CASE q # p
      <3>1. q \in live \ skipped /\ q \in Ports \ {p}
        BY <2>2
      <3>2. port'[q] = port[q]
        BY <3>1, CommitTypes
      <3>3. NewPairs(q, port[q])' = NewPairs(q, port[q])
        BY <3>2 DEF NewPairs
      <3>4. \A x \in Threads : Looks(x, q) => Looks(x, q)'
        BY <3>1, CommitTypes
      <3> QED BY <3>1, <3>3, <3>4 DEF IInv, Awaited
    <2> QED BY <2>1, <2>2
  <1>3. AskedPairsKept'
    <2> SUFFICES ASSUME NEW q \in live' \ crossed'
                 PROVE  asked'[q] \subseteq port'[q].pairs
      BY DEF AskedPairsKept
    <2>1. CASE q = p
      BY <2>1, CommitTypes
    <2>2. CASE q # p
      <3>1. q \in live \ crossed /\ q \in Ports \ {p}
        BY <2>2, CommitTypes
      <3> QED BY <3>1, CommitTypes DEF IInv, AskedPairsKept
    <2> QED BY <2>1, <2>2
  <1> QED BY <1>1, <1>2, <1>3 DEF IInv

LEMMA CreatePortInv ==
  ASSUME IInv, NEW w \in Threads, NEW p \in Ports, NEW new \in Settings[p], CreatePort(w, p, new)
  PROVE  IInv'
  <1>1. new \in Port /\ new.pairs \subseteq Addrs
    BY PortHooksAssumption DEF Port
  <1>2. hook[w] = NoHook
    BY DEF CreatePort, UserStep, IInv, TypeOK
  <1>3. /\ Commit(w, "create", p, new)
        /\ live' = live \cup {p} /\ born' = born \cup {p}
        /\ asked' = [asked EXCEPT ![p] = new.pairs]
        /\ skipped' = skipped \ {p}
    BY DEF CreatePort
  <1>4. ops' \in 0..MaxOps /\ faults' \in 0..MaxFaults
    BY PortHooksAssumption DEF CreatePort, UserStep, IInv, TypeOK
  <1>5. /\ live' \subseteq born' /\ born' \subseteq Ports /\ skipped' \subseteq Ports
        /\ asked' \in [Ports -> SUBSET Addrs] /\ asked'[p] = new.pairs
        /\ \A q \in Ports \ {p} : asked'[q] = asked[q]
    BY <1>1, <1>3 DEF IInv, TypeOK
  <1> QED BY <1>1, <1>2, <1>3, <1>4, <1>5, ChangeInv

LEMMA UpdatePortInv ==
  ASSUME IInv, NEW w \in Threads, NEW p \in Ports, NEW new \in Settings[p], NEW named \in BOOLEAN,
         UpdatePort(w, p, new, named)
  PROVE  IInv'
  <1> DEFINE changed == IF named THEN new ELSE [new EXCEPT !.pairs = port[p].pairs]
  <1>1. new \in Port /\ port[p] \in Port
    BY PortHooksAssumption DEF IInv, TypeOK
  <1>2. changed \in Port /\ changed.pairs = IF named THEN new.pairs ELSE port[p].pairs
    BY <1>1 DEF Port
  <1>3. hook[w] = NoHook
    BY DEF UpdatePort, UserStep, IInv, TypeOK
  <1>4. /\ Commit(w, "update", p, changed) /\ p \in live
        /\ asked' = IF named THEN [asked EXCEPT ![p] = new.pairs] ELSE asked
        /\ skipped' = skipped \ {p} /\ live' = live /\ born' = born
    BY DEF UpdatePort
  <1>5. ops' \in 0..MaxOps /\ faults' \in 0..MaxFaults
    BY PortHooksAssumption DEF UpdatePort, UserStep, IInv, TypeOK
  <1>6. /\ live' \subseteq born' /\ born' \subseteq Ports /\ skipped' \subseteq Ports
        /\ asked' \in [Ports -> SUBSET Addrs]
        /\ \A q \in Ports \ {p} : asked'[q] = asked[q]
    BY <1>1, <1>4 DEF IInv, TypeOK, Port
  <1> HIDE DEF changed
  <1>7. p \in live' \ crossed' => asked'[p] \subseteq changed.pairs
    <2>1. crossed \subseteq crossed'
      BY <1>2, <1>3, <1>4, CommitTypes
    <2>2. CASE named
      BY <1>2, <1>4, <2>2 DEF IInv, TypeOK
    <2>3. CASE ~ named
      BY <1>2, <1>4, <2>1, <2>3 DEF IInv, AskedPairsKept
    <2> QED BY <2>2, <2>3
  <1> QED BY <1>2, <1>3, <1>4, <1>5, <1>6, <1>7, ChangeInv

LEMMA DeletePortInv ==
  ASSUME IInv, NEW w \in Threads, NEW p \in Ports, DeletePort(w, p)
  PROVE  IInv'
  <1>1. port[p] \in Port /\ hook[w] = NoHook
    BY DEF DeletePort, UserStep, IInv, TypeOK
  <1>2. /\ Commit(w, "delete", p, port[p])
        /\ live' = live \ {p} /\ UNCHANGED <<born, asked, skipped>>
    BY DEF DeletePort
  <1>3. ops' \in 0..MaxOps /\ faults' \in 0..MaxFaults
    BY PortHooksAssumption DEF DeletePort, UserStep, IInv, TypeOK
  <1>4. /\ live' \subseteq born' /\ born' \subseteq Ports /\ skipped' \subseteq Ports
        /\ asked' \in [Ports -> SUBSET Addrs]
        /\ \A q \in Ports \ {p} : asked'[q] = asked[q]
    BY <1>2 DEF IInv, TypeOK
  <1> QED BY <1>1, <1>2, <1>3, <1>4, ChangeInv

-----------------------------------------------------------------------------
(* The steps of a hook.  A hook may end early only when its port is gone or *)
(* left out, or has nothing to authorize.                                   *)

LEMMA MovesInv ==
  ASSUME IInv, NEW w \in Threads, Moves(w), pc[w] # "idle", UNCHANGED <<dbVars, crossed, contended>>,
         skipped' \subseteq Ports, skipped \subseteq skipped',
         \/ hook'[w] = hook[w]
         \/ /\ hook'[w] = NoHook
            /\ \/ hook[w].op = "delete" \/ hook[w].port \in skipped' \/ hook[w].port \notin live
               \/ NewPairs(hook[w].port, hook[w].state) = {}
  PROVE  IInv'
  <1> USE DEF IInv
  <1>1. TypeOK'
    BY DEF TypeOK, Moves, Stages, dbVars
  <1>2. Unspent'
    BY DEF Moves
  <1>3. UpToDate'
    BY DEF UpToDate, Moves, dbVars
  <1>4. AskedPairsKept'
    BY DEF AskedPairsKept, dbVars
  <1>5. Awaited'
    <2> SUFFICES ASSUME NEW q \in live' \ skipped'
                 PROVE  NewPairs(q, port[q])' = {} \/ \E x \in Threads : Looks(x, q)'
      BY DEF Awaited
    <2>1. q \in live \ skipped /\ port'[q] = port[q] /\ live' = live
      BY DEF dbVars
    <2>2. NewPairs(q, port[q])' = NewPairs(q, port[q])
      BY <2>1 DEF NewPairs
    <2>3. CASE NewPairs(q, port[q]) = {}
      BY <2>2, <2>3
    <2>4. ASSUME NEW x \in Threads, Looks(x, q), NewPairs(q, port[q]) # {}
          PROVE  Looks(x, q)'
      <3>1. hook'[x] = hook[x]
        BY <2>1, <2>4 DEF Looks, Moves
      <3> QED BY <2>1, <2>4, <3>1 DEF Looks
    <2> QED BY <2>1, <2>3, <2>4 DEF Awaited
  <1> QED BY <1>1, <1>2, <1>3, <1>4, <1>5

LEMMA DnsWorkInv ==
  ASSUME IInv, NEW w \in Threads, DnsWork(w)
  PROVE  IInv'
  <1>1. DnsMoves(w)
    BY DnsStepMoves DEF DnsWork, IInv
  <1>2. UNCHANGED <<dbVars, skipped, crossed, contended>> /\ pc[w] # "idle"
    BY DEF DnsWork, DnsStep, Find, Delete, Look, Write
  <1>3. skipped \subseteq Ports
    BY DEF IInv, TypeOK
  <1> QED BY <1>1, <1>2, <1>3, MovesInv DEF DnsMoves

(* A hook that goes on without touching records.                            *)
LEMMA QuietMoves ==
  ASSUME IInv, NEW w \in Threads, NEW stage \in {"idle", "authorize"},
         pc[w] # "idle", Goto(w, stage), UNCHANGED <<left, hits, records, botched>>,
         faults' \in 0..MaxFaults
  PROVE  /\ Moves(w)
         /\ hook'[w] = IF stage = "idle" THEN NoHook ELSE hook[w]
  <1>1. /\ left' \in [Threads -> Seq(Addrs)] /\ hits' \in [Threads -> SUBSET Rids]
        /\ \A x \in Threads \ {w} : left'[x] = left[x] /\ hits'[x] = hits[x]
        /\ records' \in [Rids -> Record \cup {NoRecord}] /\ botched' \subseteq Names
    BY DEF IInv, TypeOK, DnsTypeOK
  <1>2. stage \in Stages
    BY DEF Stages
  <1> QED BY <1>1, <1>2, Goes DEF IInv

LEMMA AuthorizeFailedInv ==
  ASSUME IInv, NEW w \in Threads, pc[w] # "idle", Fault, AuthorizeFailed(w),
         UNCHANGED <<records, botched, dbVars, crossed, contended>>
  PROVE  IInv'
  <1>1. hook[w] \in Hook /\ faults' \in 0..MaxFaults
    BY DnsAssumption DEF IInv, TypeOK, Fault
  <1>2. Moves(w) /\ hook'[w] = NoHook
    BY <1>1, QuietMoves DEF AuthorizeFailed, AuthorizeOver
  <1>3. /\ skipped' \subseteq Ports /\ skipped \subseteq skipped'
        /\ hook[w].port \in skipped'
    BY <1>1 DEF IInv, TypeOK, AuthorizeFailed, Hook
  <1> QED BY <1>2, <1>3, MovesInv

LEMMA SubnetsInv ==
  ASSUME IInv, NEW w \in Threads, Subnets(w)
  PROVE  IInv'
  <1>1. pc[w] = "subnets" /\ UNCHANGED <<records, botched, dbVars, crossed, contended>>
    BY DEF Subnets
  <1>2. CASE Fault /\ AuthorizeFailed(w)
    BY <1>1, <1>2, AuthorizeFailedInv
  <1>3. CASE UNCHANGED <<skipped, faults>> /\ NewPairs(hook[w].port, hook[w].state) = {} /\ AuthorizeOver(w)
    <2>1. faults' \in 0..MaxFaults /\ skipped' \subseteq Ports
      BY <1>3 DEF IInv, TypeOK
    <2>2. Moves(w) /\ hook'[w] = NoHook
      BY <1>1, <1>3, <2>1, QuietMoves DEF AuthorizeOver
    <2> QED BY <1>1, <1>3, <2>1, <2>2, MovesInv
  <1>4. CASE UNCHANGED <<skipped, faults>> /\ Goto(w, "authorize") /\ UNCHANGED <<left, hits>>
    <2>1. faults' \in 0..MaxFaults /\ skipped' \subseteq Ports
      BY <1>4 DEF IInv, TypeOK
    <2>2. Moves(w) /\ hook'[w] = hook[w]
      BY <1>1, <1>4, <2>1, QuietMoves
    <2> QED BY <1>1, <1>4, <2>1, <2>2, MovesInv
  <1> QED BY <1>2, <1>3, <1>4 DEF Subnets

LEMMA AuthorizeInv ==
  ASSUME IInv, NEW w \in Threads, Authorize(w)
  PROVE  IInv'
  <1> DEFINE h == hook[w]
             p == hook[w].port
  <1>1. pc[w] = "authorize" /\ h \in Hook /\ p \in Ports /\ h.state \in Port /\ port[p] \in Port
    <2>1. pc[w] = "authorize" /\ h \in Hook
      BY DEF Authorize, IInv, TypeOK
    <2>2. p \in Ports /\ h.state \in Port
      BY <2>1 DEF Hook
    <2> QED BY <2>1, <2>2 DEF IInv, TypeOK
  <1>2. CASE /\ p \in live /\ Commit(w, "update", p, Authorized(h))
             /\ UNCHANGED <<live, born, asked, ops, skipped, faults>>
    <2>1. NewPairs(p, h.state) \subseteq Addrs
      BY <1>1, NewPairsTypes
    <2>2. Authorized(h) \in Port /\ h.state.pairs \subseteq Authorized(h).pairs
      BY <1>1, <2>1 DEF Authorized, Port
    <2>3. crossed \subseteq crossed'
      BY <1>1, <1>2, <2>2, CommitTypes
    <2>4. h # NoHook
      BY <1>1, PortHooksAssumption
    <2>5. p \in live' \ crossed' => asked'[p] \subseteq Authorized(h).pairs
      <3> SUFFICES ASSUME p \in live \ crossed PROVE asked[p] \subseteq Authorized(h).pairs
        BY <1>2, <2>3
      <3>1. h.state = port[p]
        BY <2>4 DEF IInv, UpToDate
      <3>2. asked[p] \subseteq port[p].pairs
        BY DEF IInv, AskedPairsKept
      <3> QED BY <2>2, <3>1, <3>2
    <2>6. /\ live' \subseteq born' /\ born' \subseteq Ports /\ skipped' \subseteq Ports
          /\ asked' \in [Ports -> SUBSET Addrs]
          /\ ops' \in 0..MaxOps /\ faults' \in 0..MaxFaults
      BY <1>2 DEF IInv, TypeOK
    <2> HIDE DEF h
    <2> QED BY <1>1, <1>2, <2>2, <2>5, <2>6, ChangeInv
  <1>3. CASE /\ p \notin live /\ AuthorizeOver(w)
             /\ UNCHANGED <<records, botched, dbVars, skipped, crossed, contended, faults>>
    <2>1. faults' \in 0..MaxFaults /\ skipped' \subseteq Ports
      BY <1>3 DEF IInv, TypeOK
    <2>2. Moves(w) /\ hook'[w] = NoHook
      BY <1>1, <1>3, <2>1, QuietMoves DEF AuthorizeOver
    <2> QED BY <1>1, <1>3, <2>1, <2>2, MovesInv
  <1>4. CASE Fault /\ AuthorizeFailed(w) /\ UNCHANGED <<records, botched, dbVars, crossed, contended>>
    BY <1>1, <1>4, AuthorizeFailedInv
  <1> QED BY <1>2, <1>3, <1>4 DEF Authorize

LEMMA DieInv ==
  ASSUME IInv, NEW w \in Threads, Die(w)
  PROVE  IInv'
  <1>1. /\ hook[w] \in Hook /\ pc[w] # "idle"
        /\ faults' \in 0..MaxFaults
    BY DnsAssumption DEF IInv, TypeOK, Fault, Die
  <1>2. /\ left' \in [Threads -> Seq(Addrs)] /\ hits' \in [Threads -> SUBSET Rids]
        /\ \A x \in Threads \ {w} : left'[x] = left[x] /\ hits'[x] = hits[x]
        /\ records' \in [Rids -> Record \cup {NoRecord}]
    BY DEF IInv, TypeOK, DnsTypeOK, Die
  <1>3. botched' \subseteq Names
    <2>1. NamesOf(hook[w]) \subseteq Names
      BY <1>1 DEF NamesOf, Hook, Port
    <2> QED BY <2>1 DEF Die, IInv, TypeOK, DnsTypeOK
  <1>4. Goto(w, "idle") /\ "idle" \in Stages
    BY DEF Die, Stages
  <1>5. Moves(w) /\ hook'[w] = NoHook
    BY <1>1, <1>2, <1>3, <1>4, Goes DEF IInv
  <1>6. /\ skipped' \subseteq Ports /\ skipped \subseteq skipped'
        /\ hook[w].port \in skipped' /\ UNCHANGED <<dbVars, crossed, contended>>
    BY <1>1 DEF IInv, TypeOK, Die, Hook
  <1> QED BY <1>1, <1>5, <1>6, MovesInv

-----------------------------------------------------------------------------
LEMMA InitInv == Init => IInv
  <1> SUFFICES ASSUME Init PROVE IInv
    OBVIOUS
  <1>1. TypeOK
    <2>1. port \in [Ports -> Port]
      BY DEF Init, Port
    <2>2. DnsTypeOK
      BY DnsAssumption DEF Init, DnsInit, DnsTypeOK
    <2>3. ops \in 0..MaxOps /\ faults \in 0..MaxFaults
      BY DnsAssumption, PortHooksAssumption DEF Init
    <2> QED BY <2>1, <2>2, <2>3 DEF Init, TypeOK
  <1>2. Unspent /\ Awaited /\ UpToDate /\ AskedPairsKept
    BY DEF Init, Unspent, Awaited, UpToDate, AskedPairsKept
  <1> QED BY <1>1, <1>2 DEF IInv

LEMMA NextInv == IInv /\ [Next]_vars => IInv'
  <1> SUFFICES ASSUME IInv, [Next]_vars PROVE IInv'
    OBVIOUS
  <1>1. CASE UNCHANGED vars
    <2>1. TypeOK'
      BY <1>1 DEF vars, IInv, TypeOK, DnsTypeOK
    <2>2. Unspent' /\ UpToDate' /\ AskedPairsKept'
      BY <1>1 DEF vars, IInv, Unspent, UpToDate, AskedPairsKept
    <2>3. Awaited'
      BY <1>1 DEF vars, IInv, Awaited, Looks, NewPairs
    <2> QED BY <2>1, <2>2, <2>3 DEF IInv
  <1>2. CASE Next
    <2>1. PICK w \in Threads :
             \/ HookStep(w) \/ Die(w)
             \/ \E p \in Ports :
                   \/ \E new \in Settings[p] :
                         \/ CreatePort(w, p, new)
                         \/ \E named \in BOOLEAN : UpdatePort(w, p, new, named)
                   \/ DeletePort(w, p)
      BY <1>2 DEF Next
    <2>2. CASE HookStep(w)
      BY <2>2, DnsWorkInv, SubnetsInv, AuthorizeInv DEF HookStep
    <2>3. CASE Die(w)
      BY <2>3, DieInv
    <2>4. ASSUME NEW p \in Ports, NEW new \in Settings[p], CreatePort(w, p, new)
          PROVE  IInv'
      BY <2>4, CreatePortInv
    <2>5. ASSUME NEW p \in Ports, NEW new \in Settings[p], NEW named \in BOOLEAN,
                 UpdatePort(w, p, new, named)
          PROVE  IInv'
      BY <2>5, UpdatePortInv
    <2>6. ASSUME NEW p \in Ports, DeletePort(w, p)
          PROVE  IInv'
      BY <2>6, DeletePortInv
    <2> QED BY <2>1, <2>2, <2>3, <2>4, <2>5, <2>6
  <1> QED BY <1>1, <1>2

(* Every reachable state of the hooks, the ports and the records is well    *)
(* typed; in particular no hook writes a record for an address or a name    *)
(* that it does not have.                                                   *)
THEOREM TypeCorrect == Spec => []TypeOK
  <1>1. IInv => TypeOK
    BY DEF IInv
  <1> QED BY <1>1, InitInv, NextInv, PTL DEF Spec

(* _authorize_port_slaac_addresses: when no hook runs, every SLAAC address  *)
(* of every live port is authorized, whatever hooks of the port overlapped, *)
(* unless the last hook of the port failed or died.                         *)
THEOREM Authorizes == Spec => []SlaacAuthorized
  <1>1. IInv => SlaacAuthorized
    <2> SUFFICES ASSUME IInv, Idle, NEW p \in live \ skipped PROVE NewPairs(p, port[p]) = {}
      BY DEF SlaacAuthorized
    <2>1. \A w \in Threads : hook[w] = NoHook
      BY DEF IInv, TypeOK, Idle
    <2> QED BY <2>1 DEF IInv, Awaited, Looks
  <1> QED BY <1>1, InitInv, NextInv, PTL DEF Spec

(* _authorize_port_slaac_addresses: a pair that a user asked for stays on   *)
(* the port, unless two hooks of the port were at work at a time.           *)
THEOREM KeepsAskedPairs == Spec => []AskedPairsKept
  <1>1. IInv => AskedPairsKept
    BY DEF IInv
  <1> QED BY <1>1, InitInv, NextInv, PTL DEF Spec
=============================================================================

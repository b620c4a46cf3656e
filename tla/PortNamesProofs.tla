-------------------------- MODULE PortNamesProofs ---------------------------
(***************************************************************************)
(* The DNS records of named ports, for any number of threads, ports and     *)
(* names: every name that no two hooks or ports had at a time, and for      *)
(* which no request failed, ends up with the record it should have.         *)
(***************************************************************************)
EXTENDS PortHooksProofs

AtWork(w, n) == hook[w] # NoHook /\ n \in NamesOf(hook[w])

Calm == Names \ contended

(* A name that was never contended belongs to one hook and to one port.     *)
OneOwner ==
    \A n \in Calm :
       /\ \A w, x \in Threads : AtWork(w, n) /\ AtWork(x, n) => w = x
       /\ \A p, q \in live : port[p].name = n /\ port[q].name = n => p = q
       /\ \A w \in Threads, q \in live : AtWork(w, n) /\ port[q].name = n => hook[w].port = q

(* A hook at work on such a name knows its port as it is.                   *)
Current ==
    \A n \in Calm, w \in Threads :
       AtWork(w, n) =>
          LET h == hook[w] IN
             /\ h.port \in live /\ port[h.port].name = n =>
                   h.op # "delete" /\ h.state.name = n /\ h.state.ips = port[h.port].ips
             /\ h.op # "delete" /\ h.state.name = n => h.port \in live /\ port[h.port].name = n

Switched ==
    /\ \A w \in Threads : pc[w] \in {"find", "delete", "look", "write"} => Enabled
    /\ ~ Enabled => \A i \in Rids : records[i] = NoRecord

(* The name whose records a hook has found.                                 *)
Sought(w) == IF pc[w] = "delete" THEN Drop(hook[w]) ELSE Keep(hook[w])

(* An id that a hook holds is not given to a record of another name.        *)
Held ==
    \A w \in Threads :
       /\ hits[w] # {} => pc[w] \in {"delete", "write"}
       /\ \A i \in hits[w] : records[i] # NoRecord => records[i].name = Sought(w)

(* The addresses that are left are the hook's.                              *)
Remaining ==
    \A w \in Threads : pc[w] \in {"look", "write"} => Range(left[w]) \subseteq Range(hook[w].state.ips)

Recorded(n, ips) == \E i \in Rids : Named(n) = {i} /\ records[i].addr \in Range(ips)

Single(n) == \A i, j \in Named(n) : i = j

(* What a hook has found is what there is.                                  *)
Seen(w, n) ==
    (pc[w] = "delete" /\ Drop(hook[w]) = n) \/ (pc[w] = "write" /\ Keep(hook[w]) = n)
       => hits[w] = Named(n)

(* A hook that has come to its second address, or past them, has recorded   *)
(* one.                                                                     *)
Progressed(w, n) ==
    /\ pc[w] \in {"look", "write"} /\ Keep(hook[w]) = n =>
          left[w] = hook[w].state.ips \/ Recorded(n, hook[w].state.ips)
    /\ pc[w] \in {"subnets", "authorize"} /\ Keep(hook[w]) = n /\ Enabled =>
          hook[w].state.ips = <<>> \/ Recorded(n, hook[w].state.ips)

(* A named port has a record, or a hook that is at work on it.              *)
Resolves(n) ==
    Enabled => \A p \in live :
       port[p].name = n =>
          \/ port[p].ips = <<>> \/ Recorded(n, port[p].ips)
          \/ \E w \in Threads : hook[w] # NoHook /\ Keep(hook[w]) = n

(* A name with a record is the name of a port, or a hook is to drop it.     *)
Wanted(n) ==
    Named(n) # {} =>
       \/ \E p \in live : port[p].name = n
       \/ \E w \in Threads : pc[w] \in {"find", "delete"} /\ Drop(hook[w]) = n

NameOK(n) ==
    /\ Single(n) /\ Resolves(n) /\ Wanted(n)
    /\ \A w \in Threads : Seen(w, n) /\ Progressed(w, n)

NameInv == \A n \in Calm \ botched : NameOK(n)

RInv == IInv /\ OneOwner /\ Current /\ Switched /\ Held /\ Remaining /\ NameInv

-----------------------------------------------------------------------------
(* Names of a hook.                                                         *)

LEMMA HookTypes ==
  ASSUME RInv, NEW w \in Threads, pc[w] # "idle"
  PROVE  /\ hook[w] \in Hook /\ hook[w] # NoHook
         /\ hook[w].state \in Port /\ hook[w].port \in Ports
         /\ left[w] \in Seq(Addrs) /\ hits[w] \subseteq Rids
  <1>1. hook[w] \in Hook /\ hook[w] # NoHook
    BY DEF RInv, IInv, TypeOK
  <1>2. hook[w].state \in Port /\ hook[w].port \in Ports
    BY <1>1 DEF Hook
  <1> QED BY <1>1, <1>2 DEF RInv, IInv, TypeOK, DnsTypeOK

LEMMA WorksOn ==
  ASSUME NEW h \in Hook, NEW n \in Names
  PROVE  /\ Drop(h) = n => n \in NamesOf(h) /\ (h.op = "delete" \/ h.state.name # n)
         /\ Keep(h) = n => n \in NamesOf(h) /\ h.op # "delete" /\ h.state.name = n
  BY DnsAssumption DEF Drop, Keep, NamesOf, Hook

(* What a hook drops is the name of no port, what it keeps is the name of   *)
(* its own.                                                                 *)
LEMMA PortOfName ==
  ASSUME RInv, NEW w \in Threads, pc[w] # "idle", NEW n \in Calm
  PROVE  /\ Drop(hook[w]) = n => \A p \in live : port[p].name # n
         /\ Keep(hook[w]) = n =>
              /\ hook[w].port \in live /\ port[hook[w].port].name = n
              /\ hook[w].state.ips = port[hook[w].port].ips
         /\ Drop(hook[w]) = n \/ Keep(hook[w]) = n =>
              /\ AtWork(w, n)
              /\ \A x \in Threads \ {w} : pc[x] # "idle" => Drop(hook[x]) # n /\ Keep(hook[x]) # n
  <1>1. n \in Names
    BY DEF Calm
  <1>2. hook[w] \in Hook /\ hook[w] # NoHook
    BY HookTypes
  <1>3. Drop(hook[w]) = n \/ Keep(hook[w]) = n => AtWork(w, n)
    BY <1>1, <1>2, WorksOn DEF AtWork
  <1>4. ASSUME NEW x \in Threads \ {w}, pc[x] # "idle", Drop(hook[x]) = n \/ Keep(hook[x]) = n
        PROVE  AtWork(x, n)
    <2>1. hook[x] \in Hook /\ hook[x] # NoHook
      BY <1>4, HookTypes
    <2> QED BY <1>1, <1>4, <2>1, WorksOn DEF AtWork
  <1>5. ASSUME Keep(hook[w]) = n
        PROVE  /\ hook[w].port \in live /\ port[hook[w].port].name = n
               /\ hook[w].state.ips = port[hook[w].port].ips
    BY <1>1, <1>2, <1>3, <1>5, WorksOn DEF RInv, Current
  <1>6. ASSUME Drop(hook[w]) = n, NEW p \in live, port[p].name = n
        PROVE  FALSE
    <2>1. hook[w].port = p
      BY <1>3, <1>6 DEF RInv, OneOwner
    <2>2. hook[w].op # "delete" /\ hook[w].state.name = n
      BY <1>3, <1>6, <2>1 DEF RInv, Current
    <2> QED BY <1>1, <1>2, <1>6, <2>2, WorksOn
  <1> QED BY <1>3, <1>4, <1>5, <1>6 DEF RInv, OneOwner

-----------------------------------------------------------------------------
(* Steps of a hook.  First what a thread does to the records of a name.     *)

Framed(n) == Named(n)' = Named(n) /\ \A i \in Named(n) : records'[i] = records[i]

LEMMA FramedRecorded ==
  ASSUME NEW n, NEW ips, Framed(n)
  PROVE  Recorded(n, ips)' <=> Recorded(n, ips)
  BY DEF Framed, Recorded

LEMMA SameRecords ==
  ASSUME NEW n, UNCHANGED records
  PROVE  Framed(n)
  BY DEF Framed, Named

(* Other threads do not move while thread w does.                           *)
Alone(w) ==
    /\ \A x \in Threads \ {w} :
          hook'[x] = hook[x] /\ pc'[x] = pc[x] /\ left'[x] = left[x] /\ hits'[x] = hits[x]
    /\ UNCHANGED <<live, port, contended>>

(* A name's part of the invariant after a step of thread w, which leaves    *)
(* the records of the name alone, deletes one that is to be dropped, or     *)
(* writes the one that is to be kept.                                       *)
LEMMA NameStep ==
  ASSUME RInv, NEW w \in Threads, pc[w] # "idle", Alone(w), NEW n \in Calm \ botched,
         \/ hook'[w] = hook[w]
         \/ /\ hook'[w] = NoHook
            /\ Keep(hook[w]) = n => pc[w] \in {"subnets", "authorize"} /\ Framed(n),
         \/ Framed(n)
         \/ pc[w] = "delete" /\ Drop(hook[w]) = n /\ Named(n)' \subseteq Named(n)
         \/ pc[w] = "write" /\ Keep(hook[w]) = n /\ Single(n)',
         pc[w] \in {"find", "delete"} /\ Drop(hook[w]) = n =>
            (pc'[w] \in {"find", "delete"} /\ hook'[w] = hook[w]) \/ Named(n)' = {},
         Seen(w, n)', Progressed(w, n)'
  PROVE  NameOK(n)'
  <1>1. n \in Names /\ NameOK(n) /\ n \in Calm
    BY DEF RInv, NameInv, Calm
  <1>2. Single(n)'
    BY <1>1 DEF NameOK, Single, Framed
  <1>3. ASSUME NEW x \in Threads \ {w}
        PROVE  Seen(x, n)' /\ Progressed(x, n)'
    <2>1. CASE Framed(n)
      <3>1. Seen(x, n) /\ Progressed(x, n)
        BY <1>1 DEF NameOK
      <3>2. Recorded(n, hook[x].state.ips)' <=> Recorded(n, hook[x].state.ips)
        BY <2>1 DEF Framed, Recorded, Alone
      <3> QED BY <2>1, <3>1, <3>2 DEF Alone, Seen, Progressed, Framed
    <2>2. CASE Drop(hook[w]) = n \/ Keep(hook[w]) = n
      BY <1>1, <2>2, PortOfName DEF Alone, Seen, Progressed
    <2> QED BY <2>1, <2>2
  <1>4. Resolves(n)'
    <2> SUFFICES ASSUME Enabled, NEW p \in live, port[p].name = n, port[p].ips # <<>>,
                        \A x \in Threads : hook'[x] # NoHook => Keep(hook'[x]) # n
                 PROVE  Recorded(n, port[p].ips)'
      BY DEF Resolves, Alone
    <2>1. Framed(n)
      BY <1>1, PortOfName, HookTypes
    <2>2. CASE \E x \in Threads : hook[x] # NoHook /\ Keep(hook[x]) = n
      <3>1. hook'[w] = NoHook /\ Keep(hook[w]) = n /\ pc[w] \in {"subnets", "authorize"}
        BY <2>2 DEF Alone
      <3>2. hook[w].port = p /\ hook[w].state.ips = port[p].ips
        BY <1>1, <3>1, PortOfName DEF RInv, OneOwner
      <3>3. Recorded(n, port[p].ips)
        BY <1>1, <3>1, <3>2 DEF NameOK, Progressed
      <3> QED BY <2>1, <3>3 DEF Framed, Recorded, Alone
    <2>3. CASE ~ \E x \in Threads : hook[x] # NoHook /\ Keep(hook[x]) = n
      <3>1. Recorded(n, port[p].ips)
        BY <1>1, <2>3 DEF NameOK, Resolves
      <3> QED BY <2>1, <3>1 DEF Framed, Recorded, Alone
    <2> QED BY <2>2, <2>3
  <1>5. Wanted(n)'
    <2>1. CASE pc[w] = "write" /\ Keep(hook[w]) = n
      BY <1>1, <2>1, PortOfName DEF Wanted, Alone
    <2>2. CASE Named(n)' # {} /\ ~ (pc[w] = "write" /\ Keep(hook[w]) = n)
      <3>1. Named(n) # {}
        BY <2>2 DEF Framed
      <3> QED BY <1>1, <2>2, <3>1 DEF NameOK, Wanted, Alone
    <2> QED BY <2>1, <2>2 DEF Wanted
  <1> QED BY <1>2, <1>3, <1>4, <1>5 DEF NameOK

(* All of the invariant, from the parts that a step of thread w concerns.   *)
LEMMA WholeStep ==
  ASSUME RInv, IInv', NEW w \in Threads, pc[w] # "idle", Alone(w), hook'[w] \in {hook[w], NoHook},
         pc'[w] \in {"find", "delete", "look", "write"} => Enabled,
         ~ Enabled => UNCHANGED records,
         hits'[w] # {} => pc'[w] \in {"delete", "write"},
         \A i \in hits'[w] : records'[i] # NoRecord => records'[i].name = Sought(w)',
         \A x \in Threads \ {w} : \A i \in hits[x] :
            records'[i] # NoRecord => records[i] # NoRecord /\ records'[i].name = records[i].name,
         pc'[w] \in {"look", "write"} => Range(left'[w]) \subseteq Range(hook'[w].state.ips),
         \A n \in Calm \ botched' : NameOK(n)'
  PROVE  RInv'
  <1>1. ASSUME NEW x \in Threads, NEW n, AtWork(x, n)'
        PROVE  AtWork(x, n) /\ hook'[x] = hook[x]
    BY <1>1 DEF AtWork, Alone
  <1>2. OneOwner'
    BY <1>1 DEF RInv, OneOwner, Alone, Calm
  <1>3. Current'
    BY <1>1 DEF RInv, Current, Alone, Calm
  <1>4. Switched'
    BY DEF RInv, Switched, Alone
  <1>5. Held'
    BY DEF RInv, Held, Alone, Sought
  <1>6. Remaining'
    BY DEF RInv, Remaining, Alone
  <1>7. NameInv'
    BY DEF NameInv, Alone, Calm
  <1> QED BY <1>2, <1>3, <1>4, <1>5, <1>6, <1>7 DEF RInv

LEMMA GotoFacts ==
  ASSUME RInv, NEW w \in Threads, NEW stage, Goto(w, stage)
  PROVE  /\ pc'[w] = stage /\ hook'[w] = IF stage = "idle" THEN NoHook ELSE hook[w]
         /\ \A x \in Threads \ {w} : pc'[x] = pc[x] /\ hook'[x] = hook[x]
  BY DEF Goto, RInv, IInv, TypeOK

(* The hook has done with the name to drop.                                 *)
LEMMA DropOverStep ==
  ASSUME RInv, NEW w \in Threads, pc[w] \in {"find", "delete"}, DropOver(w),
         UNCHANGED <<live, port, contended>>
  PROVE  /\ Alone(w) /\ hook'[w] \in {hook[w], NoHook} /\ hits'[w] = {}
         /\ hook'[w] = NoHook => \A n \in Names : Keep(hook[w]) # n
         /\ pc'[w] = "look" => Range(left'[w]) \subseteq Range(hook'[w].state.ips)
         /\ pc'[w] \in {"look", "subnets", "idle"}
         /\ \A n \in Names : Seen(w, n)' /\ Progressed(w, n)'
  <1>1. hook[w] \in Hook /\ left[w] = hook[w].state.ips
    BY HookTypes DEF RInv, IInv, Unspent
  <1>2. /\ pc'[w] = KeepFirst(hook[w])
        /\ hook'[w] = IF KeepFirst(hook[w]) = "idle" THEN NoHook ELSE hook[w]
        /\ left'[w] = hook[w].state.ips /\ hits'[w] = {}
        /\ \A x \in Threads \ {w} :
              pc'[x] = pc[x] /\ hook'[x] = hook[x] /\ left'[x] = left[x] /\ hits'[x] = hits[x]
    BY <1>1, GotoFacts DEF DropOver, RInv, IInv, TypeOK, DnsTypeOK
  <1>3. /\ KeepFirst(hook[w]) \in {"look", "subnets", "idle"}
        /\ KeepFirst(hook[w]) = "idle" => hook[w].op = "delete"
    BY <1>1, KeepFirstTypes
  <1>4. ASSUME NEW n \in Names
        PROVE  Seen(w, n)' /\ Progressed(w, n)'
    <2>1. Seen(w, n)'
      BY <1>2, <1>3 DEF Seen
    <2>2. KeepFirst(hook[w]) = "subnets" /\ Enabled /\ Keep(hook[w]) = n => hook[w].state.ips = <<>>
      BY DnsAssumption DEF KeepFirst
    <2>3. Progressed(w, n)'
      BY <1>2, <1>3, <2>2 DEF Progressed
    <2> QED BY <2>1, <2>3
  <1>5. hook'[w] = NoHook => \A n \in Names : Keep(hook[w]) # n
    BY <1>1, <1>2, <1>3, HookTypes, WorksOn
  <1> QED BY <1>2, <1>3, <1>4, <1>5 DEF Alone

LEMMA FindNames ==
  ASSUME RInv, IInv', NEW w \in Threads, Find(w), UNCHANGED <<live, port, contended>>
  PROVE  RInv'
  <1>1. pc[w] = "find" /\ UNCHANGED records /\ Enabled /\ hook[w] \in Hook
    BY HookTypes DEF Find, RInv, Switched
  <1>2. ASSUME DropOver(w), Named(Drop(hook[w])) = {} \/ Drop(hook[w]) \in botched',
               botched \subseteq botched'
        PROVE  RInv'
    <2>1. ASSUME NEW n \in Calm \ botched'
          PROVE  NameOK(n)'
      <3>1. n \in Names /\ n \in Calm \ botched
        BY <1>2 DEF Calm
      <3>2. Drop(hook[w]) = n => Named(n)' = {}
        BY <1>1, <1>2, <2>1 DEF Named
      <3>3. Framed(n)
        BY <1>1, SameRecords
      <3> QED BY <1>1, <1>2, <3>1, <3>2, <3>3, DropOverStep, NameStep
    <2>2. pc'[w] = "look" => Range(left'[w]) \subseteq Range(hook'[w].state.ips)
      BY <1>1, <1>2, DropOverStep
    <2>3. \A x \in Threads \ {w} : \A i \in hits[x] :
             records'[i] # NoRecord => records[i] # NoRecord /\ records'[i].name = records[i].name
      BY <1>1
    <2> QED BY <1>1, <1>2, <2>1, <2>2, <2>3, DropOverStep, WholeStep
  <1>3. CASE Named(Drop(hook[w])) = {} /\ DropOver(w) /\ UNCHANGED botched
    BY <1>2, <1>3
  <1>4. CASE DropFailed(w)
    BY <1>2, <1>4 DEF DropFailed, Botch
  <1>5. ASSUME NEW found, found = Named(Drop(hook[w])), found # {},
               hits' = [hits EXCEPT ![w] = found], Goto(w, "delete"), UNCHANGED <<left, botched>>
        PROVE  RInv'
    <2>1. /\ pc'[w] = "delete" /\ hook'[w] = hook[w] /\ hits'[w] = found /\ Alone(w)
      BY <1>5, GotoFacts DEF Alone, RInv, IInv, TypeOK, DnsTypeOK
    <2>2. ASSUME NEW n \in Calm \ botched'
          PROVE  NameOK(n)'
      <3>1. Framed(n)
        BY <1>1, SameRecords
      <3>2. Seen(w, n)' /\ Progressed(w, n)'
        BY <1>5, <2>1, <3>1 DEF Seen, Progressed, Framed
      <3>3. n \in Calm \ botched
        BY <1>5
      <3> QED BY <1>1, <2>1, <3>1, <3>2, <3>3, NameStep
    <2>3. \A i \in hits'[w] : records'[i] # NoRecord => records'[i].name = Sought(w)'
      BY <1>1, <1>5, <2>1 DEF Sought, Named
    <2> QED BY <1>1, <2>1, <2>2, <2>3, WholeStep
  <1> QED BY <1>3, <1>4, <1>5 DEF Find

LEMMA DeleteNames ==
  ASSUME RInv, IInv', NEW w \in Threads, Delete(w), UNCHANGED <<live, port, contended>>
  PROVE  RInv'
  <1>1. /\ pc[w] = "delete" /\ Enabled /\ hook[w] \in Hook /\ hits[w] \subseteq Rids
        /\ records \in [Rids -> Record \cup {NoRecord}]
    BY HookTypes DEF Delete, RInv, Switched, IInv, TypeOK, DnsTypeOK
  <1>2. PICK i \in hits[w] :
          \/ /\ records' = [records EXCEPT ![i] = NoRecord]
             /\ \/ Deleted(w, i) /\ UNCHANGED botched
                \/ DropFailed(w)
          \/ DropFailed(w) /\ UNCHANGED records
    BY DEF Delete
  <1>3. i \in Rids /\ \A j \in Rids : records'[j] = records[j] \/ (j = i /\ records'[j] = NoRecord)
    BY <1>1, <1>2
  <1>4. ASSUME NEW n, n # Drop(hook[w])
        PROVE  Framed(n)
    <2>1. i \notin Named(n)
      BY <1>1, <1>4 DEF RInv, Held, Sought, Named
    <2> QED BY <1>3, <2>1 DEF Named, Framed
  <1>5. ASSUME NEW n
        PROVE  Named(n)' \subseteq Named(n)
    BY <1>3 DEF Named
  <1>6. \A x \in Threads \ {w} : \A j \in hits[x] :
           records'[j] # NoRecord => records[j] # NoRecord /\ records'[j].name = records[j].name
    BY <1>3 DEF RInv, IInv, TypeOK, DnsTypeOK
  <1>7. ASSUME NEW n \in Calm \ botched, Drop(hook[w]) = n
        PROVE  hits[w] = Named(n) /\ Named(n) = {i}
    <2>1. Seen(w, n) /\ Single(n)
      BY <1>7 DEF RInv, NameInv, NameOK
    <2> QED BY <1>1, <1>7, <2>1 DEF Seen, Single
  <1>8. ASSUME DropOver(w), botched \subseteq botched',
               Drop(hook[w]) \in botched' \/ records' = [records EXCEPT ![i] = NoRecord]
        PROVE  RInv'
    <2>1. ASSUME NEW n \in Calm \ botched'
          PROVE  NameOK(n)'
      <3>1. n \in Names /\ n \in Calm \ botched
        BY <1>8 DEF Calm
      <3>2. Drop(hook[w]) = n => Named(n)' = {}
        BY <1>1, <1>5, <1>7, <1>8, <2>1, <3>1 DEF Named
      <3> QED BY <1>1, <1>4, <1>5, <1>8, <3>1, <3>2, DropOverStep, NameStep
    <2>2. pc'[w] = "look" => Range(left'[w]) \subseteq Range(hook'[w].state.ips)
      BY <1>1, <1>8, DropOverStep
    <2> QED BY <1>1, <1>6, <1>8, <2>1, <2>2, DropOverStep, WholeStep
  <1>9. CASE DropFailed(w)
    BY <1>8, <1>9 DEF DropFailed, Botch
  <1>10. CASE /\ records' = [records EXCEPT ![i] = NoRecord]
              /\ hits[w] # {i} /\ hits' = [hits EXCEPT ![w] = @ \ {i}]
              /\ UNCHANGED <<pc, hook, left, botched>>
    <2>1. hits'[w] = hits[w] \ {i} /\ Alone(w)
      BY <1>10 DEF Alone, RInv, IInv, TypeOK, DnsTypeOK
    <2>2. ASSUME NEW n \in Calm \ botched'
          PROVE  NameOK(n)'
      <3>1. n \in Calm \ botched /\ n # Drop(hook[w])
        BY <1>7, <1>10
      <3>2. Seen(w, n)' /\ Progressed(w, n)'
        BY <1>1, <1>10, <3>1 DEF Seen, Progressed
      <3> QED BY <1>1, <1>4, <1>10, <2>1, <3>1, <3>2, NameStep
    <2>3. \A j \in hits'[w] : records'[j] # NoRecord => records'[j].name = Sought(w)'
      BY <1>1, <1>3, <1>10, <2>1 DEF Sought, RInv, Held
    <2> QED BY <1>1, <1>6, <1>10, <2>1, <2>2, <2>3, WholeStep
  <1> QED BY <1>2, <1>8, <1>9, <1>10 DEF Deleted

-----------------------------------------------------------------------------
LEMMA HeadAndTail ==
  ASSUME NEW s \in Seq(Addrs), s # <<>>
  PROVE  Head(s) \in Range(s) /\ Range(Tail(s)) \subseteq Range(s)
  <1>1. /\ Head(s) = s[1] /\ Len(s) \in Nat /\ Len(s) # 0 /\ DOMAIN s = 1..Len(s)
    BY EmptySeq, LenProperties
  <1>2. 1 \in DOMAIN s
    BY <1>1
  <1>3. /\ Tail(s) \in Seq(Addrs) /\ Len(Tail(s)) = Len(s) - 1
        /\ \A i \in 1 .. Len(Tail(s)) : Tail(s)[i] = s[i+1]
    BY HeadTailProperties, Zenon
  <1>4. DOMAIN Tail(s) = 1 .. Len(Tail(s))
    BY <1>3, LenProperties, Zenon
  <1>5. \A i \in DOMAIN Tail(s) : i + 1 \in DOMAIN s /\ Tail(s)[i] = s[i+1]
    BY <1>1, <1>3, <1>4
  <1> QED BY <1>1, <1>2, <1>5 DEF Range

(* The hook has done with an address, or with all of them after a failure.  *)
LEMMA KeptStep ==
  ASSUME RInv, NEW w \in Threads, pc[w] \in {"look", "write"}, Kept(w) \/ KeepFailed(w),
         UNCHANGED <<live, port, contended>>
  PROVE  /\ Alone(w) /\ hook'[w] = hook[w] /\ hits'[w] = {}
         /\ pc'[w] \in {"look", "subnets"}
         /\ pc'[w] = "look" => Range(left'[w]) \subseteq Range(hook[w].state.ips)
         /\ \A n \in Names : Seen(w, n)'
         /\ \A n \in Names : (Keep(hook[w]) = n => Recorded(n, hook[w].state.ips)') => Progressed(w, n)'
  <1>1. /\ hook[w] \in Hook /\ hook[w] # NoHook /\ left[w] \in Seq(Addrs) /\ left[w] # <<>>
        /\ Keep(hook[w]) \in Names
    BY HookTypes DEF RInv, IInv, TypeOK, DnsTypeOK
  <1>2. DnsOver(hook[w]) = "subnets"
    BY <1>1, WorksOn DEF DnsOver
  <1>3. /\ pc'[w] \in {"look", "subnets"} /\ hook'[w] = hook[w] /\ hits'[w] = {}
        /\ pc'[w] = "look" => left'[w] = Tail(left[w])
        /\ \A x \in Threads \ {w} :
              pc'[x] = pc[x] /\ hook'[x] = hook[x] /\ left'[x] = left[x] /\ hits'[x] = hits[x]
    <2>1. CASE Kept(w)
      BY <1>2, <2>1, GotoFacts DEF Kept, RInv, IInv, TypeOK, DnsTypeOK
    <2>2. CASE KeepFailed(w)
      BY <1>2, <2>2, GotoFacts DEF KeepFailed, RInv, IInv, TypeOK, DnsTypeOK
    <2> QED BY <2>1, <2>2
  <1>4. Range(Tail(left[w])) \subseteq Range(hook[w].state.ips)
    BY <1>1, HeadAndTail DEF RInv, Remaining
  <1>5. \A n \in Names : Seen(w, n)'
    BY <1>3 DEF Seen
  <1>6. ASSUME NEW n \in Names, Keep(hook[w]) = n => Recorded(n, hook[w].state.ips)'
        PROVE  Progressed(w, n)'
    BY <1>3, <1>6 DEF Progressed, Recorded
  <1> QED BY <1>3, <1>4, <1>5, <1>6 DEF Alone

LEMMA LookNames ==
  ASSUME RInv, IInv', NEW w \in Threads, Look(w), UNCHANGED <<live, port, contended>>
  PROVE  RInv'
  <1>1. /\ pc[w] = "look" /\ UNCHANGED records /\ Enabled /\ hook[w] \in Hook
        /\ left[w] \in Seq(Addrs) /\ left[w] # <<>>
    BY HookTypes DEF Look, RInv, Switched, IInv, TypeOK, DnsTypeOK
  <1>2. Head(left[w]) \in Range(hook[w].state.ips)
    BY <1>1, HeadAndTail DEF RInv, Remaining
  <1>3. \A n : Framed(n)
    BY <1>1, SameRecords
  <1>4. \A x \in Threads \ {w} : \A i \in hits[x] :
           records'[i] # NoRecord => records[i] # NoRecord /\ records'[i].name = records[i].name
    BY <1>1
  <1>5. ASSUME Kept(w) \/ KeepFailed(w), botched \subseteq botched',
               \A n \in Calm \ botched' : Keep(hook[w]) = n => Recorded(n, hook[w].state.ips)
        PROVE  RInv'
    <2>1. ASSUME NEW n \in Calm \ botched'
          PROVE  NameOK(n)'
      <3>1. n \in Names /\ n \in Calm \ botched
        BY <1>5 DEF Calm
      <3>2. Alone(w) /\ hook'[w] = hook[w] /\ Seen(w, n)'
        BY <1>1, <1>5, <3>1, KeptStep
      <3>3. Keep(hook[w]) = n => Recorded(n, hook[w].state.ips)'
        BY <1>1, <1>5, <2>1, <3>2 DEF Recorded, Named
      <3>4. Progressed(w, n)'
        BY <1>1, <1>5, <3>1, <3>3, KeptStep
      <3> QED BY <1>1, <1>3, <3>1, <3>2, <3>4, NameStep
    <2> QED BY <1>1, <1>4, <1>5, <2>1, KeptStep, WholeStep
  <1>6. CASE KeepFailed(w)
    BY <1>5, <1>6 DEF KeepFailed, Botch
  <1>7. ASSUME NEW i \in Existing(Keep(hook[w]), Head(left[w])), i # NoRid, records[i].addr = Head(left[w]),
               Kept(w), UNCHANGED botched
        PROVE  RInv'
    <2>1. i \in Named(Keep(hook[w]))
      BY <1>7 DEF Existing
    <2>2. ASSUME NEW n \in Calm \ botched', Keep(hook[w]) = n
          PROVE  Recorded(n, hook[w].state.ips)
      <3>1. Single(n)
        BY <1>7, <2>2 DEF RInv, NameInv, NameOK
      <3> QED BY <1>2, <1>7, <2>1, <2>2, <3>1 DEF Recorded, Single, Named
    <2> QED BY <1>5, <1>7, <2>2
  <1>8. ASSUME NEW i \in Existing(Keep(hook[w]), Head(left[w])),
               hits' = [hits EXCEPT ![w] = {i} \ {NoRid}], Goto(w, "write"), UNCHANGED <<left, botched>>
        PROVE  RInv'
    <2>1. /\ pc'[w] = "write" /\ hook'[w] = hook[w] /\ hits'[w] = {i} \ {NoRid} /\ left'[w] = left[w]
          /\ Alone(w)
      BY <1>8, GotoFacts DEF Alone, RInv, IInv, TypeOK, DnsTypeOK
    <2>2. i # NoRid => i \in Named(Keep(hook[w]))
      BY <1>8 DEF Existing
    <2>3. i = NoRid => Named(Keep(hook[w])) = {}
      BY <1>8, DnsAssumption DEF Existing, Named
    <2>4. ASSUME NEW n \in Calm \ botched'
          PROVE  NameOK(n)'
      <3>1. n \in Calm \ botched /\ Progressed(w, n) /\ Single(n)
        BY <1>8 DEF RInv, NameInv, NameOK
      <3>2. Seen(w, n)'
        BY <1>1, <2>1, <2>2, <2>3, <3>1 DEF Seen, Single, Named
      <3>3. Progressed(w, n)'
        BY <1>1, <2>1, <3>1 DEF Progressed, Recorded, Named
      <3> QED BY <1>1, <1>3, <2>1, <3>1, <3>2, <3>3, NameStep
    <2>5. \A j \in hits'[w] : records'[j] # NoRecord => records'[j].name = Sought(w)'
      BY <1>1, <2>1, <2>2 DEF Sought, Named
    <2>6. Range(left'[w]) \subseteq Range(hook'[w].state.ips)
      BY <1>1, <2>1 DEF RInv, Remaining
    <2> QED BY <1>1, <1>4, <2>1, <2>4, <2>5, <2>6, WholeStep
  <1> QED BY <1>6, <1>7, <1>8 DEF Look

LEMMA WriteNames ==
  ASSUME RInv, IInv', NEW w \in Threads, Write(w), UNCHANGED <<live, port, contended>>
  PROVE  RInv'
  <1> DEFINE new == [name |-> Keep(hook[w]), addr |-> Head(left[w])]
  <1>1. /\ pc[w] = "write" /\ Enabled /\ hook[w] \in Hook /\ hits[w] \subseteq Rids
        /\ left[w] \in Seq(Addrs) /\ left[w] # <<>> /\ Keep(hook[w]) \in Names
        /\ records \in [Rids -> Record \cup {NoRecord}]
    BY HookTypes DEF Write, RInv, Switched, IInv, TypeOK, DnsTypeOK
  <1>2. Head(left[w]) \in Range(hook[w].state.ips) /\ Head(left[w]) \in Addrs
    <2>1. Head(left[w]) \in Addrs
      BY <1>1, HeadTailProperties, Zenon
    <2> QED BY <1>1, <2>1, HeadAndTail DEF RInv, Remaining
  <1>3. new \in Record /\ new # NoRecord
    BY <1>1, <1>2, DnsAssumption DEF Record
  <1>4. ASSUME botched \subseteq botched', Kept(w) \/ KeepFailed(w),
               \A x \in Threads \ {w} : \A j \in hits[x] :
                  records'[j] # NoRecord => records[j] # NoRecord /\ records'[j].name = records[j].name,
               \A n \in Names : n # Keep(hook[w]) => Framed(n),
               \A n \in Calm \ botched' :
                  Keep(hook[w]) = n => Recorded(n, hook[w].state.ips)' /\ Single(n)'
        PROVE  RInv'
    <2>1. ASSUME NEW n \in Calm \ botched'
          PROVE  NameOK(n)'
      <3>1. n \in Names /\ n \in Calm \ botched
        BY <1>4 DEF Calm
      <3>2. Alone(w) /\ hook'[w] = hook[w] /\ Seen(w, n)'
        BY <1>1, <1>4, <3>1, KeptStep
      <3>3. Progressed(w, n)'
        BY <1>1, <1>4, <2>1, <3>1, KeptStep
      <3> QED BY <1>1, <1>4, <2>1, <3>1, <3>2, <3>3, NameStep
    <2> QED BY <1>1, <1>4, <2>1, KeptStep, WholeStep
  <1>5. CASE UNCHANGED records /\ KeepFailed(w)
    BY <1>4, <1>5, SameRecords DEF KeepFailed, Botch
  <1>6. ASSUME NEW i \in Target(w), ~ Gone(w), records' = [records EXCEPT ![i] = new],
               \/ Kept(w) /\ UNCHANGED botched
               \/ KeepFailed(w)
        PROVE  RInv'
    <2>1. i \in Rids /\ records'[i] = new /\ \A j \in Rids \ {i} : records'[j] = records[j]
      BY <1>1, <1>6 DEF Target, Free
    <2>2. \/ i \in hits[w] /\ records[i] # NoRecord /\ records[i].name = Keep(hook[w])
          \/ hits[w] = {} /\ records[i] = NoRecord /\ \A x \in Threads : i \notin hits[x]
      BY <1>1, <1>6 DEF Target, Free, Gone, RInv, Held, Sought
    <2>3. \A x \in Threads \ {w} : \A j \in hits[x] :
             records'[j] # NoRecord => records[j] # NoRecord /\ records'[j].name = records[j].name
      BY <2>1, <2>2 DEF RInv, IInv, TypeOK, DnsTypeOK
    <2>4. \A n \in Names : n # Keep(hook[w]) => Framed(n)
      BY <1>3, <2>1, <2>2 DEF Framed, Named
    <2>5. ASSUME NEW n \in Calm \ botched, Keep(hook[w]) = n
          PROVE  Recorded(n, hook[w].state.ips)' /\ Single(n)'
      <3>1. hits[w] = Named(n) /\ Single(n)
        BY <1>1, <2>5 DEF RInv, NameInv, NameOK, Seen
      <3>2. Named(n)' = {i}
        BY <1>3, <2>1, <2>2, <2>5, <3>1 DEF Named, Single
      <3>3. hook'[w] = hook[w]
        BY <1>1, <1>6, KeptStep
      <3> QED BY <1>2, <2>1, <3>2, <3>3 DEF Recorded, Single
    <2>6. botched \subseteq botched'
      BY <1>6 DEF KeepFailed, Botch
    <2> QED BY <1>4, <1>6, <2>3, <2>4, <2>5, <2>6
  <1> QED BY <1>5, <1>6 DEF Write

-----------------------------------------------------------------------------
(* Behind the records.                                                      *)

LEMMA QuietNames ==
  ASSUME RInv, IInv', NEW w \in Threads, pc[w] \in {"subnets", "authorize"},
         NEW stage \in {"idle", "authorize"}, Goto(w, stage),
         UNCHANGED <<records, left, hits, botched, live, port, contended>>
  PROVE  RInv'
  <1>1. /\ pc'[w] = stage /\ hook'[w] = IF stage = "idle" THEN NoHook ELSE hook[w]
        /\ Alone(w)
    BY GotoFacts DEF Alone
  <1>2. hits'[w] = {}
    BY DEF RInv, Held
  <1>3. \A x \in Threads \ {w} : \A i \in hits[x] :
           records'[i] # NoRecord => records[i] # NoRecord /\ records'[i].name = records[i].name
    OBVIOUS
  <1>4. ASSUME NEW n \in Calm \ botched'
        PROVE  NameOK(n)'
    <2>1. n \in Calm \ botched /\ Framed(n) /\ Progressed(w, n)
      BY SameRecords DEF RInv, NameInv, NameOK
    <2>2. Seen(w, n)' /\ Progressed(w, n)'
      BY <1>1, <2>1 DEF Seen, Progressed, Recorded, Named
    <2> QED BY <1>1, <2>1, <2>2, NameStep
  <1> QED BY <1>1, <1>2, <1>3, <1>4, WholeStep

(* The names of a hook that dies are not settled.                           *)
LEMMA DieNames ==
  ASSUME RInv, IInv', NEW w \in Threads, Die(w)
  PROVE  RInv'
  <1>1. /\ pc[w] # "idle" /\ hook[w] \in Hook /\ hook[w] # NoHook
        /\ UNCHANGED <<records, live, port, contended>>
        /\ botched' = botched \cup NamesOf(hook[w])
    BY HookTypes DEF Die, dbVars, RInv, IInv, TypeOK
  <1>2. /\ pc'[w] = "idle" /\ hook'[w] = NoHook /\ hits'[w] = {}
        /\ Alone(w)
    BY <1>1, GotoFacts DEF Die, Alone, RInv, IInv, TypeOK, DnsTypeOK
  <1>3. \A x \in Threads \ {w} : \A i \in hits[x] :
           records'[i] # NoRecord => records[i] # NoRecord /\ records'[i].name = records[i].name
    BY <1>1
  <1>4. ASSUME NEW n \in Calm \ botched'
        PROVE  NameOK(n)'
    <2>1. n \in Names /\ n \in Calm \ botched /\ Framed(n)
      BY <1>1, SameRecords DEF Calm
    <2>2. Drop(hook[w]) # n /\ Keep(hook[w]) # n
      BY <1>1, <1>4, <2>1, WorksOn
    <2>3. Seen(w, n)' /\ Progressed(w, n)'
      BY <1>2 DEF Seen, Progressed
    <2> QED BY <1>1, <1>2, <2>1, <2>2, <2>3, NameStep
  <1> QED BY <1>1, <1>2, <1>3, <1>4, WholeStep

-----------------------------------------------------------------------------
(* A change that Neutron commits.                                           *)

(* A name that is still calm is nobody else's.                              *)
LEMMA WatchCalm ==
  ASSUME NEW w \in Threads, NEW h, Watch(w, h), NEW n \in Calm', n \in NamesOf(h)
  PROVE  /\ n \in Calm
         /\ \A x \in Threads \ {w} : ~ AtWork(x, n)
         /\ \A q \in live \ {h.port} : port[q].name # n
  <1> DEFINE theirs == UNION {NamesOf(hook[x]) : x \in Others(w)}
             ports == {port[q].name : q \in live \ {h.port}}
  <1>1. n \in Calm /\ n \notin theirs /\ n \notin ports
    <2>1. contended' = contended \cup (NamesOf(h) \cap (theirs \cup ports))
      BY DEF Watch
    <2> HIDE DEF theirs, ports
    <2> QED BY <2>1 DEF Calm
  <1>2. ASSUME NEW x \in Threads \ {w}, AtWork(x, n)
        PROVE  FALSE
    <2>1. x \in Others(w)
      BY <1>2 DEF AtWork, Others
    <2> QED BY <1>1, <1>2, <2>1 DEF AtWork
  <1> QED BY <1>1, <1>2

LEMMA CommitNames ==
  ASSUME RInv, IInv', NEW w \in Threads, NEW op \in {"create", "update", "delete"},
         NEW p \in Ports, NEW new \in Port, Commit(w, op, p, new),
         pc[w] = "idle" \/ (pc[w] = "authorize" /\ hook[w].port = p),
         live' = IF op = "delete" THEN live \ {p} ELSE live \cup {p},
         op = "delete" => new = port[p]
  PROVE  RInv'
  <1> DEFINE h == [op |-> op, port |-> p, old |-> port[p].name, state |-> new]
  <1>1. /\ h \in Hook /\ h.op = op /\ h.port = p /\ h.old = port[p].name /\ h.state = new
        /\ h # NoHook /\ new.name \in Names \cup {NoName}
    BY PortHooksAssumption DEF RInv, IInv, TypeOK, Hook, Port
  <1>2. /\ Begin(w, h) /\ Watch(w, h)
        /\ port' = [port EXCEPT ![p] = new] /\ UNCHANGED <<records, botched>>
    BY DEF Commit
  <1> HIDE DEF h
  <1>3. /\ pc'[w] = DropFirst(h) /\ left'[w] = new.ips /\ hits'[w] = {}
        /\ hook'[w] = IF DropFirst(h) = "idle" THEN NoHook ELSE h
        /\ \A x \in Threads \ {w} :
              pc'[x] = pc[x] /\ hook'[x] = hook[x] /\ left'[x] = left[x] /\ hits'[x] = hits[x]
        /\ port'[p] = new /\ \A q \in Ports \ {p} : port'[q] = port[q]
    BY <1>1, <1>2 DEF Begin, RInv, IInv, TypeOK, DnsTypeOK
  <1>4. /\ DropFirst(h) \in {"find", "look", "subnets", "idle"}
        /\ DropFirst(h) = "idle" => op = "delete"
    BY <1>1, DropFirstTypes
  <1>5. live \subseteq Ports /\ live' \subseteq Ports
    BY DEF RInv, IInv, TypeOK
  <1>6. ASSUME NEW n \in Calm'
        PROVE  /\ n \in Names /\ n \in Calm
               /\ n \in NamesOf(h) =>
                    /\ \A x \in Threads \ {w} : ~ AtWork(x, n)
                    /\ \A q \in live \ {p} : port[q].name # n
               /\ new.name = n => n \in NamesOf(h)
               /\ port[p].name = n => n \in NamesOf(h)
    BY <1>1, <1>2, WatchCalm, DnsAssumption DEF Calm, Watch, NamesOf
  <1>7. ASSUME NEW x \in Threads, NEW n, AtWork(x, n)'
        PROVE  \/ x = w /\ hook'[w] = h /\ n \in NamesOf(h)
               \/ x # w /\ AtWork(x, n) /\ hook'[x] = hook[x]
    BY <1>3, <1>7 DEF AtWork
  <1>8. OneOwner'
    <2> SUFFICES ASSUME NEW n \in Calm'
                 PROVE  /\ \A x, y \in Threads : AtWork(x, n)' /\ AtWork(y, n)' => x = y
                        /\ \A q, r \in live' : port'[q].name = n /\ port'[r].name = n => q = r
                        /\ \A x \in Threads, q \in live' :
                              AtWork(x, n)' /\ port'[q].name = n => hook'[x].port = q
      BY DEF OneOwner
    <2>1. ASSUME NEW q \in live', port'[q].name = n
          PROVE  \/ q = p /\ n \in NamesOf(h)
                 \/ q # p /\ q \in live /\ port[q].name = n
      BY <1>3, <1>5, <1>6, <2>1
    <2> QED BY <1>1, <1>6, <1>7, <2>1 DEF RInv, OneOwner
  <1>9. Current'
    <2> SUFFICES ASSUME NEW n \in Calm', NEW x \in Threads, AtWork(x, n)'
                 PROVE  LET g == hook'[x] IN
                          /\ g.port \in live' /\ port'[g.port].name = n =>
                                g.op # "delete" /\ g.state.name = n /\ g.state.ips = port'[g.port].ips
                          /\ g.op # "delete" /\ g.state.name = n =>
                                g.port \in live' /\ port'[g.port].name = n
      BY DEF Current
    <2>1. CASE x = w
      BY <1>1, <1>3, <1>7, <2>1
    <2>2. CASE x # w
      <3>1. AtWork(x, n) /\ hook'[x] = hook[x] /\ n \in Calm /\ n \notin NamesOf(h)
        BY <1>6, <1>7, <2>2
      <3>2. CASE hook[x].port = p
        BY <1>3, <1>6, <3>1, <3>2 DEF RInv, Current
      <3>3. CASE hook[x].port # p
        BY <1>3, <1>5, <3>1, <3>3 DEF RInv, Current
      <3> QED BY <3>2, <3>3
    <2> QED BY <2>1, <2>2
  <1>10. pc'[w] \in {"find", "look"} => Enabled
    BY <1>3 DEF DropFirst, KeepFirst, DnsOver
  <1>11. Switched'
    BY <1>2, <1>3, <1>4, <1>10 DEF RInv, Switched
  <1>12. Held'
    BY <1>2, <1>3 DEF RInv, Held, Sought
  <1>13. Remaining'
    BY <1>1, <1>3, <1>4 DEF RInv, Remaining
  <1>14. ASSUME NEW n \in Calm' \ botched'
         PROVE  NameOK(n)'
    <2>1. n \in Names /\ n \in Calm /\ NameOK(n)
      BY <1>2, <1>6 DEF RInv, NameInv
    <2>2. Named(n)' = Named(n) /\ \A ips : Recorded(n, ips)' <=> Recorded(n, ips)
      BY <1>2 DEF Named, Recorded
    <2>3. Single(n)'
      BY <2>1, <2>2 DEF NameOK, Single
    <2>4. ASSUME NEW x \in Threads \ {w}
          PROVE  Seen(x, n)' /\ Progressed(x, n)'
      <3>1. Seen(x, n) /\ Progressed(x, n)
        BY <2>1 DEF NameOK
      <3>2. Recorded(n, hook[x].state.ips)' <=> Recorded(n, hook[x].state.ips)
        BY <1>2, <1>3 DEF Recorded, Named
      <3> QED BY <1>3, <2>2, <3>1, <3>2 DEF Seen, Progressed
    <2>5. Seen(w, n)' /\ Progressed(w, n)'
      <3>1. Seen(w, n)'
        BY <1>3, <1>4 DEF Seen
      <3>2. DropFirst(h) = "subnets" /\ Enabled /\ Keep(h) = n => new.ips = <<>>
        BY <1>1, <2>1, DnsAssumption DEF DropFirst, KeepFirst
      <3>3. Progressed(w, n)'
        BY <1>1, <1>3, <1>4, <3>2 DEF Progressed
      <3> QED BY <3>1, <3>3
    <2>6. Resolves(n)'
      <3> SUFFICES ASSUME Enabled, NEW q \in live', port'[q].name = n, port'[q].ips # <<>>,
                          \A x \in Threads : hook'[x] # NoHook => Keep(hook'[x]) # n
                   PROVE  Recorded(n, port[q].ips)'
        BY DEF Resolves
      <3>1. q # p
        <4>1. ASSUME q = p
              PROVE  FALSE
          <5>1. op # "delete" /\ hook'[w] = h /\ new.name = n
            BY <1>3, <1>4, <4>1
          <5> QED BY <1>1, <5>1 DEF Keep
        <4> QED BY <4>1
      <3>2. q \in live /\ port'[q] = port[q]
        BY <1>3, <1>5, <3>1
      <3>3. ASSUME NEW x \in Threads, hook[x] # NoHook, Keep(hook[x]) = n
            PROVE  FALSE
        <4>1. x = w /\ pc[w] = "authorize"
          BY <1>3, <3>3 DEF RInv, IInv, TypeOK
        <4>2. hook[w].port = q
          BY <2>1, <3>2, <3>3, <4>1, PortOfName DEF RInv, OneOwner
        <4> QED BY <3>1, <4>1, <4>2
      <3>4. Recorded(n, port[q].ips)
        BY <2>1, <3>2, <3>3 DEF NameOK, Resolves
      <3> QED BY <1>2, <3>2, <3>4 DEF Recorded, Named
    <2>7. Wanted(n)'
      <3> SUFFICES ASSUME Named(n) # {}
                   PROVE  \/ \E q \in live' : port'[q].name = n
                          \/ \E x \in Threads : pc'[x] \in {"find", "delete"} /\ Drop(hook'[x]) = n
        BY <2>2 DEF Wanted
      <3>1. CASE \E x \in Threads : pc[x] \in {"find", "delete"} /\ Drop(hook[x]) = n
        BY <1>3, <3>1
      <3>2. ASSUME NEW q \in live, port[q].name = n, q # p
            PROVE  q \in live' /\ port'[q].name = n
        BY <1>3, <1>5, <3>2
      <3>3. CASE p \in live /\ port[p].name = n
        <4>1. Enabled
          BY DEF RInv, Switched, Named
        <4>2. CASE op # "delete" /\ new.name = n
          BY <1>3, <4>2
        <4>3. CASE op = "delete" \/ new.name # n
          <5>1. Drop(h) = n
            BY <1>1, <3>3, <4>3 DEF Drop
          <5>2. DropFirst(h) = "find"
            BY <2>1, <4>1, <5>1, DnsAssumption DEF DropFirst
          <5> QED BY <1>3, <5>1, <5>2
        <4> QED BY <4>2, <4>3
      <3> QED BY <2>1, <3>1, <3>2, <3>3 DEF NameOK, Wanted
    <2> QED BY <2>3, <2>4, <2>5, <2>6, <2>7 DEF NameOK
  <1>15. NameInv'
    BY <1>14 DEF NameInv
  <1> QED BY <1>8, <1>9, <1>11, <1>12, <1>13, <1>15 DEF RInv

-----------------------------------------------------------------------------
LEMMA HookStepNames ==
  ASSUME RInv, IInv', NEW w \in Threads, HookStep(w)
  PROVE  RInv'
  <1>1. CASE DnsWork(w)
    BY <1>1, FindNames, DeleteNames, LookNames, WriteNames DEF DnsWork, DnsStep, dbVars
  <1>2. CASE Subnets(w)
    <2>1. pc[w] = "subnets" /\ UNCHANGED <<records, left, hits, botched, live, port, contended>>
      BY <1>2 DEF Subnets, AuthorizeFailed, AuthorizeOver, dbVars
    <2>2. Goto(w, "idle") \/ Goto(w, "authorize")
      BY <1>2 DEF Subnets, AuthorizeFailed, AuthorizeOver
    <2> QED BY <2>1, <2>2, QuietNames
  <1>3. CASE Authorize(w)
    <2> DEFINE h == hook[w]
    <2>1. pc[w] = "authorize" /\ h \in Hook /\ h.port \in Ports /\ h.state \in Port /\ port[h.port] \in Port
      BY <1>3, HookTypes DEF Authorize, RInv, IInv, TypeOK
    <2>2. CASE /\ h.port \in live /\ Commit(w, "update", h.port, Authorized(h))
               /\ UNCHANGED live
      <3>1. NewPairs(h.port, h.state) \subseteq Addrs
        BY <2>1, NewPairsTypes
      <3>2. Authorized(h) \in Port
        BY <2>1, <3>1 DEF Authorized, Port
      <3>3. live' = IF "update" = "delete" THEN live \ {h.port} ELSE live \cup {h.port}
        BY <2>2
      <3> QED BY <2>1, <2>2, <3>2, <3>3, CommitNames
    <2>3. CASE AuthorizeOver(w) /\ UNCHANGED <<records, botched, live, port, contended>>
      BY <2>1, <2>3, QuietNames DEF AuthorizeOver
    <2> QED BY <1>3, <2>2, <2>3 DEF Authorize, AuthorizeFailed, dbVars
  <1> QED BY <1>1, <1>2, <1>3 DEF HookStep

LEMMA UserNames ==
  ASSUME RInv, IInv', NEW w \in Threads, NEW p \in Ports,
         \/ \E new \in Settings[p] :
               CreatePort(w, p, new) \/ \E named \in BOOLEAN : UpdatePort(w, p, new, named)
         \/ DeletePort(w, p)
  PROVE  RInv'
  <1>1. port[p] \in Port
    BY DEF RInv, IInv, TypeOK
  <1>2. ASSUME NEW new \in Settings[p], CreatePort(w, p, new)
        PROVE  RInv'
    <2>1. new \in Port
      BY PortHooksAssumption
    <2>2. /\ Commit(w, "create", p, new) /\ pc[w] = "idle"
          /\ live' = IF "create" = "delete" THEN live \ {p} ELSE live \cup {p}
      BY <1>2 DEF CreatePort, UserStep
    <2> QED BY <2>1, <2>2, CommitNames
  <1>3. ASSUME NEW new \in Settings[p], NEW named \in BOOLEAN, UpdatePort(w, p, new, named)
        PROVE  RInv'
    <2> DEFINE changed == IF named THEN new ELSE [new EXCEPT !.pairs = port[p].pairs]
    <2>1. new \in Port
      BY PortHooksAssumption
    <2>2. changed \in Port
      BY <1>1, <2>1 DEF Port
    <2>3. /\ Commit(w, "update", p, changed) /\ pc[w] = "idle"
          /\ live' = IF "update" = "delete" THEN live \ {p} ELSE live \cup {p}
      BY <1>3 DEF UpdatePort, UserStep
    <2> HIDE DEF changed
    <2> QED BY <2>2, <2>3, CommitNames
  <1>4. CASE DeletePort(w, p)
    <2>1. /\ Commit(w, "delete", p, port[p]) /\ pc[w] = "idle"
          /\ live' = IF "delete" = "delete" THEN live \ {p} ELSE live \cup {p}
      BY <1>4 DEF DeletePort, UserStep
    <2> QED BY <1>1, <2>1, CommitNames
  <1> QED BY <1>2, <1>3, <1>4

LEMMA InitNames == Init => RInv
  <1> SUFFICES ASSUME Init PROVE RInv
    OBVIOUS
  <1> USE DEF Init, DnsInit
  <1>1. IInv
    BY InitInv
  <1>2. OneOwner /\ Current /\ Switched /\ Held /\ Remaining
    BY DEF OneOwner, AtWork, Current, Switched, Held, Remaining
  <1>3. NameInv
    BY DEF NameInv, NameOK, Single, Seen, Progressed, Resolves, Wanted, Named
  <1> QED BY <1>1, <1>2, <1>3 DEF RInv

LEMMA NextNames == RInv /\ [Next]_vars => RInv'
  <1> SUFFICES ASSUME RInv, [Next]_vars PROVE RInv'
    OBVIOUS
  <1>1. IInv'
    BY NextInv DEF RInv
  <1>2. CASE UNCHANGED vars
    <2> USE <1>2 DEF vars
    <2>1. OneOwner' /\ Current' /\ Switched' /\ Held' /\ Remaining'
      BY DEF RInv, OneOwner, AtWork, Current, Switched, Held, Sought, Remaining, Calm
    <2>2. NameInv'
      BY DEF RInv, NameInv, NameOK, Single, Seen, Progressed, Recorded, Resolves, Wanted, Named, Calm
    <2> QED BY <1>1, <2>1, <2>2 DEF RInv
  <1>3. CASE Next
    <2>1. PICK w \in Threads :
             \/ HookStep(w) \/ Die(w)
             \/ \E p \in Ports :
                   \/ \E new \in Settings[p] :
                         \/ CreatePort(w, p, new)
                         \/ \E named \in BOOLEAN : UpdatePort(w, p, new, named)
                   \/ DeletePort(w, p)
      BY <1>3 DEF Next
    <2> QED BY <1>1, <2>1, HookStepNames, DieNames, UserNames
  <1> QED BY <1>2, <1>3

LEMMA NamesInvariance == Spec => []RInv
  BY InitNames, NextNames, PTL DEF Spec

(* configuration.rst: when no hook runs, the name of a live port with an    *)
(* address has exactly one record, with one of the port's addresses, if no  *)
(* request for the name failed and nobody else had the name at a time; how  *)
(* hooks of other names overlapped, failed or died does not matter.         *)
THEOREM PortNamesResolve == Spec => []NamesResolve
  <1>1. RInv => NamesResolve
    <2> SUFFICES ASSUME RInv, Idle, Enabled, NEW p \in live,
                        port[p].name # NoName, Settled(port[p].name), port[p].ips # <<>>
                 PROVE  Recorded(port[p].name, port[p].ips)
      BY DEF NamesResolve, Recorded
    <2>1. \A w \in Threads : hook[w] = NoHook
      BY DEF RInv, IInv, TypeOK, Idle
    <2>2. port[p].name \in Calm \ botched
      BY DEF RInv, IInv, TypeOK, Port, Calm, Settled
    <2> QED BY <2>1, <2>2 DEF RInv, NameInv, NameOK, Resolves
  <1> QED BY <1>1, NamesInvariance, PTL

(* delete_port_dns_records: when no hook runs, a name with a record is the  *)
(* name of a live port, with the same provisos.                             *)
THEOREM NoneStale == Spec => []NoStaleRecords
  <1>1. RInv => NoStaleRecords
    <2> SUFFICES ASSUME RInv, Idle, NEW n \in Names, Settled(n), Named(n) # {}
                 PROVE  \E p \in live : port[p].name = n
      BY DEF NoStaleRecords
    <2>1. n \in Calm \ botched
      BY DEF Calm, Settled
    <2> QED BY <2>1 DEF RInv, NameInv, NameOK, Wanted, Idle
  <1> QED BY <1>1, NamesInvariance, PTL
=============================================================================

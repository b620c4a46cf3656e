--------------------------- MODULE PoolLockProofs ---------------------------
(***************************************************************************)
(* PoolLock for every number of threads and every size of the pool: types,  *)
(* the limit on the threads inside, and the lock that counts which it       *)
(* implements.                                                              *)
(***************************************************************************)
EXTENDS PoolLock, FiniteSetTheorems, TLAPS

(* Threads inside whose lock is their own, and the others inside.           *)
Holders == {w \in Threads : Holds(w)}
Strays == Inside \ Holders

(* With a coordinator, a thread inside was given a lock, and it has lost it *)
(* only if the coordinator gave it away.                                    *)
HasLock == Coordinated => \A w \in Threads : pc[w] = "in" => lock[w] \in Names
StraysEvicted == Coordinated => IsFiniteSet(Strays) /\ Cardinality(Strays) <= evictions

IInv == TypeOK /\ HasLock /\ StraysEvicted

LEMMA InitInv == Init => IInv
  <1> SUFFICES ASSUME Init PROVE IInv
    OBVIOUS
  <1>1. TypeOK /\ HasLock
    BY PoolLockAssumption DEF Init, TypeOK, HasLock, Names, Exhausted
  <1>2. Strays = {}
    BY DEF Init, Strays, Inside
  <1> QED BY <1>1, <1>2, FS_EmptySet DEF IInv, StraysEvicted, Init

-----------------------------------------------------------------------------
(* Types.                                                                   *)

LEMMA EnterTypes ==
  ASSUME TypeOK, NEW w \in Threads, Enter(w)
  PROVE  TypeOK'
  <1> USE PoolLockAssumption DEF Enter
  <1>1. Start(w) \in 0..Size
    BY DEF TypeOK, Start
  <1>2. /\ pc' \in [Threads -> {"out", "trying", "in"}]
        /\ given' \in [Threads -> 0..Size] /\ first' \in [Threads -> 0..Size]
        /\ turn' \in [Threads -> 0..Size]
        /\ lock' \in [Threads -> Names \cup {NoLock}]
        /\ owner' \in [Names -> Threads \cup {NoThread, Dead}]
        /\ entries' \in [Threads -> 0..MaxEntries] /\ faults' \in 0..MaxFaults
        /\ evictions' \in 0..MaxEvictions
    BY <1>1 DEF TypeOK
  <1>3. ASSUME NEW x \in Threads, pc'[x] = "trying", ~ Exhausted(x)'
        PROVE  turn'[x] \in Names
    <2>1. CASE x = w
      BY <1>1, <1>3, <2>1 DEF TypeOK, Exhausted, Names
    <2>2. CASE x # w
      BY <1>3, <2>2 DEF TypeOK, Exhausted
    <2> QED BY <2>1, <2>2
  <1> QED BY <1>2, <1>3 DEF TypeOK

(* The next name, for a thread that is trying and has one.                  *)
LEMMA NextNameTypes ==
  ASSUME TypeOK, NEW w \in Threads, pc[w] = "trying", ~ Exhausted(w), NextName(w)
  PROVE  /\ turn' \in [Threads -> 0..Size] /\ turn'[w] \in Names
         /\ given' \in [Threads -> 0..Size]
         /\ \A x \in Threads \ {w} : turn'[x] = turn[x]
  <1> USE PoolLockAssumption
  <1>1. turn[w] \in Names /\ first[w] \in Names
    BY DEF TypeOK, Exhausted, Names
  <1>2. NextTurn(w) \in Names /\ turn[w] + 1 \in 0..Size
    BY <1>1 DEF NextTurn, Names
  <1> QED BY <1>1, <1>2 DEF TypeOK, NextName, Names

LEMMA GrabTypes ==
  ASSUME TypeOK, NEW w \in Threads, Grab(w)
  PROVE  TypeOK'
  <1>1. turn[w] \in Names
    BY DEF Grab, TypeOK
  <1> QED BY <1>1, NextNameTypes DEF Grab, Take, TypeOK, Exhausted

(* What a call that gives no lock, or is not known to, does to each part.   *)
LEMMA MissParts ==
  ASSUME TypeOK, NEW w \in Threads, Miss(w)
  PROVE  /\ pc[w] = "trying" /\ pc'[w] \in {"trying", "out"}
         /\ pc' \in [Threads -> {"out", "trying", "in"}]
         /\ \A x \in Threads \ {w} : pc'[x] = pc[x]
         /\ faults' \in 0..MaxFaults /\ lock' = lock
         /\ \/ owner' = owner
            \/ turn[w] \in Names /\ owner[turn[w]] = NoThread /\ Take(w, turn[w])
  BY PoolLockAssumption DEF TypeOK, Miss, Fault, Grabbed

LEMMA MissTypes ==
  ASSUME TypeOK, NEW w \in Threads, Miss(w)
  PROVE  TypeOK'
  <1>1. owner' \in [Names -> Threads \cup {NoThread, Dead}]
    BY MissParts DEF TypeOK, Take
  <1>2. CASE Exhausted(w) /\ UNCHANGED <<turn, given>>
    BY <1>1, <1>2, MissParts DEF TypeOK, Exhausted, Miss
  <1>3. CASE ~ Exhausted(w) /\ NextName(w)
    BY <1>1, <1>3, MissParts, NextNameTypes DEF TypeOK, Exhausted, Miss
  <1> QED BY <1>2, <1>3 DEF Miss

LEMMA ExitTypes ==
  ASSUME TypeOK, NEW w \in Threads, Exit(w)
  PROVE  TypeOK'
  <1>1. faults' \in 0..MaxFaults
    BY PoolLockAssumption DEF TypeOK, Exit, Fault
  <1>2. owner' \in [Names -> Threads \cup {NoThread, Dead}]
    BY DEF TypeOK, Exit, Released
  <1> QED BY <1>1, <1>2 DEF TypeOK, Exit, Exhausted

LEMMA DieTypes ==
  ASSUME TypeOK, NEW w \in Threads, Die(w)
  PROVE  TypeOK'
  <1>1. faults' \in 0..MaxFaults
    BY PoolLockAssumption DEF TypeOK, Die, Fault
  <1>2. owner' \in [Names -> Threads \cup {NoThread, Dead}]
    BY DEF TypeOK, Die
  <1> QED BY <1>1, <1>2 DEF TypeOK, Die, Exhausted

LEMMA FreeTypes ==
  ASSUME TypeOK, NEW n \in Names, Expire(n) \/ Evict(n)
  PROVE  TypeOK'
  <1>1. evictions' \in 0..MaxEvictions
    BY PoolLockAssumption DEF TypeOK, Expire, Evict
  <1>2. owner' \in [Names -> Threads \cup {NoThread, Dead}]
    BY DEF TypeOK, Expire, Evict, Free
  <1> QED BY <1>1, <1>2 DEF TypeOK, Expire, Evict, Exhausted

LEMMA TypesKept == TypeOK /\ Next => TypeOK'
  BY EnterTypes, GrabTypes, MissTypes, ExitTypes, DieTypes, FreeTypes DEF Next

-----------------------------------------------------------------------------
(* What each step does to holders and to orphaned names.                    *)

Orphans == {n \in Names : Orphaned(n)}

(* The step is w's business: no other thread gains or loses anything.       *)
OthersKept(w) ==
    \A x \in Threads \ {w} :
       pc'[x] = pc[x] /\ lock'[x] = lock[x] /\ (Holds(x)' <=> Holds(x))

LEMMA EnterMoves ==
  ASSUME IInv, Coordinated, NEW w \in Threads, Enter(w)
  PROVE  /\ OthersKept(w) /\ pc[w] = "out" /\ pc'[w] = "trying"
         /\ ~ Holds(w) /\ ~ Holds(w)' /\ Orphans' = Orphans
  <1>1. OthersKept(w) /\ pc[w] = "out" /\ pc'[w] = "trying" /\ ~ Holds(w) /\ ~ Holds(w)'
    BY DEF IInv, TypeOK, Enter, OthersKept, Holds
  <1>2. owner' = owner
    BY DEF Enter
  <1> QED BY <1>1, <1>2 DEF OthersKept, Orphans, Orphaned

LEMMA GrabMoves ==
  ASSUME IInv, Coordinated, NEW w \in Threads, Grab(w)
  PROVE  /\ OthersKept(w) /\ pc[w] = "trying" /\ pc'[w] = "in"
         /\ lock'[w] \in Names /\ owner[lock'[w]] = NoThread
         /\ ~ Holds(w) /\ Holds(w)' /\ Orphans' = Orphans
  <1> USE PoolLockAssumption
  <1>1. turn[w] \in Names /\ owner[turn[w]] = NoThread /\ owner' = [owner EXCEPT ![turn[w]] = w]
    BY DEF IInv, TypeOK, Grab, Grabbed, Take
  <1>2. /\ pc[w] = "trying" /\ pc'[w] = "in" /\ lock'[w] = turn[w]
        /\ ~ Holds(w) /\ Holds(w)'
    BY <1>1 DEF IInv, TypeOK, Grab, Holds
  <1>3. OthersKept(w)
    <2> SUFFICES ASSUME NEW x \in Threads \ {w}
                 PROVE  pc'[x] = pc[x] /\ lock'[x] = lock[x] /\ (Holds(x)' <=> Holds(x))
      BY DEF OthersKept
    <2>1. pc'[x] = pc[x] /\ lock'[x] = lock[x]
      BY DEF IInv, TypeOK, Grab
    <2>2. pc[x] = "in" => lock[x] \in Names
      BY DEF IInv, HasLock
    <2>3. pc[x] = "in" => (owner'[lock[x]] = x <=> owner[lock[x]] = x)
      BY <1>1, <2>2 DEF IInv, TypeOK
    <2> QED BY <2>1, <2>3 DEF Holds
  <1>4. ASSUME NEW n \in Names
        PROVE  Orphaned(n)' <=> Orphaned(n)
    <2>1. CASE n = turn[w]
      BY <1>1, <1>2, <2>1 DEF Orphaned
    <2>2. CASE n # turn[w]
      BY <1>1, <1>2, <1>3, <2>2 DEF Orphaned, OthersKept, IInv, TypeOK
    <2> QED BY <2>1, <2>2
  <1> QED BY <1>1, <1>2, <1>3, <1>4 DEF Orphans

(* An answer that is lost may orphan a name that was free.                  *)
LEMMA MissMoves ==
  ASSUME IInv, Coordinated, NEW w \in Threads, Miss(w)
  PROVE  /\ OthersKept(w) /\ pc[w] = "trying" /\ pc'[w] \in {"trying", "out"}
         /\ ~ Holds(w) /\ ~ Holds(w)'
         /\ \/ Orphans' = Orphans
            \/ \E n \in Names : owner[n] = NoThread /\ Orphans' = Orphans \cup {n}
  <1> USE PoolLockAssumption
  <1>0. /\ pc[w] = "trying" /\ pc'[w] \in {"trying", "out"} /\ lock' = lock
        /\ \A x \in Threads \ {w} : pc'[x] = pc[x]
        /\ ~ Holds(w) /\ ~ Holds(w)'
    BY MissParts DEF IInv, Holds
  <1>1. CASE owner' = owner
    <2>1. OthersKept(w)
      BY <1>0, <1>1 DEF OthersKept, Holds
    <2> QED BY <1>0, <1>1, <2>1 DEF Orphans, Orphaned, OthersKept
  <1>2. CASE turn[w] \in Names /\ owner[turn[w]] = NoThread /\ Take(w, turn[w])
    <2>0. PICK n \in Names : n = turn[w]
      BY <1>2
    <2>1. owner[n] = NoThread /\ owner' = [owner EXCEPT ![n] = w]
      BY <1>2, <2>0 DEF Take
    <2>2. OthersKept(w)
      <3> SUFFICES ASSUME NEW x \in Threads \ {w}
                   PROVE  Holds(x)' <=> Holds(x)
        BY <1>0 DEF OthersKept
      <3>1. pc[x] = "in" => lock[x] \in Names
        BY DEF IInv, HasLock
      <3>2. pc[x] = "in" => (owner'[lock[x]] = x <=> owner[lock[x]] = x)
        BY <2>1, <3>1 DEF IInv, TypeOK
      <3> QED BY <1>0, <3>2 DEF Holds
    <2>3. Orphaned(n)'
      <3>1. ASSUME NEW x \in Threads, Holds(x)', lock'[x] = n
            PROVE  FALSE
        <4>1. owner'[n] = x
          BY <3>1 DEF Holds
        <4>2. x = w
          BY <2>1, <4>1 DEF IInv, TypeOK
        <4> QED BY <1>0, <3>1, <4>2
      <3>2. owner'[n] # NoThread
        BY <2>1 DEF IInv, TypeOK
      <3> QED BY <3>1, <3>2 DEF Orphaned
    <2>4. ASSUME NEW m \in Names, m # n
          PROVE  Orphaned(m)' <=> Orphaned(m)
      BY <1>0, <2>1, <2>2, <2>4 DEF Orphaned, OthersKept, IInv, TypeOK
    <2>5. Orphans' = Orphans \cup {n}
      BY <2>3, <2>4 DEF Orphans
    <2> QED BY <1>0, <2>1, <2>2, <2>5
  <1> QED BY <1>1, <1>2, MissParts DEF IInv

(* A thread that leaves gives its lock back, or orphans it.                 *)
LEMMA LeaveMoves ==
  ASSUME IInv, Coordinated, NEW w \in Threads, Exit(w) \/ Die(w)
  PROVE  /\ OthersKept(w) /\ pc'[w] = "out" /\ ~ Holds(w)'
         /\ \/ Orphans' = Orphans
            \/ Holds(w) /\ lock[w] \in Names /\ Orphans' = Orphans \cup {lock[w]}
  <1> USE PoolLockAssumption
  <1>0. /\ pc'[w] = "out" /\ ~ Holds(w)' /\ lock' = lock
        /\ \A x \in Threads \ {w} : pc'[x] = pc[x]
    BY DEF Exit, Die, IInv, TypeOK, Holds
  <1>1. ASSUME NEW n \in Names
        PROVE  \/ owner'[n] = owner[n]
               \/ Exit(w) /\ n = lock[w] /\ owner[n] = w /\ owner'[n] = NoThread
               \/ Die(w) /\ owner[n] = w /\ owner'[n] = Dead
    BY DEF Exit, Die, Released, IInv, TypeOK
  <1>2. OthersKept(w)
    <2> SUFFICES ASSUME NEW x \in Threads \ {w}
                 PROVE  Holds(x)' <=> Holds(x)
      BY <1>0 DEF OthersKept
    <2>1. pc[x] = "in" => lock[x] \in Names
      BY DEF IInv, HasLock
    <2>2. pc[x] = "in" => (owner'[lock[x]] = x <=> owner[lock[x]] = x)
      BY <1>1, <2>1
    <2> QED BY <1>0, <2>2 DEF Holds
  <1>3. pc[w] = "in" => lock[w] \in Names
    BY DEF IInv, HasLock
  <1>4. ASSUME NEW n \in Names, ~ (Holds(w) /\ n = lock[w])
        PROVE  Orphaned(n)' <=> Orphaned(n)
    <2>1. owner'[n] = NoThread <=> owner[n] = NoThread
      BY <1>1, <1>4 DEF Exit, Holds, IInv, TypeOK
    <2> QED BY <1>0, <1>2, <1>4, <2>1 DEF Orphaned, OthersKept
  <1>5. Holds(w) => ~ Orphaned(lock[w])
    BY DEF Orphaned
  <1>6. \/ Orphans' = Orphans
        \/ Holds(w) /\ lock[w] \in Names /\ Orphans' = Orphans \cup {lock[w]}
    <2>1. CASE ~ Holds(w)
      BY <1>4, <2>1 DEF Orphans
    <2>2. CASE Holds(w)
      <3>1. lock[w] \in Names
        BY <1>3, <2>2 DEF Holds
      <3> QED BY <1>4, <1>5, <2>2, <3>1 DEF Orphans
    <2> QED BY <2>1, <2>2
  <1> QED BY <1>0, <1>2, <1>6

(* A name that is given away was orphaned, or its holder strays from now on.*)
LEMMA FreeMoves ==
  ASSUME IInv, Coordinated, NEW n \in Names, Expire(n) \/ Evict(n)
  PROVE  /\ UNCHANGED <<pc, lock>>
         /\ \/ /\ n \in Orphans /\ Orphans' = Orphans \ {n}
               /\ \A x \in Threads : Holds(x)' <=> Holds(x)
            \/ /\ Evict(n) /\ Orphans' = Orphans
               /\ \E w \in Threads : Holds(w) /\ ~ Holds(w)' /\ OthersKept(w)
  <1> USE PoolLockAssumption
  <1>0. /\ UNCHANGED <<pc, lock>> /\ owner' = [owner EXCEPT ![n] = NoThread]
        /\ owner[n] # NoThread
    BY DEF Expire, Evict, Free
  <1>1. ASSUME NEW x \in Threads
        PROVE  Holds(x)' <=> Holds(x) /\ lock[x] # n
    <2>1. pc[x] = "in" => lock[x] \in Names
      BY DEF IInv, HasLock
    <2>2. pc[x] = "in" => (owner'[lock[x]] = x <=> owner[lock[x]] = x /\ lock[x] # n)
      BY <1>0, <2>1 DEF IInv, TypeOK
    <2> QED BY <1>0, <2>2 DEF Holds
  <1>2. ~ Orphaned(n)'
    BY <1>0 DEF Orphaned, IInv, TypeOK
  <1>3. ASSUME NEW m \in Names, m # n
        PROVE  Orphaned(m)' <=> Orphaned(m)
    BY <1>0, <1>1, <1>3 DEF Orphaned, IInv, TypeOK
  <1>4. Orphans' = Orphans \ {n}
    BY <1>2, <1>3 DEF Orphans
  <1>5. CASE Orphaned(n)
    BY <1>0, <1>1, <1>4, <1>5 DEF Orphans, Orphaned
  <1>6. CASE ~ Orphaned(n)
    <2>1. PICK w \in Threads : Holds(w) /\ lock[w] = n
      BY <1>0, <1>6 DEF Orphaned
    <2>2. Evict(n)
      BY <2>1 DEF Expire, Holds
    <2>3. \A x \in Threads \ {w} : Holds(x) => lock[x] # n
      BY <2>1 DEF Holds
    <2>4. OthersKept(w)
      BY <1>0, <1>1, <2>3 DEF OthersKept
    <2>5. Orphans' = Orphans
      BY <1>4, <1>6 DEF Orphans
    <2> QED BY <1>0, <1>1, <2>1, <2>2, <2>4, <2>5
  <1> QED BY <1>5, <1>6

-----------------------------------------------------------------------------
(* The invariant holds.                                                     *)

LEMMA HasLockKept ==
  ASSUME IInv, Next
  PROVE  HasLock'
  <1> SUFFICES ASSUME Coordinated, NEW x \in Threads, pc'[x] = "in"
               PROVE  lock'[x] \in Names
    BY DEF HasLock
  <1>1. ASSUME NEW w \in Threads, OthersKept(w), pc'[w] \in {"trying", "out"}
        PROVE  lock'[x] \in Names
    BY <1>1 DEF OthersKept, IInv, HasLock
  <1>2. ASSUME NEW w \in Threads, Enter(w) \/ Miss(w) \/ Exit(w) \/ Die(w)
        PROVE  lock'[x] \in Names
    BY <1>1, <1>2, EnterMoves, MissMoves, LeaveMoves
  <1>3. ASSUME NEW w \in Threads, Grab(w)
        PROVE  lock'[x] \in Names
    BY <1>3, GrabMoves DEF OthersKept, IInv, HasLock
  <1>4. ASSUME NEW n \in Names, Expire(n) \/ Evict(n)
        PROVE  lock'[x] \in Names
    BY <1>4, FreeMoves DEF IInv, HasLock
  <1> QED BY <1>2, <1>3, <1>4 DEF Next

(* No more strays: every step but an eviction.                              *)
LEMMA StraysFewer ==
  ASSUME IInv, Coordinated, Strays' \subseteq Strays, UNCHANGED evictions
  PROVE  StraysEvicted'
  <1>1. IsFiniteSet(Strays) /\ Cardinality(Strays) <= evictions
    BY DEF IInv, StraysEvicted
  <1>2. IsFiniteSet(Strays') /\ Cardinality(Strays') <= Cardinality(Strays)
    BY <1>1, FS_Subset
  <1>3. Cardinality(Strays) \in Nat /\ Cardinality(Strays') \in Nat /\ evictions \in Nat
    BY <1>1, <1>2, FS_CardinalityType DEF IInv, TypeOK
  <1> QED BY <1>1, <1>2, <1>3 DEF StraysEvicted

LEMMA StraysKept ==
  ASSUME IInv, Next
  PROVE  StraysEvicted'
  <1>0. CASE ~ Coordinated
    BY <1>0 DEF StraysEvicted
  <1> SUFFICES ASSUME Coordinated PROVE StraysEvicted'
    BY <1>0
  <1>1. ASSUME NEW w \in Threads, OthersKept(w), pc'[w] \in {"trying", "out"} \/ Holds(w)',
               UNCHANGED evictions
        PROVE  StraysEvicted'
    <2>1. Strays' \subseteq Strays
      BY <1>1 DEF Strays, Holders, Inside, OthersKept
    <2> QED BY <1>1, <2>1, StraysFewer
  <1>2. ASSUME NEW w \in Threads, Enter(w) \/ Grab(w) \/ Miss(w) \/ Exit(w) \/ Die(w)
        PROVE  StraysEvicted'
    <2>1. UNCHANGED evictions
      BY <1>2 DEF Enter, Grab, Miss, Exit, Die
    <2> QED BY <1>1, <1>2, <2>1, EnterMoves, GrabMoves, MissMoves, LeaveMoves
  <1>3. ASSUME NEW n \in Names, Expire(n) \/ Evict(n)
        PROVE  StraysEvicted'
    <2>1. CASE \A x \in Threads : Holds(x)' <=> Holds(x)
      <3>1. Strays' = Strays
        BY <1>3, <2>1, FreeMoves DEF Strays, Holders, Inside
      <3>2. CASE Expire(n)
        BY <3>1, <3>2, StraysFewer DEF Expire
      <3>3. CASE Evict(n)
        <4>1. /\ Cardinality(Strays) <= evictions /\ IsFiniteSet(Strays)
              /\ Cardinality(Strays) \in Nat /\ evictions \in Nat /\ evictions' = evictions + 1
          BY <3>3, FS_CardinalityType DEF IInv, StraysEvicted, TypeOK, Evict
        <4> QED BY <3>1, <4>1 DEF StraysEvicted
      <3> QED BY <1>3, <3>2, <3>3
    <2>2. CASE /\ Evict(n)
               /\ \E w \in Threads : Holds(w) /\ ~ Holds(w)' /\ OthersKept(w)
      <3>1. PICK w \in Threads : Holds(w) /\ ~ Holds(w)' /\ OthersKept(w)
        BY <2>2
      <3>2. pc' = pc /\ w \in Inside
        BY <1>3, <3>1, FreeMoves DEF Inside, Holds
      <3>3. Strays' = Strays \cup {w} /\ w \notin Strays
        BY <3>1, <3>2 DEF Strays, Holders, Inside, OthersKept
      <3>4. IsFiniteSet(Strays') /\ Cardinality(Strays') = Cardinality(Strays) + 1
        BY <3>3, FS_AddElement DEF IInv, StraysEvicted
      <3>5. /\ Cardinality(Strays) <= evictions
            /\ Cardinality(Strays) \in Nat /\ evictions \in Nat /\ evictions' = evictions + 1
        BY <2>2, FS_CardinalityType DEF IInv, StraysEvicted, TypeOK, Evict
      <3> QED BY <3>4, <3>5 DEF StraysEvicted
    <2> QED BY <1>3, <2>1, <2>2, FreeMoves
  <1> QED BY <1>2, <1>3 DEF Next

LEMMA NextInv == IInv /\ [Next]_vars => IInv'
  <1> SUFFICES ASSUME IInv, [Next]_vars PROVE IInv'
    OBVIOUS
  <1>1. CASE UNCHANGED vars
    <2>1. TypeOK' /\ HasLock'
      BY <1>1 DEF vars, IInv, TypeOK, HasLock, Exhausted
    <2>2. Strays' = Strays /\ evictions' = evictions
      BY <1>1 DEF vars, Strays, Inside, Holders, Holds
    <2> QED BY <2>1, <2>2 DEF IInv, StraysEvicted
  <1>2. CASE Next
    BY <1>2, TypesKept, HasLockKept, StraysKept DEF IInv
  <1> QED BY <1>1, <1>2

LEMMA SpecInv == Spec => []IInv
  BY InitInv, NextInv, PTL DEF Spec

(* locking.py: every reachable state of the pool and of the PoolLock        *)
(* objects is well typed.                                                   *)
THEOREM TypeCorrect == Spec => []TypeOK
  <1>1. IInv => TypeOK
    BY DEF IInv
  <1> QED BY <1>1, SpecInv, PTL

-----------------------------------------------------------------------------
(* Counting.  A name is free, used by its holder, or orphaned.              *)

Taken == {n \in Names : owner[n] # NoThread}
Used == Taken \ Orphans

LEMMA NamesFinite == IsFiniteSet(Names) /\ Cardinality(Names) = Size
  <1>1. 0 \in Int /\ Size - 1 \in Int /\ ~ (0 > Size - 1) /\ (Size - 1) - 0 + 1 = Size
    BY PoolLockAssumption
  <1> QED BY <1>1, FS_Interval DEF Names

LEMMA UsedMatchesHolders ==
  ASSUME IInv, Coordinated
  PROVE  ExistsBijection(Used, Holders)
  <1> DEFINE f == [n \in Used |-> owner[n]]
  <1>1. \A n \in Used : owner[n] \in Holders /\ lock[owner[n]] = n
    BY DEF IInv, TypeOK, Holders, Used, Taken, Orphans, Orphaned, Holds
  <1>2. f \in Injection(Used, Holders)
    BY <1>1 DEF Injection, IsInjective
  <1>3. \A w \in Holders : lock[w] \in Used /\ f[lock[w]] = w
    BY PoolLockAssumption
    DEF IInv, HasLock, Holders, Used, Taken, Orphans, Orphaned, Holds
  <1>4. f \in Surjection(Used, Holders)
    BY <1>1, <1>3 DEF Surjection
  <1> QED BY <1>2, <1>4 DEF ExistsBijection, Bijection

LEMMA Counted ==
  ASSUME IInv, Coordinated
  PROVE  /\ IsFiniteSet(Holders) /\ IsFiniteSet(Orphans) /\ IsFiniteSet(Taken)
         /\ Cardinality(Holders) \in Nat /\ Cardinality(Orphans) \in Nat
         /\ Cardinality(Holders) + Cardinality(Orphans) = Cardinality(Taken)
         /\ Cardinality(Taken) <= Size
         /\ Taken # Names => Cardinality(Taken) < Size
  <1>1. /\ IsFiniteSet(Taken) /\ Cardinality(Taken) <= Size
        /\ Cardinality(Taken) = Size => Taken = Names
    BY NamesFinite, FS_Subset DEF Taken
  <1>2. IsFiniteSet(Orphans) /\ Orphans \subseteq Taken
    BY NamesFinite, FS_Subset DEF Orphans, Taken, Orphaned
  <1>3. /\ IsFiniteSet(Used)
        /\ Cardinality(Used) = Cardinality(Taken) - Cardinality(Orphans)
    BY <1>1, <1>2, FS_Difference, Taken \cap Orphans = Orphans DEF Used
  <1>4. IsFiniteSet(Holders) /\ Cardinality(Holders) = Cardinality(Used)
    BY <1>3, UsedMatchesHolders, FS_Bijection
  <1>5. /\ Cardinality(Taken) \in Nat /\ Cardinality(Orphans) \in Nat
        /\ Cardinality(Holders) \in Nat
    BY <1>1, <1>2, <1>4, FS_CardinalityType
  <1> QED BY <1>1, <1>2, <1>3, <1>4, <1>5, PoolLockAssumption

(* locking.py, configuration.rst: with a coordinator, at most               *)
(* locks_pool_size threads are inside a with statement, and one more for    *)
(* each lock given away under a live member; failed calls, lost answers,    *)
(* failed releases and deaths let nobody in.                                *)
THEOREM PoolLimits == Spec => []AtMostPoolSize
  <1>1. ASSUME IInv, Coordinated
        PROVE  Cardinality(Inside) <= Size + evictions
    <2>1. Inside = Holders \cup Strays /\ Holders \cap Strays = {}
      BY DEF Inside, Holders, Strays, Holds
    <2>2. IsFiniteSet(Strays) /\ Cardinality(Strays) <= evictions
      BY <1>1 DEF IInv, StraysEvicted
    <2>3. Cardinality(Inside) = Cardinality(Holders) + Cardinality(Strays)
      <3>1. IsFiniteSet(Holders) /\ Cardinality(Holders) \in Nat /\ Cardinality(Strays) \in Nat
        BY <1>1, <2>2, Counted, FS_CardinalityType
      <3>2. Cardinality(Holders \cup Strays)
               = Cardinality(Holders) + Cardinality(Strays) - Cardinality(Holders \cap Strays)
        BY <2>2, <3>1, FS_Union
      <3>3. Cardinality(Holders \cap Strays) = 0
        BY <2>1, FS_EmptySet
      <3> QED BY <2>1, <3>1, <3>2, <3>3
    <2>4. Cardinality(Strays) \in Nat /\ evictions \in Nat /\ Cardinality(Taken) \in Nat
      BY <1>1, <2>2, Counted, FS_CardinalityType DEF IInv, TypeOK
    <2> QED BY <1>1, <2>2, <2>3, <2>4, Counted, PoolLockAssumption
  <1>2. IInv => AtMostPoolSize
    BY <1>1 DEF AtMostPoolSize
  <1> QED BY <1>2, SpecInv, PTL

-----------------------------------------------------------------------------
(* The refinement: each step of a thread is a step of the lock that counts. *)

StageMap == [w \in Threads |-> Stage(w)]
Lost == Cardinality(Orphans)

(* What a thread's stage is.                                                *)
LEMMA StageIs ==
  ASSUME IInv, NEW w \in Threads
  PROVE  /\ pc[w] = "out" => Stage(w) = "out"
         /\ pc[w] = "trying" => Stage(w) = "waiting"
         /\ pc[w] = "in" /\ Holds(w) => Stage(w) = "in"
         /\ pc[w] = "in" /\ ~ Holds(w) => Stage(w) = "stray"
  BY DEF Stage

LEMMA InsideIsHolders ==
  ASSUME IInv
  PROVE  Counting!Inside = Holders
  <1>1. \A w \in Threads : StageMap[w] = Stage(w)
    BY DEF StageMap
  <1>2. \A w \in Threads : Stage(w) = "in" <=> Holds(w)
    BY StageIs DEF Holds, IInv, TypeOK
  <1> QED BY <1>1, <1>2 DEF Counting!Inside, Holders, StageMap

(* A step that is w's business moves w to another stage.                    *)
LEMMA StageMoves ==
  ASSUME IInv, NEW w \in Threads, OthersKept(w)
  PROVE  /\ StageMap[w] = Stage(w)
         /\ StageMap' = [StageMap EXCEPT ![w] = Stage(w)']
  <1>1. \A x \in Threads \ {w} : Stage(x)' = Stage(x)
    BY DEF OthersKept, Stage
  <1> QED BY <1>1 DEF StageMap

LEMMA SameCardinality == ASSUME NEW S PROVE Counting!Cardinality(S) = Cardinality(S)
  BY DEF Counting!Cardinality, Cardinality

(* When a name is free, so is a place.                                      *)
LEMMA PlaceIsFree ==
  ASSUME IInv, Coordinated, NEW n \in Names, owner[n] = NoThread
  PROVE  Counting!PlaceFree
  <1>1. Taken # Names
    BY DEF Taken
  <1>2. Cardinality(Holders) + Lost < Size
    BY <1>1, Counted, PoolLockAssumption DEF Lost
  <1> QED BY <1>2, InsideIsHolders, SameCardinality DEF Counting!PlaceFree, Lost, Orphans

LEMMA LostOneMore ==
  ASSUME IInv, Coordinated, NEW n, n \notin Orphans, Orphans' = Orphans \cup {n}
  PROVE  Lost' = Lost + 1
  BY Counted, FS_AddElement DEF Lost

LEMMA InitMaps == Init /\ Coordinated => Counting!Init
  <1> SUFFICES ASSUME Init, Coordinated PROVE Counting!Init
    OBVIOUS
  <1>1. Orphans = {}
    BY DEF Init, Orphans, Orphaned
  <1>2. Lost = 0
    BY <1>1, FS_EmptySet DEF Lost
  <1>3. \A w \in Threads : Stage(w) = "out"
    BY DEF Init, Stage
  <1> QED BY <1>2, <1>3 DEF Counting!Init, Lost, Orphans

LEMMA EnterMaps ==
  ASSUME IInv, IInv', Coordinated, NEW w \in Threads, Enter(w)
  PROVE  Counting!Ask(w)
  <1>1. Stage(w) = "out" /\ Stage(w)' = "waiting"
    BY EnterMoves DEF Stage
  <1>2. StageMap[w] = "out" /\ StageMap' = [StageMap EXCEPT ![w] = "waiting"]
    BY <1>1, EnterMoves, StageMoves
  <1>3. Lost' = Lost
    BY EnterMoves DEF Lost
  <1> QED BY <1>2, <1>3 DEF Counting!Ask, Counting!Move, StageMap, Lost, Orphans

LEMMA GrabMaps ==
  ASSUME IInv, IInv', Coordinated, NEW w \in Threads, Grab(w)
  PROVE  Counting!Enter(w)
  <1>1. Stage(w) = "waiting" /\ Stage(w)' = "in"
    BY GrabMoves DEF Stage
  <1>2. StageMap[w] = "waiting" /\ StageMap' = [StageMap EXCEPT ![w] = "in"]
    BY <1>1, GrabMoves, StageMoves
  <1>3. Lost' = Lost
    BY GrabMoves DEF Lost
  <1>4. Counting!PlaceFree
    BY GrabMoves, PlaceIsFree
  <1> QED BY <1>2, <1>3, <1>4 DEF Counting!Enter, Counting!Move, StageMap, Lost, Orphans

LEMMA MissMaps ==
  ASSUME IInv, IInv', Coordinated, NEW w \in Threads, Miss(w)
  PROVE  Counting!GiveUp(w) \/ Counting!Waste(w) \/ UNCHANGED Counting!vars
  <1>1. Stage(w) = "waiting" /\ Stage(w)' \in {"waiting", "out"}
    BY MissMoves DEF Stage
  <1>2. /\ StageMap[w] = "waiting"
        /\ \/ StageMap' = [StageMap EXCEPT ![w] = "waiting"]
           \/ StageMap' = [StageMap EXCEPT ![w] = "out"]
    BY <1>1, MissMoves, StageMoves
  <1>3. CASE Orphans' = Orphans
    <2>1. Lost' = Lost
      BY <1>3 DEF Lost
    <2>2. CASE StageMap' = [StageMap EXCEPT ![w] = "waiting"]
      <3>1. StageMap' = StageMap
        BY <1>2, <2>2 DEF StageMap
      <3> QED BY <2>1, <3>1 DEF Counting!vars, StageMap, Lost, Orphans
    <2>3. CASE StageMap' = [StageMap EXCEPT ![w] = "out"]
      BY <1>2, <2>1, <2>3 DEF Counting!GiveUp, Counting!Move, StageMap, Lost, Orphans
    <2> QED BY <1>2, <2>2, <2>3
  <1>4. CASE \E n \in Names : owner[n] = NoThread /\ Orphans' = Orphans \cup {n}
    <2>1. PICK n \in Names : owner[n] = NoThread /\ Orphans' = Orphans \cup {n}
      BY <1>4
    <2>2. Lost' = Lost + 1
      BY <2>1, LostOneMore DEF Orphans, Orphaned
    <2>3. Counting!PlaceFree
      BY <2>1, PlaceIsFree
    <2> QED BY <1>2, <2>2, <2>3 DEF Counting!Waste, Counting!Move, StageMap, Lost, Orphans
  <1> QED BY <1>3, <1>4, MissMoves

LEMMA LeaveMaps ==
  ASSUME IInv, IInv', Coordinated, NEW w \in Threads, Exit(w) \/ Die(w)
  PROVE  \/ Counting!Leave(w) \/ Counting!Lose(w) \/ Counting!GiveUp(w)
         \/ UNCHANGED Counting!vars
  <1>1. Stage(w)' = "out"
    BY LeaveMoves DEF Stage
  <1>2. StageMap[w] = Stage(w) /\ StageMap' = [StageMap EXCEPT ![w] = "out"]
    BY <1>1, LeaveMoves, StageMoves
  <1>3. Stage(w) \in {"out", "waiting", "in", "stray"}
    BY StageIs DEF IInv, TypeOK
  <1>4. CASE Orphans' = Orphans
    <2>1. Lost' = Lost
      BY <1>4 DEF Lost
    <2>2. CASE Stage(w) = "out"
      <3>1. StageMap' = StageMap
        BY <1>2, <2>2 DEF StageMap
      <3> QED BY <2>1, <3>1 DEF Counting!vars, StageMap, Lost, Orphans
    <2>3. CASE Stage(w) = "waiting"
      BY <1>2, <2>1, <2>3 DEF Counting!GiveUp, Counting!Move, StageMap, Lost, Orphans
    <2>4. CASE Stage(w) \in {"in", "stray"}
      BY <1>2, <2>1, <2>4 DEF Counting!Leave, Counting!Move, StageMap, Lost, Orphans
    <2> QED BY <1>3, <2>2, <2>3, <2>4
  <1>5. CASE Holds(w) /\ lock[w] \in Names /\ Orphans' = Orphans \cup {lock[w]}
    <2>1. Stage(w) = "in"
      BY <1>5, StageIs DEF Holds
    <2>2. lock[w] \notin Orphans
      BY <1>5 DEF Orphans, Orphaned
    <2>3. Lost' = Lost + 1
      BY <1>5, <2>2, LostOneMore
    <2> QED BY <1>2, <2>1, <2>3 DEF Counting!Lose, Counting!Move, StageMap, Lost, Orphans
  <1> QED BY <1>4, <1>5, LeaveMoves

LEMMA FreeMaps ==
  ASSUME IInv, IInv', Coordinated, NEW n \in Names, Expire(n) \/ Evict(n)
  PROVE  Counting!Recover \/ \E w \in Threads : Counting!Evict(w)
  <1>1. CASE /\ n \in Orphans /\ Orphans' = Orphans \ {n}
             /\ \A x \in Threads : Holds(x)' <=> Holds(x)
    <2>1. Lost' = Lost - 1 /\ Lost' \in Nat
      <3>1. IsFiniteSet(Orphans \ {n}) /\ Cardinality(Orphans \ {n}) = Lost - 1
        BY <1>1, Counted, FS_RemoveElement DEF Lost
      <3>2. Cardinality(Orphans \ {n}) \in Nat
        BY <3>1, FS_CardinalityType
      <3> QED BY <1>1, <3>1, <3>2 DEF Lost
    <2>2. Lost > 0
      BY <2>1, Counted DEF Lost
    <2>3. StageMap' = StageMap
      BY <1>1, FreeMoves DEF StageMap, Stage
    <2> QED BY <2>1, <2>2, <2>3 DEF Counting!Recover, StageMap, Lost, Orphans
  <1>2. CASE /\ Evict(n) /\ Orphans' = Orphans
             /\ \E w \in Threads : Holds(w) /\ ~ Holds(w)' /\ OthersKept(w)
    <2>1. PICK w \in Threads : Holds(w) /\ ~ Holds(w)' /\ OthersKept(w)
      BY <1>2
    <2>2. pc[w] = "in" /\ pc'[w] = "in"
      BY <2>1, FreeMoves DEF Holds
    <2>3. Stage(w) = "in" /\ Stage(w)' = "stray"
      BY <2>1, <2>2 DEF Stage
    <2>4. StageMap[w] = "in" /\ StageMap' = [StageMap EXCEPT ![w] = "stray"]
      BY <2>1, <2>3, StageMoves
    <2>5. Lost' = Lost
      BY <1>2 DEF Lost
    <2>6. Counting!Evict(w)
      BY <2>4, <2>5 DEF Counting!Evict, Counting!Move, StageMap, Lost, Orphans
    <2> QED BY <2>6
  <1> QED BY <1>1, <1>2, FreeMoves

LEMMA NextMaps ==
  ASSUME IInv, IInv', Coordinated, [Next]_vars
  PROVE  [Counting!Next]_(Counting!vars)
  <1>1. CASE UNCHANGED vars
    <2>1. StageMap' = StageMap /\ Orphans' = Orphans
      BY <1>1 DEF vars, StageMap, Stage, Orphans, Orphaned, Holds
    <2>2. Lost' = Lost
      BY <2>1 DEF Lost
    <2> QED BY <2>1, <2>2 DEF Counting!vars, StageMap, Lost, Orphans
  <1>2. CASE Next
    BY <1>2, EnterMaps, GrabMaps, MissMaps, LeaveMaps, FreeMaps
    DEF Next, Counting!Next
  <1> QED BY <1>1, <1>2

(* locking.py: the pool of named locks of a coordinator is a lock that      *)
(* counts, for every number of threads and every size of the pool, failed   *)
(* calls, lost answers, deaths and evictions included.                      *)
THEOREM Implements == Coordinated => (Spec => ImplementsCountingLock)
  <1>1. ASSUME Coordinated
        PROVE  IInv /\ IInv' /\ [Next]_vars => [Counting!Next]_(Counting!vars)
    BY <1>1, NextMaps
  <1>2. ASSUME Coordinated
        PROVE  Init => Counting!Init
    BY <1>2, InitMaps
  <1>3. CASE Coordinated
    <2>1. IInv /\ IInv' /\ [Next]_vars => [Counting!Next]_(Counting!vars)
      BY <1>1, <1>3
    <2>2. Init => Counting!Init
      BY <1>2, <1>3
    <2> QED BY <2>1, <2>2, SpecInv, PTL DEF Spec, Counting!Spec, ImplementsCountingLock
  <1> QED BY <1>3
=============================================================================

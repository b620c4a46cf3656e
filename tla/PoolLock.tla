------------------------------ MODULE PoolLock ------------------------------
(***************************************************************************)
(* The context manager PoolLock (locking.py).  Entering it tries the locks  *)
(* of a pool of names in turn, without blocking, until one is free or the   *)
(* timeout is over; leaving it releases that lock.  A step is one call to   *)
(* the tooz coordinator.  A call may fail, and may have been applied all    *)
(* the same; processes die; and the coordinator may take a live member for  *)
(* dead, when its heartbeat comes late, and give its lock away.             *)
(*                                                                          *)
(* The names come from a generator made by __init__.  __enter__ goes round  *)
(* in what the generator still has to give, so each entry of one and the    *)
(* same object starts behind the names that the entries before it tried.    *)
(***************************************************************************)
EXTENDS Naturals, FiniteSets

CONSTANTS
    Threads,      \* threads, each with a PoolLock of its own
    Size,         \* locks_pool_size
    Coordinated,  \* was a tooz coordinator given?
    Renew,        \* a new PoolLock for every with statement?
    Timed,        \* threads whose PoolLock has a timeout
    NoLock, NoThread,     \* null values
    Dead,         \* stands for the members that are gone
    MaxEntries,   \* bound: with statements of a thread
    MaxFaults,    \* bound: failed calls and deaths
    MaxEvictions  \* bound: locks of live members given away

Names == 0..(Size - 1)

ASSUME PoolLockAssumption ==
    /\ Size \in Nat \ {0}
    /\ Coordinated \in BOOLEAN /\ Renew \in BOOLEAN /\ Timed \subseteq Threads
    /\ NoLock \notin Names
    /\ NoThread \notin Threads /\ Dead \notin Threads /\ Dead # NoThread
    /\ MaxEntries \in Nat /\ MaxFaults \in Nat /\ MaxEvictions \in Nat

VARIABLES
    pc,      \* "out", "trying" or "in" the with statement
    given,   \* lock_names: how many names the generator has given
    first,   \* ... and how many it had when __enter__ made the cycle
    turn,    \* name that next(names) gives next
    lock,    \* self.lock
    owner,   \* tooz: the thread a lock is held for
    entries, faults, evictions

vars == <<pc, given, first, turn, lock, owner, entries, faults, evictions>>

Init ==
    /\ pc = [w \in Threads |-> "out"]
    /\ given = [w \in Threads |-> 0]
    /\ first = [w \in Threads |-> 0]
    /\ turn = [w \in Threads |-> 0]
    /\ lock = [w \in Threads |-> NoLock]
    /\ owner = [n \in Names |-> NoThread]
    /\ entries = [w \in Threads |-> 0]
    /\ faults = 0 /\ evictions = 0

Fault == faults < MaxFaults /\ faults' = faults + 1

(* Mutant: the generator of the names outlives the object. *)
StartNeverAnew(w) == given[w]

Start(w) == IF Renew THEN 0 ELSE given[w]

Enter(w) ==
    /\ pc[w] = "out" /\ entries[w] < MaxEntries
    /\ entries' = [entries EXCEPT ![w] = @ + 1]
    /\ lock' = [lock EXCEPT ![w] = NoLock]
    /\ given' = [given EXCEPT ![w] = Start(w)]
    /\ first' = [first EXCEPT ![w] = Start(w)]
    /\ turn' = [turn EXCEPT ![w] = Start(w)]
    /\ pc' = [pc EXCEPT ![w] = IF Coordinated THEN "trying" ELSE "in"]
    /\ UNCHANGED <<owner, faults, evictions>>

(* Nothing is left to go round in: next(names) raises StopIteration.        *)
Exhausted(w) == first[w] = Size

(* Mutant: after the last name comes the one behind it. *)
NextTurnOff(w) == turn[w] + 1

NextTurn(w) == IF turn[w] + 1 < Size THEN turn[w] + 1 ELSE first[w]

NextName(w) ==
    /\ turn' = [turn EXCEPT ![w] = NextTurn(w)]
    /\ given' = [given EXCEPT ![w] = IF turn[w] < @ THEN @ ELSE turn[w] + 1]

(* Mutant: the result of acquire is not looked at. *)
GrabbedAny(n) == TRUE

Grabbed(n) == owner[n] = NoThread

Take(w, n) == owner' = [owner EXCEPT ![n] = w]

Grab(w) ==
    /\ pc[w] = "trying" /\ ~ Exhausted(w)
    /\ Grabbed(turn[w])
    /\ Take(w, turn[w])
    /\ lock' = [lock EXCEPT ![w] = turn[w]]
    /\ pc' = [pc EXCEPT ![w] = "in"]
    /\ NextName(w)
    /\ UNCHANGED <<first, entries, faults, evictions>>

(* tenacity calls again after any exception: a lock that is taken, no name  *)
(* at all, or a coordinator that fails, maybe after it has given the lock.  *)
Miss(w) ==
    /\ pc[w] = "trying"
    /\ \/ Exhausted(w) /\ UNCHANGED <<turn, given, owner, faults>>
       \/ ~ Exhausted(w) /\ ~ Grabbed(turn[w]) /\ NextName(w) /\ UNCHANGED <<owner, faults>>
       \/ ~ Exhausted(w) /\ Fault /\ NextName(w) /\ UNCHANGED owner
       \/ ~ Exhausted(w) /\ Fault /\ NextName(w) /\ Grabbed(turn[w]) /\ Take(w, turn[w])
    /\ \/ UNCHANGED pc
       \/ w \in Timed /\ pc' = [pc EXCEPT ![w] = "out"]
    /\ UNCHANGED <<first, lock, entries, evictions>>

(* Mutant: a lock is freed whoever holds it now. *)
ReleasedAny(w) == [owner EXCEPT ![lock[w]] = NoThread]

(* tooz: a lock is released for its owner only.                             *)
Released(w) == IF owner[lock[w]] = w THEN [owner EXCEPT ![lock[w]] = NoThread] ELSE owner

(* The thread leaves even if release() raises and the lock stays taken.     *)
(* __exit__ leaves self.lock as it is.                                      *)
Exit(w) ==
    /\ pc[w] = "in"
    /\ pc' = [pc EXCEPT ![w] = "out"]
    /\ \/ owner' = (IF lock[w] = NoLock THEN owner ELSE Released(w)) /\ UNCHANGED faults
       \/ lock[w] # NoLock /\ Fault /\ UNCHANGED owner
    /\ UNCHANGED <<given, first, turn, lock, entries, evictions>>

(* The process of the thread dies: its locks stay taken, by nobody.         *)
Die(w) ==
    /\ Fault
    /\ pc' = [pc EXCEPT ![w] = "out"]
    /\ owner' = [n \in Names |-> IF owner[n] = w THEN Dead ELSE owner[n]]
    /\ UNCHANGED <<given, first, turn, lock, entries, evictions>>

Free(n) == owner' = [owner EXCEPT ![n] = NoThread]

(* tooz frees the locks of a member whose heartbeat has stopped, ...        *)
Expire(n) ==
    /\ owner[n] = Dead /\ Free(n)
    /\ UNCHANGED <<pc, given, first, turn, lock, entries, faults, evictions>>

(* ... or has not come in time, which the member does not notice.           *)
Evict(n) ==
    /\ evictions < MaxEvictions /\ evictions' = evictions + 1
    /\ owner[n] \in Threads /\ Free(n)
    /\ UNCHANGED <<pc, given, first, turn, lock, entries, faults>>

Next ==
    \/ \E w \in Threads : Enter(w) \/ Grab(w) \/ Miss(w) \/ Exit(w) \/ Die(w)
    \/ \E n \in Names : Expire(n) \/ Evict(n)

Spec == Init /\ [][Next]_vars

(* The retry goes on, the body of a with statement ends, and locks of dead  *)
(* members expire.  No call is fair on its own: a lock need not be found    *)
(* free, nor a release succeed.                                             *)
FairSpec ==
    /\ Spec
    /\ \A w \in Threads : WF_vars(Grab(w) \/ Miss(w)) /\ WF_vars(Exit(w))
    /\ \A n \in Names : WF_vars(Expire(n))

-----------------------------------------------------------------------------
(* Type invariant of the pool and of every PoolLock object.                 *)
TypeOK ==
    /\ pc \in [Threads -> {"out", "trying", "in"}]
    /\ given \in [Threads -> 0..Size] /\ first \in [Threads -> 0..Size]
    /\ turn \in [Threads -> 0..Size]
    /\ \A w \in Threads : pc[w] = "trying" /\ ~ Exhausted(w) => turn[w] \in Names
    /\ lock \in [Threads -> Names \cup {NoLock}]
    /\ owner \in [Names -> Threads \cup {NoThread, Dead}]
    /\ entries \in [Threads -> 0..MaxEntries]
    /\ faults \in 0..MaxFaults /\ evictions \in 0..MaxEvictions

Inside == {w \in Threads : pc[w] = "in"}

(* With a coordinator, at most locks_pool_size threads are inside a with    *)
(* statement, and one more for each lock that the coordinator gave away     *)
(* under a live member: calls that fail or whose answer is lost and dead    *)
(* processes let nobody in.  configuration.rst promises that concurrent     *)
(* connections to a device are limited to that number.                      *)
AtMostPoolSize == Coordinated => Cardinality(Inside) <= Size + evictions

(* Thread w is inside and the lock it has is still its own.                 *)
Holds(w) == pc[w] = "in" /\ owner[lock[w]] = w

(* The name is taken, and nobody is going to release it.                    *)
Orphaned(n) == owner[n] # NoThread /\ ~ \E w \in Threads : Holds(w) /\ lock[w] = n

Stage(w) ==
    CASE pc[w] = "trying" -> "waiting"
      [] pc[w] = "in" /\ ~ Holds(w) -> "stray"
      [] OTHER -> pc[w]

Counting == INSTANCE CountingLock WITH
    Users <- Threads,
    stage <- [w \in Threads |-> Stage(w)],
    lost <- Cardinality({n \in Names : Orphaned(n)})

(* The pool of named locks of a coordinator is a lock that counts: a thread *)
(* enters only when fewer than locks_pool_size places are taken; a place is *)
(* lost by a death, a failed release or a lost answer, each at most one;    *)
(* and a thread that leaves gives back its own place, or none if that was   *)
(* given away under it.                                                     *)
ImplementsCountingLock == Counting!Spec

(* Every name is held for a live member that has no use for it.             *)
AllLeaked == \A n \in Names : owner[n] \in Threads /\ Orphaned(n)

(* A thread that tries gets in or gives up, if every with statement uses a  *)
(* PoolLock of its own: in the end one that still tries finds that failed   *)
(* releases and lost answers have used up all names (entries and failures   *)
(* are finitely many).  One name left is enough for all.                    *)
TryingEnds == \A w \in Threads : <>[](pc[w] = "trying" => AllLeaked)
=============================================================================

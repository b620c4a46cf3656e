---------------------------- MODULE CountingLock ----------------------------
(***************************************************************************)
(* What a pool of locks promises its users: at most Size of them have a     *)
(* place at a time.  A place may be lost, when its user ends without giving *)
(* it back or never learns that it has one, and is found again later.  It   *)
(* may also be taken from a user who is inside: he strays there without one.*)
(***************************************************************************)
EXTENDS Naturals, FiniteSets

CONSTANTS Users, Size

VARIABLES
    stage,   \* is a user out, waiting, in, or stray?
    lost     \* places neither free nor used

vars == <<stage, lost>>

Inside == {u \in Users : stage[u] = "in"}

Init == stage = [u \in Users |-> "out"] /\ lost = 0

Move(u, from, to) == stage[u] = from /\ stage' = [stage EXCEPT ![u] = to]

PlaceFree == Cardinality(Inside) + lost < Size

Ask(u) == Move(u, "out", "waiting") /\ UNCHANGED lost

Enter(u) == PlaceFree /\ Move(u, "waiting", "in") /\ UNCHANGED lost

GiveUp(u) == Move(u, "waiting", "out") /\ UNCHANGED lost

(* The user is given a place and does not learn of it.                      *)
Waste(u) ==
    /\ PlaceFree /\ lost' = lost + 1
    /\ Move(u, "waiting", "out") \/ Move(u, "waiting", "waiting")

Leave(u) == (Move(u, "in", "out") \/ Move(u, "stray", "out")) /\ UNCHANGED lost

Lose(u) == Move(u, "in", "out") /\ lost' = lost + 1

Evict(u) == Move(u, "in", "stray") /\ UNCHANGED lost

Recover == lost > 0 /\ lost' = lost - 1 /\ UNCHANGED stage

Next ==
    \/ \E u \in Users :
          \/ Ask(u) \/ Enter(u) \/ GiveUp(u) \/ Waste(u)
          \/ Leave(u) \/ Lose(u) \/ Evict(u)
    \/ Recover

Spec == Init /\ [][Next]_vars
=============================================================================

----------------------------- MODULE DnsRecords -----------------------------
(***************************************************************************)
(* DNS records that the port hooks keep in the controller (dns_handler.py). *)
(*                                                                          *)
(* A hook may have a name to drop (the port is deleted or renamed) and a    *)
(* name to keep, with the port's addresses.  For each of the two it lists   *)
(* the records first and then changes what it found.  The handler swallows  *)
(* every failure: the rest of its work is skipped and the hook goes on.     *)
(* A record's type, A or AAAA, goes with its content and is left out.       *)
(***************************************************************************)
EXTENDS Naturals, Sequences

CONSTANTS
    Ports, Threads,
    Names,            \* full DNS names, as _build_dns_name makes them
    Addrs,            \* IP addresses
    Rids,             \* ids the controller may give to records
    Enabled,          \* dns_integration_enabled, with a domain
    NoName, NoRecord, NoHook, NoRid,   \* null values
    MaxFaults         \* bound on failures

Record == [name : Names, addr : Addrs]

ASSUME DnsAssumption ==
    /\ NoName \notin Names /\ NoRid \notin Rids /\ NoRecord \notin Record
    /\ Rids \subseteq Nat /\ Enabled \in BOOLEAN /\ MaxFaults \in Nat

VARIABLES
    records,  \* the controller: its DNS records, by id
    pc,       \* next request of each thread
    hook,     \* the hook it runs, with the port as ML2 showed it
    left,     \* addresses still to be recorded
    hits,     \* ids of the records found
    botched,  \* history: names for which a request failed
    faults

dnsVars == <<records, left, hits, botched>>

(* old: name of the port before the change; state: the port after it.       *)
Port == [name : Names \cup {NoName}, ips : Seq(Addrs), pairs : SUBSET Addrs]
Hook == [op : {"create", "update", "delete"}, port : Ports, old : Names \cup {NoName}, state : Port]

DnsInit ==
    /\ records = [i \in Rids |-> NoRecord]
    /\ left = [w \in Threads |-> <<>>]
    /\ hits = [w \in Threads |-> {}]
    /\ botched = {}

Named(n) == {i \in Rids : records[i] # NoRecord /\ records[i].name = n}

(* Mutant: a renamed port keeps its old records. *)
DropDeletedOnly(h) == IF h.op = "delete" THEN h.old ELSE NoName

(* The records of a deleted port, and of a name that has been changed, go.  *)
Drop(h) == IF h.op # "delete" /\ h.old = h.state.name THEN NoName ELSE h.old

Keep(h) == IF h.op = "delete" THEN NoName ELSE h.state.name

(* After the handler the create and the update hook authorize addresses.    *)
DnsOver(h) == IF h.op = "delete" THEN "idle" ELSE "subnets"

KeepFirst(h) ==
    IF Enabled /\ Keep(h) # NoName /\ h.state.ips # <<>> THEN "look" ELSE DnsOver(h)

DropFirst(h) == IF Enabled /\ Drop(h) # NoName THEN "find" ELSE KeepFirst(h)

Goto(w, stage) ==
    /\ pc' = [pc EXCEPT ![w] = stage]
    /\ hook' = [hook EXCEPT ![w] = IF stage = "idle" THEN NoHook ELSE @]

(* The hook h of thread w begins.                                           *)
Begin(w, h) ==
    /\ pc' = [pc EXCEPT ![w] = DropFirst(h)]
    /\ hook' = [hook EXCEPT ![w] = IF DropFirst(h) = "idle" THEN NoHook ELSE h]
    /\ left' = [left EXCEPT ![w] = h.state.ips]
    /\ hits' = [hits EXCEPT ![w] = {}]

Fault == faults < MaxFaults /\ faults' = faults + 1

Botch(n) == botched' = botched \cup {n}

-----------------------------------------------------------------------------
(* delete_port_dns_records: whatever happens, the hook goes on.             *)

DropOver(w) == Goto(w, KeepFirst(hook[w])) /\ hits' = [hits EXCEPT ![w] = {}] /\ UNCHANGED left

DropFailed(w) == Botch(Drop(hook[w])) /\ DropOver(w)

Find(w) ==
    /\ pc[w] = "find"
    /\ LET found == Named(Drop(hook[w])) IN
          \/ /\ IF found = {} THEN DropOver(w)
                ELSE /\ hits' = [hits EXCEPT ![w] = found]
                     /\ Goto(w, "delete") /\ UNCHANGED left
             /\ UNCHANGED <<botched, faults>>
          \/ Fault /\ DropFailed(w)
    /\ UNCHANGED records

Deleted(w, i) ==
    IF hits[w] = {i} THEN DropOver(w)
    ELSE hits' = [hits EXCEPT ![w] = @ \ {i}] /\ UNCHANGED <<pc, hook, left>>

(* Deleting what is gone fails; after a failure no other record is deleted. *)
Delete(w) ==
    /\ pc[w] = "delete"
    /\ \E i \in hits[w] :
          \/ /\ records[i] # NoRecord
             /\ records' = [records EXCEPT ![i] = NoRecord]
             /\ \/ Deleted(w, i) /\ UNCHANGED <<botched, faults>>
                \/ Fault /\ DropFailed(w)
          \/ /\ records[i] = NoRecord
             /\ DropFailed(w) /\ UNCHANGED <<records, faults>>
          \/ Fault /\ DropFailed(w) /\ UNCHANGED records

-----------------------------------------------------------------------------
(* create_port_dns_records: one address after the other.                    *)

KeepFailed(w) ==
    /\ Botch(Keep(hook[w])) /\ Goto(w, DnsOver(hook[w]))
    /\ left' = [left EXCEPT ![w] = <<>>]
    /\ hits' = [hits EXCEPT ![w] = {}]

(* Mutant: the loop looks for one more address. *)
KeptWhile(w) ==
    /\ Goto(w, "look")
    /\ left' = [left EXCEPT ![w] = Tail(@)]
    /\ hits' = [hits EXCEPT ![w] = {}]

Kept(w) ==
    /\ Goto(w, IF Len(left[w]) = 1 THEN DnsOver(hook[w]) ELSE "look")
    /\ left' = [left EXCEPT ![w] = Tail(@)]
    /\ hits' = [hits EXCEPT ![w] = {}]

(* Mutant: a record of this name is looked for by its address too. *)
ExistingExact(n, a) ==
    LET exact == {i \in Named(n) : records[i].addr = a} IN IF exact = {} THEN {NoRid} ELSE exact

(* The first record of this name, whatever its type and content.            *)
Existing(n, a) == IF Named(n) = {} THEN {NoRid} ELSE Named(n)

Look(w) ==
    /\ pc[w] = "look"
    /\ LET a == Head(left[w]) IN
          \/ /\ \E i \in Existing(Keep(hook[w]), a) :
                   IF i # NoRid /\ records[i].addr = a THEN Kept(w)
                   ELSE /\ hits' = [hits EXCEPT ![w] = {i} \ {NoRid}]
                        /\ Goto(w, "write") /\ UNCHANGED left
             /\ UNCHANGED <<botched, faults>>
          \/ Fault /\ KeepFailed(w)
    /\ UNCHANGED records

(* An id that a hook still holds is not given again (ids are never reused;  *)
(* one that nobody holds is as good as new).                                *)
Free == {i \in Rids : records[i] = NoRecord /\ \A x \in Threads : i \notin hits[x]}

(* Without an existing record one is created, with the next free id.        *)
Target(w) == IF hits[w] = {} THEN {i \in Free : \A j \in Free : i <= j} ELSE hits[w]

Gone(w) == hits[w] # {} /\ \E i \in hits[w] : records[i] = NoRecord

(* Updating what is gone fails.                                             *)
Write(w) ==
    /\ pc[w] = "write"
    /\ \/ /\ ~ Gone(w)
          /\ \E i \in Target(w) :
                records' = [records EXCEPT ![i] = [name |-> Keep(hook[w]), addr |-> Head(left[w])]]
          /\ \/ Kept(w) /\ UNCHANGED <<botched, faults>>
             \/ Fault /\ KeepFailed(w)
       \/ Gone(w) /\ KeepFailed(w) /\ UNCHANGED <<records, faults>>
       \/ Fault /\ KeepFailed(w) /\ UNCHANGED records

DnsStep(w) == Find(w) \/ Delete(w) \/ Look(w) \/ Write(w)

-----------------------------------------------------------------------------
(* Type invariant of the records and of the hooks at work on them.          *)
DnsTypeOK ==
    /\ records \in [Rids -> Record \cup {NoRecord}]
    /\ left \in [Threads -> Seq(Addrs)]
    /\ hits \in [Threads -> SUBSET Rids]
    /\ botched \subseteq Names
    /\ \A w \in Threads :
          /\ pc[w] \in {"look", "write"} => left[w] # <<>> /\ Keep(hook[w]) \in Names
          /\ pc[w] \in {"find", "delete"} => Drop(hook[w]) \in Names
          /\ pc[w] = "delete" => hits[w] # {}
=============================================================================

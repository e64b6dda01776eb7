----------------------------- MODULE FlowControl -----------------------------
(***************************************************************************)
(* The limit on what the server relays to one node per second              *)
(* (FlowControl, src/src/common/net.rs).  The tasks of the tunnels and the *)
(* UDP task push packets at the same time; joins and drops add and remove  *)
(* the entries of the pool.                                                *)
(*                                                                         *)
(* A push takes the pool's read lock, reads the clock, and only then       *)
(* updates the entry by fetch_update, which is atomic.  A second may end   *)
(* at any time, between the two as well: a push of the new second may then *)
(* overtake one of the old, which sets the entry back to its own second.   *)
(***************************************************************************)
EXTENDS Integers, FiniteSets

CONSTANTS
    Pusher,     \* the tasks that relay
    Addr,       \* virtual addresses packets are relayed to
    Rules,      \* the configured rules: a set of [cidr, limit]
    Lengths,    \* packet lengths
    MaxTime,    \* bound: the last second of the clock
    NoEntry, NoRequest

ASSUME FlowAssumption ==
    /\ Lengths \subseteq Nat
    /\ MaxTime \in Nat
    /\ NoEntry \notin [traffic : Nat, time : Nat]
    /\ NoRequest \notin [dst : Addr, len : Lengths, now : Nat]

(* CIDR blocks are nested or disjoint, so of the finitely many that hold   *)
(* an address one lies in all the others.                                  *)
ASSUME RulesAssumption ==
    /\ Rules \subseteq [cidr : SUBSET Addr, limit : Nat]
    /\ \A a \in Addr :
        (\E s \in Rules : a \in s.cidr) =>
            \E r \in Rules : /\ a \in r.cidr
                           /\ \A s \in Rules : a \in s.cidr => r.cidr \subseteq s.cidr

VARIABLES
    pool,       \* address -> traffic in the second of its time stamp
    push,       \* pusher -> the push between its clock and its update
    result,     \* pusher -> what its last push returned
    clock,      \* UTC seconds
    spent,      \* history: address -> second -> bytes accepted, since the
                \* address was added, of pushes that read that second
    setBack     \* history: address -> second -> how often an overtaken push
                \* has set the entry from that second or later to that
                \* second or earlier

vars == <<pool, push, result, clock, spent, setBack>>

Seconds == 0 .. MaxTime
Entry == [traffic : Nat, time : Seconds]
Request == [dst : Addr, len : Lengths, now : Seconds]

(* The rules are sorted by prefix length: the narrowest one applies. *)
Matching(a) == {r \in Rules : a \in r.cidr}
IsLimited(a) == Matching(a) # {}
RuleOf(a) == CHOOSE r \in Matching(a) : \A s \in Matching(a) : r.cidr \subseteq s.cidr
Limit(a) == RuleOf(a).limit

TypeOK ==
    /\ pool \in [Addr -> Entry \cup {NoEntry}]
    /\ push \in [Pusher -> Request \cup {NoRequest}]
    /\ result \in [Pusher -> {"None", "Accept", "Reject"}]
    /\ clock \in Seconds
    /\ spent \in [Addr -> [Seconds -> Nat]]
    /\ setBack \in [Addr -> [Seconds -> Nat]]

Init ==
    /\ pool = [a \in Addr |-> NoEntry]
    /\ push = [p \in Pusher |-> NoRequest]
    /\ result = [p \in Pusher |-> "None"]
    /\ clock = 0
    /\ spent = [a \in Addr |-> [s \in Seconds |-> 0]]
    /\ setBack = [a \in Addr |-> [s \in Seconds |-> 0]]

Returns(p, r) ==
    /\ result' = [result EXCEPT ![p] = r]
    /\ push' = [push EXCEPT ![p] = NoRequest]

(* push, up to the clock: no rule and too long a packet are decided before *)
(* the lock, an address without an entry after it.                         *)
StartPush(p, a, len) ==
    /\ push[p] = NoRequest
    /\ \/ ~IsLimited(a) /\ Returns(p, "Accept")
       \/ IsLimited(a) /\ len > Limit(a) /\ Returns(p, "Reject")
       \/ /\ IsLimited(a) /\ len <= Limit(a)
          /\ \/ pool[a] = NoEntry /\ Returns(p, "Reject")
             \/ /\ pool[a] # NoEntry
                /\ push' = [push EXCEPT ![p] = [dst |-> a, len |-> len, now |-> clock]]
                /\ UNCHANGED result
    /\ UNCHANGED <<pool, clock, spent, setBack>>

(* Mutants of the closure: the limit is compared with the traffic so far;  *)
(* a packet that just fits is refused; the entry counts down.              *)
UpdatedComparesOld(e, q) ==
    IF e.time = q.now
    THEN IF e.traffic <= Limit(q.dst)
         THEN [traffic |-> e.traffic + q.len, time |-> e.time]
         ELSE NoEntry
    ELSE [traffic |-> q.len, time |-> q.now]
UpdatedBelowLimit(e, q) ==
    IF e.time = q.now
    THEN IF e.traffic + q.len < Limit(q.dst)
         THEN [traffic |-> e.traffic + q.len, time |-> e.time]
         ELSE NoEntry
    ELSE [traffic |-> q.len, time |-> q.now]
UpdatedCountsDown(e, q) == [traffic |-> e.traffic - q.len, time |-> q.now]

(* The closure given to fetch_update: NoEntry stands for None. *)
Updated(e, q) ==
    IF e.time = q.now
    THEN IF e.traffic + q.len <= Limit(q.dst)
         THEN [traffic |-> e.traffic + q.len, time |-> e.time]
         ELSE NoEntry
    ELSE [traffic |-> q.len, time |-> q.now]

FetchUpdate(p) ==
    LET q == push[p]
        e == Updated(pool[q.dst], q)
    IN
    /\ q # NoRequest
    /\ IF e = NoEntry
       THEN Returns(p, "Reject") /\ UNCHANGED <<pool, spent, setBack>>
       ELSE /\ Returns(p, "Accept")
            /\ pool' = [pool EXCEPT ![q.dst] = e]
            /\ spent' = [spent EXCEPT ![q.dst][q.now] = @ + q.len]
            /\ setBack' = [setBack EXCEPT ![q.dst] = [s \in Seconds |->
                   IF s \in q.now .. pool[q.dst].time /\ q.now # pool[q.dst].time
                   THEN @[s] + 1 ELSE @[s]]]
    /\ UNCHANGED clock

(* A push holds the read lock until it returns. *)
PoolIsFree == \A p \in Pusher : push[p] = NoRequest

AddAddress(a) ==
    /\ PoolIsFree
    /\ pool[a] = NoEntry
    /\ pool' = [pool EXCEPT ![a] = [traffic |-> 0, time |-> clock]]
    /\ UNCHANGED <<push, result, clock, spent, setBack>>

RemoveAddress(a) ==
    /\ PoolIsFree
    /\ pool[a] # NoEntry
    /\ pool' = [pool EXCEPT ![a] = NoEntry]
    /\ spent' = [spent EXCEPT ![a] = [s \in Seconds |-> 0]]
    /\ setBack' = [setBack EXCEPT ![a] = [s \in Seconds |-> 0]]
    /\ UNCHANGED <<push, result, clock>>

Tick ==
    /\ clock < MaxTime
    /\ clock' = clock + 1
    /\ UNCHANGED <<pool, push, result, spent, setBack>>

Next ==
    \/ \E p \in Pusher :
        FetchUpdate(p) \/ \E a \in Addr, len \in Lengths : StartPush(p, a, len)
    \/ \E a \in Addr : AddAddress(a) \/ RemoveAddress(a)
    \/ Tick

Spec == Init /\ [][Next]_vars

----------------------------------------------------------------------------
(* Whoever pushes and however pushes overlap, no more than the limit of    *)
(* the narrowest rule is accepted for an address of pushes that read the   *)
(* same second, if none of them is overtaken by a push of a later second;  *)
(* and each one that is overtaken lets no more than the limit through once *)
(* more (the entry forgets what it counted when its time stamp is set      *)
(* back, and again when it comes forward).                                 *)
RateLimited ==
    \A a \in Addr, s \in Seconds :
        IsLimited(a) => spent[a][s] <= (1 + setBack[a][s]) * Limit(a)

(* An entry never counts more than what was accepted in the second of its  *)
(* time stamp, and exactly that unless an overtaken push has set it back:  *)
(* no concurrent push is lost.                                             *)
EntryIsAccount ==
    \A a \in Addr : pool[a] # NoEntry =>
        LET accepted == spent[a][pool[a].time]
        IN  /\ pool[a].traffic <= accepted
            /\ setBack[a][pool[a].time] = 0 => pool[a].traffic = accepted

(* A packet is turned away only when it cannot be accepted: it is longer   *)
(* than the limit, nobody is registered under the address, or it does not  *)
(* fit into what is left of the second the push has read, whatever seconds *)
(* have begun meanwhile.                                                   *)
RejectIsNeeded ==
    [][\A p \in Pusher : push[p] # NoRequest /\ push'[p] = NoRequest /\ result'[p] = "Reject" =>
        spent[push[p].dst][push[p].now] + push[p].len > Limit(push[p].dst)]_vars
=============================================================================

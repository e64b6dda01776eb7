----------------------------- MODULE CommonProofs -----------------------------
(***************************************************************************)
(* The shared parts of src/src/common: what FlowControl accepts is bounded *)
(* for any rules, any tasks and any packet lengths, wherever the seconds   *)
(* end; the pieces of Allocator are disjoint, for any number of tasks and  *)
(* any buffer size.                                                        *)
(***************************************************************************)
EXTENDS FlowControl, Allocator, TLAPS

(* A push under way is for a limited address with an entry, and its packet *)
(* is no longer than the limit.  The second it has read may be over.       *)
PushesAreLimited ==
    \A p \in Pusher : push[p] # NoRequest =>
        /\ pool[push[p].dst] # NoEntry
        /\ IsLimited(push[p].dst)
        /\ push[p].len <= Limit(push[p].dst)

(* Nothing has been accepted for an address without an entry. *)
Cleared ==
    \A a \in Addr, s \in Seconds : pool[a] = NoEntry => spent[a][s] = 0

(* What was accepted of the pushes of a second: one limit for every time   *)
(* the entry was set back over it; what the entry counts, if it is of that *)
(* second; and one more limit if it is of a later one.                     *)
Bounded(spentOf, times, limit, s, e) ==
    /\ e.traffic <= limit
    /\ s < e.time => spentOf <= times * limit + limit
    /\ s = e.time => spentOf <= times * limit + e.traffic
    /\ s > e.time => spentOf <= times * limit

SpentIsBounded ==
    \A a \in Addr, s \in Seconds :
        pool[a] # NoEntry /\ IsLimited(a) =>
            Bounded(spent[a][s], setBack[a][s], Limit(a), s, pool[a])

IInv == TypeOK /\ EntryIsAccount /\ PushesAreLimited /\ Cleared /\ SpentIsBounded

LEMMA LimitIsNat ==
    ASSUME NEW a \in Addr, IsLimited(a)
    PROVE  Limit(a) \in Nat
  <1>1. \E r \in Matching(a) : \A s \in Matching(a) : r.cidr \subseteq s.cidr
    BY RulesAssumption DEF IsLimited, Matching
  <1>2. RuleOf(a) \in Matching(a)
    BY <1>1 DEF RuleOf
  <1>3. QED
    BY <1>2, RulesAssumption DEF Limit, Matching

(* Set back once more, an address gets one more limit. *)
LEMMA OnceMore ==
    ASSUME NEW n \in Nat, NEW l \in Nat
    PROVE  n * l \in Nat /\ (n + 1) * l = n * l + l /\ (1 + n) * l = n * l + l
  OBVIOUS

(* One update of the entry keeps the bound of every second s. *)
LEMMA UpdateKeepsBound ==
    ASSUME NEW limit \in Nat, NEW len \in Nat, len <= limit, NEW now \in Seconds,
           NEW e \in Entry, NEW s \in Seconds, NEW spentOf \in Nat, NEW times \in Nat,
           Bounded(spentOf, times, limit, s, e),
           e.time = now => e.traffic + len <= limit
    PROVE  Bounded(IF s = now THEN spentOf + len ELSE spentOf,
                   IF s \in now .. e.time /\ now # e.time THEN times + 1 ELSE times,
                   limit, s,
                   [traffic |-> IF e.time = now THEN e.traffic + len ELSE len, time |-> now])
  <1> DEFINE b == times * limit
  <1>1. b \in Nat /\ (times + 1) * limit = b + limit
    BY OnceMore
  <1>2. e.traffic \in Nat /\ e.time \in Int /\ now \in Int /\ s \in Int
    BY FlowAssumption DEF Entry, Seconds
  <1> HIDE DEF b
  <1>3. CASE e.time = now
    BY <1>1, <1>2, <1>3 DEF Bounded, b
  <1>4. CASE e.time < now
    BY <1>1, <1>2, <1>4 DEF Bounded, b
  <1>5. CASE now < e.time
    <2>1. CASE s \in now .. e.time
      BY <1>1, <1>2, <1>5, <2>1 DEF Bounded, b
    <2>2. CASE s \notin now .. e.time
      BY <1>1, <1>2, <1>5, <2>2 DEF Bounded, b
    <2>3. QED
      BY <2>1, <2>2
  <1>6. QED
    BY <1>2, <1>3, <1>4, <1>5

LEMMA InitIInv == Init => IInv
  BY FlowAssumption
  DEF Init, IInv, TypeOK, EntryIsAccount, PushesAreLimited, Cleared, SpentIsBounded, Seconds

(* A push that returns, and one that gets as far as its update, leave the  *)
(* account alone.                                                          *)
LEMMA StartKeeps ==
    ASSUME IInv, NEW p \in Pusher, NEW a \in Addr, NEW len \in Lengths, StartPush(p, a, len)
    PROVE  IInv'
  <1> USE FlowAssumption DEF IInv, TypeOK
  <1>1. UNCHANGED <<pool, clock, spent, setBack>>
    BY DEF StartPush
  <1>2. EntryIsAccount' /\ Cleared' /\ SpentIsBounded'
    BY <1>1 DEF EntryIsAccount, Cleared, SpentIsBounded
  <1>3. CASE push' = [push EXCEPT ![p] = [dst |-> a, len |-> len, now |-> clock]]
             /\ UNCHANGED result /\ IsLimited(a) /\ len <= Limit(a) /\ pool[a] # NoEntry
    <2>1. [dst |-> a, len |-> len, now |-> clock] \in Request
      BY DEF Request
    <2>2. TypeOK'
      BY <1>1, <1>3, <2>1
    <2>3. PushesAreLimited'
      BY <1>1, <1>3 DEF PushesAreLimited
    <2>4. QED
      BY <1>2, <2>2, <2>3
  <1>4. CASE Returns(p, "Accept") \/ Returns(p, "Reject")
    <2>1. TypeOK'
      BY <1>1, <1>4 DEF Returns
    <2>2. PushesAreLimited'
      BY <1>1, <1>4 DEF Returns, PushesAreLimited
    <2>3. QED
      BY <1>2, <2>1, <2>2
  <1>5. QED
    BY <1>3, <1>4 DEF StartPush

(* What a push finds at its update. *)
LEMMA AtUpdate ==
    ASSUME IInv, NEW p \in Pusher, push[p] # NoRequest
    PROVE  /\ push[p] \in Request
           /\ push[p].dst \in Addr /\ push[p].len \in Nat /\ push[p].now \in Seconds
           /\ pool[push[p].dst] \in Entry /\ pool[push[p].dst] # NoEntry
           /\ IsLimited(push[p].dst) /\ Limit(push[p].dst) \in Nat
           /\ push[p].len <= Limit(push[p].dst)
  <1>1. push[p] \in Request /\ pool[push[p].dst] # NoEntry /\ IsLimited(push[p].dst)
        /\ push[p].len <= Limit(push[p].dst)
    BY DEF IInv, TypeOK, PushesAreLimited
  <1>2. push[p].dst \in Addr /\ push[p].len \in Nat /\ push[p].now \in Seconds
    BY <1>1, FlowAssumption DEF Request
  <1>3. QED
    BY <1>1, <1>2, LimitIsNat DEF IInv, TypeOK

(* An accepted push counts what it adds in its own second, or starts the   *)
(* account of that second again.                                           *)
LEMMA AcceptKeeps ==
    ASSUME IInv, NEW p \in Pusher, FetchUpdate(p),
           Updated(pool[push[p].dst], push[p]) # NoEntry
    PROVE  IInv'
  <1> DEFINE q == push[p]
             a == q.dst
             old == pool[a]
             new == [traffic |-> IF old.time = q.now THEN old.traffic + q.len ELSE q.len,
                     time |-> q.now]
  <1>1. /\ q \in Request /\ q # NoRequest
        /\ a \in Addr /\ q.len \in Nat /\ q.now \in Seconds
        /\ old \in Entry /\ old # NoEntry
        /\ IsLimited(a) /\ Limit(a) \in Nat /\ q.len <= Limit(a)
    BY AtUpdate DEF FetchUpdate
  <1>2. /\ Updated(old, q) = new
        /\ old.time = q.now => old.traffic + q.len <= Limit(a)
    BY <1>1 DEF Updated, Entry
  <1>3. /\ Returns(p, "Accept")
        /\ pool' = [pool EXCEPT ![a] = new]
        /\ spent' = [spent EXCEPT ![a][q.now] = @ + q.len]
        /\ setBack' = [setBack EXCEPT ![a] = [s \in Seconds |->
               IF s \in q.now .. old.time /\ q.now # old.time THEN @[s] + 1 ELSE @[s]]]
        /\ UNCHANGED clock
    BY <1>2 DEF FetchUpdate
  <1>4. new \in Entry /\ new # NoEntry
    BY <1>1, FlowAssumption DEF Entry, Seconds
  <1>5. /\ spent \in [Addr -> [Seconds -> Nat]] /\ setBack \in [Addr -> [Seconds -> Nat]]
        /\ pool \in [Addr -> Entry \cup {NoEntry}]
    BY DEF IInv, TypeOK
  <1>6. ASSUME NEW b \in Addr, b # a
        PROVE  pool'[b] = pool[b] /\ spent'[b] = spent[b] /\ setBack'[b] = setBack[b]
    BY <1>3, <1>5, <1>6
  <1>7. /\ pool'[a] = new
        /\ \A s \in Seconds :
              /\ spent'[a][s] = IF s = q.now THEN spent[a][s] + q.len ELSE spent[a][s]
              /\ setBack'[a][s] = IF s \in q.now .. old.time /\ q.now # old.time
                                  THEN setBack[a][s] + 1 ELSE setBack[a][s]
    BY <1>1, <1>3, <1>5
  <1>8. \A s \in Seconds : spent[a][s] \in Nat /\ setBack[a][s] \in Nat
    BY <1>1, <1>5
  <1>9. \A s \in Seconds : Bounded(spent[a][s], setBack[a][s], Limit(a), s, old)
    BY <1>1 DEF IInv, SpentIsBounded
  <1>10. TypeOK'
    <2>1. spent' \in [Addr -> [Seconds -> Nat]]
      BY <1>1, <1>3, <1>5
    <2>2. setBack' \in [Addr -> [Seconds -> Nat]]
      <3>1. [s \in Seconds |-> IF s \in q.now .. old.time /\ q.now # old.time
                               THEN setBack[a][s] + 1 ELSE setBack[a][s]] \in [Seconds -> Nat]
        BY <1>8
      <3>2. QED
        BY <1>1, <1>3, <1>5, <3>1
    <2>3. pool' \in [Addr -> Entry \cup {NoEntry}]
      BY <1>1, <1>3, <1>4, <1>5
    <2>4. QED
      BY <1>3, <2>1, <2>2, <2>3 DEF Returns, IInv, TypeOK
  <1> HIDE DEF new
  <1>11. SpentIsBounded'
    <2>1. ASSUME NEW s \in Seconds
          PROVE  Bounded(spent'[a][s], setBack'[a][s], Limit(a), s, new)
      BY <1>1, <1>2, <1>7, <1>8, <1>9, UpdateKeepsBound DEF new
    <2>2. QED
      BY <1>6, <1>7, <2>1 DEF IInv, SpentIsBounded
  <1>12. EntryIsAccount'
    <2>1. /\ old.traffic \in Nat /\ old.time \in Seconds
          /\ old.traffic <= spent[a][old.time]
          /\ setBack[a][old.time] = 0 => old.traffic = spent[a][old.time]
      BY <1>1 DEF IInv, EntryIsAccount, Entry
    <2>2. new.traffic <= spent'[a][q.now]
      BY <1>1, <1>7, <1>8, <2>1 DEF new
    <2>3. ASSUME setBack'[a][q.now] = 0 PROVE new.traffic = spent'[a][q.now]
      <3>1. /\ setBack[a][q.now] = 0
            /\ ~(q.now \in q.now .. old.time /\ q.now # old.time)
        BY <1>1, <1>7, <1>8, <2>3
      <3>2. CASE old.time = q.now
        BY <1>1, <1>7, <1>8, <2>1, <3>1, <3>2 DEF new
      <3>3. CASE old.time < q.now
        <4>1. spent[a][q.now] <= setBack[a][q.now] * Limit(a)
          BY <1>1, <1>9, <3>3 DEF Bounded
        <4>2. spent[a][q.now] = 0
          BY <1>1, <1>8, <3>1, <4>1
        <4>3. QED
          BY <1>1, <1>7, <2>1, <3>3, <4>2, FlowAssumption DEF new, Seconds
      <3>4. QED
        BY <1>1, <2>1, <3>1, <3>2, <3>3, FlowAssumption DEF Seconds
    <2>4. new.time = q.now
      BY DEF new
    <2>5. QED
      BY <1>6, <1>7, <2>2, <2>3, <2>4 DEF IInv, EntryIsAccount
  <1>13. Cleared'
    BY <1>4, <1>6, <1>7 DEF IInv, Cleared
  <1>14. PushesAreLimited'
    <2>1. \A b \in Addr : pool[b] # NoEntry => pool'[b] # NoEntry
      BY <1>4, <1>6, <1>7
    <2>2. \A o \in Pusher : push'[o] # NoRequest => push'[o] = push[o] /\ push[o] \in Request
      BY <1>3 DEF Returns, IInv, TypeOK
    <2>3. QED
      BY <2>1, <2>2 DEF IInv, PushesAreLimited, Request
  <1>15. QED
    BY <1>10, <1>11, <1>12, <1>13, <1>14 DEF IInv

LEMMA StepIInv == IInv /\ [Next]_vars => IInv'
  <1> SUFFICES ASSUME IInv, [Next]_vars PROVE IInv'
    OBVIOUS
  <1> USE FlowAssumption DEF IInv, TypeOK
  <1>1. ASSUME NEW p \in Pusher, NEW a \in Addr, NEW len \in Lengths, StartPush(p, a, len)
        PROVE  IInv'
    BY <1>1, StartKeeps
  <1>2. ASSUME NEW p \in Pusher, FetchUpdate(p) PROVE IInv'
    <2>1. CASE Updated(pool[push[p].dst], push[p]) = NoEntry
      <3>1. Returns(p, "Reject") /\ UNCHANGED <<pool, spent, setBack, clock>>
        BY <1>2, <2>1 DEF FetchUpdate
      <3>2. QED
        BY <3>1
        DEF Returns, EntryIsAccount, PushesAreLimited, Cleared, SpentIsBounded
    <2>2. QED
      BY <1>2, <2>1, AcceptKeeps
  <1>3. ASSUME NEW a \in Addr, AddAddress(a) PROVE IInv'
    <2> DEFINE new == [traffic |-> 0, time |-> clock]
    <2>1. /\ PoolIsFree /\ pool[a] = NoEntry
          /\ pool' = [pool EXCEPT ![a] = new]
          /\ UNCHANGED <<push, result, clock, spent, setBack>>
      BY <1>3 DEF AddAddress
    <2>2. new \in Entry /\ new # NoEntry
      BY DEF Entry, Seconds
    <2>3. TypeOK'
      BY <2>1, <2>2
    <2>4. \A s \in Seconds : spent[a][s] = 0 /\ setBack[a][s] \in Nat
      BY <2>1 DEF Cleared
    <2>5. EntryIsAccount'
      BY <2>1, <2>4 DEF EntryIsAccount
    <2>6. SpentIsBounded'
      <3>1. ASSUME NEW s \in Seconds, IsLimited(a)
            PROVE  Bounded(spent[a][s], setBack[a][s], Limit(a), s, new)
        <4>1. Limit(a) \in Nat /\ setBack[a][s] * Limit(a) \in Nat
          BY <2>4, <3>1, LimitIsNat, OnceMore
        <4>2. QED
          BY <2>4, <4>1 DEF Bounded, Seconds
      <3>2. QED
        BY <2>1, <3>1 DEF SpentIsBounded
    <2>7. Cleared' /\ PushesAreLimited'
      BY <2>1, <2>2 DEF PoolIsFree, Cleared, PushesAreLimited
    <2>8. QED
      BY <2>3, <2>5, <2>6, <2>7
  <1>4. ASSUME NEW a \in Addr, RemoveAddress(a) PROVE IInv'
    BY <1>4
    DEF RemoveAddress, PoolIsFree, EntryIsAccount, PushesAreLimited, Cleared, SpentIsBounded
  <1>5. ASSUME Tick PROVE IInv'
    BY <1>5
    DEF Tick, Seconds, EntryIsAccount, PushesAreLimited, Cleared, SpentIsBounded
  <1>6. CASE UNCHANGED vars
    BY <1>6 DEF vars, EntryIsAccount, PushesAreLimited, Cleared, SpentIsBounded
  <1>7. QED
    BY <1>1, <1>2, <1>3, <1>4, <1>5, <1>6 DEF Next

LEMMA InvImpliesLimit == IInv => RateLimited
  <1> SUFFICES ASSUME IInv, NEW a \in Addr, NEW s \in Seconds, IsLimited(a)
               PROVE  spent[a][s] <= (1 + setBack[a][s]) * Limit(a)
    BY DEF RateLimited
  <1>1. /\ Limit(a) \in Nat /\ spent[a][s] \in Nat /\ setBack[a][s] \in Nat
    BY LimitIsNat DEF IInv, TypeOK
  <1>2. /\ setBack[a][s] * Limit(a) \in Nat
        /\ (1 + setBack[a][s]) * Limit(a) = setBack[a][s] * Limit(a) + Limit(a)
    BY <1>1, OnceMore
  <1>3. CASE pool[a] = NoEntry
    BY <1>1, <1>2, <1>3 DEF IInv, Cleared
  <1>4. CASE pool[a] # NoEntry
    <2>1. pool[a].traffic \in Nat /\ pool[a].time \in Seconds
      BY <1>4 DEF IInv, TypeOK, Entry
    <2>2. Bounded(spent[a][s], setBack[a][s], Limit(a), s, pool[a])
      BY <1>4 DEF IInv, SpentIsBounded
    <2>3. QED
      BY <1>1, <1>2, <2>1, <2>2, FlowAssumption DEF Bounded, Seconds
  <1>5. QED
    BY <1>3, <1>4

(* Of the pushes that read one second no more than the limit is accepted   *)
(* for any address, and the limit once more for each push that a later one *)
(* has overtaken.                                                          *)
THEOREM LimitHolds == Spec => []RateLimited
  <1>1. IInv /\ [Next]_vars => IInv'
    BY StepIInv
  <1>2. Init => IInv
    BY InitIInv
  <1>3. IInv => RateLimited
    BY InvImpliesLimit
  <1>4. QED
    BY <1>1, <1>2, <1>3, PTL DEF Spec

(* And the entry of an address is the exact account of its second, unless  *)
(* an overtaken push has set it back; it never counts too much.            *)
THEOREM AccountIsExact == Spec => []EntryIsAccount
  <1>1. IInv /\ [Next]_vars => IInv'
    BY StepIInv
  <1>2. Init => IInv
    BY InitIInv
  <1>3. IInv => EntryIsAccount
    BY DEF IInv
  <1>4. QED
    BY <1>1, <1>2, <1>3, PTL DEF Spec

(* And the pool, the pushes and the clock keep their types. *)
THEOREM TypesHold == Spec => []TypeOK
  <1>1. IInv /\ [Next]_vars => IInv'
    BY StepIInv
  <1>2. Init => IInv
    BY InitIInv
  <1>3. IInv => TypeOK
    BY DEF IInv
  <1>4. QED
    BY <1>1, <1>2, <1>3, PTL DEF Spec

(* And a push that got as far as the account is refused only if its packet *)
(* does not fit into what is left of the second it has read.               *)
LEMMA RejectedPush ==
    ASSUME IInv, [Next]_vars, NEW p \in Pusher,
           push[p] # NoRequest, push'[p] = NoRequest, result'[p] = "Reject"
    PROVE  spent[push[p].dst][push[p].now] + push[p].len > Limit(push[p].dst)
  <1> DEFINE q == push[p]
             e == Updated(pool[q.dst], q)
  <1>1. /\ q.now \in Seconds /\ q.dst \in Addr /\ q.len \in Nat
        /\ pool[q.dst] \in Entry /\ pool[q.dst] # NoEntry
        /\ Limit(q.dst) \in Nat
    BY AtUpdate
  <1>2. FetchUpdate(p)
    <2>1. ASSUME NEW o \in Pusher, FetchUpdate(o) PROVE o = p
      BY <2>1 DEF FetchUpdate, Returns, IInv, TypeOK
    <2>2. ASSUME NEW o \in Pusher, NEW a \in Addr, NEW len \in Lengths, StartPush(o, a, len)
          PROVE  push'[p] = push[p]
      <3>1. CASE o = p
        BY <2>2, <3>1 DEF StartPush
      <3>2. CASE o # p
        BY <2>2, <3>2 DEF StartPush, Returns, IInv, TypeOK
      <3>3. QED
        BY <3>1, <3>2
    <2>3. ~UNCHANGED push
      OBVIOUS
    <2>4. QED
      BY <2>1, <2>2, <2>3 DEF Next, vars, AddAddress, RemoveAddress, Tick
  <1>3. e = NoEntry
    BY <1>2 DEF FetchUpdate, Returns, IInv, TypeOK
  <1>4. pool[q.dst].time = q.now
    <2>1. [traffic |-> q.len, time |-> q.now] \in Entry
      BY <1>1 DEF Entry
    <2>2. QED
      BY <1>1, <1>3, <2>1, FlowAssumption DEF Updated, Entry, Seconds
  <1>5. /\ pool[q.dst].traffic \in Nat /\ spent[q.dst][q.now] \in Nat
        /\ pool[q.dst].traffic <= spent[q.dst][q.now]
    BY <1>1, <1>4 DEF IInv, TypeOK, EntryIsAccount, Entry
  <1>6. ~(pool[q.dst].traffic + q.len <= Limit(q.dst))
    <2>1. [traffic |-> pool[q.dst].traffic + q.len, time |-> pool[q.dst].time] \in Entry
      BY <1>1, <1>5 DEF Entry
    <2>2. QED
      BY <1>1, <1>3, <1>4, <2>1, FlowAssumption DEF Updated, Entry, Seconds
  <1>7. QED
    BY <1>1, <1>5, <1>6

THEOREM RejectedOnlyWhenFull == Spec => RejectIsNeeded
  <1>1. IInv /\ [Next]_vars => IInv'
    BY StepIInv
  <1>2. Init => IInv
    BY InitIInv
  <1>3. IInv /\ [Next]_vars =>
          [\A p \in Pusher : push[p] # NoRequest /\ push'[p] = NoRequest /\ result'[p] = "Reject" =>
              spent[push[p].dst][push[p].now] + push[p].len > Limit(push[p].dst)]_vars
    BY RejectedPush
  <1>4. QED
    BY <1>1, <1>2, <1>3, PTL DEF Spec, RejectIsNeeded

----------------------------------------------------------------------------
(* The allocator: its definitions have names of their own, so both modules  *)
(* can be looked at from here.                                             *)

(* A task that is about to exchange has seen a start its piece fits after, *)
(* and the buffer it looks at is there.                                    *)
ExchangeFits ==
    \A t \in Task :
        /\ pc[t] # "idle" => size[t] \in Sizes
        /\ pc[t] = "cas" => buffer # 0 /\ Fits(seen[t], size[t])

BuffersInv == AllocTypeOK /\ ExchangeFits /\ StartIsFrontier /\ NoOverlap

LEMMA InitBuffers == AllocInit => BuffersInv
  BY AllocatorAssumption
  DEF AllocInit, BuffersInv, AllocTypeOK, ExchangeFits, StartIsFrontier, NoOverlap

(* Handing out the bytes after the frontier keeps the frontier. *)
LEMMA HandOutKeeps ==
    ASSUME BuffersInv, NEW t \in Task, NEW lo \in 0 .. BUFFER_SIZE, NEW hi \in 0 .. BUFFER_SIZE,
           lo <= hi, HandOut(t, lo, hi, 0 .. lo - 1), start' = hi,
           buffer' \in {1, 2}
    PROVE  BuffersInv'
  <1> USE AllocatorAssumption DEF BuffersInv
  <1>1. handed' = 0 .. hi - 1
    BY DEF HandOut
  <1>2. (0 .. lo - 1) \cap (lo .. hi - 1) = {}
    OBVIOUS
  <1>3. twice' = {}
    BY <1>2 DEF HandOut, NoOverlap
  <1>4. AllocTypeOK'
    BY <1>1, <1>3 DEF AllocTypeOK, HandOut, Goto
  <1>5. ExchangeFits'
    BY DEF AllocTypeOK, ExchangeFits, HandOut, Goto
  <1>6. QED
    BY <1>1, <1>3, <1>4, <1>5 DEF StartIsFrontier, NoOverlap

LEMMA StepBuffers == BuffersInv /\ [AllocNext]_allocVars => BuffersInv'
  <1> SUFFICES ASSUME BuffersInv, [AllocNext]_allocVars PROVE BuffersInv'
    OBVIOUS
  <1> USE AllocatorAssumption DEF BuffersInv, AllocTypeOK, Goto
  <1>1. ASSUME NEW t \in Task, NEW n \in Sizes, Alloc(t, n) PROVE BuffersInv'
    BY <1>1 DEF Alloc, ExchangeFits, StartIsFrontier, NoOverlap
  <1>2. ASSUME NEW t \in Task, Load(t) PROVE BuffersInv'
    BY <1>2 DEF Load, ExchangeFits, StartIsFrontier, NoOverlap
  <1>3. ASSUME NEW t \in Task, Exchange(t) PROVE BuffersInv'
    <2>1. /\ start = seen[t] /\ start' = start + size[t]
          /\ start' \in 0 .. BUFFER_SIZE /\ start <= start'
          /\ buffer' \in {1, 2}
      BY <1>3 DEF Exchange, ExchangeFits, Fits
    <2>2. HandOut(t, start, start', 0 .. start - 1)
      BY <1>3, <2>1 DEF Exchange, StartIsFrontier
    <2>3. QED
      BY <2>1, <2>2, HandOutKeeps
  <1>4. ASSUME NEW t \in Task, ExchangeFails(t) PROVE BuffersInv'
    BY <1>4 DEF ExchangeFails, ExchangeFits, StartIsFrontier, NoOverlap
  <1>5. ASSUME NEW t \in Task, Write(t) PROVE BuffersInv'
    <2>1. size[t] \in 1 .. BUFFER_SIZE
      BY <1>5 DEF Write, ExchangeFits
    <2>2. CASE buffer # 0 /\ Fits(start, size[t])
      <3>1. /\ start' = start + size[t] /\ start' \in 0 .. BUFFER_SIZE
            /\ start <= start' /\ buffer' \in {1, 2}
        BY <1>5, <2>1, <2>2 DEF Write, Fits
      <3>2. HandOut(t, start, start', 0 .. start - 1)
        BY <1>5, <2>2 DEF Write, StartIsFrontier
      <3>3. QED
        BY <3>1, <3>2, HandOutKeeps
    <2>3. CASE ~(buffer # 0 /\ Fits(start, size[t]))
      <3>1. /\ start' = size[t] /\ start' \in 0 .. BUFFER_SIZE
            /\ buffer' \in {1, 2}
        BY <1>5, <2>1, <2>3 DEF Write
      <3>2. HandOut(t, 0, start', 0 .. 0 - 1)
        BY <1>5, <2>3 DEF Write
      <3>3. QED
        BY <3>1, <3>2, HandOutKeeps
    <2>4. QED
      BY <2>2, <2>3
  <1>6. CASE UNCHANGED allocVars
    BY <1>6 DEF allocVars, ExchangeFits, StartIsFrontier, NoOverlap
  <1>7. QED
    BY <1>1, <1>2, <1>3, <1>4, <1>5, <1>6 DEF AllocNext, Step

(* No byte is in two pieces, however the exchanges of the tasks overlap. *)
THEOREM PiecesAreDisjoint == AllocSpec => []NoOverlap
  <1>1. BuffersInv => NoOverlap
    BY DEF BuffersInv
  <1>2. QED
    BY <1>1, InitBuffers, StepBuffers, PTL DEF AllocSpec

(* The start of the buffer is exact: nothing beyond it has been handed out *)
(* and nothing before it is lost.                                          *)
THEOREM NothingIsWasted == AllocSpec => []StartIsFrontier
  <1>1. BuffersInv => StartIsFrontier
    BY DEF BuffersInv
  <1>2. QED
    BY <1>1, InitBuffers, StepBuffers, PTL DEF AllocSpec

(* The start of a buffer never passes its end, and no task takes a piece   *)
(* beyond it.                                                              *)
THEOREM StaysWithinBuffer == AllocSpec => []AllocTypeOK
  <1>1. BuffersInv => AllocTypeOK
    BY DEF BuffersInv
  <1>2. QED
    BY <1>1, InitBuffers, StepBuffers, PTL DEF AllocSpec
=============================================================================

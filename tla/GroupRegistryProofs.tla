------------------------- MODULE GroupRegistryProofs -------------------------
(***************************************************************************)
(* Proofs about GroupRegistry for any number of tunnels, any address range *)
(* and any sets of nonces and public addresses.                            *)
(***************************************************************************)
EXTENDS GroupRegistry, TLAPS

(* The data a tunnel's task carries is there at the locations that use it. *)
LocalsOK ==
    \A t \in Tunnel :
        /\ pc[t] \in {"nonce", "allocate"} => msg[t] \in Message
        /\ pc[t] \in Holding => register[t] \in Addr

TypeInv == TypeOK /\ LocalsOK

(* The syncing sections of the lock are those of JoinSync and DropSync. *)
LockOwner == \A t \in Tunnel : lock = t <=> pc[t] \in {"join_sync", "drop_sync"}

(* A flow entry lives from JoinFlow to DropFlow. *)
Metered == {"respond", "run", "drop_mapping", "drop_sync", "drop_flow"}
FlowIsMetered ==
    /\ \A t \in Tunnel : pc[t] \in Metered => register[t] \in flow
    /\ \A a \in flow : \E t \in Tunnel : pc[t] \in Metered /\ register[t] = a

(* A tunnel starts its sender with the watch unseen. *)
StartsUnseen == \A t \in Tunnel : pc[t] = "respond" => t \in unseen

IInv ==
    /\ OneOwner /\ MappingIsOwned /\ LockOwner /\ FlowIsMetered
    /\ PublishedIsMapping /\ StartsUnseen /\ NoLostUpdate

----------------------------------------------------------------------------
LEMMA AllocateAnswers ==
    ASSUME NEW a \in Addr
    PROVE  AllocateResult(a) \in AllocateError \cup {"Ok"}
  BY AddrAssumption DEF AllocateResult, AllocateError

(* Only an unused host is allocated. *)
LEMMA AllocateOk ==
    ASSUME NEW a \in Addr, AllocateResult(a) = "Ok"
    PROVE  a \notin used
  BY AddrAssumption DEF AllocateResult

LEMMA NodeListType ==
    ASSUME NEW mp \in [Addr -> Tunnel \cup {NoTunnel}],
           NEW w \in [Tunnel -> Wan \cup {NoWan}]
    PROVE  NodeList(mp, w) \in NodeMap
  BY DEF NodeList, NodeMap, NodeEntry

LEMMA TypeInit == Init => TypeInv
  BY AddrAssumption, TunnelAssumption
  DEF Init, TypeInv, TypeOK, LocalsOK, Location, Holding, Dropping, NoMsg, Answer,
      ReplyKind, NodeMap, EmptyMap

LEMMA TypeStep == TypeInv /\ [Next]_vars => TypeInv'
  <1> SUFFICES ASSUME TypeInv, [Next]_vars PROVE TypeInv'
    OBVIOUS
  <1> USE DEF TypeInv, TypeOK, LocalsOK, Location, Holding, Dropping, Goto,
              addressVars, directoryVars, watchVars
  <1>1. ASSUME NEW t \in Tunnel, Accept(t) PROVE TypeInv'
    BY <1>1 DEF Accept, Answer, ReplyKind
  <1>2. ASSUME NEW t \in Tunnel, GetIdleVirtualAddr(t) PROVE TypeInv'
    BY <1>2 DEF GetIdleVirtualAddr, Answer, ReplyKind, IdleAddrs
  <1>0. ASSUME NEW t \in Tunnel, NEW kind \in ReplyKind, Refuse(t, kind),
               UNCHANGED <<register, used, nonces, flow, mapping, wan, lock, published,
                           unseen, sending, sent>>
        PROVE  TypeInv'
    BY <1>0 DEF Refuse, Answer
  <1>3. ASSUME NEW t \in Tunnel, NEW m \in Message, NEW inWindow \in BOOLEAN,
               ReadRegister(t, m, inWindow)
        PROVE TypeInv'
    <2>1. CASE inWindow
      BY <1>3, <2>1 DEF ReadRegister
    <2>2. CASE ~inWindow
      BY <1>0, <1>3, <2>2 DEF ReadRegister, ReplyKind
    <2>3. QED
      BY <2>1, <2>2
  <1>4. ASSUME NEW t \in Tunnel, Disconnect(t) PROVE TypeInv'
    <2>1. EmptyMap \in NodeMap
      BY DEF EmptyMap, NodeMap
    <2>2. QED
      BY <1>4, <2>1 DEF Disconnect
  <1>5. ASSUME NEW t \in Tunnel, CheckNonce(t) PROVE TypeInv'
    <2>1. CASE msg[t].nonce \in nonces
      BY <1>0, <1>5, <2>1 DEF CheckNonce, ReplyKind
    <2>2. CASE msg[t].nonce \notin nonces
      BY <1>5, <2>2 DEF CheckNonce, Message
    <2>3. QED
      BY <2>1, <2>2
  <1>6. ASSUME NEW t \in Tunnel, Allocate(t) PROVE TypeInv'
    <2>1. msg[t].addr \in Addr
      BY <1>6 DEF Allocate, Message
    <2>2. CASE AllocateResult(msg[t].addr) = "Ok"
      <3> DEFINE b == msg[t].addr
      <3>1. /\ used' = used \cup {b}
            /\ register' = [register EXCEPT ![t] = b]
            /\ msg' = [msg EXCEPT ![t] = NoMsg]
            /\ pc' = [pc EXCEPT ![t] = "join"]
            /\ UNCHANGED <<reply, nonces, flow, directoryVars, watchVars>>
        BY <1>6, <2>2 DEF Allocate
      <3> HIDE DEF b
      <3>2. b \in Addr
        BY <2>1 DEF b
      <3>3. QED
        BY <3>1, <3>2
    <2>3. CASE AllocateResult(msg[t].addr) # "Ok"
      <3>1. AllocateResult(msg[t].addr) \in AllocateError
        BY <2>1, <2>3, AllocateAnswers
      <3>2. QED
        BY <1>0, <1>6, <2>3, <3>1 DEF Allocate, ReplyKind
    <2>4. QED
      BY <2>2, <2>3
  <1>7. ASSUME NEW t \in Tunnel, JoinInsert(t) PROVE TypeInv'
    BY <1>7 DEF JoinInsert
  <1>8. ASSUME Sync, UNCHANGED <<msg, register, reply, nonces, used, flow>>,
               pc' \in [Tunnel -> Location],
               \A t \in Tunnel : pc'[t] = pc[t] \/ (pc[t] \in Holding /\ pc'[t] \in Holding)
        PROVE TypeInv'
    BY <1>8, NodeListType DEF Sync
  <1>9. ASSUME NEW t \in Tunnel, JoinSync(t) PROVE TypeInv'
    BY <1>8, <1>9 DEF JoinSync
  <1>10. ASSUME NEW t \in Tunnel, JoinFlow(t) PROVE TypeInv'
    BY <1>10 DEF JoinFlow
  <1>11. ASSUME NEW t \in Tunnel, Respond(t) PROVE TypeInv'
    BY <1>11 DEF Respond, Answer, ReplyKind
  <1>12. ASSUME NEW t \in Tunnel, WatchChanged(t) PROVE TypeInv'
    BY <1>12 DEF WatchChanged
  <1>13. ASSUME NEW t \in Tunnel, SendNodeMap(t) PROVE TypeInv'
    BY <1>13 DEF SendNodeMap
  <1>14. ASSUME NEW t \in Tunnel, DropRemove(t) PROVE TypeInv'
    BY <1>14 DEF DropRemove
  <1>15. ASSUME NEW t \in Tunnel, DropSync(t) PROVE TypeInv'
    BY <1>8, <1>15 DEF DropSync
  <1>16. ASSUME NEW t \in Tunnel, DropFlow(t) PROVE TypeInv'
    BY <1>16 DEF DropFlow
  <1>17. ASSUME NEW t \in Tunnel, DropRelease(t) PROVE TypeInv'
    BY <1>17 DEF DropRelease, EmptyMap, NodeMap
  <1>18. ASSUME NEW n \in Nonce, ForgetNonce(n) PROVE TypeInv'
    BY <1>18 DEF ForgetNonce
  <1>19. ASSUME NEW a \in Addr, NEW w \in Wan, UdpStoreWan(a, w) PROVE TypeInv'
    BY <1>19 DEF UdpStoreWan
  <1>20. CASE UdpSync
    BY <1>8, <1>20 DEF UdpSync
  <1>21. CASE UNCHANGED vars
    BY <1>21 DEF vars
  <1>22. QED
    BY <1>1, <1>2, <1>3, <1>4, <1>5, <1>6, <1>7, <1>9, <1>10, <1>11, <1>12,
       <1>13, <1>14, <1>15, <1>16, <1>17, <1>18, <1>19, <1>20, <1>21
    DEF Next, Locking, Running, Environment

(* Every variable keeps its type, and the message and the address a tunnel *)
(* works with are there when its task uses them.                           *)
THEOREM TypeCorrect == Spec => []TypeInv
  BY TypeInit, TypeStep, PTL DEF Spec

----------------------------------------------------------------------------
(* Ownership: who holds, lists, locks and accounts an address. *)
Ownership == OneOwner /\ MappingIsOwned /\ LockOwner /\ FlowIsMetered

(* A step that leaves the shared state alone and moves tasks only between  *)
(* locations that mean the same to it keeps the ownership.                 *)
QuietStep ==
    /\ UNCHANGED <<register, used, mapping, lock, flow>>
    /\ \A t \in Tunnel :
        /\ pc'[t] \in Holding <=> pc[t] \in Holding
        /\ pc'[t] \in Mapped <=> pc[t] \in Mapped
        /\ pc'[t] \in Metered <=> pc[t] \in Metered
        /\ pc'[t] \in {"join_sync", "drop_sync"} <=> pc[t] \in {"join_sync", "drop_sync"}

LEMMA QuietKeeps == Ownership /\ QuietStep => Ownership'
  BY DEF QuietStep, Ownership, OneOwner, MappingIsOwned, LockOwner, FlowIsMetered, Holds

LEMMA OwnershipInit == Init => Ownership
  BY TunnelAssumption
  DEF Init, Ownership, OneOwner, MappingIsOwned, LockOwner, FlowIsMetered, Holds,
      Holding, Dropping, Mapped, Metered

LEMMA OwnershipStep == TypeInv /\ Ownership /\ [Next]_vars => Ownership'
  <1> SUFFICES ASSUME TypeInv, Ownership, [Next]_vars PROVE Ownership'
    OBVIOUS
  <1> USE TunnelAssumption DEF TypeInv, TypeOK, LocalsOK, Goto, addressVars,
          directoryVars, watchVars
  <1>q. ASSUME QuietStep PROVE Ownership'
    BY <1>q, QuietKeeps
  <1>1. ASSUME NEW t \in Tunnel,
               \/ Accept(t) \/ GetIdleVirtualAddr(t) \/ Disconnect(t)
               \/ \E m \in Message, inWindow \in BOOLEAN : ReadRegister(t, m, inWindow)
               \/ CheckNonce(t) \/ Respond(t) \/ WatchChanged(t) \/ SendNodeMap(t)
        PROVE  Ownership'
    <2>1. CASE Accept(t)
      BY <1>q, <2>1 DEF Accept, QuietStep, Holding, Dropping, Mapped, Metered
    <2>2. CASE GetIdleVirtualAddr(t)
      BY <1>q, <2>2 DEF GetIdleVirtualAddr, QuietStep
    <2>3. CASE Disconnect(t)
      BY <1>q, <2>3 DEF Disconnect, QuietStep, Holding, Dropping, Mapped, Metered
    <2>4. CASE \E m \in Message, inWindow \in BOOLEAN : ReadRegister(t, m, inWindow)
      BY <1>q, <2>4
      DEF ReadRegister, Refuse, QuietStep, Holding, Dropping, Mapped, Metered
    <2>5. CASE CheckNonce(t)
      BY <1>q, <2>5
      DEF CheckNonce, Refuse, QuietStep, Holding, Dropping, Mapped, Metered
    <2>6. CASE Respond(t)
      BY <1>q, <2>6 DEF Respond, QuietStep, Holding, Dropping, Mapped, Metered
    <2>7. CASE WatchChanged(t)
      BY <1>q, <2>7 DEF WatchChanged, QuietStep
    <2>8. CASE SendNodeMap(t)
      BY <1>q, <2>8 DEF SendNodeMap, QuietStep
    <2>9. QED
      BY <1>1, <2>1, <2>2, <2>3, <2>4, <2>5, <2>6, <2>7, <2>8
  <1>2. ASSUME NEW t \in Tunnel, Allocate(t) PROVE Ownership'
    <2> DEFINE a == msg[t].addr
    <2>1. a \in Addr
      BY <1>2 DEF Allocate, Message
    <2>2. CASE AllocateResult(a) = "Ok"
      <3>1. a \notin used
        BY <2>1, <2>2, AllocateOk
      <3>2. /\ pc[t] = "allocate"
            /\ used' = used \cup {a}
            /\ register' = [register EXCEPT ![t] = a]
            /\ pc' = [pc EXCEPT ![t] = "join"]
            /\ UNCHANGED <<mapping, lock, flow>>
        BY <1>2, <2>2 DEF Allocate
      <3> HIDE DEF a
      <3>3. \A s \in Tunnel, b \in Addr : Holds(s, b)' <=> Holds(s, b) \/ (s = t /\ b = a)
        BY <3>2 DEF Holds, Holding, Dropping
      <3>4. OneOwner'
        BY <2>1, <3>1, <3>2, <3>3 DEF Ownership, OneOwner
      <3>5. MappingIsOwned'
        BY <3>2 DEF Ownership, MappingIsOwned, Mapped
      <3>6. LockOwner' /\ FlowIsMetered'
        BY <3>2 DEF Ownership, LockOwner, FlowIsMetered, Metered
      <3>7. QED
        BY <3>4, <3>5, <3>6 DEF Ownership
    <2>3. CASE AllocateResult(a) # "Ok"
      <3>1. /\ pc[t] = "allocate"
            /\ pc' = [pc EXCEPT ![t] = "closed"]
            /\ UNCHANGED <<register, used, mapping, lock, flow>>
        BY <1>2, <2>3 DEF Allocate, Refuse
      <3>2. QED
        BY <1>q, <3>1 DEF QuietStep, Holding, Dropping, Mapped, Metered
    <2>4. QED
      BY <2>2, <2>3
  <1>3. ASSUME NEW t \in Tunnel, JoinInsert(t) PROVE Ownership'
    <2>1. \A s \in Tunnel, b \in Addr : Holds(s, b)' <=> Holds(s, b)
      BY <1>3 DEF JoinInsert, Holds, Holding, Dropping
    <2>2. OneOwner'
      BY <1>3, <2>1 DEF JoinInsert, Ownership, OneOwner
    <2>3. \A s \in Tunnel : mapping[register[t]] # s
      <3> SUFFICES ASSUME NEW s \in Tunnel, mapping[register[t]] = s PROVE FALSE
        OBVIOUS
      <3>1. pc[t] = "join" /\ register[t] \in Addr
        BY <1>3 DEF JoinInsert, Holding
      <3>2. pc[s] \in Mapped /\ register[s] = register[t]
        BY <3>1 DEF Ownership, MappingIsOwned
      <3>3. s = t
        BY <3>1, <3>2 DEF Ownership, OneOwner, Holds, Holding, Dropping, Mapped
      <3>4. QED
        BY <3>1, <3>2, <3>3 DEF Mapped
    <2>4. MappingIsOwned'
      BY <1>3, <2>3 DEF JoinInsert, Ownership, MappingIsOwned, Mapped, Holding
    <2>5. LockOwner' /\ FlowIsMetered'
      BY <1>3 DEF JoinInsert, Ownership, LockOwner, FlowIsMetered, Metered
    <2>6. QED
      BY <2>2, <2>4, <2>5 DEF Ownership
  <1>4. ASSUME NEW t \in Tunnel, JoinSync(t) PROVE Ownership'
    <2>1. OneOwner' /\ MappingIsOwned'
      BY <1>4 DEF JoinSync, Sync, Ownership, OneOwner, MappingIsOwned, Holds, Holding,
                  Dropping, Mapped
    <2>2. LockOwner' /\ FlowIsMetered'
      BY <1>4 DEF JoinSync, Sync, Ownership, LockOwner, FlowIsMetered, Metered
    <2>3. QED
      BY <2>1, <2>2 DEF Ownership
  <1>5. ASSUME NEW t \in Tunnel, JoinFlow(t) PROVE Ownership'
    <2>1. OneOwner' /\ MappingIsOwned' /\ LockOwner'
      BY <1>5 DEF JoinFlow, Ownership, OneOwner, MappingIsOwned, LockOwner, Holds,
                  Holding, Dropping, Mapped
    <2>2. FlowIsMetered'
      BY <1>5 DEF JoinFlow, Ownership, FlowIsMetered, Metered
    <2>3. QED
      BY <2>1, <2>2 DEF Ownership
  <1>6. ASSUME NEW t \in Tunnel, DropRemove(t) PROVE Ownership'
    <2>1. /\ pc[t] = "drop_mapping" /\ lock = Free
          /\ register[t] \in Addr
          /\ mapping[register[t]] = t
      BY <1>6 DEF DropRemove, Ownership, MappingIsOwned, Mapped, Holding, Dropping
    <2>2. /\ mapping' = [mapping EXCEPT ![register[t]] = NoTunnel]
          /\ lock' = t
          /\ pc' = [pc EXCEPT ![t] = "drop_sync"]
          /\ UNCHANGED <<register, used, flow>>
      BY <1>6, <2>1 DEF DropRemove
    <2>3. OneOwner'
      BY <2>1, <2>2 DEF Ownership, OneOwner, Holds, Holding, Dropping
    <2>4. MappingIsOwned'
      BY <2>1, <2>2 DEF Ownership, MappingIsOwned, Mapped
    <2>5. LockOwner' /\ FlowIsMetered'
      BY <2>1, <2>2 DEF Ownership, LockOwner, FlowIsMetered, Metered
    <2>6. QED
      BY <2>3, <2>4, <2>5 DEF Ownership
  <1>7. ASSUME NEW t \in Tunnel, DropSync(t) PROVE Ownership'
    <2>1. OneOwner' /\ MappingIsOwned'
      BY <1>7 DEF DropSync, Sync, Ownership, OneOwner, MappingIsOwned, Holds, Holding,
                  Dropping, Mapped
    <2>2. LockOwner' /\ FlowIsMetered'
      BY <1>7 DEF DropSync, Sync, Ownership, LockOwner, FlowIsMetered, Metered
    <2>3. QED
      BY <2>1, <2>2 DEF Ownership
  <1>8. ASSUME NEW t \in Tunnel, DropFlow(t) PROVE Ownership'
    <2>1. OneOwner' /\ MappingIsOwned' /\ LockOwner'
      BY <1>8 DEF DropFlow, Ownership, OneOwner, MappingIsOwned, LockOwner, Holds,
                  Holding, Dropping, Mapped
    <2>2. \A s \in Tunnel : pc[s] \in Holding /\ register[s] = register[t] => s = t
      BY <1>8 DEF DropFlow, Ownership, OneOwner, Holds, Holding, Dropping
    <2>3. FlowIsMetered'
      BY <1>8, <2>2 DEF DropFlow, Ownership, FlowIsMetered, Metered, Holding, Dropping
    <2>4. QED
      BY <2>1, <2>3 DEF Ownership
  <1>9. ASSUME NEW t \in Tunnel, DropRelease(t) PROVE Ownership'
    <2>1. \A s \in Tunnel : pc[s] \in Holding /\ register[s] = register[t] => s = t
      BY <1>9 DEF DropRelease, Ownership, OneOwner, Holds, Holding, Dropping
    <2>2. \A s \in Tunnel, b \in Addr : Holds(s, b)' <=> Holds(s, b) /\ s # t
      BY <1>9 DEF DropRelease, Holds, Holding, Dropping
    <2>3. OneOwner'
      BY <1>9, <2>1, <2>2 DEF DropRelease, Ownership, OneOwner, Holds, Holding, Dropping
    <2>4. MappingIsOwned'
      BY <1>9 DEF DropRelease, Ownership, MappingIsOwned, Mapped
    <2>5. LockOwner' /\ FlowIsMetered'
      BY <1>9 DEF DropRelease, Ownership, LockOwner, FlowIsMetered, Metered
    <2>6. QED
      BY <2>3, <2>4, <2>5 DEF Ownership
  <1>10. ASSUME NEW n \in Nonce, ForgetNonce(n) PROVE Ownership'
    BY <1>q, <1>10 DEF ForgetNonce, QuietStep
  <1>11. ASSUME NEW a \in Addr, NEW w \in Wan, UdpStoreWan(a, w) PROVE Ownership'
    BY <1>11 DEF UdpStoreWan, Ownership, OneOwner, MappingIsOwned, LockOwner,
                 FlowIsMetered, Holds
  <1>12. CASE UdpSync
    BY <1>12 DEF UdpSync, Sync, Ownership, OneOwner, MappingIsOwned, LockOwner,
                 FlowIsMetered, Holds
  <1>13. CASE UNCHANGED vars
    BY <1>q, <1>13 DEF vars, QuietStep
  <1>14. QED
    BY <1>1, <1>2, <1>3, <1>4, <1>5, <1>6, <1>7, <1>8, <1>9, <1>10, <1>11, <1>12,
       <1>13 DEF Next, Locking, Running, Environment

----------------------------------------------------------------------------
(* Publication: what the watch holds and what the senders have written. *)
Publication == PublishedIsMapping /\ StartsUnseen /\ NoLostUpdate

LEMMA PublicationInit == Init => Publication
  BY DEF Init, Publication, PublishedIsMapping, StartsUnseen, NoLostUpdate, NodeList,
         EmptyMap

(* A step outside the watch and the lock, of a tunnel whose sender is not  *)
(* running before or after it.                                             *)
LEMMA PublicationQuiet ==
    ASSUME Publication,
           UNCHANGED <<mapping, wan, lock, published, unseen, sending, sent>>,
           \A t \in Tunnel : pc'[t] \in {"respond", "run"} => pc'[t] = pc[t]
    PROVE  Publication'
  BY DEF Publication, PublishedIsMapping, StartsUnseen, NoLostUpdate

LEMMA PublicationStep ==
    TypeInv /\ Ownership /\ Publication /\ [Next]_vars => Publication'
  <1> SUFFICES ASSUME TypeInv, Ownership, Publication, [Next]_vars PROVE Publication'
    OBVIOUS
  <1> USE TunnelAssumption DEF TypeInv, TypeOK, LocalsOK, Goto, addressVars,
          directoryVars, watchVars
  <1>1. ASSUME NEW t \in Tunnel,
               \/ Accept(t) \/ GetIdleVirtualAddr(t) \/ CheckNonce(t) \/ Allocate(t)
               \/ \E m \in Message, inWindow \in BOOLEAN : ReadRegister(t, m, inWindow)
               \/ DropFlow(t)
        PROVE  Publication'
    BY <1>1, PublicationQuiet DEF Accept, GetIdleVirtualAddr, CheckNonce, Allocate,
       ReadRegister, Refuse, DropFlow
  <1>2. ASSUME NEW t \in Tunnel, Disconnect(t) PROVE Publication'
    BY <1>2 DEF Disconnect, Publication, PublishedIsMapping, StartsUnseen, NoLostUpdate
  <1>3. ASSUME NEW t \in Tunnel, JoinInsert(t) \/ DropRemove(t) PROVE Publication'
    <2>1. CASE JoinInsert(t)
      BY <2>1 DEF JoinInsert, Publication, PublishedIsMapping, StartsUnseen, NoLostUpdate
    <2>2. CASE DropRemove(t)
      BY <2>2 DEF DropRemove, Publication, PublishedIsMapping, StartsUnseen, NoLostUpdate
    <2>3. QED
      BY <1>3, <2>1, <2>2
  <1>4. ASSUME Sync PROVE Publication'
    BY <1>4 DEF Sync, Publication, PublishedIsMapping, StartsUnseen, NoLostUpdate
  <1>5. ASSUME NEW t \in Tunnel, JoinSync(t) \/ DropSync(t) PROVE Publication'
    BY <1>4, <1>5 DEF JoinSync, DropSync
  <1>6. ASSUME NEW t \in Tunnel, JoinFlow(t) PROVE Publication'
    BY <1>6 DEF JoinFlow, Publication, PublishedIsMapping, StartsUnseen, NoLostUpdate
  <1>7. ASSUME NEW t \in Tunnel, Respond(t) PROVE Publication'
    BY <1>7 DEF Respond, Publication, PublishedIsMapping, StartsUnseen, NoLostUpdate
  <1>8. ASSUME NEW t \in Tunnel, WatchChanged(t) \/ SendNodeMap(t) PROVE Publication'
    <2>1. CASE WatchChanged(t)
      BY <2>1 DEF WatchChanged, Publication, PublishedIsMapping, StartsUnseen, NoLostUpdate
    <2>2. CASE SendNodeMap(t)
      BY <2>2 DEF SendNodeMap, Publication, PublishedIsMapping, StartsUnseen, NoLostUpdate
    <2>3. QED
      BY <1>8, <2>1, <2>2
  <1>9. ASSUME NEW t \in Tunnel, DropRelease(t) PROVE Publication'
    BY <1>9 DEF DropRelease, Publication, PublishedIsMapping, StartsUnseen, NoLostUpdate
  <1>10. ASSUME NEW n \in Nonce, ForgetNonce(n) PROVE Publication'
    BY <1>10, PublicationQuiet DEF ForgetNonce
  <1>11. ASSUME NEW a \in Addr, NEW w \in Wan, UdpStoreWan(a, w) PROVE Publication'
    BY <1>11 DEF UdpStoreWan, Publication, PublishedIsMapping, StartsUnseen, NoLostUpdate
  <1>12. CASE UdpSync
    BY <1>4, <1>12 DEF UdpSync
  <1>13. CASE UNCHANGED vars
    BY <1>13, PublicationQuiet DEF vars
  <1>14. QED
    BY <1>1, <1>2, <1>3, <1>5, <1>6, <1>7, <1>8, <1>9, <1>10, <1>11, <1>12, <1>13
    DEF Next, Locking, Running, Environment

----------------------------------------------------------------------------
(* The inductive invariant holds in every reachable state. *)
THEOREM Invariant == Spec => [](TypeInv /\ IInv)
  <1>1. Init => TypeInv /\ IInv
    BY TypeInit, OwnershipInit, PublicationInit DEF IInv, Ownership, Publication
  <1>2. TypeInv /\ IInv /\ [Next]_vars => (TypeInv /\ IInv)'
    BY TypeStep, OwnershipStep, PublicationStep DEF IInv, Ownership, Publication
  <1>3. QED
    BY <1>1, <1>2, PTL DEF Spec

(* No virtual address is ever held by two connections, nor kept by none. *)
THEOREM NoSharedAddress == Spec => []OneOwner
  <1>1. TypeInv /\ IInv => OneOwner
    BY DEF IInv
  <1>2. QED
    BY <1>1, Invariant, PTL

(* The relay's directory lists exactly the connections that have joined.   *)
THEOREM DirectoryIsOwned == Spec => []MappingIsOwned
  <1>1. TypeInv /\ IInv => MappingIsOwned
    BY DEF IInv
  <1>2. QED
    BY <1>1, Invariant, PTL

(* Whoever reads the watch outside the lock reads the present directory.   *)
THEOREM MapIsCurrent == Spec => []PublishedIsMapping
  <1>1. TypeInv /\ IInv => PublishedIsMapping
    BY DEF IInv
  <1>2. QED
    BY <1>1, Invariant, PTL

(* A sender that waits has written the newest map to its node. *)
THEOREM NothingLost == Spec => []NoLostUpdate
  <1>1. TypeInv /\ IInv => NoLostUpdate
    BY DEF IInv
  <1>2. QED
    BY <1>1, Invariant, PTL

(* A registered node is listed and accounted until it is dropped, and the  *)
(* flow pool keeps no entry of a released address.                         *)
THEOREM RegisteredServed == Spec => []RegisteredIsServed
  <1>1. TypeInv /\ IInv => RegisteredIsServed
    <2> SUFFICES ASSUME TypeInv, IInv PROVE RegisteredIsServed
      OBVIOUS
    <2>1. ASSUME NEW t \in Tunnel, pc[t] \in {"respond", "run"}
          PROVE  mapping[register[t]] = t /\ register[t] \in flow
      <3>1. register[t] \in Addr
        BY <2>1 DEF TypeInv, LocalsOK, Holding
      <3>2. mapping[register[t]] = t
        BY <2>1, <3>1 DEF IInv, MappingIsOwned, Mapped
      <3>3. register[t] \in flow
        BY <2>1 DEF IInv, FlowIsMetered, Metered
      <3>4. QED
        BY <3>2, <3>3
    <2>2. flow \subseteq used
      BY DEF TypeInv, TypeOK, IInv, FlowIsMetered, OneOwner, Holds, Metered, Holding,
             Dropping
    <2>3. QED
      BY <2>1, <2>2 DEF RegisteredIsServed
  <1>2. QED
    BY <1>1, Invariant, PTL

----------------------------------------------------------------------------
(* Steps seen from the directory and from the pool. *)

LEMMA WhoUnlists ==
    ASSUME TypeInv, IInv, [Next]_vars, NEW a \in Addr, NEW t \in Tunnel,
           mapping[a] = t, mapping'[a] # t
    PROVE  pc[t] = "drop_mapping"
  <1> USE DEF directoryVars
  <1>1. PICK s \in Tunnel : JoinInsert(s) \/ DropRemove(s)
    BY DEF Next, Locking, Running, Environment, Accept, GetIdleVirtualAddr, Disconnect,
       ReadRegister, CheckNonce, Allocate, JoinSync, JoinFlow, Respond, WatchChanged,
       SendNodeMap, DropSync, DropFlow, DropRelease, ForgetNonce, UdpStoreWan, UdpSync,
       Sync, vars
  <1>2. /\ pc[s] \in Holding /\ register[s] \in Addr
        /\ a = register[s]
    BY <1>1 DEF TypeInv, TypeOK, LocalsOK, JoinInsert, DropRemove, Holding, Dropping
  <1>3. pc[t] \in Mapped /\ register[t] = a
    BY DEF IInv, MappingIsOwned
  <1>4. s = t
    BY <1>2, <1>3 DEF IInv, OneOwner, Holds, Holding, Dropping, Mapped
  <1>5. QED
    BY <1>1, <1>3, <1>4 DEF JoinInsert, DropRemove, Mapped

LEMMA ReleaseIsLast ==
    ASSUME TypeInv, IInv, NEW t \in Tunnel, DropRelease(t)
    PROVE  mapping[register[t]] = NoTunnel /\ register[t] \notin flow
  <1>1. /\ pc[t] = "drop_release" /\ register[t] \in Addr
        /\ \A s \in Tunnel : pc[s] \in Holding /\ register[s] = register[t] => s = t
    BY DEF TypeInv, LocalsOK, IInv, OneOwner, Holds, DropRelease, Holding, Dropping
  <1>2. \A s \in Tunnel : mapping[register[t]] # s
    BY <1>1 DEF IInv, MappingIsOwned, Mapped, Holding, Dropping
  <1>3. mapping[register[t]] = NoTunnel
    BY <1>1, <1>2 DEF TypeInv, TypeOK
  <1>4. register[t] \notin flow
    BY <1>1 DEF IInv, FlowIsMetered, Metered, Holding, Dropping
  <1>5. QED
    BY <1>3, <1>4

(* Only its own Drop takes a tunnel out of the directory. *)
THEOREM UnlistedByOwner == Spec => OnlyOwnerUnlists
  <1>1. TypeInv /\ IInv /\ [Next]_vars =>
          [\A a \in Addr, t \in Tunnel :
              mapping[a] = t /\ mapping'[a] # t => pc[t] = "drop_mapping"]_vars
    BY WhoUnlists
  <1>2. QED
    BY <1>1, Invariant, PTL DEF Spec, OnlyOwnerUnlists

(* An address is free again only when every trace of its owner is gone. *)
THEOREM ReleasedIsClean == Spec => ReleasedLast
  <1>1. ASSUME TypeInv, IInv, [Next]_vars, NEW a \in Addr, a \in used, a \notin used'
        PROVE  /\ mapping[a] = NoTunnel
               /\ a \notin flow
               /\ lock = Free => published[a] = NoNode
    <2>1. PICK t \in Tunnel : DropRelease(t)
      BY <1>1 DEF Next, Locking, Running, Environment, Accept, GetIdleVirtualAddr, Disconnect,
         ReadRegister, CheckNonce, Allocate, JoinInsert, JoinSync, JoinFlow, Respond,
         WatchChanged, SendNodeMap, DropRemove, DropSync, DropFlow, ForgetNonce,
         UdpStoreWan, UdpSync, vars, addressVars
    <2>2. a = register[t]
      BY <1>1, <2>1 DEF DropRelease
    <2>3. mapping[a] = NoTunnel /\ a \notin flow
      BY <1>1, <2>1, <2>2, ReleaseIsLast
    <2>4. lock = Free => published[a] = NoNode
      BY <1>1, <2>3 DEF IInv, PublishedIsMapping, NodeList
    <2>5. QED
      BY <2>3, <2>4
  <1>2. TypeInv /\ IInv /\ [Next]_vars =>
          [\A a \in Addr : a \in used /\ a \notin used' =>
              /\ mapping[a] = NoTunnel
              /\ a \notin flow
              /\ lock = Free => published[a] = NoNode]_vars
    BY <1>1
  <1>3. QED
    BY <1>2, Invariant, PTL DEF Spec, ReleasedLast

----------------------------------------------------------------------------
(* Refinement of AddressLease. *)
leases == {p \in Tunnel \X Addr : Holds(p[1], p[2])}

LEMMA LeaseInit == Init => Lease!Init
  BY DEF Init, Lease!Init, Holds, Holding, Dropping

(* A step that keeps the directory and what everybody holds is a stutter.  *)
LEMMA LeaseStutter ==
    ASSUME UNCHANGED mapping,
           \A t \in Tunnel, a \in Addr : Holds(t, a)' <=> Holds(t, a)
    PROVE  UNCHANGED Lease!vars
  BY DEF Lease!vars

LEMMA LeaseStep == TypeInv /\ IInv /\ [Next]_vars => [Lease!Next]_(Lease!vars)
  <1> SUFFICES ASSUME TypeInv, IInv, [Next]_vars PROVE [Lease!Next]_(Lease!vars)
    OBVIOUS
  <1> USE DEF Goto, addressVars, directoryVars
  <1>t. ASSUME NEW t \in Tunnel
        PROVE  pc \in [Tunnel -> Location] /\ register \in [Tunnel -> Addr \cup {NoAddr}]
               /\ mapping \in [Addr -> Tunnel \cup {NoTunnel}]
    BY DEF TypeInv, TypeOK
  <1>1. ASSUME NEW t \in Tunnel, Allocate(t),
               AllocateResult(msg[t].addr) = "Ok"
        PROVE  Lease!Next
    <2> DEFINE a == msg[t].addr
    <2>1. a \in Addr
      BY <1>1 DEF TypeInv, LocalsOK, Allocate, Message
    <2>2. /\ pc[t] = "allocate" /\ a \notin used
          /\ register' = [register EXCEPT ![t] = a]
          /\ pc' = [pc EXCEPT ![t] = "join"]
          /\ UNCHANGED mapping
      BY <1>1, <2>1, AllocateOk DEF Allocate
    <2> HIDE DEF a
    <2>3. \A s \in Tunnel, b \in Addr : Holds(s, b)' <=> Holds(s, b) \/ (s = t /\ b = a)
      BY <2>2, <1>t DEF Holds, Holding, Dropping
    <2>4. /\ \A s \in Tunnel : ~Holds(s, a)
          /\ \A b \in Addr : ~Holds(t, b)
      BY <2>1, <2>2 DEF IInv, OneOwner, Holds, Holding, Dropping
    <2>5. leases' = leases \cup {<<t, a>>}
      BY <2>1, <2>3 DEF leases
    <2>6. Lease!Grant(t, a)
      BY <2>1, <2>2, <2>4, <2>5 DEF Lease!Grant, leases
    <2>7. QED
      BY <2>1, <2>6 DEF Lease!Next
  <1>2. ASSUME NEW t \in Tunnel, JoinInsert(t) PROVE Lease!Next
    <2>1. /\ pc[t] = "join" /\ register[t] \in Addr /\ Holds(t, register[t])
          /\ mapping' = [mapping EXCEPT ![register[t]] = t]
          /\ pc' = [pc EXCEPT ![t] = "join_sync"]
          /\ UNCHANGED register
      BY <1>2 DEF JoinInsert, TypeInv, LocalsOK, Holds, Holding
    <2>2. \A s \in Tunnel, b \in Addr : Holds(s, b)' <=> Holds(s, b)
      BY <2>1, <1>t DEF Holds, Holding, Dropping
    <2>3. \A s \in Tunnel : mapping[register[t]] # s
      BY <2>1 DEF IInv, MappingIsOwned, OneOwner, Holds, Holding, Dropping, Mapped
    <2>4. mapping[register[t]] = NoTunnel
      BY <2>1, <2>3, <1>t
    <2>5. leases' = leases
      BY <2>2 DEF leases
    <2>6. Lease!List(t, register[t])
      BY <2>1, <2>4, <2>5 DEF Lease!List, leases
    <2>7. QED
      BY <2>1, <2>6 DEF Lease!Next
  <1>3. ASSUME NEW t \in Tunnel, DropRemove(t) PROVE Lease!Next
    <2>1. /\ pc[t] = "drop_mapping" /\ register[t] \in Addr
          /\ mapping[register[t]] = t
      BY <1>3 DEF DropRemove, TypeInv, LocalsOK, Holding, Dropping, IInv,
                  MappingIsOwned, Mapped
    <2>2. /\ mapping' = [mapping EXCEPT ![register[t]] = NoTunnel]
          /\ pc' = [pc EXCEPT ![t] = "drop_sync"]
          /\ UNCHANGED register
      BY <1>3, <2>1, TunnelAssumption DEF DropRemove
    <2>3. \A s \in Tunnel, b \in Addr : Holds(s, b)' <=> Holds(s, b)
      BY <2>1, <2>2, <1>t DEF Holds, Holding, Dropping
    <2>4. leases' = leases
      BY <2>3 DEF leases
    <2>5. Lease!Unlist(t, register[t])
      BY <2>1, <2>2, <2>4 DEF Lease!Unlist, leases
    <2>6. QED
      BY <2>1, <2>5 DEF Lease!Next
  <1>4. ASSUME NEW t \in Tunnel, DropRelease(t) PROVE Lease!Next
    <2>1. /\ pc[t] = "drop_release" /\ register[t] \in Addr
          /\ mapping[register[t]] = NoTunnel
          /\ register' = [register EXCEPT ![t] = NoAddr]
          /\ pc' = [pc EXCEPT ![t] = "closed"]
          /\ UNCHANGED mapping
      BY <1>4, ReleaseIsLast DEF DropRelease, TypeInv, LocalsOK, Holding, Dropping
    <2>2. \A s \in Tunnel, b \in Addr :
            Holds(s, b)' <=> Holds(s, b) /\ ~(s = t /\ b = register[t])
      BY <2>1, <1>t DEF Holds, Holding, Dropping
    <2>3. Holds(t, register[t])
      BY <2>1 DEF Holds, Holding, Dropping
    <2>4. leases' = leases \ {<<t, register[t]>>}
      BY <2>2 DEF leases
    <2>5. Lease!Return(t, register[t])
      BY <2>1, <2>3, <2>4 DEF Lease!Return, leases
    <2>6. QED
      BY <2>1, <2>5 DEF Lease!Next
  <1>5. ASSUME UNCHANGED <<mapping, register>>,
               \A t \in Tunnel : pc'[t] \in Holding <=> pc[t] \in Holding
        PROVE  UNCHANGED Lease!vars
    BY <1>5, LeaseStutter DEF Holds
  <1>6. ASSUME NEW t \in Tunnel,
               \/ Accept(t) \/ GetIdleVirtualAddr(t) \/ Disconnect(t) \/ CheckNonce(t)
               \/ \E m \in Message, inWindow \in BOOLEAN : ReadRegister(t, m, inWindow)
               \/ Allocate(t) /\ AllocateResult(msg[t].addr) # "Ok"
        PROVE  UNCHANGED Lease!vars
    BY <1>t, <1>5, <1>6 DEF Accept, GetIdleVirtualAddr, Disconnect, CheckNonce,
       ReadRegister, Allocate, Refuse, Holding, Dropping
  <1>7. ASSUME NEW t \in Tunnel,
               \/ JoinSync(t) \/ JoinFlow(t) \/ Respond(t) \/ WatchChanged(t)
               \/ SendNodeMap(t) \/ DropSync(t) \/ DropFlow(t)
        PROVE  UNCHANGED Lease!vars
    BY <1>t, <1>5, <1>7 DEF JoinSync, JoinFlow, Respond, WatchChanged, SendNodeMap,
       DropSync, DropFlow, Sync, Holding, Dropping
  <1>8. ASSUME NEW n \in Nonce, ForgetNonce(n) PROVE UNCHANGED Lease!vars
    BY <1>5, <1>8 DEF ForgetNonce
  <1>9. ASSUME NEW a \in Addr, NEW w \in Wan, UdpStoreWan(a, w)
        PROVE  UNCHANGED Lease!vars
    BY <1>5, <1>9 DEF UdpStoreWan
  <1>10. CASE UdpSync
    BY <1>5, <1>10 DEF UdpSync, Sync
  <1>11. CASE UNCHANGED vars
    BY <1>5, <1>11 DEF vars
  <1>12. QED
    BY <1>1, <1>2, <1>3, <1>4, <1>6, <1>7, <1>8, <1>9, <1>10, <1>11
    DEF Next, Locking, Running, Environment

(* The group's state keeps its types, whatever the tunnels are sent. *)
THEOREM TypesHold == Spec => []TypeOK
  <1>1. TypeInv => TypeOK
    BY DEF TypeInv
  <1>2. QED
    BY <1>1, TypeCorrect, PTL

(* The coordinator implements the abstract promise of AddressLease. *)
THEOREM Implements == Spec => ImplementsLease
  <1>1. Init => Lease!Init
    BY LeaseInit
  <1>2. TypeInv /\ IInv /\ [Next]_vars => [Lease!Next]_(Lease!vars)
    BY LeaseStep
  <1>3. QED
    BY <1>1, <1>2, Invariant, PTL DEF Spec, ImplementsLease, Lease!Spec
=============================================================================

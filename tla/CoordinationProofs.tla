------------------------- MODULE CoordinationProofs -------------------------
(***************************************************************************)
(* What processes coordinate with, proved for every value of the constants.*)
(*                                                                         *)
(* DistributedLock, for every set of lock objects: mutual exclusion, and   *)
(* what unlock and the renew thread may do to the key, as long as the      *)
(* threads are punctual.                                                   *)
(*                                                                         *)
(* Discovery (the instance D), for every set of nodes, clients and         *)
(* services and any intervals: the index of the directory lists exactly    *)
(* what is registered, a node whose stop has returned is not listed, and a *)
(* punctual one that runs is.                                              *)
(*                                                                         *)
(* RedisStore (the instance RS), for all keys, members and values: its six *)
(* maps agree about every key.                                             *)
(***************************************************************************)
EXTENDS Coordination, FiniteSetTheorems, SequenceTheorems, TLAPS

\* An entry that outlived its TTL in the in-memory client belongs to nobody:
\* the next GET of it takes the key from no living holder.
StaleIsOrphan ==
    punctual /\ ttl = "over" =>
        \A l \in Lock : upc[l] # "crashed" => key # Token(l)

\* locked_ is cleared under a holder only by its renew thread, as it ends.
LossEndsRenewal ==
    \A l \in Lock :
        upc[l] = "holding" /\ ~locked[l] => rpc[l] \in {"none", "ended"}

\* A process that crashed has no renew thread left.
CrashEndsRenewal == \A l \in Lock : upc[l] = "crashed" => rpc[l] = "none"

IInv == LockSound /\ StaleIsOrphan /\ LossEndsRenewal /\ CrashEndsRenewal

-----------------------------------------------------------------------------
\* A token names its lock object, and no token is the absent key.
LEMMA TokenIdentifies ==
  /\ \A l \in Lock : Token(l) # NoToken
  /\ \A l, m \in Lock : Token(l) = Token(m) => l = m
BY DEF Token, NoToken

\* The store before the first try_lock.
LEMMA InitSound == Init => IInv
<1> SUFFICES ASSUME Init PROVE IInv
  OBVIOUS
<1>1. TypeOK
  <2>1. aborted \in BOOLEAN /\ key = NoToken
    BY DEF Init
  <2>2. locked \in [Lock -> BOOLEAN] /\ running \in [Lock -> BOOLEAN]
    BY DEF Init
  <2>3. QED
    BY <2>1, <2>2, LockAssumption DEF Init, TypeOK, UserState, RenewState
<1>2. QED
  BY <1>1
  DEF Init, IInv, LockSound, HolderOwnsKey, QuietAfterUnlock, StaleIsOrphan,
      LossEndsRenewal, CrashEndsRenewal

\* No command of the store and no step of a thread leaves the types.
LEMMA TypeStep == TypeOK /\ [Next]_vars => TypeOK'
<1> SUFFICES ASSUME TypeOK, [Next]_vars PROVE TypeOK'
  OBVIOUS
<1> USE LockAssumption DEF TypeOK, UserState, RenewState, UserGoto, RenewGoto, world
<1>1. ASSUME NEW l \in Lock, SetNx(l) PROVE TypeOK'
  <2>1. key' \in Lock \X (1..MaxAcquire)
    BY <1>1 DEF SetNx, SETNX
  <2>2. fence' \in [Lock -> 0..MaxAcquire]
    BY <1>1 DEF SetNx
  <2>3. key = NoToken /\ ttl = "none" /\ ttl' = ttl
    BY <1>1 DEF SetNx, SETNX
  <2>4. QED  BY <1>1, <2>1, <2>2, <2>3 DEF SetNx
<1>2. ASSUME NEW l \in Lock, SetExpire(l) PROVE TypeOK'
  BY <1>2 DEF SetExpire, EXPIRE
<1>3. ASSUME NEW l \in Lock, Acquired(l) PROVE TypeOK'
  BY <1>3 DEF Acquired
<1>4. ASSUME NEW l \in Lock, unlock(l) PROVE TypeOK'
  BY <1>4 DEF unlock
<1>5. ASSUME NEW l \in Lock, JoinRenew(l) PROVE TypeOK'
  BY <1>5 DEF JoinRenew
<1>6. ASSUME NEW l \in Lock, UnlockGet(l) PROVE TypeOK'
  BY <1>6 DEF UnlockGet, GET, Found
<1>7. ASSUME NEW l \in Lock, UnlockDel(l) PROVE TypeOK'
  BY <1>7 DEF UnlockDel, DEL
<1>8. ASSUME NEW l \in Lock, RenewWake(l) PROVE TypeOK'
  BY <1>8 DEF RenewWake
<1>9. ASSUME NEW l \in Lock, RenewGet(l) PROVE TypeOK'
  BY <1>9 DEF RenewGet, GET, Found
<1>10. ASSUME NEW l \in Lock, RenewExpire(l) PROVE TypeOK'
  BY <1>10 DEF RenewExpire, EXPIRE
<1>11. ASSUME NEW l \in Lock, RenewLost(l) PROVE TypeOK'
  BY <1>11 DEF RenewLost
<1>12. ASSUME NEW l \in Lock, Crash(l) PROVE TypeOK'
  BY <1>12 DEF Crash
<1>13. CASE KeyExpires
  BY <1>13 DEF KeyExpires
<1>14. CASE UNCHANGED vars
  BY <1>14 DEF vars
<1> QED
  BY <1>1, <1>2, <1>3, <1>4, <1>5, <1>6, <1>7, <1>8, <1>9, <1>10, <1>11,
     <1>12, <1>13, <1>14
  DEF Next, UserStep, RenewStep, Finished

-----------------------------------------------------------------------------
\* A punctual holder keeps its key, whatever the others and the store do.
LEMMA KeyStep == IInv /\ [Next]_vars => (HolderOwnsKey /\ StaleIsOrphan)'
<1> DEFINE Goal == (HolderOwnsKey /\ StaleIsOrphan)'
<1> SUFFICES ASSUME IInv, [Next]_vars, punctual' PROVE Goal
  BY DEF HolderOwnsKey, StaleIsOrphan
<1>0. TypeOK /\ punctual' = punctual
  BY DEF IInv, LockSound, Next, vars, world, SetNx, UserStep, SetExpire,
     Acquired, JoinRenew, UnlockGet, UnlockDel, unlock, RenewStep, RenewWake,
     RenewGet, RenewExpire, RenewLost, Crash, KeyExpires, Finished
<1> USE LockAssumption, TokenIdentifies, <1>0
    DEF IInv, LockSound, HolderOwnsKey, StaleIsOrphan, UserGoto, RenewGoto
<1>1. ASSUME NEW l \in Lock, SetNx(l) PROVE Goal
  <2>1. key = NoToken /\ ttl' = "none"
    BY <1>1 DEF SetNx, SETNX, TypeOK
  <2>2. \A m \in Lock : upc[m] \in {"idle", "crashed"}
    BY <2>1
  <2>3. key' = Token(l)'
    BY <1>1 DEF SetNx, SETNX, Token, TypeOK
  <2>4. \A m \in Lock : m # l => upc'[m] = upc[m]
    BY <1>1 DEF SetNx, TypeOK
  <2>5. QED  BY <2>1, <2>2, <2>3, <2>4
<1>2. ASSUME NEW l \in Lock, SetExpire(l) \/ RenewExpire(l) PROVE Goal
  <2>1. /\ key' = key /\ fence' = fence
        /\ ttl' # "over"
    BY <1>2 DEF SetExpire, RenewExpire, EXPIRE, TypeOK
  <2>2. \A m \in Lock : upc'[m] \notin {"idle", "crashed"}
                            => upc[m] \notin {"idle", "crashed"}
    BY <1>2 DEF SetExpire, RenewExpire, TypeOK
  <2>3. QED  BY <2>1, <2>2 DEF Token
<1>3. ASSUME NEW l \in Lock, \/ Acquired(l) \/ unlock(l) \/ JoinRenew(l)
                             \/ RenewWake(l) \/ RenewLost(l) \/ Crash(l)
      PROVE  Goal
  <2>1. key' = key /\ ttl' = ttl /\ fence' = fence
    BY <1>3 DEF Acquired, unlock, JoinRenew, RenewWake, RenewLost, Crash
  <2>2. \A m \in Lock : /\ upc'[m] \notin {"idle", "crashed"}
                              => upc[m] \notin {"idle", "crashed"}
                        /\ upc'[m] # "crashed" => upc[m] # "crashed"
    BY <1>3 DEF Acquired, unlock, JoinRenew, RenewWake, RenewLost, Crash, TypeOK
  <2>3. QED  BY <2>1, <2>2 DEF Token
<1>4. ASSUME NEW l \in Lock, UnlockGet(l) \/ RenewGet(l) PROVE Goal
  <2>1. fence' = fence /\ ttl' # "over" /\ key' = Found
    BY <1>4 DEF UnlockGet, RenewGet, GET, TypeOK
  <2>2. \A m \in Lock : upc'[m] \notin {"idle", "crashed"}
                            => upc[m] \notin {"idle", "crashed"}
    BY <1>4 DEF UnlockGet, RenewGet, TypeOK
  <2>3. ASSUME NEW m \in Lock, upc'[m] \notin {"idle", "crashed"}
        PROVE  key' = Token(m)'
    <3>1. key = Token(m) /\ upc[m] # "crashed"
      BY <2>2, <2>3
    <3>2. ttl # "over"
      BY <3>1
    <3>3. QED  BY <2>1, <3>1, <3>2 DEF Found, Token
  <2>4. QED  BY <2>1, <2>3
<1>5. ASSUME NEW l \in Lock, UnlockDel(l) PROVE Goal
  <2>1. key = Token(l) /\ ttl' = "none"
    BY <1>5 DEF UnlockDel, DEL
  <2>2. \A m \in Lock : upc'[m] \notin {"idle", "crashed"}
                            => m # l /\ upc[m] \notin {"idle", "crashed"}
    BY <1>5 DEF UnlockDel, TypeOK
  <2>3. QED  BY <2>1, <2>2
<1>6. CASE KeyExpires
  <2>1. \A m \in Lock : upc[m] # "crashed" => key # Token(m)
    BY <1>6 DEF KeyExpires
  <2>2. /\ upc' = upc /\ fence' = fence
        /\ ttl' = "none" \/ key' = key
    BY <1>6 DEF KeyExpires
  <2>3. QED  BY <2>1, <2>2 DEF Token
<1>7. CASE UNCHANGED vars
  BY <1>7 DEF vars, Token
<1> QED
  BY <1>1, <1>2, <1>3, <1>4, <1>5, <1>6, <1>7
  DEF Next, UserStep, RenewStep, Finished

\* A renew thread sends commands only inside its critical section.
LEMMA RenewalStep ==
  IInv /\ [Next]_vars => (QuietAfterUnlock /\ LossEndsRenewal /\ CrashEndsRenewal)'
<1> DEFINE Goal == (QuietAfterUnlock /\ LossEndsRenewal /\ CrashEndsRenewal)'
<1> SUFFICES ASSUME IInv, [Next]_vars PROVE Goal
  OBVIOUS
<1> USE DEF IInv, LockSound, TypeOK, QuietAfterUnlock, LossEndsRenewal,
            CrashEndsRenewal, UserGoto, RenewGoto
<1>1. ASSUME NEW l \in Lock, SetNx(l) \/ SetExpire(l) \/ JoinRenew(l) PROVE Goal
  BY <1>1 DEF SetNx, SetExpire, JoinRenew
<1>2. ASSUME NEW l \in Lock, Acquired(l) \/ unlock(l) PROVE Goal
  BY <1>2 DEF Acquired, unlock
<1>3. ASSUME NEW l \in Lock, UnlockGet(l) \/ UnlockDel(l) PROVE Goal
  BY <1>3 DEF UnlockGet, UnlockDel
<1>4. ASSUME NEW l \in Lock,
             RenewWake(l) \/ RenewGet(l) \/ RenewExpire(l) \/ RenewLost(l)
      PROVE  Goal
  BY <1>4 DEF RenewWake, RenewGet, RenewExpire, RenewLost
<1>5. ASSUME NEW l \in Lock, Crash(l) PROVE Goal
  BY <1>5 DEF Crash
<1>6. CASE KeyExpires
  BY <1>6 DEF KeyExpires
<1>7. CASE UNCHANGED vars
  BY <1>7 DEF vars
<1> QED
  BY <1>1, <1>2, <1>3, <1>4, <1>5, <1>6, <1>7
  DEF Next, UserStep, RenewStep, Finished

\* IInv holds in every reachable state.
THEOREM Inductive == Spec => []IInv
<1>1. IInv /\ [Next]_vars => IInv'
  BY TypeStep, KeyStep, RenewalStep DEF IInv, LockSound
<1> QED  BY InitSound, <1>1, PTL DEF Spec

-----------------------------------------------------------------------------
\* Property 1 of the header: while threads are punctual the key carries the
\* token of the lock that won it until its DEL; and a renew thread is silent
\* outside its critical section, punctual or not.
THEOREM MutualExclusion == Spec => []LockSound
<1>1. IInv => LockSound
  BY DEF IInv
<1> QED  BY Inductive, <1>1, PTL

\* Property 4 of the header and the comment "Renew only if still owner", which
\* the code keeps as long as threads are punctual: the DEL of unlock and the
\* EXPIRE of the renew thread, sent after a GET that no lock covers, reach a key
\* that is still the sender's own.
PunctualOwnership ==
    punctual => \A l \in Lock :
        /\ upc[l] = "deleting" /\ upc'[l] = "idle" => key = Token(l)
        /\ rpc[l] = "expire" /\ rpc'[l] = "sleep" => key = Token(l)

\* Punctual threads release and renew only what is theirs.
THEOREM ReleaseOwnKey == Spec => [][PunctualOwnership]_vars
<1>1. ASSUME IInv, [Next]_vars PROVE [PunctualOwnership]_vars
  <2> SUFFICES ASSUME punctual, NEW l \in Lock
               PROVE  /\ upc[l] = "deleting" => key = Token(l)
                      /\ rpc[l] = "expire" => key = Token(l)
    BY DEF PunctualOwnership
  <2>1. upc[l] = "deleting" => key = Token(l)
    BY <1>1 DEF IInv, LockSound, HolderOwnsKey
  <2>2. rpc[l] = "expire" => upc[l] \notin {"idle", "crashed"}
    BY <1>1 DEF IInv, LockSound, TypeOK, QuietAfterUnlock, CrashEndsRenewal
  <2>3. QED  BY <1>1, <2>1, <2>2 DEF IInv, LockSound, HolderOwnsKey
<1> QED  BY Inductive, <1>1, PTL DEF Spec

-----------------------------------------------------------------------------
(* Discovery.                                                              *)

NodePhase == {"off", "waiting", "beating", "again", "stopping beat", "stopping again", "joined"}

\* What TypeOK leaves open: that the tables are functions, and the rest.
TablesTyped ==
    /\ instances \in [DOMAIN instances -> 0..(Timeout + 1)]
    /\ index \in [DOMAIN index -> SUBSET D!Instance]
    /\ listeners \in [Service -> SUBSET Listeners]
    /\ phase \in [Node -> NodePhase]
    /\ onTime \in BOOLEAN

\* service_index_ has an entry for a service exactly while an instance of it is
\* registered, and the entry lists exactly those.
IndexExact ==
    /\ \A s \in DOMAIN index : /\ index[s] # {}
                               /\ index[s] = {i \in DOMAIN instances : serviceOf[i] = s}
    /\ \A i \in DOMAIN instances : serviceOf[i] \in DOMAIN index

\* stop() returns only after the heartbeat thread is gone and the node is out.
OffIsOut == \A n \in Node : phase[n] = "off" => n \notin DOMAIN instances

\* A punctual node is registered while its thread runs, and its instance is no
\* older than the wait of the thread: the sweep never finds it expired, and the
\* thread never has to register again.
PunctualIsYoung ==
    onTime => \A n \in Node :
        /\ phase[n] # "again"
        /\ phase[n] \in {"waiting", "beating"} =>
              n \in DOMAIN instances /\ instances[n] <= waited[n]

DirectoryInv == D!TypeOK /\ TablesTyped /\ IndexExact /\ OffIsOut /\ PunctualIsYoung

-----------------------------------------------------------------------------
\* The empty table.
LEMMA EmptyTable == ASSUME NEW S PROVE <<>> \in [DOMAIN <<>> -> S] /\ DOMAIN <<>> = {}
OBVIOUS

\* The directory before anybody registers.
LEMMA DirectoryInit == ASSUME D!DiscoveryAssumption PROVE D!Init => DirectoryInv
<1> SUFFICES ASSUME D!Init PROVE DirectoryInv
  OBVIOUS
<1>1. /\ instances \in [DOMAIN instances -> 0..(Timeout + 1)] /\ DOMAIN instances = {}
      /\ index \in [DOMAIN index -> SUBSET D!Instance] /\ DOMAIN index = {}
  BY EmptyTable DEF D!Init
<1>2. mutexHeld \in BOOLEAN /\ onTime \in BOOLEAN
  BY DEF D!Init, D!DiscoveryAssumption
<1>3. D!TypeOK /\ TablesTyped
  BY <1>1, <1>2 DEF D!Init, D!TypeOK, TablesTyped, NodePhase, D!DiscoveryAssumption
<1>4. IndexExact /\ OffIsOut /\ PunctualIsYoung
  BY <1>1 DEF D!Init, IndexExact, OffIsOut, PunctualIsYoung
<1> QED  BY <1>3, <1>4 DEF DirectoryInv

-----------------------------------------------------------------------------
(* What the methods of the directory do to its tables.                     *)

Tables == D!TypeOK /\ TablesTyped /\ IndexExact

\* register_service enters an id that is new, with age 0, and only that one; the
\* tables stay typed and exact.
LEMMA RegisterExact ==
  ASSUME D!DiscoveryAssumption, Tables, NEW i \in D!Instance, D!register_service(i)
  PROVE  /\ instances' \in [DOMAIN instances' -> 0..(Timeout + 1)]
         /\ index' \in [DOMAIN index' -> SUBSET D!Instance]
         /\ DOMAIN instances' = DOMAIN instances \cup {i}
         /\ DOMAIN index' \subseteq Service
         /\ \A x \in DOMAIN instances : instances'[x] = instances[x]
         /\ i \notin DOMAIN instances => instances'[i] = 0
         /\ IndexExact' /\ listeners' = listeners /\ mutexHeld' \in BOOLEAN
<1> DEFINE s == serviceOf[i]
<1>0. /\ s \in Service /\ Timeout \in Nat
      /\ DOMAIN instances \subseteq D!Instance /\ DOMAIN index \subseteq Service
      /\ instances \in [DOMAIN instances -> 0..(Timeout + 1)]
      /\ index \in [DOMAIN index -> SUBSET D!Instance]
      /\ listeners' = listeners /\ mutexHeld \in BOOLEAN
  BY DEF D!DiscoveryAssumption, Tables, D!TypeOK, TablesTyped, D!register_service
<1>1. CASE i \in DOMAIN instances
  <2>1. UNCHANGED <<instances, index, mutexHeld>>
    BY <1>1 DEF D!register_service
  <2>2. IndexExact'
    BY <2>1 DEF Tables, IndexExact
  <2>3. QED  BY <1>0, <1>1, <2>1, <2>2
<1>2. CASE i \notin DOMAIN instances
  <2>1. /\ instances' = [x \in DOMAIN instances \cup {i} |-> IF x = i THEN 0 ELSE instances[x]]
        /\ index' = [x \in DOMAIN index \cup {s} |->
                        (IF x \in DOMAIN index THEN index[x] ELSE {})
                            \cup (IF x = s THEN {i} ELSE {})]
    BY <1>2 DEF D!register_service
  <2>2. mutexHeld' \in BOOLEAN
    BY <1>2 DEF D!register_service
  <2>3. DOMAIN instances' = DOMAIN instances \cup {i} /\ DOMAIN index' = DOMAIN index \cup {s}
    BY <2>1
  <2>4. /\ \A x \in DOMAIN instances : instances'[x] = instances[x]
        /\ instances'[i] = 0
        /\ instances' \in [DOMAIN instances' -> 0..(Timeout + 1)]
    BY <1>0, <1>2, <2>1, <2>3
  <2>5. index' \in [DOMAIN index' -> SUBSET D!Instance]
    BY <1>0, <2>1, <2>3
  <2>6. \A x \in DOMAIN index' :
           index'[x] = (IF x \in DOMAIN index THEN index[x] ELSE {})
                          \cup (IF x = s THEN {i} ELSE {})
    BY <2>1, <2>3
  <2>7. \A x \in DOMAIN index' : index'[x] = {j \in DOMAIN instances' : serviceOf[j] = x}
    <3> SUFFICES ASSUME NEW x \in DOMAIN index', NEW j
                 PROVE  j \in index'[x] <=> j \in DOMAIN instances' /\ serviceOf[j] = x
      OBVIOUS
    <3>1. CASE x \in DOMAIN index
      BY <2>3, <2>6, <3>1 DEF Tables, IndexExact
    <3>2. CASE x \notin DOMAIN index
      <4>1. x = s
        BY <2>3, <3>2
      <4>2. \A k \in DOMAIN instances : serviceOf[k] # x
        BY <3>2 DEF Tables, IndexExact
      <4>3. index'[x] = {i}
        BY <2>6, <3>2, <4>1
      <4>4. QED  BY <2>3, <4>1, <4>2, <4>3
    <3>3. QED  BY <3>1, <3>2
  <2>8. \A x \in DOMAIN index' : index'[x] # {}
    BY <2>3, <2>6 DEF Tables, IndexExact
  <2>9. \A j \in DOMAIN instances' : serviceOf[j] \in DOMAIN index'
    BY <2>3 DEF Tables, IndexExact
  <2>10. IndexExact'
    BY <2>7, <2>8, <2>9 DEF IndexExact
  <2>11. QED  BY <1>0, <1>2, <2>2, <2>3, <2>4, <2>5, <2>10
<1> QED  BY <1>1, <1>2

\* Erasing takes the ids out of both tables, and only those.
LEMMA EraseExact ==
  ASSUME D!DiscoveryAssumption, Tables, NEW S, D!Erase(S)
  PROVE  /\ instances' \in [DOMAIN instances' -> 0..(Timeout + 1)]
         /\ index' \in [DOMAIN index' -> SUBSET D!Instance]
         /\ DOMAIN instances' = DOMAIN instances \ S
         /\ DOMAIN index' \subseteq Service
         /\ \A x \in DOMAIN instances' : instances'[x] = instances[x]
         /\ IndexExact'
<1>0. /\ DOMAIN instances \subseteq D!Instance /\ DOMAIN index \subseteq Service
      /\ instances \in [DOMAIN instances -> 0..(Timeout + 1)]
      /\ index \in [DOMAIN index -> SUBSET D!Instance]
  BY DEF Tables, D!TypeOK, TablesTyped
<1>1. /\ instances' = [x \in DOMAIN instances \ S |-> instances[x]]
      /\ index' = [x \in {y \in DOMAIN index : index[y] \ S # {}} |-> index[x] \ S]
  BY DEF D!Erase, D!Without
<1>2. /\ DOMAIN instances' = DOMAIN instances \ S
      /\ DOMAIN index' = {y \in DOMAIN index : index[y] \ S # {}}
      /\ \A x \in DOMAIN instances' : instances'[x] = instances[x]
      /\ \A x \in DOMAIN index' : index'[x] = index[x] \ S
  BY <1>1
<1>3. instances' \in [DOMAIN instances' -> 0..(Timeout + 1)]
  BY <1>0, <1>1, <1>2
<1>4. index' \in [DOMAIN index' -> SUBSET D!Instance]
  BY <1>0, <1>1, <1>2
<1>5. \A x \in DOMAIN index' : index'[x] = {j \in DOMAIN instances' : serviceOf[j] = x}
  BY <1>2 DEF Tables, IndexExact
<1>6. \A j \in DOMAIN instances' : serviceOf[j] \in DOMAIN index'
  <2> SUFFICES ASSUME NEW j \in DOMAIN instances' PROVE serviceOf[j] \in DOMAIN index'
    OBVIOUS
  <2>1. j \in DOMAIN instances /\ j \notin S
    BY <1>2
  <2>2. serviceOf[j] \in DOMAIN index /\ j \in index[serviceOf[j]]
    BY <2>1 DEF Tables, IndexExact
  <2>3. QED  BY <1>2, <2>1, <2>2
<1>7. IndexExact'
  BY <1>2, <1>5, <1>6 DEF IndexExact
<1> QED  BY <1>0, <1>2, <1>3, <1>4, <1>7

\* A change of ages alone.
LEMMA AgesExact ==
  ASSUME Tables, DOMAIN instances' = DOMAIN instances, index' = index
  PROVE  IndexExact'
BY DEF Tables, IndexExact

-----------------------------------------------------------------------------
(* The steps.                                                              *)

\* The part of the state that is typed and that the tables are not in.
Threads ==
    /\ waited \in [Node -> 0..Interval] /\ sweepWaited \in 0..SweepInterval
    /\ sweeper \in {"waiting", "sweeping", "stopping sweep", "exited"}
    /\ phase \in [Node -> NodePhase]

\* The whole invariant but the two clauses about nodes.
LEMMA TypingParts ==
  Tables <=> /\ Threads
             /\ instances \in [DOMAIN instances -> 0..(Timeout + 1)]
             /\ index \in [DOMAIN index -> SUBSET D!Instance]
             /\ DOMAIN instances \subseteq D!Instance /\ DOMAIN index \subseteq Service
             /\ listeners \in [Service -> SUBSET Listeners]
             /\ mutexHeld \in BOOLEAN /\ onTime \in BOOLEAN
             /\ IndexExact
BY DEF Tables, D!TypeOK, TablesTyped, Threads

\* The threads stay typed: each step moves them between the named phases and
\* the clock stops counting at the intervals.
LEMMA ThreadsStep == ASSUME D!DiscoveryAssumption, Tables, [D!Next]_(D!vars) PROVE Threads'
<1>0. /\ Threads /\ Interval \in Nat /\ SweepInterval \in Nat
      /\ 0 \in 0..Interval /\ 0 \in 0..SweepInterval
      /\ \A N \in Nat : \A x \in 0..N : D!UpTo(x, N) \in 0..N
  BY TypingParts DEF D!DiscoveryAssumption, D!UpTo
<1>1. ASSUME NEW n \in Node, D!start(n) \/ D!BeatStep(n) \/ D!stop(n)
      PROVE  Threads'
  <2>1. CASE D!start(n)
    <3>1. CASE UNCHANGED D!nodeVars
      BY <1>0, <2>1, <3>1 DEF D!start, Threads, D!nodeVars, D!sweepVars
    <3>2. CASE phase' = [phase EXCEPT ![n] = "waiting"] /\ waited' = [waited EXCEPT ![n] = 0]
      BY <1>0, <2>1, <3>2 DEF D!start, Threads, NodePhase, D!sweepVars
    <3>3. QED  BY <2>1, <3>1, <3>2 DEF D!start
  <2>2. CASE D!BeatWakes(n) \/ D!BeatFails(n) \/ D!StopReturns(n)
    BY <1>0, <2>2 DEF D!BeatWakes, D!BeatFails, D!StopReturns, Threads, NodePhase, D!sweepVars
  <2>3. CASE D!Beat(n) \/ D!RegisterAgain(n)
    BY <1>0, <2>3 DEF D!Beat, D!RegisterAgain, D!BackToWait, Threads, NodePhase, D!sweepVars
  <2>4. CASE D!stop(n)
    BY <1>0, <2>4 DEF D!stop, Threads, NodePhase, D!sweepVars
  <2>5. QED  BY <1>1, <2>1, <2>2, <2>3, <2>4 DEF D!BeatStep
<1>2. CASE D!Tick
  <2>1. /\ waited \in [Node -> 0..Interval] /\ sweepWaited \in 0..SweepInterval
        /\ waited' = [n \in Node |-> D!UpTo(waited[n], Interval)]
        /\ sweepWaited' = D!UpTo(sweepWaited, SweepInterval)
        /\ phase' = phase /\ sweeper' = sweeper
    BY <1>0, <1>2 DEF D!Tick, Threads
  <2>2. waited' \in [Node -> 0..Interval] /\ sweepWaited' \in 0..SweepInterval
    BY <1>0, <2>1
  <2>3. QED  BY <1>0, <2>1, <2>2 DEF Threads
<1>3. CASE D!SweepWakes \/ D!stop_cleanup_thread
  BY <1>0, <1>3 DEF D!SweepWakes, D!stop_cleanup_thread, Threads, D!nodeVars
<1>4. CASE D!cleanup_expired_instances
  BY <1>0, <1>4 DEF D!cleanup_expired_instances, Threads, D!nodeVars
<1>5. ASSUME NEW i \in Silent, D!SilentRegisters(i) \/ D!SilentLeaves(i)
      PROVE  Threads'
  BY <1>0, <1>5 DEF D!SilentRegisters, D!SilentLeaves, Threads, D!nodeVars, D!sweepVars
<1>6. ASSUME NEW s \in Service,
             D!remove_listener(s) \/ \E kind \in Listeners : D!add_listener(s, kind)
      PROVE  Threads'
  BY <1>0, <1>6 DEF D!remove_listener, D!add_listener, Threads, D!nodeVars, D!sweepVars
<1>7. CASE UNCHANGED D!vars
  BY <1>0, <1>7 DEF D!vars, Threads
<1> QED  BY <1>1, <1>2, <1>3, <1>4, <1>5, <1>6, <1>7 DEF D!Next, D!SweepStep

\* Every step keeps the tables typed and the index exact.
LEMMA TablesStep == ASSUME D!DiscoveryAssumption, Tables, [D!Next]_(D!vars) PROVE Tables'
<1>0. /\ Threads' /\ Timeout \in Nat
      /\ Node \subseteq D!Instance /\ Silent \subseteq D!Instance
  BY ThreadsStep DEF D!DiscoveryAssumption, D!Instance
<1>1. ASSUME NEW i \in D!Instance, D!register_service(i), UNCHANGED onTime
      PROVE  Tables'
  BY <1>0, <1>1, RegisterExact, TypingParts DEF Tables, D!TypeOK, TablesTyped, Threads
<1>2. ASSUME NEW S, D!Erase(S), UNCHANGED <<listeners, mutexHeld, onTime>>
      PROVE  Tables'
  BY <1>0, <1>2, EraseExact, TypingParts DEF Tables, D!TypeOK, TablesTyped, Threads
<1>3. CASE UNCHANGED <<instances, index, listeners, mutexHeld, onTime>>
  <2>1. IndexExact'
    BY <1>3, AgesExact
  <2>2. QED  BY <1>0, <1>3, <2>1, TypingParts DEF Tables, D!TypeOK, TablesTyped, Threads
<1>4. ASSUME NEW i \in D!Instance, D!heartbeat(i), UNCHANGED onTime
      PROVE  Tables'
  <2>1. /\ instances' \in [DOMAIN instances -> 0..(Timeout + 1)]
        /\ DOMAIN instances' = DOMAIN instances
        /\ UNCHANGED <<index, listeners, mutexHeld, onTime>>
    BY <1>0, <1>4, TypingParts DEF D!heartbeat
  <2>2. IndexExact'
    BY <2>1, AgesExact
  <2>3. QED  BY <1>0, <2>1, <2>2, TypingParts DEF Tables, D!TypeOK, TablesTyped, Threads
<1>5. CASE D!Tick
  <2>1. /\ instances' \in [DOMAIN instances -> 0..(Timeout + 1)]
        /\ DOMAIN instances' = DOMAIN instances
        /\ UNCHANGED <<index, listeners, mutexHeld, onTime>>
    BY <1>0, <1>5, TypingParts DEF D!Tick, D!UpTo
  <2>2. IndexExact'
    BY <2>1, AgesExact
  <2>3. QED  BY <1>0, <2>1, <2>2, TypingParts DEF Tables, D!TypeOK, TablesTyped, Threads
<1>6. ASSUME NEW s \in Service,
             D!remove_listener(s) \/ \E kind \in Listeners : D!add_listener(s, kind)
      PROVE  Tables'
  <2>1. /\ listeners' \in [Service -> SUBSET Listeners]
        /\ UNCHANGED <<instances, index, mutexHeld, onTime>>
    BY <1>6, TypingParts DEF D!remove_listener, D!add_listener
  <2>2. IndexExact'
    BY <2>1, AgesExact
  <2>3. QED  BY <1>0, <2>1, <2>2, TypingParts DEF Tables, D!TypeOK, TablesTyped, Threads
<1>7. ASSUME NEW n \in Node, D!start(n) \/ D!BeatStep(n) \/ D!stop(n)
      PROVE  Tables'
  <2>1. CASE D!start(n) \/ D!RegisterAgain(n)
    BY <1>0, <1>1, <2>1 DEF D!start, D!RegisterAgain
  <2>2. CASE D!Beat(n)
    BY <1>0, <1>4, <2>2 DEF D!Beat
  <2>3. CASE D!BeatWakes(n) \/ D!BeatFails(n) \/ D!stop(n)
    BY <1>3, <2>3 DEF D!BeatWakes, D!BeatFails, D!stop, D!tableVars
  <2>4. CASE D!StopReturns(n)
    BY <1>2, <2>4 DEF D!StopReturns, D!deregister_service
  <2>5. QED  BY <1>7, <2>1, <2>2, <2>3, <2>4 DEF D!BeatStep
<1>8. ASSUME NEW i \in Silent, D!SilentRegisters(i) \/ D!SilentLeaves(i)
      PROVE  Tables'
  BY <1>0, <1>1, <1>2, <1>8 DEF D!SilentRegisters, D!SilentLeaves, D!deregister_service
<1>9. CASE D!cleanup_expired_instances
  BY <1>2, <1>9 DEF D!cleanup_expired_instances
<1>10. CASE D!SweepWakes \/ D!stop_cleanup_thread \/ UNCHANGED D!vars
  BY <1>3, <1>10 DEF D!SweepWakes, D!stop_cleanup_thread, D!vars, D!tableVars
<1> QED  BY <1>5, <1>6, <1>7, <1>8, <1>9, <1>10 DEF D!Next, D!SweepStep

\* What the two clauses about nodes say of one node.
Fine(n) ==
    /\ phase[n] = "off" => n \notin DOMAIN instances
    /\ onTime => /\ phase[n] # "again"
                 /\ phase[n] \in {"waiting", "beating"} =>
                       n \in DOMAIN instances /\ instances[n] <= waited[n]

\* The two clauses, node by node.
LEMMA FineIsBoth == (\A n \in Node : Fine(n)) <=> OffIsOut /\ PunctualIsYoung
BY DEF Fine, OffIsOut, PunctualIsYoung

\* A step that leaves a node's thread, its wait and its instance alone.
LEMMA FineKept ==
  ASSUME NEW n \in Node, Fine(n), onTime' = onTime,
         phase'[n] = phase[n], waited'[n] = waited[n],
         (n \in DOMAIN instances') <=> (n \in DOMAIN instances),
         n \in DOMAIN instances => instances'[n] = instances[n]
  PROVE  Fine(n)'
BY DEF Fine

\* The steps of a node: its thread goes back to wait right after its instance
\* was entered or renewed, and stop erases the instance before it returns.
LEMMA NodeFine ==
  ASSUME D!DiscoveryAssumption, Tables, NEW n \in Node, NEW m \in Node, Fine(n), Fine(m),
         D!start(n) \/ D!BeatStep(n) \/ D!stop(n)
  PROVE  Fine(m)'
<1>0. /\ n \in D!Instance /\ phase \in [Node -> NodePhase] /\ waited \in [Node -> 0..Interval]
      /\ Interval \in Nat /\ DOMAIN instances \subseteq D!Instance
      /\ instances \in [DOMAIN instances -> 0..(Timeout + 1)] /\ onTime \in BOOLEAN
  BY TypingParts DEF Threads, D!DiscoveryAssumption, D!Instance
<1>1. CASE D!start(n)
  <2>1. n \notin DOMAIN instances
    BY <1>1 DEF D!start, Fine
  <2>2. /\ DOMAIN instances' = DOMAIN instances \cup {n}
        /\ \A x \in DOMAIN instances : instances'[x] = instances[x]
        /\ instances'[n] = 0
    BY <1>0, <1>1, <2>1, RegisterExact DEF D!start
  <2>3. /\ phase' = [phase EXCEPT ![n] = "waiting"] /\ waited' = [waited EXCEPT ![n] = 0]
        /\ onTime' = onTime
    BY <1>1, <2>1 DEF D!start
  <2>4. CASE m = n
    BY <1>0, <2>2, <2>3, <2>4 DEF Fine
  <2>5. CASE m # n
    BY <1>0, <2>2, <2>3, <2>5, FineKept
  <2>6. QED  BY <2>4, <2>5
<1>2. CASE D!BeatWakes(n)
  BY <1>0, <1>2 DEF D!BeatWakes, Fine, D!tableVars
<1>3. CASE D!Beat(n)
  <2>1. /\ n \in DOMAIN instances /\ instances' = [instances EXCEPT ![n] = 0]
        /\ phase' = [phase EXCEPT ![n] = IF phase[n] = "beating" THEN "waiting" ELSE "joined"]
        /\ waited' = [waited EXCEPT ![n] = 0] /\ onTime' = onTime
    BY <1>3 DEF D!Beat, D!heartbeat, D!BackToWait
  <2>2. CASE m = n
    BY <1>0, <2>1, <2>2 DEF Fine
  <2>3. CASE m # n
    BY <1>0, <2>1, <2>3, FineKept
  <2>4. QED  BY <2>2, <2>3
<1>4. CASE D!BeatFails(n)
  BY <1>0, <1>4 DEF D!BeatFails, Fine, D!tableVars
<1>5. CASE D!RegisterAgain(n)
  <2>1. /\ DOMAIN instances' = DOMAIN instances \cup {n}
        /\ \A x \in DOMAIN instances : instances'[x] = instances[x]
    BY <1>0, <1>5, RegisterExact DEF D!RegisterAgain
  <2>2. /\ phase[n] \in {"again", "stopping again"}
        /\ phase' = [phase EXCEPT ![n] = IF phase[n] = "again" THEN "waiting" ELSE "joined"]
        /\ waited' = [waited EXCEPT ![n] = 0] /\ onTime' = onTime
    BY <1>5 DEF D!RegisterAgain, D!BackToWait
  <2>3. CASE m = n
    BY <1>0, <2>1, <2>2, <2>3 DEF Fine
  <2>4. CASE m # n
    BY <1>0, <2>1, <2>2, <2>4, FineKept
  <2>5. QED  BY <2>3, <2>4
<1>6. CASE D!StopReturns(n)
  <2>1. /\ DOMAIN instances' = DOMAIN instances \ {n}
        /\ \A x \in DOMAIN instances' : instances'[x] = instances[x]
    BY <1>6, EraseExact DEF D!StopReturns, D!deregister_service
  <2>2. phase' = [phase EXCEPT ![n] = "off"] /\ waited' = waited /\ onTime' = onTime
    BY <1>6 DEF D!StopReturns
  <2>3. CASE m = n
    BY <1>0, <2>1, <2>2, <2>3 DEF Fine
  <2>4. CASE m # n
    BY <1>0, <2>1, <2>2, <2>4, FineKept
  <2>5. QED  BY <2>3, <2>4
<1>7. CASE D!stop(n)
  BY <1>0, <1>7 DEF D!stop, Fine, D!tableVars
<1> QED  BY <1>1, <1>2, <1>3, <1>4, <1>5, <1>6, <1>7 DEF D!BeatStep

\* The clock: a punctual node that runs is waiting and not yet due, so its age
\* and its wait grow together.
LEMMA TickFine ==
  ASSUME D!DiscoveryAssumption, Tables, NEW n \in Node, Fine(n), D!Tick
  PROVE  Fine(n)'
<1>0. /\ waited \in [Node -> 0..Interval] /\ Interval \in Nat /\ Timeout \in Nat
      /\ instances \in [DOMAIN instances -> 0..(Timeout + 1)] /\ onTime \in BOOLEAN
  BY TypingParts DEF Threads, D!DiscoveryAssumption
<1>1. /\ DOMAIN instances' = DOMAIN instances /\ phase' = phase /\ onTime' = onTime
      /\ waited'[n] = D!UpTo(waited[n], Interval)
      /\ \A i \in DOMAIN instances : instances'[i] = D!UpTo(instances[i], Timeout + 1)
  BY DEF D!Tick
<1>2. ASSUME onTime, phase[n] \in {"waiting", "beating"}
      PROVE  n \in DOMAIN instances' /\ instances'[n] <= waited'[n]
  <2>1. waited[n] < Interval
    BY <1>2 DEF D!Tick
  <2>2. n \in DOMAIN instances /\ instances[n] <= waited[n]
    BY <1>2 DEF Fine
  <2>3. QED  BY <1>0, <1>1, <2>1, <2>2 DEF D!UpTo
<1> QED  BY <1>1, <1>2 DEF Fine

\* The sweep: a punctual node that runs is too young for it, and one whose stop
\* has returned is not there.
LEMMA SweepFine ==
  ASSUME D!DiscoveryAssumption, Tables, NEW n \in Node, Fine(n), D!cleanup_expired_instances
  PROVE  Fine(n)'
<1>0. /\ waited \in [Node -> 0..Interval] /\ Interval \in Nat /\ Timeout \in Nat
      /\ Interval <= Timeout
      /\ instances \in [DOMAIN instances -> 0..(Timeout + 1)]
  BY TypingParts DEF Threads, D!DiscoveryAssumption
<1>1. /\ DOMAIN instances' = DOMAIN instances \ D!Expired
      /\ \A x \in DOMAIN instances' : instances'[x] = instances[x]
  BY EraseExact DEF D!cleanup_expired_instances
<1>2. phase' = phase /\ waited' = waited /\ onTime' = onTime
  BY DEF D!cleanup_expired_instances, D!nodeVars
<1>3. ASSUME onTime, phase[n] \in {"waiting", "beating"}
      PROVE  n \in DOMAIN instances' /\ instances'[n] <= waited'[n]
  <2>1. n \in DOMAIN instances /\ instances[n] <= waited[n]
    BY <1>3 DEF Fine
  <2>2. waited[n] \in 0..Interval /\ instances[n] \in 0..(Timeout + 1)
    BY <1>0, <2>1
  <2>3. ~(instances[n] > Timeout)
    BY <1>0, <2>1, <2>2
  <2>4. n \notin D!Expired
    BY <2>3 DEF D!Expired
  <2>5. QED  BY <1>1, <1>2, <2>1, <2>4
<1> QED  BY <1>1, <1>2, <1>3 DEF Fine

\* Every step of the directory and its nodes.
LEMMA DirectoryStep == ASSUME D!DiscoveryAssumption, DirectoryInv, [D!Next]_(D!vars) PROVE DirectoryInv'
<1>0. Tables /\ Tables' /\ Node \cap Silent = {} /\ Silent \subseteq D!Instance
  BY TablesStep DEF DirectoryInv, Tables, D!DiscoveryAssumption, D!Instance
<1>1. ASSUME NEW m \in Node PROVE Fine(m)'
  <2>0. \A n \in Node : Fine(n)
    BY FineIsBoth DEF DirectoryInv
  <2>1. ASSUME NEW n \in Node, D!start(n) \/ D!BeatStep(n) \/ D!stop(n)
        PROVE  Fine(m)'
    BY <1>0, <2>0, <2>1, NodeFine
  <2>2. ASSUME NEW i \in Silent, D!SilentRegisters(i)
        PROVE  Fine(m)'
    <3>1. /\ DOMAIN instances' = DOMAIN instances \cup {i}
          /\ \A x \in DOMAIN instances : instances'[x] = instances[x]
      BY <1>0, <2>2, RegisterExact DEF D!SilentRegisters
    <3>2. phase' = phase /\ waited' = waited /\ onTime' = onTime /\ m # i
      BY <1>0, <2>2 DEF D!SilentRegisters, D!nodeVars
    <3>3. QED  BY <2>0, <3>1, <3>2, FineKept
  <2>3. ASSUME NEW i \in Silent, D!SilentLeaves(i)
        PROVE  Fine(m)'
    <3>1. /\ DOMAIN instances' = DOMAIN instances \ {i}
          /\ \A x \in DOMAIN instances' : instances'[x] = instances[x]
      BY <1>0, <2>3, EraseExact DEF D!SilentLeaves, D!deregister_service
    <3>2. phase' = phase /\ waited' = waited /\ onTime' = onTime /\ m # i
      BY <1>0, <2>3 DEF D!SilentLeaves, D!nodeVars
    <3>3. QED  BY <2>0, <3>1, <3>2, FineKept
  <2>4. CASE D!Tick
    BY <1>0, <2>0, <2>4, TickFine
  <2>5. CASE D!cleanup_expired_instances
    BY <1>0, <2>0, <2>5, SweepFine
  <2>6. CASE UNCHANGED <<instances, phase, waited, onTime>>
    BY <2>0, <2>6, FineKept
  <2>7. CASE D!SweepWakes \/ D!stop_cleanup_thread \/ UNCHANGED D!vars
    BY <2>6, <2>7 DEF D!SweepWakes, D!stop_cleanup_thread, D!vars, D!tableVars, D!nodeVars
  <2>8. ASSUME NEW s \in Service,
               D!remove_listener(s) \/ \E kind \in Listeners : D!add_listener(s, kind)
        PROVE  Fine(m)'
    BY <2>6, <2>8 DEF D!remove_listener, D!add_listener, D!nodeVars
  <2>9. QED  BY <2>1, <2>2, <2>3, <2>4, <2>5, <2>7, <2>8 DEF D!Next, D!SweepStep
<1>2. OffIsOut' /\ PunctualIsYoung'
  BY <1>1 DEF Fine, OffIsOut, PunctualIsYoung
<1> QED  BY <1>0, <1>2 DEF DirectoryInv, Tables

\* What the invariant says of the directory's two look-ups.
LEMMA ExactFromInv == ASSUME D!DiscoveryAssumption, DirectoryInv PROVE D!DirectoryExact
<1>1. \A s \in Service : D!discover_services(s) = {i \in DOMAIN instances : serviceOf[i] = s}
  BY DEF DirectoryInv, IndexExact, D!discover_services
<1>2. D!get_all_services = {serviceOf[i] : i \in DOMAIN instances}
  BY DEF DirectoryInv, IndexExact, D!get_all_services
<1>3. /\ \A n \in Node : phase[n] = "off" => n \notin DOMAIN instances
      /\ \A n \in Node : onTime /\ phase[n] \in {"waiting", "beating"} => n \in DOMAIN instances
  BY DEF DirectoryInv, OffIsOut, PunctualIsYoung
<1> QED  BY <1>1, <1>2, <1>3 DEF D!DirectoryExact

-----------------------------------------------------------------------------
\* For any nodes, clients, services and intervals with the heartbeat at least as
\* frequent as the expiry: discover_services and get_all_services answer exactly
\* what is registered, a node whose stop() has returned is not in the directory
\* even if its heartbeat thread was registering it again meanwhile, and a node
\* whose thread runs on time is never expired by the cleanup thread.
THEOREM DirectoryIsExact == D!Spec => []DirectoryExact
<1>1. D!Init => DirectoryInv
  BY DirectoryInit, CoordinationAssumption
<1>2. DirectoryInv /\ [D!Next]_(D!vars) => DirectoryInv'
  BY DirectoryStep, CoordinationAssumption
<1>3. DirectoryInv => DirectoryExact
  BY ExactFromInv, CoordinationAssumption DEF DirectoryInv, DirectoryExact
<1> QED  BY <1>1, <1>2, <1>3, PTL DEF D!Spec

-----------------------------------------------------------------------------
(* RedisStore.                                                             *)

StoreType ==
    /\ data \in [Key -> Value \cup {RS!NoValue}]
    /\ expires \in [Key -> {"none", "live", "over"}]
    /\ hashes \in [Key -> [Field -> Value \cup {RS!NoValue}]]
    /\ lists \in [Key -> Seq(Value)]
    /\ sets \in [Key -> SUBSET Field]
    /\ zsets \in [Key -> Seq(Score \X Field)]

\* A vector of <<score, member>> has every member once.
MembersOnce(z) == \A i, j \in 1..Len(z) : z[i][2] = z[j][2] => i = j

StoreInv ==
    /\ StoreType
    /\ \A k \in Key : expires[k] # "none" => data[k] # RS!NoValue
    /\ \A k \in Key : Len(lists[k]) <= MaxLen
    /\ \A k \in Key : MembersOnce(zsets[k])

\* One element of a sequence as a sequence.
LEMMA SingleSlice ==
  ASSUME NEW S, NEW s \in Seq(S), NEW i \in 1..Len(s)
  PROVE  SubSeq(s, i, i) = <<s[i]>>
<1>1. Len(s) \in Nat /\ i \in Int /\ \A j \in i..i : s[j] \in S
  OBVIOUS
<1>2. /\ SubSeq(s, i, i) \in Seq(S) /\ Len(SubSeq(s, i, i)) = 1
      /\ \A j \in 1..1 : SubSeq(s, i, i)[j] = s[i + j - 1]
  <2>1. /\ SubSeq(s, i, i) \in Seq(S) /\ Len(SubSeq(s, i, i)) = IF i <= i THEN i - i + 1 ELSE 0
        /\ \A j \in 1..(i - i + 1) : SubSeq(s, i, i)[j] = s[i + j - 1]
    BY <1>1, SubSeqProperties
  <2>2. i - i + 1 = 1 /\ i <= i
    BY <1>1
  <2>3. QED  BY <2>1, <2>2
<1>3. SubSeq(s, i, i)[1] = s[i]
  <2>1. i + 1 - 1 = i
    BY <1>1
  <2>2. QED  BY <1>2, <2>1
<1>4. <<s[i]>> \in Seq(S) /\ Len(<<s[i]>>) = 1 /\ <<s[i]>>[1] = s[i]
  OBVIOUS
<1>5. PICK r \in Seq(S), q \in Seq(S) :
          /\ r = SubSeq(s, i, i) /\ q = <<s[i]>> /\ Len(r) = 1 /\ Len(q) = 1 /\ r[1] = q[1]
  BY <1>2, <1>3, <1>4
<1>6. Len(r) = Len(q) /\ \A j \in 1..Len(r) : r[j] = q[j]
  BY <1>5
<1>7. r = q
  BY <1>6, SeqEqual
<1> QED  BY <1>5, <1>7

\* LRANGE and ZRANGE from a position to itself, to the last one, and of all.
LEMMA Slices ==
  ASSUME NEW S, NEW s \in Seq(S)
  PROVE  /\ \A i \in 1..Len(s) : RS!Slice(s, i - 1, i - 1) = <<s[i]>>
         /\ s # <<>> => RS!Slice(s, -1, -1) = <<s[Len(s)]>>
         /\ RS!Slice(s, 0, -1) = s
<1>1. Len(s) \in Nat
  OBVIOUS
<1>2. ASSUME NEW i \in 1..Len(s) PROVE RS!Slice(s, i - 1, i - 1) = <<s[i]>>
  <2>1. ~(i - 1 < 0) /\ ~(i - 1 > Len(s) - 1) /\ (i - 1) + 1 = i
    BY <1>1
  <2>2. RS!Slice(s, i - 1, i - 1) = SubSeq(s, i, i)
    BY <2>1 DEF RS!Slice
  <2>3. QED  BY <2>2, SingleSlice
<1>3. ASSUME s # <<>> PROVE RS!Slice(s, -1, -1) = <<s[Len(s)]>>
  <2>1. /\ Len(s) \in 1..Len(s) /\ ~(Len(s) + (-1) < 0) /\ ~(Len(s) + (-1) > Len(s) - 1)
        /\ (Len(s) + (-1)) + 1 = Len(s) /\ -1 < 0
    BY <1>1, <1>3
  <2>2. RS!Slice(s, -1, -1) = SubSeq(s, Len(s), Len(s))
    BY <2>1 DEF RS!Slice
  <2>3. QED  BY <2>1, <2>2, SingleSlice
<1>4. RS!Slice(s, 0, -1) = s
  <2>1. ~(0 < 0) /\ -1 < 0 /\ ~(Len(s) + (-1) > Len(s) - 1) /\ (Len(s) + (-1)) + 1 = Len(s) /\ 0 + 1 = 1
    BY <1>1
  <2>2. RS!Slice(s, 0, -1) = SubSeq(s, 1, Len(s))
    BY <2>1 DEF RS!Slice
  <2>3. QED  BY <2>2, SubSeqFull
<1> QED  BY <1>2, <1>3, <1>4

\* ZRANK finds the one place of a member.
LEMMA RankIsPlace ==
  ASSUME NEW k \in Key, zsets[k] \in Seq(Score \X Field), MembersOnce(zsets[k]), NEW m
  PROVE  \/ /\ RS!zrank(k, m) = -1 /\ \A i \in 1..Len(zsets[k]) : zsets[k][i][2] # m
         \/ \E i \in 1..Len(zsets[k]) : /\ zsets[k][i][2] = m /\ RS!zrank(k, m) = i - 1
                                        /\ RS!zrank(k, m) # -1 /\ RS!zrank(k, m) + 1 = i
<1> DEFINE found == {i \in DOMAIN zsets[k] : zsets[k][i][2] = m}
<1>1. DOMAIN zsets[k] = 1..Len(zsets[k]) /\ Len(zsets[k]) \in Nat
  OBVIOUS
<1>2. CASE found = {}
  <2>1. RS!zrank(k, m) = -1
    BY <1>2 DEF RS!zrank
  <2>2. QED  BY <1>1, <1>2, <2>1
<1>3. CASE found # {}
  <2>1. PICK i \in 1..Len(zsets[k]) : zsets[k][i][2] = m
    BY <1>1, <1>3
  <2>2. found = {i} /\ i \in Int /\ i >= 1
    BY <1>1, <2>1 DEF MembersOnce
  <2>3. RS!zrank(k, m) = (CHOOSE a \in found : \A j \in found : a <= j) - 1
    BY <1>3 DEF RS!zrank
  <2> HIDE DEF found
  <2>4. (CHOOSE a \in found : \A j \in found : a <= j) = i
    BY <2>2
  <2>5. RS!zrank(k, m) = i - 1 /\ RS!zrank(k, m) # -1 /\ RS!zrank(k, m) + 1 = i
    BY <2>2, <2>3, <2>4
  <2>6. QED  BY <2>1, <2>5
<1> QED  BY <1>2, <1>3

\* A vector with a new member, sorted, has every member once.
LEMMA SortedOnce ==
  ASSUME NEW z \in Seq(Score \X Field), MembersOnce(z), NEW s \in Score, NEW m \in Field,
         \A i \in 1..Len(z) : z[i][2] # m, NEW r \in RS!Sorted(Append(z, <<s, m>>))
  PROVE  r \in Seq(Score \X Field) /\ MembersOnce(r)
<1> DEFINE a == Append(z, <<s, m>>)
           E == RS!ToSet(a)
<1>1. <<s, m>> \in Score \X Field /\ <<s, m>>[2] = m
  OBVIOUS
<1>2. /\ a \in Seq(Score \X Field) /\ Len(a) = Len(z) + 1 /\ Len(z) \in Nat /\ DOMAIN a = 1..Len(a)
      /\ \A i \in 1..Len(z) : a[i] = z[i]
      /\ a[Len(z) + 1] = <<s, m>>
  BY <1>1
<1>3. MembersOnce(a)
  <2>1. SUFFICES ASSUME NEW i \in 1..Len(a), NEW j \in 1..Len(a), a[i][2] = a[j][2] PROVE i = j
    BY DEF MembersOnce
  <2>2. (i \in 1..Len(z) \/ i = Len(z) + 1) /\ (j \in 1..Len(z) \/ j = Len(z) + 1)
    BY <1>2
  <2>3. CASE i \in 1..Len(z) /\ j \in 1..Len(z)
    BY <1>2, <2>1, <2>3 DEF MembersOnce
  <2>4. CASE i \in 1..Len(z) /\ j = Len(z) + 1
    BY <1>1, <1>2, <2>1, <2>4
  <2>5. CASE i = Len(z) + 1 /\ j \in 1..Len(z)
    BY <1>1, <1>2, <2>1, <2>5
  <2>6. QED  BY <2>2, <2>3, <2>4, <2>5
<1> HIDE DEF a
<1>4. /\ E \subseteq Score \X Field /\ \A p, q \in E : p[2] = q[2] => p = q
  BY <1>2, <1>3 DEF RS!ToSet, MembersOnce
<1>5. RS!Cardinality(E) \in Nat
  <2>1. a \in Surjection(1..Len(a), E)
    BY <1>2 DEF Surjection, RS!ToSet
  <2>2. IsFiniteSet(1..Len(a))
    <3>1. 1 \in Int /\ Len(a) \in Int
      BY <1>2
    <3>2. QED  BY <3>1, FS_Interval
  <2>3. IsFiniteSet(E)
    BY <2>1, <2>2, FS_Surjection
  <2>4. RS!Cardinality(E) = Cardinality(E)
    BY DEF RS!Cardinality, Cardinality
  <2>5. QED  BY <2>3, <2>4, FS_CardinalityType
<1>6. r \in RS!SetToSeqs(E)
  BY DEF RS!Sorted, a
<1> HIDE DEF E
<1>7. PICK n \in Nat : n = RS!Cardinality(E)
  BY <1>5
<1>8. r \in [1..n -> E] /\ \A i, j \in 1..n : i # j => r[i] # r[j]
  BY <1>6, <1>7 DEF RS!SetToSeqs
<1>9. r \in [1..n -> Score \X Field]
  BY <1>4, <1>8
<1>10. r \in Seq(Score \X Field) /\ Len(r) = n
  BY <1>9
<1>11. \A i, j \in 1..n : r[i][2] = r[j][2] => i = j
  <2>1. TAKE i, j \in 1..n
  <2>2. r[i] \in E /\ r[j] \in E
    BY <1>8
  <2>3. QED  BY <1>4, <1>8, <2>2
<1> QED  BY <1>10, <1>11 DEF MembersOnce

\* Erasing the element at a place moves those behind it up.
LEMMA RemovedAt ==
  ASSUME NEW S, NEW s \in Seq(S), NEW k \in 1..Len(s)
  PROVE  /\ RS!RemoveAt(s, k) \in Seq(S) /\ Len(RS!RemoveAt(s, k)) = Len(s) - 1
         /\ \A i \in 1..Len(RS!RemoveAt(s, k)) : RS!RemoveAt(s, k)[i] = IF i < k THEN s[i] ELSE s[i + 1]
<1>1. PICK r : r = RS!RemoveAt(s, k)
  OBVIOUS
<1>2. Len(s) \in Nat /\ k \in Nat /\ k >= 1 /\ k <= Len(s)
  OBVIOUS
<1> DEFINE a == SubSeq(s, 1, k - 1)
           b == SubSeq(s, k + 1, Len(s))
<1>3. a \in Seq(S) /\ Len(a) = k - 1 /\ \A i \in 1..(k - 1) : a[i] = s[i]
  <2>1. 1 \in Int /\ k - 1 \in Int /\ \A i \in 1..(k - 1) : s[i] \in S
    BY <1>2
  <2>2. /\ a \in Seq(S) /\ Len(a) = IF 1 <= k - 1 THEN (k - 1) - 1 + 1 ELSE 0
        /\ \A i \in 1..((k - 1) - 1 + 1) : a[i] = s[1 + i - 1]
    BY <2>1, SubSeqProperties
  <2>3. Len(a) = k - 1 /\ (k - 1) - 1 + 1 = k - 1 /\ \A i \in 1..(k - 1) : 1 + i - 1 = i
    BY <1>2, <2>2
  <2>4. QED  BY <2>2, <2>3
<1>4. b \in Seq(S) /\ Len(b) = Len(s) - k /\ \A i \in 1..(Len(s) - k) : b[i] = s[k + i]
  <2>1. k + 1 \in Int /\ Len(s) \in Int /\ \A i \in (k + 1)..Len(s) : s[i] \in S
    BY <1>2
  <2>2. /\ b \in Seq(S) /\ Len(b) = IF k + 1 <= Len(s) THEN Len(s) - (k + 1) + 1 ELSE 0
        /\ \A i \in 1..(Len(s) - (k + 1) + 1) : b[i] = s[(k + 1) + i - 1]
    BY <2>1, SubSeqProperties
  <2>3. Len(b) = Len(s) - k
    BY <1>2, <2>2
  <2>4. ASSUME NEW i \in 1..(Len(s) - k) PROVE b[i] = s[k + i]
    <3>1. i \in 1..(Len(s) - (k + 1) + 1) /\ (k + 1) + i - 1 = k + i
      BY <1>2
    <3>2. QED  BY <2>2, <3>1
  <2>5. QED  BY <2>2, <2>3, <2>4
<1>5. r = a \o b
  BY <1>1 DEF RS!RemoveAt
<1> HIDE DEF a, b
<1>6. r \in Seq(S) /\ Len(r) = Len(a) + Len(b)
  BY <1>3, <1>4, <1>5, ConcatProperties
<1>7. \A i \in 1..Len(r) : r[i] = IF i <= Len(a) THEN a[i] ELSE b[i - Len(a)]
  BY <1>3, <1>4, <1>5, <1>6, ConcatProperties
<1>8. Len(r) = Len(s) - 1
  BY <1>2, <1>3, <1>4, <1>6
<1>9. ASSUME NEW i \in 1..Len(r) PROVE r[i] = IF i < k THEN s[i] ELSE s[i + 1]
  <2>1. CASE i < k
    <3>1. i \in 1..(k - 1) /\ i <= Len(a)
      BY <1>2, <1>3, <1>8, <2>1
    <3>2. QED  BY <1>3, <1>7, <2>1, <3>1
  <2>2. CASE ~(i < k)
    <3>1. i - Len(a) \in 1..(Len(s) - k) /\ ~(i <= Len(a)) /\ k + (i - Len(a)) = i + 1
      BY <1>2, <1>3, <1>8, <2>2
    <3>2. QED  BY <1>4, <1>7, <2>2, <3>1
  <2>3. QED  BY <2>1, <2>2
<1> QED  BY <1>1, <1>6, <1>8, <1>9

LEMMA StoreInit ==
  ASSUME RS!StoreAssumption, RS!Init
  PROVE  StoreInv
<1>1. ASSUME NEW S PROVE <<>> \in Seq(S)
  OBVIOUS
<1>2. MaxLen \in Nat /\ Len(<<>>) = 0
  BY DEF RS!StoreAssumption
<1>3. StoreType
  BY <1>1 DEF RS!Init, StoreType, RS!NoHash
<1>4. MembersOnce(<<>>)
  BY DEF MembersOnce
<1>5. \A k \in Key : expires[k] = "none" /\ lists[k] = <<>> /\ zsets[k] = <<>>
  BY DEF RS!Init
<1> QED  BY <1>2, <1>3, <1>4, <1>5 DEF StoreInv

\* The commands on data_ and its deadlines.
LEMMA StoreData ==
  ASSUME RS!StoreAssumption, StoreInv, NEW k \in Key,
         \/ \E v \in Value : RS!SET(k, v) \/ RS!SETEX(k, v) \/ RS!SETNX(k, v) \/ RS!INCRBY(k, v)
         \/ RS!EXPIRE(k) \/ RS!Elapse(k)
  PROVE  StoreInv'
<1>1. data \in [Key -> Value \cup {RS!NoValue}] /\ expires \in [Key -> {"none", "live", "over"}]
  BY DEF StoreInv, StoreType
<1>2. CASE \E v \in Value : RS!SET(k, v)
  <2>1. PICK v \in Value : data' = [data EXCEPT ![k] = v] /\ UNCHANGED <<expires, hashes, lists, sets, zsets>>
    BY <1>2 DEF RS!SET
  <2>2. \A l \in Key : data'[l] = IF l = k THEN v ELSE data[l]
    BY <1>1, <2>1
  <2>3. data' \in [Key -> Value \cup {RS!NoValue}]
    BY <1>1, <2>1
  <2>4. \A l \in Key : expires'[l] # "none" => data'[l] # RS!NoValue
    BY <2>1, <2>2 DEF StoreInv, RS!StoreAssumption
  <2>5. QED  BY <2>1, <2>3, <2>4 DEF StoreInv, StoreType
<1>3. CASE \E v \in Value : RS!SETEX(k, v)
  <2>1. PICK v \in Value : /\ data' = [data EXCEPT ![k] = v] /\ expires' = [expires EXCEPT ![k] = "live"]
                          /\ UNCHANGED <<hashes, lists, sets, zsets>>
    BY <1>3 DEF RS!SETEX
  <2>2. \A l \in Key : data'[l] = (IF l = k THEN v ELSE data[l]) /\ (l # k => expires'[l] = expires[l])
    BY <1>1, <2>1
  <2>3. data' \in [Key -> Value \cup {RS!NoValue}] /\ expires' \in [Key -> {"none", "live", "over"}]
    BY <1>1, <2>1
  <2>4. \A l \in Key : expires'[l] # "none" => data'[l] # RS!NoValue
    BY <2>2 DEF StoreInv, RS!StoreAssumption
  <2>5. QED  BY <2>1, <2>3, <2>4 DEF StoreInv, StoreType
<1>4. CASE RS!EXPIRE(k) \/ RS!Elapse(k)
  <2>1. /\ expires[k] # "none" \/ data[k] # RS!NoValue
        /\ expires' = [expires EXCEPT ![k] = "live"] \/ expires' = [expires EXCEPT ![k] = "over"]
        /\ UNCHANGED <<data, hashes, lists, sets, zsets>>
    BY <1>4 DEF RS!EXPIRE, RS!Elapse
  <2>2. expires' \in [Key -> {"none", "live", "over"}] /\ \A l \in Key : l # k => expires'[l] = expires[l]
    BY <1>1, <2>1
  <2>3. \A l \in Key : expires'[l] # "none" => data'[l] # RS!NoValue
    BY <2>1, <2>2 DEF StoreInv
  <2>4. QED  BY <2>1, <2>2, <2>3 DEF StoreInv, StoreType
<1> QED  BY <1>2, <1>3, <1>4 DEF RS!SETNX, RS!INCRBY

\* A key is forgotten by every map.
LEMMA StoreErase ==
  ASSUME RS!StoreAssumption, StoreInv, RS!disconnect \/ \E k \in Key : RS!Erase(k)
  PROVE  StoreInv'
<1>1. ASSUME NEW S PROVE <<>> \in Seq(S)
  OBVIOUS
<1>2. MaxLen \in Nat /\ Len(<<>>) = 0 /\ MembersOnce(<<>>)
  BY DEF RS!StoreAssumption, MembersOnce
<1>3. CASE \E k \in Key : RS!Erase(k)
  <2>1. PICK k \in Key : RS!Erase(k)
    BY <1>3
  <2>2. \A l \in Key : /\ data'[l] = IF l = k THEN RS!NoValue ELSE data[l]
                       /\ expires'[l] = IF l = k THEN "none" ELSE expires[l]
                       /\ lists'[l] = IF l = k THEN <<>> ELSE lists[l]
                       /\ zsets'[l] = IF l = k THEN <<>> ELSE zsets[l]
    BY <2>1 DEF RS!Erase, StoreInv, StoreType
  <2>3. /\ data' \in [Key -> Value \cup {RS!NoValue}] /\ expires' \in [Key -> {"none", "live", "over"}]
        /\ sets' \in [Key -> SUBSET Field]
    BY <2>1 DEF RS!Erase, StoreInv, StoreType
  <2>4. lists' \in [Key -> Seq(Value)] /\ zsets' \in [Key -> Seq(Score \X Field)]
    BY <1>1, <2>1 DEF RS!Erase, StoreInv, StoreType
  <2>5. hashes' \in [Key -> [Field -> Value \cup {RS!NoValue}]]
    BY <2>1 DEF RS!Erase, StoreInv, StoreType, RS!NoHash
  <2>6. QED  BY <1>2, <2>2, <2>3, <2>4, <2>5 DEF StoreInv, StoreType
<1>4. CASE RS!disconnect
  <2>1. \A l \in Key : expires'[l] = "none" /\ lists'[l] = <<>> /\ zsets'[l] = <<>>
    BY <1>4 DEF RS!disconnect
  <2>2. StoreType'
    BY <1>1, <1>4 DEF RS!disconnect, StoreType, RS!NoHash
  <2>3. QED  BY <1>2, <2>1, <2>2 DEF StoreInv
<1> QED  BY <1>3, <1>4

\* The commands on hashes, lists and sets.
LEMMA StoreRest ==
  ASSUME RS!StoreAssumption, StoreInv, NEW k \in Key,
         \/ \E f \in Field : RS!HDEL(k, f) \/ RS!SADD(k, f) \/ RS!SREM(k, f) \/ \E v \in Value : RS!HSET(k, f, v)
         \/ RS!LPOP(k) \/ RS!RPOP(k) \/ \E v \in Value : RS!LPUSH(k, v) \/ RS!RPUSH(k, v)
  PROVE  StoreInv'
<1>1. CASE \E f \in Field, v \in Value \cup {RS!NoValue} : RS!HSET(k, f, v)
  <2>1. PICK f \in Field, v \in Value \cup {RS!NoValue} :
            hashes' = [hashes EXCEPT ![k][f] = v] /\ UNCHANGED <<data, expires, lists, sets, zsets>>
    BY <1>1 DEF RS!HSET
  <2>2. hashes \in [Key -> [Field -> Value \cup {RS!NoValue}]]
    BY DEF StoreInv, StoreType
  <2>3. [hashes[k] EXCEPT ![f] = v] \in [Field -> Value \cup {RS!NoValue}]
    BY <2>2
  <2>4. hashes' \in [Key -> [Field -> Value \cup {RS!NoValue}]]
    BY <2>1, <2>2, <2>3
  <2>5. QED  BY <2>1, <2>4 DEF StoreInv, StoreType
<1>2. CASE \E f \in Field : RS!SADD(k, f) \/ RS!SREM(k, f)
  <2>1. PICK s \in SUBSET Field : sets' = [sets EXCEPT ![k] = s] /\ UNCHANGED <<data, expires, hashes, lists, zsets>>
    BY <1>2 DEF RS!SADD, RS!SREM, RS!SetSet, StoreInv, StoreType
  <2>2. QED  BY <2>1 DEF StoreInv, StoreType
<1>3. CASE RS!LPOP(k) \/ RS!RPOP(k) \/ \E v \in Value : RS!LPUSH(k, v) \/ RS!RPUSH(k, v)
  <2>1. PICK old \in Seq(Value) : old = lists[k]
    BY DEF StoreInv, StoreType
  <2>2. PICK l \in Seq(Value) : RS!SetList(k, l)
    <3>1. CASE RS!LPOP(k)
      <4>1. Tail(old) \in Seq(Value) /\ RS!SetList(k, Tail(old))
        BY <2>1, <3>1, HeadTailProperties DEF RS!LPOP
      <4>2. QED  BY <4>1
    <3>2. CASE RS!RPOP(k)
      <4>1. old # <<>> /\ RS!SetList(k, RS!Front(old))
        BY <2>1, <3>2 DEF RS!RPOP
      <4>2. 1 \in Int /\ Len(old) - 1 \in Int /\ \A i \in 1..(Len(old) - 1) : old[i] \in Value
        OBVIOUS
      <4>3. RS!Front(old) \in Seq(Value)
        BY <4>2, SubSeqProperties DEF RS!Front
      <4>4. QED  BY <4>1, <4>3
    <3>3. CASE \E v \in Value : RS!LPUSH(k, v)
      <4>1. PICK v \in Value : RS!SetList(k, <<v>> \o old)
        BY <2>1, <3>3 DEF RS!LPUSH
      <4>2. <<v>> \in Seq(Value)
        OBVIOUS
      <4>3. <<v>> \o old \in Seq(Value)
        BY <4>2, ConcatProperties
      <4>4. QED  BY <4>1, <4>3
    <3>4. CASE \E v \in Value : RS!RPUSH(k, v)
      <4>1. PICK v \in Value : RS!SetList(k, Append(old, v))
        BY <2>1, <3>4 DEF RS!RPUSH
      <4>2. Append(old, v) \in Seq(Value)
        OBVIOUS
      <4>3. QED  BY <4>1, <4>2
    <3>5. QED  BY <1>3, <3>1, <3>2, <3>3, <3>4
  <2>3. /\ Len(l) <= MaxLen /\ lists' = [lists EXCEPT ![k] = l]
        /\ UNCHANGED <<data, expires, hashes, sets, zsets>>
    BY <2>2 DEF RS!SetList
  <2>4. lists' \in [Key -> Seq(Value)] /\ \A m \in Key : lists'[m] = IF m = k THEN l ELSE lists[m]
    BY <2>3 DEF StoreInv, StoreType
  <2>5. \A m \in Key : Len(lists'[m]) <= MaxLen
    BY <2>3, <2>4 DEF StoreInv
  <2>6. QED  BY <2>3, <2>4, <2>5 DEF StoreInv, StoreType
<1> QED  BY <1>1, <1>2, <1>3 DEF RS!HDEL

\* ZADD and ZREM.
LEMMA StoreZset ==
  ASSUME RS!StoreAssumption, StoreInv, NEW k \in Key, NEW m \in Field,
         RS!ZREM(k, m) \/ \E s \in Score : RS!ZADD(k, s, m)
  PROVE  StoreInv'
<1>1. PICK z \in Seq(Score \X Field) : z = zsets[k] /\ MembersOnce(z)
  BY DEF StoreInv, StoreType
<1>2. Len(z) \in Nat
  OBVIOUS
<1>3. PICK r \in Seq(Score \X Field) : RS!SetZset(k, r) /\ MembersOnce(r)
  <2>1. CASE RS!zrank(k, m) = -1
    <3>1. PICK s \in Score : RS!ZADD(k, s, m)
      BY <2>1 DEF RS!ZREM
    <3>2. PICK r \in RS!Sorted(Append(z, <<s, m>>)) : RS!SetZset(k, r)
      BY <1>1, <2>1, <3>1 DEF RS!ZADD
    <3>3. \A i \in 1..Len(z) : z[i][2] # m
      BY <1>1, <2>1, RankIsPlace
    <3>4. QED  BY <1>1, <3>2, <3>3, SortedOnce
  <2>2. CASE RS!zrank(k, m) # -1
    <3>1. PICK i \in 1..Len(z) : z[i][2] = m /\ RS!zrank(k, m) + 1 = i
      BY <1>1, <2>2, RankIsPlace
    <3>2. CASE \E s \in Score : RS!ZADD(k, s, m)
      <4>1. PICK s \in Score : RS!SetZset(k, [z EXCEPT ![i] = <<s, m>>])
        BY <1>1, <2>2, <3>1, <3>2 DEF RS!ZADD
      <4>2. PICK e \in Score \X Field : e = <<s, m>> /\ e[2] = m
        <5>1. <<s, m>> \in Score \X Field /\ <<s, m>>[2] = m
          OBVIOUS
        <5>2. QED  BY <5>1
      <4>3. PICK r : r = [z EXCEPT ![i] = e]
        OBVIOUS
      <4>4. r \in Seq(Score \X Field) /\ Len(r) = Len(z) /\ \A j \in 1..Len(z) : r[j] = IF j = i THEN e ELSE z[j]
        BY <4>3, ExceptSeq
      <4>5. MembersOnce(r)
        <5>1. \A j \in 1..Len(z) : r[j][2] = z[j][2]
          BY <3>1, <4>2, <4>4
        <5>2. QED  BY <1>1, <4>4, <5>1 DEF MembersOnce
      <4>6. QED  BY <4>1, <4>2, <4>3, <4>4, <4>5
    <3>3. CASE RS!ZREM(k, m)
      <4>1. RS!SetZset(k, RS!RemoveAt(z, i))
        BY <1>1, <3>1, <3>3 DEF RS!ZREM
      <4>2. PICK r : r = RS!RemoveAt(z, i)
        OBVIOUS
      <4>3. /\ r \in Seq(Score \X Field) /\ Len(r) = Len(z) - 1
            /\ \A j \in 1..Len(r) : r[j] = IF j < i THEN z[j] ELSE z[j + 1]
        BY <4>2, RemovedAt
      <4>4. MembersOnce(r)
        <5>1. SUFFICES ASSUME NEW a \in 1..Len(r), NEW b \in 1..Len(r), r[a][2] = r[b][2] PROVE a = b
          BY DEF MembersOnce
        <5>2. PICK c \in 1..Len(z) : c = (IF a < i THEN a ELSE a + 1) /\ r[a] = z[c]
          <6>1. a \in 1..Len(z) /\ a + 1 \in 1..Len(z)
            BY <1>2, <4>3
          <6>2. QED  BY <4>3, <6>1
        <5>3. PICK d \in 1..Len(z) : d = (IF b < i THEN b ELSE b + 1) /\ r[b] = z[d]
          <6>1. b \in 1..Len(z) /\ b + 1 \in 1..Len(z)
            BY <1>2, <4>3
          <6>2. QED  BY <4>3, <6>1
        <5>4. c = d
          BY <1>1, <5>1, <5>2, <5>3 DEF MembersOnce
        <5>5. QED  BY <1>2, <4>3, <5>2, <5>3, <5>4
      <4>5. QED  BY <4>1, <4>2, <4>3, <4>4
    <3>4. QED  BY <3>2, <3>3
  <2>3. QED  BY <2>1, <2>2
<1>4. zsets' = [zsets EXCEPT ![k] = r] /\ UNCHANGED <<data, expires, hashes, lists, sets>>
  BY <1>3 DEF RS!SetZset
<1>5. zsets' \in [Key -> Seq(Score \X Field)] /\ \A l \in Key : zsets'[l] = IF l = k THEN r ELSE zsets[l]
  BY <1>4 DEF StoreInv, StoreType
<1>6. \A l \in Key : MembersOnce(zsets'[l])
  BY <1>3, <1>5 DEF StoreInv
<1> QED  BY <1>4, <1>5, <1>6 DEF StoreInv, StoreType

LEMMA StoreStep ==
  ASSUME RS!StoreAssumption, StoreInv, [RS!Next]_(RS!redisVars)
  PROVE  StoreInv'
<1>1. CASE UNCHANGED RS!redisVars
  BY <1>1 DEF RS!redisVars, StoreInv, StoreType, MembersOnce
<1> QED  BY <1>1, StoreData, StoreErase, StoreRest, StoreZset DEF RS!Next, RS!DEL, RS!check_expire

\* For all keys, members, values and lengths: no deadline outlives its key,
\* ZADD and ZREM leave a sorted set with every member once, ranked where
\* ZRANGE shows it, and LRANGE shows at its ends what LPOP and RPOP take.
THEOREM StoreStaysConsistent == RS!Spec => []StoreConsistent
<1>0. RS!StoreAssumption
  BY CoordinationAssumption
<1>1. StoreInv /\ [RS!Next]_(RS!redisVars) => StoreInv'
  BY <1>0, StoreStep
<1>2. StoreInv => StoreConsistent
  <2>1. SUFFICES ASSUME StoreInv PROVE StoreConsistent
    OBVIOUS
  <2>2. RS!TypeOK
    <3>1. \A k \in Key : lists[k] \in RS!BoundedSeq(Value, MaxLen)
      <4>1. TAKE k \in Key
      <4>2. PICK n \in Nat : n = Len(lists[k]) /\ lists[k] \in [1..n -> Value] /\ n <= MaxLen
        BY <2>1 DEF StoreInv, StoreType
      <4>3. n \in 0..MaxLen
        BY <1>0, <4>2 DEF RS!StoreAssumption
      <4>4. QED  BY <4>2, <4>3 DEF RS!BoundedSeq, RS!SeqOf
    <3>2. lists \in [Key -> RS!BoundedSeq(Value, MaxLen)]
      BY <2>1, <3>1 DEF StoreInv, StoreType
    <3>3. QED  BY <2>1, <3>2 DEF StoreInv, StoreType, RS!TypeOK
  <2>3. ASSUME NEW k \in Key
        PROVE  /\ RS!zcard(k) = RS!Cardinality({m \in Field : RS!zrank(k, m) # -1})
               /\ \A m \in Field : RS!zrank(k, m) # -1 => RS!zrange(k, RS!zrank(k, m), RS!zrank(k, m)) = <<m>>
    <3>1. PICK z \in Seq(Score \X Field) : z = zsets[k] /\ MembersOnce(z)
      BY <2>1 DEF StoreInv, StoreType
    <3>2. \A i \in 1..Len(z) : z[i][2] \in Field
      OBVIOUS
    <3>3. RS!zcard(k) = RS!Cardinality({m \in Field : RS!zrank(k, m) # -1})
      <4> DEFINE M == {m \in Field : RS!zrank(k, m) # -1}
                 f == [i \in 1..Len(z) |-> z[i][2]]
      <4>1. \A m \in Field : m \in M <=> \E i \in 1..Len(z) : z[i][2] = m
        BY <3>1, RankIsPlace
      <4>2. f \in Bijection(1..Len(z), M)
        BY <3>1, <3>2, <4>1 DEF Bijection, Injection, Surjection, IsInjective, MembersOnce
      <4> HIDE DEF M, f
      <4>3. Cardinality(M) = Len(z)
        <5>1. Len(z) \in Nat /\ ExistsBijection(1..Len(z), M)
          BY <4>2 DEF ExistsBijection
        <5>2. QED  BY <5>1, FS_CountingElements
      <4>4. RS!Cardinality(M) = Cardinality(M)
        BY DEF RS!Cardinality, Cardinality
      <4>5. QED  BY <3>1, <4>3, <4>4 DEF RS!zcard, M
    <3>4. ASSUME NEW m \in Field, RS!zrank(k, m) # -1
          PROVE  RS!zrange(k, RS!zrank(k, m), RS!zrank(k, m)) = <<m>>
      <4>1. PICK i \in 1..Len(z) : z[i][2] = m /\ RS!zrank(k, m) = i - 1
        BY <3>1, <3>4, RankIsPlace
      <4>2. RS!Slice(z, i - 1, i - 1) = <<z[i]>>
        BY Slices
      <4>3. RS!zrange(k, RS!zrank(k, m), RS!zrank(k, m)) = [j \in DOMAIN <<z[i]>> |-> <<z[i]>>[j][2]]
        BY <3>1, <4>1, <4>2 DEF RS!zrange
      <4>4. PICK e : e = z[i] /\ e[2] = m
        BY <4>1
      <4>5. [j \in DOMAIN <<e>> |-> <<e>>[j][2]] = <<m>>
        BY <4>4
      <4>6. QED  BY <4>3, <4>4, <4>5
    <3>5. QED  BY <3>3, <3>4
  <2>4. ASSUME NEW k \in Key
        PROVE  /\ lists[k] # <<>> => /\ RS!lrange(k, 0, 0) = <<Head(lists[k])>>
                                     /\ RS!lrange(k, -1, -1) = <<RS!Last(lists[k])>>
               /\ RS!lrange(k, 0, -1) = lists[k]
    <3>1. PICK s \in Seq(Value) : s = lists[k]
      BY <2>1 DEF StoreInv, StoreType
    <3>2. RS!Slice(s, 0, -1) = s /\ (s # <<>> => RS!Slice(s, -1, -1) = <<s[Len(s)]>>)
      BY Slices
    <3>3. s # <<>> => RS!Slice(s, 0, 0) = <<s[1]>> /\ Head(s) = s[1]
      <4>1. s # <<>> => 1 \in 1..Len(s) /\ 1 - 1 = 0 /\ Head(s) = s[1]
        OBVIOUS
      <4>2. \A i \in 1..Len(s) : RS!Slice(s, i - 1, i - 1) = <<s[i]>>
        BY Slices
      <4>3. s # <<>> => RS!Slice(s, 1 - 1, 1 - 1) = <<s[1]>>
        BY <4>1, <4>2
      <4>4. QED  BY <4>1, <4>3
    <3>4. QED  BY <3>1, <3>2, <3>3 DEF RS!lrange, RS!Last
  <2>5. RS!StoreConsistent
    BY <2>1, <2>3, <2>4 DEF StoreInv, RS!StoreConsistent
  <2>6. QED  BY <2>2, <2>5 DEF StoreConsistent
<1>3. RS!Init => StoreInv
  BY <1>0, StoreInit
<1> QED  BY <1>1, <1>2, <1>3, PTL DEF RS!Spec
=============================================================================

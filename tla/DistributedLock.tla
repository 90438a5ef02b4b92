-------------------------- MODULE DistributedLock ---------------------------
(***************************************************************************)
(* redis::DistributedLock (include/chwell/redis/distributed_lock.h) over   *)
(* the commands of redis::RedisClient (src/redis/redis_client.cpp).  Each  *)
(* lock object has one user thread, which calls try_lock and unlock, and a *)
(* renew thread that lives from a successful try_lock to the unlock.       *)
(*                                                                         *)
(* A Redis command is one step (RedisClient::execute holds its mutex_);    *)
(* between two commands anything may happen.  RedisClient as it stands is  *)
(* an in-memory stand-in in which an expired key stays until a GET of it;  *)
(* its header announces that hiredis may replace it, and server = TRUE is  *)
(* that case: a server whose keys vanish when they expire, shared by       *)
(* processes that may crash.                                               *)
(*                                                                         *)
(* A token is drawn at random from 2^64 values; the model takes tokens to  *)
(* be distinct: <<l, n>> for the n-th acquisition of lock object l.        *)
(***************************************************************************)
EXTENDS Naturals

CONSTANTS
    Lock,           \* the lock objects, all on the same lock_key_
    MaxAcquire,     \* bound of the model: acquisitions per object
    Server,         \* whether a real server is behind RedisClient: {TRUE},
                    \* {FALSE} for the in-memory one, or both cases
    Punctual,       \* the same for: threads are never later than the TTL
    CrashAt         \* program points at which the process of a lock may crash

NoToken == <<>>

ASSUME LockAssumption ==
    /\ MaxAcquire \in Nat
    /\ Server \subseteq BOOLEAN /\ Punctual \subseteq BOOLEAN

VARIABLES
    server,     \* the RedisClient of this system speaks to a server
    punctual,   \* renewals and unlock are never later than the TTL
    key,        \* the value stored under lock_key_
    ttl,        \* its entry in expires_: none, in the future, or in the past
    locked,     \* locked_
    running,    \* renew_running_
    fence,      \* fencing_token_
    upc,        \* where the user thread is
    rpc,        \* where the renew thread is; none: renew_thread_ not joinable
    aborted     \* std::terminate was called

world == <<server, punctual>>
vars == <<world, key, ttl, locked, running, fence, upc, rpc, aborted>>

UserState  == {"idle", "won", "leased", "holding", "stopping", "joined",
               "deleting", "crashed"}
RenewState == {"none", "sleep", "get", "expire", "lost", "ended"}

Init ==
    /\ server \in Server /\ punctual \in Punctual
    /\ key = NoToken /\ ttl = "none"
    /\ locked = [l \in Lock |-> FALSE]
    /\ running = [l \in Lock |-> FALSE]
    /\ fence = [l \in Lock |-> 0]
    /\ upc = [l \in Lock |-> "idle"]
    /\ rpc = [l \in Lock |-> "none"]
    /\ aborted = FALSE

\* lock_token_ of a lock that holds one; fencing_token_ counts acquisitions.
Token(l) == <<l, fence[l]>>

UserGoto(l, from, to)  == upc[l] = from /\ upc' = [upc EXCEPT ![l] = to]
RenewGoto(l, from, to) == rpc[l] = from /\ rpc' = [rpc EXCEPT ![l] = to]

-----------------------------------------------------------------------------
\* The Redis commands.  GET looks at the expiry first; SETNX, DEL and EXPIRE
\* of the in-memory client do not.
Found == IF ttl = "over" THEN NoToken ELSE key

GET ==
    /\ key' = Found
    /\ ttl' = IF ttl = "over" THEN "none" ELSE ttl

\* Mutant of DEL: the entry of expires_ survives the key.
DELKeepingExpiry == key' = NoToken /\ UNCHANGED ttl

DEL == key' = NoToken /\ ttl' = "none"

EXPIRE ==
    /\ ttl' = IF key = NoToken THEN ttl ELSE "live"
    /\ UNCHANGED key

\* Time passes: the key outlives its TTL.  A renewal every TTL / 2 prevents it
\* while the process of the owner lives, unless the threads are late.
KeyExpires ==
    /\ ~aborted
    /\ ttl = "live"
    /\ punctual => \A l \in Lock : upc[l] # "crashed" => key # Token(l)
    /\ \/ server /\ key' = NoToken /\ ttl' = "none"
       \/ ~server /\ ttl' = "over" /\ UNCHANGED key
    /\ UNCHANGED <<world, locked, running, fence, upc, rpc, aborted>>

-----------------------------------------------------------------------------
\* Mutant of SETNX: SET, which overwrites the key of another holder.
SETOver(l) == key' = <<l, fence[l] + 1>>

\* SETNX by lock l, when it stores the token.
SETNX(l) == key = NoToken /\ key' = <<l, fence[l] + 1>>

\* try_lock: SETNX.  A try_lock that fails changes nothing, and lock() is
\* try_lock in a loop.  fencing_token_ is counted here and not after the EXPIRE:
\* only the thread that is inside try_lock could tell.
SetNx(l) ==
    /\ ~aborted
    /\ fence[l] < MaxAcquire
    /\ UserGoto(l, "idle", "won")
    /\ SETNX(l)
    /\ fence' = [fence EXCEPT ![l] = @ + 1]
    /\ UNCHANGED <<world, ttl, locked, running, rpc, aborted>>

\* Mutant of SetExpire: no EXPIRE, the renew thread will send the first one.
SetNoExpire(l) ==
    /\ ~aborted
    /\ UserGoto(l, "won", "leased")
    /\ UNCHANGED <<world, key, ttl, locked, running, fence, rpc, aborted>>

\* try_lock: EXPIRE, a command of its own.
SetExpire(l) ==
    /\ ~aborted
    /\ UserGoto(l, "won", "leased")
    /\ EXPIRE
    /\ UNCHANGED <<world, locked, running, fence, rpc, aborted>>

\* try_lock: the local state, then start_renew_thread.  Assigning to a
\* std::thread that is joinable calls std::terminate.
Acquired(l) ==
    /\ ~aborted
    /\ UserGoto(l, "leased", "holding")
    /\ locked' = [locked EXCEPT ![l] = TRUE]
    /\ running' = [running EXCEPT ![l] = TRUE]
    /\ \/ rpc[l] = "none" /\ rpc' = [rpc EXCEPT ![l] = "sleep"] /\ UNCHANGED aborted
       \/ rpc[l] # "none" /\ aborted' = TRUE /\ UNCHANGED rpc
    /\ UNCHANGED <<world, key, ttl, fence>>

\* unlock: return at once if the renew thread found the lock lost, otherwise
\* tell the thread to stop ...
unlock(l) ==
    /\ ~aborted
    /\ \/ ~locked[l] /\ UserGoto(l, "holding", "idle") /\ UNCHANGED running
       \/ /\ locked[l]
          /\ UserGoto(l, "holding", "stopping")
          /\ running' = [running EXCEPT ![l] = FALSE]
    /\ UNCHANGED <<world, key, ttl, locked, fence, rpc, aborted>>

\* Mutant of JoinRenew: detach, the thread may still be in its loop.
DetachRenew(l) ==
    /\ ~aborted
    /\ UserGoto(l, "stopping", "joined")
    /\ UNCHANGED <<world, key, ttl, locked, running, fence, rpc, aborted>>

\* ... join it ...
JoinRenew(l) ==
    /\ ~aborted
    /\ rpc[l] = "ended"
    /\ UserGoto(l, "stopping", "joined")
    /\ rpc' = [rpc EXCEPT ![l] = "none"]
    /\ UNCHANGED <<world, key, ttl, locked, running, fence, aborted>>

\* ... GET the key and compare ...
UnlockGet(l) ==
    /\ ~aborted
    /\ GET
    /\ \/ Found = Token(l) /\ UserGoto(l, "joined", "deleting") /\ UNCHANGED locked
       \/ /\ Found # Token(l)
          /\ UserGoto(l, "joined", "idle")
          /\ locked' = [locked EXCEPT ![l] = FALSE]
    /\ UNCHANGED <<world, running, fence, rpc, aborted>>

\* ... and DEL it, whoever owns it by then.
UnlockDel(l) ==
    /\ ~aborted
    /\ UserGoto(l, "deleting", "idle")
    /\ DEL
    /\ locked' = [locked EXCEPT ![l] = FALSE]
    /\ UNCHANGED <<world, running, fence, rpc, aborted>>

-----------------------------------------------------------------------------
\* The renew thread wakes up: stopped, not locked any more, or time to renew.
RenewWake(l) ==
    /\ ~aborted
    /\ \/ ~(running[l] /\ locked[l]) /\ RenewGoto(l, "sleep", "ended")
       \/ running[l] /\ locked[l] /\ RenewGoto(l, "sleep", "get")
    /\ UNCHANGED <<world, key, ttl, locked, running, fence, upc, aborted>>

\* Mutant of RenewGet: a lost key is taken for a late reply.
RenewIgnoringLoss(l) ==
    /\ ~aborted
    /\ GET
    /\ \/ Found = Token(l) /\ RenewGoto(l, "get", "expire")
       \/ Found # Token(l) /\ RenewGoto(l, "get", "sleep")
    /\ UNCHANGED <<world, locked, running, fence, upc, aborted>>

RenewGet(l) ==
    /\ ~aborted
    /\ GET
    /\ \/ Found = Token(l) /\ RenewGoto(l, "get", "expire")
       \/ Found # Token(l) /\ RenewGoto(l, "get", "lost")
    /\ UNCHANGED <<world, locked, running, fence, upc, aborted>>

\* EXPIRE on the key, whoever owns it by then.
RenewExpire(l) ==
    /\ ~aborted
    /\ RenewGoto(l, "expire", "sleep")
    /\ EXPIRE
    /\ UNCHANGED <<world, locked, running, fence, upc, aborted>>

\* The key is somebody else's: the thread clears locked_ and ends.
RenewLost(l) ==
    /\ ~aborted
    /\ RenewGoto(l, "lost", "ended")
    /\ locked' = [locked EXCEPT ![l] = FALSE]
    /\ UNCHANGED <<world, key, ttl, running, fence, upc, aborted>>

\* The process that holds the lock object dies, with both threads.
Crash(l) ==
    /\ ~aborted
    /\ server /\ upc[l] \in CrashAt
    /\ upc' = [upc EXCEPT ![l] = "crashed"]
    /\ rpc' = [rpc EXCEPT ![l] = "none"]
    /\ UNCHANGED <<world, key, ttl, locked, running, fence, aborted>>

\* Nothing more to do: the bound is reached, or the program is gone.
Finished ==
    /\ aborted \/ \A l \in Lock : /\ upc[l] \in {"idle", "crashed"}
                                  /\ fence[l] = MaxAcquire \/ upc[l] = "crashed"
                                     \/ key # NoToken
    /\ UNCHANGED vars

UserStep(l) ==
    SetExpire(l) \/ Acquired(l) \/ JoinRenew(l) \/ UnlockGet(l) \/ UnlockDel(l)

RenewStep(l) == RenewWake(l) \/ RenewGet(l) \/ RenewExpire(l) \/ RenewLost(l)

Next ==
    \/ \E l \in Lock : SetNx(l) \/ UserStep(l) \/ unlock(l)
                       \/ RenewStep(l) \/ Crash(l)
    \/ KeyExpires
    \/ Finished

Spec == Init /\ [][Next]_vars

\* Threads run and clocks advance; a holder may keep the lock for ever.
Fairness ==
    /\ \A l \in Lock : WF_vars(UserStep(l)) /\ WF_vars(RenewStep(l))
    /\ WF_vars(KeyExpires)

FairSpec == Spec /\ Fairness
-----------------------------------------------------------------------------
TypeOK ==
    /\ key \in {NoToken} \cup (Lock \X (1..MaxAcquire))
    /\ ttl \in {"none", "live", "over"}
    /\ key = NoToken => ttl = "none"
    /\ locked \in [Lock -> BOOLEAN] /\ running \in [Lock -> BOOLEAN]
    /\ fence \in [Lock -> 0..MaxAcquire]
    /\ upc \in [Lock -> UserState] /\ rpc \in [Lock -> RenewState]
    /\ aborted \in BOOLEAN
    /\ server \in Server /\ punctual \in Punctual

\* Property 1 of the header, mutual exclusion, for threads that are punctual:
\* from the SETNX that won until the DEL the key carries the token of the lock,
\* so no second lock object can win.  Crashes of other holders do not break it.
HolderOwnsKey ==
    punctual => \A l \in Lock : upc[l] \notin {"idle", "crashed"} => key = Token(l)

\* A renew thread never outlives the critical section it was started for: when
\* its lock is free or being released by GET and DEL it sends no command, so it
\* cannot prolong the key of the next holder.  It may only be left to be joined.
QuietAfterUnlock ==
    \A l \in Lock :
        upc[l] \in {"idle", "won", "leased", "joined", "deleting"}
            => rpc[l] \in {"none", "ended"}

\* Mutual exclusion, and no renewal from outside the critical section.
LockSound == TypeOK /\ HolderOwnsKey /\ QuietAfterUnlock

\* A holder whose key was lost is told, through locked_, by its renew thread.
LossIsNoticed ==
    \A l \in Lock : (upc[l] = "holding" /\ key # Token(l))
                        ~> (~locked[l] \/ upc[l] # "holding" \/ aborted)

\* A key is given back: by the unlock that was called, or by its TTL when the
\* owner has crashed (ttl_seconds, "锁持有超时").
KeyIsFreed ==
    \A l \in Lock :
        (key = Token(l) /\ upc[l] \in {"stopping", "joined", "deleting", "crashed"})
            ~> (key # Token(l) \/ aborted)

-----------------------------------------------------------------------------
(* What the comments of the code say and the code does not do.             *)

\* Property 4 of the header: only the holder releases its lock.
OnlyHolderReleases ==
    [][\A l \in Lock : upc[l] = "deleting" /\ upc'[l] = "idle" => key \in {Token(l), NoToken}]_vars

\* The renew thread: "Renew only if still owner".
OnlyOwnerRenews ==
    [][\A l \in Lock : rpc[l] = "expire" /\ rpc'[l] = "sleep" => key \in {Token(l), NoToken}]_vars

\* fencing_token(): a counter that increases monotonically, so that the storage
\* can refuse writes with a smaller token.
FencingIncreases ==
    [][\A l \in Lock : fence'[l] # fence[l] => \A m \in Lock : fence'[l] > fence[m]]_vars

\* try_lock: returns true on success.
TryLockReturns == ~aborted
=============================================================================

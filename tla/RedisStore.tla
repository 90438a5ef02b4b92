----------------------------- MODULE RedisStore -----------------------------
(***************************************************************************)
(* RedisClient (src/src/redis/redis_client.cpp): the in-memory store       *)
(* behind the client, six maps by key under one mutex. Every command is    *)
(* one step of execute; the commands that only read are operators. Keys do *)
(* not meet, so an action takes the key it is about; a deadline is "live"  *)
(* until time passes it.                                                   *)
(***************************************************************************)
EXTENDS Integers, Sequences, SequencesExt, FiniteSets

CONSTANTS
    Key,
    Field,          \* hash fields and members of sets, numbers for their order
    Value,          \* numbers, as strings hold them; 0 included
    Score,
    MaxLen          \* the longest list

NoValue == -1

\* Holds of the constants of every instance: no value looks like an absent one.
StoreAssumption == NoValue \notin Value /\ MaxLen \in Nat

VARIABLES
    data,           \* data_: NoValue when the key is absent
    expires,        \* expires_: "none", "live" or "over" (in the past)
    hashes,         \* hashes_: field -> value
    lists, sets,
    zsets           \* zsets_: the vector of <<score, member>>

redisVars == <<data, expires, hashes, lists, sets, zsets>>

NoHash == [f \in Field |-> NoValue]

TypeOK ==
    /\ data \in [Key -> Value \cup {NoValue}]
    /\ expires \in [Key -> {"none", "live", "over"}]
    /\ hashes \in [Key -> [Field -> Value \cup {NoValue}]]
    /\ lists \in [Key -> BoundedSeq(Value, MaxLen)]
    /\ sets \in [Key -> SUBSET Field]
    /\ zsets \in [Key -> Seq(Score \X Field)]

Init ==
    /\ data = [k \in Key |-> NoValue]
    /\ expires = [k \in Key |-> "none"]
    /\ hashes = [k \in Key |-> NoHash]
    /\ lists = [k \in Key |-> <<>>]
    /\ sets = [k \in Key |-> {}]
    /\ zsets = [k \in Key |-> <<>>]

-----------------------------------------------------------------------------
\* The commands that read.
hget(k, f) == hashes[k][f]
hlen(k) == Cardinality({f \in Field : hashes[k][f] # NoValue})

\* LRANGE and ZRANGE: negative indices count from the end, the ends are clamped.
Slice(s, start, stop) ==
    LET from == IF start < 0 THEN Len(s) + start ELSE start
        to == IF stop < 0 THEN Len(s) + stop ELSE stop
    IN SubSeq(s, (IF from < 0 THEN 0 ELSE from) + 1, (IF to > Len(s) - 1 THEN Len(s) - 1 ELSE to) + 1)

lrange(k, start, stop) == Slice(lists[k], start, stop)
zrange(k, start, stop) == [i \in DOMAIN Slice(zsets[k], start, stop) |-> Slice(zsets[k], start, stop)[i][2]]

zrank(k, m) ==
    LET found == {i \in DOMAIN zsets[k] : zsets[k][i][2] = m}
    IN IF found = {} THEN -1 ELSE (CHOOSE i \in found : \A j \in found : i <= j) - 1

zcard(k) == Len(zsets[k])

-----------------------------------------------------------------------------
SET(k, v) ==
    /\ data' = [data EXCEPT ![k] = v]
    /\ UNCHANGED <<expires, hashes, lists, sets, zsets>>

SETEX(k, v) ==
    /\ data' = [data EXCEPT ![k] = v]
    /\ expires' = [expires EXCEPT ![k] = "live"]
    /\ UNCHANGED <<hashes, lists, sets, zsets>>

\* SETNX does not look at the deadline.
SETNX(k, v) == data[k] = NoValue /\ SET(k, v)

\* A plausible bug: the deadline of an erased key stays behind.
EraseKeepingDeadline(k) ==
    /\ data' = [data EXCEPT ![k] = NoValue]
    /\ hashes' = [hashes EXCEPT ![k] = NoHash]
    /\ lists' = [lists EXCEPT ![k] = <<>>]
    /\ sets' = [sets EXCEPT ![k] = {}]
    /\ zsets' = [zsets EXCEPT ![k] = <<>>]
    /\ UNCHANGED expires

\* A key is erased from every map: by DEL, by disconnect and by check_expire.
Erase(k) ==
    /\ data' = [data EXCEPT ![k] = NoValue]
    /\ expires' = [expires EXCEPT ![k] = "none"]
    /\ hashes' = [hashes EXCEPT ![k] = NoHash]
    /\ lists' = [lists EXCEPT ![k] = <<>>]
    /\ sets' = [sets EXCEPT ![k] = {}]
    /\ zsets' = [zsets EXCEPT ![k] = <<>>]

DEL(k) == Erase(k)

\* Every map is cleared.
disconnect ==
    /\ data' = [k \in Key |-> NoValue] /\ expires' = [k \in Key |-> "none"]
    /\ hashes' = [k \in Key |-> NoHash] /\ lists' = [k \in Key |-> <<>>]
    /\ sets' = [k \in Key |-> {}] /\ zsets' = [k \in Key |-> <<>>]

\* GET and EXISTS look at the deadline first; no other command does.
check_expire(k) == expires[k] = "over" /\ Erase(k)

EXPIRE(k) ==
    /\ data[k] # NoValue
    /\ expires' = [expires EXCEPT ![k] = "live"]
    /\ UNCHANGED <<data, hashes, lists, sets, zsets>>

\* The deadline passes.
Elapse(k) ==
    /\ expires[k] = "live"
    /\ expires' = [expires EXCEPT ![k] = "over"]
    /\ UNCHANGED <<data, hashes, lists, sets, zsets>>

\* INCR and INCRBY count an absent key as 0.
INCRBY(k, n) ==
    LET v == (IF data[k] = NoValue THEN 0 ELSE data[k]) + n
    IN v \in Value /\ SET(k, v)

HSET(k, f, v) ==
    /\ hashes' = [hashes EXCEPT ![k][f] = v]
    /\ UNCHANGED <<data, expires, lists, sets, zsets>>

HDEL(k, f) == hashes[k][f] # NoValue /\ HSET(k, f, NoValue)

SetList(k, l) ==
    /\ Len(l) <= MaxLen
    /\ lists' = [lists EXCEPT ![k] = l]
    /\ UNCHANGED <<data, expires, hashes, sets, zsets>>

LPUSH(k, v) == SetList(k, <<v>> \o lists[k])
RPUSH(k, v) == SetList(k, Append(lists[k], v))
LPOP(k) == lists[k] # <<>> /\ SetList(k, Tail(lists[k]))
RPOP(k) == lists[k] # <<>> /\ SetList(k, Front(lists[k]))

SetSet(k, s) ==
    /\ sets' = [sets EXCEPT ![k] = s]
    /\ UNCHANGED <<data, expires, hashes, lists, zsets>>

SADD(k, m) == SetSet(k, sets[k] \cup {m})
SREM(k, m) == SetSet(k, sets[k] \ {m})

SetZset(k, z) ==
    /\ zsets' = [zsets EXCEPT ![k] = z]
    /\ UNCHANGED <<data, expires, hashes, lists, sets>>

\* std::sort in the order of std::pair: by score, then by member.
Sorted(z) ==
    {s \in SetToSeqs(ToSet(z)) :
        \A i, j \in DOMAIN s : i < j => s[i][1] < s[j][1] \/ (s[i][1] = s[j][1] /\ s[i][2] < s[j][2])}

\* The score of a member that is there is changed in place; only a new member is sorted in.
ZADD(k, s, m) ==
    IF zrank(k, m) # -1 THEN SetZset(k, [zsets[k] EXCEPT ![zrank(k, m) + 1] = <<s, m>>])
    ELSE \E z \in Sorted(Append(zsets[k], <<s, m>>)) : SetZset(k, z)

ZREM(k, m) == zrank(k, m) # -1 /\ SetZset(k, RemoveAt(zsets[k], zrank(k, m) + 1))

Next ==
    \/ disconnect
    \/ \E k \in Key :
        \/ DEL(k) \/ check_expire(k) \/ EXPIRE(k) \/ Elapse(k) \/ LPOP(k) \/ RPOP(k)
        \/ \E v \in Value : SET(k, v) \/ SETEX(k, v) \/ SETNX(k, v) \/ INCRBY(k, v) \/ LPUSH(k, v) \/ RPUSH(k, v)
        \/ \E f \in Field : HDEL(k, f) \/ SADD(k, f) \/ SREM(k, f) \/ ZREM(k, f)
        \/ \E f \in Field, v \in Value : HSET(k, f, v)
        \/ \E f \in Field, s \in Score : ZADD(k, s, f)

Spec == Init /\ [][Next]_redisVars

-----------------------------------------------------------------------------
(***************************************************************************)
(* The six maps fit together: no deadline outlives its key to strike a     *)
(* later one, a sorted set holds a member once and ranks it where ZRANGE   *)
(* shows it, and LRANGE shows at its ends what LPOP and RPOP take.         *)
(***************************************************************************)
StoreConsistent ==
    \A k \in Key :
        /\ expires[k] # "none" => data[k] # NoValue
        /\ zcard(k) = Cardinality({m \in Field : zrank(k, m) # -1})
        /\ \A m \in Field : zrank(k, m) # -1 => zrange(k, zrank(k, m), zrank(k, m)) = <<m>>
        /\ lists[k] # <<>> => lrange(k, 0, 0) = <<Head(lists[k])>> /\ lrange(k, -1, -1) = <<Last(lists[k])>>
        /\ lrange(k, 0, -1) = lists[k]

(***************************************************************************)
(* Does not hold: a sorted set is in the order of its scores. ZADD of a    *)
(* member that is there changes its score without sorting again.           *)
(***************************************************************************)
ZsetSorted == \A k \in Key : \A i \in 1..Len(zsets[k]) - 1 : zsets[k][i][1] <= zsets[k][i + 1][1]

(***************************************************************************)
(* Does not hold: a key that was set without a deadline does not expire.   *)
(* SET leaves the deadline of the SETEX before it.                         *)
(***************************************************************************)
SetForGood == [][\A k \in Key : \A v \in Value : SET(k, v) => expires'[k] = "none"]_redisVars
=============================================================================

----------------------------- MODULE ShortCache -----------------------------
(***************************************************************************)
(* ShortCacheService                                                       *)
(* (src/backend-nest/src/common/cache/short-cache.service.ts): a Node      *)
(* process keeps JSON answers in memory, copies them to Redis while it     *)
(* can, and lets concurrent misses of a key share one producer.  Services  *)
(* write to the database first and then invalidate a prefix of keys.       *)
(* Every await is the end of an action: other calls run there.             *)
(***************************************************************************)
EXTENDS Integers

CONSTANTS
  Keys,       \* the cache keys
  NoKey,      \* the key of a call that is not running
  Prefixes,   \* the sets of keys that an invalidatePrefix or a del names
  Calls,      \* the calls of getOrSetJson and setJson in progress
  Ttl         \* ttlSeconds

ASSUME TtlAssumption == Ttl \in Nat \ {0}
ASSUME NoKeyAssumption == NoKey \notin Keys
ASSUME PrefixesAssumption == Prefixes \subseteq SUBSET Keys

VARIABLES
  db,        \* db[k]: the version of what a producer of k reads
  memory,    \* memory[k]: the process's entry of k
  redis,     \* redis[k]: the entry in Redis, which survives the process
  redisUp,   \* redisReady: Redis is in use
  call,      \* call[c]: where a call is
  writer,    \* a service that has written, and its invalidation
  cleared,   \* cleared[k]: the newest version a completed invalidation has seen
  now        \* Date.now(), in seconds

cacheVars == <<db, memory, redis, redisUp, call, writer, cleared, now>>

(***************************************************************************)
(* An entry: the version it shows, its end, and whether an invalidation of *)
(* its key missed it: it was still on its way while the invalidation ran,  *)
(* or Redis could not be reached.                                          *)
(***************************************************************************)
Entry == [version : Nat, until : Nat, missed : BOOLEAN]

Absent == [version |-> 0, until |-> 0, missed |-> FALSE]

Places == {"idle", "asking", "joined", "reading", "read", "fetched", "storing"}

\* since: Date.now() at the start; version: what the producer has read.
Call ==
  [at : Places, key : Keys \cup {NoKey}, since : Nat, version : Nat, missed : BOOLEAN]

NoCall == [at |-> "idle", key |-> NoKey, since |-> 0, version |-> 0, missed |-> FALSE]

Writer == [at : {"idle", "written", "scanning"}, keys : SUBSET Keys, todo : SUBSET Keys]

NoWrite == [at |-> "idle", keys |-> {}, todo |-> {}]

CacheInit ==
  /\ db = [k \in Keys |-> 0]
  /\ memory = [k \in Keys |-> Absent]
  /\ redis = [k \in Keys |-> Absent]
  /\ redisUp \in BOOLEAN
  /\ call = [c \in Calls |-> NoCall]
  /\ writer = NoWrite
  /\ cleared = db
  /\ now = 0

Live(entry) == entry.until > now

\* inFlight.has(k)
InFlight(k) == \E c \in Calls : call[c].key = k /\ call[c].at \in {"reading", "read"}

\* What call c stores lives for Ttl.
Filled(c) == [version |-> call[c].version, until |-> now + Ttl, missed |-> call[c].missed]

-----------------------------------------------------------------------------
(* getOrSetJson *)

\* Join the producer of k that is in flight, or start one.
Produce(c, k) ==
  call' = [call EXCEPT ![c].at = IF InFlight(k) THEN "joined" ELSE "reading"]

\* A miss in memory asks Redis, if it is in use.
GetOrSetJson(c, k) ==
  /\ call[c].at = "idle"
  /\ ~Live(memory[k])
  /\ call' = [call EXCEPT ![c] =
       [at |-> IF redisUp THEN "asking" ELSE IF InFlight(k) THEN "joined" ELSE "reading",
        key |-> k, since |-> now, version |-> 0,
        missed |-> writer.at = "scanning" /\ k \in writer.keys]]
  /\ UNCHANGED <<db, memory, redis, redisUp, writer, cleared, now>>

\* Mutant of RedisMisses: whether a producer is in flight was looked up before
\* the answer of Redis was awaited.
RedisMissesLate(c) ==
  /\ call[c].at = "asking"
  /\ ~Live(redis[call[c].key])
  /\ call' = [call EXCEPT ![c].at = "reading"]
  /\ UNCHANGED <<db, memory, redis, redisUp, writer, cleared, now>>

RedisMisses(c) ==
  /\ call[c].at = "asking"
  /\ ~Live(redis[call[c].key])
  /\ Produce(c, call[c].key)
  /\ UNCHANGED <<db, memory, redis, redisUp, writer, cleared, now>>

\* A hit lives in memory for another full Ttl, counted from the call's start.
RedisHits(c) ==
  LET k == call[c].key
  IN  /\ call[c].at = "asking"
      /\ Live(redis[k])
      /\ memory' = [memory EXCEPT ![k] = [redis[k] EXCEPT
           !.until = call[c].since + Ttl, !.missed = @ \/ call[c].missed]]
      /\ call' = [call EXCEPT ![c] = NoCall]
      /\ UNCHANGED <<db, redis, redisUp, writer, cleared, now>>

\* The producer's query.
ReadDatabase(c) ==
  /\ call[c].at = "reading"
  /\ call' = [call EXCEPT ![c].at = "read", ![c].version = db[call[c].key]]
  /\ UNCHANGED <<db, memory, redis, redisUp, writer, cleared, now>>

\* A service that found nothing with getJson fetches the value on its own...
FetchForSet(c, k) ==
  /\ call[c].at = "idle"
  /\ ~Live(memory[k])
  /\ call' = [call EXCEPT ![c] =
       [at |-> "fetched", key |-> k, since |-> now, version |-> db[k],
        missed |-> writer.at = "scanning" /\ k \in writer.keys]]
  /\ UNCHANGED <<db, memory, redis, redisUp, writer, cleared, now>>

\* ...and stores it with setJson.
SetJson(c) ==
  /\ call[c].at = "fetched"
  /\ memory' = [memory EXCEPT ![call[c].key] = Filled(c)]
  /\ call' = [call EXCEPT ![c] = IF redisUp THEN [@ EXCEPT !.at = "storing"] ELSE NoCall]
  /\ UNCHANGED <<db, redis, redisUp, writer, cleared, now>>

\* The calls that wait for c's producer.
Waiting(c) == {d \in Calls : call[d].at = "joined" /\ call[d].key = call[c].key}

\* The producer is done: answer those who joined it and store the answer.
ProducerDone(c) ==
  LET k == call[c].key
  IN  /\ call[c].at = "read"
      /\ memory' = [memory EXCEPT ![k] = Filled(c)]
      /\ call' = [d \in Calls |->
           IF d = c /\ redisUp THEN [call[c] EXCEPT !.at = "storing"]
           ELSE IF d \in Waiting(c) \cup {c} THEN NoCall ELSE call[d]]
      /\ UNCHANGED <<db, redis, redisUp, writer, cleared, now>>

\* The producer throws, and with it every call that has joined.
ProducerThrows(c) ==
  /\ call[c].at \in {"reading", "read"}
  /\ call' = [d \in Calls |->
       IF d \in Waiting(c) \cup {c} THEN NoCall ELSE call[d]]
  /\ UNCHANGED <<db, memory, redis, redisUp, writer, cleared, now>>

StoreInRedis(c) ==
  /\ call[c].at = "storing"
  /\ redis' = [redis EXCEPT ![call[c].key] = Filled(c)]
  /\ call' = [call EXCEPT ![c] = NoCall]
  /\ UNCHANGED <<db, memory, redisUp, writer, cleared, now>>

\* disableRedis: a read falls back to the producer, a write is given up.
RedisFails(c) ==
  /\ call[c].at \in {"asking", "storing"}
  /\ redisUp' = FALSE
  /\ IF call[c].at = "asking" THEN Produce(c, call[c].key)
     ELSE call' = [call EXCEPT ![c] = NoCall]
  /\ UNCHANGED <<db, memory, redis, writer, cleared, now>>

-----------------------------------------------------------------------------
(* invalidatePrefix *)

\* A service commits its change...
WriteDatabase(k, keys) ==
  /\ writer.at = "idle"
  /\ k \in keys
  /\ db' = [db EXCEPT ![k] = @ + 1]
  /\ writer' = [at |-> "written", keys |-> keys, todo |-> {}]
  /\ UNCHANGED <<memory, redis, redisUp, call, cleared, now>>

\* What the invalidation leaves in Redis it has missed.
MissedIn(keys) ==
  redis' = [k \in Keys |->
    IF k \in keys /\ redis[k] # Absent THEN [redis[k] EXCEPT !.missed = TRUE] ELSE redis[k]]

Cleared(keys) == cleared' = [k \in Keys |-> IF k \in keys THEN db[k] ELSE cleared[k]]

\* ...drops what is in memory...
InvalidateMemory ==
  /\ writer.at = "written"
  /\ memory' = [k \in Keys |-> IF k \in writer.keys THEN Absent ELSE memory[k]]
  /\ call' = [c \in Calls |->
       IF call[c].key \in writer.keys
       THEN [call[c] EXCEPT !.missed = TRUE] ELSE call[c]]
  /\ IF redisUp
     THEN /\ writer' = [writer EXCEPT !.at = "scanning", !.todo = writer.keys]
          /\ UNCHANGED <<redis, cleared>>
     ELSE /\ writer' = NoWrite
          /\ MissedIn(writer.keys)
          /\ Cleared(writer.keys)
  /\ UNCHANGED <<db, redisUp, now>>

\* Mutant of ScanPage: only the first page of SCAN is deleted.
FirstPageOnly ==
  /\ writer.at = "scanning"
  /\ \E page \in SUBSET writer.todo :
       /\ page # {}
       /\ redis' = [k \in Keys |-> IF k \in page THEN Absent ELSE redis[k]]
  /\ writer' = NoWrite
  /\ Cleared(writer.keys)
  /\ UNCHANGED <<db, memory, redisUp, call, now>>

\* ...and then page by page what SCAN finds in Redis.
ScanPage ==
  /\ writer.at = "scanning"
  /\ \E page \in SUBSET writer.todo :
       /\ page # {}
       /\ redis' = [k \in Keys |-> IF k \in page THEN Absent ELSE redis[k]]
       /\ IF page = writer.todo
          THEN writer' = NoWrite /\ Cleared(writer.keys)
          ELSE writer' = [writer EXCEPT !.todo = @ \ page] /\ UNCHANGED cleared
  /\ UNCHANGED <<db, memory, redisUp, call, now>>

ScanFails ==
  /\ writer.at = "scanning"
  /\ redisUp' = FALSE
  /\ writer' = NoWrite
  /\ MissedIn(writer.todo)
  /\ Cleared(writer.keys)
  /\ UNCHANGED <<db, memory, call, now>>

-----------------------------------------------------------------------------
(* Time, and the process *)

Expire(entries) == [k \in Keys |-> IF entries[k].until > now + 1 THEN entries[k] ELSE Absent]

\* A second passes; pruneExpired and Redis drop what has expired.
Tick ==
  /\ now' = now + 1
  /\ memory' = Expire(memory)
  /\ redis' = Expire(redis)
  /\ UNCHANGED <<db, redisUp, call, writer, cleared>>

\* The process stops and starts: onModuleInit connects to Redis again, or not.
\* An invalidation it was about to run, or had not finished, never happens.
Restart ==
  /\ memory' = [k \in Keys |-> Absent]
  /\ redisUp' \in BOOLEAN
  /\ call' = [c \in Calls |-> NoCall]
  /\ writer' = NoWrite
  /\ UNCHANGED <<db, redis, cleared, now>>

CacheNext ==
  \/ \E c \in Calls, k \in Keys : GetOrSetJson(c, k) \/ FetchForSet(c, k)
  \/ \E c \in Calls :
       \/ RedisMisses(c) \/ RedisHits(c) \/ RedisFails(c) \/ StoreInRedis(c)
       \/ ReadDatabase(c) \/ ProducerDone(c) \/ ProducerThrows(c) \/ SetJson(c)
  \/ \E keys \in Prefixes, k \in Keys : WriteDatabase(k, keys)
  \/ InvalidateMemory \/ ScanPage \/ ScanFails \/ Tick \/ Restart

CacheSpec == CacheInit /\ [][CacheNext]_cacheVars

-----------------------------------------------------------------------------
(* Properties *)

\* Types.
CacheTypeOK ==
  /\ db \in [Keys -> Nat]
  /\ memory \in [Keys -> Entry]
  /\ redis \in [Keys -> Entry]
  /\ redisUp \in BOOLEAN
  /\ call \in [Calls -> Call]
  /\ writer \in Writer
  /\ cleared \in [Keys -> Nat]
  /\ now \in Nat

\* An invalidation leaves nothing behind: an entry that shows an older version
\* than the last completed invalidation of its key was on its way while that
\* invalidation ran, or lay in a Redis it could not reach.
OnlyMissedEntriesAreStale ==
  \A k \in Keys :
    /\ Live(memory[k]) /\ ~memory[k].missed => memory[k].version >= cleared[k]
    /\ Live(redis[k]) /\ ~redis[k].missed => redis[k].version >= cleared[k]

\* However the awaits of concurrent calls interleave, Redis failing or not, one
\* process runs at most one producer of a key at a time.
SingleFlight ==
  \A c, d \in Calls :
    /\ call[c].at \in {"reading", "read"}
    /\ call[d].at \in {"reading", "read"}
    /\ call[c].key = call[d].key
    => c = d

=============================================================================

---------------------------- MODULE SourceClient ----------------------------
(***************************************************************************)
(* The requests of one evidence source (services/source_clients/): a look  *)
(* into the request cache, a token from the source's bucket before every   *)
(* attempt, and a bounded number of retries.  The bucket is one of two: in *)
(* this process under an asyncio lock, or in Redis, shared by the workers  *)
(* through WATCH and EXEC.                                                 *)
(*                                                                         *)
(* Time is in ticks; the bucket gains one unit a tick and a token is Unit  *)
(* units, so a token may have to be waited for.  All requests are for one  *)
(* URL, and the workers' clocks agree.                                     *)
(***************************************************************************)
EXTENDS Integers, Functions

CONSTANTS
    Requests,      \* requests made, each once
    Unit,          \* units of a token: 1 / rate_per_second
    Burst,         \* tokens of a full bucket
    MaxRetries,    \* max_retries
    Backoffs,      \* ticks a retry may wait (jitter, Retry-After)
    Ttl,           \* ttl_seconds of the cache
    MaxTime        \* bound on the clock

(* A bucket of no tokens is refused when it is made (_rate_limit.py:52).   *)
ASSUME SourceAssumption ==
    /\ Unit \in Nat \ {0} /\ Burst \in Nat \ {0}
    /\ MaxRetries \in Nat /\ Ttl \in Nat /\ MaxTime \in Nat
    /\ Backoffs \subseteq Nat

VARIABLES
    now,        \* the clock
    kind,       \* "local" or "redis"
    bucket,     \* the tokens (in units) and when they were last refilled
    req,        \* what each request is doing
    granted,    \* tokens granted at each tick
    cachedAt    \* when the cached response was stored; Never if there is none

sourceVars == <<now, kind, bucket, req, granted, cachedAt>>

-----------------------------------------------------------------------------
Never == -1
Full == Burst * Unit

(* until: end of a sleep; at, tokens: what was read in the watched window; *)
(* valid: nobody has written the bucket since; looked: when the cache was  *)
(* asked.                                                                  *)
RequestPC == {"new", "acquire", "watched", "asleep", "holding", "sent", "backoff",
              "done", "failed"}
NewRequest == [pc |-> "new", tries |-> 0, until |-> 0, at |-> 0, tokens |-> 0,
               valid |-> FALSE, looked |-> 0]
(* Request q as it is at pc: it remembers its tries and its look.          *)
At(q, pc) == [NewRequest EXCEPT !.pc = pc, !.tries = req[q].tries, !.looked = req[q].looked]

(* The bucket never owes a token and never holds more than a burst.        *)
SourceTypeOK ==
    /\ now \in 0..MaxTime
    /\ kind \in {"local", "redis"}
    /\ bucket \in [tokens: 0..Full, last: 0..MaxTime]
    /\ req \in [Requests -> [pc: RequestPC, tries: 0..MaxRetries, until: Nat,
                             at: 0..MaxTime, tokens: 0..Full, valid: BOOLEAN,
                             looked: 0..MaxTime]]
    /\ granted \in [0..MaxTime -> Nat]
    /\ cachedAt \in 0..MaxTime \cup {Never}

SourceInit ==
    /\ now = 0 /\ kind \in {"local", "redis"}
    /\ bucket = [tokens |-> Full, last |-> 0]
    /\ req = [q \in Requests |-> NewRequest]
    /\ granted = [t \in 0..MaxTime |-> 0]
    /\ cachedAt = Never

-----------------------------------------------------------------------------
Becomes(q, r) == req' = [req EXCEPT ![q] = r]
Grant == granted' = [granted EXCEPT ![now] = @ + 1]

(* The bucket's tokens at this moment: min(burst, tokens + elapsed).       *)
Refilled == IF bucket.tokens + (now - bucket.last) > Full THEN Full
            ELSE bucket.tokens + (now - bucket.last)

(* Mutant of LookUp: a response older than the TTL is evicted, a younger one *)
(* is not used either.                                                     *)
LookUpInVain(q) ==
    /\ req[q].pc = "new"
    /\ cachedAt' = IF now - cachedAt > Ttl THEN Never ELSE cachedAt
    /\ Becomes(q, [req[q] EXCEPT !.pc = "acquire", !.looked = now])
    /\ UNCHANGED <<now, kind, bucket, granted>>

(* RequestCache.get: a hit ends the request; an entry past its TTL is      *)
(* evicted.                                                                *)
LookUp(q) ==
    /\ req[q].pc = "new"
    /\ IF cachedAt # Never /\ now - cachedAt <= Ttl
       THEN /\ Becomes(q, [NewRequest EXCEPT !.pc = "done"])
            /\ UNCHANGED cachedAt
       ELSE /\ Becomes(q, [req[q] EXCEPT !.pc = "acquire", !.looked = now])
            /\ cachedAt' = Never
    /\ UNCHANGED <<now, kind, bucket, granted>>

-----------------------------------------------------------------------------
(* RedisTokenBucket: WATCH, GET and the clock.  With a token to be had the *)
(* request goes on to EXEC, else it sleeps and tries again.                *)
Watch(q) ==
    /\ kind = "redis"
    /\ \/ req[q].pc = "acquire"
       \/ req[q].pc = "asleep" /\ now >= req[q].until
    /\ Becomes(q, IF Refilled >= Unit
               THEN [At(q, "watched") EXCEPT !.at = now, !.tokens = Refilled,
                                   !.valid = TRUE]
               ELSE [At(q, "asleep") EXCEPT !.until = now + Unit - Refilled])
    /\ UNCHANGED <<now, kind, bucket, granted, cachedAt>>

(* Mutant of Exec: SET without WATCH.                                      *)
ExecUnwatched(q) ==
    /\ req[q].pc = "watched"
    /\ bucket' = [tokens |-> req[q].tokens - Unit, last |-> req[q].at]
    /\ Becomes(q, At(q, "sent"))
    /\ Grant
    /\ UNCHANGED <<now, kind, cachedAt>>

(* EXEC writes what was computed, and fails the windows that are open; or  *)
(* it fails itself (WatchError).                                           *)
Exec(q) ==
    /\ req[q].pc = "watched"
    /\ IF req[q].valid
       THEN /\ bucket' = [tokens |-> req[q].tokens - Unit, last |-> req[q].at]
            /\ req' = [p \in Requests |-> IF p = q THEN At(q, "sent")
                                          ELSE [req[p] EXCEPT !.valid = FALSE]]
            /\ Grant
       ELSE /\ Becomes(q, At(q, "acquire"))
            /\ UNCHANGED <<bucket, granted>>
    /\ UNCHANGED <<now, kind, cachedAt>>

-----------------------------------------------------------------------------
(* LocalTokenBucket: the lock is held from the first refill to the second, *)
(* through the sleep.                                                      *)

(* Mutant of BucketFree: the lock is not held while sleeping.              *)
LockAlwaysFree == TRUE

BucketFree == \A p \in Requests : req[p].pc # "holding"

Acquire(q) ==
    /\ kind = "local" /\ req[q].pc = "acquire" /\ BucketFree
    /\ IF Refilled >= Unit
       THEN /\ bucket' = [tokens |-> Refilled - Unit, last |-> now]
            /\ Becomes(q, At(q, "sent"))
            /\ Grant
       ELSE /\ bucket' = [tokens |-> Refilled, last |-> now]
            /\ Becomes(q, [At(q, "holding") EXCEPT !.until = now + Unit - Refilled])
            /\ UNCHANGED granted
    /\ UNCHANGED <<now, kind, cachedAt>>

(* After the sleep a token is taken without another look.                  *)
AcquireSlept(q) ==
    /\ req[q].pc = "holding" /\ now >= req[q].until
    /\ bucket' = [tokens |-> Refilled - Unit, last |-> now]
    /\ Becomes(q, At(q, "sent"))
    /\ Grant
    /\ UNCHANGED <<now, kind, cachedAt>>

-----------------------------------------------------------------------------
(* The attempt itself: a 2xx or 3xx is cached and returned; a time-out, a  *)
(* 429 or a 5xx is retried after a pause; anything else is raised.         *)

Succeed(q) ==
    /\ req[q].pc = "sent"
    /\ Becomes(q, [NewRequest EXCEPT !.pc = "done"])
    /\ cachedAt' = now
    /\ UNCHANGED <<now, kind, bucket, granted>>

Retry(q) ==
    /\ req[q].pc = "sent" /\ req[q].tries < MaxRetries
    /\ \E d \in Backoffs :
          Becomes(q, [At(q, "backoff") EXCEPT !.tries = @ + 1, !.until = now + d])
    /\ UNCHANGED <<now, kind, bucket, granted, cachedAt>>

GiveUp(q) ==
    /\ req[q].pc = "sent"
    /\ Becomes(q, [NewRequest EXCEPT !.pc = "failed"])
    /\ UNCHANGED <<now, kind, bucket, granted, cachedAt>>

BackoffOver(q) ==
    /\ req[q].pc = "backoff" /\ now >= req[q].until
    /\ Becomes(q, At(q, "acquire"))
    /\ UNCHANGED <<now, kind, bucket, granted, cachedAt>>

Tick ==
    /\ now < MaxTime
    /\ now' = now + 1
    /\ UNCHANGED <<kind, bucket, req, granted, cachedAt>>

SourceNext ==
    \/ \E q \in Requests :
          \/ LookUp(q) \/ Watch(q) \/ Exec(q) \/ Acquire(q) \/ AcquireSlept(q)
          \/ Succeed(q) \/ Retry(q) \/ GiveUp(q) \/ BackoffOver(q)
    \/ Tick

SourceSpec == SourceInit /\ [][SourceNext]_sourceVars

-----------------------------------------------------------------------------
(* In no window of time are more tokens granted than a burst and what the  *)
(* bucket gains in that window; the Redis bucket may exceed that by one,   *)
(* decided before the window and executed in it (_rate_limit.py:14-15, "a  *)
(* write derived from a stale read either sees the new value or fails the  *)
(* EXEC").                                                                 *)
RateBound ==
    \A s, t \in 0..now :
        s <= t =>
            Unit * SumFunctionOnSet(granted, s..t)
                <= Full + (t - s) + IF kind = "redis" THEN Unit ELSE 0

(* A request that calls the source although a fresh response is cached had *)
(* asked the cache before that response was stored: the cache does not     *)
(* join requests under way (_request_cache.py:4-6 says that parallel       *)
(* requests only fetch once), but later ones do share.                     *)
OnlyOverlapsRefetch ==
    \A q \in Requests :
        /\ req[q].pc \notin {"new", "done", "failed"}
        /\ cachedAt # Never /\ now - cachedAt <= Ttl
        => req[q].looked <= cachedAt

(* What a source sees of its client, with the types: the bucket never owes *)
(* a token and never holds more than a burst.                              *)
ClientSafe == SourceTypeOK /\ RateBound /\ OnlyOverlapsRefetch
=============================================================================

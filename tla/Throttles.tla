----------------------------- MODULE Throttles -----------------------------
(***************************************************************************)
(* What the daemon keeps per client and per time: SimpleRateLimiter, the   *)
(* fixed windows in front of every route; RateLimiter, the token bucket;   *)
(* and NonceStore, which refuses a nonce it has seen.  Each call holds the *)
(* object's mutex, so a call is one step; steady_clock is the variable now.*)
(*                                                                         *)
(* Fractions of a token are counted in units: a token is Unit of them and  *)
(* Rate flow in per tick.  The variables with the suffix Log remember what *)
(* was admitted and stand for no state of the program: a limiter's log     *)
(* holds for each time how many requests were admitted until then.         *)
(***************************************************************************)
EXTENDS Naturals

CONSTANTS TKeys,          \* client addresses
          Nonces,
          MaxTime,        \* bound on the clock
          MaxRequests,    \* per window
          WindowTicks,
          Unit, Rate, MaxTokens,
          Expiry,         \* of a nonce
          CleanupEvery

ASSUME ThrottleAssumption ==
    /\ MaxTime \in Nat /\ MaxRequests \in Nat /\ WindowTicks \in Nat \ {0}
    /\ Unit \in Nat \ {0} /\ Rate \in Nat /\ MaxTokens \in Nat \ {0}
    /\ Expiry \in Nat /\ CleanupEvery \in Nat

Times == 0..MaxTime
Never == MaxTime + 1   \* no time point yet

VARIABLES now,
          entries,        \* SimpleRateLimiter::entries_
          buckets,        \* RateLimiter::buckets_
          nonces,         \* NonceStorage: when each nonce was stored
          lastCleanup,
          windowLog, bucketLog, nonceLog

throttleVars == <<now, entries, buckets, nonces, lastCleanup, windowLog, bucketLog, nonceLog>>

NoEntry == [count |-> 0, start |-> Never]
NoBucket == [tokens |-> 0, last |-> Never]
NoLog == [t \in Times |-> 0]
Logged(log) == [t \in Times |-> IF t >= now THEN log[t] + 1 ELSE log[t]]

InitThrottles ==
    /\ now = 0
    /\ entries = [k \in TKeys |-> NoEntry]
    /\ buckets = [k \in TKeys |-> NoBucket]
    /\ nonces = [n \in Nonces |-> Never]
    /\ lastCleanup = Never
    /\ windowLog = [k \in TKeys |-> NoLog] /\ bucketLog = [k \in TKeys |-> NoLog]
    /\ nonceLog = [n \in Nonces |-> {}]

Tick ==
    /\ now < MaxTime
    /\ now' = now + 1
    /\ UNCHANGED <<entries, buckets, nonces, lastCleanup, windowLog, bucketLog, nonceLog>>

(***************************************************************************)
(* SimpleRateLimiter                                                       *)
(***************************************************************************)
(* A new key starts its window at its first request.                       *)
CurrentEntry(k) ==
    IF entries[k].start = Never \/ now - entries[k].start >= WindowTicks
    THEN [count |-> 0, start |-> now] ELSE entries[k]

AllowRequest(k) ==
    LET e == CurrentEntry(k)
        ok == e.count < MaxRequests
    IN
    /\ entries' = [entries EXCEPT ![k] = IF ok THEN [e EXCEPT !.count = @ + 1] ELSE e]
    /\ windowLog' = IF ok THEN [windowLog EXCEPT ![k] = Logged(@)] ELSE windowLog
    /\ UNCHANGED <<now, buckets, nonces, lastCleanup, bucketLog, nonceLog>>

(***************************************************************************)
(* RateLimiter                                                             *)
(***************************************************************************)
(* A new bucket is full; an old one gains what flowed in, up to the brim.  *)
Refilled(k) ==
    IF buckets[k] = NoBucket THEN MaxTokens * Unit
    ELSE LET flowed == buckets[k].tokens + (now - buckets[k].last) * Rate
         IN IF flowed > MaxTokens * Unit THEN MaxTokens * Unit ELSE flowed

TryAcquire(k) ==
    LET t == Refilled(k)
        ok == t >= Unit
    IN
    /\ buckets' = [buckets EXCEPT ![k] = [tokens |-> IF ok THEN t - Unit ELSE t, last |-> now]]
    /\ bucketLog' = IF ok THEN [bucketLog EXCEPT ![k] = Logged(@)] ELSE bucketLog
    /\ UNCHANGED <<now, entries, nonces, lastCleanup, windowLog, nonceLog>>

(* reset: the key starts anew, and so does its log.                        *)
ResetBucket(k) ==
    /\ buckets' = [buckets EXCEPT ![k] = NoBucket]
    /\ bucketLog' = [bucketLog EXCEPT ![k] = NoLog]
    /\ UNCHANGED <<now, entries, nonces, lastCleanup, windowLog, nonceLog>>

(***************************************************************************)
(* NonceStore                                                              *)
(***************************************************************************)
Expired(n) == nonces[n] # Never /\ nonces[n] + Expiry < now

Cleaned == [n \in Nonces |-> IF Expired(n) THEN Never ELSE nonces[n]]

(* Wrong: the first cleanup is the last.                                   *)
CleanupIsDueOnce == lastCleanup = Never

CleanupIsDue == lastCleanup = Never \/ now - lastCleanup >= CleanupEvery

(* maybe_cleanup, then the check, under one lock.                          *)
CheckAndStore(n) ==
    LET kept == IF CleanupIsDue THEN Cleaned ELSE nonces
        fresh == kept[n] = Never
    IN
    /\ lastCleanup' = IF CleanupIsDue THEN now ELSE lastCleanup
    /\ nonces' = IF fresh THEN [kept EXCEPT ![n] = now] ELSE kept
    /\ nonceLog' = IF fresh THEN [nonceLog EXCEPT ![n] = @ \cup {now}] ELSE nonceLog
    /\ UNCHANGED <<now, entries, buckets, windowLog, bucketLog>>

CleanupNonces ==
    /\ nonces' = Cleaned /\ lastCleanup' = now
    /\ UNCHANGED <<now, entries, buckets, windowLog, bucketLog, nonceLog>>

NextWindow == Tick \/ \E k \in TKeys : AllowRequest(k)
NextBucket == Tick \/ \E k \in TKeys : TryAcquire(k) \/ ResetBucket(k)
NextNonce == Tick \/ CleanupNonces \/ \E n \in Nonces : CheckAndStore(n)

NextThrottles == NextWindow \/ NextBucket \/ NextNonce

SpecThrottles == InitThrottles /\ [][NextThrottles]_throttleVars

-----------------------------------------------------------------------------
Admitted(log, a, b) == log[b] - (IF a = 0 THEN 0 ELSE log[a - 1])
Spans == {s \in (0..now) \X (0..now) : s[1] <= s[2]}

(* The limiters' counters keep their bounds.                               *)
TypeOKThrottles ==
    /\ \A k \in TKeys : entries[k].count \in 0..MaxRequests
    /\ \A k \in TKeys : buckets[k].tokens \in 0..MaxTokens * Unit
    /\ lastCleanup \in 0..now \cup {Never}

(* The windows of a client do not slide, so a burst at the end of one and  *)
(* one at the start of the next may follow each other: no span of          *)
(* WindowTicks admits more than twice MaxRequests, and a span that is      *)
(* longer no more than one window's worth for each window it can touch.    *)
WindowBurst ==
    \A k \in TKeys, s \in Spans :
        Admitted(windowLog[k], s[1], s[2]) <= MaxRequests * (2 + (s[2] - s[1]) \div WindowTicks)

(* Over any span the bucket admits no more than it can hold plus what      *)
(* flows in.                                                               *)
BucketBurst ==
    \A k \in TKeys, s \in Spans :
        Admitted(bucketLog[k], s[1], s[2]) * Unit <= MaxTokens * Unit + (s[2] - s[1]) * Rate

(* A nonce is accepted a second time only when it is older than Expiry,    *)
(* whatever cleanups ran in between.                                       *)
NoReplayWithinExpiry ==
    \A n \in Nonces : \A t, u \in nonceLog[n] : t < u => u - t > Expiry

(* Every check leaves only nonces younger than Expiry and one interval     *)
(* between cleanups: what the daemon remembers does not grow without bound.*)
NoncesExpire ==
    [][nonceLog' # nonceLog =>
          \A n \in Nonces : nonces'[n] # Never => now - nonces'[n] < Expiry + CleanupEvery
                                                \/ now - nonces'[n] <= Expiry]_throttleVars

(* Over any span of time the window limiter and the token bucket admit no  *)
(* more than their bursts and rates add up to, a nonce is accepted again   *)
(* only after its expiry, and the nonces that are remembered do not pile   *)
(* up.                                                                     *)
LimitsHold ==
    /\ [](/\ TypeOKThrottles
          /\ WindowBurst
          /\ BucketBurst
          /\ NoReplayWithinExpiry)
    /\ NoncesExpire
=============================================================================

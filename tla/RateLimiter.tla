----------------------------- MODULE RateLimiter -----------------------------
(***************************************************************************)
(* The sliding-window limiter of one API process, and the dependency that   *)
(* asks it twice: once for the caller's address and once for what the       *)
(* request names (an e-mail, a token).  A request is one step, for nothing  *)
(* is awaited between its checks.  The clock counts ticks, several to the   *)
(* second, for Retry-After is in whole seconds and the window need not be.  *)
(***************************************************************************)
EXTENDS Integers, Sequences, FiniteSets

CONSTANTS Addresses,
          Subjects,        \* what a request may name; NoSubject if it names nothing
          NoSubject,
          MaxHits,         \* RateLimitPolicy.limit
          Window,          \* RateLimitPolicy.window_seconds, in ticks
          Retention,       \* _MAX_RETENTION_SECONDS, in ticks
          SweepEvery,      \* _SWEEP_EVERY
          TicksPerSecond,
          MaxClock         \* bound on the clock

ASSUME LimiterAssumption ==
    /\ MaxHits \in Nat \ {0} /\ Window \in Nat \ {0}
    /\ Retention \in Nat /\ Window <= Retention
    /\ SweepEvery \in Nat \ {0} /\ TicksPerSecond \in Nat \ {0} /\ MaxClock \in Nat

Keys == Addresses \cup Subjects

VARIABLES clock,
          hits,     \* _hits: the times of the recent hits of each key it holds
          checks,   \* _checks_since_sweep
          granted,  \* history: when each key was allowed
          promised  \* history: until when each refused key was told to wait, 0 for none

limiterVars == <<clock, hits, checks, granted, promised>>

NoHits == [k \in {} |-> <<>>]

LimiterInit ==
    /\ clock = 0 /\ hits = NoHits /\ checks = 0
    /\ granted = [k \in Keys |-> <<>>] /\ promised = [k \in Keys |-> 0]

-----------------------------------------------------------------------------

Newest(times) == times[Len(times)]

\* How many at the left end are not after the cutoff, which is where the loop stops.
Aged(times, cutoff) ==
    CHOOSE n \in 0 .. Len(times) :
      /\ \A i \in 1 .. n : times[i] <= cutoff
      /\ n = Len(times) \/ times[n + 1] > cutoff

Later(times, cutoff) == SubSeq(times, Aged(times, cutoff) + 1, Len(times))

\* The hits of a key that are still in the window (setdefault, popleft).
Recent(h, k) == IF k \in DOMAIN h THEN Later(h[k], clock - Window) ELSE <<>>

With(f, k, x) == [j \in DOMAIN f \cup {k} |-> IF j = k THEN x ELSE f[j]]

Refuses(h, k) == Len(Recent(h, k)) >= MaxHits

\* Mutant of RetryAfter: rounded down.
RetryAfterFloor(h, k) == (Recent(h, k)[1] + Window - clock) \div TicksPerSecond

\* The seconds until the oldest hit has aged out, rounded up.
RetryAfter(h, k) ==
    LET wait == (Recent(h, k)[1] + Window - clock) \div TicksPerSecond
    IN  IF wait + 1 > 1 THEN wait + 1 ELSE 1

\* Mutant of Stale: a key is judged by its oldest hit.
StaleByOldest(times) == times = <<>> \/ times[1] <= clock - Retention

Stale(times) == times = <<>> \/ Newest(times) <= clock - Retention

Swept(h) == [k \in {j \in DOMAIN h : ~ Stale(h[j])} |-> h[k]]

Sweeps(n) == n + 1 >= SweepEvery

\* What a state of the limiter becomes when k is hit and when it is refused.
Limiter == [hits |-> hits, checks |-> checks, granted |-> granted, promised |-> promised]

Hit(s, k) ==
    LET h == With(s.hits, k, Append(Recent(s.hits, k), clock))
    IN  [hits |-> IF Sweeps(s.checks) THEN Swept(h) ELSE h,
         checks |-> IF Sweeps(s.checks) THEN 0 ELSE s.checks + 1,
         granted |-> [s.granted EXCEPT ![k] = Append(@, clock)],
         promised |-> [s.promised EXCEPT ![k] = 0]]

Refusal(s, k) ==
    [hits |-> With(s.hits, k, Recent(s.hits, k)),
     checks |-> s.checks,
     granted |-> s.granted,
     promised |-> [s.promised EXCEPT ![k] = clock + RetryAfter(s.hits, k) * TicksPerSecond]]

CheckKey(s, k) == IF Refuses(s.hits, k) THEN Refusal(s, k) ELSE Hit(s, k)

\* The address is checked, and what is named only if the address was allowed.
Request(address, subject) ==
    LET first == CheckKey(Limiter, address)
        second == IF subject = NoSubject \/ Refuses(hits, address) THEN first
                  ELSE CheckKey(first, subject)
    IN  /\ hits' = second.hits /\ checks' = second.checks
        /\ granted' = second.granted /\ promised' = second.promised
        /\ UNCHANGED clock

PassTime ==
    /\ clock < MaxClock
    /\ clock' = clock + 1
    /\ UNCHANGED <<hits, checks, granted, promised>>

LimiterNext ==
    \/ PassTime
    \/ \E a \in Addresses, s \in Subjects \cup {NoSubject} : Request(a, s)

LimiterSpec == LimiterInit /\ [][LimiterNext]_limiterVars

-----------------------------------------------------------------------------
(* Properties *)

\* No key is allowed more often than its policy says in any window, wherever the
\* window begins and whenever a sweep falls in it. (The sweep keeps a fixed hour,
\* so this takes a window of at most an hour: LimiterAssumption.)
WithinLimit ==
    \A k \in Keys : \A t \in 0 .. clock :
      Cardinality({i \in DOMAIN granted[k] : granted[k][i] \in t .. (t + Window - 1)}) <= MaxHits

\* A client that waits as long as it was told, while nobody else uses its key, is
\* allowed: neither the rounding nor other keys' traffic costs it.
WaitIsEnough == \A k \in Keys : promised[k] # 0 /\ promised[k] <= clock => ~ Refuses(hits, k)
=============================================================================

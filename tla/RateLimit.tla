----------------------------- MODULE RateLimit ------------------------------
(***************************************************************************)
(* The login rate limit: the middleware of main.py and the fixed window of *)
(* ratelimit.py, for the attempts of one client.  The counter is one key   *)
(* in Redis, and INCR and EXPIRE are two calls: attempts interleave        *)
(* between them, either may fail, and the API process may die.             *)
(***************************************************************************)
EXTENDS Naturals

CONSTANTS
    Attempts,           \* logins of the client that may be under way at once
    Limit,              \* login_rate_limit_max_attempts
    MaxFaults           \* bound: failing Redis calls and crashes of the API

ASSUME RateLimitAssumption == Limit \in Nat \ {0} /\ MaxFaults \in Nat

VARIABLES
    attempt,            \* attempt[a]: how far it is, and the count INCR answered
    hits,               \* the counter; 0 when there is no key
    expiring,           \* the key has an expiry
    passed,             \* attempts the limiter let through since the key was made
    faults

vars == <<attempt, hits, expiring, passed, faults>>

Idle == [pc |-> "idle", count |-> 0]

Init ==
    /\ attempt = [a \in Attempts |-> Idle]
    /\ hits = 0 /\ expiring = FALSE
    /\ passed = 0
    /\ faults = 0

\* Counts beyond the limit are all alike.
Incremented == IF hits > Limit THEN hits ELSE hits + 1

\* Mutant: the limit is compared as if the count started at zero.
AllowedOneMore(count) == count <= Limit + 1

Allowed(count) == count <= Limit

\* Mutant: the counter is thought to start at zero.
OpensWindowAtZero(count) == count = 0

OpensWindow(count) == count = 1

\* The answer of the limiter: the login is tried, or refused with 429.
Decide(a, count) ==
    /\ attempt' = [attempt EXCEPT ![a] = Idle]
    /\ passed' = IF Allowed(count) THEN passed + 1 ELSE passed

\* A login request arrives.
Arrive(a) ==
    /\ attempt[a].pc = "idle"
    /\ attempt' = [attempt EXCEPT ![a].pc = "incr"]
    /\ UNCHANGED <<hits, expiring, passed, faults>>

\* INCR.  The count that opens a window is followed by EXPIRE.
Incr(a) ==
    /\ attempt[a].pc = "incr"
    /\ hits' = Incremented
    /\ IF OpensWindow(Incremented)
       THEN /\ attempt' = [attempt EXCEPT ![a] = [pc |-> "expire", count |-> Incremented]]
            /\ UNCHANGED passed
       ELSE Decide(a, Incremented)
    /\ UNCHANGED <<expiring, faults>>

\* EXPIRE; without a key it does nothing.
Expire(a) ==
    /\ attempt[a].pc = "expire"
    /\ expiring' = (hits > 0)
    /\ Decide(a, attempt[a].count)
    /\ UNCHANGED <<hits, faults>>

\* Either call raises, with or without its effect: the login is tried.
RedisFails(a) ==
    /\ faults < MaxFaults
    /\ faults' = faults + 1
    /\ attempt' = [attempt EXCEPT ![a] = Idle]
    /\ \/ /\ attempt[a].pc = "incr" /\ hits' \in {hits, Incremented}
          /\ UNCHANGED expiring
       \/ /\ attempt[a].pc = "expire" /\ expiring' \in {expiring, hits > 0}
          /\ UNCHANGED hits
    /\ UNCHANGED passed

\* The API process dies with the requests it was serving.
Crash ==
    /\ faults < MaxFaults
    /\ \E a \in Attempts : attempt[a].pc # "idle"
    /\ faults' = faults + 1
    /\ attempt' = [a \in Attempts |-> Idle]
    /\ UNCHANGED <<hits, expiring, passed>>

\* The window is over: Redis drops a key that has an expiry.
WindowEnds ==
    /\ expiring
    /\ hits' = 0 /\ expiring' = FALSE
    /\ passed' = 0
    /\ UNCHANGED <<attempt, faults>>

Next ==
    \/ \E a \in Attempts : Arrive(a) \/ Incr(a) \/ Expire(a) \/ RedisFails(a)
    \/ Crash
    \/ WindowEnds

\* The API goes on with what has arrived; Redis drops keys when their time is up.
Fairness ==
    /\ \A a \in Attempts : WF_vars(Incr(a) \/ Expire(a))
    /\ WF_vars(WindowEnds)

Spec == Init /\ [][Next]_vars /\ Fairness

-----------------------------------------------------------------------------
(* Properties. *)

TypeOK ==
    /\ attempt \in [Attempts -> [pc : {"idle", "incr", "expire"}, count : 0 .. 1]]
    /\ hits \in 0 .. Limit + 1
    /\ expiring \in BOOLEAN /\ (expiring => hits > 0)
    /\ passed \in Nat
    /\ faults \in 0 .. MaxFaults

\* However the attempts interleave, no more than the limit get through while
\* one key lives, those that found Redis failing aside (ratelimit.py:44).
WithinLimit == passed <= Limit

\* A client that has used up its attempts may try again some time later, as
\* long as no call failed between INCR and EXPIRE (ratelimit.py:45).
LoginReopens == hits > Limit /\ faults = 0 ~> hits <= Limit \/ faults > 0

\* The same with failures: "a Redis outage must not lock users out of login"
\* (ratelimit.py:8).
OutageLocksNobodyOut == hits > Limit ~> hits <= Limit
=============================================================================

-------------------------- MODULE RateLimitProofs ---------------------------
(***************************************************************************)
(* The login limit holds for any number of concurrent attempts, any limit  *)
(* and any number of failing Redis calls and crashes; without any, it is   *)
(* used to the full and its counter goes away.                             *)
(***************************************************************************)
EXTENDS RateLimit, TLAPS

Opening == {a \in Attempts : attempt[a].pc = "expire"}

\* An attempt that opened a window will pass, but is not counted yet: it holds
\* a place.  While one is opening a window the key has no expiry, so no second
\* window can begin and no second attempt can be opening one.
IInv ==
    /\ attempt \in [Attempts -> [pc : {"idle", "incr", "expire"}, count : 0 .. 1]]
    /\ \A a \in Opening : attempt[a].count = 1
    /\ hits \in 0 .. Limit + 1 /\ passed \in Nat /\ faults \in 0 .. MaxFaults
    /\ passed <= hits /\ passed <= Limit
    /\ hits = 0 => expiring = FALSE
    /\ Opening # {} => passed < hits /\ passed < Limit /\ expiring = FALSE
    /\ \A a, b \in Opening : a = b

\* No attempt holds a place to begin with.
LEMMA InitIInv == Init => IInv
  <1> SUFFICES ASSUME Init PROVE IInv
    OBVIOUS
  <1>1. Opening = {}
    BY DEF Init, Opening, Idle
  <1> QED
    BY <1>1, RateLimitAssumption DEF Init, IInv, Idle

\* INCR opens a window and takes a place in it, or answers at once.
LEMMA IncrIInv == ASSUME NEW a \in Attempts, IInv, Incr(a) PROVE IInv'
  <1>1. CASE OpensWindow(Incremented)
    <2>1. hits = 0 /\ hits' = 1 /\ passed = 0 /\ Opening = {}
      BY <1>1, RateLimitAssumption DEF Incr, OpensWindow, Incremented, IInv
    <2>2. /\ passed' = passed /\ expiring' = expiring /\ faults' = faults
          /\ attempt' = [attempt EXCEPT ![a] = [pc |-> "expire", count |-> 1]]
      BY <1>1, <2>1 DEF Incr, OpensWindow
    <2>3. Opening' = {a} /\ attempt'[a].count = 1 /\ expiring = FALSE
      BY <2>1, <2>2 DEF IInv, Opening
    <2> QED
      BY <2>1, <2>2, <2>3, RateLimitAssumption DEF IInv
  <1>2. CASE ~OpensWindow(Incremented)
    <2>1. /\ attempt' = [attempt EXCEPT ![a] = Idle]
          /\ hits' = Incremented /\ expiring' = expiring /\ faults' = faults
          /\ passed' = IF Incremented <= Limit THEN passed + 1 ELSE passed
      BY <1>2 DEF Incr, Decide, Allowed
    <2>2. Opening' \subseteq Opening
      BY <2>1 DEF IInv, Opening, Idle
    <2>3. attempt' \in [Attempts -> [pc : {"idle", "incr", "expire"}, count : 0 .. 1]]
      BY <2>1 DEF IInv, Idle
    <2>4. \A b \in Opening' : attempt'[b] = attempt[b]
      BY <2>1 DEF IInv, Opening, Idle
    <2> QED
      BY <2>1, <2>2, <2>3, <2>4, RateLimitAssumption DEF IInv, Incremented
  <1> QED
    BY <1>1, <1>2

\* Every step keeps the places within the limit.
LEMMA NextIInv == IInv /\ [Next]_vars => IInv'
  <1> SUFFICES ASSUME IInv, [Next]_vars PROVE IInv'
    OBVIOUS
  <1> USE RateLimitAssumption
  <1>1. ASSUME NEW a \in Attempts, Arrive(a) PROVE IInv'
    BY <1>1 DEF Arrive, IInv, Opening
  <1>2. ASSUME NEW a \in Attempts, Incr(a) PROVE IInv'
    BY <1>2, IncrIInv
  <1>3. ASSUME NEW a \in Attempts, Expire(a) PROVE IInv'
    <2>1. a \in Opening /\ attempt[a].count = 1
      BY <1>3 DEF Expire, IInv, Opening
    <2>2. /\ attempt' = [attempt EXCEPT ![a] = Idle] /\ passed' = passed + 1
          /\ hits' = hits /\ faults' = faults
      BY <1>3, <2>1 DEF Expire, Decide, Allowed
    <2>3. Opening' = {}
      BY <2>1, <2>2 DEF Opening, IInv, Idle
    <2> QED
      BY <2>1, <2>2, <2>3 DEF IInv, Idle
  <1>4. ASSUME NEW a \in Attempts, RedisFails(a) PROVE IInv'
    <2>1. attempt' = [attempt EXCEPT ![a] = Idle] /\ passed' = passed /\ faults' = faults + 1
      BY <1>4 DEF RedisFails
    <2>2. Opening' = Opening \ {a} /\ \A b \in Opening' : attempt'[b] = attempt[b]
      BY <2>1 DEF Opening, IInv, Idle
    <2>3. CASE attempt[a].pc = "incr"
      BY <1>4, <2>1, <2>2, <2>3 DEF RedisFails, IInv, Incremented, Idle
    <2>4. CASE attempt[a].pc = "expire"
      <3>1. a \in Opening /\ Opening' = {}
        BY <2>2, <2>4 DEF Opening, IInv
      <3> QED
        BY <1>4, <2>1, <2>4, <3>1 DEF RedisFails, IInv, Idle
    <2> QED
      BY <1>4, <2>3, <2>4 DEF RedisFails
  <1>5. ASSUME Crash PROVE IInv'
    BY <1>5 DEF Crash, IInv, Opening, Idle
  <1>6. ASSUME WindowEnds PROVE IInv'
    <2>1. Opening = {}
      BY <1>6, Zenon DEF WindowEnds, IInv
    <2>2. attempt' = attempt /\ faults' = faults /\ hits' = 0 /\ passed' = 0 /\ expiring' = FALSE
      BY <1>6 DEF WindowEnds
    <2> QED
      BY <2>1, <2>2 DEF IInv, Opening
  <1>7. CASE UNCHANGED vars
    BY <1>7 DEF vars, IInv, Opening
  <1> QED
    BY <1>1, <1>2, <1>3, <1>4, <1>5, <1>6, <1>7 DEF Next

\* The places taken stay within the limit in every reachable state.
THEOREM Invariance == Spec => []IInv
  BY InitIInv, NextIInv, PTL DEF Spec

\* Whether the key has an expiry: SMT and Zenon each take half of it.
ExpiryType == expiring \in BOOLEAN

\* It is a Boolean throughout.
LEMMA ExpiryIsBoolean == Spec => []ExpiryType
  <1>1. Init => ExpiryType
    BY DEF Init, ExpiryType
  <1>2. ExpiryType /\ [Next]_vars => ExpiryType'
    <2> SUFFICES ASSUME expiring \in BOOLEAN, [Next]_vars PROVE expiring' \in BOOLEAN
      BY DEF ExpiryType
    <2>1. (hits > 0) \in BOOLEAN
      BY SMT
    <2>2. expiring' \in {expiring, hits > 0, FALSE}
      BY Zenon DEF Next, Arrive, Incr, Expire, RedisFails, Crash, WindowEnds, vars
    <2> QED
      BY <2>1, <2>2, Zenon
  <1> QED
    BY <1>1, <1>2, PTL DEF Spec

\* The variables have their types: only a key that exists can expire
\* (ratelimit.py:46).
THEOREM TypeCorrect == Spec => []TypeOK
  <1>1. IInv /\ ExpiryType => TypeOK
    <2> SUFFICES ASSUME IInv, expiring \in BOOLEAN PROVE TypeOK
      BY DEF ExpiryType
    <2>1. expiring => hits > 0
      BY RateLimitAssumption DEF IInv
    <2> QED
      BY <2>1, Zenon DEF IInv, TypeOK
  <1> QED
    BY <1>1, ExpiryIsBoolean, Invariance, PTL

\* No more attempts than the limit pass while one key lives, however many run
\* at once and whatever fails (ratelimit.py:44).
THEOREM LimitHolds == Spec => []WithinLimit
  <1>1. IInv => WithinLimit
    BY DEF IInv, WithinLimit
  <1> QED
    BY <1>1, Invariance, PTL

\* As long as no call has failed, a counter either has its expiry or an attempt
\* is about to set it.
KeyExpires == hits > 0 /\ faults = 0 => expiring \/ Opening # {}

\* It has one from its first count on, and whoever owes it sets it.
LEMMA NextKeyExpires == IInv /\ KeyExpires /\ [Next]_vars => KeyExpires'
  <1> SUFFICES ASSUME IInv, KeyExpires, [Next]_vars, hits' > 0, faults' = 0
               PROVE  expiring' \/ Opening' # {}
    BY DEF KeyExpires
  <1>0. faults = 0
    BY DEF IInv, Next, Arrive, Incr, Expire, RedisFails, Crash, WindowEnds, vars
  <1>1. ASSUME NEW a \in Attempts, Arrive(a) PROVE expiring' \/ Opening' # {}
    <2>1. hits' = hits /\ expiring' = expiring /\ Opening' = Opening
      BY <1>1 DEF Arrive, IInv, Opening
    <2>2. hits > 0
      BY <2>1
    <2> QED
      BY <1>0, <2>1, <2>2, Zenon DEF KeyExpires
  <1>2. ASSUME NEW a \in Attempts, Incr(a) PROVE expiring' \/ Opening' # {}
    <2>1. CASE OpensWindow(Incremented)
      <3>1. attempt'[a].pc = "expire"
        BY <1>2, <2>1 DEF Incr, IInv
      <3> QED
        BY <3>1 DEF Opening
    <2>2. CASE ~OpensWindow(Incremented)
      <3>1. hits > 0
        BY <2>2, RateLimitAssumption DEF OpensWindow, Incremented, IInv
      <3>2. expiring' = expiring /\ Opening' = Opening
        BY <1>2, <2>2 DEF Incr, Decide, Idle, IInv, Opening
      <3> QED
        BY <1>0, <3>1, <3>2, Zenon DEF KeyExpires
    <2> QED
      BY <2>1, <2>2
  <1>3. ASSUME NEW a \in Attempts, Expire(a) PROVE expiring' \/ Opening' # {}
    <2>1. expiring' = (hits > 0) /\ hits' = hits
      BY <1>3, Zenon DEF Expire
    <2> QED
      BY <2>1, Zenon
  <1>4. CASE UNCHANGED vars
    <2>1. hits' = hits /\ expiring' = expiring /\ Opening' = Opening
      BY <1>4 DEF vars, Opening
    <2>2. hits > 0
      BY <2>1
    <2> QED
      BY <1>0, <2>1, <2>2, Zenon DEF KeyExpires
  <1>5. ~Crash /\ ~WindowEnds /\ \A a \in Attempts : ~RedisFails(a)
    BY <1>0 DEF Crash, WindowEnds, RedisFails
  <1> QED
    BY <1>1, <1>2, <1>3, <1>4, <1>5 DEF Next

\* No attempt can leave a counter without an expiry behind: every key with a
\* count has one, or the one attempt that opened its window has still to set it
\* and holds up no other (ratelimit.py:46).  What makes a counter outlive its
\* window is a call that fails, never an interleaving.
THEOREM CounterExpires == Spec => []KeyExpires
  <1>1. Init => KeyExpires
    BY DEF Init, KeyExpires
  <1> QED
    BY <1>1, Invariance, NextKeyExpires, PTL DEF Spec

\* The attempt that opened the window and is not counted yet.
Places == IF Opening = {} THEN 0 ELSE 1

\* As long as no call has failed, each count stands for an attempt that got
\* through, up to the limit.
CountsArePassed == faults = 0 => passed + Places = IF hits > Limit THEN Limit ELSE hits

\* Counting and letting through are two steps for the opener only, and it holds
\* its place between them.
LEMMA NextCountsArePassed == IInv /\ CountsArePassed /\ [Next]_vars => CountsArePassed'
  <1> SUFFICES ASSUME IInv, CountsArePassed, [Next]_vars, faults' = 0
               PROVE  passed' + Places' = IF hits' > Limit THEN Limit ELSE hits'
    BY DEF CountsArePassed
  <1> USE RateLimitAssumption
  <1>0. faults = 0
    BY DEF IInv, Next, Arrive, Incr, Expire, RedisFails, Crash, WindowEnds, vars
  <1>1. ASSUME NEW a \in Attempts, Arrive(a)
        PROVE  hits' = hits /\ passed' = passed /\ Opening' = Opening
    BY <1>1 DEF Arrive, IInv, Opening
  <1>2. ASSUME NEW a \in Attempts, Incr(a)
        PROVE  passed' + Places' = IF hits' > Limit THEN Limit ELSE hits'
    <2>1. CASE OpensWindow(Incremented)
      <3>1. hits = 0 /\ hits' = 1 /\ passed = 0 /\ passed' = passed
        BY <1>2, <2>1 DEF Incr, OpensWindow, Incremented, IInv
      <3>2. attempt'[a].pc = "expire"
        BY <1>2, <2>1 DEF Incr, IInv
      <3>3. Opening' # {}
        BY <3>2 DEF Opening
      <3> QED
        BY <3>1, <3>3 DEF Places
    <2>2. CASE ~OpensWindow(Incremented)
      <3>1. /\ hits' = Incremented /\ hits > 0
            /\ passed' = IF hits' <= Limit THEN passed + 1 ELSE passed
        BY <1>2, <2>2 DEF Incr, Decide, Allowed, OpensWindow, Incremented, IInv
      <3>2. Opening' = Opening
        BY <1>2, <2>2 DEF Incr, Decide, Idle, IInv, Opening
      <3> QED
        BY <1>0, <3>1, <3>2 DEF IInv, CountsArePassed, Incremented, Places
    <2> QED
      BY <2>1, <2>2
  <1>3. ASSUME NEW a \in Attempts, Expire(a)
        PROVE  passed' + Places' = IF hits' > Limit THEN Limit ELSE hits'
    <2>1. a \in Opening /\ attempt[a].count = 1
      BY <1>3 DEF Expire, IInv, Opening
    <2>2. attempt' = [attempt EXCEPT ![a] = Idle] /\ passed' = passed + 1 /\ hits' = hits
      BY <1>3, <2>1 DEF Expire, Decide, Allowed
    <2>3. Opening' = {}
      BY <2>1, <2>2 DEF Opening, IInv, Idle
    <2> QED
      BY <1>0, <2>1, <2>2, <2>3 DEF IInv, CountsArePassed, Places
  <1>4. CASE WindowEnds
    <2>1. Opening = {}
      BY <1>4, Zenon DEF WindowEnds, IInv
    <2>2. attempt' = attempt /\ hits' = 0 /\ passed' = 0
      BY <1>4 DEF WindowEnds
    <2> QED
      BY <2>1, <2>2 DEF Opening, Places
  <1>5. CASE UNCHANGED vars
    BY <1>0, <1>5 DEF vars, CountsArePassed, Places, Opening
  <1>6. ~Crash /\ \A a \in Attempts : ~RedisFails(a)
    BY <1>0 DEF Crash, RedisFails
  <1>7. ASSUME NEW a \in Attempts, Arrive(a)
        PROVE  passed' + Places' = IF hits' > Limit THEN Limit ELSE hits'
    BY <1>0, <1>1, <1>7 DEF CountsArePassed, Places
  <1> QED
    BY <1>2, <1>3, <1>4, <1>5, <1>6, <1>7 DEF Next

\* Nobody is refused too early: the limiter answers 429 only to those for whom
\* the window's whole limit has got through, however the attempts interleave
\* (ratelimit.py:44).
THEOREM LimitIsUsed == Spec => []CountsArePassed
  <1>1. Init => CountsArePassed
    <2> SUFFICES ASSUME Init PROVE CountsArePassed
      OBVIOUS
    <2>1. Opening = {}
      BY DEF Init, Opening, Idle
    <2> QED
      BY <2>1, RateLimitAssumption DEF Init, CountsArePassed, Places
  <1> QED
    BY <1>1, Invariance, NextCountsArePassed, PTL DEF Spec
=============================================================================

-------------------------- MODULE LoginThrottleProofs --------------------------
(***************************************************************************)
(* Proofs about LoginThrottle: what the throttle keeps is what counts, an  *)
(* overrun is bounded, Retry-After is right to half a second, and unused   *)
(* keys go away.                                                           *)
(***************************************************************************)
EXTENDS LoginThrottle, FiniteSetTheorems, TLAPS

-----------------------------------------------------------------------------
(* The invariant.                                                          *)

\* Failures are recorded in the order of time.
TimeInv ==
  /\ now \in window..MaxTime
  /\ failed \in 0..MaxFailures
  /\ entries \in [Keys -> SUBSET (1..failed)]
  /\ at \in [Failures -> 0..now]
  /\ \A f, g \in 1..failed : f <= g => at[f] <= at[g]
  /\ who \in [Failures -> UserKeys \cup {<<>>}]
  /\ \A f \in 1..failed : who[f] \in UserKeys
  /\ forgiven \in [UserKeys -> 0..failed]

WorkerInv ==
  /\ worker \in [Workers -> {Idle} \cup Working]
  /\ \A w \in Workers : worker[w].seen <= failed

\* A key that is kept has a failure that the last sweep left or that came later,
\* and the last sweep was less than a window before the newest failure.
SweepInv ==
  /\ lastSweep \in 0..now
  /\ \A k \in Keys : entries[k] # {} => \E f \in entries[k] : at[f] + window > lastSweep
  /\ failed > 0 => at[failed] < lastSweep + window

\* The requests that have been let through against a key's budget.
Hits(k, j) == k = j \/ ipKey(k[1]) = j
Through(j) == {w \in Workers : worker[w].pc = "verifying" /\ Hits(worker[w].key, j)}
OverrunInv ==
  \A j \in Keys :
    Cardinality(Counted(j)) + Cardinality(Through(j)) < limit(j) + Cardinality(Workers)

\* The failures of a key that no good login has cleared, in the window or not.
Uncleared(j) ==
  {f \in 1..failed : IF j[2] = AnyName THEN who[f][1] = j[1]
                                       ELSE who[f] = j /\ f > forgiven[j]}
Later(j, t) == {f \in Uncleared(j) : at[f] > t - window}

\* Half a second after the time a login was told.
Waited(b, t) == 2 * t >= 2 * b.until + Second
RetryInv ==
  \A w \in Workers : worker[w].pc = "told" /\ worker[w].seen = failed =>
    \A j \in {worker[w].key, ipKey(worker[w].key[1])}, t \in Nat :
      Waited(worker[w], t) => Cardinality(Later(j, t)) < limit(j)

-----------------------------------------------------------------------------
(* Keys, lists and cardinalities.                                          *)

LEMMA ConstFacts ==
  /\ AnyName \notin Names /\ IsFiniteSet(Workers) /\ Cardinality(Workers) \in Nat
  /\ max \in Nat /\ max > 0 /\ ipMax \in Nat /\ ipMax > 0
  /\ window \in Nat /\ window > 0 /\ MaxTime \in Nat /\ MaxTime >= window
  /\ Second \in Nat /\ Second > 0
  /\ MaxFailures \in Nat
  /\ \A k \in Keys : limit(k) \in Nat /\ limit(k) > 0
<1>1. IsFiniteSet(Workers)
  BY ThrottleAssumption
<1>2. Cardinality(Workers) \in Nat
  BY <1>1, FS_CardinalityType
<1> QED
  BY <1>1, <1>2, ThrottleAssumption DEF limit

\* A user key and its IP's key are two keys.
LEMMA KeyFacts ==
  ASSUME NEW k \in UserKeys
  PROVE  /\ k \in Keys /\ ipKey(k[1]) \in Keys /\ k # ipKey(k[1])
         /\ k = <<k[1], k[2]>> /\ k[1] \in IPs /\ k[2] \in Names /\ k[2] # AnyName
         /\ ipKey(k[1])[1] = k[1] /\ ipKey(k[1])[2] = AnyName
BY ConstFacts DEF UserKeys, Keys, ipKey

\* A key that is not an IP's own is a user key.
LEMMA KeySplit ==
  ASSUME NEW j \in Keys
  PROVE  (j[2] = AnyName /\ j = ipKey(j[1])) \/ (j[2] # AnyName /\ j \in UserKeys)
BY ConstFacts DEF UserKeys, Keys, ipKey

\* Sets of failures are finite.
LEMMA FailuresFinite ==
  ASSUME TimeInv, NEW S \in SUBSET (1..failed)
  PROVE  IsFiniteSet(S) /\ Cardinality(S) \in Nat
<1>1. failed \in Int
  BY ConstFacts DEF TimeInv
<1>2. IsFiniteSet(1..failed)
  BY <1>1, FS_Interval
<1>3. IsFiniteSet(S)
  BY <1>2, FS_Subset
<1> QED
  BY <1>3, FS_CardinalityType

LEMMA CountedSub == \A j : Counted(j) \subseteq 1..failed
BY DEF Counted

\* In a finite set of numbers every rank from the top is taken: the CHOOSE of
\* FromNewest picks a failure.
LEMMA NthNewest ==
  ASSUME NEW S \in SUBSET Nat, IsFiniteSet(S), NEW n \in 1..Cardinality(S)
  PROVE  /\ FromNewest(S, n) \in S
         /\ Cardinality({g \in S : g >= FromNewest(S, n)}) = n
<1> DEFINE Above(f) == {g \in S : g >= f}
           rank == [f \in S |-> Cardinality(Above(f))]
           N == Cardinality(S)
<1>1. N \in Nat
  BY FS_CardinalityType
<1>2. \A f \in S : IsFiniteSet(Above(f)) /\ Cardinality(Above(f)) \in Nat
                   /\ Cardinality(Above(f)) <= N
  <2>1. ASSUME NEW f \in S PROVE Above(f) \in SUBSET S
    OBVIOUS
  <2> QED
    BY <2>1, FS_Subset, FS_CardinalityType
<1>3. \A f \in S : Cardinality(Above(f)) # 0
  <2>1. \A f \in S : f \in Above(f)
    OBVIOUS
  <2> QED
    BY <1>2, <2>1, FS_EmptySet
<1>4. rank \in [S -> 1..N]
  <2>1. \A f \in S : Cardinality(Above(f)) \in 1..N
    BY <1>1, <1>2, <1>3
  <2> QED
    BY <2>1
<1>5. ASSUME NEW f \in S, NEW g \in S, f < g PROVE rank[f] # rank[g]
  <2>0. \A x \in S : x \in Nat
    OBVIOUS
  <2>1. Above(g) \subseteq Above(f) /\ f \in Above(f) /\ f \notin Above(g)
    <3>1. ASSUME NEW x \in Above(g) PROVE x \in Above(f)
      <4>1. x \in S /\ x >= g
        OBVIOUS
      <4>2. x >= f
        BY <2>0, <4>1, <1>5
      <4> QED
        BY <4>1, <4>2
    <3>2. f >= f /\ ~ (f >= g)
      BY <2>0, <1>5
    <3> QED
      BY <3>1, <3>2
  <2>2. Cardinality(Above(f)) = Cardinality(Above(g)) => Above(f) = Above(g)
    BY <1>2, <2>1, FS_Subset
  <2> QED
    BY <2>1, <2>2
<1>6. \A f, g \in S : rank[f] = rank[g] => f = g
  <2>1. ASSUME NEW f \in S, NEW g \in S, f # g PROVE f < g \/ g < f
    BY <2>1
  <2> QED
    BY <1>5, <2>1
<1>7. rank \in Injection(S, 1..N)
  BY <1>4, <1>6 DEF Injection, IsInjective
<1>8. IsFiniteSet(1..N) /\ Cardinality(1..N) = N
  BY <1>1, FS_Interval
<1>9. rank \in Surjection(S, 1..N)
  BY <1>7, <1>8, FS_Injection
<1>10. \E f \in S : rank[f] = n
  BY <1>9 DEF Surjection
<1>11. \E f \in S : Cardinality({g \in S : g >= f}) = n
  BY <1>10
<1> QED
  BY <1>11 DEF FromNewest

-----------------------------------------------------------------------------
(* What wait computes.                                                     *)

\* The failures inside the window of a key's list.
LEMMA TrimFacts ==
  ASSUME TimeInv, NEW k \in Keys
  PROVE  /\ Trim(entries[k]) \subseteq 1..failed /\ Trim(entries[k]) \subseteq Failures
         /\ \A f \in Trim(entries[k]) : at[f] \in Nat /\ at[f] <= now /\ at[f] > now - window
<1>1. entries[k] \subseteq 1..failed /\ 1..failed \subseteq Failures
  BY ConstFacts DEF TimeInv, Failures
<1>2. \A f \in Failures : at[f] \in Nat /\ at[f] <= now
  BY ConstFacts DEF TimeInv
<1> QED
  BY <1>1, <1>2 DEF Trim

\* A key whose budget is not used up is not made to wait; otherwise its wait ends
\* with the failure that has as many newer ones as the limit allows.
LEMMA WaitFacts ==
  ASSUME TimeInv, NEW k \in Keys
  PROVE  /\ wait(k) \in 0..window
         /\ Cardinality(Trim(entries[k])) >= limit(k) =>
              \E f \in Trim(entries[k]) :
                /\ Cardinality({g \in Trim(entries[k]) : g >= f}) = limit(k)
                /\ wait(k) = window - (now - at[f])
<1> DEFINE S == Trim(entries[k])
           f == FromNewest(S, limit(k))
<1>1. S \in SUBSET (1..failed) /\ limit(k) \in Nat /\ limit(k) > 0
  BY TrimFacts, ConstFacts
<1>2. IsFiniteSet(S) /\ Cardinality(S) \in Nat
  BY <1>1, FailuresFinite
<1>3. CASE Cardinality(S) < limit(k)
  <2>1. wait(k) = 0
    BY <1>3 DEF wait
  <2> QED
    BY <1>1, <1>2, <1>3, <2>1, ConstFacts
<1>4. CASE Cardinality(S) >= limit(k)
  <2>1. S \in SUBSET Nat /\ limit(k) \in 1..Cardinality(S)
    BY <1>1, <1>2, <1>4
  <2>2. f \in S /\ Cardinality({g \in S : g >= f}) = limit(k)
    BY <1>2, <2>1, NthNewest
  <2>3. at[f] \in Nat /\ at[f] <= now /\ at[f] > now - window /\ now \in Nat
    BY <2>2, TrimFacts, ConstFacts DEF TimeInv
  <2>4. wait(k) = window - (now - at[f])
    <3>1. ~ (Cardinality(S) < limit(k)) /\ ~ (window - (now - at[f]) < 0)
      BY <1>1, <1>2, <1>4, <2>3, ConstFacts
    <3> QED
      BY <3>1 DEF wait
  <2>5. wait(k) \in 0..window
    BY <2>3, <2>4, ConstFacts
  <2> QED
    BY <2>2, <2>4, <2>5
<1> QED
  BY <1>1, <1>2, <1>3, <1>4

-----------------------------------------------------------------------------
(* Types.                                                                  *)

\* Rounding takes off half a second at most, and adds no more.
LEMMA RoundFacts ==
  ASSUME NEW d \in Nat
  PROVE  /\ Round(d) \in Nat
         /\ 2 * Round(d) + Second >= 2 * d
         /\ 2 * Round(d) <= 2 * d + Second
<1>1. ASSUME NEW a \in Nat, NEW b \in Nat \ {0}
      PROVE  a \div b \in Nat /\ b * (a \div b) <= a /\ a < b * (a \div b) + b
  OBVIOUS
<1>2. 2 * d + Second \in Nat /\ 2 * Second \in Nat \ {0}
  BY ConstFacts
<1>3. PICK q \in Nat : /\ q = (2 * d + Second) \div (2 * Second)
                      /\ (2 * Second) * q <= 2 * d + Second
                      /\ 2 * d + Second < (2 * Second) * q + 2 * Second
  BY <1>1, <1>2
<1>4. (2 * Second) * q = 2 * (Second * q) /\ Second * q \in Nat
  BY ConstFacts
<1> QED
  BY <1>3, <1>4, ConstFacts DEF Round

\* A request that is under way is about a user key.
LEMMA WorkerFacts ==
  ASSUME WorkerInv, NEW w \in Workers, worker[w].pc # "idle"
  PROVE  worker[w] \in Working /\ worker[w].key \in UserKeys
BY DEF WorkerInv, Working, Idle

LEMMA TrimmedSub ==
  ASSUME TimeInv, NEW ks
  PROVE  Trimmed(ks) \in [Keys -> SUBSET (1..failed)]
<1>1. \A k \in Keys : Trim(entries[k]) \subseteq 1..failed /\ entries[k] \subseteq 1..failed
  BY TrimFacts DEF TimeInv
<1> QED
  BY <1>1 DEF Trimmed

LEMMA FailedTimes ==
  ASSUME TimeInv, WorkerInv, NEW w \in Workers, Failed(w)
  PROVE  TimeInv'
<1>0. worker[w].key \in UserKeys /\ failed + 1 \in Failures /\ failed \in Nat /\ now \in Nat
  BY WorkerFacts, ConstFacts DEF Failed, TimeInv, Failures
<1>1. /\ now' = now /\ failed' = failed + 1 /\ forgiven' = forgiven
      /\ at' = [at EXCEPT ![failed + 1] = now]
      /\ who' = [who EXCEPT ![failed + 1] = worker[w].key]
  BY DEF Failed
<1>2. failed' \in 0..MaxFailures /\ now' \in window..MaxTime
  BY <1>0, <1>1, ConstFacts DEF Failed, TimeInv
<1>3. entries' \in [Keys -> SUBSET (1..failed')]
  <2>1. \A j \in Keys : Trim(entries[j]) \cup {failed + 1} \subseteq 1..(failed + 1)
    <3>1. \A j \in Keys : Trim(entries[j]) \subseteq 1..failed
      BY TrimFacts
    <3> QED
      BY <1>0, <3>1
  <2>2. \A j \in Keys : Trimmed(sweep)[j] \subseteq 1..(failed + 1)
    <3>1. \A j \in Keys : Trimmed(sweep)[j] \subseteq 1..failed
      BY TrimmedSub
    <3> QED
      BY <1>0, <3>1
  <2> QED
    BY <1>1, <2>1, <2>2 DEF Failed
<1>4. at' \in [Failures -> 0..now']
  BY <1>0, <1>1 DEF TimeInv
<1>5. \A f, g \in 1..failed' : f <= g => at'[f] <= at'[g]
  <2>1. \A f \in 1..failed : f \in Failures /\ at'[f] = at[f] /\ at[f] <= now
    BY <1>0, <1>1, ConstFacts DEF TimeInv, Failures
  <2>2. at'[failed + 1] = now
    BY <1>0, <1>1 DEF TimeInv
  <2>3. \A f \in 1..failed' : f \in 1..failed \/ f = failed + 1
    BY <1>0, <1>1
  <2>4. ASSUME NEW f \in 1..failed', NEW g \in 1..failed', f <= g
        PROVE  at'[f] <= at'[g]
    <3>1. CASE g = failed + 1
      BY <1>0, <2>1, <2>2, <2>3, <3>1
    <3>2. CASE g \in 1..failed
      <4>1. f \in 1..failed
        BY <1>0, <2>3, <2>4, <3>2
      <4> QED
        BY <2>1, <2>4, <3>2, <4>1 DEF TimeInv
    <3> QED
      BY <2>3, <3>1, <3>2
  <2> QED
    BY <2>4
<1>6. who' \in [Failures -> UserKeys \cup {<<>>}] /\ \A f \in 1..failed' : who'[f] \in UserKeys
  <2>1. \A f \in 1..failed' : f = failed + 1 \/ (f \in 1..failed /\ f # failed + 1)
    BY <1>0, <1>1
  <2> QED
    BY <1>0, <1>1, <2>1 DEF TimeInv
<1>7. forgiven' \in [UserKeys -> 0..failed']
  BY <1>0, <1>1 DEF TimeInv
<1> QED
  BY <1>2, <1>3, <1>4, <1>5, <1>6, <1>7 DEF TimeInv

LEMMA TimeKeeps ==
  ASSUME TimeInv, WorkerInv, [Next]_vars
  PROVE  TimeInv'
<1>1. CASE Tick
  BY <1>1, ConstFacts DEF Tick, TimeInv, historyVars
<1>2. ASSUME NEW w \in Workers, NEW ip \in IPs, NEW n \in Names, Allow(w, ip, n) PROVE TimeInv'
  BY <1>2, TrimmedSub DEF Allow, TimeInv, historyVars
<1>3. ASSUME NEW w \in Workers, RetryAfter(w) PROVE TimeInv'
  BY <1>3, TrimmedSub DEF RetryAfter, TimeInv, historyVars
<1>4. ASSUME NEW w \in Workers, Answer(w) PROVE TimeInv'
  BY <1>4 DEF Answer, TimeInv, historyVars
<1>5. ASSUME NEW w \in Workers, Failed(w) PROVE TimeInv'
  BY <1>5, FailedTimes
<1>6. ASSUME NEW w \in Workers, Success(w) PROVE TimeInv'
  <2>1. worker[w].key \in UserKeys /\ failed \in 0..failed
    BY <1>6, WorkerFacts, ConstFacts DEF Success, TimeInv
  <2>2. /\ entries' = [entries EXCEPT ![worker[w].key] = {}]
        /\ forgiven' = [forgiven EXCEPT ![worker[w].key] = failed]
        /\ UNCHANGED <<now, failed, at, who>>
    BY <1>6 DEF Success
  <2>3. entries' \in [Keys -> SUBSET (1..failed)] /\ forgiven' \in [UserKeys -> 0..failed]
    BY <2>1, <2>2 DEF TimeInv
  <2> QED
    BY <2>2, <2>3 DEF TimeInv
<1>7. CASE UNCHANGED vars
  BY <1>7 DEF vars, historyVars, TimeInv
<1> QED
  BY <1>1, <1>2, <1>3, <1>4, <1>5, <1>6, <1>7 DEF Next

LEMMA WorkerKeeps ==
  ASSUME TimeInv, WorkerInv, [Next]_vars
  PROVE  WorkerInv'
<1>0. failed \in 0..MaxFailures /\ now \in window..MaxTime
  BY DEF TimeInv
<1>1. ASSUME NEW w \in Workers, NEW ip \in IPs, NEW n \in Names, Allow(w, ip, n)
      PROVE  WorkerInv'
  <2>1. userKey(ip, n) \in UserKeys /\ 0 \in Untils /\ 0 \in 0..MaxFailures
    BY ConstFacts DEF userKey, UserKeys, Untils
  <2>2. /\ worker' \in [Workers -> {Idle} \cup Working] /\ failed' = failed
        /\ worker'[w].seen = 0 /\ \A v \in Workers \ {w} : worker'[v] = worker[v]
    BY <1>1, <2>1 DEF Allow, WorkerInv, Working, historyVars
  <2> QED
    BY <1>0, <2>2 DEF WorkerInv
<1>2. ASSUME NEW w \in Workers, RetryAfter(w) PROVE WorkerInv'
  <2>1. worker[w] \in Working
    BY <1>2, WorkerFacts DEF RetryAfter
  <2>2. ipKey(worker[w].key[1]) \in Keys /\ worker[w].key \in Keys
    BY <2>1, KeyFacts DEF Working
  <2>3. wait(worker[w].key) \in 0..window /\ wait(ipKey(worker[w].key[1])) \in 0..window
    BY <2>2, WaitFacts
  <2> DEFINE k == worker[w].key
             ik == ipKey(k[1])
             longest == IF wait(k) > wait(ik) THEN wait(k) ELSE wait(ik)
             u == now + Round(longest)
             v == [worker[w] EXCEPT !.pc = "told", !.seen = failed, !.until = u]
  <2>4. u \in Untils
    <3>1. PICK d \in 0..window : d = longest
      BY <2>3
    <3>2. PICK r \in Nat : r = Round(d) /\ 2 * r <= 2 * d + Second
      BY <3>1, RoundFacts, ConstFacts
    <3>3. u = now + r
      BY <3>1, <3>2
    <3> HIDE DEF u
    <3> QED
      BY <1>0, <3>1, <3>2, <3>3, ConstFacts DEF Untils
  <2>5. v \in Working /\ v.seen = failed
    BY <1>0, <2>1, <2>4 DEF Working
  <2>6. worker' = [worker EXCEPT ![w] = v] /\ failed' = failed
    BY <1>2, <2>1 DEF RetryAfter, WorkerInv, Working, historyVars
  <2> QED
    BY <1>0, <2>5, <2>6 DEF WorkerInv
<1>3. ASSUME NEW w \in Workers, worker' = [worker EXCEPT ![w] = Idle],
             failed' = failed \/ failed' = failed + 1
      PROVE  WorkerInv'
  BY <1>0, <1>3, ConstFacts DEF WorkerInv, Idle, Working
<1>4. CASE UNCHANGED <<worker, failed>>
  BY <1>4 DEF WorkerInv
<1>5. ASSUME NEW w \in Workers, Answer(w) \/ Failed(w) \/ Success(w) PROVE WorkerInv'
  BY <1>3, <1>5 DEF Answer, Failed, Success, historyVars
<1>6. CASE Tick \/ UNCHANGED vars
  BY <1>4, <1>6 DEF Tick, vars, historyVars
<1> QED
  BY <1>1, <1>2, <1>5, <1>6 DEF Next

-----------------------------------------------------------------------------
(* What is kept and what counts.                                           *)

\* Steps after which the histories are as before and lists differ in what lies
\* outside the window only.
LEMMA ExactKept ==
  ASSUME TimeInv, WindowExact, now' \in Nat, now' >= now,
         UNCHANGED <<failed, at, who, forgiven>>,
         \A k \in Keys : entries'[k] = entries[k] \/ entries'[k] = Trim(entries[k])
  PROVE  WindowExact'
<1>1. \A f \in 1..failed : at[f] \in Nat /\ now \in Nat /\ window \in Nat
  BY ConstFacts DEF TimeInv, Failures
<1>2. ASSUME NEW k \in Keys PROVE Trim(entries[k])' = Counted(k)'
  <2>1. entries[k] \subseteq 1..failed /\ Trim(entries[k]) = Counted(k)
    BY DEF TimeInv, WindowExact
  <2>2. Trim(entries[k])' = {f \in Trim(entries[k]) : at[f] > now' - window}
    BY <1>1, <2>1 DEF Trim
  <2>3. Counted(k)' = {f \in Counted(k) : at[f] > now' - window}
    BY <1>1 DEF Counted
  <2> QED
    BY <2>1, <2>2, <2>3
<1> QED
  BY <1>2 DEF WindowExact

\* A failure is added to the two lists it counts in.
LEMMA ExactFailed ==
  ASSUME TimeInv, WorkerInv, WindowExact, NEW w \in Workers, Failed(w)
  PROVE  WindowExact'
<1> DEFINE k == worker[w].key
           n == failed + 1
<1>0. /\ k \in UserKeys /\ n \in Failures /\ n \notin 1..failed /\ failed \in Nat /\ now \in Nat
      /\ 1..n = (1..failed) \cup {n} /\ 1..failed \subseteq Failures
  BY WorkerFacts, ConstFacts DEF Failed, TimeInv, Failures
<1>1. /\ now' = now /\ failed' = n /\ forgiven' = forgiven
      /\ at' = [at EXCEPT ![n] = now] /\ who' = [who EXCEPT ![n] = k]
  BY DEF Failed
<1>2. /\ at'[n] = now /\ who'[n] = k
      /\ \A f \in 1..failed : at'[f] = at[f] /\ who'[f] = who[f]
  BY <1>0, <1>1 DEF TimeInv
<1>3. ASSUME NEW j \in Keys PROVE Trim(entries[j])' = Counted(j)'
  <2>1. Trim(entries[j]) = Counted(j) /\ entries[j] \subseteq 1..failed
        /\ Trim(entries[j]) \subseteq 1..failed
    BY TrimFacts DEF TimeInv, WindowExact
  <2>2. CASE j \in {k, ipKey(k[1])}
    <3>1. entries'[j] = Trim(entries[j]) \cup {n}
      BY <2>2 DEF Failed
    <3>2. Trim(entries[j])' = Trim(entries[j]) \cup {n}
      BY <1>0, <1>1, <1>2, <2>1, <3>1, ConstFacts DEF Trim
    <3>3. n \in Counted(j)'
      <4>1. j[2] = AnyName => k[1] = j[1]
        BY <1>0, <2>2, KeyFacts
      <4>2. j[2] # AnyName => j = k
        BY <1>0, <2>2, KeyFacts
      <4>3. forgiven[k] \in 0..failed
        BY <1>0 DEF TimeInv
      <4> QED
        BY <1>0, <1>1, <1>2, <4>1, <4>2, <4>3, ConstFacts DEF Counted
    <3>4. Counted(j)' = Counted(j) \cup {n}
      BY <1>0, <1>1, <1>2, <3>3 DEF Counted
    <3> QED
      BY <2>1, <3>2, <3>4
  <2>3. CASE j \notin {k, ipKey(k[1])}
    <3>1. entries'[j] = entries[j] \/ entries'[j] = Trim(entries[j])
      BY <2>3 DEF Failed, Trimmed
    <3>2. Trim(entries[j])' = Trim(entries[j])
      BY <1>0, <1>1, <1>2, <2>1, <3>1 DEF Trim
    <3>3. n \notin Counted(j)'
      BY <1>0, <1>1, <1>2, <2>3, KeySplit DEF Counted
    <3>4. Counted(j)' = Counted(j)
      BY <1>0, <1>1, <1>2, <3>3 DEF Counted
    <3> QED
      BY <2>1, <3>2, <3>4
  <2> QED
    BY <2>2, <2>3
<1> QED
  BY <1>3 DEF WindowExact

\* A good login clears its own key and nothing else.
LEMMA ExactSuccess ==
  ASSUME TimeInv, WorkerInv, WindowExact, NEW w \in Workers, Success(w)
  PROVE  /\ WindowExact'
         /\ \A j \in Keys : Uncleared(j)' \subseteq Uncleared(j)
<1>k. PICK k \in UserKeys : k = worker[w].key
  BY WorkerFacts DEF Success
<1>0. k \in UserKeys /\ k \in Keys /\ k[2] # AnyName /\ failed \in Nat
  BY KeyFacts, ConstFacts DEF TimeInv
<1>1. /\ entries' = [entries EXCEPT ![k] = {}] /\ forgiven' = [forgiven EXCEPT ![k] = failed]
      /\ UNCHANGED <<now, failed, at, who>>
  BY <1>k DEF Success
<1>2. ASSUME NEW j \in Keys, j # k
      PROVE  Trim(entries[j])' = Counted(j)' /\ Uncleared(j)' = Uncleared(j)
  <2>1. entries'[j] = entries[j] /\ (j[2] # AnyName => forgiven'[j] = forgiven[j])
    BY <1>0, <1>1, <1>2, KeySplit DEF TimeInv
  <2>2. Trim(entries[j])' = Trim(entries[j])
    BY <1>1, <2>1 DEF Trim
  <2>3. Counted(j)' = Counted(j) /\ Uncleared(j)' = Uncleared(j)
    BY <1>1, <2>1 DEF Counted, Uncleared
  <2> QED
    BY <2>2, <2>3 DEF WindowExact
<1>3. Trim(entries[k])' = {} /\ Counted(k)' = {} /\ Uncleared(k)' = {}
  <2>1. entries'[k] = {} /\ forgiven'[k] = failed
    BY <1>0, <1>1 DEF TimeInv
  <2>2. \A f \in 1..failed : ~ (f > failed)
    BY <1>0
  <2>3. Trim(entries[k])' = {}
    BY <2>1 DEF Trim
  <2>4. Counted(k)' = {}
    BY <1>0, <1>1, <2>1, <2>2 DEF Counted
  <2>5. Uncleared(k)' = {}
    BY <1>0, <1>1, <2>1, <2>2 DEF Uncleared
  <2> QED
    BY <2>3, <2>4, <2>5
<1>4. ASSUME NEW j \in Keys
      PROVE  Trim(entries[j])' = Counted(j)' /\ Uncleared(j)' \subseteq Uncleared(j)
  <2>1. CASE j = k
    BY <1>3, <2>1
  <2>2. CASE j # k
    BY <1>2, <2>2
  <2> QED
    BY <2>1, <2>2
<1>5. WindowExact'
  BY <1>4 DEF WindowExact
<1> QED
  BY <1>4, <1>5

LEMMA ExactKeeps ==
  ASSUME TimeInv, WorkerInv, WindowExact, [Next]_vars
  PROVE  WindowExact'
<1>0. now \in Nat /\ now >= now /\ now + 1 \in Nat /\ now + 1 >= now
  BY ConstFacts DEF TimeInv
<1>1. CASE Tick
  BY <1>0, <1>1, ExactKept DEF Tick, historyVars
<1>2. ASSUME NEW w \in Workers, NEW ip \in IPs, NEW n \in Names, Allow(w, ip, n)
      PROVE  WindowExact'
  BY <1>0, <1>2, ExactKept DEF Allow, Trimmed, historyVars
<1>3. ASSUME NEW w \in Workers, RetryAfter(w) PROVE WindowExact'
  BY <1>0, <1>3, ExactKept DEF RetryAfter, Trimmed, historyVars
<1>4. ASSUME NEW w \in Workers, Answer(w) PROVE WindowExact'
  BY <1>0, <1>4, ExactKept DEF Answer, historyVars
<1>5. CASE UNCHANGED vars
  BY <1>0, <1>5, ExactKept DEF vars, historyVars
<1> QED
  BY <1>1, <1>2, <1>3, <1>4, <1>5, ExactFailed, ExactSuccess DEF Next

-----------------------------------------------------------------------------
(* The sweep.                                                              *)

LEMMA SweepKeeps ==
  ASSUME TimeInv, WorkerInv, SweepInv, [Next]_vars
  PROVE  SweepInv'
<1>0. /\ now \in Nat /\ window \in Nat /\ window > 0 /\ failed \in Nat /\ lastSweep \in Nat
      /\ lastSweep <= now /\ \A f \in 1..failed : f \in Failures /\ at[f] \in Nat /\ at[f] <= now
  BY ConstFacts DEF TimeInv, SweepInv, Failures
<1>1. ASSUME UNCHANGED <<lastSweep, failed, at>>, now' \in Nat, now' >= now,
             \A k \in Keys : entries'[k] \in {{}, entries[k], Trim(entries[k])}
      PROVE  SweepInv'
  <2>1. ASSUME NEW k \in Keys, entries'[k] # {}
        PROVE  \E f \in entries'[k] : at'[f] + window > lastSweep'
    <3>1. CASE entries'[k] = entries[k]
      BY <1>1, <2>1, <3>1 DEF SweepInv
    <3>2. CASE entries'[k] = Trim(entries[k])
      <4>1. PICK f \in Trim(entries[k]) : TRUE
        BY <2>1, <3>2
      <4>2. at[f] \in Nat /\ at[f] > now - window
        BY <4>1, TrimFacts
      <4> QED
        BY <1>0, <1>1, <3>2, <4>1, <4>2
    <3> QED
      BY <1>1, <2>1, <3>1, <3>2
  <2>2. lastSweep' \in 0..now'
    BY <1>0, <1>1
  <2> QED
    BY <1>1, <2>1, <2>2 DEF SweepInv
<1>2. ASSUME NEW w \in Workers, Failed(w) PROVE SweepInv'
  <2>1. /\ now' = now /\ failed' = failed + 1 /\ failed + 1 \in Failures
        /\ at' = [at EXCEPT ![failed + 1] = now]
        /\ lastSweep' = IF SweepDue THEN now ELSE lastSweep
    BY <1>2, ConstFacts DEF Failed, TimeInv, Failures
  <2>2. at'[failed + 1] = now /\ \A f \in 1..failed : at'[f] = at[f]
    BY <1>0, <2>1 DEF TimeInv
  <2>3. lastSweep' \in 0..now' /\ now < lastSweep' + window
    BY <1>0, <2>1 DEF SweepDue
  <2>4. ASSUME NEW k \in Keys, entries'[k] # {}
        PROVE  \E f \in entries'[k] : at'[f] + window > lastSweep'
    <3>1. CASE failed + 1 \in entries'[k]
      BY <1>0, <2>1, <2>2, <2>3, <3>1
    <3>2. CASE failed + 1 \notin entries'[k]
      <4>1. entries'[k] = IF SweepDue THEN Trim(entries[k]) ELSE entries[k]
        BY <1>2, <3>2 DEF Failed, Trimmed, sweep
      <4>2. CASE SweepDue
        <5>1. PICK f \in Trim(entries[k]) : TRUE
          BY <2>4, <4>1, <4>2
        <5>2. f \in 1..failed /\ at[f] \in Nat /\ at[f] > now - window
          BY <5>1, TrimFacts
        <5>3. lastSweep' = now /\ at'[f] = at[f]
          BY <2>1, <2>2, <4>2, <5>2
        <5>4. at'[f] + window > lastSweep'
          BY <1>0, <5>2, <5>3
        <5> QED
          BY <4>1, <4>2, <5>1, <5>4
      <4>3. CASE ~ SweepDue
        <5>1. PICK f \in entries[k] : at[f] + window > lastSweep
          BY <2>4, <4>1, <4>3 DEF SweepInv
        <5>2. f \in 1..failed
          BY <5>1 DEF TimeInv
        <5> QED
          BY <2>1, <2>2, <4>1, <4>3, <5>1, <5>2
      <4> QED
        BY <4>2, <4>3
    <3> QED
      BY <3>1, <3>2
  <2>5. failed' > 0 => at'[failed'] < lastSweep' + window
    BY <2>1, <2>2, <2>3
  <2> QED
    BY <2>3, <2>4, <2>5 DEF SweepInv
<1>3. CASE Tick
  BY <1>0, <1>1, <1>3 DEF Tick, historyVars
<1>4. ASSUME NEW w \in Workers, NEW ip \in IPs, NEW n \in Names, Allow(w, ip, n) PROVE SweepInv'
  BY <1>0, <1>1, <1>4 DEF Allow, Trimmed, historyVars
<1>5. ASSUME NEW w \in Workers, RetryAfter(w) PROVE SweepInv'
  BY <1>0, <1>1, <1>5 DEF RetryAfter, Trimmed, historyVars
<1>6. ASSUME NEW w \in Workers, Answer(w) PROVE SweepInv'
  BY <1>0, <1>1, <1>6 DEF Answer, historyVars
<1>7. ASSUME NEW w \in Workers, Success(w) PROVE SweepInv'
  <2>1. \A k \in Keys : entries'[k] \in {{}, entries[k]}
    BY <1>7 DEF Success, TimeInv
  <2> QED
    BY <1>0, <1>1, <1>7, <2>1 DEF Success
<1>8. CASE UNCHANGED vars
  BY <1>0, <1>1, <1>8 DEF vars, historyVars
<1> QED
  BY <1>2, <1>3, <1>4, <1>5, <1>6, <1>7, <1>8 DEF Next

-----------------------------------------------------------------------------
(* The overrun.                                                            *)

\* A failure is added to what counts for the keys it hits, and to nothing else.
LEMMA CountedFailed ==
  ASSUME TimeInv, NEW w \in Workers, Failed(w), NEW k \in UserKeys, k = worker[w].key,
         NEW j \in Keys
  PROVE  Counted(j)' \subseteq IF Hits(k, j) THEN Counted(j) \cup {failed + 1} ELSE Counted(j)
<1>0. failed \in Nat /\ failed + 1 \in Failures /\ 1..failed \subseteq Failures
      /\ 1..(failed + 1) = (1..failed) \cup {failed + 1} /\ failed + 1 \notin 1..failed
  BY ConstFacts DEF Failed, TimeInv, Failures
<1>1. /\ now' = now /\ failed' = failed + 1 /\ forgiven' = forgiven
      /\ at' = [at EXCEPT ![failed + 1] = now] /\ who' = [who EXCEPT ![failed + 1] = k]
  BY DEF Failed
<1>2. /\ who'[failed + 1] = k
      /\ \A f \in 1..failed : at'[f] = at[f] /\ who'[f] = who[f]
  BY <1>0, <1>1 DEF TimeInv
<1>3. Counted(j)' \subseteq Counted(j) \cup {failed + 1}
  BY <1>0, <1>1, <1>2 DEF Counted
<1>4. ~ Hits(k, j) => failed + 1 \notin Counted(j)'
  BY <1>1, <1>2, KeySplit DEF Counted, Hits
<1> QED
  BY <1>3, <1>4

\* A request that is not let through, or no more, counts against no budget.
LEMMA Leaves ==
  ASSUME NEW w \in Workers, worker'[w].pc # "verifying",
         \A v \in Workers \ {w} : worker'[v] = worker[v]
  PROVE  \A j : Through(j)' \subseteq Through(j) \ {w}
BY DEF Through, Hits

LEMMA OverrunShrinks ==
  ASSUME TimeInv, TimeInv', OverrunInv, NEW j \in Keys,
         Counted(j)' \subseteq Counted(j), Through(j)' \subseteq Through(j)
  PROVE  Cardinality(Counted(j))' + Cardinality(Through(j))' < limit(j) + Cardinality(Workers)
<1>1. IsFiniteSet(Counted(j)) /\ Cardinality(Counted(j)) \in Nat
  BY CountedSub, FailuresFinite
<1>2. Cardinality(Counted(j)') \in Nat /\ Cardinality(Counted(j)') <= Cardinality(Counted(j))
  BY <1>1, FS_Subset, FS_CardinalityType
<1>3. IsFiniteSet(Through(j)) /\ Cardinality(Through(j)) \in Nat
  <2>1. Through(j) \subseteq Workers
    BY DEF Through
  <2> QED
    BY <2>1, ConstFacts, FS_Subset, FS_CardinalityType
<1>4. Cardinality(Through(j)') \in Nat /\ Cardinality(Through(j)') <= Cardinality(Through(j))
  BY <1>3, FS_Subset, FS_CardinalityType
<1>5. Cardinality(Counted(j)) + Cardinality(Through(j)) < limit(j) + Cardinality(Workers)
  BY DEF OverrunInv
<1> QED
  BY <1>1, <1>2, <1>3, <1>4, <1>5, ConstFacts

\* The request that fails is one of those that had been let through.
LEMMA OverrunFailed ==
  ASSUME TimeInv, WorkerInv, OverrunInv, NEW w \in Workers, Failed(w), NEW j \in Keys,
         Hits(worker[w].key, j)
  PROVE  Cardinality(Counted(j))' + Cardinality(Through(j))' < limit(j) + Cardinality(Workers)
<1>1. PICK k \in UserKeys : k = worker[w].key
  BY WorkerFacts DEF Failed
<1>2. Counted(j)' \subseteq Counted(j) \cup {failed + 1}
  BY <1>1, CountedFailed
<1>3. IsFiniteSet(Counted(j)) /\ Cardinality(Counted(j)) \in Nat
  BY CountedSub, FailuresFinite
<1>4. /\ IsFiniteSet(Counted(j) \cup {failed + 1})
      /\ Cardinality(Counted(j) \cup {failed + 1}) \in Nat
      /\ Cardinality(Counted(j) \cup {failed + 1}) <= Cardinality(Counted(j)) + 1
  <2> DEFINE C == Counted(j)
             D == C \cup {failed + 1}
  <2>1. IsFiniteSet(D) /\ Cardinality(D) \in {Cardinality(C), Cardinality(C) + 1}
    BY <1>3, FS_AddElement
  <2> HIDE DEF C, D
  <2>2. Cardinality(D) \in Nat /\ Cardinality(D) <= Cardinality(C) + 1
    <3>1. Cardinality(C) \in Nat
      BY <1>3 DEF C
    <3> QED
      BY <2>1, <3>1
  <2> QED
    BY <2>1, <2>2 DEF C, D
<1>5. Cardinality(Counted(j)') \in Nat
      /\ Cardinality(Counted(j)') <= Cardinality(Counted(j)) + 1
  <2>1. Cardinality(Counted(j)') \in Nat
        /\ Cardinality(Counted(j)') <= Cardinality(Counted(j) \cup {failed + 1})
    BY <1>2, <1>4, FS_Subset, FS_CardinalityType
  <2> QED
    BY <1>3, <1>4, <2>1
<1>6. w \in Through(j) /\ Through(j) \subseteq Workers
  BY DEF Failed, Through
<1>7. IsFiniteSet(Through(j)) /\ Cardinality(Through(j)) \in Nat
  BY <1>6, ConstFacts, FS_Subset, FS_CardinalityType
<1>8. /\ IsFiniteSet(Through(j) \ {w}) /\ Cardinality(Through(j) \ {w}) \in Nat
      /\ Cardinality(Through(j) \ {w}) = Cardinality(Through(j)) - 1
  BY <1>6, <1>7, FS_RemoveElement, FS_CardinalityType
<1>9. Through(j)' \subseteq Through(j) \ {w}
  <2>1. worker'[w].pc # "verifying" /\ \A v \in Workers \ {w} : worker'[v] = worker[v]
    BY DEF Failed, WorkerInv, Idle
  <2> QED
    BY <2>1, Leaves
<1>10. Cardinality(Through(j)') \in Nat
       /\ Cardinality(Through(j)') <= Cardinality(Through(j)) - 1
  BY <1>8, <1>9, FS_Subset, FS_CardinalityType
<1>11. Cardinality(Counted(j)) + Cardinality(Through(j)) < limit(j) + Cardinality(Workers)
  BY DEF OverrunInv
<1> QED
  BY <1>3, <1>5, <1>7, <1>10, <1>11, ConstFacts

\* A request is let through only while the budgets it hits are not used up.
LEMMA OverrunAllow ==
  ASSUME TimeInv, WorkerInv, WindowExact, OverrunInv, TimeInv',
         NEW w \in Workers, NEW ip \in IPs, NEW n \in Names, Allow(w, ip, n), NEW j \in Keys
  PROVE  Cardinality(Counted(j))' + Cardinality(Through(j))' < limit(j) + Cardinality(Workers)
<1> DEFINE k == userKey(ip, n)
           open == Budget(k) /\ Budget(ipKey(ip))
<1>1. /\ Counted(j)' = Counted(j)
      /\ worker'[w].pc = (IF open THEN "verifying" ELSE "refused") /\ worker'[w].key = k
      /\ \A v \in Workers \ {w} : worker'[v] = worker[v]
  BY DEF Allow, Counted, historyVars, WorkerInv
<1>2. k \in UserKeys /\ k[1] = ip
  BY DEF userKey, UserKeys
<1>3. CASE open /\ Hits(k, j)
  <2>1. Budget(j)
    BY <1>2, <1>3 DEF Hits
  <2>2. Cardinality(Counted(j)) < limit(j)
    BY <2>1 DEF Budget, WindowExact
  <2>3. Cardinality(Counted(j)) \in Nat
    BY CountedSub, FailuresFinite
  <2>4. Cardinality(Through(j)') \in Nat /\ Cardinality(Through(j)') <= Cardinality(Workers)
    <3>1. Through(j)' \subseteq Workers
      BY DEF Through
    <3> QED
      BY <3>1, ConstFacts, FS_Subset, FS_CardinalityType
  <2> QED
    BY <1>1, <2>2, <2>3, <2>4, ConstFacts
<1>4. CASE ~ (open /\ Hits(k, j))
  <2>1. Through(j)' \subseteq Through(j)
    BY <1>1, <1>4 DEF Through
  <2> QED
    BY <1>1, <2>1, OverrunShrinks
<1> QED
  BY <1>3, <1>4

LEMMA OverrunKeeps ==
  ASSUME TimeInv, WorkerInv, WindowExact, OverrunInv, [Next]_vars
  PROVE  OverrunInv'
<1>0. TimeInv'
  BY TimeKeeps
<1> SUFFICES ASSUME NEW j \in Keys
             PROVE  Cardinality(Counted(j))' + Cardinality(Through(j))'
                      < limit(j) + Cardinality(Workers)
  BY DEF OverrunInv
<1>1. CASE Tick
  <2>1. \A f \in 1..failed : at[f] \in Nat /\ now \in Nat
    BY ConstFacts DEF TimeInv, Failures
  <2>2. Counted(j)' \subseteq Counted(j)
    BY <1>1, <2>1, ConstFacts DEF Tick, Counted, historyVars
  <2>3. Through(j)' = Through(j)
    BY <1>1 DEF Tick, Through
  <2> QED
    BY <1>0, <2>2, <2>3, OverrunShrinks
<1>2. ASSUME NEW w \in Workers, RetryAfter(w) \/ Answer(w)
      PROVE  Counted(j)' = Counted(j) /\ Through(j)' \subseteq Through(j)
  <2>1. Counted(j)' = Counted(j)
    BY <1>2 DEF RetryAfter, Answer, Counted, historyVars
  <2>2. worker'[w].pc # "verifying" /\ \A v \in Workers \ {w} : worker'[v] = worker[v]
    <3>1. CASE Answer(w)
      BY <3>1 DEF Answer, WorkerInv, Idle
    <3>2. CASE RetryAfter(w)
      <4>1. worker[w] \in Working
        BY <3>2, WorkerFacts DEF RetryAfter
      <4>2. worker'[w].pc = "told"
        BY <3>2, <4>1 DEF RetryAfter, WorkerInv, Working
      <4> QED
        BY <3>2, <4>2 DEF RetryAfter, WorkerInv
    <3> QED
      BY <1>2, <3>1, <3>2
  <2> QED
    BY <2>1, <2>2, Leaves
<1>3. ASSUME NEW w \in Workers, Success(w)
      PROVE  Counted(j)' \subseteq Counted(j) /\ Through(j)' \subseteq Through(j)
  <2>1. Counted(j)' \subseteq Counted(j)
    <3>1. Uncleared(j)' \subseteq Uncleared(j)
      BY <1>3, ExactSuccess
    <3> QED
      BY <1>3, <3>1 DEF Success, Counted, Uncleared
  <2>2. worker'[w].pc # "verifying" /\ \A v \in Workers \ {w} : worker'[v] = worker[v]
    BY <1>3 DEF Success, WorkerInv, Idle
  <2> QED
    BY <2>1, <2>2, Leaves
<1>4. ASSUME NEW w \in Workers, Failed(w), ~ Hits(worker[w].key, j)
      PROVE  Counted(j)' \subseteq Counted(j) /\ Through(j)' \subseteq Through(j)
  <2>1. PICK k \in UserKeys : k = worker[w].key
    BY <1>4, WorkerFacts DEF Failed
  <2>2. Counted(j)' \subseteq Counted(j)
    BY <1>4, <2>1, CountedFailed
  <2>3. worker'[w].pc # "verifying" /\ \A v \in Workers \ {w} : worker'[v] = worker[v]
    BY <1>4 DEF Failed, WorkerInv, Idle
  <2> QED
    BY <2>2, <2>3, Leaves
<1>5. CASE UNCHANGED vars
  <2>1. Counted(j)' = Counted(j) /\ Through(j)' = Through(j)
    BY <1>5 DEF vars, historyVars, Counted, Through
  <2> QED
    BY <1>0, <2>1, OverrunShrinks
<1> QED
  BY <1>0, <1>1, <1>2, <1>3, <1>4, <1>5, OverrunShrinks, OverrunFailed, OverrunAllow DEF Next

-----------------------------------------------------------------------------
(* Retry-After.                                                            *)

\* Whoever waits that long is waited for long enough: the failure that has as
\* many newer ones as the limit allows will have aged out, and so will all the
\* older ones.
LEMMA WaitEnough ==
  ASSUME TimeInv, WindowExact, NEW j \in Keys, NEW u \in Nat, u >= now + wait(j)
  PROVE  Cardinality(Later(j, u)) < limit(j)
<1> DEFINE S == Trim(entries[j])
<1>0. /\ now \in Nat /\ window \in Nat /\ window > 0 /\ failed \in Nat
      /\ limit(j) \in Nat /\ limit(j) > 0 /\ wait(j) \in Nat
      /\ \A f \in 1..failed : at[f] \in Nat
  <2> HIDE DEF S
  <2>1. window \in Nat /\ window > 0 /\ limit(j) \in Nat /\ limit(j) > 0
    BY ConstFacts
  <2>2. now \in Nat /\ failed \in Nat
    BY <2>1, ConstFacts DEF TimeInv
  <2>3. wait(j) \in Nat
    BY WaitFacts
  <2>4. \A f \in 1..failed : at[f] \in Nat
    BY ConstFacts DEF TimeInv, Failures
  <2> QED
    BY <2>1, <2>2, <2>3, <2>4
<1>1. S \subseteq 1..failed /\ S = {f \in Uncleared(j) : at[f] > now - window}
  BY TrimFacts DEF WindowExact, Counted, Uncleared
<1>2. IsFiniteSet(S) /\ Cardinality(S) \in Nat
  BY <1>1, FailuresFinite
<1>3. Later(j, u) \subseteq S
  BY <1>0, <1>1 DEF Later, Uncleared
<1>4. CASE Cardinality(S) < limit(j)
  <2>1. Cardinality(Later(j, u)) \in Nat /\ Cardinality(Later(j, u)) <= Cardinality(S)
    BY <1>2, <1>3, FS_Subset, FS_CardinalityType
  <2> QED
    BY <1>0, <1>2, <1>4, <2>1
<1>5. CASE Cardinality(S) >= limit(j)
  <2> DEFINE Above(f) == {g \in S : g >= f}
  <2>1. PICK f \in S : Cardinality(Above(f)) = limit(j) /\ wait(j) = window - (now - at[f])
    BY <1>5, WaitFacts
  <2>2. f \in 1..failed /\ u - window >= at[f]
    BY <1>0, <1>1, <2>1
  <2>3. f \in Above(f) /\ IsFiniteSet(Above(f))
    <3>1. f >= f
      BY <2>2
    <3> QED
      BY <1>2, <2>1, <3>1, FS_Subset
  <2>4. Later(j, u) \subseteq Above(f) \ {f}
    <3>1. ASSUME NEW g \in Later(j, u) PROVE g \in S /\ g >= f /\ g # f
      <4>1. g \in S /\ g \in 1..failed /\ at[g] > u - window
        BY <1>1, <1>3 DEF Later
      <4>2. at[g] > at[f]
        BY <1>0, <2>2, <4>1
      <4>3. ~ (g <= f)
        <5>1. g <= f => at[g] <= at[f]
          BY <2>2, <4>1 DEF TimeInv
        <5> QED
          BY <1>0, <2>2, <4>1, <4>2, <5>1
      <4> QED
        BY <2>2, <4>1, <4>3
    <3> QED
      BY <3>1
  <2>5. IsFiniteSet(Above(f) \ {f}) /\ Cardinality(Above(f) \ {f}) = limit(j) - 1
    BY <2>1, <2>3, FS_RemoveElement
  <2>6. Cardinality(Later(j, u)) \in Nat /\ Cardinality(Later(j, u)) <= limit(j) - 1
    BY <2>4, <2>5, FS_Subset, FS_CardinalityType
  <2> QED
    BY <1>0, <2>6
<1> QED
  BY <1>0, <1>2, <1>4, <1>5

\* A step that records no failure takes none of the promises back.
LEMMA RetryStays ==
  ASSUME TimeInv, WorkerInv, RetryInv, UNCHANGED <<failed, at>>,
         \A j \in Keys : Uncleared(j)' \subseteq Uncleared(j),
         NEW v \in Workers, worker'[v] = worker[v], worker[v].pc = "told",
         worker[v].seen = failed, NEW j \in {worker[v].key, ipKey(worker[v].key[1])},
         NEW t \in Nat, Waited(worker[v], t)
  PROVE  Cardinality(Later(j, t)') < limit(j)
<1>1. worker[v].key \in UserKeys
  BY WorkerFacts, ConstFacts DEF Working
<1>2. j \in Keys
  BY <1>1, KeyFacts
<1>3. Later(j, t)' \subseteq Later(j, t)
  BY <1>2 DEF Later
<1>4. IsFiniteSet(Later(j, t)) /\ Cardinality(Later(j, t)) \in Nat
  <2>1. Later(j, t) \subseteq 1..failed
    BY DEF Later, Uncleared
  <2> QED
    BY <2>1, FailuresFinite
<1>5. Cardinality(Later(j, t)) < limit(j)
  BY DEF RetryInv
<1>6. Cardinality(Later(j, t)') \in Nat
      /\ Cardinality(Later(j, t)') <= Cardinality(Later(j, t))
  BY <1>3, <1>4, FS_Subset, FS_CardinalityType
<1> QED
  BY <1>2, <1>4, <1>5, <1>6, ConstFacts

\* What a refused login is told.
LEMMA RetryTold ==
  ASSUME TimeInv, WorkerInv, WindowExact, NEW w \in Workers, RetryAfter(w),
         NEW j \in {worker'[w].key, ipKey(worker'[w].key[1])},
         NEW t \in Nat, Waited(worker'[w], t)
  PROVE  Cardinality(Later(j, t)') < limit(j)
<1>1. worker[w] \in Working /\ worker[w].key \in UserKeys
  BY WorkerFacts DEF RetryAfter
<1> DEFINE k == worker[w].key
           ik == ipKey(k[1])
           longest == IF wait(k) > wait(ik) THEN wait(k) ELSE wait(ik)
           u == now + Round(longest)
<1>2. worker'[w].key = k /\ worker'[w].until = u /\ UNCHANGED <<failed, at, who, forgiven>>
  BY <1>1 DEF RetryAfter, WorkerInv, Working, historyVars
<1>3. k \in Keys /\ ik \in Keys
  BY <1>1, KeyFacts
<1>4. now \in Nat /\ wait(k) \in Nat /\ wait(ik) \in Nat
  BY <1>3, WaitFacts, ConstFacts DEF TimeInv
<1>5. j \in {k, ik} /\ j \in Keys
  BY <1>2, <1>3
<1>6. longest \in Nat /\ longest >= wait(j)
  BY <1>4, <1>5
<1>7. 2 * t >= 2 * u + Second
  BY <1>2 DEF Waited
<1>8. PICK d \in Nat : d = longest
  BY <1>6
<1>9. Round(d) \in Nat /\ 2 * Round(d) + Second >= 2 * d /\ u = now + Round(d)
  BY <1>8, RoundFacts
<1>10. PICK r \in Nat : r = Round(d)
  BY <1>9
<1> HIDE DEF u, longest, k, ik
<1>11. PICK n \in Nat : n = wait(j)
  BY <1>4, <1>5
<1>12. t >= now + n
  BY <1>4, <1>6, <1>7, <1>8, <1>9, <1>10, <1>11, ConstFacts
<1>13. Cardinality(Later(j, t)) < limit(j)
  BY <1>5, <1>11, <1>12, WaitEnough
<1>14. Later(j, t)' = Later(j, t)
  BY <1>2 DEF Later, Uncleared
<1> QED
  BY <1>13, <1>14

LEMMA RetryKeeps ==
  ASSUME TimeInv, WorkerInv, WindowExact, RetryInv, [Next]_vars
  PROVE  RetryInv'
<1> SUFFICES ASSUME NEW v \in Workers, worker'[v].pc = "told", worker'[v].seen = failed',
                    NEW j \in {worker'[v].key, ipKey(worker'[v].key[1])},
                    NEW t \in Nat, Waited(worker'[v], t)
             PROVE  Cardinality(Later(j, t)') < limit(j)
  BY DEF RetryInv, Waited
<1>1. ASSUME UNCHANGED <<failed, at, who, forgiven>>, worker'[v] = worker[v]
      PROVE  Cardinality(Later(j, t)') < limit(j)
  <2>1. \A i \in Keys : Uncleared(i)' \subseteq Uncleared(i)
    BY <1>1 DEF Uncleared
  <2> QED
    BY <1>1, <2>1, RetryStays
<1>2. CASE Tick \/ UNCHANGED vars
  BY <1>1, <1>2 DEF Tick, vars, historyVars
<1>3. ASSUME NEW w \in Workers, NEW ip \in IPs, NEW n \in Names, Allow(w, ip, n)
      PROVE  Cardinality(Later(j, t)') < limit(j)
  <2>1. v # w /\ worker'[v] = worker[v]
    BY <1>3 DEF Allow, WorkerInv
  <2> QED
    BY <1>1, <1>3, <2>1 DEF Allow, historyVars
<1>4. ASSUME NEW w \in Workers, RetryAfter(w)
      PROVE  Cardinality(Later(j, t)') < limit(j)
  <2>1. CASE v = w
    BY <1>4, <2>1, RetryTold
  <2>2. CASE v # w
    <3>1. worker'[v] = worker[v]
      BY <1>4, <2>2 DEF RetryAfter, WorkerInv
    <3> QED
      BY <1>1, <1>4, <3>1 DEF RetryAfter, historyVars
  <2> QED
    BY <2>1, <2>2
<1>5. ASSUME NEW w \in Workers, Answer(w) \/ Failed(w) \/ Success(w)
      PROVE  v # w /\ worker'[v] = worker[v]
  BY <1>5 DEF Answer, Failed, Success, WorkerInv, Idle
<1>6. ASSUME NEW w \in Workers, Answer(w)
      PROVE  Cardinality(Later(j, t)') < limit(j)
  BY <1>1, <1>5, <1>6 DEF Answer, historyVars
<1>7. ASSUME NEW w \in Workers, Success(w)
      PROVE  Cardinality(Later(j, t)') < limit(j)
  <2>1. \A i \in Keys : Uncleared(i)' \subseteq Uncleared(i)
    BY <1>7, ExactSuccess
  <2>2. UNCHANGED <<failed, at>> /\ worker'[v] = worker[v]
    BY <1>5, <1>7 DEF Success
  <2> QED
    BY <2>1, <2>2, RetryStays
<1>8. ASSUME NEW w \in Workers, Failed(w) PROVE FALSE
  <2>1. worker'[v] = worker[v] /\ failed' = failed + 1
    BY <1>5, <1>8 DEF Failed
  <2>2. worker[v].seen <= failed /\ worker[v].seen \in Nat /\ failed \in Nat
    BY <2>1, WorkerFacts, ConstFacts DEF WorkerInv, TimeInv, Working
  <2> QED
    BY <2>1, <2>2
<1> QED
  BY <1>2, <1>3, <1>4, <1>6, <1>7, <1>8 DEF Next

-----------------------------------------------------------------------------
(* Theorems.                                                               *)

IInv == TimeInv /\ WorkerInv /\ WindowExact /\ SweepInv /\ OverrunInv /\ RetryInv

LEMMA InitEstablishes == Init => IInv
<1> SUFFICES ASSUME Init PROVE IInv
  OBVIOUS
<1>0. 0 \in 0..MaxFailures /\ 1..0 = {} /\ failed = 0 /\ worker = [w \in Workers |-> Idle]
  BY ConstFacts DEF Init
<1>1. TimeInv
  <2>1. now \in window..MaxTime /\ at \in [Failures -> 0..now] /\ failed \in 0..MaxFailures
    BY <1>0, ConstFacts DEF Init
  <2>2. entries \in [Keys -> SUBSET (1..failed)] /\ forgiven \in [UserKeys -> 0..failed]
    BY <1>0 DEF Init
  <2>3. who \in [Failures -> UserKeys \cup {<<>>}]
    BY DEF Init
  <2> QED
    BY <1>0, <2>1, <2>2, <2>3 DEF TimeInv
<1>2. WorkerInv
  BY <1>0 DEF WorkerInv, Idle
<1>3. \A k \in Keys : Trim(entries[k]) = {} /\ Counted(k) = {} /\ Through(k) = {}
  BY <1>0 DEF Init, Trim, Counted, Through, Idle
<1>4. WindowExact
  BY <1>3 DEF WindowExact
<1>5. SweepInv
  BY <1>0, ConstFacts DEF Init, SweepInv
<1>6. OverrunInv
  <2>1. Cardinality({}) = 0
    BY FS_EmptySet
  <2> QED
    BY <1>3, <2>1, ConstFacts DEF OverrunInv
<1>7. RetryInv
  BY <1>0 DEF RetryInv, Idle
<1> QED
  BY <1>1, <1>2, <1>4, <1>5, <1>6, <1>7 DEF IInv

\* Every step of the throttle keeps the invariant.
THEOREM ThrottleInvariance == Spec => []IInv
<1>1. IInv /\ [Next]_vars => IInv'
  BY TimeKeeps, WorkerKeeps, ExactKeeps, SweepKeeps, OverrunKeeps, RetryKeeps DEF IInv
<1> QED
  BY <1>1, InitEstablishes, PTL DEF Spec

\* The lists, times and requests of throttle.go keep their types; nobody is
\* told to wait for longer than one window.
THEOREM ThrottleTypeCorrect == Spec => []TypeOK
<1>1. IInv => TypeOK
  <2> SUFFICES ASSUME IInv PROVE TypeOK
    OBVIOUS
  <2>1. TimeInv /\ WorkerInv /\ SweepInv
    BY DEF IInv
  <2>2. 1..failed \subseteq Failures /\ 0..failed \subseteq 0..MaxFailures /\ 0..now \subseteq Nat
    BY <2>1, ConstFacts DEF TimeInv, Failures
  <2>3. entries \in [Keys -> SUBSET Failures]
    BY <2>1, <2>2 DEF TimeInv
  <2>4. at \in [Failures -> Nat] /\ forgiven \in [UserKeys -> 0..MaxFailures]
    BY <2>1, <2>2 DEF TimeInv
  <2>5. lastSweep \in Nat
    BY <2>1, <2>2 DEF SweepInv
  <2> QED
    BY <2>1, <2>3, <2>4, <2>5 DEF TypeOK, TimeInv, WorkerInv
<1> QED
  BY <1>1, ThrottleInvariance, PTL

\* trim, sweep and Success never throw away a failure that counts, and never
\* keep one that does not (throttle.go:13-17, 93-95).
THEOREM ThrottleWindowExact == Spec => []WindowExact
<1>1. IInv => WindowExact
  BY DEF IInv
<1> QED
  BY <1>1, ThrottleInvariance, PTL

\* Allow and Failed are two calls: what counts against a budget exceeds it by
\* less than the number of requests served at the same time (throttle.go:66-91).
THEOREM ThrottleOverrunBounded == Spec => []OverrunBounded
<1>1. IInv => OverrunBounded
  <2> SUFFICES ASSUME IInv, NEW k \in Keys
               PROVE  Cardinality(Counted(k)) < limit(k) + Cardinality(Workers)
    BY DEF OverrunBounded
  <2>1. Cardinality(Counted(k)) \in Nat
    BY CountedSub, FailuresFinite DEF IInv
  <2>2. Cardinality(Through(k)) \in Nat
    <3>1. Through(k) \subseteq Workers
      BY DEF Through
    <3> QED
      BY <3>1, ConstFacts, FS_Subset, FS_CardinalityType
  <2>3. Cardinality(Counted(k)) + Cardinality(Through(k)) < limit(k) + Cardinality(Workers)
    BY DEF IInv, OverrunInv
  <2> QED
    BY <2>1, <2>2, <2>3, ConstFacts
<1> QED
  BY <1>1, ThrottleInvariance, PTL

\* A login that waits half a second longer than it was told, with no failure in
\* between, is let in: rounding takes off no more than that (throttle.go:105-128,
\* portal/login.go:40-41).
THEOREM ThrottleRetryKept == Spec => []RetryKept
<1>1. IInv => RetryKept
  <2> SUFFICES ASSUME IInv, NEW w \in Workers, worker[w].pc = "told",
                      worker[w].seen = failed, Waited(worker[w], now)
               PROVE  Budget(worker[w].key) /\ Budget(ipKey(worker[w].key[1]))
    BY DEF RetryKept, Waited
  <2>0. TimeInv /\ WorkerInv /\ WindowExact /\ RetryInv
    BY DEF IInv
  <2>1. worker[w].key \in UserKeys /\ now \in Nat /\ window \in Nat
    BY <2>0, WorkerFacts, ConstFacts DEF Working, TimeInv
  <2>2. ASSUME NEW j \in {worker[w].key, ipKey(worker[w].key[1])} PROVE Budget(j)
    <3>1. j \in Keys
      BY <2>1, KeyFacts
    <3>2. Trim(entries[j]) \subseteq Later(j, now)
      <4>1. Trim(entries[j]) = Counted(j)
        BY <2>0, <3>1 DEF WindowExact
      <4>2. ASSUME NEW f \in Counted(j) PROVE f \in Later(j, now)
        <5>1. f \in 1..failed /\ at[f] > now - window
          BY DEF Counted
        <5>2. f \in Uncleared(j)
          BY <5>1 DEF Counted, Uncleared
        <5> QED
          BY <5>1, <5>2 DEF Later
      <4> QED
        BY <4>1, <4>2
    <3>3. IsFiniteSet(Later(j, now)) /\ Cardinality(Later(j, now)) \in Nat
      <4>1. Later(j, now) \subseteq 1..failed
        BY DEF Later, Uncleared
      <4> QED
        BY <2>0, <4>1, FailuresFinite
    <3>4. Cardinality(Trim(entries[j])) \in Nat
          /\ Cardinality(Trim(entries[j])) <= Cardinality(Later(j, now))
      BY <3>2, <3>3, FS_Subset, FS_CardinalityType
    <3>5. Cardinality(Later(j, now)) < limit(j)
      BY <2>0, <2>1 DEF RetryInv
    <3> QED
      BY <3>1, <3>3, <3>4, <3>5, ConstFacts DEF Budget
  <2> QED
    BY <2>2
<1> QED
  BY <1>1, ThrottleInvariance, PTL

\* sweep runs once per window: a key that is kept has a failure less than two
\* windows older than the newest one (throttle.go:130-140).
THEOREM ThrottleNoStaleKeys == Spec => []NoStaleKeys
<1>1. IInv => NoStaleKeys
  <2> SUFFICES ASSUME IInv, NEW k \in Keys, entries[k] # {}
               PROVE  \E f \in entries[k] : at[f] + 2 * window > at[failed]
    BY DEF NoStaleKeys
  <2>1. PICK f \in entries[k] : at[f] + window > lastSweep
    BY DEF IInv, SweepInv
  <2>2. f \in 1..failed /\ failed \in Nat /\ lastSweep \in Nat /\ window \in Nat
        /\ at[f] \in Nat /\ at[failed] \in Nat
    <3>1. f \in 1..failed /\ failed \in 0..MaxFailures /\ lastSweep \in 0..now /\ now \in Nat
      BY <2>1, ConstFacts DEF IInv, TimeInv, SweepInv
    <3>2. f \in Failures /\ failed \in Failures
      BY <3>1, ConstFacts DEF Failures
    <3>3. at \in [Failures -> 0..now]
      BY DEF IInv, TimeInv
    <3> QED
      BY <3>1, <3>2, <3>3, ConstFacts
  <2>3. at[failed] < lastSweep + window
    BY <2>2 DEF IInv, SweepInv
  <2>4. at[f] + 2 * window > at[failed]
    BY <2>1, <2>2, <2>3
  <2> QED
    BY <2>1, <2>4
<1> QED
  BY <1>1, ThrottleInvariance, PTL
=============================================================================

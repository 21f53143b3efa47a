---------------------------- MODULE LoginThrottle ----------------------------
(***************************************************************************)
(* The brute-force throttle shared by the two login forms                  *)
(* (internal/auth/throttle.go), with the logins that use it.               *)
(*                                                                         *)
(* A login asks Allow, checks the password (bcrypt takes its time) and     *)
(* then reports Failed or Success; a refused one asks RetryAfter.  Each    *)
(* call holds the throttle's mutex, and any number of logins are between   *)
(* two calls.                                                              *)
(*                                                                         *)
(* Failures are numbered in the order the mutex records them, so a list of *)
(* timestamps is a set of numbers, its order is that of the numbers, and   *)
(* at[f] is the time of failure f.  A key with an empty list is no key.    *)
(***************************************************************************)
EXTENDS FiniteSets, Integers

CONSTANTS
  IPs,          \* client addresses
  Names,        \* usernames, known or not
  AnyName,      \* stands for the username in the key of an IP's own budget
  Workers,      \* requests served at the same time
  max,          \* failures per IP and username
  ipMax,        \* failures per IP, whatever the username
  window,       \* length of the window, in clock ticks
  Second,       \* clock ticks in a second
  MaxTime,      \* bound: clock ticks
  MaxFailures   \* bound: failures recorded

Keys == IPs \X (Names \cup {AnyName})
Failures == 1..MaxFailures

\* A key of an IP alone is told from one with a name.
ASSUME ThrottleAssumption ==
  /\ AnyName \notin Names
  /\ IsFiniteSet(Workers)
  /\ max \in Nat \ {0} /\ ipMax \in Nat \ {0} /\ window \in Nat \ {0}
  /\ Second \in Nat \ {0}
  /\ MaxTime \in Nat /\ MaxTime >= window /\ MaxFailures \in Nat

userKey(ip, n) == <<ip, n>>
ipKey(ip) == <<ip, AnyName>>
limit(k) == IF k[2] = AnyName THEN ipMax ELSE max

VARIABLES
  now,        \* the clock
  entries,    \* LoginThrottle.entries: key -> its failures
  lastSweep,  \* LoginThrottle.lastSweep
  worker,     \* what each request is doing
  failed,     \* history: number of failures so far
  at,         \* history: time of each failure
  who,        \* history: IP and username of each failure
  forgiven    \* history: the value of failed at the last Success of a user key

historyVars == <<failed, at, who, forgiven>>
vars == <<now, entries, lastSweep, worker, historyVars>>

UserKeys == IPs \X Names
\* until: the time a refused login was told to wait for, in whole seconds from when
\* it asked; seen: history, the value of failed at that moment.
Idle == [pc |-> "idle", key |-> <<>>, until |-> 0, seen |-> 0]
\* Nobody is told to wait for longer than one window, give or take half a second.
Untils == {t \in Nat : 2 * t <= 2 * (MaxTime + window) + Second}
Working == [pc: {"verifying", "refused", "told"}, key: UserKeys,
            until: Untils, seen: 0..MaxFailures]

TypeOK ==
  /\ now \in window..MaxTime
  /\ entries \in [Keys -> SUBSET Failures]
  /\ lastSweep \in Nat
  /\ worker \in [Workers -> {Idle} \cup Working]
  /\ failed \in 0..MaxFailures
  /\ at \in [Failures -> Nat]
  /\ who \in [Failures -> UserKeys \cup {<<>>}]
  /\ forgiven \in [UserKeys -> 0..MaxFailures]

\* The clock starts one window after the zero value of lastSweep.
Init ==
  /\ now = window
  /\ entries = [k \in Keys |-> {}]
  /\ lastSweep = 0
  /\ worker = [w \in Workers |-> Idle]
  /\ failed = 0
  /\ at = [f \in Failures |-> 0]
  /\ who = [f \in Failures |-> <<>>]
  /\ forgiven = [k \in UserKeys |-> 0]

-----------------------------------------------------------------------------
(* What the throttle computes.                                             *)

\* A plausible bug: the wrong side of the window is kept.
TrimBackwards(S) == {f \in S : at[f] <= now - window}

\* trim, for one list: what is still inside the window.
Trim(S) == {f \in S : at[f] > now - window}

Budget(k) == Cardinality(Trim(entries[k])) < limit(k)

\* Failure number n counted from the newest one.
FromNewest(S, n) == CHOOSE f \in S : Cardinality({g \in S : g >= f}) = n

\* Plausible bugs: the oldest failure decides, however many there are; the
\* failure's age is added.
WaitForOldest(k) ==
  LET S == Trim(entries[k]) IN
  IF Cardinality(S) < limit(k) THEN 0
  ELSE window - (now - at[FromNewest(S, Cardinality(S))])
WaitTooLong(k) ==
  LET S == Trim(entries[k]) IN
  IF Cardinality(S) < limit(k) THEN 0
  ELSE window + (now - at[FromNewest(S, limit(k))])

\* How long until enough of the oldest failures of a key have aged out.
wait(k) ==
  LET S == Trim(entries[k])
      left == window - (now - at[FromNewest(S, limit(k))])
  IN  IF Cardinality(S) < limit(k) \/ left < 0 THEN 0 ELSE left

\* Duration.Round(time.Second), in the handlers' Retry-After: to the nearest whole
\* second, a half upwards.
Round(d) == Second * ((2 * d + Second) \div (2 * Second))

\* A plausible bug: the sweep is noted down but not made.
SweepNothing == {}

\* sweep, at the end of Failed: the keys it trims, every one once per window.
SweepDue == now - lastSweep >= window
sweep == IF SweepDue THEN Keys ELSE {}

\* entries with the lists of the keys ks trimmed.
Trimmed(ks) == [k \in Keys |-> IF k \in ks THEN Trim(entries[k]) ELSE entries[k]]

-----------------------------------------------------------------------------
Tick ==
  /\ now < MaxTime
  /\ now' = now + 1
  /\ UNCHANGED <<entries, lastSweep, worker, historyVars>>

\* Allow trims both keys before it counts.
Allow(w, ip, n) ==
  /\ worker[w].pc = "idle"
  /\ entries' = Trimmed({userKey(ip, n), ipKey(ip)})
  /\ worker' = [worker EXCEPT ![w] =
       [pc |-> IF Budget(userKey(ip, n)) /\ Budget(ipKey(ip))
                 THEN "verifying" ELSE "refused",
        key |-> userKey(ip, n), until |-> 0, seen |-> 0]]
  /\ UNCHANGED <<now, lastSweep, historyVars>>

\* A refused login asks how long to wait, and announces it in seconds.
RetryAfter(w) ==
  LET k == worker[w].key
      ik == ipKey(k[1])
  IN
  /\ worker[w].pc = "refused"
  /\ entries' = Trimmed({k, ik})
  /\ worker' = [worker EXCEPT ![w].pc = "told", ![w].seen = failed,
       ![w].until = now + Round(IF wait(k) > wait(ik) THEN wait(k) ELSE wait(ik))]
  /\ UNCHANGED <<now, lastSweep, historyVars>>

Answer(w) ==
  /\ worker[w].pc = "told"
  /\ worker' = [worker EXCEPT ![w] = Idle]
  /\ UNCHANGED <<now, entries, lastSweep, historyVars>>

\* Verify failed, for whatever reason.
Failed(w) ==
  LET k == worker[w].key
      f == failed + 1
  IN
  /\ worker[w].pc = "verifying"
  /\ failed < MaxFailures
  /\ failed' = f
  /\ at' = [at EXCEPT ![f] = now]
  /\ who' = [who EXCEPT ![f] = k]
  /\ entries' = [j \in Keys |-> IF j \in {k, ipKey(k[1])}
                                  THEN Trim(entries[j]) \cup {f}
                                  ELSE Trimmed(sweep)[j]]
  /\ lastSweep' = IF SweepDue THEN now ELSE lastSweep
  /\ worker' = [worker EXCEPT ![w] = Idle]
  /\ UNCHANGED <<now, forgiven>>

\* A plausible bug: a good login clears the whole IP.
SuccessClearsIP(w) ==
  LET k == worker[w].key IN
  /\ worker[w].pc = "verifying"
  /\ entries' = [entries EXCEPT ![k] = {}, ![ipKey(k[1])] = {}]
  /\ forgiven' = [forgiven EXCEPT ![k] = failed]
  /\ worker' = [worker EXCEPT ![w] = Idle]
  /\ UNCHANGED <<now, lastSweep, failed, at, who>>

\* Only the user's own key is cleared.
Success(w) ==
  LET k == worker[w].key IN
  /\ worker[w].pc = "verifying"
  /\ entries' = [entries EXCEPT ![k] = {}]
  /\ forgiven' = [forgiven EXCEPT ![k] = failed]
  /\ worker' = [worker EXCEPT ![w] = Idle]
  /\ UNCHANGED <<now, lastSweep, failed, at, who>>

Next ==
  \/ Tick
  \/ \E w \in Workers :
       \/ \E ip \in IPs, n \in Names : Allow(w, ip, n)
       \/ RetryAfter(w)
       \/ Answer(w)
       \/ Failed(w)
       \/ Success(w)

Spec == Init /\ [][Next]_vars

-----------------------------------------------------------------------------
(* Properties.                                                             *)

\* The failures that count against a key: those of its IP and username since
\* the last good login, or all those of its IP, inside the window.
Counted(k) ==
  {f \in 1..failed :
     /\ at[f] > now - window
     /\ IF k[2] = AnyName THEN who[f][1] = k[1]
                          ELSE who[f] = k /\ f > forgiven[k]}

\* However logins interleave, and whatever trim, sweep and Success threw away,
\* what is left inside the window is what counts: nobody is refused for
\* another user's failures, and no failure is forgotten (throttle.go:13-17,
\* 93-95).
WindowExact == \A k \in Keys : Trim(entries[k]) = Counted(k)

\* A budget can be overrun only by requests that were let through before the
\* last failure was recorded: by less than the number of requests served at
\* the same time (throttle.go:66-91).
OverrunBounded ==
  \A k \in Keys : Cardinality(Counted(k)) < limit(k) + Cardinality(Workers)

\* A refused login that waits half a second longer than it was told, with no
\* failure recorded meanwhile, is let in, even when a budget was overrun.  The
\* half second is what Round may take off (throttle.go:105-128,
\* portal/login.go:40-41).
RetryKept ==
  \A w \in Workers :
    worker[w].pc = "told" /\ worker[w].seen = failed
      /\ 2 * now >= 2 * worker[w].until + Second
      => Budget(worker[w].key) /\ Budget(ipKey(worker[w].key[1]))

\* The table does not grow with keys that nobody uses any more: a key that is
\* kept has a failure less than two windows older than the newest failure
\* (throttle.go:130-140).
NoStaleKeys ==
  \A k \in Keys :
    entries[k] # {} => \E f \in entries[k] : at[f] + 2 * window > at[failed]
=============================================================================

-------------------------- MODULE RateLimitProofs --------------------------
(***************************************************************************)
(* Type correctness of the limiter, the caps on its windows, what a sweep  *)
(* of the janitor leaves and what a refusal means, for any addresses,      *)
(* callers, caps, windows and period of the janitor.                       *)
(***************************************************************************)
EXTENDS RateLimit, TLAPS, WellFoundedInduction

-----------------------------------------------------------------------------
(* Facts about the operators.                                              *)

(* Every set of naturals with an element has a least one; this is what     *)
(* makes the loop of pruneOlderThan stop.                                  *)
LEMMA LeastNatural ==
    ASSUME NEW T, T \subseteq Nat, T # {}
    PROVE  \E x \in T : \A y \in T : x <= y
<1> DEFINE R == OpToRel(<, Nat)
<1>1. IsWellFoundedOn(R, Nat)
  BY NatLessThanWellFounded
<1>2. \A i, j \in Nat : <<i, j>> \in R <=> i < j
  BY DEF OpToRel
<1> HIDE DEF R
<1>3. PICK x \in T : \A y \in T : ~(<<y, x>> \in R)
  BY <1>1, WFMin
<1>4. \A y \in T : ~(y < x)
  BY <1>2, <1>3
<1>5. ASSUME NEW y \in T PROVE x <= y
  <2>1. ~(y < x) /\ x \in Nat /\ y \in Nat
    BY <1>4
  <2> QED BY <2>1
<1> QED BY <1>5

(* Stale is the number of timestamps that the loop of pruneOlderThan       *)
(* skips.                                                                  *)
LEMMA StaleCounts ==
    ASSUME NEW ts \in Seq(Nat), NEW cutoff \in Int
    PROVE  /\ Stale(ts, cutoff) \in 0..Len(ts)
           /\ \A k \in 1..Stale(ts, cutoff) : ts[k] < cutoff
           /\ Stale(ts, cutoff) < Len(ts) => ts[Stale(ts, cutoff) + 1] >= cutoff
<1> DEFINE T == {n \in 0..Len(ts) : n < Len(ts) => ts[n + 1] >= cutoff}
<1>1. Len(ts) \in Nat /\ \A k \in 1..Len(ts) : ts[k] \in Nat
  OBVIOUS
<1>2. T \subseteq Nat /\ T # {}
  <2>1. Len(ts) \in T
    BY <1>1
  <2> QED BY <1>1, <2>1
<1>3. PICK x \in T : \A y \in T : x <= y
  BY <1>2, LeastNatural
<1>4. ASSUME NEW k \in 1..x PROVE ts[k] < cutoff
  <2>1. k - 1 \in 0..Len(ts) /\ k - 1 < Len(ts) /\ k \in 1..Len(ts)
    BY <1>1
  <2>2. ~(x <= k - 1)
    BY <1>1
  <2>3. k - 1 \notin T
    BY <1>3, <2>2
  <2>4. ~(ts[k] >= cutoff)
    BY <2>1, <2>3
  <2> QED BY <1>1, <2>1, <2>4
<1>5. \E n \in 0..Len(ts) : /\ \A k \in 1..n : ts[k] < cutoff
                            /\ n < Len(ts) => ts[n + 1] >= cutoff
  BY <1>3, <1>4
<1> QED BY <1>5 DEF Stale

(* What is left when the first n entries of a sequence go.                 *)
LEMMA SkipFront ==
    ASSUME NEW ts \in Seq(Nat), NEW n \in 0..Len(ts)
    PROVE  LET p == SubSeq(ts, n + 1, Len(ts)) IN
           /\ p \in Seq(Nat)
           /\ Len(p) = Len(ts) - n
           /\ \A j \in 1..Len(p) : p[j] = ts[n + j]
<1> DEFINE p == SubSeq(ts, n + 1, Len(ts))
<1>1. Len(ts) \in Nat /\ n \in Nat
  OBVIOUS
<1>2. Len(p) = Len(ts) - n
  BY <1>1
<1>3. \A j \in 1..Len(p) : p[j] = ts[n + j]
  BY <1>1, <1>2
<1>4. p \in Seq(Nat)
  BY <1>1
<1> QED BY <1>2, <1>3, <1>4

(* The window ts has the last entries of the log l, and what it lacks is   *)
(* older than w at time t.                                                 *)
Window(ts, l, w, t) ==
    /\ Len(ts) <= Len(l)
    /\ \A j \in 1..Len(ts) : ts[j] = l[Len(l) - Len(ts) + j]
    /\ \A j \in 1..(Len(l) - Len(ts)) : l[j] + w < t

(* pruneOlderThan gives a sequence again, and keeps a window a window.     *)
LEMMA PruneKeepsWindow ==
    ASSUME NEW ts \in Seq(Nat), NEW l \in Seq(Nat), NEW w \in Nat, NEW t \in Nat,
           Window(ts, l, w, t)
    PROVE  Window(pruneOlderThan(ts, t - w), l, w, t)
<1> DEFINE n == Stale(ts, t - w)
           p == pruneOlderThan(ts, t - w)
<1>1. n \in 0..Len(ts) /\ \A k \in 1..n : ts[k] < t - w
  <2>1. t - w \in Int
    OBVIOUS
  <2> HIDE DEF n
  <2>2. ASSUME NEW c \in Int
        PROVE  Stale(ts, c) \in 0..Len(ts) /\ \A k \in 1..Stale(ts, c) : ts[k] < c
    BY StaleCounts
  <2> QED BY <2>1, <2>2 DEF n
<1>2. Len(ts) \in Nat /\ Len(l) \in Nat /\ \A j \in 1..Len(l) : l[j] \in Nat
  OBVIOUS
<1>3. Len(p) = Len(ts) - n /\ \A j \in 1..Len(p) : p[j] = ts[n + j]
  <2>1. p = SubSeq(ts, n + 1, Len(ts))
    BY DEF pruneOlderThan
  <2> HIDE DEF n, p
  <2> QED BY <1>1, <1>2, <2>1, SkipFront
<1> HIDE DEF n, p
<1>4. Len(p) <= Len(l)
  BY <1>1, <1>2, <1>3 DEF Window
<1>5. ASSUME NEW j \in 1..Len(p) PROVE p[j] = l[Len(l) - Len(p) + j]
  <2>1. n + j \in 1..Len(ts)
    BY <1>1, <1>2, <1>3
  <2>2. ts[n + j] = l[Len(l) - Len(ts) + (n + j)]
    BY <2>1 DEF Window
  <2>3. Len(l) - Len(ts) + (n + j) = Len(l) - Len(p) + j
    BY <1>1, <1>2, <1>3
  <2> QED BY <1>3, <2>2, <2>3
<1>6. ASSUME NEW j \in 1..(Len(l) - Len(p)) PROVE l[j] + w < t
  <2>1. CASE j <= Len(l) - Len(ts)
    BY <1>2, <2>1 DEF Window
  <2>2. CASE j > Len(l) - Len(ts)
    <3> DEFINE k == j - (Len(l) - Len(ts))
    <3>1. k \in 1..n /\ k \in 1..Len(ts) /\ Len(l) - Len(ts) + k = j
      <4>1. n \in Nat /\ n <= Len(ts) /\ Len(p) = Len(ts) - n
        BY <1>1, <1>2, <1>3
      <4>2. Len(ts) \in Nat /\ Len(l) \in Nat
        BY <1>2
      <4>3. j \in Int /\ j <= Len(l) - Len(p)
        BY <4>1, <4>2
      <4>4. k \in Int /\ 1 <= k /\ k <= n
        BY <2>2, <4>1, <4>2, <4>3
      <4> QED BY <4>1, <4>2, <4>3, <4>4
    <3>2. ts[k] = l[j] /\ ts[k] < t - w
      BY <1>1, <3>1 DEF Window
    <3>3. l[j] \in Nat
      BY <1>1, <1>2, <1>3
    <3> QED BY <3>2, <3>3
  <2> QED BY <1>1, <1>2, <1>3, <2>1, <2>2
<1> QED BY <1>4, <1>5, <1>6 DEF Window, p

LEMMA PruneType ==
    ASSUME NEW ts \in Seq(Nat), NEW cutoff \in Int
    PROVE  pruneOlderThan(ts, cutoff) \in Seq(Nat)
<1> DEFINE n == Stale(ts, cutoff)
<1>1. n \in 0..Len(ts)
  BY StaleCounts
<1> HIDE DEF n
<1>2. SubSeq(ts, n + 1, Len(ts)) \in Seq(Nat)
  BY <1>1, SkipFront
<1> QED BY <1>2 DEF pruneOlderThan, n

(* A window stays one as time goes by,                                     *)
LEMMA WindowLater ==
    ASSUME NEW ts \in Seq(Nat), NEW l \in Seq(Nat), NEW w \in Nat, NEW t \in Nat,
           NEW u \in Nat, t <= u, Window(ts, l, w, t)
    PROVE  Window(ts, l, w, u)
<1> SUFFICES ASSUME NEW j \in 1..(Len(l) - Len(ts)) PROVE l[j] + w < u
  BY DEF Window
<1>1. l[j] + w < t /\ l[j] \in Nat
  BY DEF Window
<1> QED BY <1>1

(* and when a request is written down in both,                             *)
LEMMA WindowAppend ==
    ASSUME NEW ts \in Seq(Nat), NEW l \in Seq(Nat), NEW w \in Nat, NEW t \in Nat,
           Window(ts, l, w, t)
    PROVE  Window(Append(ts, t), Append(l, t), w, t)
<1> DEFINE a == Append(ts, t)
           b == Append(l, t)
<1>1. /\ Len(a) = Len(ts) + 1 /\ Len(b) = Len(l) + 1
      /\ \A j \in 1..Len(ts) : a[j] = ts[j]
      /\ \A j \in 1..Len(l) : b[j] = l[j]
      /\ a[Len(ts) + 1] = t /\ b[Len(l) + 1] = t
  OBVIOUS
<1>2. Len(ts) \in Nat /\ Len(l) \in Nat
  OBVIOUS
<1> HIDE DEF a, b
<1>3. ASSUME NEW j \in 1..Len(a) PROVE a[j] = b[Len(b) - Len(a) + j]
  <2>1. CASE j = Len(ts) + 1
    BY <1>1, <1>2, <2>1
  <2>2. CASE j \in 1..Len(ts)
    <3>1. ts[j] = l[Len(l) - Len(ts) + j]
      BY <2>2 DEF Window
    <3>2. Len(l) - Len(ts) + j \in 1..Len(l)
      BY <1>2, <2>2 DEF Window
    <3>3. Len(b) - Len(a) + j = Len(l) - Len(ts) + j
      BY <1>1, <1>2
    <3> QED BY <1>1, <2>2, <3>1, <3>2, <3>3
  <2> QED BY <1>1, <1>2, <2>1, <2>2
<1>4. ASSUME NEW j \in 1..(Len(b) - Len(a)) PROVE b[j] + w < t
  <2>1. Len(b) - Len(a) = Len(l) - Len(ts)
    BY <1>1, <1>2
  <2>2. j \in 1..(Len(l) - Len(ts)) /\ j \in 1..Len(l)
    BY <1>2, <2>1
  <2>3. l[j] + w < t
    BY <2>2 DEF Window
  <2> QED BY <1>1, <2>2, <2>3
<1>5. Len(a) <= Len(b)
  BY <1>1, <1>2 DEF Window
<1> QED BY <1>3, <1>4, <1>5 DEF Window, a, b

LEMMA LastOrBefore ==
    ASSUME NEW n \in Nat, NEW cap \in Nat, NEW k \in 1..(n + 1 - cap)
    PROVE  k \in 1..(n - cap) \/ k = n + 1 - cap
OBVIOUS

(* A window with room for one more lets the log grow and stay spaced.      *)
LEMMA SpacedAppend ==
    ASSUME NEW ts \in Seq(Nat), NEW l \in Seq(Nat), NEW w \in Nat, NEW t \in Nat,
           NEW cap \in Nat,
           Window(ts, l, w, t), Spaced(l, cap, w), ~Full(ts, cap)
    PROVE  Spaced(Append(l, t), cap, w)
<1> DEFINE b == Append(l, t)
<1>1. /\ Len(b) = Len(l) + 1
      /\ \A j \in 1..Len(l) : b[j] = l[j]
      /\ b[Len(l) + 1] = t
  OBVIOUS
<1>2. Len(ts) \in Nat /\ Len(l) \in Nat /\ \A j \in 1..Len(l) : l[j] \in Nat
  OBVIOUS
<1> HIDE DEF b
<1> SUFFICES ASSUME cap > 0, NEW k \in 1..(Len(b) - cap) PROVE b[k + cap] - b[k] > w
  BY DEF Spaced, b
<1>3. CASE k \in 1..(Len(l) - cap)
  <2>1. k \in 1..Len(l) /\ k + cap \in 1..Len(l)
    BY <1>2, <1>3
  <2>2. l[k + cap] - l[k] > w
    BY <1>3 DEF Spaced
  <2> QED BY <1>1, <2>1, <2>2
<1>4. CASE k = Len(l) + 1 - cap
  <2>1. k \in 1..(Len(l) - Len(ts)) /\ k \in 1..Len(l)
    BY <1>1, <1>2, <1>4 DEF Full
  <2>2. l[k] + w < t /\ b[k] = l[k] /\ l[k] \in Nat
    BY <1>1, <1>2, <2>1 DEF Window
  <2>3. b[k + cap] = t
    BY <1>1, <1>2, <1>4
  <2>4. t - l[k] > w
    BY <2>2
  <2> QED BY <2>2, <2>3, <2>4
<1>5. Len(l) \in Nat /\ k \in 1..(Len(l) + 1 - cap)
  BY <1>1, <1>2
<1>6. k \in 1..(Len(l) - cap) \/ k = Len(l) + 1 - cap
  BY <1>5, LastOrBefore
<1> QED BY <1>3, <1>4, <1>6
-----------------------------------------------------------------------------
(* Type correctness.                                                       *)

LEMMA DecideTypeOK ==
    ASSUME TypeOK, NEW c \in Callers, Decide(c)
    PROVE  TypeOK'
<1> DEFINE s == call[c].state
           a == call[c].ip
           sec == pruneOlderThan(secondTs[s], now - Second)
           min == pruneOlderThan(minuteTs[s], now - Minute)
<1>1. s \in States /\ a \in Addrs
  BY DEF TypeOK, Decide, Call
<1>2. sec \in Seq(Nat) /\ min \in Seq(Nat) /\ now \in Nat
  <2>1. now \in Nat /\ now - Second \in Int /\ now - Minute \in Int
    BY ClockAssumption, WindowsAssumption DEF TypeOK
  <2>2. secondTs[s] \in Seq(Nat) /\ minuteTs[s] \in Seq(Nat)
    BY <1>1 DEF TypeOK
  <2>3. sec \in Seq(Nat)
    BY <2>1, <2>2, PruneType
  <2>4. min \in Seq(Nat)
    BY <2>1, <2>2, PruneType
  <2> QED BY <2>1, <2>3, <2>4
<1>3. UNCHANGED <<now, ips, janitor>> /\ (Refuse(c, sec, min) \/ Admit(c, sec, min))
  BY DEF Decide
<1> HIDE DEF sec, min
<1>4. CASE Refuse(c, sec, min)
  BY <1>1, <1>2, <1>3, <1>4 DEF TypeOK, Refuse, Goto, Call
<1>5. CASE Admit(c, sec, min)
  <2>1. Append(sec, now) \in Seq(Nat) /\ Append(min, now) \in Seq(Nat)
    BY <1>2
  <2>2. Append(log[a], now) \in Seq(Nat) /\ Append(late[a], now) \in Seq(Nat)
    BY <1>1, <1>2 DEF TypeOK
  <2>3. /\ secondTs' = [secondTs EXCEPT ![s] = Append(sec, now)]
        /\ minuteTs' = [minuteTs EXCEPT ![s] = Append(min, now)]
        /\ \/ log' = [log EXCEPT ![a] = Append(log[a], now)] /\ late' = late
           \/ late' = [late EXCEPT ![a] = Append(late[a], now)] /\ log' = log
        /\ Goto(c, "allowed", None, None)
    BY <1>1, <1>5 DEF Admit, TypeOK
  <2>4. secondTs' \in [States -> Seq(Nat)] /\ minuteTs' \in [States -> Seq(Nat)]
    BY <2>1, <2>3 DEF TypeOK
  <2>5. log' \in [Addrs -> Seq(Nat)] /\ late' \in [Addrs -> Seq(Nat)]
    BY <2>2, <2>3 DEF TypeOK
  <2>6. call' \in [Callers -> Call]
    BY <2>3 DEF TypeOK, Goto, Call
  <2> QED BY <1>3, <2>4, <2>5, <2>6 DEF TypeOK
<1> QED BY <1>3, <1>4, <1>5

LEMMA NextTypeOK ==
    ASSUME TypeOK, [Next]_vars
    PROVE  TypeOK'
<1>1. CASE Tick
  BY <1>1, ClockAssumption DEF TypeOK, Tick
<1>2. ASSUME NEW c \in Callers, Serve(c) PROVE TypeOK'
  <2>1. CASE Found(c)
    BY <2>1 DEF TypeOK, Found, Goto, Call
  <2>2. CASE Create(c)
    <3>1. PICK s \in States :
             /\ ips' = [ips EXCEPT ![call[c].ip] = s]
             /\ secondTs' = [secondTs EXCEPT ![s] = << >>]
             /\ minuteTs' = [minuteTs EXCEPT ![s] = << >>]
             /\ Goto(c, "lock", call[c].ip, s)
      BY <2>2 DEF Create
    <3>2. call[c].ip \in Addrs
      BY <2>2 DEF TypeOK, Create, Call
    <3>3. << >> \in Seq(Nat)
      OBVIOUS
    <3>4. secondTs' \in [States -> Seq(Nat)] /\ minuteTs' \in [States -> Seq(Nat)]
      BY <3>1, <3>3 DEF TypeOK
    <3>5. call' \in [Callers -> Call] /\ ips' \in [Addrs -> States \cup {None}]
      BY <3>1, <3>2 DEF TypeOK, Goto, Call
    <3> QED BY <2>2, <3>4, <3>5 DEF TypeOK, Create
  <2> QED BY <1>2, <2>1, <2>2, DecideTypeOK DEF Serve
<1>3. ASSUME NEW c \in Callers, NEW a \in Addrs, Lookup(c, a) PROVE TypeOK'
  BY <1>3 DEF TypeOK, Lookup, Goto, Call
<1>4. CASE EvictIdle
  <2>1. janitor' = [at |-> "waiting", cutoff |-> now - Minute, due |-> janitor.due + Period,
                    todo |-> janitor.todo, victim |-> janitor.victim]
    BY <1>4 DEF TypeOK, EvictIdle, Janitor
  <2>2. now - Minute \in Int /\ janitor.due + Period \in Nat
    BY ClockAssumption, WindowsAssumption DEF TypeOK, Janitor
  <2>3. janitor' \in Janitor
    BY <2>1, <2>2 DEF TypeOK, Janitor
  <2> QED BY <1>4, <2>3 DEF TypeOK, EvictIdle
<1>5. CASE Sweep
  <2>1. CASE LockMap
    BY <2>1 DEF TypeOK, LockMap, Janitor
  <2>2. ASSUME NEW a \in Addrs, Inspect(a) PROVE TypeOK'
    BY <2>2 DEF TypeOK, Inspect, Janitor
  <2>3. CASE Evict
    BY <2>3 DEF TypeOK, Evict, Janitor
  <2>4. CASE UnlockMap
    BY <2>4 DEF TypeOK, UnlockMap, Janitor
  <2> QED BY <1>5, <2>1, <2>2, <2>3, <2>4 DEF Sweep
<1>6. CASE UNCHANGED vars
  BY <1>6 DEF TypeOK, vars
<1> QED BY <1>1, <1>2, <1>3, <1>4, <1>5, <1>6 DEF Next

LEMMA InitTypeOK == Init => TypeOK
BY ClockAssumption DEF Init, TypeOK, Call, Janitor

(* Every variable keeps its type: in particular a caller that is about to  *)
(* take the lock of an ipState has one. (state, Allow, evictIdle.)         *)
THEOREM TypeCorrectness == Spec => []TypeOK
<1>1. TypeOK /\ [Next]_vars => TypeOK'
  BY NextTypeOK
<1> QED BY <1>1, InitTypeOK, PTL DEF Spec
-----------------------------------------------------------------------------
(* The map and the janitor.                                                *)

(* An ipState serves one address, also for the callers that still have it. *)
OneAddress ==
    /\ \A a, b \in Addrs : ips[a] # None /\ ips[a] = ips[b] => a = b
    /\ \A c \in Callers, a \in Addrs :
          call[c].at = "lock" /\ ips[a] = call[c].state => a = call[c].ip

(* What the janitor knows during a sweep stays true, and its cutoff is a   *)
(* minute ago or more.                                                     *)
SweepSound ==
    /\ janitor.at # "idle" => janitor.cutoff + Minute <= now
    /\ janitor.at # "sweeping" => janitor.victim = None
    /\ janitor.victim # None => ips[janitor.victim] # None /\ janitor.victim \notin janitor.todo
    /\ janitor.at = "sweeping" => \A a \in janitor.todo : ips[a] # None

LEMMA NextOneAddress ==
    ASSUME TypeOK, OneAddress, [Next]_vars
    PROVE  OneAddress'
<1>1. ASSUME NEW c \in Callers, NEW a \in Addrs, Lookup(c, a) PROVE OneAddress'
  BY <1>1, NoneAssumption DEF TypeOK, OneAddress, Lookup, Goto
<1>2. ASSUME NEW c \in Callers, Found(c) PROVE OneAddress'
  <2>1. call[c].ip \in Addrs
    BY <1>2 DEF TypeOK, Found, Call
  <2> QED BY <1>2, <2>1 DEF TypeOK, OneAddress, Found, Goto
<1>3. ASSUME NEW c \in Callers, Create(c) PROVE OneAddress'
  <2>1. call[c].ip \in Addrs
    BY <1>3 DEF TypeOK, Create, Call
  <2>2. PICK s \in States : /\ Fresh(s)
                            /\ ips' = [ips EXCEPT ![call[c].ip] = s]
                            /\ Goto(c, "lock", call[c].ip, s)
    BY <1>3 DEF Create
  <2>3. \A a \in Addrs : ips[a] # s /\ ips'[a] = IF a = call[c].ip THEN s ELSE ips[a]
    BY <2>1, <2>2 DEF Fresh, TypeOK
  <2>4. \A d \in Callers : call[d].at = "lock" => call[d].state # s
    BY <2>2 DEF Fresh, Busy
  <2>5. \A d \in Callers : d # c => call'[d] = call[d]
    BY <2>2 DEF Goto, TypeOK
  <2>6. call'[c].ip = call[c].ip /\ call'[c].state = s
    BY <2>2 DEF Goto, TypeOK
  <2>7. ASSUME NEW d \in Callers, NEW a \in Addrs, call'[d].at = "lock", ips'[a] = call'[d].state
        PROVE  a = call'[d].ip
    <3>1. CASE d = c
      BY <2>3, <2>6, <2>7, <3>1
    <3>2. CASE d # c
      BY <2>3, <2>4, <2>5, <2>7, <3>2 DEF OneAddress
    <3> QED BY <3>1, <3>2
  <2>8. ASSUME NEW a \in Addrs, NEW b \in Addrs, ips'[a] # None, ips'[a] = ips'[b] PROVE a = b
    BY <2>3, <2>8 DEF OneAddress
  <2> QED BY <2>7, <2>8 DEF OneAddress
<1>4. ASSUME NEW c \in Callers, Decide(c) PROVE OneAddress'
  <2>1. ips' = ips /\ \A d \in Callers : call'[d] = call[d] \/ call'[d].at # "lock"
    BY <1>4 DEF Decide, Admit, Refuse, Goto, TypeOK
  <2> QED BY <2>1 DEF OneAddress
<1>5. CASE Evict
  <2>1. call' = call /\ \A a \in Addrs : ips'[a] = ips[a] \/ ips'[a] = None
    BY <1>5 DEF Evict, TypeOK
  <2>2. ASSUME NEW c \in Callers, call[c].at = "lock" PROVE call[c].state # None
    <3>1. call[c] \in Call
      BY DEF TypeOK
    <3>2. call[c].state \in States
      BY <2>2, <3>1 DEF Call
    <3> QED BY <3>2, NoneAssumption
  <2> QED BY <2>1, <2>2 DEF OneAddress
<1>6. CASE UNCHANGED <<ips, call>>
  BY <1>6 DEF OneAddress
<1>7. ASSUME NEW a \in Addrs, Inspect(a) PROVE UNCHANGED <<ips, call>>
  BY <1>7 DEF Inspect
<1> QED BY <1>1, <1>2, <1>3, <1>4, <1>5, <1>6, <1>7
        DEF Next, Serve, Sweep, Tick, EvictIdle, LockMap, UnlockMap, vars

LEMMA NextSweepSound ==
    ASSUME TypeOK, SweepSound, [Next]_vars
    PROVE  SweepSound'
<1>0. now \in Nat /\ janitor.cutoff \in Int /\ Minute \in Nat
  BY ClockAssumption, WindowsAssumption DEF TypeOK, Janitor
<1>1. CASE Tick
  BY <1>0, <1>1 DEF Tick, SweepSound
<1>2. ASSUME NEW c \in Callers, Create(c) PROVE SweepSound'
  <2>1. janitor.at # "sweeping" /\ UNCHANGED <<now, janitor>>
    BY <1>2 DEF Create, MapFree
  <2> QED BY <2>1 DEF SweepSound
<1>3. CASE EvictIdle
  <2>1. janitor' = [at |-> "waiting", cutoff |-> now - Minute, due |-> janitor.due + Period,
                    todo |-> janitor.todo, victim |-> janitor.victim]
        /\ janitor.at = "idle" /\ now' = now
    BY <1>3 DEF TypeOK, EvictIdle, Janitor
  <2>2. now - Minute + Minute <= now
    BY <1>0
  <2> QED BY <2>1, <2>2 DEF SweepSound
<1>4. CASE LockMap
  BY <1>4 DEF LockMap, SweepSound, TypeOK, Janitor
<1>5. ASSUME NEW a \in Addrs, Inspect(a) PROVE SweepSound'
  BY <1>5, NoneAssumption DEF Inspect, SweepSound, TypeOK, Janitor
<1>6. CASE Evict
  BY <1>6 DEF Evict, SweepSound, TypeOK, Janitor
<1>7. CASE UnlockMap
  BY <1>7 DEF UnlockMap, SweepSound, TypeOK, Janitor
<1>8. CASE UNCHANGED <<now, ips, janitor>>
  BY <1>8 DEF SweepSound
<1>9. ASSUME NEW c \in Callers, NEW a \in Addrs, Lookup(c, a) PROVE UNCHANGED <<now, ips, janitor>>
  BY <1>9 DEF Lookup
<1>10. ASSUME NEW c \in Callers, Found(c) \/ Decide(c) PROVE UNCHANGED <<now, ips, janitor>>
  BY <1>10 DEF Found, Decide
<1> QED BY <1>1, <1>2, <1>3, <1>4, <1>5, <1>6, <1>7, <1>8, <1>9, <1>10
        DEF Next, Serve, Sweep, vars

-----------------------------------------------------------------------------
(* The windows.                                                            *)

(* The log is in the order of time.                                        *)
Sorted(l, t) == \A j \in 1..Len(l) : l[j] <= t /\ l[j] <= l[Len(l)]

(* All of it is more than w ago.                                           *)
Past(l, w, t) == \A j \in 1..Len(l) : l[j] + w < t

LogSorted == \A a \in Addrs : Sorted(log[a], now)

(* The ipState in the map has the windows of its address, and an address   *)
(* that has none, or is losing it, had no request for a minute.            *)
Tracked(a) == /\ Window(secondTs[ips[a]], log[a], Second, now)
              /\ Window(minuteTs[ips[a]], log[a], Minute, now)

Kept(a) == ips[a] # None /\ janitor.victim # a

LogTracked ==
    \A a \in Addrs : IF Kept(a) THEN Tracked(a) ELSE Past(log[a], Minute, now)

LEMMA SortedAppend ==
    ASSUME NEW l \in Seq(Nat), NEW t \in Nat, Sorted(l, t)
    PROVE  Sorted(Append(l, t), t)
<1> DEFINE b == Append(l, t)
<1>1. /\ Len(b) = Len(l) + 1 /\ Len(l) \in Nat
      /\ \A j \in 1..Len(l) : b[j] = l[j]
      /\ b[Len(l) + 1] = t
  OBVIOUS
<1> HIDE DEF b
<1>2. ASSUME NEW j \in 1..Len(b) PROVE b[j] <= t /\ b[j] <= b[Len(b)]
  <2>1. CASE j \in 1..Len(l)
    BY <1>1, <2>1 DEF Sorted
  <2>2. CASE j = Len(l) + 1
    BY <1>1, <2>2
  <2> QED BY <1>1, <2>1, <2>2
<1> QED BY <1>2 DEF Sorted, b

(* An idle window ends a log that is past.                                 *)
LEMMA IdlePast ==
    ASSUME NEW ts \in Seq(Nat), NEW l \in Seq(Nat), NEW w \in Nat, NEW t \in Nat,
           NEW cutoff \in Int, cutoff + w <= t,
           Window(ts, l, w, t), Sorted(l, t), Idle(ts, cutoff)
    PROVE  Past(l, w, t)
<1>1. Len(ts) \in Nat /\ Len(l) \in Nat /\ \A j \in 1..Len(l) : l[j] \in Nat
  OBVIOUS
<1> SUFFICES ASSUME NEW j \in 1..Len(l) PROVE l[j] + w < t
  BY DEF Past
<1>2. CASE ts = << >>
  <2>1. Len(ts) = 0
    BY <1>2
  <2>2. j \in 1..(Len(l) - Len(ts))
    BY <1>1, <2>1
  <2> QED BY <2>2 DEF Window
<1>3. CASE ts # << >>
  <2>1. Len(ts) \in 1..Len(ts) /\ Len(ts) <= Len(l)
    BY <1>1, <1>3 DEF Window
  <2>2. ts[Len(ts)] = l[Len(l) - Len(ts) + Len(ts)]
    BY <2>1 DEF Window
  <2>3. Len(l) - Len(ts) + Len(ts) = Len(l) /\ Len(l) \in 1..Len(l)
    BY <1>1, <2>1
  <2>4. l[Len(l)] < cutoff /\ l[j] <= l[Len(l)]
    BY <1>3, <2>2, <2>3 DEF Idle, Sorted
  <2> QED BY <1>1, <2>3, <2>4
<1> QED BY <1>2, <1>3

(* An empty window is one of a log that is past.                           *)
LEMMA PastWindow ==
    ASSUME NEW l \in Seq(Nat), NEW w \in Nat, NEW v \in Nat, w <= v, NEW t \in Nat,
           Past(l, v, t)
    PROVE  Window(<< >>, l, w, t)
<1>1. \A j \in 1..Len(l) : l[j] \in Nat /\ l[j] + v < t
  BY DEF Past
<1>2. \A j \in 1..Len(l) : l[j] + w < t
  BY <1>1
<1>3. Len(<< >>) = 0 /\ Len(l) \in Nat /\ Len(l) - 0 = Len(l)
  OBVIOUS
<1> QED BY <1>2, <1>3 DEF Window

LEMMA TickWindows ==
    ASSUME TypeOK, LogSorted, LogTracked, WindowsHold, Tick
    PROVE  LogSorted' /\ LogTracked' /\ WindowsHold'
<1>1. now \in Nat /\ now' = now + 1 /\ Second \in Nat /\ Minute \in Nat
  BY ClockAssumption, WindowsAssumption DEF TypeOK, Tick
<1>2. UNCHANGED <<ips, secondTs, minuteTs, janitor, log>>
  BY DEF Tick
<1>3. WindowsHold'
  BY <1>2 DEF WindowsHold
<1>4. ASSUME NEW a \in Addrs
      PROVE  /\ Sorted(log[a], now')
             /\ IF Kept(a) THEN /\ Window(secondTs[ips[a]], log[a], Second, now')
                                /\ Window(minuteTs[ips[a]], log[a], Minute, now')
                           ELSE Past(log[a], Minute, now')
  <2>1. log[a] \in Seq(Nat) /\ \A j \in 1..Len(log[a]) : log[a][j] \in Nat
    BY DEF TypeOK
  <2>2. Sorted(log[a], now')
    BY <1>1, <2>1 DEF LogSorted, Sorted
  <2>3. CASE Kept(a)
    <3>1. secondTs[ips[a]] \in Seq(Nat) /\ minuteTs[ips[a]] \in Seq(Nat)
      BY <2>3 DEF TypeOK, Kept
    <3>2. now' \in Nat /\ now <= now'
      BY <1>1
    <3>3. Tracked(a)
      BY <2>3 DEF LogTracked
    <3>4. Window(secondTs[ips[a]], log[a], Second, now')
      BY <1>1, <2>1, <3>1, <3>2, <3>3, WindowLater DEF Tracked
    <3>5. Window(minuteTs[ips[a]], log[a], Minute, now')
      BY <1>1, <2>1, <3>1, <3>2, <3>3, WindowLater DEF Tracked
    <3> QED BY <2>2, <2>3, <3>4, <3>5
  <2>4. CASE ~Kept(a)
    BY <1>1, <2>1, <2>2, <2>4 DEF LogTracked, Past
  <2> QED BY <2>3, <2>4
<1>5. LogSorted' /\ LogTracked'
  BY <1>2, <1>4 DEF LogSorted, LogTracked, Tracked, Kept
<1> QED BY <1>3, <1>5

LEMMA CreateWindows ==
    ASSUME TypeOK, SweepSound, LogSorted, LogTracked, WindowsHold,
           NEW c \in Callers, Create(c)
    PROVE  LogSorted' /\ LogTracked' /\ WindowsHold'
<1>1. UNCHANGED <<now, janitor, log>> /\ ips[call[c].ip] = None
  BY DEF Create
<1>2. PICK s \in States : /\ Fresh(s)
                          /\ ips' = [ips EXCEPT ![call[c].ip] = s]
                          /\ secondTs' = [secondTs EXCEPT ![s] = << >>]
                          /\ minuteTs' = [minuteTs EXCEPT ![s] = << >>]
  BY DEF Create
<1>3. call[c].ip \in Addrs /\ janitor.victim = None
  BY DEF Create, MapFree, SweepSound, TypeOK, Call
<1>4. ASSUME NEW a \in Addrs
      PROVE  IF Kept(a)' THEN Tracked(a)' ELSE Past(log[a], Minute, now)
  <2>1. CASE a = call[c].ip
    <3>1. Past(log[a], Minute, now)
      BY <1>1, <2>1 DEF LogTracked, Kept
    <3>2. ips'[a] = s /\ secondTs'[s] = << >> /\ minuteTs'[s] = << >>
      BY <1>2, <1>3, <2>1 DEF TypeOK
    <3>3. log[a] \in Seq(Nat) /\ now \in Nat
      BY ClockAssumption DEF TypeOK
    <3>4. Window(<< >>, log[a], Minute, now)
      BY <3>1, <3>3, PastWindow, WindowsAssumption
    <3>5. Window(<< >>, log[a], Second, now)
      BY <3>1, <3>3, PastWindow, WindowsAssumption
    <3> QED BY <1>1, <3>1, <3>2, <3>4, <3>5 DEF Tracked
  <2>2. CASE a # call[c].ip
    <3>1. ips'[a] = ips[a] /\ ips[a] # s
      BY <1>2, <1>3, <2>2 DEF TypeOK, Fresh
    <3>2. ips[a] # None => /\ secondTs'[ips[a]] = secondTs[ips[a]]
                           /\ minuteTs'[ips[a]] = minuteTs[ips[a]]
      BY <1>2, <3>1 DEF TypeOK
    <3> QED BY <1>1, <3>1, <3>2 DEF LogTracked, Tracked, Kept
  <2> QED BY <2>1, <2>2
<1>5. LogTracked'
  BY <1>1, <1>4 DEF LogTracked
<1> QED BY <1>1, <1>5 DEF LogSorted, WindowsHold

(* The pruned windows of an address are windows of its log, and if there   *)
(* is room in them the log may grow.                                       *)
LEMMA DecideWindows ==
    ASSUME TypeOK, OneAddress, LogSorted, LogTracked, WindowsHold,
           NEW c \in Callers, Decide(c)
    PROVE  LogSorted' /\ LogTracked' /\ WindowsHold'
<1> DEFINE s == call[c].state
           a == call[c].ip
           sec == pruneOlderThan(secondTs[s], now - Second)
           min == pruneOlderThan(minuteTs[s], now - Minute)
<1>1. s \in States /\ a \in Addrs /\ call[c].at = "lock" /\ s # None
  <2>1. s \in States /\ a \in Addrs /\ call[c].at = "lock"
    BY DEF TypeOK, Decide, Call
  <2> QED BY <2>1, NoneAssumption
<1>2. now \in Nat /\ Second \in Nat /\ Minute \in Nat /\ log[a] \in Seq(Nat)
      /\ secondTs[s] \in Seq(Nat) /\ minuteTs[s] \in Seq(Nat)
      /\ now - Second \in Int /\ now - Minute \in Int
  BY <1>1, ClockAssumption, WindowsAssumption DEF TypeOK
<1>3. sec \in Seq(Nat) /\ min \in Seq(Nat)
  <2>1. sec \in Seq(Nat)
    BY <1>2, PruneType
  <2>2. min \in Seq(Nat)
    BY <1>2, PruneType
  <2> QED BY <2>1, <2>2
<1>4. \A b \in Addrs : b # a => ips[b] # s
  BY <1>1 DEF OneAddress
<1>5. /\ UNCHANGED <<now, ips, janitor>>
      /\ \/ Refuse(c, sec, min)
         \/ /\ Admit(c, sec, min)
            /\ ~Full(sec, RequestsPerSecond) /\ ~Full(min, RequestsPerMinute)
  BY DEF Decide
<1>6. Current(c) => Window(sec, log[a], Second, now) /\ Window(min, log[a], Minute, now)
  <2> SUFFICES ASSUME Current(c) PROVE Window(sec, log[a], Second, now) /\ Window(min, log[a], Minute, now)
    OBVIOUS
  <2>1. ips[a] = s /\ janitor.victim # a
    BY DEF Current
  <2>2. Tracked(a)
    BY <1>1, <2>1 DEF LogTracked, Kept
  <2>3. Window(secondTs[s], log[a], Second, now) /\ Window(minuteTs[s], log[a], Minute, now)
    BY <2>1, <2>2 DEF Tracked
  <2>4. Window(sec, log[a], Second, now)
    BY <1>2, <2>3, PruneKeepsWindow
  <2>5. Window(min, log[a], Minute, now)
    BY <1>2, <2>3, PruneKeepsWindow
  <2> QED BY <2>4, <2>5
<1> HIDE DEF sec, min
<1>7. ASSUME NEW x, NEW y, NEW l,
             secondTs' = [secondTs EXCEPT ![s] = x], minuteTs' = [minuteTs EXCEPT ![s] = y],
             log' = [log EXCEPT ![a] = l],
             Current(c) => Window(x, l, Second, now) /\ Window(y, l, Minute, now),
             ~Current(c) => l = log[a]
      PROVE  LogTracked'
  <2> SUFFICES ASSUME NEW b \in Addrs
               PROVE  IF Kept(b) THEN /\ Window(secondTs'[ips[b]], log'[b], Second, now)
                                      /\ Window(minuteTs'[ips[b]], log'[b], Minute, now)
                                 ELSE Past(log'[b], Minute, now)
    BY <1>5 DEF LogTracked, Tracked, Kept
  <2>1. CASE b = a
    <3>1. log'[b] = l
      BY <1>1, <1>7, <2>1 DEF TypeOK
    <3>2. CASE Current(c)
      <4>1. ips[b] = s /\ Kept(b)
        BY <1>1, <2>1, <3>2 DEF Current, Kept
      <4>2. secondTs'[s] = x /\ minuteTs'[s] = y
        BY <1>1, <1>7 DEF TypeOK
      <4> QED BY <1>7, <3>1, <3>2, <4>1, <4>2
    <3>3. CASE ~Current(c)
      <4>1. l = log[b]
        BY <1>7, <2>1, <3>3
      <4>2. CASE Kept(b)
        <5>1. ips[b] # s /\ ips[b] \in States
          BY <2>1, <3>3, <4>2 DEF Current, Kept, TypeOK
        <5>2. secondTs'[ips[b]] = secondTs[ips[b]] /\ minuteTs'[ips[b]] = minuteTs[ips[b]]
          BY <1>7, <5>1 DEF TypeOK
        <5> QED BY <3>1, <4>1, <4>2, <5>2 DEF LogTracked, Tracked
      <4>3. CASE ~Kept(b)
        BY <3>1, <4>1, <4>3 DEF LogTracked
      <4> QED BY <4>2, <4>3
    <3> QED BY <3>2, <3>3
  <2>2. CASE b # a
    <3>1. log'[b] = log[b] /\ ips[b] # s
      BY <1>4, <1>7, <2>2 DEF TypeOK
    <3>2. ips[b] # None => /\ secondTs'[ips[b]] = secondTs[ips[b]]
                           /\ minuteTs'[ips[b]] = minuteTs[ips[b]]
      BY <1>7, <3>1 DEF TypeOK
    <3> QED BY <3>1, <3>2 DEF LogTracked, Tracked, Kept
  <2> QED BY <2>1, <2>2
<1>8. CASE Refuse(c, sec, min)
  <2>1. log' = log /\ log = [log EXCEPT ![a] = log[a]]
    BY <1>8 DEF Refuse, TypeOK
  <2>2. secondTs' = [secondTs EXCEPT ![s] = sec] /\ minuteTs' = [minuteTs EXCEPT ![s] = min]
    BY <1>8 DEF Refuse
  <2>3. LogTracked'
    BY <1>6, <1>7, <2>1, <2>2
  <2> QED BY <1>5, <2>1, <2>3 DEF LogSorted, WindowsHold
<1>9. CASE /\ Admit(c, sec, min)
           /\ ~Full(sec, RequestsPerSecond) /\ ~Full(min, RequestsPerMinute)
  <2>1. /\ secondTs' = [secondTs EXCEPT ![s] = Append(sec, now)]
        /\ minuteTs' = [minuteTs EXCEPT ![s] = Append(min, now)]
    BY <1>9 DEF Admit
  <2>2. CASE ~Current(c)
    <3>1. log' = log /\ log = [log EXCEPT ![a] = log[a]]
      BY <1>9, <2>2 DEF Admit, TypeOK
    <3>2. LogTracked'
      BY <1>7, <2>1, <2>2, <3>1
    <3> QED BY <1>5, <3>1, <3>2 DEF LogSorted, WindowsHold
  <2>3. CASE Current(c)
    <3> DEFINE l == Append(log[a], now)
    <3>1. log' = [log EXCEPT ![a] = l]
      BY <1>9, <2>3 DEF Admit, TypeOK
    <3>2. Window(Append(sec, now), l, Second, now)
      BY <1>2, <1>3, <1>6, <2>3, WindowAppend
    <3>3. Window(Append(min, now), l, Minute, now)
      BY <1>2, <1>3, <1>6, <2>3, WindowAppend
    <3>4. Sorted(l, now)
      BY <1>1, <1>2, SortedAppend DEF LogSorted
    <3>5. Spaced(l, RequestsPerSecond, Second)
      <4>1. Spaced(log[a], RequestsPerSecond, Second)
        BY <1>1 DEF WindowsHold
      <4> QED BY <1>2, <1>3, <1>6, <1>9, <2>3, <4>1, CapsAssumption, SpacedAppend
    <3>6. Spaced(l, RequestsPerMinute, Minute)
      <4>1. Spaced(log[a], RequestsPerMinute, Minute)
        BY <1>1 DEF WindowsHold
      <4> QED BY <1>2, <1>3, <1>6, <1>9, <2>3, <4>1, CapsAssumption, SpacedAppend
    <3> HIDE DEF l
    <3>7. LogTracked'
      BY <1>7, <2>1, <2>3, <3>1, <3>2, <3>3
    <3>8. \A b \in Addrs : log'[b] = IF b = a THEN l ELSE log[b]
      BY <3>1 DEF TypeOK
    <3>9. LogSorted'
      BY <1>5, <3>4, <3>8 DEF LogSorted
    <3>10. WindowsHold'
      BY <3>5, <3>6, <3>8 DEF WindowsHold
    <3> QED BY <3>7, <3>9, <3>10
  <2> QED BY <2>2, <2>3
<1> QED BY <1>5, <1>8, <1>9

(* The verdict "idle" is right although its cutoff is old.                 *)
LEMMA InspectWindows ==
    ASSUME TypeOK, SweepSound, LogSorted, LogTracked, WindowsHold,
           NEW a \in Addrs, Inspect(a)
    PROVE  LogSorted' /\ LogTracked' /\ WindowsHold'
<1>1. UNCHANGED <<now, ips, secondTs, minuteTs, log>>
  BY DEF Inspect
<1>2. ips[a] \in States /\ janitor.victim = None /\ janitor.cutoff + Minute <= now
  BY NoneAssumption DEF Inspect, SweepSound, TypeOK
<1>3. janitor.cutoff \in Int /\ now \in Nat /\ Minute \in Nat /\ log[a] \in Seq(Nat)
      /\ minuteTs[ips[a]] \in Seq(Nat)
  BY <1>2, ClockAssumption, WindowsAssumption DEF TypeOK, Janitor
<1>4. Tracked(a) /\ Sorted(log[a], now)
  BY <1>2, NoneAssumption DEF LogTracked, Kept, LogSorted
<1>5. janitor'.victim = IF Idle(minuteTs[ips[a]], janitor.cutoff) THEN a ELSE None
  BY DEF Inspect, TypeOK, Janitor
<1>6. Idle(minuteTs[ips[a]], janitor.cutoff) => Past(log[a], Minute, now)
  BY <1>2, <1>3, <1>4, IdlePast DEF Tracked
<1>7. ASSUME NEW b \in Addrs
      PROVE  IF ips[b] # None /\ janitor'.victim # b THEN Tracked(b) ELSE Past(log[b], Minute, now)
  BY <1>2, <1>5, <1>6, NoneAssumption DEF LogTracked, Kept
<1>8. LogTracked'
  BY <1>1, <1>7 DEF LogTracked, Tracked, Kept
<1> QED BY <1>1, <1>8 DEF LogSorted, WindowsHold

LEMMA EvictWindows ==
    ASSUME TypeOK, LogSorted, LogTracked, WindowsHold, Evict
    PROVE  LogSorted' /\ LogTracked' /\ WindowsHold'
<1>1. UNCHANGED <<now, secondTs, minuteTs, log>> /\ janitor'.victim = None
  BY DEF Evict, TypeOK, Janitor
<1>2. janitor.victim \in Addrs
  BY DEF Evict, TypeOK, Janitor
<1>3. \A b \in Addrs : ips'[b] = IF b = janitor.victim THEN None ELSE ips[b]
  BY <1>2 DEF Evict, TypeOK
<1>4. ASSUME NEW b \in Addrs
      PROVE  IF ips'[b] # None THEN ips'[b] = ips[b] /\ Tracked(b) ELSE Past(log[b], Minute, now)
  BY <1>3 DEF LogTracked, Kept
<1>5. LogTracked'
  BY <1>1, <1>2, <1>4, NoneAssumption DEF LogTracked, Tracked, Kept
<1> QED BY <1>1, <1>5 DEF LogSorted, WindowsHold

IInv == TypeOK /\ OneAddress /\ SweepSound /\ LogSorted /\ LogTracked /\ WindowsHold

LEMMA InitIInv == Init => IInv
<1> SUFFICES ASSUME Init PROVE OneAddress /\ SweepSound /\ LogSorted /\ LogTracked /\ WindowsHold
  BY InitTypeOK DEF IInv
<1>1. \A a \in Addrs : log[a] = << >> /\ Len(log[a]) = 0 /\ ips[a] = None
  BY DEF Init
<1>2. OneAddress /\ SweepSound
  BY <1>1 DEF Init, OneAddress, SweepSound
<1>3. LogSorted /\ LogTracked
  BY <1>1 DEF LogSorted, LogTracked, Sorted, Past, Kept
<1>4. ASSUME NEW cap \in Nat, cap > 0 PROVE 1..(0 - cap) = {}
  BY <1>4
<1>5. WindowsHold
  BY <1>1, <1>4, CapsAssumption DEF WindowsHold, Spaced
<1> QED BY <1>2, <1>3, <1>5

LEMMA NextIInv == IInv /\ [Next]_vars => IInv'
<1> SUFFICES ASSUME IInv, [Next]_vars PROVE LogSorted' /\ LogTracked' /\ WindowsHold'
  BY NextTypeOK, NextOneAddress, NextSweepSound DEF IInv
<1>1. CASE Tick
  BY <1>1, TickWindows DEF IInv
<1>2. ASSUME NEW c \in Callers, Create(c) PROVE LogSorted' /\ LogTracked' /\ WindowsHold'
  BY <1>2, CreateWindows DEF IInv
<1>3. ASSUME NEW c \in Callers, Decide(c) PROVE LogSorted' /\ LogTracked' /\ WindowsHold'
  BY <1>3, DecideWindows DEF IInv
<1>4. ASSUME NEW a \in Addrs, Inspect(a) PROVE LogSorted' /\ LogTracked' /\ WindowsHold'
  BY <1>4, InspectWindows DEF IInv
<1>5. CASE Evict
  BY <1>5, EvictWindows DEF IInv
<1>6. CASE UNCHANGED <<now, ips, secondTs, minuteTs, log, janitor>>
  BY <1>6 DEF IInv, LogSorted, LogTracked, Tracked, Kept, WindowsHold
<1>7. CASE EvictIdle \/ LockMap \/ UnlockMap
  <2>1. UNCHANGED <<now, ips, secondTs, minuteTs, log>> /\ janitor'.victim = janitor.victim
    BY <1>7 DEF IInv, TypeOK, Janitor, EvictIdle, LockMap, UnlockMap
  <2> QED BY <2>1 DEF IInv, LogSorted, LogTracked, Tracked, Kept, WindowsHold
<1>8. ASSUME NEW c \in Callers, NEW a \in Addrs, Lookup(c, a)
      PROVE  UNCHANGED <<now, ips, secondTs, minuteTs, log, janitor>>
  BY <1>8 DEF Lookup
<1>9. ASSUME NEW c \in Callers, Found(c)
      PROVE  UNCHANGED <<now, ips, secondTs, minuteTs, log, janitor>>
  BY <1>9 DEF Found
<1> QED BY <1>1, <1>2, <1>3, <1>4, <1>5, <1>6, <1>7, <1>8, <1>9 DEF Next, Serve, Sweep, vars

(* For any number of addresses and callers, any caps and windows: of the   *)
(* requests admitted through states that the map has and keeps, no window  *)
(* of an address has more than its cap. Those that hold a state while the  *)
(* janitor condemns or drops it (late) are not counted, and can come on    *)
(* top. (Allow, evictIdle.)                                                *)
THEOREM WindowsAreHeld == Spec => []WindowsHold
<1>1. IInv => WindowsHold
  BY DEF IInv
<1> QED BY <1>1, InitIInv, NextIInv, PTL DEF Spec

-----------------------------------------------------------------------------
(* Counting requests.                                                      *)

(* Only one number of timestamps can be skipped.                           *)
LEMMA StaleIs ==
    ASSUME NEW ts \in Seq(Nat), NEW cutoff \in Int, NEW n \in 0..Len(ts),
           \A k \in 1..n : ts[k] < cutoff,
           n < Len(ts) => ts[n + 1] >= cutoff
    PROVE  Stale(ts, cutoff) = n
<1> DEFINE m == Stale(ts, cutoff)
<1>1. /\ m \in 0..Len(ts)
      /\ \A k \in 1..m : ts[k] < cutoff
      /\ m < Len(ts) => ts[m + 1] >= cutoff
  BY StaleCounts
<1>2. Len(ts) \in Nat /\ \A k \in 1..Len(ts) : ts[k] \in Nat
  OBVIOUS
<1> HIDE DEF m
<1>3. ASSUME m < n PROVE FALSE
  <2>1. m + 1 \in 1..n /\ m + 1 \in 1..Len(ts) /\ m < Len(ts)
    BY <1>1, <1>2, <1>3
  <2> QED BY <1>1, <1>2, <2>1
<1>4. ASSUME n < m PROVE FALSE
  <2>1. n + 1 \in 1..m /\ n + 1 \in 1..Len(ts) /\ n < Len(ts)
    BY <1>1, <1>2, <1>4
  <2> QED BY <1>1, <1>2, <2>1
<1>5. m = n
  BY <1>1, <1>2, <1>3, <1>4
<1> QED BY <1>5 DEF m

(* What pruneOlderThan leaves begins at or after the cutoff, and everything *)
(* else since then is in it too.                                           *)
LEMMA PruneFacts ==
    ASSUME NEW ts \in Seq(Nat), NEW cutoff \in Int
    PROVE  LET n == Stale(ts, cutoff)
               p == pruneOlderThan(ts, cutoff)
           IN  /\ n \in 0..Len(ts)
               /\ p \in Seq(Nat)
               /\ Len(p) = Len(ts) - n
               /\ \A j \in 1..Len(p) : p[j] = ts[n + j]
               /\ \A k \in 1..n : ts[k] < cutoff
               /\ Len(p) > 0 => p[1] >= cutoff
<1> DEFINE n == Stale(ts, cutoff)
           p == pruneOlderThan(ts, cutoff)
<1>1. /\ n \in 0..Len(ts)
      /\ \A k \in 1..n : ts[k] < cutoff
      /\ n < Len(ts) => ts[n + 1] >= cutoff
  BY StaleCounts
<1>2. p = SubSeq(ts, n + 1, Len(ts))
  BY DEF pruneOlderThan
<1>3. Len(ts) \in Nat
  OBVIOUS
<1> HIDE DEF n, p
<1>4. p \in Seq(Nat) /\ Len(p) = Len(ts) - n /\ \A j \in 1..Len(p) : p[j] = ts[n + j]
  BY <1>1, <1>2, SkipFront
<1>5. Len(p) > 0 => p[1] >= cutoff
  <2>1. SUFFICES ASSUME Len(p) > 0
                 PROVE  p[1] >= cutoff
    OBVIOUS
  <2>2. n < Len(ts) /\ 1 \in 1..Len(p)
    BY <1>1, <1>3, <1>4, <2>1
  <2>3. p[1] = ts[n + 1]
    BY <1>4, <2>2
  <2> QED BY <1>1, <2>2, <2>3
<1> QED BY <1>1, <1>4, <1>5 DEF n, p

(* Everything since the cutoff survives it.                                *)
LEMMA PruneKeeps ==
    ASSUME NEW ts \in Seq(Nat), NEW cutoff \in Int, NEW k \in 1..Len(ts), ts[k] >= cutoff
    PROVE  \E j \in 1..Len(pruneOlderThan(ts, cutoff)) : pruneOlderThan(ts, cutoff)[j] = ts[k]
<1> DEFINE n == Stale(ts, cutoff)
           p == pruneOlderThan(ts, cutoff)
<1>1. /\ n \in 0..Len(ts)
      /\ Len(p) = Len(ts) - n
      /\ \A j \in 1..Len(p) : p[j] = ts[n + j]
      /\ \A i \in 1..n : ts[i] < cutoff
  BY PruneFacts
<1>2. Len(ts) \in Nat /\ ts[k] \in Nat
  OBVIOUS
<1> HIDE DEF n, p
<1>3. ~(k <= n)
  BY <1>1, <1>2
<1>4. k - n \in 1..Len(p) /\ n + (k - n) = k
  BY <1>1, <1>2, <1>3
<1>5. p[k - n] = ts[k]
  BY <1>1, <1>4
<1> QED BY <1>4, <1>5 DEF p

(* The entries of what is left were there before.                          *)
LEMMA PruneSubset ==
    ASSUME NEW ts \in Seq(Nat), NEW cutoff \in Int,
           NEW j \in 1..Len(pruneOlderThan(ts, cutoff))
    PROVE  \E k \in 1..Len(ts) : pruneOlderThan(ts, cutoff)[j] = ts[k]
<1> DEFINE n == Stale(ts, cutoff)
           p == pruneOlderThan(ts, cutoff)
<1>1. /\ n \in 0..Len(ts)
      /\ Len(p) = Len(ts) - n
      /\ \A i \in 1..Len(p) : p[i] = ts[n + i]
  BY PruneFacts
<1>2. Len(ts) \in Nat /\ j \in 1..Len(p)
  OBVIOUS
<1> HIDE DEF n, p
<1>3. n + j \in 1..Len(ts)
  BY <1>1, <1>2
<1>4. p[j] = ts[n + j]
  BY <1>1, <1>2
<1> QED BY <1>3, <1>4 DEF p

(* The requests of a list since the first one that is not before x.        *)
Count(l, x) == Len(l) - Stale(l, x)

LEMMA CountType ==
    ASSUME NEW l \in Seq(Nat), NEW x \in Int
    PROVE  Count(l, x) \in Nat /\ Count(l, x) <= Len(l)
<1>1. Stale(l, x) \in 0..Len(l) /\ Len(l) \in Nat
  BY StaleCounts
<1> QED BY <1>1 DEF Count

LEMMA CountEmpty ==
    ASSUME NEW x \in Int
    PROVE  Count(<< >>, x) = 0
<1>1. << >> \in Seq(Nat) /\ Len(<< >>) = 0
  OBVIOUS
<1>2. Count(<< >>, x) \in Nat /\ Count(<< >>, x) <= 0
  BY <1>1, CountType
<1> QED BY <1>2

(* Pruning never raises a count.                                           *)
LEMMA CountPrune ==
    ASSUME NEW ts \in Seq(Nat), NEW cutoff \in Int, NEW x \in Int
    PROVE  Count(pruneOlderThan(ts, cutoff), x) <= Count(ts, x)
<1> DEFINE n == Stale(ts, cutoff)
           p == pruneOlderThan(ts, cutoff)
           m == Stale(p, x)
           q == Stale(ts, x)
<1>1. /\ n \in 0..Len(ts) /\ p \in Seq(Nat)
      /\ Len(p) = Len(ts) - n
      /\ \A j \in 1..Len(p) : p[j] = ts[n + j]
  BY PruneFacts
<1>2. q \in 0..Len(ts) /\ \A k \in 1..q : ts[k] < x
  BY StaleCounts
<1>3. Len(ts) \in Nat /\ \A k \in 1..Len(ts) : ts[k] \in Nat
  OBVIOUS
<1> HIDE DEF n, p, q
<1>4. m \in 0..Len(p) /\ (m < Len(p) => p[m + 1] >= x)
  BY <1>1, StaleCounts
<1> HIDE DEF m
<1>5. ASSUME n + m < q PROVE FALSE
  <2>1. m < Len(p) /\ m + 1 \in 1..Len(p) /\ n + (m + 1) \in 1..q /\ n + (m + 1) \in 1..Len(ts)
    BY <1>1, <1>2, <1>3, <1>4, <1>5
  <2>2. p[m + 1] >= x /\ p[m + 1] = ts[n + (m + 1)] /\ ts[n + (m + 1)] < x
    BY <1>1, <1>2, <1>4, <2>1
  <2>3. ts[n + (m + 1)] \in Nat
    BY <1>3, <2>1
  <2> QED BY <2>2, <2>3
<1>6. Len(p) - m <= Len(ts) - q
  BY <1>1, <1>2, <1>3, <1>4, <1>5
<1> QED BY <1>6 DEF Count, m, p, q

(* A request since x is one more,                                          *)
LEMMA CountAppend ==
    ASSUME NEW l \in Seq(Nat), NEW t \in Nat, NEW x \in Int, t >= x
    PROVE  Count(Append(l, t), x) = Count(l, x) + 1
<1> DEFINE b == Append(l, t)
           n == Stale(l, x)
<1>1. /\ b \in Seq(Nat) /\ Len(b) = Len(l) + 1 /\ Len(l) \in Nat
      /\ \A j \in 1..Len(l) : b[j] = l[j]
      /\ b[Len(l) + 1] = t
  OBVIOUS
<1>2. n \in 0..Len(l) /\ (\A k \in 1..n : l[k] < x) /\ (n < Len(l) => l[n + 1] >= x)
  BY StaleCounts
<1> HIDE DEF b, n
<1>3. n \in 0..Len(b) /\ \A k \in 1..n : b[k] < x
  <2>1. n \in 0..Len(b)
    BY <1>1, <1>2
  <2>2. ASSUME NEW k \in 1..n PROVE b[k] < x
    <3>1. k \in 1..Len(l)
      BY <1>1, <1>2
    <3> QED BY <1>1, <1>2, <3>1
  <2> QED BY <2>1, <2>2
<1>4. b[n + 1] >= x
  <2>1. CASE n < Len(l)
    <3>1. n + 1 \in 1..Len(l)
      BY <1>1, <1>2, <2>1
    <3> QED BY <1>1, <1>2, <2>1, <3>1
  <2>2. CASE n = Len(l)
    BY <1>1, <2>2
  <2> QED BY <1>1, <1>2, <2>1, <2>2
<1>5. Stale(b, x) = n
  BY <1>1, <1>3, <1>4, StaleIs
<1>6. Len(b) - n = Len(l) - n + 1
  BY <1>1, <1>2
<1> QED BY <1>5, <1>6 DEF Count, b, n

(* and one before x, in a list of no later ones, does not count.           *)
LEMMA CountAllOld ==
    ASSUME NEW l \in Seq(Nat), NEW x \in Int, \A j \in 1..Len(l) : l[j] < x
    PROVE  Count(l, x) = 0
<1>1. Len(l) \in Nat /\ Len(l) \in 0..Len(l) /\ ~(Len(l) < Len(l))
  OBVIOUS
<1>2. Stale(l, x) = Len(l)
  BY <1>1, StaleIs
<1> QED BY <1>1, <1>2 DEF Count

(* A list that begins at or after x counts whole.                          *)
LEMMA CountWhole ==
    ASSUME NEW l \in Seq(Nat), NEW x \in Int, Len(l) > 0 => l[1] >= x
    PROVE  Count(l, x) = Len(l)
<1>1. Len(l) \in Nat /\ 0 \in 0..Len(l) /\ \A k \in 1..0 : l[k] < x
  OBVIOUS
<1>2. 0 < Len(l) => l[0 + 1] >= x
  BY <1>1
<1>3. Stale(l, x) = 0
  BY <1>1, <1>2, StaleIs
<1> QED BY <1>1, <1>3 DEF Count

-----------------------------------------------------------------------------
(* Sweeps.                                                                 *)

(* No timestamp is ahead of the clock.                                     *)
Seen(l, t) == \A j \in 1..Len(l) : l[j] <= t

ListsSeen ==
    \A s \in States : Seen(secondTs[s], now) /\ Seen(minuteTs[s], now)

(* What the second's list has of the last minute, the minute's list has.   *)
Covers(min, sec, t) ==
    \A k \in 1..Len(sec) : sec[k] + Minute >= t =>
        \E j \in 1..Len(min) : min[j] = sec[k]

ListsCovered == \A s \in States : Covers(minuteTs[s], secondTs[s], now)

Active(ts, cutoff) == \E k \in 1..Len(ts) : ts[k] >= cutoff

(* What the janitor has looked at and kept is not idle.                    *)
Swept ==
    janitor.at = "sweeping" =>
        \A a \in Addrs :
            ips[a] # None /\ a \notin janitor.todo /\ a # janitor.victim =>
                Active(minuteTs[ips[a]], janitor.cutoff)

LEMMA SeenPrune ==
    ASSUME NEW ts \in Seq(Nat), NEW cutoff \in Int, NEW t \in Nat, Seen(ts, t)
    PROVE  Seen(pruneOlderThan(ts, cutoff), t)
BY PruneSubset DEF Seen

LEMMA AppendFacts ==
    ASSUME NEW l \in Seq(Nat), NEW t \in Nat
    PROVE  /\ Append(l, t) \in Seq(Nat) /\ Len(Append(l, t)) = Len(l) + 1 /\ Len(l) \in Nat
           /\ \A j \in 1..Len(l) : Append(l, t)[j] = l[j]
           /\ Append(l, t)[Len(l) + 1] = t
OBVIOUS

LEMMA SeenAppend ==
    ASSUME NEW l \in Seq(Nat), NEW t \in Nat, Seen(l, t)
    PROVE  Seen(Append(l, t), t)
<1> DEFINE b == Append(l, t)
<1>1. /\ Len(b) = Len(l) + 1 /\ Len(l) \in Nat
      /\ \A j \in 1..Len(l) : b[j] = l[j]
      /\ b[Len(l) + 1] = t
  BY AppendFacts
<1> HIDE DEF b
<1>2. ASSUME NEW j \in 1..Len(b) PROVE b[j] <= t
  <2>1. CASE j \in 1..Len(l)
    BY <1>1, <2>1 DEF Seen
  <2>2. CASE j = Len(l) + 1
    BY <1>1, <2>2
  <2> QED BY <1>1, <2>1, <2>2
<1> QED BY <1>2 DEF Seen, b

LEMMA CoversPrune ==
    ASSUME NEW min \in Seq(Nat), NEW sec \in Seq(Nat), NEW t \in Nat,
           Covers(min, sec, t)
    PROVE  Covers(pruneOlderThan(min, t - Minute), pruneOlderThan(sec, t - Second), t)
<1> DEFINE p == pruneOlderThan(min, t - Minute)
           q == pruneOlderThan(sec, t - Second)
<1>1. Minute \in Nat /\ t - Minute \in Int /\ t - Second \in Int
  BY WindowsAssumption
<1> SUFFICES ASSUME NEW k \in 1..Len(q), q[k] + Minute >= t
             PROVE  \E j \in 1..Len(p) : p[j] = q[k]
  BY DEF Covers
<1>2. PICK i \in 1..Len(sec) : q[k] = sec[i]
  BY <1>1, PruneSubset
<1>3. PICK j \in 1..Len(min) : min[j] = q[k]
  <2> HIDE DEF q
  <2> QED BY <1>2 DEF Covers
<1>4. min[j] \in Nat
  OBVIOUS
<1>5. min[j] >= t - Minute
  <2> HIDE DEF q
  <2> QED BY <1>1, <1>3, <1>4
<1>6. \E i2 \in 1..Len(p) : p[i2] = min[j]
  BY <1>1, <1>5, PruneKeeps
<1> HIDE DEF p, q
<1> QED BY <1>3, <1>6

LEMMA CoversAppend ==
    ASSUME NEW min \in Seq(Nat), NEW sec \in Seq(Nat), NEW t \in Nat,
           Covers(min, sec, t)
    PROVE  Covers(Append(min, t), Append(sec, t), t)
<1> DEFINE b == Append(min, t)
           d == Append(sec, t)
<1>1. /\ Len(b) = Len(min) + 1 /\ Len(min) \in Nat
      /\ \A j \in 1..Len(min) : b[j] = min[j]
      /\ b[Len(min) + 1] = t
  BY AppendFacts
<1>2. /\ Len(d) = Len(sec) + 1 /\ Len(sec) \in Nat
      /\ \A j \in 1..Len(sec) : d[j] = sec[j]
      /\ d[Len(sec) + 1] = t
  BY AppendFacts
<1> HIDE DEF b, d
<1>3. ASSUME NEW k \in 1..Len(d), d[k] + Minute >= t PROVE \E j \in 1..Len(b) : b[j] = d[k]
  <2>1. CASE k \in 1..Len(sec)
    <3>1. d[k] = sec[k] /\ sec[k] + Minute >= t
      BY <1>2, <1>3, <2>1
    <3>2. PICK j \in 1..Len(min) : min[j] = sec[k]
      BY <2>1, <3>1 DEF Covers
    <3>3. j \in 1..Len(b) /\ b[j] = d[k]
      BY <1>1, <3>1, <3>2
    <3> QED BY <3>3
  <2>2. CASE k = Len(sec) + 1
    <3>1. Len(min) + 1 \in 1..Len(b) /\ b[Len(min) + 1] = d[k]
      BY <1>1, <1>2, <2>2
    <3> QED BY <3>1
  <2> QED BY <1>2, <2>1, <2>2
<1> QED BY <1>3 DEF Covers, b, d

(* Whoever is refused has an entry of the last minute.                     *)
LEMMA FullIsActive ==
    ASSUME NEW min \in Seq(Nat), NEW sec \in Seq(Nat), NEW t \in Nat,
           NEW perSecond \in Nat, NEW perMinute \in Nat,
           Covers(pruneOlderThan(min, t - Minute), pruneOlderThan(sec, t - Second), t),
           \/ Full(pruneOlderThan(sec, t - Second), perSecond)
           \/ Full(pruneOlderThan(min, t - Minute), perMinute)
    PROVE  Active(pruneOlderThan(min, t - Minute), t - Minute)
<1> DEFINE p == pruneOlderThan(min, t - Minute)
           q == pruneOlderThan(sec, t - Second)
<1>1. Minute \in Nat /\ Second \in Nat /\ Second <= Minute
      /\ t - Minute \in Int /\ t - Second \in Int
  BY WindowsAssumption
<1>2. p \in Seq(Nat) /\ (Len(p) > 0 => p[1] >= t - Minute)
  BY <1>1, PruneFacts
<1>3. q \in Seq(Nat) /\ (Len(q) > 0 => q[1] >= t - Second)
  BY <1>1, PruneFacts
<1>4. Covers(p, q, t) /\ (Full(q, perSecond) \/ Full(p, perMinute))
  OBVIOUS
<1> HIDE DEF p, q
<1>5. CASE Full(p, perMinute)
  <2>1. 1 \in 1..Len(p) /\ p[1] >= t - Minute
    BY <1>2, <1>5 DEF Full
  <2> QED BY <2>1 DEF Active, p
<1>6. CASE Full(q, perSecond)
  <2>1. 1 \in 1..Len(q) /\ q[1] >= t - Second /\ q[1] \in Nat
    BY <1>3, <1>6 DEF Full
  <2>2. q[1] + Minute >= t /\ q[1] >= t - Minute
    BY <1>1, <2>1
  <2>3. PICK j \in 1..Len(p) : p[j] = q[1]
    BY <1>4, <2>1, <2>2 DEF Covers
  <2> QED BY <2>2, <2>3 DEF Active, p
<1> QED BY <1>4, <1>5, <1>6

LEMMA AppendIsActive ==
    ASSUME NEW l \in Seq(Nat), NEW t \in Nat, NEW cutoff \in Int, cutoff <= t
    PROVE  Active(Append(l, t), cutoff)
<1> DEFINE b == Append(l, t)
<1>1. Len(b) = Len(l) + 1 /\ Len(l) \in Nat /\ b[Len(l) + 1] = t
  BY AppendFacts
<1> HIDE DEF b
<1>2. Len(l) + 1 \in 1..Len(b) /\ b[Len(l) + 1] >= cutoff
  BY <1>1
<1> QED BY <1>2 DEF Active, b

LEMMA ActiveEarlier ==
    ASSUME NEW l \in Seq(Nat), NEW x \in Int, NEW y \in Int, y <= x, Active(l, x)
    PROVE  Active(l, y)
<1>1. PICK k \in 1..Len(l) : l[k] >= x
  BY DEF Active
<1>2. l[k] \in Nat
  OBVIOUS
<1>3. l[k] >= y
  BY <1>1, <1>2
<1> QED BY <1>3 DEF Active

(* What Decide leaves in the ipState it uses.                              *)
LEMMA DecideLists ==
    ASSUME TypeOK, ListsSeen, ListsCovered, NEW c \in Callers, Decide(c)
    PROVE  LET s == call[c].state IN
           /\ s \in States
           /\ Seen(secondTs'[s], now) /\ Seen(minuteTs'[s], now)
           /\ Covers(minuteTs'[s], secondTs'[s], now)
           /\ Active(minuteTs'[s], now - Minute)
           /\ \A r \in States \ {s} : secondTs'[r] = secondTs[r] /\ minuteTs'[r] = minuteTs[r]
<1> DEFINE s == call[c].state
           sec == pruneOlderThan(secondTs[s], now - Second)
           min == pruneOlderThan(minuteTs[s], now - Minute)
<1>1. s \in States
  BY DEF TypeOK, Decide, Call
<1>2. /\ now \in Nat /\ Second \in Nat /\ Minute \in Nat
      /\ secondTs[s] \in Seq(Nat) /\ minuteTs[s] \in Seq(Nat)
      /\ now - Second \in Int /\ now - Minute \in Int /\ now - Minute <= now
  BY <1>1, ClockAssumption, WindowsAssumption DEF TypeOK
<1>3. sec \in Seq(Nat)
  BY <1>2, PruneType
<1>4. min \in Seq(Nat)
  BY <1>2, PruneType
<1>5. Seen(sec, now)
  BY <1>1, <1>2, SeenPrune DEF ListsSeen
<1>6. Seen(min, now)
  BY <1>1, <1>2, SeenPrune DEF ListsSeen
<1>7. Covers(min, sec, now)
  BY <1>1, <1>2, CoversPrune DEF ListsCovered
<1>8. Full(sec, RequestsPerSecond) \/ Full(min, RequestsPerMinute) => Active(min, now - Minute)
  BY <1>2, <1>7, FullIsActive, CapsAssumption
<1>9. \/ /\ Full(sec, RequestsPerSecond) \/ Full(min, RequestsPerMinute)
         /\ Refuse(c, sec, min)
      \/ Admit(c, sec, min)
  BY DEF Decide
<1> HIDE DEF sec, min
<1>10. CASE /\ Full(sec, RequestsPerSecond) \/ Full(min, RequestsPerMinute)
            /\ Refuse(c, sec, min)
  <2>1. secondTs' = [secondTs EXCEPT ![s] = sec] /\ minuteTs' = [minuteTs EXCEPT ![s] = min]
    BY <1>10 DEF Refuse
  <2>2. /\ secondTs'[s] = sec /\ minuteTs'[s] = min
        /\ \A r \in States \ {s} : secondTs'[r] = secondTs[r] /\ minuteTs'[r] = minuteTs[r]
    BY <1>1, <2>1 DEF TypeOK
  <2> QED BY <1>1, <1>5, <1>6, <1>7, <1>8, <1>10, <2>2
<1>11. CASE Admit(c, sec, min)
  <2>1. /\ secondTs' = [secondTs EXCEPT ![s] = Append(sec, now)]
        /\ minuteTs' = [minuteTs EXCEPT ![s] = Append(min, now)]
    BY <1>11 DEF Admit
  <2>2. /\ secondTs'[s] = Append(sec, now) /\ minuteTs'[s] = Append(min, now)
        /\ \A r \in States \ {s} : secondTs'[r] = secondTs[r] /\ minuteTs'[r] = minuteTs[r]
    BY <1>1, <2>1 DEF TypeOK
  <2>3. Seen(Append(sec, now), now) /\ Seen(Append(min, now), now)
    BY <1>2, <1>3, <1>4, <1>5, <1>6, SeenAppend
  <2>4. Covers(Append(min, now), Append(sec, now), now)
    BY <1>2, <1>3, <1>4, <1>7, CoversAppend
  <2>5. Active(Append(min, now), now - Minute)
    BY <1>2, <1>4, AppendIsActive
  <2> QED BY <1>1, <2>2, <2>3, <2>4, <2>5
<1> QED BY <1>9, <1>10, <1>11

LEMMA DecideSweep ==
    ASSUME TypeOK, SweepSound, ListsSeen, ListsCovered, Swept, NEW c \in Callers, Decide(c)
    PROVE  ListsSeen' /\ ListsCovered' /\ Swept'
<1> DEFINE s == call[c].state
<1>1. /\ s \in States
      /\ Seen(secondTs'[s], now) /\ Seen(minuteTs'[s], now)
      /\ Covers(minuteTs'[s], secondTs'[s], now)
      /\ Active(minuteTs'[s], now - Minute)
      /\ \A r \in States \ {s} : secondTs'[r] = secondTs[r] /\ minuteTs'[r] = minuteTs[r]
  BY DecideLists
<1>2. UNCHANGED <<now, ips, janitor>>
  BY DEF Decide
<1> HIDE DEF s
<1>3. ListsSeen'
  BY <1>1, <1>2 DEF ListsSeen
<1>4. ListsCovered'
  BY <1>1, <1>2 DEF ListsCovered
<1>5. ASSUME janitor.at = "sweeping", NEW a \in Addrs, ips[a] # None,
             a \notin janitor.todo, a # janitor.victim
      PROVE  Active(minuteTs'[ips[a]], janitor.cutoff)
  <2>1. ips[a] \in States
    BY <1>5 DEF TypeOK
  <2>2. CASE ips[a] = s
    <3>1. janitor.cutoff \in Int /\ now - Minute \in Int /\ janitor.cutoff <= now - Minute
      <4>1. janitor.cutoff + Minute <= now
        BY <1>5 DEF SweepSound
      <4>2. janitor.cutoff \in Int /\ now \in Nat /\ Minute \in Nat
        BY ClockAssumption, WindowsAssumption DEF TypeOK, Janitor
      <4> QED BY <4>1, <4>2
    <3>2. minuteTs'[s] \in Seq(Nat)
      <4>1. TypeOK'
        BY DecideTypeOK
      <4> QED BY <1>1, <4>1 DEF TypeOK
    <3> QED BY <1>1, <2>2, <3>1, <3>2, ActiveEarlier
  <2>3. CASE ips[a] # s
    BY <1>1, <1>5, <2>1, <2>3 DEF Swept
  <2> QED BY <2>2, <2>3
<1>6. Swept'
  BY <1>2, <1>5 DEF Swept
<1> QED BY <1>3, <1>4, <1>6

LEMMA CreateSweep ==
    ASSUME TypeOK, ListsSeen, ListsCovered, Swept, NEW c \in Callers, Create(c)
    PROVE  ListsSeen' /\ ListsCovered' /\ Swept'
<1>1. UNCHANGED <<now, janitor>> /\ janitor.at # "sweeping"
  BY DEF Create, MapFree
<1>2. PICK s \in States : /\ secondTs' = [secondTs EXCEPT ![s] = << >>]
                          /\ minuteTs' = [minuteTs EXCEPT ![s] = << >>]
  BY DEF Create
<1>3. /\ secondTs'[s] = << >> /\ minuteTs'[s] = << >> /\ Len(<< >>) = 0
      /\ \A r \in States \ {s} : secondTs'[r] = secondTs[r] /\ minuteTs'[r] = minuteTs[r]
  BY <1>2 DEF TypeOK
<1>4. Seen(<< >>, now) /\ Covers(<< >>, << >>, now)
  BY <1>3 DEF Seen, Covers
<1>5. ListsSeen'
  BY <1>1, <1>3, <1>4 DEF ListsSeen
<1>6. ListsCovered'
  BY <1>1, <1>3, <1>4 DEF ListsCovered
<1> QED BY <1>1, <1>5, <1>6 DEF Swept

LEMMA TickSweep ==
    ASSUME TypeOK, ListsSeen, ListsCovered, Swept, Tick
    PROVE  ListsSeen' /\ ListsCovered' /\ Swept'
<1>1. now \in Nat /\ now' = now + 1 /\ Minute \in Nat
  BY ClockAssumption, WindowsAssumption DEF TypeOK, Tick
<1>2. UNCHANGED <<ips, secondTs, minuteTs, janitor>>
  BY DEF Tick
<1>3. ASSUME NEW l \in Seq(Nat), Seen(l, now) PROVE Seen(l, now')
  <2> SUFFICES ASSUME NEW j \in 1..Len(l) PROVE l[j] <= now'
    BY DEF Seen
  <2>1. l[j] \in Nat /\ l[j] <= now
    BY <1>3 DEF Seen
  <2> QED BY <1>1, <2>1
<1>4. ASSUME NEW l \in Seq(Nat), NEW m, Covers(m, l, now) PROVE Covers(m, l, now')
  <2> SUFFICES ASSUME NEW k \in 1..Len(l), l[k] + Minute >= now' PROVE \E j \in 1..Len(m) : m[j] = l[k]
    BY DEF Covers
  <2>1. l[k] \in Nat
    OBVIOUS
  <2>2. l[k] + Minute >= now
    BY <1>1, <2>1
  <2> QED BY <1>4, <2>2 DEF Covers
<1>5. \A s \in States : secondTs[s] \in Seq(Nat) /\ minuteTs[s] \in Seq(Nat)
  BY DEF TypeOK
<1>6. ListsSeen'
  BY <1>2, <1>3, <1>5 DEF ListsSeen
<1>7. ListsCovered'
  BY <1>2, <1>4, <1>5 DEF ListsCovered
<1>8. Swept'
  BY <1>2 DEF Swept
<1> QED BY <1>6, <1>7, <1>8

LEMMA InspectSweep ==
    ASSUME TypeOK, SweepSound, Swept, NEW a \in Addrs, Inspect(a)
    PROVE  Swept'
<1>1. UNCHANGED <<ips, minuteTs>> /\ a \in janitor.todo /\ janitor.victim = None
      /\ janitor.at = "sweeping"
  BY DEF Inspect
<1>2. /\ janitor'.cutoff = janitor.cutoff /\ janitor'.todo = janitor.todo \ {a}
      /\ janitor'.victim = IF Idle(minuteTs[ips[a]], janitor.cutoff) THEN a ELSE None
  BY DEF Inspect, TypeOK, Janitor
<1>3. ASSUME ips[a] # None, a # janitor'.victim PROVE Active(minuteTs[ips[a]], janitor.cutoff)
  <2> DEFINE ts == minuteTs[ips[a]]
  <2>1. ts \in Seq(Nat) /\ janitor.cutoff \in Int
    BY <1>3 DEF TypeOK, Janitor
  <2>2. ~Idle(ts, janitor.cutoff)
    BY <1>2, <1>3
  <2> HIDE DEF ts
  <2>3. Len(ts) \in 1..Len(ts)
    BY <2>1, <2>2 DEF Idle
  <2>4. ts[Len(ts)] \in Nat /\ ~(ts[Len(ts)] < janitor.cutoff)
    BY <2>1, <2>2, <2>3 DEF Idle
  <2>5. ts[Len(ts)] >= janitor.cutoff
    BY <2>1, <2>4
  <2> QED BY <2>3, <2>5 DEF Active, ts
<1>4. ASSUME NEW b \in Addrs, ips[b] # None, b \notin janitor'.todo, b # janitor'.victim
      PROVE  Active(minuteTs[ips[b]], janitor.cutoff)
  <2>1. CASE b = a
    BY <1>3, <1>4, <2>1
  <2>2. CASE b # a
    <3>1. b \notin janitor.todo /\ b # janitor.victim
      BY <1>1, <1>2, <1>4, <2>2, NoneAssumption
    <3> QED BY <1>1, <1>4, <3>1 DEF Swept
  <2> QED BY <2>1, <2>2
<1> QED BY <1>1, <1>2, <1>4 DEF Swept

LEMMA EvictSweep ==
    ASSUME TypeOK, Swept, Evict
    PROVE  Swept'
<1>1. minuteTs' = minuteTs /\ janitor.victim \in Addrs
  BY DEF Evict, TypeOK, Janitor
<1>2. /\ janitor'.at = janitor.at /\ janitor'.cutoff = janitor.cutoff
      /\ janitor'.todo = janitor.todo /\ janitor'.victim = None
  BY DEF Evict, TypeOK, Janitor
<1>3. \A b \in Addrs : ips'[b] = IF b = janitor.victim THEN None ELSE ips[b]
  BY <1>1 DEF Evict, TypeOK
<1> QED BY <1>1, <1>2, <1>3 DEF Swept

SweepInv == IInv /\ ListsSeen /\ ListsCovered /\ Swept

LEMMA InitSweepInv == Init => SweepInv
<1> SUFFICES ASSUME Init PROVE ListsSeen /\ ListsCovered /\ Swept
  BY InitIInv DEF SweepInv
<1>1. \A s \in States : secondTs[s] = << >> /\ minuteTs[s] = << >> /\ Len(<< >>) = 0
  BY DEF Init
<1>2. Seen(<< >>, now) /\ Covers(<< >>, << >>, now)
  BY DEF Seen, Covers
<1> QED BY <1>1, <1>2 DEF Init, ListsSeen, ListsCovered, Swept

LEMMA NextSweepInv == SweepInv /\ [Next]_vars => SweepInv'
<1> SUFFICES ASSUME SweepInv, [Next]_vars PROVE ListsSeen' /\ ListsCovered' /\ Swept'
  BY NextIInv DEF SweepInv
<1>0. TypeOK /\ SweepSound /\ ListsSeen /\ ListsCovered /\ Swept
  BY DEF SweepInv, IInv
<1>1. CASE Tick
  BY <1>0, <1>1, TickSweep
<1>2. ASSUME NEW c \in Callers, Create(c) PROVE ListsSeen' /\ ListsCovered' /\ Swept'
  BY <1>0, <1>2, CreateSweep
<1>3. ASSUME NEW c \in Callers, Decide(c) PROVE ListsSeen' /\ ListsCovered' /\ Swept'
  BY <1>0, <1>3, DecideSweep
<1>4. ASSUME UNCHANGED <<now, secondTs, minuteTs>> PROVE ListsSeen' /\ ListsCovered'
  BY <1>0, <1>4 DEF ListsSeen, ListsCovered
<1>5. ASSUME NEW a \in Addrs, Inspect(a) PROVE ListsSeen' /\ ListsCovered' /\ Swept'
  <2>1. Swept'
    BY <1>0, <1>5, InspectSweep
  <2> QED BY <1>4, <1>5, <2>1 DEF Inspect
<1>6. CASE Evict
  <2>1. Swept'
    BY <1>0, <1>6, EvictSweep
  <2> QED BY <1>4, <1>6, <2>1 DEF Evict
<1>7. CASE EvictIdle \/ UnlockMap
  <2>1. janitor'.at # "sweeping"
    BY <1>0, <1>7 DEF EvictIdle, UnlockMap, TypeOK, Janitor
  <2>2. UNCHANGED <<now, secondTs, minuteTs>>
    BY <1>7 DEF EvictIdle, UnlockMap
  <2> QED BY <1>4, <2>1, <2>2 DEF Swept
<1>8. CASE LockMap
  <2>1. ips' = ips /\ janitor'.todo = {a \in Addrs : ips[a] # None}
    BY <1>0, <1>8 DEF LockMap, TypeOK, Janitor
  <2>2. UNCHANGED <<now, secondTs, minuteTs>>
    BY <1>8 DEF LockMap
  <2> QED BY <1>4, <2>1, <2>2 DEF Swept
<1>9. CASE UNCHANGED <<now, ips, secondTs, minuteTs, janitor>>
  BY <1>0, <1>4, <1>9 DEF Swept
<1>10. ASSUME NEW c \in Callers, NEW a \in Addrs, Lookup(c, a)
       PROVE  UNCHANGED <<now, ips, secondTs, minuteTs, janitor>>
  BY <1>10 DEF Lookup
<1>11. ASSUME NEW c \in Callers, Found(c)
       PROVE  UNCHANGED <<now, ips, secondTs, minuteTs, janitor>>
  BY <1>11 DEF Found
<1> QED BY <1>1, <1>2, <1>3, <1>5, <1>6, <1>7, <1>8, <1>9, <1>10, <1>11
        DEF Next, Serve, Sweep, vars

(* Only UnlockMap ends a sweep.                                            *)
LEMMA SweepStep ==
    ASSUME SweepInv, [Next]_vars, janitor.at = "sweeping", janitor'.at = "idle"
    PROVE  janitor.todo = {} /\ janitor.victim = None
<1>0. TypeOK
  BY DEF SweepInv, IInv
<1>1. ASSUME janitor' = janitor PROVE FALSE
  BY <1>1
<1>2. ASSUME NEW c \in Callers, Serve(c) PROVE janitor' = janitor
  BY <1>2 DEF Serve, Found, Create, Decide
<1>3. ASSUME NEW c \in Callers, NEW a \in Addrs, Lookup(c, a) PROVE janitor' = janitor
  BY <1>3 DEF Lookup
<1>4. ASSUME NEW a \in Addrs, Inspect(a) PROVE janitor'.at = "sweeping"
  BY <1>0, <1>4 DEF Inspect, TypeOK, Janitor
<1>5. ASSUME Evict PROVE janitor'.at = "sweeping"
  BY <1>0, <1>5 DEF Evict, TypeOK, Janitor
<1>6. ~EvictIdle /\ ~LockMap
  BY DEF EvictIdle, LockMap
<1>7. CASE UnlockMap
  BY <1>7 DEF UnlockMap
<1>8. ASSUME Tick PROVE janitor' = janitor
  BY <1>8 DEF Tick
<1> QED BY <1>1, <1>2, <1>3, <1>4, <1>5, <1>6, <1>7, <1>8 DEF Next, Sweep, vars

(* For any number of addresses: a sweep leaves nothing in the map that was *)
(* idle at its cutoff, although the map is frozen only while it runs and   *)
(* the lists change under their own locks meanwhile. A refused request     *)
(* keeps its address active, for its window is full.                       *)
(* (evictIdle, Allow.)                                                     *)
THEOREM SweepsForget == Spec => SweepForgets
<1> DEFINE Left == janitor.at = "sweeping" /\ janitor'.at = "idle" =>
                     \A a \in Addrs : ips[a] # None =>
                         \E k \in DOMAIN minuteTs[ips[a]] : minuteTs[ips[a]][k] >= janitor.cutoff
<1>1. ASSUME SweepInv, [Next]_vars PROVE Left
  <2> SUFFICES ASSUME janitor.at = "sweeping", janitor'.at = "idle", NEW a \in Addrs, ips[a] # None
               PROVE  \E k \in DOMAIN minuteTs[ips[a]] : minuteTs[ips[a]][k] >= janitor.cutoff
    OBVIOUS
  <2>1. janitor.todo = {} /\ janitor.victim = None
    BY <1>1, SweepStep
  <2>2. Active(minuteTs[ips[a]], janitor.cutoff)
    BY <1>1, <2>1, NoneAssumption DEF SweepInv, Swept
  <2>3. minuteTs[ips[a]] \in Seq(Nat)
    BY <1>1 DEF SweepInv, IInv, TypeOK
  <2>4. DOMAIN minuteTs[ips[a]] = 1..Len(minuteTs[ips[a]])
    BY <2>3
  <2> QED BY <2>2, <2>4 DEF Active
<1>2. SweepInv /\ [Next]_vars => [Left]_vars
  BY <1>1
<1> HIDE DEF Left
<1>3. Spec => [][Left]_vars
  BY <1>2, InitSweepInv, NextSweepInv, PTL DEF Spec
<1> QED BY <1>3 DEF SweepForgets, Left

-----------------------------------------------------------------------------
(* Refusals.                                                               *)

(* a uses s: the map has s for it, or a caller does.                       *)
Uses(a, s) ==
    \/ ips[a] = s
    \/ \E c \in Callers : call[c].at = "lock" /\ call[c].state = s /\ call[c].ip = a

OneUser == \A a, b \in Addrs, s \in States : Uses(a, s) /\ Uses(b, s) => a = b

(* Whatever is in a list of a was admitted: no count of it is higher than  *)
(* the one of the two logs together.                                       *)
Accounted(ts, l, m) == \A x \in Int : Count(ts, x) <= Count(l, x) + Count(m, x)

ListsAccounted ==
    \A a \in Addrs, s \in States :
        Uses(a, s) => /\ Accounted(secondTs[s], log[a], late[a])
                      /\ Accounted(minuteTs[s], log[a], late[a])

LEMMA DecideCall ==
    ASSUME TypeOK, NEW c \in Callers, Decide(c)
    PROVE  ips' = ips /\ \A d \in Callers : call'[d] = call[d] \/ call'[d].at # "lock"
BY DEF Decide, Admit, Refuse, Goto, TypeOK

(* But for Create, no step gives an ipState a new user,                    *)
LEMMA UsesKept ==
    ASSUME TypeOK, NEW a \in Addrs, NEW s \in States, Uses(a, s)',
           \/ \E c \in Callers, b \in Addrs : Lookup(c, b)
           \/ \E c \in Callers : Found(c) \/ Decide(c)
           \/ Tick \/ EvictIdle \/ Sweep \/ UNCHANGED vars
    PROVE  Uses(a, s)
<1>1. ASSUME NEW c \in Callers, NEW b \in Addrs, Lookup(c, b) PROVE Uses(a, s)
  <2>1. /\ ips' = ips
        /\ \A d \in Callers : d # c => call'[d] = call[d]
        /\ call'[c].ip = b /\ call'[c].state = ips[b]
    BY <1>1 DEF Lookup, Goto, TypeOK
  <2> QED BY <2>1 DEF Uses
<1>2. ASSUME NEW c \in Callers, Found(c) PROVE Uses(a, s)
  <2>1. /\ ips' = ips
        /\ \A d \in Callers : d # c => call'[d] = call[d]
        /\ call'[c].ip = call[c].ip /\ call'[c].state = ips[call[c].ip]
    BY <1>2 DEF Found, Goto, TypeOK
  <2> QED BY <2>1 DEF Uses
<1>3. ASSUME NEW c \in Callers, Decide(c) PROVE Uses(a, s)
  <2>1. ips' = ips /\ \A d \in Callers : call'[d] = call[d] \/ call'[d].at # "lock"
    BY <1>3, DecideCall
  <2> QED BY <2>1 DEF Uses
<1>4. CASE Evict
  <2>1. call' = call /\ \A b \in Addrs : ips'[b] = ips[b] \/ ips'[b] = None
    BY <1>4 DEF Evict, TypeOK
  <2>2. s # None
    BY NoneAssumption
  <2> QED BY <2>1, <2>2 DEF Uses
<1>5. CASE UNCHANGED <<ips, call>>
  BY <1>5 DEF Uses
<1>6. ASSUME NEW b \in Addrs, Inspect(b) PROVE UNCHANGED <<ips, call>>
  BY <1>6 DEF Inspect
<1> QED BY <1>1, <1>2, <1>3, <1>4, <1>5, <1>6 DEF Sweep, Tick, EvictIdle, LockMap, UnlockMap, vars

(* and Create gives it to the caller's address alone, with empty lists.    *)
LEMMA CreateUses ==
    ASSUME TypeOK, NEW c \in Callers, Create(c), NEW a \in Addrs, NEW s \in States, Uses(a, s)'
    PROVE  \/ Uses(a, s) /\ secondTs'[s] = secondTs[s] /\ minuteTs'[s] = minuteTs[s]
           \/ /\ \A b \in Addrs : Uses(b, s)' => b = a
              /\ secondTs'[s] = << >> /\ minuteTs'[s] = << >>
<1> DEFINE o == call[c].ip
<1>1. o \in Addrs
  BY DEF TypeOK, Create, Call
<1>2. PICK r \in States : /\ Fresh(r)
                          /\ ips' = [ips EXCEPT ![o] = r]
                          /\ secondTs' = [secondTs EXCEPT ![r] = << >>]
                          /\ minuteTs' = [minuteTs EXCEPT ![r] = << >>]
                          /\ Goto(c, "lock", o, r)
  BY DEF Create
<1>3. \A b \in Addrs : ips[b] # r /\ ips'[b] = IF b = o THEN r ELSE ips[b]
  BY <1>1, <1>2 DEF Fresh, TypeOK
<1>4. \A d \in Callers : call[d].at = "lock" => call[d].state # r
  BY <1>2 DEF Fresh, Busy
<1>5. /\ \A d \in Callers : d # c => call'[d] = call[d]
      /\ call'[c].ip = o /\ call'[c].state = r
  BY <1>2 DEF Goto, TypeOK
<1> HIDE DEF o
<1>6. CASE s = r
  <2>1. \A b \in Addrs : Uses(b, s)' => b = o
    BY <1>3, <1>4, <1>5, <1>6 DEF Uses
  <2>2. secondTs'[s] = << >> /\ minuteTs'[s] = << >>
    BY <1>2, <1>6 DEF TypeOK
  <2> QED BY <2>1, <2>2
<1>7. CASE s # r
  <2>1. Uses(a, s)
    BY <1>3, <1>5, <1>7 DEF Uses
  <2>2. secondTs'[s] = secondTs[s] /\ minuteTs'[s] = minuteTs[s]
    BY <1>2, <1>7 DEF TypeOK
  <2> QED BY <2>1, <2>2
<1> QED BY <1>6, <1>7

LEMMA NextOneUser ==
    ASSUME TypeOK, OneUser, [Next]_vars
    PROVE  OneUser'
<1> SUFFICES ASSUME NEW a \in Addrs, NEW b \in Addrs, NEW s \in States, Uses(a, s)', Uses(b, s)'
             PROVE  a = b
  BY DEF OneUser
<1>1. ASSUME NEW c \in Callers, Create(c) PROVE a = b
  <2>1. CASE \A d \in Addrs : Uses(d, s)' => d = a
    BY <2>1
  <2>2. CASE \A d \in Addrs : Uses(d, s)' => d = b
    BY <2>2
  <2>3. Uses(a, s) \/ \A d \in Addrs : Uses(d, s)' => d = a
    BY <1>1, CreateUses
  <2>4. Uses(b, s) \/ \A d \in Addrs : Uses(d, s)' => d = b
    BY <1>1, CreateUses
  <2> QED BY <2>1, <2>2, <2>3, <2>4 DEF OneUser
<1>2. CASE \/ \E c \in Callers, d \in Addrs : Lookup(c, d)
           \/ \E c \in Callers : Found(c) \/ Decide(c)
           \/ Tick \/ EvictIdle \/ Sweep \/ UNCHANGED vars
  <2>1. Uses(a, s) /\ Uses(b, s)
    BY <1>2, UsesKept
  <2> QED BY <2>1 DEF OneUser
<1> QED BY <1>1, <1>2 DEF Next, Serve

LEMMA AccountedPrune ==
    ASSUME NEW ts \in Seq(Nat), NEW l \in Seq(Nat), NEW m \in Seq(Nat), NEW cutoff \in Int,
           Accounted(ts, l, m)
    PROVE  Accounted(pruneOlderThan(ts, cutoff), l, m)
<1> SUFFICES ASSUME NEW x \in Int
             PROVE  Count(pruneOlderThan(ts, cutoff), x) <= Count(l, x) + Count(m, x)
  BY DEF Accounted
<1>1. Count(pruneOlderThan(ts, cutoff), x) <= Count(ts, x)
  BY CountPrune
<1>2. Count(ts, x) <= Count(l, x) + Count(m, x)
  BY DEF Accounted
<1>3. Count(l, x) \in Nat /\ Count(m, x) \in Nat /\ Count(ts, x) \in Nat
  BY CountType
<1>4. Count(pruneOlderThan(ts, cutoff), x) \in Nat
  BY PruneType, CountType
<1> QED BY <1>1, <1>2, <1>3, <1>4

(* A request that is written down in the list and in a log.                *)
LEMMA AccountedAppend ==
    ASSUME NEW ts \in Seq(Nat), NEW l \in Seq(Nat), NEW m \in Seq(Nat), NEW t \in Nat,
           Seen(ts, t), Accounted(ts, l, m)
    PROVE  /\ Accounted(Append(ts, t), Append(l, t), m)
           /\ Accounted(Append(ts, t), l, Append(m, t))
<1> DEFINE b == Append(ts, t)
           d == Append(l, t)
           e == Append(m, t)
<1>1. b \in Seq(Nat) /\ d \in Seq(Nat) /\ e \in Seq(Nat)
  BY AppendFacts
<1>2. ASSUME NEW x \in Int
      PROVE  /\ Count(b, x) <= Count(d, x) + Count(m, x)
             /\ Count(b, x) <= Count(l, x) + Count(e, x)
  <2>1. Count(l, x) \in Nat /\ Count(m, x) \in Nat /\ Count(ts, x) \in Nat
    BY CountType
  <2>2. Count(d, x) \in Nat /\ Count(e, x) \in Nat
    BY <1>1, CountType
  <2>3. CASE t >= x
    <3>1. Count(b, x) = Count(ts, x) + 1
      BY <2>3, CountAppend
    <3>2. Count(d, x) = Count(l, x) + 1
      BY <2>3, CountAppend
    <3>3. Count(e, x) = Count(m, x) + 1
      BY <2>3, CountAppend
    <3>4. Count(ts, x) <= Count(l, x) + Count(m, x)
      BY DEF Accounted
    <3> HIDE DEF b, d, e
    <3> QED BY <2>1, <3>1, <3>2, <3>3, <3>4
  <2>4. CASE t < x
    <3>1. Seen(b, t)
      BY SeenAppend
    <3> HIDE DEF b, d, e
    <3>2. ASSUME NEW j \in 1..Len(b) PROVE b[j] < x
      <4>1. b[j] <= t /\ b[j] \in Nat
        BY <1>1, <3>1 DEF Seen
      <4> QED BY <2>4, <4>1
    <3>3. Count(b, x) = 0
      BY <1>1, <3>2, CountAllOld
    <3> QED BY <2>1, <2>2, <3>3
  <2> QED BY <2>3, <2>4
<1> HIDE DEF b, d, e
<1>3. Accounted(b, d, m) /\ Accounted(b, l, e)
  BY <1>2 DEF Accounted
<1> QED BY <1>3 DEF b, d, e

(* A longer log has no less to account with.                               *)
LEMMA CountGrows ==
    ASSUME NEW l \in Seq(Nat), NEW t \in Nat, NEW x \in Int
    PROVE  Count(l, x) <= Count(Append(l, t), x)
<1> DEFINE b == Append(l, t)
           n == Stale(l, x)
<1>1. /\ b \in Seq(Nat) /\ Len(b) = Len(l) + 1 /\ Len(l) \in Nat
      /\ \A j \in 1..Len(l) : b[j] = l[j]
  BY AppendFacts
<1>2. n \in 0..Len(l) /\ (\A k \in 1..n : l[k] < x) /\ (n < Len(l) => l[n + 1] >= x)
  BY StaleCounts
<1> HIDE DEF b, n
<1>3. CASE n = Len(l)
  <2>1. Count(l, x) = 0
    BY <1>1, <1>3 DEF Count, n
  <2>2. Count(b, x) \in Nat
    BY <1>1, CountType
  <2> QED BY <2>1, <2>2 DEF b
<1>4. CASE n < Len(l)
  <2>1. n + 1 \in 1..Len(l) /\ n \in 0..Len(b) /\ \A k \in 1..n : k \in 1..Len(l)
    BY <1>1, <1>2, <1>4
  <2>2. (\A k \in 1..n : b[k] < x) /\ b[n + 1] >= x
    BY <1>1, <1>2, <1>4, <2>1
  <2>3. Stale(b, x) = n
    BY <1>1, <2>1, <2>2, StaleIs
  <2>4. Len(l) - n <= Len(b) - n
    BY <1>1, <1>2
  <2> QED BY <2>3, <2>4 DEF Count, b, n
<1> QED BY <1>1, <1>2, <1>3, <1>4

LEMMA AccountedLonger ==
    ASSUME NEW ts \in Seq(Nat), NEW l \in Seq(Nat), NEW m \in Seq(Nat), NEW t \in Nat,
           Accounted(ts, l, m)
    PROVE  Accounted(ts, Append(l, t), m) /\ Accounted(ts, l, Append(m, t))
<1> DEFINE d == Append(l, t)
           e == Append(m, t)
<1>1. d \in Seq(Nat) /\ e \in Seq(Nat)
  BY AppendFacts
<1>2. ASSUME NEW x \in Int
      PROVE  /\ Count(ts, x) <= Count(d, x) + Count(m, x)
             /\ Count(ts, x) <= Count(l, x) + Count(e, x)
  <2>1. Count(l, x) \in Nat /\ Count(m, x) \in Nat /\ Count(ts, x) \in Nat
    BY CountType
  <2>2. Count(d, x) \in Nat /\ Count(e, x) \in Nat
    BY <1>1, CountType
  <2>3. Count(l, x) <= Count(d, x) /\ Count(m, x) <= Count(e, x)
    BY CountGrows
  <2>4. Count(ts, x) <= Count(l, x) + Count(m, x)
    BY DEF Accounted
  <2> HIDE DEF d, e
  <2> QED BY <2>1, <2>2, <2>3, <2>4
<1> HIDE DEF d, e
<1>3. Accounted(ts, d, m) /\ Accounted(ts, l, e)
  BY <1>2 DEF Accounted
<1> QED BY <1>3 DEF d, e

LEMMA CreateAccounted ==
    ASSUME TypeOK, ListsAccounted, NEW c \in Callers, Create(c)
    PROVE  ListsAccounted'
<1>1. UNCHANGED <<log, late>>
  BY DEF Create
<1>2. ASSUME NEW a \in Addrs PROVE Accounted(<< >>, log[a], late[a])
  <2> SUFFICES ASSUME NEW x \in Int PROVE Count(<< >>, x) <= Count(log[a], x) + Count(late[a], x)
    BY DEF Accounted
  <2>1. log[a] \in Seq(Nat) /\ late[a] \in Seq(Nat)
    BY DEF TypeOK
  <2>2. Count(log[a], x) \in Nat /\ Count(late[a], x) \in Nat
    BY <2>1, CountType
  <2>3. Count(<< >>, x) = 0
    BY CountEmpty
  <2> QED BY <2>2, <2>3
<1> SUFFICES ASSUME NEW a \in Addrs, NEW s \in States, Uses(a, s)'
             PROVE  /\ Accounted(secondTs'[s], log[a], late[a])
                    /\ Accounted(minuteTs'[s], log[a], late[a])
  BY <1>1 DEF ListsAccounted
<1>3. CASE Uses(a, s) /\ secondTs'[s] = secondTs[s] /\ minuteTs'[s] = minuteTs[s]
  BY <1>3 DEF ListsAccounted
<1>4. CASE secondTs'[s] = << >> /\ minuteTs'[s] = << >>
  BY <1>2, <1>4
<1> QED BY <1>3, <1>4, CreateUses

LEMMA DecideAccounted ==
    ASSUME TypeOK, ListsSeen, OneUser, ListsAccounted, NEW c \in Callers, Decide(c)
    PROVE  ListsAccounted'
<1> DEFINE s == call[c].state
           a == call[c].ip
           sec == pruneOlderThan(secondTs[s], now - Second)
           min == pruneOlderThan(minuteTs[s], now - Minute)
<1>1. s \in States /\ a \in Addrs /\ call[c].at = "lock"
  BY DEF TypeOK, Decide, Call
<1>2. /\ now \in Nat /\ log[a] \in Seq(Nat) /\ late[a] \in Seq(Nat)
      /\ secondTs[s] \in Seq(Nat) /\ minuteTs[s] \in Seq(Nat)
      /\ now - Second \in Int /\ now - Minute \in Int
  BY <1>1, ClockAssumption, WindowsAssumption DEF TypeOK
<1>3. Uses(a, s)
  BY <1>1 DEF Uses
<1>4. sec \in Seq(Nat) /\ Seen(sec, now) /\ Accounted(sec, log[a], late[a])
  <2>1. Seen(secondTs[s], now) /\ Accounted(secondTs[s], log[a], late[a])
    BY <1>1, <1>3 DEF ListsSeen, ListsAccounted
  <2> QED BY <1>2, <2>1, PruneType, SeenPrune, AccountedPrune
<1>5. min \in Seq(Nat) /\ Seen(min, now) /\ Accounted(min, log[a], late[a])
  <2>1. Seen(minuteTs[s], now) /\ Accounted(minuteTs[s], log[a], late[a])
    BY <1>1, <1>3 DEF ListsSeen, ListsAccounted
  <2> QED BY <1>2, <2>1, PruneType, SeenPrune, AccountedPrune
<1>6. Refuse(c, sec, min) \/ Admit(c, sec, min)
  BY DEF Decide
<1> HIDE DEF sec, min
<1>7. ASSUME NEW b \in Addrs, NEW r \in States, Uses(b, r)'
      PROVE  /\ Uses(b, r)
             /\ r = s => b = a
             /\ Accounted(secondTs[r], log[b], late[b])
             /\ Accounted(minuteTs[r], log[b], late[b])
  <2>1. Uses(b, r)
    BY <1>7, UsesKept
  <2> QED BY <1>1, <1>3, <2>1 DEF OneUser, ListsAccounted
<1>8. CASE Refuse(c, sec, min)
  <2>1. UNCHANGED <<log, late>>
    BY <1>8 DEF Refuse
  <2>2. /\ secondTs'[s] = sec /\ minuteTs'[s] = min
        /\ \A r \in States \ {s} : secondTs'[r] = secondTs[r] /\ minuteTs'[r] = minuteTs[r]
    BY <1>1, <1>8 DEF Refuse, TypeOK
  <2> QED BY <1>4, <1>5, <1>7, <2>1, <2>2 DEF ListsAccounted
<1>9. CASE Admit(c, sec, min)
  <2> DEFINE x == Append(sec, now)
             y == Append(min, now)
             l == log'[a]
             m == late'[a]
  <2>1. /\ secondTs'[s] = x /\ minuteTs'[s] = y
        /\ \A r \in States \ {s} : secondTs'[r] = secondTs[r] /\ minuteTs'[r] = minuteTs[r]
    BY <1>1, <1>9 DEF Admit, TypeOK
  <2>2. \/ l = Append(log[a], now) /\ m = late[a]
        \/ l = log[a] /\ m = Append(late[a], now)
    BY <1>1, <1>9 DEF Admit, TypeOK
  <2>3. \A b \in Addrs \ {a} : log'[b] = log[b] /\ late'[b] = late[b]
    BY <1>1, <1>9 DEF Admit, TypeOK
  <2> HIDE DEF l, m
  <2>4. Accounted(x, l, m)
    BY <1>2, <1>4, <2>2, AccountedAppend
  <2>5. Accounted(y, l, m)
    BY <1>2, <1>5, <2>2, AccountedAppend
  <2>6. ASSUME NEW ts \in Seq(Nat), Accounted(ts, log[a], late[a]) PROVE Accounted(ts, l, m)
    BY <1>2, <2>2, <2>6, AccountedLonger
  <2> HIDE DEF x, y
  <2>7. ASSUME NEW b \in Addrs, NEW r \in States, Uses(b, r)'
        PROVE  /\ Accounted(secondTs'[r], log'[b], late'[b])
               /\ Accounted(minuteTs'[r], log'[b], late'[b])
    <3>1. CASE b = a /\ r = s
      BY <2>1, <2>4, <2>5, <3>1 DEF l, m
    <3>2. CASE b = a /\ r # s
      <4>1. secondTs[r] \in Seq(Nat) /\ minuteTs[r] \in Seq(Nat)
        BY DEF TypeOK
      <4>2. Accounted(secondTs[r], log[a], late[a]) /\ Accounted(minuteTs[r], log[a], late[a])
        BY <1>7, <2>7, <3>2
      <4>3. Accounted(secondTs[r], l, m) /\ Accounted(minuteTs[r], l, m)
        BY <2>6, <4>1, <4>2
      <4> QED BY <2>1, <3>2, <4>3 DEF l, m
    <3>3. CASE b # a
      <4>1. r # s
        BY <1>7, <2>7, <3>3
      <4> QED BY <1>7, <2>1, <2>3, <2>7, <3>3, <4>1
    <3> QED BY <3>1, <3>2, <3>3
  <2> QED BY <2>7 DEF ListsAccounted
<1> QED BY <1>6, <1>8, <1>9

RefusalInv == SweepInv /\ OneUser /\ ListsAccounted

LEMMA InitRefusalInv == Init => RefusalInv
<1> SUFFICES ASSUME Init PROVE OneUser /\ ListsAccounted
  BY InitSweepInv DEF RefusalInv
<1>1. ASSUME NEW a \in Addrs, NEW s \in States PROVE ~Uses(a, s)
  BY NoneAssumption DEF Init, Uses
<1> QED BY <1>1 DEF OneUser, ListsAccounted

LEMMA NextRefusalInv == RefusalInv /\ [Next]_vars => RefusalInv'
<1> SUFFICES ASSUME RefusalInv, [Next]_vars PROVE OneUser' /\ ListsAccounted'
  BY NextSweepInv DEF RefusalInv
<1>0. TypeOK /\ ListsSeen /\ OneUser /\ ListsAccounted
  BY DEF RefusalInv, SweepInv, IInv
<1>1. OneUser'
  BY <1>0, NextOneUser
<1>2. ASSUME NEW c \in Callers, Create(c) PROVE ListsAccounted'
  BY <1>0, <1>2, CreateAccounted
<1>3. ASSUME NEW c \in Callers, Decide(c) PROVE ListsAccounted'
  BY <1>0, <1>3, DecideAccounted
<1>4. CASE \/ \E c \in Callers, d \in Addrs : Lookup(c, d)
           \/ \E c \in Callers : Found(c)
           \/ Tick \/ EvictIdle \/ Sweep \/ UNCHANGED vars
  <2>1. UNCHANGED <<secondTs, minuteTs, log, late>>
    BY <1>4 DEF Lookup, Found, Tick, EvictIdle, Sweep, LockMap, Inspect, Evict, UnlockMap, vars
  <2>2. \A a \in Addrs, s \in States : Uses(a, s)' => Uses(a, s)
    BY <1>0, <1>4, UsesKept
  <2> QED BY <1>0, <1>1, <2>1, <2>2 DEF ListsAccounted
<1> QED BY <1>1, <1>2, <1>3, <1>4 DEF Next, Serve

(* The count of Reached is the one of the invariant.                       *)
LEMMA RecentCount ==
    ASSUME NEW ts \in Seq(Nat), NEW x \in Int
    PROVE  LET recent == {k \in DOMAIN ts : ts[k] >= x}
               least(S) == IF S = {} THEN 0 ELSE CHOOSE k \in S : \A j \in S : k <= j
           IN  Count(ts, x) = IF recent = {} THEN 0 ELSE Len(ts) - least(recent) + 1
<1> DEFINE recent == {k \in DOMAIN ts : ts[k] >= x}
           first == CHOOSE k \in recent : \A j \in recent : k <= j
           n == Stale(ts, x)
<1>1. Len(ts) \in Nat /\ DOMAIN ts = 1..Len(ts) /\ \A k \in 1..Len(ts) : ts[k] \in Nat
  OBVIOUS
<1>2. n \in 0..Len(ts) /\ (\A k \in 1..n : ts[k] < x) /\ (n < Len(ts) => ts[n + 1] >= x)
  BY StaleCounts
<1> HIDE DEF n
<1>3. CASE n = Len(ts)
  <2>1. recent = {}
    BY <1>1, <1>2, <1>3
  <2>2. Count(ts, x) = 0
    BY <1>1, <1>3 DEF Count, n
  <2> QED BY <2>1, <2>2
<1>4. CASE n < Len(ts)
  <2>1. n + 1 \in recent
    BY <1>1, <1>2, <1>4
  <2>2. ASSUME NEW k \in recent PROVE k \in Int /\ n + 1 <= k
    <3>1. k \in 1..Len(ts) /\ ts[k] >= x /\ ts[k] \in Nat
      BY <1>1
    <3>2. ~(k <= n)
      BY <1>1, <1>2, <3>1
    <3> QED BY <1>2, <3>1, <3>2
  <2> HIDE DEF recent
  <2>3. first \in recent /\ \A j \in recent : first <= j
    BY <2>1, <2>2
  <2> HIDE DEF first
  <2>4. first = n + 1
    <3>1. first <= n + 1 /\ n + 1 <= first /\ first \in Int
      BY <2>1, <2>2, <2>3
    <3> QED BY <1>2, <3>1
  <2>5. Len(ts) - n = Len(ts) - first + 1
    BY <1>1, <1>2, <2>4
  <2>6. recent # {} /\ Count(ts, x) = Len(ts) - first + 1
    BY <2>1, <2>5 DEF Count, n
  <2> QED BY <2>6 DEF recent, first
<1>5. n \in Int /\ Len(ts) \in Int /\ n <= Len(ts)
  BY <1>1, <1>2
<1>6. n = Len(ts) \/ n < Len(ts)
  BY <1>5
<1> QED BY <1>3, <1>4, <1>6

(* A full list that is accounted for is a cap that was reached.            *)
LEMMA FullIsReached ==
    ASSUME TypeOK, NEW a \in Addrs, NEW ts \in Seq(Nat), NEW w \in Nat, NEW cap \in Nat,
           Accounted(ts, log[a], late[a]), Full(pruneOlderThan(ts, now - w), cap)
    PROVE  Reached(a, cap, w)
<1> DEFINE p == pruneOlderThan(ts, now - w)
           x == now - w
<1>1. /\ log[a] \in Seq(Nat) /\ late[a] \in Seq(Nat)
      /\ now - w \in Int
  BY ClockAssumption DEF TypeOK
<1>2. p \in Seq(Nat) /\ (Len(p) > 0 => p[1] >= x)
  BY <1>1, PruneFacts
<1>3. Count(p, x) <= Count(ts, x)
  BY <1>1, CountPrune
<1>4. cap > 0 /\ Len(p) >= cap /\ x \in Int
  BY <1>1 DEF Full
<1>5. Count(ts, x) <= Count(log[a], x) + Count(late[a], x)
  BY <1>1 DEF Accounted
<1> HIDE DEF p, x
<1>6. Count(p, x) = Len(p)
  BY <1>2, <1>4, CountWhole
<1>7. Count(log[a], x) \in Nat /\ Count(late[a], x) \in Nat /\ Count(ts, x) \in Nat /\ Len(p) \in Nat
  <2>1. \A l \in Seq(Nat) : Count(l, x) \in Nat
    BY <1>4, CountType
  <2> QED BY <1>1, <1>2, <2>1
<1>8. Count(log[a], x) + Count(late[a], x) >= cap
  BY <1>3, <1>4, <1>5, <1>6, <1>7
<1> DEFINE recent(l) == {k \in DOMAIN l : l[k] >= now - w}
           least(S) == IF S = {} THEN 0 ELSE CHOOSE k \in S : \A j \in S : k <= j
           count(l) == IF recent(l) = {} THEN 0 ELSE Len(l) - least(recent(l)) + 1
<1>9. Count(log[a], x) = count(log[a])
  BY <1>1, RecentCount DEF x
<1>10. Count(late[a], x) = count(late[a])
  BY <1>1, RecentCount DEF x
<1> HIDE DEF count
<1>11. cap > 0 /\ count(log[a]) + count(late[a]) >= cap
  BY <1>4, <1>8, <1>9, <1>10
<1> QED BY <1>11 DEF Reached, count

(* Only Decide refuses.                                                    *)
LEMMA RefusalStep ==
    ASSUME TypeOK, [Next]_vars, NEW c \in Callers,
           call[c].at = "lock", call'[c].at = "refused"
    PROVE  LET s == call[c].state IN
           \/ Full(pruneOlderThan(secondTs[s], now - Second), RequestsPerSecond)
           \/ Full(pruneOlderThan(minuteTs[s], now - Minute), RequestsPerMinute)
<1> DEFINE s == call[c].state
           sec == pruneOlderThan(secondTs[s], now - Second)
           min == pruneOlderThan(minuteTs[s], now - Minute)
<1>1. ASSUME NEW d \in Callers, NEW at, NEW a, NEW r, Goto(d, at, a, r), d # c \/ at # "refused"
      PROVE  FALSE
  BY <1>1 DEF Goto, TypeOK
<1>2. ASSUME NEW d \in Callers, Found(d) \/ Create(d) PROVE FALSE
  BY <1>1, <1>2 DEF Found, Create
<1>3. ASSUME NEW d \in Callers, NEW a \in Addrs, Lookup(d, a) PROVE FALSE
  <2>1. call[d].at # "lock" /\ d # c
    BY <1>3 DEF Lookup, Busy
  <2> QED BY <1>1, <1>3, <2>1 DEF Lookup
<1>4. ASSUME NEW d \in Callers, Decide(d) PROVE Full(sec, RequestsPerSecond) \/ Full(min, RequestsPerMinute)
  <2>1. CASE d # c
    BY <1>1, <1>4, <2>1 DEF Decide, Admit, Refuse
  <2>2. CASE d = c
    <3>1. Full(sec, RequestsPerSecond) \/ Full(min, RequestsPerMinute) \/ Admit(c, sec, min)
      BY <1>4, <2>2 DEF Decide
    <3> HIDE DEF sec, min
    <3>2. ~Admit(c, sec, min)
      BY <1>1 DEF Admit
    <3> QED BY <3>1, <3>2
  <2> QED BY <2>1, <2>2
<1>5. call' # call
  OBVIOUS
<1>6. \E d \in Callers : Serve(d) \/ \E a \in Addrs : Lookup(d, a)
  BY <1>5 DEF Next, Tick, EvictIdle, Sweep, LockMap, Inspect, Evict, UnlockMap, vars
<1> HIDE DEF sec, min
<1>7. Full(sec, RequestsPerSecond) \/ Full(min, RequestsPerMinute)
  BY <1>2, <1>3, <1>4, <1>6 DEF Serve
<1> QED BY <1>7 DEF sec, min

(* For any number of addresses and callers, any caps and windows: whoever  *)
(* is refused had really reached a cap with requests that were admitted,   *)
(* also when its ipState left the map while it waited for the lock.        *)
(* (Allow.)                                                                *)
THEOREM RefusalsHaveCause == Spec => RefusedForCause
<1> DEFINE Cause == \A c \in Callers :
                      call[c].at = "lock" /\ call'[c].at = "refused" =>
                          \/ Reached(call[c].ip, RequestsPerSecond, Second)
                          \/ Reached(call[c].ip, RequestsPerMinute, Minute)
<1>1. ASSUME RefusalInv, [Next]_vars, NEW c \in Callers,
             call[c].at = "lock", call'[c].at = "refused"
      PROVE  \/ Reached(call[c].ip, RequestsPerSecond, Second)
             \/ Reached(call[c].ip, RequestsPerMinute, Minute)
  <2> DEFINE s == call[c].state
             a == call[c].ip
  <2>1. TypeOK /\ ListsAccounted
    BY <1>1 DEF RefusalInv, SweepInv, IInv
  <2>2. s \in States /\ a \in Addrs
    BY <1>1, <2>1 DEF TypeOK, Call
  <2>3. secondTs[s] \in Seq(Nat) /\ minuteTs[s] \in Seq(Nat)
    BY <2>1, <2>2 DEF TypeOK
  <2>4. Uses(a, s)
    BY <1>1 DEF Uses
  <2>5. Accounted(secondTs[s], log[a], late[a]) /\ Accounted(minuteTs[s], log[a], late[a])
    BY <2>1, <2>2, <2>4 DEF ListsAccounted
  <2>6. \/ Full(pruneOlderThan(secondTs[s], now - Second), RequestsPerSecond)
        \/ Full(pruneOlderThan(minuteTs[s], now - Minute), RequestsPerMinute)
    BY <1>1, <2>1, RefusalStep
  <2> HIDE DEF s, a
  <2>7. CASE Full(pruneOlderThan(secondTs[s], now - Second), RequestsPerSecond)
    <3>1. Reached(a, RequestsPerSecond, Second)
      BY <2>1, <2>2, <2>3, <2>5, <2>7, FullIsReached, CapsAssumption, WindowsAssumption
    <3> QED BY <3>1 DEF a
  <2>8. CASE Full(pruneOlderThan(minuteTs[s], now - Minute), RequestsPerMinute)
    <3>1. Reached(a, RequestsPerMinute, Minute)
      BY <2>1, <2>2, <2>3, <2>5, <2>8, FullIsReached, CapsAssumption, WindowsAssumption
    <3> QED BY <3>1 DEF a
  <2> QED BY <2>6, <2>7, <2>8
<1>2. RefusalInv /\ [Next]_vars => [Cause]_vars
  BY <1>1
<1> HIDE DEF Cause
<1>3. Spec => [][Cause]_vars
  BY <1>2, InitRefusalInv, NextRefusalInv, PTL DEF Spec
<1> QED BY <1>3 DEF RefusedForCause, Cause
=============================================================================

----------------------------- MODULE RateLimit -----------------------------
(***************************************************************************)
(* The limiter of package ratelimit: per address, the times of the         *)
(* requests admitted in the last second and in the last minute. Goroutines *)
(* of net/http call Allow, the janitor drops addresses without traffic.    *)
(*                                                                         *)
(* An ipState is used under its own lock, found in the map under the map's *)
(* lock, and Allow holds only one of the two at a time: the state it found *)
(* may have left the map when it gets to use it. What happens under one    *)
(* lock is one step; the janitor holds the map's lock for many.            *)
(***************************************************************************)
EXTENDS Integers, Sequences

CONSTANTS
    Addrs,              \* client addresses
    Callers,            \* goroutines that call Allow
    States,             \* the ipStates there is memory for
    RequestsPerSecond,  \* the caps; 0 stands for no limit
    RequestsPerMinute,
    Second, Minute,     \* the windows, in units of the clock
    Period,             \* of the janitor's ticker
    MaxTime,            \* the clock stops here (bound of the model)
    None

ASSUME CapsAssumption    == RequestsPerSecond \in Nat /\ RequestsPerMinute \in Nat
ASSUME WindowsAssumption == Second \in Nat /\ Minute \in Nat /\ Second <= Minute
ASSUME ClockAssumption   == MaxTime \in Nat /\ Period \in Nat \ {0}
ASSUME NoneAssumption    == None \notin States \cup Addrs

VARIABLES
    now,               \* the clock
    ips,               \* ips[a]: the ipState of a in the map, or None
    secondTs, minuteTs,\* the fields of each ipState
    call,              \* call[c]: where c is in Allow, for which address,
                       \* with which ipState
    janitor,           \* where evictIdle is
    log,               \* history: log[a], when requests of a were admitted
                       \* through the ipState that the map had, and kept
    late               \* history: when they were through another

vars == <<now, ips, secondTs, minuteTs, call, janitor, log, late>>

Busy == {"create", "lock"}

Call == [at : {"idle", "allowed", "refused"}, ip : {None}, state : {None}]
        \cup [at : {"create"}, ip : Addrs, state : {None}]
        \cup [at : {"lock"}, ip : Addrs, state : States]

Janitor == [at : {"idle", "waiting", "sweeping"}, cutoff : Int, due : Nat,
            todo : SUBSET Addrs, victim : Addrs \cup {None}]

TypeOK ==
    /\ now \in 0..MaxTime
    /\ ips \in [Addrs -> States \cup {None}]
    /\ secondTs \in [States -> Seq(Nat)]
    /\ minuteTs \in [States -> Seq(Nat)]
    /\ call \in [Callers -> Call]
    /\ janitor \in Janitor
    /\ log \in [Addrs -> Seq(Nat)]
    /\ late \in [Addrs -> Seq(Nat)]

(* NewMemory.                                                              *)
Init ==
    /\ now = 0
    /\ ips = [a \in Addrs |-> None]
    /\ secondTs = [s \in States |-> << >>]
    /\ minuteTs = [s \in States |-> << >>]
    /\ call = [c \in Callers |-> [at |-> "idle", ip |-> None, state |-> None]]
    /\ janitor = [at |-> "idle", cutoff |-> 0, due |-> Period, todo |-> {}, victim |-> None]
    /\ log  = [a \in Addrs |-> << >>]
    /\ late = [a \in Addrs |-> << >>]

Tick ==
    /\ now < MaxTime
    /\ now' = now + 1
    /\ UNCHANGED <<ips, secondTs, minuteTs, call, janitor, log, late>>

-----------------------------------------------------------------------------
(* Allow.                                                                  *)

MapFree == janitor.at # "sweeping"

Goto(c, at, a, s) == call' = [call EXCEPT ![c] = [at |-> at, ip |-> a, state |-> s]]

(* Mutant: the map's answer is used without a look at ok.                  *)
LookupUnchecked(c, a) ==
    /\ call[c].at \notin Busy
    /\ MapFree
    /\ Goto(c, "lock", a, ips[a])
    /\ UNCHANGED <<now, ips, secondTs, minuteTs, janitor, log, late>>

(* The first half of state(): under the map's read lock.                   *)
Lookup(c, a) ==
    /\ call[c].at \notin Busy
    /\ MapFree
    /\ Goto(c, IF ips[a] # None THEN "lock" ELSE "create", a, ips[a])
    /\ UNCHANGED <<now, ips, secondTs, minuteTs, janitor, log, late>>

(* An ipState that nothing refers to.                                      *)
Fresh(s) == /\ \A a \in Addrs : ips[a] # s
            /\ \A c \in Callers : call[c].at \in Busy => call[c].state # s

(* The second half, under the write lock: another caller may have been     *)
(* here in between.                                                        *)
Found(c) ==
    /\ call[c].at = "create" /\ MapFree
    /\ ips[call[c].ip] # None
    /\ Goto(c, "lock", call[c].ip, ips[call[c].ip])
    /\ UNCHANGED <<now, ips, secondTs, minuteTs, janitor, log, late>>

(* Mutant: the map is not looked at again before a state is put in.        *)
CreateBlindly(c) ==
    /\ call[c].at = "create" /\ MapFree
    /\ \E s \in States :
          /\ Fresh(s)
          /\ ips' = [ips EXCEPT ![call[c].ip] = s]
          /\ secondTs' = [secondTs EXCEPT ![s] = << >>]
          /\ minuteTs' = [minuteTs EXCEPT ![s] = << >>]
          /\ Goto(c, "lock", call[c].ip, s)
    /\ UNCHANGED <<now, janitor, log, late>>

Create(c) ==
    /\ call[c].at = "create" /\ MapFree
    /\ ips[call[c].ip] = None
    /\ \E s \in States :
          /\ Fresh(s)
          /\ ips' = [ips EXCEPT ![call[c].ip] = s]
          /\ secondTs' = [secondTs EXCEPT ![s] = << >>]
          /\ minuteTs' = [minuteTs EXCEPT ![s] = << >>]
          /\ Goto(c, "lock", call[c].ip, s)
    /\ UNCHANGED <<now, janitor, log, late>>

(* The timestamps left of ts: the ones at the front that are before the    *)
(* cutoff go.                                                              *)
Stale(ts, cutoff) ==
    CHOOSE n \in 0..Len(ts) : /\ \A k \in 1..n : ts[k] < cutoff
                              /\ n < Len(ts) => ts[n + 1] >= cutoff

pruneOlderThan(ts, cutoff) == SubSeq(ts, Stale(ts, cutoff) + 1, Len(ts))

Full(ts, cap) == cap > 0 /\ Len(ts) >= cap

(* The map has, and keeps, the ipState that c uses.                        *)
Current(c) == ips[call[c].ip] = call[c].state /\ janitor.victim # call[c].ip

Admit(c, sec, min) ==
    LET s == call[c].state  a == call[c].ip IN
    /\ secondTs' = [secondTs EXCEPT ![s] = Append(sec, now)]
    /\ minuteTs' = [minuteTs EXCEPT ![s] = Append(min, now)]
    /\ IF Current(c)
         THEN log' = [log EXCEPT ![a] = Append(@, now)] /\ UNCHANGED late
         ELSE late' = [late EXCEPT ![a] = Append(@, now)] /\ UNCHANGED log
    /\ Goto(c, "allowed", None, None)

(* Mutant: refused requests are written down too.                          *)
RefuseCounts(c, sec, min) ==
    LET s == call[c].state IN
    /\ secondTs' = [secondTs EXCEPT ![s] = Append(sec, now)]
    /\ minuteTs' = [minuteTs EXCEPT ![s] = Append(min, now)]
    /\ Goto(c, "refused", None, None)
    /\ UNCHANGED <<log, late>>

Refuse(c, sec, min) ==
    LET s == call[c].state IN
    /\ secondTs' = [secondTs EXCEPT ![s] = sec]
    /\ minuteTs' = [minuteTs EXCEPT ![s] = min]
    /\ Goto(c, "refused", None, None)
    /\ UNCHANGED <<log, late>>

(* The rest of Allow, under the lock of the ipState; 429 if it says no.    *)
Decide(c) ==
    LET s   == call[c].state
        sec == pruneOlderThan(secondTs[s], now - Second)
        min == pruneOlderThan(minuteTs[s], now - Minute)
    IN
    /\ call[c].at = "lock"
    /\ IF Full(sec, RequestsPerSecond) \/ Full(min, RequestsPerMinute)
         THEN Refuse(c, sec, min)
         ELSE Admit(c, sec, min)
    /\ UNCHANGED <<now, ips, janitor>>

-----------------------------------------------------------------------------
(* The janitor.                                                            *)

(* evictIdle reads the clock before it has the lock.                       *)
EvictIdle ==
    /\ janitor.at = "idle" /\ now >= janitor.due
    /\ janitor' = [janitor EXCEPT !.at = "waiting", !.cutoff = now - Minute, !.due = @ + Period]
    /\ UNCHANGED <<now, ips, secondTs, minuteTs, call, log, late>>

LockMap ==
    /\ janitor.at = "waiting"
    /\ janitor' = [janitor EXCEPT !.at = "sweeping", !.todo = {a \in Addrs : ips[a] # None}]
    /\ UNCHANGED <<now, ips, secondTs, minuteTs, call, log, late>>

(* Mutant: the oldest timestamp decides instead of the newest.             *)
IdleByOldest(ts, cutoff) == ts = << >> \/ ts[1] < cutoff

Idle(ts, cutoff) == ts = << >> \/ ts[Len(ts)] < cutoff

(* The verdict is reached under the lock of the ipState, and carried out   *)
(* without it.                                                             *)
Inspect(a) ==
    /\ janitor.at = "sweeping" /\ janitor.victim = None
    /\ a \in janitor.todo
    /\ janitor' = [janitor EXCEPT !.todo = @ \ {a},
                                  !.victim = IF Idle(minuteTs[ips[a]], janitor.cutoff)
                                               THEN a ELSE None]
    /\ UNCHANGED <<now, ips, secondTs, minuteTs, call, log, late>>

(* Mutant: the entry stays in the map.                                     *)
EvictNothing ==
    /\ janitor.victim # None
    /\ janitor' = [janitor EXCEPT !.victim = None]
    /\ UNCHANGED <<now, ips, secondTs, minuteTs, call, log, late>>

Evict ==
    /\ janitor.victim # None
    /\ ips' = [ips EXCEPT ![janitor.victim] = None]
    /\ janitor' = [janitor EXCEPT !.victim = None]
    /\ UNCHANGED <<now, secondTs, minuteTs, call, log, late>>

(* Mutant: the loop over the map starts again.                             *)
KeepMap ==
    /\ janitor.at = "sweeping" /\ janitor.todo = {} /\ janitor.victim = None
    /\ janitor' = [janitor EXCEPT !.todo = {a \in Addrs : ips[a] # None}]
    /\ UNCHANGED <<now, ips, secondTs, minuteTs, call, log, late>>

UnlockMap ==
    /\ janitor.at = "sweeping" /\ janitor.todo = {} /\ janitor.victim = None
    /\ janitor' = [janitor EXCEPT !.at = "idle"]
    /\ UNCHANGED <<now, ips, secondTs, minuteTs, call, log, late>>

-----------------------------------------------------------------------------

Serve(c) == Found(c) \/ Create(c) \/ Decide(c)
Sweep    == LockMap \/ (\E a \in Addrs : Inspect(a)) \/ Evict \/ UnlockMap

Next ==
    \/ Tick
    \/ \E c \in Callers : Serve(c) \/ \E a \in Addrs : Lookup(c, a)
    \/ EvictIdle \/ Sweep

Spec == Init /\ [][Next]_vars

(* Goroutines that can run do; the janitor's loop over the map ends.       *)
Fairness == WF_vars(Sweep) /\ \A c \in Callers : WF_vars(Serve(c))

LiveSpec == Spec /\ Fairness

-----------------------------------------------------------------------------

(* cap requests and one more of an address take longer than the window.    *)
Spaced(ts, cap, window) ==
    cap > 0 => \A k \in 1..(Len(ts) - cap) : ts[k + cap] - ts[k] > window

(* No second and no minute, wherever they begin, have more admitted        *)
(* requests of an address than the caps, although every window is pruned   *)
(* on its own, states are made twice and dropped, and the janitor's cutoff *)
(* is old by the time it is used. This is about the requests in log: those *)
(* in late, whose state the janitor condemned or took out of the map while *)
(* they held it, are not counted, and nothing here bounds them.            *)
(* (Allow, pruneOlderThan, evictIdle.)                                     *)
WindowsHold ==
    \A a \in Addrs : /\ Spaced(log[a], RequestsPerSecond, Second)
                     /\ Spaced(log[a], RequestsPerMinute, Minute)

(* At least cap requests of a were admitted in the window that ends now.   *)
Reached(a, cap, window) ==
    LET recent(ts) == {k \in DOMAIN ts : ts[k] >= now - window}
        least(S)   == IF S = {} THEN 0 ELSE CHOOSE k \in S : \A j \in S : k <= j
        count(ts)  == IF recent(ts) = {} THEN 0 ELSE Len(ts) - least(recent(ts)) + 1
    IN  cap > 0 /\ count(log[a]) + count(late[a]) >= cap

(* A request is only refused when a cap was really reached by requests     *)
(* that were let through: refused ones do not count, so a client that      *)
(* keeps asking is served again when its window has passed.                *)
(* (Allow returns false before it appends.)                                *)
RefusedForCause ==
    [][\A c \in Callers :
          call[c].at = "lock" /\ call'[c].at = "refused" =>
              \/ Reached(call[c].ip, RequestsPerSecond, Second)
              \/ Reached(call[c].ip, RequestsPerMinute, Minute)]_vars

(* When a sweep ends, the map has only addresses with traffic since the    *)
(* cutoff: memory does not grow with the addresses ever seen.              *)
(* (NewMemory: "evicts idle IP entries".)                                  *)
SweepForgets ==
    [][janitor.at = "sweeping" /\ janitor'.at = "idle" =>
          \A a \in Addrs : ips[a] # None =>
              \E k \in DOMAIN minuteTs[ips[a]] : minuteTs[ips[a]][k] >= janitor.cutoff]_vars

(* Every call of Allow returns: no caller waits for a lock that is never   *)
(* released. (The two locks of state, Allow and evictIdle.)                *)
AllowReturns == \A c \in Callers : call[c].at \in Busy ~> call[c].at \notin Busy
=============================================================================

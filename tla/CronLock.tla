------------------------------ MODULE CronLock ------------------------------
(***************************************************************************)
(* One scheduled routine behind @CronLock, run by every instance of the    *)
(* API:                                                                    *)
(*   apps/api/src/common/redis/cron-lock.decorator.ts                      *)
(*   apps/api/src/common/redis/redis.service.ts (acquireLock, releaseLock) *)
(*                                                                         *)
(* The lock is a key of Redis that expires; an instance without Redis      *)
(* falls back to a lock in its own memory.  A run that succeeds leaves the *)
(* key to expire, one that fails deletes it and tries again after a wait.  *)
(* Time is counted by timers, in units as long as one likes.               *)
(***************************************************************************)
EXTENDS Integers

CONSTANTS
    Instances,     \* processes of the API
    Runs,          \* calls of the routine that may be in progress
    Home,          \* the instance a call belongs to
    Ttl, Period,   \* life of the lock, interval of the cron
    MaxRun,        \* an attempt of the routine lasts at most this long
    Retries, Backoff,
    Flaky,         \* instances that may lose Redis and find it again
    MidRun         \* they may lose it while a call is in progress

ASSUME CronAssumption ==
    /\ Home \in [Runs -> Instances]
    /\ {Ttl, Period, MaxRun, Backoff} \subseteq Nat \ {0} /\ Retries \in Nat
    /\ Flaky \subseteq Instances /\ MidRun \in BOOLEAN

VARIABLES
    key,        \* time the key in Redis still lives, 0 when there is none
    memory,     \* the same of the lock in the memory of each instance
    connected,  \* isConnected of each instance
    due,        \* time until the next firing of the cron in each instance
    job,        \* the calls in progress
    quiet       \* history: until when the last success forbids another run

cronVars == <<key, memory, connected, due, job, quiet>>

NoRun == [at |-> "idle", attempt |-> 0, age |-> 0]
Running(n) == [at |-> "running", attempt |-> n, age |-> 0]
Live == {r \in Runs : job[r].at \in {"running", "failing"}}

Loses(i) == i \in Flaky /\ MidRun

Init ==
    /\ key = 0
    /\ memory = [i \in Instances |-> 0]
    /\ connected = [i \in Instances |-> TRUE]
    /\ due \in [Instances -> 0..Period]
    /\ job = [r \in Runs |-> NoRun]
    /\ quiet = 0

(* Slip: SET without NX. *)
AcquireLockAnyway(i, got) ==
    got /\ key' = Ttl /\ memory' = [memory EXCEPT ![i] = Ttl]

(* SET NX PX, or the lock in memory when Redis is away or does not answer;  *)
(* a command that was not answered may have been executed.                  *)
AcquireLock(i, got) ==
    \/ /\ connected[i]
       /\ got = (key = 0)
       /\ key' = IF got THEN Ttl ELSE key
       /\ UNCHANGED memory
    \/ /\ ~connected[i] \/ Loses(i)
       /\ got = (memory[i] = 0)
       /\ memory' = IF got THEN [memory EXCEPT ![i] = Ttl] ELSE memory
       /\ key' \in {key} \cup IF connected[i] /\ key = 0 THEN {Ttl} ELSE {}

(* Whoever holds it, the lock is deleted. *)
ReleaseLock(i) ==
    /\ memory' = [memory EXCEPT ![i] = 0]
    /\ IF connected[i] THEN key' \in {0} \cup IF Loses(i) THEN {key} ELSE {}
                       ELSE key' = key

Fire(r) ==
    LET i == Home[r] IN
    /\ due[i] = 0 /\ job[r] = NoRun
    /\ due' = [due EXCEPT ![i] = Period]
    /\ \E got \in BOOLEAN :
         /\ AcquireLock(i, got)
         /\ job' = IF got THEN [job EXCEPT ![r] = Running(0)] ELSE job
    /\ UNCHANGED <<connected, quiet>>

(* Slip: a run that succeeded gives the lock back as well. *)
SucceedAndRelease(r) ==
    /\ job[r].at = "running"
    /\ job' = [job EXCEPT ![r] = NoRun]
    /\ quiet' = IF Home[r] \notin Flaky /\ job[r].age < Ttl THEN Ttl - job[r].age ELSE quiet
    /\ ReleaseLock(Home[r])
    /\ UNCHANGED <<connected, due>>

Succeed(r) ==
    /\ job[r].at = "running"
    /\ job' = [job EXCEPT ![r] = NoRun]
    /\ quiet' = IF Home[r] \notin Flaky /\ job[r].age < Ttl THEN Ttl - job[r].age ELSE quiet
    /\ UNCHANGED <<key, memory, connected, due>>

Fail(r) ==
    /\ job[r].at = "running"
    /\ job' = [job EXCEPT ![r].at = "failing"]
    /\ UNCHANGED <<key, memory, connected, due, quiet>>

(* Slip: one retry too many. *)
GiveBackOnceMore(r) ==
    /\ job[r].at = "failing"
    /\ ReleaseLock(Home[r])
    /\ job' = [job EXCEPT ![r] =
                 IF job[r].attempt <= Retries
                 THEN [at |-> "waiting", attempt |-> job[r].attempt, age |-> 0]
                 ELSE NoRun]
    /\ UNCHANGED <<connected, due, quiet>>

GiveBack(r) ==
    /\ job[r].at = "failing"
    /\ ReleaseLock(Home[r])
    /\ job' = [job EXCEPT ![r] =
                 IF job[r].attempt < Retries
                 THEN [at |-> "waiting", attempt |-> job[r].attempt, age |-> 0]
                 ELSE NoRun]
    /\ UNCHANGED <<connected, due, quiet>>

Wait(r) == Backoff * 2 ^ job[r].attempt

Retry(r) ==
    /\ job[r].at = "waiting" /\ job[r].age = Wait(r)
    /\ \E got \in BOOLEAN :
         /\ AcquireLock(Home[r], got)
         /\ job' = [job EXCEPT ![r] = IF got THEN Running(job[r].attempt + 1) ELSE NoRun]
    /\ UNCHANGED <<connected, due, quiet>>

(* The process of an instance ends and starts again. *)
Restart(i) ==
    /\ \E r \in Runs : Home[r] = i /\ job[r] # NoRun
    /\ job' = [r \in Runs |-> IF Home[r] = i THEN NoRun ELSE job[r]]
    /\ memory' = [memory EXCEPT ![i] = 0]
    /\ UNCHANGED <<key, connected, due, quiet>>

(* The events ready, close and error of the connection. *)
Connection(i) ==
    /\ i \in Flaky
    /\ MidRun \/ \A r \in Runs : Home[r] = i => job[r] = NoRun
    /\ connected' = [connected EXCEPT ![i] = ~connected[i]]
    /\ UNCHANGED <<key, memory, due, job, quiet>>

Less(n) == IF n = 0 THEN 0 ELSE n - 1

(* Slip: the key in Redis has no expiry. *)
TickForEver ==
    /\ \A i \in Instances : due[i] > 0
    /\ \A r \in Runs : /\ r \in Live => job[r].age < MaxRun
                       /\ job[r].at = "waiting" => job[r].age < Wait(r)
    /\ memory' = [i \in Instances |-> Less(memory[i])]
    /\ due' = [i \in Instances |-> Less(due[i])]
    /\ job' = [r \in Runs |-> IF job[r] = NoRun THEN NoRun
                              ELSE [job[r] EXCEPT !.age = @ + 1]]
    /\ quiet' = Less(quiet)
    /\ UNCHANGED <<key, connected>>

(* A unit of time passes; nothing is put off longer than its bound. *)
Tick ==
    /\ \A i \in Instances : due[i] > 0
    /\ \A r \in Runs : /\ r \in Live => job[r].age < MaxRun
                       /\ job[r].at = "waiting" => job[r].age < Wait(r)
    /\ key' = Less(key)
    /\ memory' = [i \in Instances |-> Less(memory[i])]
    /\ due' = [i \in Instances |-> Less(due[i])]
    /\ job' = [r \in Runs |-> IF job[r] = NoRun THEN NoRun
                              ELSE [job[r] EXCEPT !.age = @ + 1]]
    /\ quiet' = Less(quiet)
    /\ UNCHANGED connected

Next ==
    \/ \E r \in Runs : Fire(r) \/ Succeed(r) \/ Fail(r) \/ GiveBack(r) \/ Retry(r)
    \/ \E i \in Instances : Restart(i) \/ Connection(i)
    \/ Tick

Spec == Init /\ [][Next]_cronVars

(* The scheduler fires, an attempt ends, its error is handled, time passes. *)
FairSpec ==
    /\ Spec
    /\ WF_cronVars(Tick) /\ WF_cronVars(\E r \in Runs : Fire(r))
    /\ \A r \in Runs : WF_cronVars(Succeed(r) \/ Fail(r)) /\ WF_cronVars(GiveBack(r))
                       /\ WF_cronVars(Retry(r))

-----------------------------------------------------------------------------
(* Timers stay within their bounds and calls in the stages of the code. *)
TypeOK ==
    /\ key \in 0..Ttl
    /\ memory \in [Instances -> 0..Ttl]
    /\ connected \in [Instances -> BOOLEAN]
    /\ due \in [Instances -> 0..Period]
    /\ job \in [Runs -> [at : {"idle", "running", "failing", "waiting"},
                         attempt : 0..Retries, age : Nat]]
    /\ quiet \in 0..Ttl

Stable(r) == Home[r] \notin Flaky

(* The routine never runs twice at the same time in one instance, with or    *)
(* without Redis (cron-lock.decorator.ts:26), nor in two instances that keep *)
(* Redis (:21), whatever fails, retries and restarts, while an attempt is    *)
(* shorter than the lock and no connection is lost during a call.            *)
RunsAlone ==
    \A r, s \in Live : Home[r] = Home[s] \/ (Stable(r) /\ Stable(s)) => r = s

(* After a run that succeeded nobody runs again until the lock it took has   *)
(* expired: a later firing, or a call that was waiting to try again, finds   *)
(* the key (cron-lock.decorator.ts:23), as long as they have Redis.          *)
NotRepeated ==
    [][\A r \in Live' \ Live : Stable(r) => quiet = 0]_cronVars

(* No failure, restart or loss of Redis leaves the routine locked out for    *)
(* ever: it runs again and again (cron-lock.decorator.ts:25).                *)
RunsAgain == []<>(\E r \in Runs : job[r].at = "running")

(* The same promise as RunsAlone within one instance, with no condition:     *)
(* "o lock impede sobreposicao dentro do processo" (redis.service.ts:45).    *)
AloneInInstance == \A r, s \in Live : Home[r] = Home[s] => r = s
=============================================================================

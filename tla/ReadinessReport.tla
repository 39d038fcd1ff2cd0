--------------------------- MODULE ReadinessReport ---------------------------
(***************************************************************************)
(* The readiness report of the workers.  Each worker writes, on every      *)
(* heartbeat, which execution gates its environment meets to one Redis     *)
(* key; the Control API reads the key when /readyz is asked, judges the    *)
(* report by its age and keeps the verdict for a few seconds.  Workers     *)
(* come and go with different environments and clocks, writes and reads    *)
(* fail, and the flag that opens execution is turned on by an operator who *)
(* ran the check.  Time passes in ticks; a heartbeat falls due in time.    *)
(***************************************************************************)
EXTENDS Integers

CONSTANTS
    Workers,     \* worker replicas
    Gates,       \* EXECUTION_GATE_IDS
    Egress,      \* the gate that a recorded date opens
    HeartbeatMs, \* HEARTBEAT_MS, in ticks
    MaxAgeMs,    \* WORKER_READINESS_MAX_AGE_MS, in ticks
    CacheMs,     \* how long a verdict is kept, in ticks
    Skews,       \* how far the clock of a worker may be ahead of that of the API
    None         \* no report, no verdict

Ttl == 2 * MaxAgeMs

(* What the constants satisfy; the modules that instantiate this one assume it. *)
ReadinessAssumption ==
    /\ Egress \in Gates /\ Skews \subseteq Int
    /\ HeartbeatMs \in Nat \ {0} /\ MaxAgeMs \in Nat \ {0} /\ CacheMs \in Nat \ {0}
    /\ HeartbeatMs < MaxAgeMs /\ \A met \in SUBSET Gates : met # None

VARIABLES
    env,      \* the gates the environment of a running worker meets, or None
    dated,    \* the workers whose recorded egress probe lies in the future
    skew,     \* how far the clock of each worker is ahead
    beat,     \* the ticks to the next heartbeat of each worker
    redis,    \* Redis can be reached
    key,      \* the report under the Redis key, with its true age
    enabled,  \* RUN_EXECUTION_ENABLED
    cached,   \* #cached
    answer,   \* what /readyz was just answered
    lastFull  \* history: the age of the newest report that met every gate

vars == <<env, dated, skew, beat, redis, key, enabled, cached, answer, lastFull>>
workers == <<env, dated, skew, beat>>

Running == {w \in Workers : env[w] # None}
Never == Ttl + CacheMs
Older(n) == IF n < Never THEN n + 1 ELSE n

Verdicts == [failing : SUBSET Gates, enabled : BOOLEAN]
TypeOK ==
    /\ env \in [Workers -> (SUBSET Gates) \union {None}] /\ dated \subseteq Running
    /\ skew \in [Workers -> Skews] /\ beat \in [Workers -> 0 .. HeartbeatMs]
    /\ key \in [met : SUBSET Gates, by : Workers, age : 0 .. Ttl - 1] \union {None}
    /\ redis \in BOOLEAN /\ enabled \in BOOLEAN /\ lastFull \in 0 .. Never
    /\ cached \in [verdict : Verdicts, age : 0 .. CacheMs - 1] \union {None}
    /\ answer \in Verdicts \union {None}

Init ==
    /\ env = [w \in Workers |-> None] /\ dated = {}
    /\ skew \in [Workers -> Skews] /\ beat = [w \in Workers |-> 0]
    /\ redis = TRUE /\ key = None /\ enabled = FALSE /\ cached = None /\ answer = None /\ lastFull = Never

-----------------------------------------------------------------------------
(* Workers *)

(* A worker starts with the environment it was deployed with; its first report is due at once. *)
StartPublisher(w, met, later) ==
    /\ w \notin Running /\ (later => Egress \in met)
    /\ env' = [env EXCEPT ![w] = met] /\ beat' = [beat EXCEPT ![w] = 0]
    /\ dated' = IF later THEN dated \union {w} ELSE dated
    /\ answer' = None
    /\ UNCHANGED <<skew, redis, key, enabled, cached, lastFull>>

(* It shuts down or dies; the key outlives it. *)
StopPublisher(w) ==
    /\ w \in Running
    /\ env' = [env EXCEPT ![w] = None] /\ dated' = dated \ {w}
    /\ answer' = None
    /\ UNCHANGED <<skew, beat, redis, key, enabled, cached, lastFull>>

(* A recorded probe counts once its date is not in the future. *)
DateComes(w) ==
    /\ w \in dated /\ dated' = dated \ {w} /\ answer' = None
    /\ UNCHANGED <<env, skew, beat, redis, key, enabled, cached, lastFull>>

Met(w) == IF w \in dated THEN env[w] \ {Egress} ELSE env[w]

(* A heartbeat; a failed write is reported and left to the next one. *)
PublishOnce(w) ==
    /\ w \in Running /\ beat[w] = 0 /\ beat' = [beat EXCEPT ![w] = HeartbeatMs]
    /\ key' = IF redis THEN [met |-> Met(w), by |-> w, age |-> 0] ELSE key
    /\ lastFull' = IF redis /\ Met(w) = Gates THEN 0 ELSE lastFull
    /\ answer' = None
    /\ UNCHANGED <<env, dated, skew, redis, enabled, cached>>

-----------------------------------------------------------------------------
(* The Control API *)

Abs(n) == IF n < 0 THEN -n ELSE n
Reporting(report) == report # None /\ Abs(report.age - skew[report.by]) <= MaxAgeMs

EvaluateExecutionReadiness(report) ==
    [failing |-> IF Reporting(report) THEN Gates \ report.met ELSE Gates, enabled |-> enabled]

(* A verdict that is kept is answered as it is; otherwise the key is read, and a read that fails, *)
(* is late or is no report counts as none.                                                        *)
Current ==
    /\ IF cached # None
       THEN answer' = cached.verdict /\ UNCHANGED cached
       ELSE /\ answer' = EvaluateExecutionReadiness(IF redis THEN key ELSE None)
            /\ cached' = [verdict |-> answer', age |-> 0]
    /\ UNCHANGED <<workers, redis, key, enabled, lastFull>>

(* The operator asks check-execution-readiness with --for-enable and restarts the API with the flag *)
(* on, or turns it off.                                                                             *)
Accepts(verdict) == verdict.failing = {}

FlipFlag(on) ==
    /\ enabled # on /\ (on => answer # None /\ Accepts(answer))
    /\ enabled' = on /\ cached' = None /\ answer' = None
    /\ UNCHANGED <<workers, redis, key, lastFull>>

-----------------------------------------------------------------------------

(* Redis drops the key after its TTL; a kept verdict is used for less than CacheMs. *)
Expire(entry, limit) ==
    IF entry = None THEN None ELSE IF entry.age + 1 >= limit THEN None ELSE [entry EXCEPT !.age = @ + 1]

Tick ==
    /\ \A w \in Running : beat[w] > 0
    /\ beat' = [w \in Workers |-> IF w \in Running THEN beat[w] - 1 ELSE beat[w]]
    /\ key' = Expire(key, Ttl) /\ cached' = Expire(cached, CacheMs)
    /\ lastFull' = Older(lastFull) /\ answer' = None
    /\ UNCHANGED <<env, dated, skew, redis, enabled>>

(* Redis stops or comes back: writes fail, and reads fail or take longer than their timeout. *)
RedisChanges ==
    /\ redis' = ~redis /\ answer' = None
    /\ UNCHANGED <<workers, key, enabled, cached, lastFull>>

Next ==
    \/ \E w \in Workers, met \in SUBSET Gates, later \in BOOLEAN : StartPublisher(w, met, later)
    \/ \E w \in Workers : StopPublisher(w) \/ DateComes(w) \/ PublishOnce(w)
    \/ \E on \in BOOLEAN : FlipFlag(on)
    \/ Current \/ RedisChanges \/ Tick

Spec == Init /\ [][Next]_vars

(* Time goes on whatever happens in it, timers fire and probes keep asking. *)
FairSpec ==
    /\ Spec /\ SF_vars(Tick) /\ WF_vars(Current)
    /\ \A w \in Workers : WF_vars(PublishOnce(w)) /\ WF_vars(DateComes(w))

-----------------------------------------------------------------------------
ExecutionReady == answer # None /\ answer.enabled /\ answer.failing = {}
Inconsistent == answer # None /\ answer.enabled /\ answer.failing # {}
Full(w) == w \in Running /\ Met(w) = Gates

(* /readyz says ready only on the word of a worker that met every gate, and soon stops to after the last *)
(* such word: the age limit, the clocks' difference and the kept verdict together bound how long. *)
ReadyIsBacked ==
    ExecutionReady => \E s \in Skews : lastFull < MaxAgeMs + s + CacheMs

(* A deployment that meets every gate comes to be shown ready once Redis stays reachable, whatever was *)
(* lost before. *)
Deployed ==
    /\ enabled /\ redis /\ \E w \in Running : HeartbeatMs + Abs(skew[w]) <= MaxAgeMs
    /\ \A w \in Running : Full(w)
ReadinessIsSeen == <>[]Deployed => []<>ExecutionReady

(* Execution that is on while no worker meets the gates comes to be shown inconsistent, and stays so: no *)
(* old report or verdict hides it for good. *)
Lost == enabled /\ \A w \in Workers : ~Full(w)
LostReadinessIsSeen == <>[]Lost => <>[]~ExecutionReady /\ []<>Inconsistent

(* READY_FOR_LIVE_EXECUTION only if all are true: of every worker that takes runs. *)
ReadyOfEveryWorker ==
    ExecutionReady => \A w \in Running : beat[w] > 0 => Met(w) = Gates

=============================================================================

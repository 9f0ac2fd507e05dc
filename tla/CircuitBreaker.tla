-------------------------- MODULE CircuitBreaker --------------------------
(***************************************************************************)
(* runtime/src/circuitbreaker/circuit-breaker.ts: one CircuitBreaker shared *)
(* by concurrent calls of execute.  A call is admitted or refused before    *)
(* its await and settles after it; between the two, other calls are         *)
(* admitted, settle, trip the breaker and close it again, so a result may   *)
(* arrive in a state other than the one its call was admitted in.           *)
(*                                                                         *)
(* Time: the code compares Date.now() - (lastFailureTime || 0) with timeout *)
(* and does nothing else with either, so the state keeps that difference,   *)
(* sinceFailure, counted up to timeout + 1, which is also its value when    *)
(* lastFailureTime is undefined.  failureCount is only compared with        *)
(* failureThreshold and is counted up to it.                                *)
(***************************************************************************)
EXTENDS Integers

CONSTANTS
  Callers,    \* concurrent callers; each calls again and again
  failureThreshold, successThreshold, timeout

ASSUME Config ==
  /\ failureThreshold \in Nat \ {0}
  /\ successThreshold \in Nat \ {0}
  /\ timeout \in Nat

VARIABLES
  state, failureCount, successCount,   \* as in the class
  sinceFailure,                        \* now - lastFailureTime
  inFlight,  \* per caller: "idle", or a call in flight that may still fail
             \* ("exposed") or was made after the service recovered ("safe")
  outcome,   \* per caller: how its last call ended
  up,        \* the protected service has recovered for good
  quiet,     \* history: time since any call failed, up to timeout + 1
  probes     \* history: successes since the breaker was last half-opened

bvars == <<state, failureCount, successCount, sinceFailure>>
breakerVars == <<bvars, inFlight, outcome, up, quiet, probes>>

Elapsed == 0..(timeout + 1)

BreakerTypeOK ==
  /\ state \in {"CLOSED", "OPEN", "HALF_OPEN"}
  /\ failureCount \in 0..failureThreshold
  /\ successCount \in 0..successThreshold
  /\ sinceFailure \in Elapsed
  /\ inFlight \in [Callers -> {"idle", "exposed", "safe"}]
  /\ outcome \in [Callers -> {"none", "ok", "failed", "refused"}]
  /\ up \in BOOLEAN
  /\ quiet \in Elapsed
  /\ probes \in Nat

BreakerInit ==
  /\ state = "CLOSED"
  /\ failureCount = 0
  /\ successCount = 0
  /\ sinceFailure = timeout + 1
  /\ inFlight = [c \in Callers |-> "idle"]
  /\ outcome = [c \in Callers |-> "none"]
  /\ up = FALSE
  /\ quiet = timeout + 1
  /\ probes = 0
---------------------------------------------------------------------------
(* execute, up to its await *)

\* The promise of fn is awaited from here on.
start(c) ==
  /\ inFlight' = [inFlight EXCEPT ![c] = IF up THEN "safe" ELSE "exposed"]
  /\ UNCHANGED <<outcome, up, quiet>>

admit(c) ==
  /\ inFlight[c] = "idle"
  /\ state # "OPEN"
  /\ start(c)
  /\ UNCHANGED <<bvars, probes>>

\* Mutant: successCount is not reset.
Mutant_enterHalfOpen ==
  /\ state' = "HALF_OPEN"
  /\ UNCHANGED <<failureCount, successCount, sinceFailure>>

enterHalfOpen ==
  /\ state' = "HALF_OPEN"
  /\ successCount' = 0
  /\ UNCHANGED <<failureCount, sinceFailure>>

\* The first call after the timeout half-opens the breaker; every later one
\* is admitted too, there is no limit on probes.
probe(c) ==
  /\ inFlight[c] = "idle"
  /\ state = "OPEN" /\ sinceFailure > timeout
  /\ enterHalfOpen
  /\ probes' = 0
  /\ start(c)

\* Mutant: a refused call counts as a failure of the service.
Mutant_refuse(c) ==
  /\ inFlight[c] = "idle"
  /\ state = "OPEN" /\ sinceFailure <= timeout
  /\ outcome' = [outcome EXCEPT ![c] = "refused"]
  /\ sinceFailure' = 0
  /\ UNCHANGED <<state, failureCount, successCount, inFlight, up, quiet, probes>>

refuse(c) ==
  /\ inFlight[c] = "idle"
  /\ state = "OPEN" /\ sinceFailure <= timeout
  /\ outcome' = [outcome EXCEPT ![c] = "refused"]
  /\ UNCHANGED <<bvars, inFlight, up, quiet, probes>>
---------------------------------------------------------------------------
(* execute, after its await *)

settle(c, result) ==
  /\ inFlight' = [inFlight EXCEPT ![c] = "idle"]
  /\ outcome' = [outcome EXCEPT ![c] = result]
  /\ UNCHANGED up

\* Mutant: successes are counted in every state.
onSuccess ==
  /\ failureCount' = 0
  /\ \/ /\ state = "HALF_OPEN"
        /\ successCount' = successCount + 1
        /\ state' = IF successCount + 1 >= successThreshold
                      THEN "CLOSED" ELSE "HALF_OPEN"
     \/ state # "HALF_OPEN" /\ UNCHANGED <<state, successCount>>
  /\ UNCHANGED sinceFailure

\* Mutant: a failure that comes in while the breaker is open is not stamped.
Mutant_stampFailure == sinceFailure' = IF state = "OPEN" THEN sinceFailure ELSE 0

stampFailure == sinceFailure' = 0

\* Mutant: one failure too many is tolerated.
Mutant_tripped(n) == n > failureThreshold

tripped(n) == n >= failureThreshold

onFailure ==
  /\ stampFailure
  /\ \/ /\ state = "HALF_OPEN"
        /\ state' = "OPEN"
        /\ UNCHANGED failureCount
     \/ /\ state # "HALF_OPEN"
        /\ failureCount' = IF failureCount < failureThreshold
                             THEN failureCount + 1 ELSE failureCount
        /\ state' = IF tripped(failureCount + 1) THEN "OPEN" ELSE state
  /\ UNCHANGED successCount

succeed(c) ==
  /\ inFlight[c] # "idle"
  /\ onSuccess
  /\ settle(c, "ok")
  /\ probes' = IF state = "HALF_OPEN" THEN probes + 1 ELSE probes
  /\ UNCHANGED quiet

fail(c) ==
  /\ inFlight[c] = "exposed"
  /\ onFailure
  /\ settle(c, "failed")
  /\ quiet' = 0
  /\ UNCHANGED probes
---------------------------------------------------------------------------
(* The environment *)

later(n) == IF n <= timeout THEN n + 1 ELSE n

Tick ==
  /\ sinceFailure' = later(sinceFailure)
  /\ quiet' = later(quiet)
  /\ UNCHANGED <<state, failureCount, successCount, inFlight, outcome, up, probes>>

Recover ==
  /\ ~up
  /\ up' = TRUE
  /\ UNCHANGED <<bvars, inFlight, outcome, quiet, probes>>

execution(c) == admit(c) \/ probe(c) \/ refuse(c)
result(c) == succeed(c) \/ fail(c)

BreakerNext == Tick \/ Recover \/ \E c \in Callers : execution(c) \/ result(c)

BreakerSpec == BreakerInit /\ [][BreakerNext]_breakerVars

\* The clock advances, every promise settles, and there is always somebody
\* who calls; nobody promises that the service recovers.
FairBreakerSpec ==
  /\ BreakerSpec
  /\ WF_breakerVars(Tick)
  /\ \A c \in Callers : WF_breakerVars(result(c)) /\ WF_breakerVars(admit(c) \/ probe(c))
---------------------------------------------------------------------------
(* Correctness *)

\* A breaker that lets everybody through has not yet seen failureThreshold
\* failures in a row, and one that is probing has not yet seen enough
\* successes, wherever late results come in.
CountersBelowThreshold ==
  /\ state = "CLOSED" => failureCount < failureThreshold
  /\ state = "HALF_OPEN" => successCount < successThreshold

\* The breaker closes only when successThreshold calls have succeeded since
\* it was last half-opened: successes of an earlier half-open period, one cut
\* short by a failure, do not count.
ClosesAfterProbes ==
  [][state # "CLOSED" /\ state' = "CLOSED" =>
       state = "HALF_OPEN" /\ probes' >= successThreshold]_breakerVars

\* A call is refused only while some call, admitted before or after the
\* breaker tripped, failed at most timeout ago, and the breaker half-opens
\* only when none did: a late failure prolongs the open period.
RefusesExactlyWhileHurt ==
  [][/\ \A c \in Callers :
          outcome'[c] = "refused" /\ outcome[c] # "refused" => quiet <= timeout
     /\ state = "OPEN" /\ state' # "OPEN" => quiet > timeout]_breakerVars

\* Once the service has recovered, the breaker ends up closed and stays so,
\* whatever late failures were still in flight.
Recovers == up ~> [](state = "CLOSED")
===========================================================================

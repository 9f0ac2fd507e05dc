--------------------------- MODULE Microservices ---------------------------
(***************************************************************************)
(* What the BFF asks of the services behind it: MicroserviceService        *)
(* (modules/microservice), whose requests other modules of the BFF inject, *)
(* and HealthService, which probes every service in turn.                  *)
(*                                                                         *)
(* Statuses are told apart as far as isRetryableError does. retryAttempts  *)
(* is 3 in the code whatever retries the registry has; the pause before a  *)
(* retry, endpoint, headers and payload are left out.                      *)
(***************************************************************************)
EXTENDS Naturals, Sequences

CONSTANTS
  Registry,       \* services MicroserviceRoutingConfig names
  Unregistered,   \* a name it does not
  services,       \* the order HealthService probes them in
  Callers,        \* calls of requestWithRetry
  Checks,         \* calls of getHealth
  retryAttempts

ASSUME RegistryAssumption ==
  /\ Unregistered \notin Registry
  /\ services \in Seq(Registry) /\ services # <<>>
  /\ Registry = {services[n] : n \in DOMAIN services}
  /\ \A m, n \in DOMAIN services : services[m] = services[n] => m = n
  /\ retryAttempts \in Nat

VARIABLES
  serving,    \* services that are reachable and answer in time
  call,       \* caller -> the service it asks, retries left, where it is, and
              \* what was wrong with the request it failed for
  todo,       \* check -> services still to probe
  healthy,    \* check -> services whose probe answered 200
  wasUp,      \* check -> services that were serving at some moment of it
  wasDown,    \* check -> services that were not
  health      \* check -> the status it was answered

healthVars == <<todo, healthy, wasUp, wasDown, health>>
serviceVars == <<serving, call, healthVars>>

retryable == {"408/429/5xx", "no response"}
errors == retryable \union {"4xx", "unknown service"}
Calls == [pc : {"idle", "sent", "ok", "failed"},
          service : Registry \union {Unregistered},
          retries : 0 .. retryAttempts,
          error : errors \union {"none"}]

Init ==
  /\ serving \in SUBSET Registry
  /\ call = [c \in Callers |->
       [pc |-> "idle", service |-> Unregistered, retries |-> retryAttempts,
        error |-> "none"]]
  /\ todo = [k \in Checks |-> <<>>]
  /\ healthy = [k \in Checks |-> {}]
  /\ wasUp = [k \in Checks |-> {}]
  /\ wasDown = [k \in Checks |-> {}]
  /\ health = [k \in Checks |-> "none"]

-----------------------------------------------------------------------------
(* MicroserviceService *)

\* Whatever went wrong, request throws an HttpException with the status of
\* the response, 502 when there was none.
handleError(error) ==
  [class |-> "HttpException",
   status |-> IF error = "4xx" THEN "4xx" ELSE "408/429/5xx"]

isRetryableError(e) == e.class = "AxiosError" /\ e.status \in retryable

configured(s) == s \in Registry

\* The try of requestWithRetry: an unknown service fails before it is asked.
request(c, s, retries) ==
  call' = [call EXCEPT ![c] =
    [pc |-> IF configured(s) THEN "sent" ELSE "failed",
     service |-> s, retries |-> retries,
     error |-> IF configured(s) THEN "none" ELSE "unknown service"]]

requestWithRetry(c, s) ==
  /\ call[c].pc = "idle"
  /\ request(c, s, retryAttempts)
  /\ UNCHANGED <<serving, healthVars>>

settle(c, pc, error) ==
  call' = [call EXCEPT ![c] =
    [pc |-> pc, service |-> @.service, retries |-> @.retries, error |-> error]]

answered(c) ==
  /\ call[c].pc = "sent" /\ call[c].service \in serving
  /\ settle(c, "ok", "none")
  /\ UNCHANGED <<serving, healthVars>>

\* The catch of requestWithRetry, for an error status or none in time.
fails(c, error) ==
  /\ call[c].pc = "sent"
  /\ IF call[c].retries > 0 /\ isRetryableError(handleError(error))
     THEN request(c, call[c].service, call[c].retries - 1)
     ELSE settle(c, "failed", error)
  /\ UNCHANGED <<serving, healthVars>>

-----------------------------------------------------------------------------
(* HealthService *)

getHealth(k) ==
  /\ todo[k] = <<>> /\ health[k] = "none"
  /\ todo' = [todo EXCEPT ![k] = services]
  /\ wasUp' = [wasUp EXCEPT ![k] = serving]
  /\ wasDown' = [wasDown EXCEPT ![k] = Registry \ serving]
  /\ UNCHANGED <<serving, call, healthy, health>>

Mutant_overallStatus(found) ==
  IF found # {} THEN "healthy" ELSE "unhealthy"

overallStatus(found) ==
  IF found = Registry THEN "healthy"
  ELSE IF found # {} THEN "degraded" ELSE "unhealthy"

\* A probe that fails in any way counts as unhealthy; after the last one the
\* status is folded.
healthCheck(k) ==
  /\ todo[k] # <<>>
  /\ todo' = [todo EXCEPT ![k] = Tail(@)]
  /\ healthy' = [healthy EXCEPT ![k] =
       IF Head(todo[k]) \in serving THEN @ \union {Head(todo[k])} ELSE @]
  /\ health' = [health EXCEPT ![k] =
       IF Len(todo[k]) = 1 THEN overallStatus(healthy'[k]) ELSE @]
  /\ UNCHANGED <<serving, call, wasUp, wasDown>>

-----------------------------------------------------------------------------
\* A service goes down or comes back.
flip(s) ==
  /\ serving' = IF s \in serving THEN serving \ {s} ELSE serving \union {s}
  /\ wasUp' = [k \in Checks |->
       IF todo[k] = <<>> THEN wasUp[k] ELSE wasUp[k] \union serving']
  /\ wasDown' = [k \in Checks |->
       IF todo[k] = <<>> THEN wasDown[k] ELSE wasDown[k] \union (Registry \ serving')]
  /\ UNCHANGED <<call, todo, healthy, health>>

callStep(c) ==
  \/ answered(c)
  \/ \E error \in errors \ {"unknown service"} : fails(c, error)

\* Requests the BFF receives, directly or through one of its modules.
Receive ==
  \/ \E c \in Callers, s \in Registry \union {Unregistered} : requestWithRetry(c, s)
  \/ \E k \in Checks : getHealth(k)

Serve ==
  \/ \E c \in Callers : callStep(c)
  \/ \E k \in Checks : healthCheck(k)
  \/ \E s \in Registry : flip(s)

Next == Receive \/ Serve

Spec == Init /\ [][Next]_serviceVars

-----------------------------------------------------------------------------
(* Every variable has its type. *)
TypeOK ==
  /\ serving \subseteq Registry
  /\ call \in [Callers -> Calls]
  /\ todo \in [Checks -> Seq(Registry)]
  /\ healthy \in [Checks -> SUBSET Registry]
  /\ wasUp \in [Checks -> SUBSET Registry]
  /\ wasDown \in [Checks -> SUBSET Registry]
  /\ health \in [Checks -> {"none", "healthy", "degraded", "unhealthy"}]

(* A call fails for a status that may pass only once its retries are used  *)
(* up: svc-mash/design-documentation.md promises retries of such requests  *)
(* (lines 11 and 71). The code does not keep it: request throws            *)
(* HttpExceptions (line 107), of which isRetryableError says no (line 126). *)
PassingFailuresRetried ==
  \A c \in Callers :
    call[c].pc = "failed" /\ call[c].error \in retryable => call[c].retries = 0

(* A status speaks of the time of its check: "healthy" if every service was *)
(* up and "unhealthy" if every one was down at some moment of it, though   *)
(* perhaps never at one moment, and "degraded" if one was up, one down.    *)
HealthIsWitnessed ==
  \A k \in Checks :
    /\ health[k] = "healthy" => wasUp[k] = Registry
    /\ health[k] = "unhealthy" => wasDown[k] = Registry
    /\ health[k] = "degraded" => wasUp[k] # {} /\ wasDown[k] # {}
=============================================================================

------------------------------ MODULE Frontend ------------------------------
(***************************************************************************)
(* The parts of the front end that meet nowhere: HostLibrary's three, the  *)
(* login micro-frontend's screen (LoginForm), the runtime's breaker        *)
(* (CircuitBreaker) and the events between windows (EventBridge). A        *)
(* behaviour is about one of them.                                         *)
(***************************************************************************)
EXTENDS HostLibrary, LoginForm, CircuitBreaker, EventBridge

frontVars == <<vars, formVars, breakerVars, bridgeVars>>

\* What the parts that stay as they are start with is left open only where it
\* matters.
FrontInit ==
  /\ Init /\ FormInit /\ BreakerInit /\ BridgeInit
  /\ part # "remote" => present = {}
  /\ part # "bridge" => setting = CHOOSE s \in Settings : TRUE

FrontNext ==
  \/ Next /\ UNCHANGED <<formVars, breakerVars, bridgeVars>>
  \/ part = "screen" /\ FormNext /\ UNCHANGED <<vars, breakerVars, bridgeVars>>
  \/ part = "breaker" /\ BreakerNext /\ UNCHANGED <<vars, formVars, bridgeVars>>
  \/ part = "bridge" /\ BridgeNext /\ UNCHANGED <<vars, formVars, breakerVars>>

FrontSpec == FrontInit /\ [][FrontNext]_frontVars

HostTimer(c) == TimerFires(c) /\ UNCHANGED <<formVars, breakerVars, bridgeVars>>

BreakerStep(A) == part = "breaker" /\ A /\ UNCHANGED <<vars, formVars, bridgeVars>>

BridgeStep(A) == part = "bridge" /\ A /\ UNCHANGED <<vars, formVars, breakerVars>>

\* Timers fire, but a body may never come to its end; time passes, promises
\* settle and callers go on calling; browsers run the tasks they queue.
FairFrontSpec ==
  /\ FrontSpec
  /\ \A c \in Calls : WF_frontVars(HostTimer(c))
  /\ WF_frontVars(BreakerStep(Tick))
  /\ \A c \in Callers :
       /\ WF_frontVars(BreakerStep(result(c)))
       /\ WF_frontVars(BreakerStep(admit(c) \/ probe(c)))
  /\ \A w \in Windows :
       /\ WF_frontVars(BridgeStep(handleStorage(w)))
       /\ WF_frontVars(BridgeStep(handleMessage(w)))
=============================================================================

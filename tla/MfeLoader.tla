----------------------------- MODULE MfeLoader -----------------------------
(***************************************************************************)
(* The host shell's loading of remote micro-frontends: MFELoader.tsx with  *)
(* its two module-level caches, mounted by the routes of Shell.tsx.        *)
(*                                                                         *)
(* loadRemoteComponent is a chain of awaits over state all loads share: a  *)
(* navigation, React's second effect in StrictMode and the outcome of any  *)
(* other load can come between two of them. Each stretch between two       *)
(* awaits is an action. A page's life is modelled; a reload is Init.       *)
(***************************************************************************)
EXTENDS Naturals, FiniteSets

CONSTANTS
  Mfes,        \* the remotes of mfeRegistry
  Wrapped,     \* those whose container wraps them in an MFEBoundary
  HasInit,     \* those whose container has an init function
  Loads,       \* calls of loadRemoteComponent: a bound on navigation
  NoLoad,
  StrictMode,  \* development: every effect runs, is cleaned up, runs again
  Sharing      \* window.__webpack_init_sharing__ is a function

ASSUME LoaderAssumption ==
  /\ Wrapped \subseteq Mfes /\ HasInit \subseteq Mfes
  /\ "home" \notin Mfes
  /\ NoLoad \notin Loads
  /\ StrictMode \in BOOLEAN /\ Sharing \in BOOLEAN

VARIABLES
  route,             \* Shell's activeRoute
  shellDown,         \* the ErrorBoundary around the whole shell caught
  view,              \* what the mounted container renders
  live,              \* the load whose effect is still mounted
  mfe,               \* load -> the remote it is for
  pc,                \* load -> the await it is at, or how it ended
  window,            \* remote -> what window[scope] holds
  remoteEntryCache,  \* remote -> the state of the cached import promise
  initialized        \* initializedContainers

vars == <<route, shellDown, view, live, mfe, pc, window, remoteEntryCache,
          initialized>>
shellVars == <<route, shellDown, view, live, mfe>>
remoteVars == <<window, remoteEntryCache, initialized>>

Ended == {"ready", "failed"}
Waiting == {"import", "not a container", "share", "init", "get"}

\* Any page may carry a global named like a scope that is no container.
Init ==
  /\ route = "home" /\ shellDown = FALSE /\ view = "none" /\ live = NoLoad
  /\ mfe = [l \in Loads |-> "home"]
  /\ pc = [l \in Loads |-> "unused"]
  /\ window \in [Mfes -> {"none", "other"}]
  /\ remoteEntryCache = [m \in Mfes |-> "none"]
  /\ initialized = {}

\* Where a load of m stops next: once sharing is set up, and once it has the
\* container.
Mutant_afterSharing(m) ==
  IF m \in HasInit /\ ~ \E l \in Loads : mfe[l] = m /\ pc[l] = "init"
  THEN "init" ELSE "get"

Mutant_unchecked_afterSharing(m) ==
  IF m \notin initialized THEN "init" ELSE "get"

afterSharing(m) == IF m \in HasInit \ initialized THEN "init" ELSE "get"

withContainer(m) == IF Sharing THEN "share" ELSE afterSharing(m)

-----------------------------------------------------------------------------
(* A load, from await to await *)

importEntry(m) ==
  remoteEntryCache' = [remoteEntryCache EXCEPT ![m] = "pending"]

\* The synchronous part, for the loads L an effect starts one after another.
loadRemoteComponent(L, m) ==
  /\ pc' = [l \in Loads |->
       IF l \notin L THEN pc[l]
       ELSE CASE window[m] = "none"  -> "import"
              [] window[m] = "other" -> "not a container"
              [] OTHER               -> withContainer(m)]
  /\ IF window[m] = "none" /\ remoteEntryCache[m] = "none"
     THEN importEntry(m) ELSE UNCHANGED remoteEntryCache
  /\ UNCHANGED <<window, initialized>>

proceed(l, await) ==
  /\ pc' = [pc EXCEPT ![l] = await]
  /\ UNCHANGED shellVars

awaitLoader(l) ==
  /\ pc[l] = "import" /\ remoteEntryCache[mfe[l]] = "loaded"
  /\ proceed(l, withContainer(mfe[l]))
  /\ UNCHANGED remoteVars

initSharing(l) ==
  /\ pc[l] = "share"
  /\ proceed(l, afterSharing(mfe[l]))
  /\ UNCHANGED remoteVars

initContainer(l) ==
  /\ pc[l] = "init"
  /\ initialized' = initialized \union {mfe[l]}
  /\ proceed(l, "get")
  /\ UNCHANGED <<window, remoteEntryCache>>

Mutant_setState(l, outcome) ==
  /\ pc' = [pc EXCEPT ![l] = outcome]
  /\ view' = IF live # NoLoad THEN outcome ELSE view
  /\ UNCHANGED <<route, shellDown, live, mfe>>
  /\ UNCHANGED remoteVars

\* then and catch of the effect: only a mounted effect sets state.
setState(l, outcome) ==
  /\ pc' = [pc EXCEPT ![l] = outcome]
  /\ view' = IF l = live THEN outcome ELSE view
  /\ UNCHANGED <<route, shellDown, live, mfe>>
  /\ UNCHANGED remoteVars

getModule(l) == pc[l] = "get" /\ setState(l, "ready")

Mutant_loadFails(l) ==
  pc[l] \in Waiting \ {"import"} /\ setState(l, "failed")

loadFails(l) ==
  /\ \/ pc[l] \in Waiting \ {"import"}
     \/ pc[l] = "import" /\ remoteEntryCache[mfe[l]] = "failed"
  /\ setState(l, "failed")

(* The remote entry, once imported *)

importSucceeds(m) ==
  /\ remoteEntryCache[m] = "pending"
  /\ remoteEntryCache' = [remoteEntryCache EXCEPT ![m] = "loaded"]
  /\ window' = [window EXCEPT ![m] = "container"]
  /\ UNCHANGED <<shellVars, pc, initialized>>

importFails(m) ==
  /\ remoteEntryCache[m] = "pending"
  /\ remoteEntryCache' = [remoteEntryCache EXCEPT ![m] = "failed"]
  /\ UNCHANGED <<shellVars, pc, window, initialized>>

\* A remote entry may set window[scope] itself before its import settles.
expose(m) ==
  /\ remoteEntryCache[m] = "pending" /\ window[m] = "none"
  /\ window' = [window EXCEPT ![m] = "container"]
  /\ UNCHANGED <<shellVars, pc, remoteEntryCache, initialized>>

-----------------------------------------------------------------------------
(* The shell *)

\* Links and popstate. A container leaves with its effect; the new one's
\* effect starts a load, and in StrictMode a discarded one before it.
mount(m) ==
  \E l \in Loads, twin \in Loads \union {NoLoad} :
    /\ l # twin /\ StrictMode = (twin # NoLoad)
    /\ LET L == {l, twin} \ {NoLoad} IN
         /\ \A k \in L : pc[k] = "unused"
         /\ mfe' = [k \in Loads |-> IF k \in L THEN m ELSE mfe[k]]
         /\ loadRemoteComponent(L, m)
    /\ live' = l
    /\ view' = "loading"

unmount ==
  /\ live' = NoLoad
  /\ view' = "none"
  /\ UNCHANGED <<mfe, pc, remoteVars>>

\* What Shell renders for its route: a container, unless it shows the fallback.
rendersContainer(r) == r \in Mfes /\ ~ shellDown

navigateTo(r) ==
  /\ r # route
  /\ route' = r
  /\ UNCHANGED shellDown
  /\ IF rendersContainer(r) THEN mount(r) ELSE unmount

\* The error boundary nearest to the remote component of m: only the login
\* container has one, the others are inside the shell's.
boundaryOf(m) == IF m \in Wrapped THEN "MFEBoundary" ELSE "ErrorBoundary"

\* A remote component throws while it renders.
renderThrows(boundary) ==
  /\ view = "ready" /\ boundaryOf(route) = boundary
  /\ live' = NoLoad
  /\ UNCHANGED <<route, mfe, pc, remoteVars>>

MFEBoundary ==
  /\ renderThrows("MFEBoundary")
  /\ view' = "boundary" /\ UNCHANGED shellDown

ErrorBoundary ==
  /\ renderThrows("ErrorBoundary")
  /\ view' = "none" /\ shellDown' = TRUE

-----------------------------------------------------------------------------
loadStep(l) ==
  \/ awaitLoader(l) \/ initSharing(l) \/ initContainer(l)
  \/ getModule(l) \/ loadFails(l)

settle(m) == importSucceeds(m) \/ importFails(m)

Next ==
  \/ \E l \in Loads : loadStep(l)
  \/ \E m \in Mfes : settle(m) \/ expose(m)
  \/ \E r \in Mfes \union {"home"} : navigateTo(r)
  \/ MFEBoundary \/ ErrorBoundary

Spec == Init /\ [][Next]_vars

\* Imports, init functions and gets settle, and microtasks run.
FairSpec ==
  /\ Spec
  /\ \A l \in Loads : WF_vars(loadStep(l))
  /\ \A m \in Mfes : WF_vars(settle(m))

-----------------------------------------------------------------------------
(* Every variable has its type. *)
TypeOK ==
  /\ route \in Mfes \union {"home"}
  /\ shellDown \in BOOLEAN
  /\ view \in {"none", "loading", "boundary"} \union Ended
  /\ live \in Loads \union {NoLoad}
  /\ mfe \in [Loads -> Mfes \union {"home"}]
  /\ pc \in [Loads -> {"unused"} \union Waiting \union Ended]
  /\ \A l \in Loads : pc[l] # "unused" => mfe[l] \in Mfes
  /\ window \in [Mfes -> {"none", "other", "container"}]
  /\ remoteEntryCache \in [Mfes -> {"none", "pending", "loaded", "failed"}]
  /\ initialized \subseteq HasInit

(* What is on the screen is the outcome of the load the mounted container  *)
(* started last, for the route shown, however many abandoned loads of this *)
(* or other remotes finish around it (the mounted flag, line 102).         *)
ShownIsCurrent ==
  IF live = NoLoad
  THEN view \in {"none", "boundary"}
  ELSE /\ mfe[live] = route /\ ~ shellDown
       /\ view = IF pc[live] \in Ended THEN pc[live] ELSE "loading"

(* No module is asked of a container before an init of it has finished,    *)
(* although several loads may find it uninitialised and each call init     *)
(* (the check of line 83 and the add of line 85 have an await between).    *)
GetAfterInit ==
  \A l \in Loads :
    pc[l] \in {"get", "ready"} /\ mfe[l] \in HasInit => mfe[l] \in initialized

(* A container that shows its loading text comes to show something else,   *)
(* the remote, an error or another route, whichever await fails.           *)
LoadSettles == (view = "loading") ~> (view # "loading")

(* What the shell's README says of its error boundaries: a remote that     *)
(* fails takes nothing down with it, so the shell goes on rendering. It    *)
(* does not hold: only the login container has a boundary of its own.      *)
FailuresAreIsolated == ~ shellDown
=============================================================================

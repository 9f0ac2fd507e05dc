-------------------------- MODULE MfeLoader_proofs --------------------------
(* Safety of MfeLoader, for any remotes, any number of loads, with and     *)
(* without StrictMode, share scopes and init functions.                    *)
EXTENDS MfeLoader, TLAPS

\* A load calls init only where there is one.
InitsExist == \A l \in Loads : pc[l] = "init" => mfe[l] \in HasInit

IInv == TypeOK /\ InitsExist /\ GetAfterInit /\ ShownIsCurrent

LEMMA InitIInv == Init => IInv
<1> SUFFICES ASSUME Init PROVE IInv
  OBVIOUS
<1>1. TypeOK
  BY LoaderAssumption DEF Init, TypeOK, Waiting, Ended
<1>2. InitsExist /\ GetAfterInit
  BY DEF Init, InitsExist, GetAfterInit
<1>3. ShownIsCurrent
  BY DEF Init, ShownIsCurrent
<1> QED BY <1>1, <1>2, <1>3 DEF IInv

(***************************************************************************)
(* Where a load stops next.                                                *)
(***************************************************************************)
LEMMA NextAwait ==
  ASSUME NEW m \in Mfes
  PROVE  /\ afterSharing(m) \in {"init", "get"}
         /\ withContainer(m) \in {"share", "init", "get"}
         /\ afterSharing(m) = "init" => m \in HasInit
         /\ withContainer(m) = "init" => m \in HasInit
         /\ afterSharing(m) = "get" /\ m \in HasInit => m \in initialized
         /\ withContainer(m) = "get" /\ m \in HasInit => m \in initialized
BY DEF withContainer, afterSharing

\* A load that goes on to its next await changes nothing the page shows.
LEMMA ProceedKeeps ==
  ASSUME IInv, NEW l \in Loads, pc[l] \in Waiting,
         NEW await \in {"share", "init", "get"}, proceed(l, await),
         await = "init" => mfe[l] \in HasInit,
         await = "get" /\ mfe[l] \in HasInit => mfe[l] \in initialized',
         initialized \subseteq initialized', initialized' \subseteq HasInit,
         UNCHANGED <<window, remoteEntryCache>>
  PROVE  IInv'
<1>1. TypeOK'
  BY DEF IInv, TypeOK, proceed, shellVars, Waiting
<1>2. InitsExist'
  BY DEF IInv, TypeOK, InitsExist, proceed, shellVars
<1>3. GetAfterInit'
  BY DEF IInv, TypeOK, GetAfterInit, proceed, shellVars
<1>4. ShownIsCurrent'
  BY DEF IInv, TypeOK, ShownIsCurrent, proceed, shellVars, Waiting, Ended
<1> QED BY <1>1, <1>2, <1>3, <1>4 DEF IInv

LEMMA SetStateKeeps ==
  ASSUME IInv, NEW l \in Loads, pc[l] \in Waiting,
         NEW outcome \in Ended, setState(l, outcome),
         outcome = "ready" => pc[l] = "get"
  PROVE  IInv'
<1>1. TypeOK'
  BY DEF IInv, TypeOK, setState, remoteVars, Waiting, Ended
<1>2. InitsExist'
  BY DEF IInv, TypeOK, InitsExist, setState, remoteVars, Ended
<1>3. GetAfterInit'
  BY DEF IInv, TypeOK, GetAfterInit, setState, remoteVars, Ended
<1>4. ShownIsCurrent'
  <2>1. CASE l = live
    BY <2>1, LoaderAssumption
    DEF IInv, TypeOK, ShownIsCurrent, setState, Waiting, Ended
  <2>2. CASE l # live
    BY <2>2 DEF IInv, TypeOK, ShownIsCurrent, setState
  <2> QED BY <2>1, <2>2
<1> QED BY <1>1, <1>2, <1>3, <1>4 DEF IInv

LEMMA LoadKeeps ==
  ASSUME IInv, NEW l \in Loads, loadStep(l)
  PROVE  IInv'
<1>0. ASSUME pc[l] \in Waiting PROVE mfe[l] \in Mfes
  BY <1>0 DEF IInv, TypeOK, Waiting
<1>9. initialized \subseteq HasInit
  BY DEF IInv, TypeOK
<1>1. CASE awaitLoader(l)
  <2>1. pc[l] \in Waiting
    BY <1>1 DEF awaitLoader, Waiting
  <2> QED
    BY <1>1, <2>1, <1>0, <1>9, NextAwait, ProceedKeeps DEF awaitLoader, remoteVars
<1>2. CASE initSharing(l)
  <2>1. pc[l] \in Waiting
    BY <1>2 DEF initSharing, Waiting
  <2> QED
    BY <1>2, <2>1, <1>0, <1>9, NextAwait, ProceedKeeps DEF initSharing, remoteVars
<1>3. CASE initContainer(l)
  <2>1. pc[l] \in Waiting
    BY <1>3 DEF initContainer, Waiting
  <2>2. mfe[l] \in HasInit
    BY <1>3 DEF IInv, InitsExist, initContainer
  <2> QED
    BY <1>3, <2>1, <2>2, <1>9, ProceedKeeps DEF initContainer
<1>4. CASE getModule(l)
  BY <1>4, SetStateKeeps DEF getModule, Waiting, Ended
<1>5. CASE loadFails(l)
  <2>1. pc[l] \in Waiting
    BY <1>5 DEF loadFails, Waiting
  <2> QED BY <1>5, <2>1, SetStateKeeps DEF loadFails, Ended
<1> QED BY <1>1, <1>2, <1>3, <1>4, <1>5 DEF loadStep

(***************************************************************************)
(* The remote entries.                                                     *)
(***************************************************************************)
LEMMA RemoteKeeps ==
  ASSUME IInv, NEW m \in Mfes, settle(m) \/ expose(m)
  PROVE  IInv'
<1>1. UNCHANGED <<shellVars, pc, initialized>>
  BY DEF settle, importSucceeds, importFails, expose
<1>2. TypeOK'
  BY <1>1 DEF IInv, TypeOK, settle, importSucceeds, importFails, expose, shellVars
<1>3. InitsExist' /\ GetAfterInit' /\ ShownIsCurrent'
  BY <1>1 DEF IInv, InitsExist, GetAfterInit, ShownIsCurrent, shellVars
<1> QED BY <1>2, <1>3 DEF IInv

(***************************************************************************)
(* The shell.                                                              *)
(***************************************************************************)
LEMMA LoadsStart ==
  ASSUME IInv, NEW L \in SUBSET Loads, NEW m \in Mfes,
         \A k \in L : pc[k] = "unused",
         mfe' = [k \in Loads |-> IF k \in L THEN m ELSE mfe[k]],
         loadRemoteComponent(L, m)
  PROVE  /\ pc' \in [Loads -> {"unused"} \union Waiting \union Ended]
         /\ \A k \in L : pc'[k] \in Waiting
         /\ \A k \in Loads \ L : pc'[k] = pc[k]
         /\ InitsExist' /\ GetAfterInit'
         /\ remoteEntryCache' \in [Mfes -> {"none", "pending", "loaded", "failed"}]
         /\ UNCHANGED <<window, initialized>>
<1> DEFINE at == CASE window[m] = "none"  -> "import"
                   [] window[m] = "other" -> "not a container"
                   [] OTHER               -> withContainer(m)
<1>1. /\ at \in Waiting
      /\ at = "init" => m \in HasInit
      /\ at \notin Ended
      /\ at = "get" /\ m \in HasInit => m \in initialized
  BY NextAwait DEF Waiting, Ended
<1>2. pc' = [k \in Loads |-> IF k \in L THEN at ELSE pc[k]]
  BY DEF loadRemoteComponent
<1> HIDE DEF at
<1>3. UNCHANGED <<window, initialized>>
  BY DEF loadRemoteComponent
<1>4. InitsExist'
  BY <1>1, <1>2 DEF IInv, InitsExist
<1>5. GetAfterInit'
  BY <1>1, <1>2, <1>3 DEF IInv, GetAfterInit, Ended
<1>6. \/ importEntry(m) /\ remoteEntryCache[m] = "none"
      \/ UNCHANGED remoteEntryCache
  BY DEF loadRemoteComponent
<1>7. remoteEntryCache' \in [Mfes -> {"none", "pending", "loaded", "failed"}]
  BY <1>6 DEF IInv, TypeOK, importEntry
<1>9. pc' \in [Loads -> {"unused"} \union Waiting \union Ended]
  BY <1>1, <1>2 DEF IInv, TypeOK
<1>10. \A k \in L : pc'[k] \in Waiting
  BY <1>1, <1>2
<1>11. \A k \in Loads \ L : pc'[k] = pc[k]
  BY <1>2
<1> QED BY <1>3, <1>4, <1>5, <1>7, <1>9, <1>10, <1>11

LEMMA MountKeeps ==
  ASSUME IInv, NEW m \in Mfes, route' = m, shellDown' = shellDown, ~ shellDown,
         mount(m)
  PROVE  IInv'
<1>1. PICK l \in Loads, twin \in Loads \union {NoLoad} :
        /\ \A k \in {l, twin} \ {NoLoad} : pc[k] = "unused"
        /\ mfe' = [k \in Loads |-> IF k \in {l, twin} \ {NoLoad} THEN m ELSE mfe[k]]
        /\ loadRemoteComponent({l, twin} \ {NoLoad}, m)
        /\ live' = l
        /\ view' = "loading"
  BY DEF mount
<1> DEFINE L == {l, twin} \ {NoLoad}
<1>2. L \in SUBSET Loads /\ l \in L
  BY LoaderAssumption
<1>3. /\ \A k \in L : pc[k] = "unused"
      /\ mfe' = [k \in Loads |-> IF k \in L THEN m ELSE mfe[k]]
      /\ loadRemoteComponent(L, m)
  BY <1>1
<1> HIDE DEF L
<1>4. /\ pc' \in [Loads -> {"unused"} \union Waiting \union Ended]
      /\ \A k \in L : pc'[k] \in Waiting
      /\ \A k \in Loads \ L : pc'[k] = pc[k]
      /\ InitsExist' /\ GetAfterInit'
      /\ remoteEntryCache' \in [Mfes -> {"none", "pending", "loaded", "failed"}]
      /\ UNCHANGED <<window, initialized>>
  BY <1>2, <1>3, LoadsStart
<1>5. TypeOK'
  <2>1. mfe' \in [Loads -> Mfes \union {"home"}]
    BY <1>3 DEF IInv, TypeOK
  <2>2. \A k \in Loads : pc'[k] # "unused" => mfe'[k] \in Mfes
    BY <1>3, <1>4 DEF IInv, TypeOK
  <2>3. /\ route' \in Mfes \union {"home"} /\ shellDown' \in BOOLEAN
        /\ view' \in {"none", "loading", "boundary"} \union Ended
        /\ live' \in Loads \union {NoLoad}
    BY <1>1 DEF IInv, TypeOK
  <2>4. /\ window' \in [Mfes -> {"none", "other", "container"}]
        /\ initialized' \subseteq HasInit
    BY <1>4 DEF IInv, TypeOK
  <2> QED BY <1>4, <2>1, <2>2, <2>3, <2>4 DEF TypeOK
<1>6. ShownIsCurrent'
  <2>1. live' # NoLoad /\ mfe'[live'] = m /\ pc'[live'] \in Waiting
    BY <1>1, <1>2, <1>3, <1>4, LoaderAssumption
  <2>2. pc'[live'] \notin Ended
    BY <2>1 DEF Waiting, Ended
  <2> QED BY <1>1, <2>1, <2>2 DEF ShownIsCurrent
<1> QED BY <1>4, <1>5, <1>6 DEF IInv

LEMMA LeaveKeeps ==
  ASSUME IInv, route' \in Mfes \union {"home"}, shellDown' \in BOOLEAN,
         live' = NoLoad, view' \in {"none", "boundary"},
         UNCHANGED <<mfe, pc, remoteVars>>
  PROVE  IInv'
<1>1. TypeOK'
  BY DEF IInv, TypeOK, remoteVars
<1>2. InitsExist' /\ GetAfterInit' /\ ShownIsCurrent'
  BY DEF IInv, InitsExist, GetAfterInit, ShownIsCurrent, remoteVars
<1> QED BY <1>1, <1>2 DEF IInv

LEMMA StepIInv == IInv /\ [Next]_vars => IInv'
<1> SUFFICES ASSUME IInv, [Next]_vars PROVE IInv'
  OBVIOUS
<1>1. ASSUME NEW l \in Loads, loadStep(l) PROVE IInv'
  BY <1>1, LoadKeeps
<1>2. ASSUME NEW m \in Mfes, settle(m) \/ expose(m) PROVE IInv'
  BY <1>2, RemoteKeeps
<1>3. ASSUME NEW r \in Mfes \union {"home"}, navigateTo(r) PROVE IInv'
  <2>1. CASE r \in Mfes /\ ~ shellDown
    BY <1>3, <2>1, MountKeeps DEF navigateTo, rendersContainer
  <2>2. CASE ~ (r \in Mfes /\ ~ shellDown)
    <3>1. shellDown' \in BOOLEAN
      BY <1>3 DEF IInv, TypeOK, navigateTo
    <3> QED BY <1>3, <2>2, <3>1, LeaveKeeps
         DEF navigateTo, rendersContainer, unmount
  <2> QED BY <2>1, <2>2
<1>4. CASE MFEBoundary \/ ErrorBoundary
  <2>1. /\ route' \in Mfes \union {"home"} /\ shellDown' \in BOOLEAN
        /\ live' = NoLoad /\ view' \in {"none", "boundary"}
        /\ UNCHANGED <<mfe, pc, remoteVars>>
    BY <1>4 DEF IInv, TypeOK, MFEBoundary, ErrorBoundary, renderThrows
  <2> QED BY <2>1, LeaveKeeps
<1>5. CASE UNCHANGED vars
  BY <1>5 DEF vars, IInv, TypeOK, InitsExist, GetAfterInit, ShownIsCurrent
<1> QED BY <1>1, <1>2, <1>3, <1>4, <1>5 DEF Next

THEOREM Inductive == Spec => []IInv
<1>1. Init => IInv
  BY InitIInv
<1>2. IInv /\ [Next]_vars => IInv'
  BY StepIInv
<1> QED BY <1>1, <1>2, PTL DEF Spec

(***************************************************************************)
(* The results.                                                            *)
(***************************************************************************)
(* The loader's state, caches and screen are always well typed             *)
(* (MFELoader.tsx).                                                        *)
THEOREM TypeCorrect == Spec => []TypeOK
<1>1. IInv => TypeOK
  BY DEF IInv
<1> QED BY <1>1, Inductive, PTL

(* The screen shows how the load of the mounted container stands, whatever *)
(* abandoned loads do (the mounted flag of MFELoader's effect).            *)
THEOREM ScreenIsCurrent == Spec => []ShownIsCurrent
<1>1. IInv => ShownIsCurrent
  BY DEF IInv
<1> QED BY <1>1, Inductive, PTL

(* container.get is only called on a container some load has initialised   *)
(* (the init and get of loadRemoteComponent).                              *)
THEOREM GetsFollowInit == Spec => []GetAfterInit
<1>1. IInv => GetAfterInit
  BY DEF IInv
<1> QED BY <1>1, Inductive, PTL
=============================================================================

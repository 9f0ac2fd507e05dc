-------------------------- MODULE Frontend_proofs --------------------------
(* Safety of the front end's library code and of the login form, for any   *)
(* remotes, handlers, retries and visits.                                  *)
EXTENDS Frontend, SequenceTheorems, TLAPS

(***************************************************************************)
(* The login form. A form that is shown was mounted, and one that was not  *)
(* mounted yet has no timer.                                               *)
(***************************************************************************)
StepHasVisit == step = "StepTwo" => visit > 0

LaterVisitsIdle ==
  \A v \in 1 .. Visits : v > visit => handshake[v] = NoHandshake

ShownForm == FormInv /\ StepHasVisit /\ LaterVisitsIdle

Fields == [email : Emails, password : Passwords, showPassword : BOOLEAN]
Handshakes ==
  [at : {"timer", "onSubmit"}, email : ValidEmails, password : LongPasswords]
    \union {NoHandshake}

LEMMA EmptyForm == NoField \in Fields /\ NoHandshake \in Handshakes
BY FormAssumption DEF NoField, Fields, Handshakes

LEMMA InitShownForm == ASSUME FormInit PROVE ShownForm
<1>1. field \in Fields /\ handshake \in [1 .. Visits -> Handshakes]
  BY EmptyForm DEF FormInit
<1>2. FormTypeOK
  <2>1. /\ step \in {"left", "StepOne", "StepTwo"}
        /\ visit \in 0 .. Visits
        /\ errorMsg \in {"none", "email", "password"}
    BY FormAssumption DEF FormInit
  <2>2. loadingOne \in BOOLEAN /\ loading \in BOOLEAN
    BY DEF FormInit
  <2> QED BY <1>1, <2>1, <2>2 DEF FormTypeOK, Fields, Handshakes
<1>3. SpinsForItsOwn /\ SubmitsWhatIsShown /\ StepHasVisit
  BY DEF FormInit, SpinsForItsOwn, SubmitsWhatIsShown, StepHasVisit
<1>4. LaterVisitsIdle
  BY DEF FormInit, LaterVisitsIdle
<1> QED BY <1>2, <1>3, <1>4 DEF ShownForm, FormInv

\* What a timer keeps is no empty handshake.
LEMMA HandshakesDiffer ==
  ASSUME FormTypeOK, NEW v \in 1 .. Visits
  PROVE  /\ handshake[v].at \in {"none", "timer", "onSubmit"}
         /\ handshake[v].at = "none" <=> handshake[v] = NoHandshake
         /\ handshake[v].at # "none" =>
              handshake[v].email \in ValidEmails /\ handshake[v].password \in LongPasswords
BY DEF FormTypeOK, NoHandshake

\* The form changes while no timer of its own runs.
LEMMA EditKeeps ==
  ASSUME ShownForm, UNCHANGED <<screenVars, loading, handshake>>, step = "StepTwo",
         field' \in [email : Emails, password : Passwords, showPassword : BOOLEAN],
         errorMsg' \in {"none", "email", "password"},
         ~ loading \/ (/\ field'.email = field.email
                       /\ field'.password = field.password
                       /\ errorMsg' = errorMsg)
  PROVE  ShownForm'
<1>1. FormTypeOK'
  BY DEF ShownForm, FormInv, FormTypeOK, screenVars
<1>2. SpinsForItsOwn' /\ StepHasVisit' /\ LaterVisitsIdle'
  BY DEF ShownForm, FormInv, SpinsForItsOwn, StepHasVisit, LaterVisitsIdle, screenVars
<1>3. SubmitsWhatIsShown'
  BY DEF ShownForm, FormInv, SpinsForItsOwn, SubmitsWhatIsShown, StepTwo, screenVars
<1> QED BY <1>1, <1>2, <1>3 DEF ShownForm, FormInv

\* The screen changes to a form that was not left.
LEMMA ScreenKeeps ==
  ASSUME ShownForm, UNCHANGED <<visit, stepTwoVars, handshake>>,
         step' \in {"left", "StepOne"}, loadingOne' \in BOOLEAN
  PROVE  ShownForm'
<1>1. FormTypeOK'
  BY DEF ShownForm, FormInv, FormTypeOK, stepTwoVars
<1>2. SpinsForItsOwn' /\ SubmitsWhatIsShown'
  BY DEF ShownForm, FormInv, SpinsForItsOwn, SubmitsWhatIsShown, StepTwo, stepTwoVars
<1>3. StepHasVisit' /\ LaterVisitsIdle'
  BY DEF ShownForm, StepHasVisit, LaterVisitsIdle
<1> QED BY <1>1, <1>2, <1>3 DEF ShownForm, FormInv

LEMMA OnLoginKeeps == ASSUME ShownForm, onLogin PROVE ShownForm'
<1>1. visit' \in 1 .. Visits /\ visit' = visit + 1 /\ visit \in 0 .. Visits
  BY FormAssumption DEF ShownForm, FormInv, FormTypeOK, onLogin
<1>2. FormTypeOK'
  <2>1. field' \in Fields
    BY EmptyForm DEF onLogin
  <2>2. /\ step' \in {"left", "StepOne", "StepTwo"}
        /\ visit' \in 0 .. Visits
        /\ errorMsg' \in {"none", "email", "password"}
    BY <1>1 DEF onLogin
  <2>3. loading' \in BOOLEAN
    BY DEF onLogin
  <2> QED BY <2>1, <2>2, <2>3 DEF ShownForm, FormInv, FormTypeOK, onLogin, Fields
<1>3. handshake'[visit'] = NoHandshake
  BY <1>1 DEF ShownForm, LaterVisitsIdle, onLogin
<1>4. SpinsForItsOwn' /\ SubmitsWhatIsShown'
  BY <1>3 DEF onLogin, SpinsForItsOwn, SubmitsWhatIsShown, NoHandshake
<1>5. StepHasVisit' /\ LaterVisitsIdle'
  BY <1>1 DEF ShownForm, onLogin, StepHasVisit, LaterVisitsIdle
<1> QED BY <1>2, <1>4, <1>5 DEF ShownForm, FormInv

LEMMA SubmitKeeps == ASSUME ShownForm, handleCredentialsSubmit PROVE ShownForm'
<1>1. visit \in 1 .. Visits /\ ~ loading /\ step = "StepTwo"
  BY DEF ShownForm, FormInv, FormTypeOK, StepHasVisit, handleCredentialsSubmit, enabled, StepTwo
<1>2. CASE verdict # "none"
  <2>1. errorMsg' \in {"none", "email", "password"}
    BY DEF handleCredentialsSubmit, verdict
  <2>2. UNCHANGED <<screenVars, field, loading, handshake>>
    BY <1>2 DEF handleCredentialsSubmit
  <2>3. field' \in [email : Emails, password : Passwords, showPassword : BOOLEAN]
    BY <2>2 DEF ShownForm, FormInv, FormTypeOK
  <2> QED BY <1>1, <2>1, <2>2, <2>3, EditKeeps
<1>3. CASE verdict = "none"
  <2>1. field.email \in ValidEmails /\ field.password \in LongPasswords
    BY <1>3 DEF verdict
  <2>2. /\ loading' = TRUE /\ errorMsg' = "none"
        /\ UNCHANGED <<step, loadingOne, visit, field>>
        /\ handshake' = [handshake EXCEPT ![visit] =
             [at |-> "timer", email |-> field.email, password |-> field.password]]
    BY <1>3 DEF handleCredentialsSubmit, screenVars
  <2>3. FormTypeOK'
    BY <1>1, <2>1, <2>2 DEF ShownForm, FormInv, FormTypeOK
  <2>4. /\ handshake'[visit'].at = "timer"
        /\ handshake'[visit'].email = field.email
        /\ handshake'[visit'].password = field.password
    BY <1>1, <2>2 DEF ShownForm, FormInv, FormTypeOK
  <2>5. SpinsForItsOwn' /\ SubmitsWhatIsShown'
    BY <2>2, <2>4 DEF SpinsForItsOwn, SubmitsWhatIsShown, StepTwo
  <2>6. StepHasVisit' /\ LaterVisitsIdle'
    BY <1>1, <2>2 DEF ShownForm, FormInv, FormTypeOK, StepHasVisit, LaterVisitsIdle
  <2> QED BY <2>3, <2>5, <2>6 DEF ShownForm, FormInv
<1> QED BY <1>2, <1>3

\* The handshake of a visit goes on, of the form shown or of one that was left.
LEMMA TimerKeeps ==
  ASSUME ShownForm, NEW v \in 1 .. Visits, handshakeEnds(v) \/ onSubmitCredentials(v)
  PROVE  ShownForm'
<1>1. UNCHANGED <<step, loadingOne, visit, field, errorMsg>>
  BY DEF handshakeEnds, onSubmitCredentials, screenVars, stepTwoVars
<1>2. /\ handshake[v].at # "none"
      /\ handshake'[v].at # "timer"
      /\ \A w \in (1 .. Visits) \ {v} : handshake'[w] = handshake[w]
  <2>1. handshake \in [1 .. Visits -> Handshakes]
    BY DEF ShownForm, FormInv, FormTypeOK, Handshakes
  <2>2. CASE handshakeEnds(v)
    <3>1. handshake[v].at = "timer" /\ handshake[v] \in Handshakes \ {NoHandshake}
      BY <2>1, <2>2 DEF handshakeEnds, NoHandshake
    <3>2. [handshake[v] EXCEPT !.at = "onSubmit"].at = "onSubmit"
      BY <3>1 DEF Handshakes
    <3>3. handshake' = [handshake EXCEPT ![v] = [handshake[v] EXCEPT !.at = "onSubmit"]]
      BY <2>2 DEF handshakeEnds
    <3> DEFINE next == [handshake[v] EXCEPT !.at = "onSubmit"]
    <3>4. next.at = "onSubmit" /\ handshake' = [handshake EXCEPT ![v] = next]
      BY <3>2, <3>3
    <3> HIDE DEF next
    <3> QED BY <2>1, <3>1, <3>4
  <2>3. CASE onSubmitCredentials(v)
    BY <2>1, <2>3 DEF onSubmitCredentials, NoHandshake
  <2> QED BY <2>2, <2>3
<1>3. handshake' \in [1 .. Visits ->
        [at : {"timer", "onSubmit"}, email : ValidEmails, password : LongPasswords]
          \union {NoHandshake}]
  <2>1. CASE handshakeEnds(v)
    <3>1. handshake[v] \in [at : {"timer", "onSubmit"}, email : ValidEmails,
                            password : LongPasswords]
      BY <2>1, HandshakesDiffer DEF handshakeEnds, ShownForm, FormInv, FormTypeOK, NoHandshake
    <3> DEFINE next == [at |-> "onSubmit", email |-> handshake[v].email,
                        password |-> handshake[v].password]
    <3>2. [handshake[v] EXCEPT !.at = "onSubmit"] = next
      BY <3>1
    <3>3. next \in [at : {"timer", "onSubmit"}, email : ValidEmails,
                    password : LongPasswords]
      BY <3>1
    <3>4. handshake' = [handshake EXCEPT ![v] = next]
      BY <2>1, <3>2 DEF handshakeEnds
    <3> HIDE DEF next
    <3> QED BY <3>3, <3>4 DEF ShownForm, FormInv, FormTypeOK
  <2>2. CASE onSubmitCredentials(v)
    BY <2>2 DEF onSubmitCredentials, ShownForm, FormInv, FormTypeOK
  <2> QED BY <2>1, <2>2
<1>4. v <= visit
  BY <1>2, HandshakesDiffer DEF ShownForm, FormInv, FormTypeOK, LaterVisitsIdle
<1>5. loading' = (loading /\ handshake'[visit].at = "timer") \/ visit = 0
  <2>1. CASE handshakeEnds(v)
    BY <2>1, <1>2, <1>4 DEF handshakeEnds, setLoading, ShownForm, FormInv, FormTypeOK, SpinsForItsOwn
  <2>2. CASE onSubmitCredentials(v)
    BY <2>2, <1>2, <1>4
       DEF onSubmitCredentials, stepTwoVars, ShownForm, FormInv, FormTypeOK, SpinsForItsOwn
  <2> QED BY <2>1, <2>2
<1>6. loading' \in BOOLEAN
  BY DEF handshakeEnds, onSubmitCredentials, setLoading, stepTwoVars, ShownForm, FormInv, FormTypeOK
<1>7. FormTypeOK'
  BY <1>1, <1>3, <1>6 DEF ShownForm, FormInv, FormTypeOK
<1>8. \A w \in 1 .. Visits : handshake'[w].at = "timer" => handshake'[w] = handshake[w]
  BY <1>2
<1>9. SpinsForItsOwn' /\ SubmitsWhatIsShown'
  <2> SUFFICES ASSUME visit > 0
               PROVE  /\ loading' <=> handshake'[visit].at = "timer"
                      /\ handshake'[visit].at = "timer" =>
                           /\ handshake'[visit].email = field.email
                           /\ handshake'[visit].password = field.password
                           /\ errorMsg = "none"
    BY <1>1 DEF SpinsForItsOwn, SubmitsWhatIsShown, StepTwo
  <2>1. visit \in 1 .. Visits
    BY DEF ShownForm, FormInv, FormTypeOK
  <2>2. handshake'[visit].at = "timer" =>
          /\ handshake[visit].at = "timer" /\ handshake'[visit] = handshake[visit]
    BY <2>1, <1>8
  <2>3. handshake[visit].at = "timer" =>
          /\ loading /\ errorMsg = "none"
          /\ handshake[visit].email = field.email
          /\ handshake[visit].password = field.password
    BY DEF ShownForm, FormInv, SpinsForItsOwn, SubmitsWhatIsShown, StepTwo
  <2> QED BY <1>5, <1>6, <2>1, <2>2, <2>3
<1>10. StepHasVisit' /\ LaterVisitsIdle'
  BY <1>1, <1>2, <1>4 DEF ShownForm, FormInv, FormTypeOK, StepHasVisit, LaterVisitsIdle
<1> QED BY <1>7, <1>9, <1>10 DEF ShownForm, FormInv

LEMMA FormStepKeeps == ASSUME ShownForm, FormNext PROVE ShownForm'
<1>1. CASE LoginScreen \/ StepOne \/ leave
  BY <1>1, ScreenKeeps DEF LoginScreen, StepOne, leave, ShownForm, FormInv, FormTypeOK
<1>2. CASE onLogin
  BY <1>2, OnLoginKeeps
<1>3. ASSUME NEW value \in Emails, setEmail(value) PROVE ShownForm'
  <2>1. /\ ~ loading /\ step = "StepTwo" /\ UNCHANGED <<screenVars, loading, handshake>>
        /\ field' \in [email : Emails, password : Passwords, showPassword : BOOLEAN]
        /\ errorMsg' \in {"none", "email", "password"}
    BY <1>3 DEF setEmail, enabled, StepTwo, ShownForm, FormInv, FormTypeOK
  <2> QED BY <2>1, EditKeeps
<1>4. ASSUME NEW value \in Passwords, setPassword(value) PROVE ShownForm'
  <2>1. /\ ~ loading /\ step = "StepTwo" /\ UNCHANGED <<screenVars, loading, handshake>>
        /\ field' \in [email : Emails, password : Passwords, showPassword : BOOLEAN]
        /\ errorMsg' \in {"none", "email", "password"}
    BY <1>4 DEF setPassword, enabled, StepTwo, ShownForm, FormInv, FormTypeOK
  <2> QED BY <2>1, EditKeeps
<1>5. CASE handlePasswordVisibility
  <2>1. /\ step = "StepTwo" /\ UNCHANGED <<screenVars, loading, handshake, errorMsg>>
        /\ field' \in [email : Emails, password : Passwords, showPassword : BOOLEAN]
        /\ field'.email = field.email /\ field'.password = field.password
        /\ errorMsg' \in {"none", "email", "password"}
    BY <1>5 DEF handlePasswordVisibility, ShownForm, FormInv, FormTypeOK
  <2> QED BY <2>1, EditKeeps
<1>6. CASE handleCredentialsSubmit
  BY <1>6, SubmitKeeps
<1>7. ASSUME NEW v \in 1 .. Visits, handshakeEnds(v) \/ onSubmitCredentials(v) PROVE ShownForm'
  BY <1>7, TimerKeeps
<1> QED BY <1>1, <1>2, <1>3, <1>4, <1>5, <1>6, <1>7 DEF FormNext

LEMMA FormStutterKeeps == ASSUME ShownForm, UNCHANGED formVars PROVE ShownForm'
BY DEF ShownForm, FormInv, FormTypeOK, SpinsForItsOwn, SubmitsWhatIsShown, StepTwo,
       StepHasVisit, LaterVisitsIdle, formVars, screenVars, stepTwoVars

\* The form shows what its timer will hand to onSubmit, and spins as long as
\* that timer runs, whatever timers of earlier visits do.
THEOREM FormIsShown == FrontSpec => []FormInv
<1>1. FrontInit => ShownForm
  BY InitShownForm DEF FrontInit
<1>2. ShownForm /\ [FrontNext]_frontVars => ShownForm'
  BY FormStepKeeps, FormStutterKeeps DEF FrontNext, frontVars
<1>3. ShownForm => FormInv
  BY DEF ShownForm
<1> QED BY <1>1, <1>2, <1>3, PTL DEF FrontSpec

-----------------------------------------------------------------------------
(***************************************************************************)
(* Remote modules: a module was fetched once it is asked of the container. *)
(***************************************************************************)
RemoteTypes ==
  /\ present \subseteq Scopes
  /\ promise \in [Loads -> {"none", "init", "get", "loaded", "failed"}]
  /\ fetched \in [Loads -> Nat]

FetchedCounts ==
  \A l \in Loads :
    /\ fetched[l] <= 1
    /\ promise[l] \in {"none", "init"} => fetched[l] = 0
    /\ promise[l] \in {"get", "loaded"} => fetched[l] = 1

RemoteInv == RemoteTypes /\ FetchedCounts

LEMMA RemoteInit == Init => RemoteInv
BY DEF Init, RemoteInv, RemoteTypes, FetchedCounts

LEMMA RemoteStepKeeps == ASSUME RemoteInv, RemoteStep PROVE RemoteInv'
<1>1. ASSUME NEW scope \in Scopes, appear(scope) PROVE RemoteInv'
  BY <1>1 DEF RemoteInv, RemoteTypes, FetchedCounts, appear
<1>2. ASSUME NEW l \in Loads, loadRemoteModule(l) PROVE RemoteInv'
  BY <1>2 DEF RemoteInv, RemoteTypes, FetchedCounts, loadRemoteModule
<1>3. ASSUME NEW l \in Loads, NEW ok \in BOOLEAN, initDone(l, ok) PROVE RemoteInv'
  BY <1>3 DEF RemoteInv, RemoteTypes, FetchedCounts, initDone
<1>4. ASSUME NEW l \in Loads, NEW ok \in BOOLEAN, getDone(l, ok) PROVE RemoteInv'
  BY <1>4 DEF RemoteInv, RemoteTypes, FetchedCounts, getDone
<1> QED BY <1>1, <1>2, <1>3, <1>4 DEF RemoteStep, containerAnswers

LEMMA RemoteInvFetches == RemoteInv => FetchedOnce
BY DEF RemoteInv, RemoteTypes, FetchedCounts, FetchedOnce, rendered

-----------------------------------------------------------------------------
(***************************************************************************)
(* ApiClient under useRetry: how a call's attempt counts its requests.     *)
(***************************************************************************)
CallRecords ==
  [pc : {"idle", "fetch", "body", "delay", "ok", "failed", "brokenOff"},
   attempt : 0 .. maxRetries, timer : BOOLEAN]

ApiTypes ==
  /\ call \in [Calls -> CallRecords]
  /\ requests \in [Calls -> Nat]
  /\ told \in [Calls -> Nat]

AttemptsCount ==
  \A c \in Calls :
    /\ call[c].timer => call[c].pc = "fetch"
    /\ call[c].pc = "idle" => requests[c] = 0
    /\ call[c].pc # "idle" => requests[c] = call[c].attempt + 1
    /\ call[c].pc = "delay" => call[c].attempt < maxRetries
    /\ call[c].pc = "failed" => call[c].attempt = maxRetries
    /\ call[c].pc = "brokenOff" => call[c].attempt < maxRetries
    /\ told[c] = IF call[c].pc = "failed" THEN 1 ELSE 0

ApiInv == ApiTypes /\ AttemptsCount

LEMMA ApiInit == ASSUME Init PROVE ApiInv
<1>1. [pc |-> "idle", attempt |-> 0, timer |-> FALSE] \in CallRecords
  BY HostAssumption DEF CallRecords
<1>2. ApiTypes
  BY <1>1 DEF Init, ApiTypes
<1>3. AttemptsCount
  BY DEF Init, AttemptsCount
<1> QED BY <1>2, <1>3 DEF ApiInv

LEMMA RequestKeeps ==
  ASSUME ApiInv, NEW c \in Calls, NEW attempt \in 0 .. maxRetries,
         request(c, attempt), requests[c] = attempt, call[c].pc # "failed"
  PROVE  ApiInv'
<1> DEFINE k == [pc |-> "fetch", attempt |-> attempt, timer |-> TRUE]
<1>1. k \in CallRecords /\ k.pc = "fetch" /\ k.attempt = attempt
  BY DEF CallRecords
<1>2. /\ call' = [call EXCEPT ![c] = k]
      /\ requests' = [requests EXCEPT ![c] = @ + 1]
      /\ told' = told
  BY DEF request
<1> HIDE DEF k
<1>3. ApiTypes'
  BY <1>1, <1>2 DEF ApiInv, ApiTypes
<1>4. AttemptsCount'
  BY <1>1, <1>2 DEF ApiInv, ApiTypes, AttemptsCount
<1> QED BY <1>3, <1>4 DEF ApiInv

\* A call of which only pc and timer change.
LEMMA CallKeeps ==
  ASSUME ApiInv, NEW c \in Calls, NEW next \in CallRecords,
         call[c].pc \in {"fetch", "body"},
         next.attempt = call[c].attempt, ~ next.timer, next.pc # "idle",
         next.pc = "delay" => next.attempt < maxRetries,
         next.pc = "failed" => next.attempt = maxRetries,
         next.pc = "brokenOff" => next.attempt < maxRetries,
         call' = [call EXCEPT ![c] = next], requests' = requests,
         told' = [told EXCEPT ![c] = IF next.pc = "failed" THEN @ + 1 ELSE @]
  PROVE  ApiInv'
<1>1. ApiTypes'
  BY DEF ApiInv, ApiTypes
<1>2. AttemptsCount'
  BY DEF ApiInv, ApiTypes, AttemptsCount
<1> QED BY <1>1, <1>2 DEF ApiInv

LEMMA CaughtKeeps ==
  ASSUME ApiInv, NEW c \in Calls, call[c].pc \in {"fetch", "body"}, caught(c)
  PROVE  ApiInv'
<1>1. call[c] \in CallRecords
  BY DEF ApiInv, ApiTypes
<1>2. PICK pc \in caughtTo(c) :
        /\ goesTo(c, pc)
        /\ told' = [told EXCEPT ![c] = IF pc = "failed" THEN @ + 1 ELSE @]
        /\ UNCHANGED requests
  BY DEF caught
<1> DEFINE next == [pc |-> pc, attempt |-> call[c].attempt, timer |-> FALSE]
<1>3. /\ pc \in {"delay", "brokenOff", "failed"}
      /\ pc \in {"delay", "brokenOff"} => call[c].attempt < maxRetries
      /\ pc = "failed" => call[c].attempt = maxRetries
  BY <1>1, HostAssumption DEF caughtTo, CallRecords
<1>4. next \in CallRecords
  BY <1>1, <1>3 DEF CallRecords
<1>5. /\ next.attempt = call[c].attempt /\ ~ next.timer /\ next.pc # "idle"
      /\ next.pc = "delay" => next.attempt < maxRetries
      /\ next.pc = "brokenOff" => next.attempt < maxRetries
      /\ next.pc = "failed" => next.attempt = maxRetries
  BY <1>3
<1>6. call' = [call EXCEPT ![c] = next]
  BY <1>2 DEF goesTo, ApiInv, ApiTypes
<1>7. /\ requests' = requests
      /\ told' = [told EXCEPT ![c] = IF next.pc = "failed" THEN @ + 1 ELSE @]
  BY <1>2
<1> HIDE DEF next
<1> QED BY <1>4, <1>5, <1>6, <1>7, CallKeeps

\* The call goes on to the body of its answer, or has all of it.
LEMMA AnswerKeeps ==
  ASSUME ApiInv, NEW c \in Calls, NEW pc \in {"body", "ok"},
         call[c].pc \in {"fetch", "body"}, goesTo(c, pc), UNCHANGED <<requests, told>>
  PROVE  ApiInv'
<1>1. call[c] \in CallRecords
  BY DEF ApiInv, ApiTypes
<1> DEFINE next == [pc |-> pc, attempt |-> call[c].attempt, timer |-> FALSE]
<1>2. next \in CallRecords
  BY <1>1 DEF CallRecords
<1>3. /\ next.attempt = call[c].attempt /\ ~ next.timer
      /\ next.pc \notin {"idle", "delay", "failed", "brokenOff"}
  OBVIOUS
<1>4. call' = [call EXCEPT ![c] = next]
  BY DEF goesTo, ApiInv, ApiTypes
<1>5. told' = [told EXCEPT ![c] = IF next.pc = "failed" THEN @ + 1 ELSE @]
  BY <1>3 DEF ApiInv, ApiTypes
<1> HIDE DEF next
<1> QED BY <1>2, <1>3, <1>4, <1>5, CallKeeps

LEMMA ApiStepKeeps == ASSUME ApiInv, ApiStep PROVE ApiInv'
<1> PICK c \in Calls :
      \/ execute(c) \/ fetchFails(c) \/ abort(c) \/ retry(c)
      \/ \E ok \in BOOLEAN : response(c, ok) \/ body(c, ok)
  BY DEF ApiStep
<1>0. call[c] \in CallRecords /\ (call[c].timer => call[c].pc = "fetch")
  BY DEF ApiInv, ApiTypes, AttemptsCount
<1>1. CASE execute(c)
  BY <1>1, RequestKeeps, HostAssumption DEF execute, ApiInv, AttemptsCount
<1>2. CASE fetchFails(c) \/ abort(c)
  BY <1>0, <1>2, CaughtKeeps DEF fetchFails, abort
<1>3. CASE retry(c)
  <2>1. /\ call[c].attempt + 1 \in 0 .. maxRetries
        /\ requests[c] = call[c].attempt + 1 /\ call[c].pc = "delay"
    BY <1>0, <1>3, HostAssumption DEF retry, ApiInv, AttemptsCount, CallRecords
  <2> QED BY <1>3, <2>1, RequestKeeps DEF retry
<1>4. ASSUME NEW ok \in BOOLEAN, response(c, ok) \/ body(c, ok) PROVE ApiInv'
  BY <1>4, CaughtKeeps, AnswerKeeps DEF response, body
<1> QED BY <1>1, <1>2, <1>3, <1>4

LEMMA ApiInvFails == ApiInv => FailsAfterAll
<1> SUFFICES ASSUME ApiInv, NEW c \in Calls
             PROVE  /\ call[c].pc = "failed" => requests[c] = maxRetries + 1
                    /\ call[c].pc = "brokenOff" => requests[c] \in 1 .. maxRetries
                    /\ told[c] = IF call[c].pc = "failed" THEN 1 ELSE 0
  BY DEF FailsAfterAll
<1>1. call[c] \in CallRecords
  BY DEF ApiInv, ApiTypes
<1> QED BY <1>1, HostAssumption DEF ApiInv, AttemptsCount, CallRecords

-----------------------------------------------------------------------------
(***************************************************************************)
(* The event bus: a handler owed an event is still ahead of the publish    *)
(* that owes it.                                                           *)
(***************************************************************************)
Publishes == [at : 1 .. (MaxEntries + 1), running : BOOLEAN, owed : SUBSET Handlers]

BusTypes ==
  /\ listeners \in Seq(Handlers \union {Gone})
  /\ Len(listeners) <= MaxEntries
  /\ publishing \in Seq(Publishes)
  /\ published \in 0 .. MaxEvents

\* Publish p, over entries ls: where it is, and where what it owes is.
AheadOf(p, ls) ==
  /\ p.at <= Len(ls) + 1
  /\ p.running => p.at <= Len(ls)
  /\ \A h \in p.owed : \E i \in 1 .. Len(ls) :
       ls[i] = h /\ p.at <= i /\ (p.running => p.at # i)

OwedAhead == \A k \in 1 .. Len(publishing) : AheadOf(publishing[k], listeners)

BusInv == BusTypes /\ OwedAhead

LEMMA BusInit == ASSUME Init PROVE BusInv
<1>1. listeners = <<>> /\ publishing = <<>> /\ published = 0
  BY DEF Init
<1>2. BusTypes
  BY <1>1, HostAssumption, EmptySeq DEF BusTypes
<1>3. OwedAhead
  BY <1>1 DEF OwedAhead
<1> QED BY <1>2, <1>3 DEF BusInv

LEMMA BusInvSkips == ASSUME BusInv PROVE NoneSkipped
<1> SUFFICES ASSUME NEW k \in DOMAIN publishing, publishing[k].at > Len(listeners)
             PROVE  publishing[k].owed = {}
  BY DEF NoneSkipped
<1>1. k \in 1 .. Len(publishing)
  BY DEF BusInv, BusTypes
<1>2. Len(listeners) \in Nat /\ publishing[k] \in Publishes
  BY <1>1 DEF BusInv, BusTypes
<1>3. AheadOf(publishing[k], listeners)
  BY <1>1 DEF BusInv, OwedAhead
<1> QED BY <1>2, <1>3 DEF AheadOf, Publishes

LEMMA SubscribeKeeps == ASSUME BusInv, NEW h \in Handlers, subscribe(h) PROVE BusInv'
<1>1. /\ listeners' = Append(listeners, h) /\ publishing' = publishing
      /\ published' = published /\ Len(listeners) < MaxEntries
  BY DEF subscribe
<1>2. /\ listeners' \in Seq(Handlers \union {Gone}) /\ Len(listeners') = Len(listeners) + 1
      /\ \A i \in 1 .. Len(listeners) : listeners'[i] = listeners[i]
  BY <1>1, AppendProperties DEF BusInv, BusTypes
<1>3. Len(listeners) \in Nat
  BY DEF BusInv, BusTypes
<1>4. BusTypes'
  BY <1>1, <1>2, <1>3, HostAssumption DEF BusInv, BusTypes
<1>5. ASSUME NEW k \in 1 .. Len(publishing) PROVE AheadOf(publishing[k], listeners')
  <2>1. AheadOf(publishing[k], listeners) /\ publishing[k] \in Publishes
    BY DEF BusInv, BusTypes, OwedAhead
  <2> QED BY <1>2, <1>3, <2>1 DEF AheadOf, Publishes
<1> QED BY <1>1, <1>4, <1>5 DEF BusInv, OwedAhead

LEMMA UnsubscribeKeeps == ASSUME BusInv, NEW h \in Handlers, unsubscribe(h) PROVE BusInv'
<1>1. /\ listeners \in Seq(Handlers \union {Gone}) /\ Len(listeners) \in Nat
      /\ DOMAIN listeners = 1 .. Len(listeners)
      /\ publishing \in Seq(Publishes) /\ Len(publishing) \in Nat
      /\ DOMAIN publishing = 1 .. Len(publishing)
  BY LenProperties DEF BusInv, BusTypes
<1>2. /\ listeners' \in [1 .. Len(listeners) -> Handlers \union {Gone}]
      /\ \A i \in 1 .. Len(listeners) :
           listeners'[i] = IF listeners[i] = h THEN Gone ELSE listeners[i]
  BY <1>1, ElementOfSeq DEF unsubscribe, remove
<1>3. listeners' \in Seq(Handlers \union {Gone}) /\ Len(listeners') = Len(listeners)
  BY <1>1, <1>2, SeqDef, LenProperties
<1>4. ASSUME NEW k \in 1 .. Len(publishing)
      PROVE  /\ publishing'[k] \in Publishes
             /\ publishing'[k].at = publishing[k].at
             /\ publishing'[k].running = publishing[k].running
             /\ publishing'[k].owed = publishing[k].owed \ {h}
  <2>1. publishing[k] \in Publishes
    BY <1>1, ElementOfSeq
  <2>2. publishing'[k] = [publishing[k] EXCEPT !.owed = @ \ {h}]
    BY <1>1 DEF unsubscribe
  <2> QED BY <2>1, <2>2 DEF Publishes
<1>5. DOMAIN publishing' = 1 .. Len(publishing)
  BY <1>1 DEF unsubscribe
<1>6. publishing' \in [1 .. Len(publishing) -> Publishes]
  <2>1. publishing' = [k \in 1 .. Len(publishing) |-> [publishing[k] EXCEPT !.owed = @ \ {h}]]
    BY <1>1 DEF unsubscribe
  <2> QED BY <1>4, <2>1
<1>7. publishing' \in Seq(Publishes) /\ Len(publishing') = Len(publishing)
  BY <1>1, <1>6, SeqDef, LenProperties
<1>8. BusTypes'
  BY <1>3, <1>7 DEF BusInv, BusTypes, unsubscribe
<1>9. ASSUME NEW k \in 1 .. Len(publishing) PROVE AheadOf(publishing'[k], listeners')
  <2>1. AheadOf(publishing[k], listeners)
    BY DEF BusInv, OwedAhead
  <2> QED BY <1>2, <1>3, <1>4, <2>1 DEF AheadOf
<1> QED BY <1>7, <1>8, <1>9 DEF BusInv, OwedAhead

LEMMA PublishKeeps == ASSUME BusInv, publish PROVE BusInv'
<1> DEFINE p == [at |-> 1, running |-> FALSE, owed |-> Subscribed]
<1>1. /\ Len(listeners) \in Nat /\ DOMAIN listeners = 1 .. Len(listeners)
      /\ \A i \in 1 .. Len(listeners) : listeners[i] \in Handlers \union {Gone}
      /\ publishing \in Seq(Publishes) /\ Len(publishing) \in Nat
  BY LenProperties, ElementOfSeq DEF BusInv, BusTypes
<1>2. p \in Publishes
  BY <1>1, HostAssumption DEF Publishes, Subscribed
<1>3. AheadOf(p, listeners)
  BY <1>1 DEF AheadOf, Subscribed
<1>4. publishing' = Append(publishing, p) /\ listeners' = listeners /\ published' \in 0 .. MaxEvents
  BY HostAssumption DEF publish, BusInv, BusTypes
<1> HIDE DEF p
<1>5. /\ publishing' \in Seq(Publishes) /\ Len(publishing') = Len(publishing) + 1
      /\ \A k \in 1 .. Len(publishing) : publishing'[k] = publishing[k]
      /\ publishing'[Len(publishing) + 1] = p
  BY <1>1, <1>2, <1>4, AppendProperties
<1>6. BusTypes'
  BY <1>4, <1>5 DEF BusInv, BusTypes
<1>7. OwedAhead'
  BY <1>1, <1>3, <1>4, <1>5 DEF BusInv, OwedAhead
<1> QED BY <1>6, <1>7 DEF BusInv

\* A step of the innermost publish alone.
LEMMA InnerKeeps ==
  ASSUME BusInv, NEW p \in Publishes, AheadOf(p, listeners), publishing # <<>>,
         setInner(p), UNCHANGED <<listeners, published>>
  PROVE  BusInv'
<1>1. /\ publishing \in Seq(Publishes) /\ Len(publishing) \in Nat \ {0}
      /\ Len(publishing) \in 1 .. Len(publishing)
  BY EmptySeq DEF BusInv, BusTypes
<1>2. /\ publishing' \in Seq(Publishes) /\ Len(publishing') = Len(publishing)
      /\ \A k \in 1 .. Len(publishing) :
           publishing'[k] = IF k = Len(publishing) THEN p ELSE publishing[k]
  BY <1>1, ExceptSeq DEF setInner
<1>3. BusTypes'
  BY <1>2 DEF BusInv, BusTypes
<1>4. OwedAhead'
  BY <1>2 DEF BusInv, OwedAhead
<1> QED BY <1>3, <1>4 DEF BusInv

LEMMA InnerIs ==
  ASSUME BusInv, publishing # <<>>
  PROVE  inner \in Publishes /\ AheadOf(inner, listeners)
<1>1. publishing \in Seq(Publishes) /\ Len(publishing) \in 1 .. Len(publishing)
  BY EmptySeq DEF BusInv, BusTypes
<1> QED BY <1>1, ElementOfSeq DEF inner, BusInv, OwedAhead

LEMMA CallHandlerKeeps == ASSUME BusInv, callHandler PROVE BusInv'
<1>1. /\ inner \in Publishes /\ AheadOf(inner, listeners) /\ publishing # <<>>
      /\ ~ inner.running /\ UNCHANGED <<listeners, published>>
  BY InnerIs DEF callHandler
<1>2. /\ Len(listeners) \in Nat /\ Len(listeners) <= MaxEntries
      /\ inner.at \in 1 .. Len(listeners)
  BY LenProperties DEF BusInv, BusTypes, callHandler
<1>3. CASE listeners[inner.at] = Gone
  <2> DEFINE p == [inner EXCEPT !.at = @ + 1]
  <2>1. p = [at |-> inner.at + 1, running |-> inner.running, owed |-> inner.owed]
    BY <1>1 DEF Publishes
  <2>2. p \in Publishes
    BY <1>1, <1>2, <2>1, HostAssumption DEF Publishes
  <2>3. p.at = inner.at + 1 /\ p.running = inner.running /\ p.owed = inner.owed
    BY <2>1
  <2>4. setInner(p)
    BY <1>3 DEF callHandler
  <2> HIDE DEF p
  <2>5. AheadOf(p, listeners)
    BY <1>1, <1>2, <1>3, <2>3, HostAssumption DEF AheadOf, Publishes
  <2> QED BY <1>1, <2>2, <2>4, <2>5, InnerKeeps
<1>4. CASE listeners[inner.at] # Gone
  <2> DEFINE p == [at |-> inner.at, running |-> TRUE,
                   owed |-> inner.owed \ {listeners[inner.at]}]
  <2>1. p \in Publishes
    BY <1>1 DEF Publishes
  <2>2. AheadOf(p, listeners)
    BY <1>1, <1>2 DEF AheadOf
  <2>3. setInner(p)
    BY <1>4 DEF callHandler
  <2> QED BY <1>1, <2>1, <2>2, <2>3, InnerKeeps
<1> QED BY <1>3, <1>4

LEMMA ReturnsKeeps == ASSUME BusInv, returns PROVE BusInv'
<1>1. /\ inner \in Publishes /\ AheadOf(inner, listeners) /\ publishing # <<>>
      /\ inner.running /\ UNCHANGED <<listeners, published>>
  BY InnerIs DEF returns
<1>2. Len(listeners) \in Nat /\ Len(listeners) <= MaxEntries
  BY LenProperties DEF BusInv, BusTypes
<1> DEFINE p == [at |-> inner.at + 1, running |-> FALSE, owed |-> inner.owed]
<1>3. p \in Publishes
  BY <1>1, <1>2, HostAssumption DEF AheadOf, Publishes
<1>4. AheadOf(p, listeners)
  BY <1>1, <1>2 DEF AheadOf, Publishes
<1>5. setInner(p)
  BY DEF returns
<1> QED BY <1>1, <1>3, <1>4, <1>5, InnerKeeps

LEMMA LeaveKeeps == ASSUME BusInv, throws \/ publishEnds PROVE BusInv'
<1>1. /\ publishing' = SubSeq(publishing, 1, Len(publishing) - 1)
      /\ publishing # <<>> /\ UNCHANGED <<listeners, published>>
  BY DEF throws, publishEnds
<1>2. publishing \in Seq(Publishes) /\ Len(publishing) \in Nat \ {0}
  BY <1>1, EmptySeq DEF BusInv, BusTypes
<1>3. /\ publishing' \in Seq(Publishes) /\ Len(publishing') = Len(publishing) - 1
      /\ \A k \in 1 .. Len(publishing) - 1 : publishing'[k] = publishing[k]
  <2> DEFINE n == Len(publishing) - 1
  <2>1. 1 \in Int /\ n \in Nat /\ \A k \in 1 .. n : publishing[k] \in Publishes
    BY <1>2, ElementOfSeq
  <2>2. publishing' = SubSeq(publishing, 1, n)
    BY <1>1
  <2> HIDE DEF n
  <2>3. /\ SubSeq(publishing, 1, n) \in Seq(Publishes)
        /\ Len(SubSeq(publishing, 1, n)) = IF 1 <= n THEN n - 1 + 1 ELSE 0
        /\ \A k \in 1 .. n - 1 + 1 : SubSeq(publishing, 1, n)[k] = publishing[1 + k - 1]
    BY <2>1, SubSeqProperties
  <2>4. /\ publishing' \in Seq(Publishes) /\ Len(publishing') = n
        /\ \A k \in 1 .. n : publishing'[k] = publishing[k]
    BY <2>1, <2>2, <2>3
  <2> QED BY <2>4 DEF n
<1>4. BusTypes'
  BY <1>1, <1>3 DEF BusInv, BusTypes
<1>5. OwedAhead'
  BY <1>1, <1>2, <1>3 DEF BusInv, OwedAhead
<1> QED BY <1>4, <1>5 DEF BusInv

LEMMA BusStepKeeps == ASSUME BusInv, BusStep PROVE BusInv'
BY SubscribeKeeps, UnsubscribeKeeps, PublishKeeps, CallHandlerKeeps, ReturnsKeeps,
   LeaveKeeps DEF BusStep

-----------------------------------------------------------------------------
LibraryInv ==
  part \in Parts /\ RemoteInv /\ BusInv /\ ApiInv

LEMMA RemoteStutters == ASSUME RemoteInv, UNCHANGED remoteVars PROVE RemoteInv'
BY DEF RemoteInv, RemoteTypes, FetchedCounts, remoteVars

LEMMA BusStutters == ASSUME BusInv, UNCHANGED busVars PROVE BusInv'
BY DEF BusInv, BusTypes, OwedAhead, busVars

LEMMA ApiStutters == ASSUME ApiInv, UNCHANGED apiVars PROVE ApiInv'
BY DEF ApiInv, ApiTypes, AttemptsCount, apiVars

LEMMA LibraryKeeps == ASSUME LibraryInv, [FrontNext]_frontVars PROVE LibraryInv'
<1>1. CASE UNCHANGED vars
  BY <1>1, RemoteStutters, BusStutters, ApiStutters DEF LibraryInv, vars
<1>2. CASE Next
  <2>1. CASE RemoteStep /\ UNCHANGED <<busVars, apiVars>>
    BY <1>2, <2>1, RemoteStepKeeps, BusStutters, ApiStutters DEF LibraryInv, Next
  <2>2. CASE BusStep /\ UNCHANGED <<remoteVars, apiVars>>
    BY <1>2, <2>2, BusStepKeeps, RemoteStutters, ApiStutters DEF LibraryInv, Next
  <2>3. CASE ApiStep /\ UNCHANGED <<remoteVars, busVars>>
    BY <1>2, <2>3, ApiStepKeeps, RemoteStutters, BusStutters DEF LibraryInv, Next
  <2> QED BY <1>2, <2>1, <2>2, <2>3 DEF Next
<1> QED BY <1>1, <1>2 DEF FrontNext, frontVars

LEMMA LibraryInvIsHostInv == ASSUME LibraryInv PROVE HostInv
<1>1. /\ part \in Parts
      /\ RemoteTypes /\ BusTypes /\ ApiTypes
  BY DEF LibraryInv, RemoteInv, BusInv, ApiInv
<1>2. TypeOK
  BY <1>1 DEF TypeOK, RemoteTypes, BusTypes, ApiTypes, Publishes, CallRecords, Ended
<1>3. FetchedOnce /\ FailsAfterAll
  BY RemoteInvFetches, ApiInvFails DEF LibraryInv
<1> QED BY <1>2, <1>3 DEF HostInv

\* A remote module is fetched once per loader; a call fails after all of its
\* attempts, and says so once.
THEOREM LibraryIsSafe == FrontSpec => []HostInv
<1>1. FrontInit => LibraryInv
  BY RemoteInit, BusInit, ApiInit DEF FrontInit, LibraryInv, Init
<1> QED BY <1>1, LibraryKeeps, LibraryInvIsHostInv, PTL DEF FrontSpec

\* A publish that comes to its end has called every handler that was there all
\* along, whatever handlers do to the Set.
THEOREM BusSkipsNobody == FrontSpec => []NoneSkipped
<1>1. FrontInit => LibraryInv
  BY RemoteInit, BusInit, ApiInit DEF FrontInit, LibraryInv, Init
<1>2. LibraryInv => NoneSkipped
  BY BusInvSkips DEF LibraryInv
<1> QED BY <1>1, <1>2, LibraryKeeps, PTL DEF FrontSpec

\* The composition adds nothing to the breaker and the bridge, so what
\* Libraries_proofs shows of each (CountersStayBelow and the others) holds of it.
THEOREM LibrariesImplemented == FrontSpec => BreakerSpec /\ BridgeSpec
<1>1. FrontInit => BreakerInit /\ BridgeInit
  BY DEF FrontInit
<1>2. [FrontNext]_frontVars => [BreakerNext]_breakerVars
  BY DEF FrontNext, frontVars
<1>3. [FrontNext]_frontVars => [BridgeNext]_bridgeVars
  BY DEF FrontNext, frontVars
<1> QED BY <1>1, <1>2, <1>3, PTL DEF FrontSpec, BreakerSpec, BridgeSpec
============================================================================

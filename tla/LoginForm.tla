----------------------------- MODULE LoginForm -----------------------------
(***************************************************************************)
(* The screen of the login micro-frontend: Login.tsx renders LoginScreen,  *)
(* which shows StepOne and, once that calls onLogin, StepTwo's form. The   *)
(* button of StepOne only sets loading: nothing in the repository calls    *)
(* onLogin yet (see README), here it may be called at any time.            *)
(*                                                                         *)
(* StepTwo hands what was typed to onSubmit 1.5 s after a submit, from a   *)
(* timer nobody clears: the user can leave and come back meanwhile. A      *)
(* visit is one mounted StepTwo with its state; a timer keeps the visit    *)
(* and the values it was started with. Layout is left out.                 *)
(***************************************************************************)
EXTENDS Naturals

CONSTANTS
  Emails, ValidEmails,       \* what is typed; what the pattern matches
  Passwords, LongPasswords,  \* those of six characters or more
  Blank,                     \* the empty field
  Visits                     \* StepTwos that are mounted, in order: a bound

ASSUME FormAssumption ==
  /\ Blank \in Emails \intersect Passwords
  /\ ValidEmails \subseteq Emails \ {Blank}
  /\ LongPasswords \subseteq Passwords \ {Blank}
  /\ Visits \in Nat

VARIABLES
  step,       \* what LoginScreen shows; "left" when it is not mounted
  loadingOne, \* StepOne's loading
  visit,      \* the StepTwo mounted last
  field,      \* its email, password, showPassword
  loading,    \* its loading
  errorMsg,   \* its errorMsg
  handshake   \* visit -> how far its last submit is, and the closure's values

screenVars == <<step, loadingOne, visit>>
stepTwoVars == <<field, loading, errorMsg>>
formVars == <<screenVars, stepTwoVars, handshake>>

NoField == [email |-> Blank, password |-> Blank, showPassword |-> FALSE]
NoHandshake == [at |-> "none", email |-> Blank, password |-> Blank]

FormInit ==
  /\ step = "left" /\ loadingOne = FALSE /\ visit = 0
  /\ field = NoField /\ loading = FALSE /\ errorMsg = "none"
  /\ handshake = [v \in 1 .. Visits |-> NoHandshake]

-----------------------------------------------------------------------------
(* LoginScreen and StepOne *)

\* The login route renders Login, the effect of LoginScreen sets StepOne.
LoginScreen ==
  /\ step = "left"
  /\ step' = "StepOne" /\ loadingOne' = FALSE
  /\ UNCHANGED <<visit, stepTwoVars, handshake>>

StepOne ==
  /\ step = "StepOne" /\ ~ loadingOne
  /\ loadingOne' = TRUE
  /\ UNCHANGED <<step, visit, stepTwoVars, handshake>>

onLogin ==
  /\ step = "StepOne" /\ visit < Visits
  /\ step' = "StepTwo" /\ visit' = visit + 1
  /\ field' = NoField /\ loading' = FALSE /\ errorMsg' = "none"
  /\ UNCHANGED <<loadingOne, handshake>>

\* Another route: the components go, timers stay.
leave ==
  /\ step # "left"
  /\ step' = "left"
  /\ UNCHANGED <<loadingOne, visit, stepTwoVars, handshake>>

-----------------------------------------------------------------------------
(* StepTwo *)

\* What it renders; `disabled` is that of the fields and buttons of the form.
StepTwo ==
  [alert |-> errorMsg # "none", email |-> field.email, password |-> field.password,
   masked |-> ~ field.showPassword, disabled |-> loading]

Mutant_enabled == step = "StepTwo"

enabled == step = "StepTwo" /\ ~ StepTwo.disabled

setEmail(value) ==
  /\ enabled /\ field.email # value
  /\ field' = [field EXCEPT !.email = value]
  /\ UNCHANGED <<screenVars, loading, errorMsg, handshake>>

setPassword(value) ==
  /\ enabled /\ field.password # value
  /\ field' = [field EXCEPT !.password = value]
  /\ UNCHANGED <<screenVars, loading, errorMsg, handshake>>

\* The one control that stays enabled.
handlePasswordVisibility ==
  /\ step = "StepTwo"
  /\ field' = [field EXCEPT !.showPassword = ~ @]
  /\ UNCHANGED <<screenVars, loading, errorMsg, handshake>>

verdict ==
  IF field.email \notin ValidEmails THEN "email"
  ELSE IF field.password \notin LongPasswords THEN "password" ELSE "none"

\* onSubmit of an earlier submit may still be pending: nothing shows it.
handleCredentialsSubmit ==
  /\ enabled
  /\ errorMsg' = verdict
  /\ IF verdict = "none"
     THEN /\ loading' = TRUE
          /\ handshake' = [handshake EXCEPT ![visit] =
               [at |-> "timer", email |-> field.email, password |-> field.password]]
     ELSE UNCHANGED <<loading, handshake>>
  /\ UNCHANGED <<screenVars, field>>

\* setLoading of the visit v: React ignores it once v has gone.
setLoading(v) == loading' = (loading /\ v # visit)

handshakeEnds(v) ==
  /\ handshake[v].at = "timer"
  /\ setLoading(v)
  /\ handshake' = [handshake EXCEPT ![v].at = "onSubmit"]
  /\ UNCHANGED <<screenVars, field, errorMsg>>

\* What Login passes does nothing; one that rejects is an unhandled rejection.
onSubmitCredentials(v) ==
  /\ handshake[v].at = "onSubmit"
  /\ handshake' = [handshake EXCEPT ![v] = NoHandshake]
  /\ UNCHANGED <<screenVars, stepTwoVars>>

FormNext ==
  \/ LoginScreen \/ StepOne \/ onLogin \/ leave
  \/ \E value \in Emails : setEmail(value)
  \/ \E value \in Passwords : setPassword(value)
  \/ handlePasswordVisibility \/ handleCredentialsSubmit
  \/ \E v \in 1 .. Visits : handshakeEnds(v) \/ onSubmitCredentials(v)

-----------------------------------------------------------------------------
(* Every variable has its type. *)
FormTypeOK ==
  /\ step \in {"left", "StepOne", "StepTwo"}
  /\ loadingOne \in BOOLEAN /\ loading \in BOOLEAN
  /\ visit \in 0 .. Visits
  /\ field \in [email : Emails, password : Passwords, showPassword : BOOLEAN]
  /\ errorMsg \in {"none", "email", "password"}
  /\ handshake \in [1 .. Visits ->
       [at : {"timer", "onSubmit"}, email : ValidEmails, password : LongPasswords]
         \union {NoHandshake}]

(* The form spins, and takes no second submit, exactly as long as its own  *)
(* timer runs, whatever timers of forms the user left do (setLoading of an *)
(* unmounted StepTwo).                                                     *)
SpinsForItsOwn ==
  visit > 0 => (loading <=> handshake[visit].at = "timer")

(* What the timer of a form hands to onSubmit is what the form shows, with *)
(* no alert: the closure is 1.5 s old, but the form did not change         *)
(* meanwhile.                                                              *)
SubmitsWhatIsShown ==
  visit > 0 /\ handshake[visit].at = "timer" =>
    /\ handshake[visit].email = StepTwo.email
    /\ handshake[visit].password = StepTwo.password
    /\ ~ StepTwo.alert

(* The types, SpinsForItsOwn and SubmitsWhatIsShown. *)
FormInv == FormTypeOK /\ SpinsForItsOwn /\ SubmitsWhatIsShown
=============================================================================

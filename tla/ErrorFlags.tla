----------------------------- MODULE ErrorFlags -----------------------------
(***************************************************************************)
(* The error conditions of the experiment: a set of codes that several     *)
(* tasks change, the single code that heartbeats carry, and the indicator, *)
(* which is the error LED or, on a board without one, the fast blinking of *)
(* the heartbeat LED.  Changes hold a mutex, queries do not.               *)
(***************************************************************************)
EXTENDS Naturals, FiniteSetsExt

CONSTANTS
    ErrorCodes,    \* the codes that are used
    ErrorTasks,    \* the tasks that set and clear them
    NoErrorTask    \* none of them

ASSUME ErrorsAssumption == ErrorCodes \subseteq 1 .. 64 /\ NoErrorTask \notin ErrorTasks

NO_ERROR == 0

VARIABLES
    errorCodes,
    singleError,
    errorLed,
    errorsUp,      \* init() is done
    errorMutex,    \* the task that holds errorCodeMutex
    errorTask      \* for each task, where setError() is

errorVars == <<errorCodes, singleError, errorLed, errorsUp, errorMutex, errorTask>>

NoErrorCall == [at |-> "idle", code |-> NO_ERROR, present |-> FALSE, old |-> {}]

(* The LED may have been lit by the program that ran before a reset. *)
ErrorsInit ==
    /\ errorCodes = {} /\ singleError = NO_ERROR
    /\ errorLed \in BOOLEAN
    /\ errorsUp = FALSE
    /\ errorMutex = NoErrorTask
    /\ errorTask = [t \in ErrorTasks |-> NoErrorCall]

(* init(), which runs before there are tasks: clearAllErrors() finds none, *)
(* and the indicator is set all the same.                                  *)
ErrorsUp ==
    /\ ~errorsUp
    /\ errorsUp' = TRUE
    /\ errorLed' = (errorCodes # {})
    /\ UNCHANGED <<errorCodes, singleError, errorMutex, errorTask>>

---------------------------------------------------------------------------
(* setError() and clearError() *)
ErrorStep(t, changes) == errorTask' = [errorTask EXCEPT ![t] = changes]

SetError(t, code, present) ==
    /\ errorsUp
    /\ errorTask[t].at = "idle"
    /\ ErrorStep(t, [at |-> "lock", code |-> code, present |-> present, old |-> {}])
    /\ UNCHANGED <<errorCodes, singleError, errorLed, errorsUp, errorMutex>>

(* Mutant: the mutex is not taken. *)
LockNothing(t) ==
    /\ errorTask[t].at = "lock"
    /\ ErrorStep(t, [errorTask[t] EXCEPT !.at = "load"])
    /\ UNCHANGED <<errorCodes, singleError, errorLed, errorsUp, errorMutex>>

LockErrors(t) ==
    /\ errorTask[t].at = "lock"
    /\ errorMutex = NoErrorTask
    /\ errorMutex' = t
    /\ ErrorStep(t, [errorTask[t] EXCEPT !.at = "load"])
    /\ UNCHANGED <<errorCodes, singleError, errorLed, errorsUp>>

(* The 64 bits of codes are loaded and stored in separate instructions. *)
LoadCodes(t) ==
    LET c == errorTask[t] IN
    /\ c.at = "load"
    /\ ErrorStep(t, [at |-> "codes", code |-> c.code, present |-> c.present, old |-> errorCodes])
    /\ UNCHANGED <<errorCodes, singleError, errorLed, errorsUp, errorMutex>>

StoreCodes(t) ==
    LET c == errorTask[t] IN
    /\ c.at = "codes"
    /\ errorCodes' = IF c.present THEN c.old \cup {c.code} ELSE c.old \ {c.code}
    /\ ErrorStep(t, [c EXCEPT !.at = "single"])
    /\ UNCHANGED <<singleError, errorLed, errorsUp, errorMutex>>

(* Setting keeps the lowest code; once the single code is cleared,         *)
(* updateSingleError() goes for the highest bit that is left.              *)
NextSingleError(code, present) ==
    CASE present -> IF singleError = NO_ERROR \/ code < singleError THEN code ELSE singleError
      [] ~present /\ singleError # code -> singleError
      [] OTHER -> IF errorCodes = {} THEN NO_ERROR ELSE Max(errorCodes)

StoreSingle(t) ==
    LET c == errorTask[t] IN
    /\ c.at = "single"
    /\ singleError' = NextSingleError(c.code, c.present)
    /\ ErrorStep(t, [c EXCEPT !.at = IF errorCodes # c.old THEN "led" ELSE "unlock"])
    /\ UNCHANGED <<errorCodes, errorLed, errorsUp, errorMutex>>

(* The log record of the change is dropped when the queue is full. *)
ShowErrors(t) ==
    /\ errorTask[t].at = "led"
    /\ errorLed' = (errorCodes # {})
    /\ ErrorStep(t, [errorTask[t] EXCEPT !.at = "unlock"])
    /\ UNCHANGED <<errorCodes, singleError, errorsUp, errorMutex>>

UnlockErrors(t) ==
    /\ errorTask[t].at = "unlock"
    /\ errorMutex' = NoErrorTask
    /\ ErrorStep(t, NoErrorCall)
    /\ UNCHANGED <<errorCodes, singleError, errorLed, errorsUp>>

ErrorsNext ==
    \/ ErrorsUp
    \/ \E t \in ErrorTasks :
         \/ \E code \in ErrorCodes, present \in BOOLEAN : SetError(t, code, present)
         \/ LockErrors(t) \/ LoadCodes(t) \/ StoreCodes(t) \/ StoreSingle(t)
         \/ ShowErrors(t) \/ UnlockErrors(t)

ErrorsSpec == ErrorsInit /\ [][ErrorsNext]_errorVars

---------------------------------------------------------------------------
ErrorsTypeOK ==
    /\ errorCodes \subseteq ErrorCodes
    /\ singleError \in ErrorCodes \cup {NO_ERROR}
    /\ errorLed \in BOOLEAN /\ errorsUp \in BOOLEAN
    /\ errorMutex \in ErrorTasks \cup {NoErrorTask}
    /\ errorTask \in [ErrorTasks -> [at : {"idle", "lock", "load", "codes", "single", "led", "unlock"},
                                     code : ErrorCodes \cup {NO_ERROR}, present : BOOLEAN,
                                     old : SUBSET ErrorCodes]]

(* Whenever no change is in progress, getError(), read without the mutex,  *)
(* returns a condition that is present and is silent only if there is none,*)
(* and the indicator shows whether there is one.                           *)
ErrorsAgree ==
    errorsUp /\ errorMutex = NoErrorTask =>
        /\ singleError \in errorCodes \cup {NO_ERROR}
        /\ (singleError = NO_ERROR) <=> (errorCodes = {})
        /\ errorLed <=> (errorCodes # {})

(* A task that sets or clears its code never undoes what another one has   *)
(* done to another code meanwhile.                                         *)
OthersCodesKept ==
    [][\A code \in ErrorCodes : (code \in errorCodes) # (code \in errorCodes') =>
         \E t \in ErrorTasks : errorTask[t].at = "codes" /\ errorTask[t].code = code]_errorVars

=============================================================================

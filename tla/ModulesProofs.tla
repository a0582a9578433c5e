---------------------------- MODULE ModulesProofs ----------------------------
(***************************************************************************)
(* Proofs about the modules above the buses.  A step of one part leaves    *)
(* the others alone, so the invariant of each part is inductive for the    *)
(* steps of all of them.                                                   *)
(***************************************************************************)
EXTENDS MCModules, SequenceTheorems, WellFoundedInduction, NaturalsInduction, FiniteSetTheorems, TLAPS

---------------------------------------------------------------------------
(* The error flags *)

(* updateSingleError() finds the highest bit among those that are set. *)
LEMMA MaxOfCodes ==
    ASSUME NEW S, S \subseteq 1 .. 64, S # {}
    PROVE  Max(S) \in S
<1> DEFINE T == {64 - x : x \in S}
<1>1. IsWellFoundedOn(OpToRel(<, Nat), Nat)
  BY NatLessThanWellFounded
<1>2. T \subseteq Nat /\ T # {}
  <2>1. \A x \in S : 64 - x \in Nat
    OBVIOUS
  <2>2. PICK x \in S : TRUE
    OBVIOUS
  <2>3. 64 - x \in T
    OBVIOUS
  <2> QED
    BY <2>1, <2>3
<1>3. PICK m \in T : \A y \in T : ~ (<<y, m>> \in OpToRel(<, Nat))
  <2> HIDE DEF T
  <2> QED
    BY <1>1, <1>2, WFMin
<1>4. PICK x \in S : m = 64 - x
  BY <1>3
<1>5. \A y \in S : x >= y
  <2> SUFFICES ASSUME NEW y \in S PROVE x >= y
    OBVIOUS
  <2>1. ~ (<<64 - y, m>> \in OpToRel(<, Nat))
    BY <1>3
  <2>2. 64 - y \in Nat /\ m \in Nat
    BY <1>2, <1>3
  <2>3. ~ (64 - y < m)
    BY <2>1, <2>2 DEF OpToRel
  <2> QED
    BY <2>3, <1>4
<1> QED
  BY <1>4, <1>5 DEF Max

(* A task is between taking and giving back the mutex. *)
Changing == {"load", "codes", "single", "led", "unlock"}

(* The single code and the indicator are true of a set of codes. *)
SingleTrueOf(codes) ==
    /\ singleError \in codes \cup {NO_ERROR}
    /\ (singleError = NO_ERROR) <=> (codes = {})

LedTrueOf(codes) == errorLed <=> (codes # {})

(* What a task that is in a change knows. *)
ChangeTrue(t) ==
    LET c == errorTask[t] IN
    /\ c.at # "idle" => c.code \in ErrorCodes
    /\ c.at \in Changing <=> errorMutex = t
    /\ c.at = "codes" => c.old = errorCodes
    /\ c.at = "single" =>
         /\ errorCodes = IF c.present THEN c.old \cup {c.code} ELSE c.old \ {c.code}
         /\ SingleTrueOf(c.old) /\ LedTrueOf(c.old)
    /\ c.at \in {"load", "codes", "led", "unlock"} => SingleTrueOf(errorCodes)
    /\ c.at \in {"load", "codes", "unlock"} => LedTrueOf(errorCodes)

(* The invariant: all of this, and the agreement when nobody is in one. *)
ErrorsInv ==
    /\ ErrorsTypeOK
    /\ ~errorsUp => /\ errorCodes = {} /\ singleError = NO_ERROR
                    /\ \A t \in ErrorTasks : errorTask[t].at = "idle"
    /\ errorsUp => \A t \in ErrorTasks : ChangeTrue(t)
    /\ ~errorsUp => errorMutex = NoErrorTask
    /\ errorsUp /\ errorMutex = NoErrorTask => SingleTrueOf(errorCodes) /\ LedTrueOf(errorCodes)

LEMMA ErrorsInvInit == ErrorsInit => ErrorsInv
<1> SUFFICES ASSUME ErrorsInit PROVE ErrorsInv
  OBVIOUS
<1>1. ErrorsTypeOK
  BY DEF ErrorsInit, ErrorsTypeOK, NoErrorCall, NO_ERROR
<1> QED
  BY <1>1 DEF ErrorsInit, ErrorsInv, NoErrorCall

LEMMA ErrorsUpKeeps == ErrorsInv /\ ErrorsUp => ErrorsInv'
BY ErrorsAssumption, ZenonT(40) DEF ErrorsInv, ErrorsTypeOK, ErrorsUp, ChangeTrue, Changing, SingleTrueOf,
   LedTrueOf, NO_ERROR

(* The fields of a task that goes on in its change. *)
LEMMA ErrorStepFields ==
    ASSUME NEW t \in ErrorTasks, NEW c, ErrorsTypeOK, ErrorStep(t, c)
    PROVE  \A u \in ErrorTasks : errorTask'[u] = IF u = t THEN c ELSE errorTask[u]
BY DEF ErrorsTypeOK, ErrorStep

(* What is left to show of a step of one task in its change: the others    *)
(* wait for the mutex, and know nothing that the step could make untrue.   *)
LEMMA ChangeOfOne ==
    ASSUME NEW t \in ErrorTasks, NEW c, ErrorsInv, errorsUp, UNCHANGED errorsUp, ErrorStep(t, c),
           ErrorsTypeOK', ChangeTrue(t)',
           \A u \in ErrorTasks \ {t} : errorMutex' = u <=> errorMutex = u,
           errorMutex = t \/ UNCHANGED <<errorCodes, singleError, errorLed>>,
           errorMutex' = NoErrorTask => SingleTrueOf(errorCodes)' /\ LedTrueOf(errorCodes)'
    PROVE  ErrorsInv'
<1>1. \A u \in ErrorTasks \ {t} : errorTask'[u] = errorTask[u]
  BY ErrorStepFields DEF ErrorsInv
<1>2. ASSUME NEW u \in ErrorTasks \ {t} PROVE ChangeTrue(u)'
  <2>1. ChangeTrue(u)
    BY DEF ErrorsInv
  <2>2. CASE errorMutex = t
    <3>1. errorMutex # u
      BY <2>2
    <3>2. errorMutex' # u /\ errorTask[u].at \notin Changing
      BY <3>1, <2>1 DEF ChangeTrue
    <3> QED
      BY <3>2, <2>1, <1>1 DEF ChangeTrue, Changing
  <2>3. CASE UNCHANGED <<errorCodes, singleError, errorLed>>
    BY <2>3, <2>1, <1>1 DEF ChangeTrue, Changing, SingleTrueOf, LedTrueOf
  <2> QED
    BY <2>2, <2>3
<1> QED
  BY <1>2 DEF ErrorsInv

LEMMA SetErrorKeeps ==
    ASSUME NEW t \in ErrorTasks, NEW code \in ErrorCodes, NEW present \in BOOLEAN,
           ErrorsInv, SetError(t, code, present)
    PROVE  ErrorsInv'
<1> DEFINE c == [at |-> "lock", code |-> code, present |-> present, old |-> {}]
<1>1. errorTask'[t] = c
  BY ErrorStepFields DEF ErrorsInv, SetError
<1>2. ErrorsTypeOK'
  BY DEF ErrorsInv, ErrorsTypeOK, SetError, ErrorStep
<1>3. ChangeTrue(t)'
  <2>1. errorMutex # t
    BY DEF ErrorsInv, ChangeTrue, Changing, SetError
  <2> QED
    BY <2>1, <1>1 DEF ChangeTrue, Changing, SetError
<1> QED
  <2> HIDE DEF c
  <2> QED
    BY <1>2, <1>3, ChangeOfOne DEF c, ErrorsInv, SetError, SingleTrueOf, LedTrueOf

(* What is known of a task in its change, field by field. *)
LEMMA InChange ==
    ASSUME NEW t \in ErrorTasks, ErrorsInv, errorTask[t].at # "idle"
    PROVE  /\ errorsUp /\ ChangeTrue(t) /\ errorTask[t].code \in ErrorCodes
           /\ \E present \in BOOLEAN, old \in SUBSET ErrorCodes :
                errorTask[t] = [at |-> errorTask[t].at, code |-> errorTask[t].code,
                                present |-> present, old |-> old]
<1>1. errorsUp /\ ChangeTrue(t)
  BY DEF ErrorsInv
<1> QED
  BY <1>1 DEF ErrorsInv, ErrorsTypeOK, ChangeTrue

LEMMA LockErrorsKeeps ==
    ASSUME NEW t \in ErrorTasks, ErrorsInv, LockErrors(t) PROVE ErrorsInv'
<1>1. /\ errorsUp /\ ChangeTrue(t) /\ errorTask[t].code \in ErrorCodes
      /\ UNCHANGED <<errorCodes, singleError, errorLed, errorsUp>>
  BY InChange DEF LockErrors
<1>2. PICK present \in BOOLEAN, old \in SUBSET ErrorCodes :
        errorTask[t] = [at |-> "lock", code |-> errorTask[t].code, present |-> present, old |-> old]
  BY InChange DEF LockErrors
<1> DEFINE c == [at |-> "load", code |-> errorTask[t].code, present |-> present, old |-> old]
<1>3. ErrorStep(t, c) /\ errorMutex = NoErrorTask /\ errorMutex' = t
  BY <1>2 DEF LockErrors
<1>4. errorTask'[t] = c
  BY <1>3, ErrorStepFields DEF ErrorsInv
<1>5. ErrorsTypeOK'
  BY <1>1, <1>3 DEF ErrorsInv, ErrorsTypeOK, ErrorStep
<1>6. ChangeTrue(t)'
  BY <1>1, <1>3, <1>4 DEF ErrorsInv, ChangeTrue, Changing, SingleTrueOf, LedTrueOf
<1> QED
  <2> HIDE DEF c
  <2> QED
    BY <1>1, <1>3, <1>5, <1>6, ChangeOfOne, ErrorsAssumption DEF ErrorsInv

(* A step of the holder that keeps the mutex. *)
LEMMA HolderKeeps ==
    ASSUME NEW t \in ErrorTasks, ErrorsInv, NEW c, errorTask[t].at \in Changing, ErrorStep(t, c),
           UNCHANGED <<errorsUp, errorMutex>>, ErrorsTypeOK', ChangeTrue(t)'
    PROVE  ErrorsInv'
<1>1. errorsUp /\ errorMutex = t
  BY InChange DEF ChangeTrue, Changing
<1> QED
  BY <1>1, ChangeOfOne, ErrorsAssumption

LEMMA LoadCodesKeeps ==
    ASSUME NEW t \in ErrorTasks, ErrorsInv, LoadCodes(t) PROVE ErrorsInv'
<1>1. /\ errorsUp /\ ChangeTrue(t) /\ errorTask[t].code \in ErrorCodes
      /\ UNCHANGED <<errorCodes, singleError, errorLed, errorsUp, errorMutex>>
  BY InChange DEF LoadCodes
<1>2. PICK present \in BOOLEAN, old \in SUBSET ErrorCodes :
        errorTask[t] = [at |-> "load", code |-> errorTask[t].code, present |-> present, old |-> old]
  BY InChange DEF LoadCodes
<1> DEFINE c == [at |-> "codes", code |-> errorTask[t].code, present |-> present, old |-> errorCodes]
<1>3. ErrorStep(t, c)
  BY <1>2 DEF LoadCodes
<1>4. errorTask'[t] = c
  BY <1>3, ErrorStepFields DEF ErrorsInv
<1>5. ErrorsTypeOK'
  BY <1>1, <1>3 DEF ErrorsInv, ErrorsTypeOK, ErrorStep
<1>6. ChangeTrue(t)'
  BY <1>1, <1>2, <1>4 DEF ChangeTrue, Changing, SingleTrueOf, LedTrueOf
<1> QED
  <2> HIDE DEF c
  <2> QED
    BY <1>1, <1>3, <1>5, <1>6, HolderKeeps DEF LoadCodes, Changing

LEMMA StoreCodesKeeps ==
    ASSUME NEW t \in ErrorTasks, ErrorsInv, StoreCodes(t) PROVE ErrorsInv'
<1>1. /\ errorsUp /\ ChangeTrue(t) /\ errorTask[t].code \in ErrorCodes
      /\ UNCHANGED <<singleError, errorLed, errorsUp, errorMutex>>
  BY InChange DEF StoreCodes
<1>2. PICK present \in BOOLEAN, old \in SUBSET ErrorCodes :
        errorTask[t] = [at |-> "codes", code |-> errorTask[t].code, present |-> present, old |-> old]
  BY InChange DEF StoreCodes
<1> DEFINE c == [at |-> "single", code |-> errorTask[t].code, present |-> present, old |-> old]
<1>3. /\ ErrorStep(t, c)
      /\ errorCodes' = IF present THEN old \cup {errorTask[t].code} ELSE old \ {errorTask[t].code}
  BY <1>2 DEF StoreCodes
<1>4. errorTask'[t] = c
  BY <1>3, ErrorStepFields DEF ErrorsInv
<1>5. ErrorsTypeOK'
  BY <1>1, <1>3 DEF ErrorsInv, ErrorsTypeOK, ErrorStep
<1>6. ChangeTrue(t)'
  BY <1>1, <1>2, <1>3, <1>4 DEF ChangeTrue, Changing, SingleTrueOf, LedTrueOf
<1> QED
  <2> HIDE DEF c
  <2> QED
    BY <1>1, <1>3, <1>5, <1>6, HolderKeeps DEF StoreCodes, Changing

(* The single code after the change is true of the changed set. *)
LEMMA NextSingleTrue ==
    ASSUME NEW old \in SUBSET ErrorCodes, NEW code \in ErrorCodes, NEW present \in BOOLEAN,
           SingleTrueOf(old),
           errorCodes = IF present THEN old \cup {code} ELSE old \ {code}
    PROVE  /\ NextSingleError(code, present) \in errorCodes \cup {NO_ERROR}
           /\ NextSingleError(code, present) = NO_ERROR <=> errorCodes = {}
<1>1. ErrorCodes \subseteq 1 .. 64 /\ NO_ERROR \notin ErrorCodes
  BY ErrorsAssumption DEF NO_ERROR
<1>2. CASE present
  <2>1. NextSingleError(code, present)
          = IF singleError = NO_ERROR \/ code < singleError THEN code ELSE singleError
    BY <1>2 DEF NextSingleError
  <2>2. NextSingleError(code, present) \in {code, singleError} \ {NO_ERROR}
    BY <1>1, <2>1
  <2> QED
    BY <1>1, <1>2, <2>2 DEF SingleTrueOf
<1>3. CASE ~present /\ singleError # code
  <2>1. NextSingleError(code, present) = singleError
    BY <1>3 DEF NextSingleError
  <2> QED
    BY <1>1, <1>3, <2>1 DEF SingleTrueOf
<1>4. CASE ~present /\ singleError = code
  <2>1. NextSingleError(code, present) = IF errorCodes = {} THEN NO_ERROR ELSE Max(errorCodes)
    BY <1>4 DEF NextSingleError
  <2>2. errorCodes \subseteq ErrorCodes
    OBVIOUS
  <2>3. errorCodes # {} => Max(errorCodes) \in errorCodes
    BY <1>1, <2>2, MaxOfCodes
  <2> QED
    BY <1>1, <2>1, <2>2, <2>3
<1> QED
  BY <1>2, <1>3, <1>4

LEMMA StoreSingleKeeps ==
    ASSUME NEW t \in ErrorTasks, ErrorsInv, StoreSingle(t) PROVE ErrorsInv'
<1>1. /\ errorsUp /\ ChangeTrue(t) /\ errorTask[t].code \in ErrorCodes
      /\ UNCHANGED <<errorCodes, errorLed, errorsUp, errorMutex>>
  BY InChange DEF StoreSingle
<1>2. PICK present \in BOOLEAN, old \in SUBSET ErrorCodes :
        errorTask[t] = [at |-> "single", code |-> errorTask[t].code, present |-> present, old |-> old]
  BY InChange DEF StoreSingle
<1> DEFINE at == IF errorCodes # old THEN "led" ELSE "unlock"
           c == [at |-> at, code |-> errorTask[t].code, present |-> present, old |-> old]
<1>3. /\ ErrorStep(t, c)
      /\ singleError' = NextSingleError(errorTask[t].code, present)
  BY <1>2 DEF StoreSingle
<1>4. errorTask'[t] = c
  BY <1>3, ErrorStepFields DEF ErrorsInv
<1>5. /\ errorCodes = IF present THEN old \cup {errorTask[t].code} ELSE old \ {errorTask[t].code}
      /\ SingleTrueOf(old) /\ LedTrueOf(old)
  BY <1>1, <1>2 DEF ChangeTrue
<1>6. SingleTrueOf(errorCodes)'
  BY <1>1, <1>3, <1>5, NextSingleTrue DEF SingleTrueOf
<1>7. ErrorsTypeOK'
  BY <1>1, <1>3, <1>6 DEF ErrorsInv, ErrorsTypeOK, ErrorStep, SingleTrueOf
<1>8. ChangeTrue(t)'
  BY <1>1, <1>2, <1>4, <1>5, <1>6 DEF ChangeTrue, Changing, LedTrueOf
<1> QED
  <2> HIDE DEF c
  <2> QED
    BY <1>1, <1>3, <1>7, <1>8, HolderKeeps DEF StoreSingle, Changing

LEMMA ShowErrorsKeeps ==
    ASSUME NEW t \in ErrorTasks, ErrorsInv, ShowErrors(t) PROVE ErrorsInv'
<1>1. /\ errorsUp /\ ChangeTrue(t) /\ errorTask[t].code \in ErrorCodes
      /\ UNCHANGED <<errorCodes, singleError, errorsUp, errorMutex>>
  BY InChange DEF ShowErrors
<1>2. PICK present \in BOOLEAN, old \in SUBSET ErrorCodes :
        errorTask[t] = [at |-> "led", code |-> errorTask[t].code, present |-> present, old |-> old]
  BY InChange DEF ShowErrors
<1> DEFINE c == [at |-> "unlock", code |-> errorTask[t].code, present |-> present, old |-> old]
<1>3. ErrorStep(t, c) /\ errorLed' = (errorCodes # {})
  BY <1>2 DEF ShowErrors
<1>4. errorTask'[t] = c
  BY <1>3, ErrorStepFields DEF ErrorsInv
<1>5. ErrorsTypeOK'
  BY <1>1, <1>3 DEF ErrorsInv, ErrorsTypeOK, ErrorStep
<1>6. ChangeTrue(t)'
  <2>1. SingleTrueOf(errorCodes)'
    BY <1>1, <1>2 DEF ChangeTrue, SingleTrueOf
  <2>2. LedTrueOf(errorCodes)'
    BY <1>1, <1>3 DEF LedTrueOf
  <2> QED
    BY <1>1, <1>2, <1>4, <2>1, <2>2 DEF ChangeTrue, Changing
<1> QED
  <2> HIDE DEF c
  <2> QED
    BY <1>1, <1>3, <1>5, <1>6, HolderKeeps DEF ShowErrors, Changing

LEMMA UnlockErrorsKeeps ==
    ASSUME NEW t \in ErrorTasks, ErrorsInv, UnlockErrors(t) PROVE ErrorsInv'
<1>1. /\ errorsUp /\ ChangeTrue(t) /\ ErrorStep(t, NoErrorCall)
      /\ UNCHANGED <<errorCodes, singleError, errorLed, errorsUp>> /\ errorMutex' = NoErrorTask
  BY InChange DEF UnlockErrors
<1>2. errorTask'[t] = NoErrorCall
  BY <1>1, ErrorStepFields DEF ErrorsInv
<1>3. errorMutex = t /\ SingleTrueOf(errorCodes) /\ LedTrueOf(errorCodes)
  BY <1>1 DEF UnlockErrors, ChangeTrue, Changing
<1>4. ErrorsTypeOK'
  BY <1>1 DEF ErrorsInv, ErrorsTypeOK, ErrorStep, NoErrorCall
<1>5. ChangeTrue(t)'
  BY <1>1, <1>2, ErrorsAssumption DEF ChangeTrue, Changing, NoErrorCall
<1> QED
  BY <1>1, <1>3, <1>4, <1>5, ChangeOfOne, ErrorsAssumption DEF SingleTrueOf, LedTrueOf

LEMMA ErrorsInvNext == ErrorsInv /\ [ErrorsNext]_errorVars => ErrorsInv'
<1>1. ASSUME ErrorsInv, UNCHANGED errorVars PROVE ErrorsInv'
  BY <1>1 DEF ErrorsInv, ErrorsTypeOK, ChangeTrue, SingleTrueOf, LedTrueOf, errorVars
<1>2. ASSUME ErrorsInv, ErrorsNext PROVE ErrorsInv'
  BY <1>2, ErrorsUpKeeps, SetErrorKeeps, LockErrorsKeeps, LoadCodesKeeps, StoreCodesKeeps,
     StoreSingleKeeps, ShowErrorsKeeps, UnlockErrorsKeeps DEF ErrorsNext
<1> QED
  BY <1>1, <1>2

LEMMA ErrorsPartNext == [ModulesNext]_modulesVars => [ErrorsNext]_errorVars
BY DEF ModulesNext, modulesVars, Only, Flash, Sd, Imu, Mag, Adc

(* For any codes and tasks: whenever no change is in progress the single   *)
(* code and the indicator agree with the set of codes, and a task changes  *)
(* the presence of no other code than its own.                             *)
THEOREM ErrorsCorrect == ModulesSpec => ErrorsRight
<1>1. ModulesInit => ErrorsInv
  BY ErrorsInvInit DEF ModulesInit
<1>2. ErrorsInv /\ [ModulesNext]_modulesVars => ErrorsInv'
  BY ErrorsInvNext, ErrorsPartNext
<1>3. ErrorsInv => ErrorsTypeOK /\ ErrorsAgree
  BY DEF ErrorsInv, ErrorsAgree, SingleTrueOf, LedTrueOf
<1>4. ErrorsInv /\ [ModulesNext]_modulesVars =>
        [\A code \in ErrorCodes : (code \in errorCodes) # (code \in errorCodes') =>
           \E t \in ErrorTasks : errorTask[t].at = "codes" /\ errorTask[t].code = code]_errorVars
  <2> SUFFICES ASSUME ErrorsInv, ErrorsNext, NEW code \in ErrorCodes,
                      (code \in errorCodes) # (code \in errorCodes')
               PROVE  \E t \in ErrorTasks : errorTask[t].at = "codes" /\ errorTask[t].code = code
    BY ErrorsPartNext
  <2>1. errorCodes' # errorCodes
    OBVIOUS
  <2>2. PICK t \in ErrorTasks : StoreCodes(t)
    BY <2>1 DEF ErrorsNext, ErrorsUp, SetError, LockErrors, LoadCodes, StoreSingle, ShowErrors, UnlockErrors
  <2>3. errorTask[t].old = errorCodes
    BY <2>2, InChange DEF StoreCodes, ChangeTrue
  <2> QED
    BY <2>2, <2>3 DEF StoreCodes
<1> QED
  BY <1>1, <1>2, <1>3, <1>4, PTL DEF ModulesSpec, ErrorsRight, OthersCodesKept
---------------------------------------------------------------------------
(* The supervisor *)

(* What holds of each task: once it is silent for a check its counter is   *)
(* clear, so that a check that is under way has found it stalled.          *)
SilentTrue(t) ==
    /\ silence[t] >= 1 => task_stats[t].nudges = 0
    /\ silence[t] >= 1 /\ supervising.at = t => verdicts[t] = "stalled"
    /\ silence[t] = 2 => verdicts[t] = "stalled"

SupervisorInv == SupervisorTypeOK /\ \A t \in NudgingTasks : SilentTrue(t)

(* How the silence of a task is counted: up to 2. *)
LEMMA NextSilence ==
    ASSUME NEW n \in {0, 1, 2}
    PROVE  Min({n + 1, 2}) = IF n = 0 THEN 1 ELSE 2
<1>1. \A S : (\E m \in S : \A y \in S : m <= y) => Min(S) \in S /\ \A y \in S : Min(S) <= y
  BY DEF Min
<1>2. n + 1 \in {1, 2, 3}
  OBVIOUS
<1>3. Min({n + 1, 2}) \in {n + 1, 2} /\ Min({n + 1, 2}) <= n + 1 /\ Min({n + 1, 2}) <= 2
  BY <1>1, <1>2
<1> QED
  BY <1>2, <1>3

LEMMA SupervisorNumbers == NudgeLimit \in Nat \ {0} /\ MaxQueues \in Nat
BY SupervisorAssumption DEF SupervisorAssumption

LEMMA SupervisorInvInit == SupervisorInit => SupervisorInv
<1> SUFFICES ASSUME SupervisorInit PROVE SupervisorInv
  OBVIOUS
<1>1. NoStats \in [valid : BOOLEAN, enabled : BOOLEAN, nudges : 0 .. NudgeLimit]
  BY SupervisorNumbers DEF NoStats
<1>2. NotNudging \in [on : BOOLEAN, loaded : 0 .. NudgeLimit - 1]
  BY SupervisorNumbers DEF NotNudging
<1>3. SupervisorTypeOK
  <2>1. /\ task_stats \in [NudgingTasks -> [valid : BOOLEAN, enabled : BOOLEAN, nudges : 0 .. NudgeLimit]]
        /\ nudging \in [NudgingTasks -> [on : BOOLEAN, loaded : 0 .. NudgeLimit - 1]]
    BY <1>1, <1>2 DEF SupervisorInit
  <2>2. silence \in [NudgingTasks -> 0 .. 2]
    BY DEF SupervisorInit
  <2>3. /\ queue_stats \in [1 .. MaxQueues -> WatchedQueues \cup {NoQueue}]
        /\ registered \subseteq WatchedQueues /\ fullQueues \subseteq registered /\ queueError \in BOOLEAN
        /\ supervising \in [at : {"queues", "tasks"} \cup NudgingTasks, todo : SUBSET NudgingTasks]
        /\ verdicts \in [NudgingTasks -> {"ok", "stalled", "too slow", "too fast"}]
    BY DEF SupervisorInit
  <2> QED
    BY <2>1, <2>2, <2>3 DEF SupervisorTypeOK
<1> QED
  BY <1>3 DEF SupervisorInit, SupervisorInv, SilentTrue

(* The fields of the tasks. *)
LEMMA NudgeTypes ==
    ASSUME SupervisorTypeOK, NEW t \in NudgingTasks
    PROVE  /\ task_stats[t] \in [valid : BOOLEAN, enabled : BOOLEAN, nudges : 0 .. NudgeLimit]
           /\ nudging[t] \in [on : BOOLEAN, loaded : 0 .. NudgeLimit - 1]
           /\ silence[t] \in {0, 1, 2}
<1>1. task_stats[t] \in [valid : BOOLEAN, enabled : BOOLEAN, nudges : 0 .. NudgeLimit]
  BY DEF SupervisorTypeOK
<1>2. nudging[t] \in [on : BOOLEAN, loaded : 0 .. NudgeLimit - 1]
  BY DEF SupervisorTypeOK
<1>3. silence[t] \in 0 .. 2
  BY DEF SupervisorTypeOK
<1> QED
  BY <1>1, <1>2, <1>3

LEMMA SupervisorTypeNext == SupervisorTypeOK /\ [SupervisorNext]_supervisorVars => SupervisorTypeOK'
<1> SUFFICES ASSUME SupervisorTypeOK PROVE [SupervisorNext]_supervisorVars => SupervisorTypeOK'
  OBVIOUS
<1>1. ASSUME UNCHANGED supervisorVars PROVE SupervisorTypeOK'
  BY <1>1 DEF supervisorVars, supervisorQueues, SupervisorTypeOK
<1>2. ASSUME NEW t \in NudgingTasks, RegisterTask(t) PROVE SupervisorTypeOK'
  BY <1>2, ZenonT(40) DEF RegisterTask, supervisorQueues, SupervisorTypeOK
<1>3. ASSUME NEW t \in NudgingTasks, NudgeLoad(t) PROVE SupervisorTypeOK'
  <2>1. task_stats[t].nudges \in 0 .. NudgeLimit - 1
    BY <1>3, NudgeTypes, SupervisorNumbers DEF NudgeLoad
  <2>2. nudging' \in [NudgingTasks -> [on : BOOLEAN, loaded : 0 .. NudgeLimit - 1]]
    BY <1>3, <2>1 DEF NudgeLoad, SupervisorTypeOK
  <2> QED
    BY <1>3, <2>2 DEF NudgeLoad, supervisorQueues, SupervisorTypeOK
<1>4. ASSUME NEW t \in NudgingTasks, NudgeStore(t) PROVE SupervisorTypeOK'
  <2>1. nudging[t].loaded + 1 \in 0 .. NudgeLimit
    BY NudgeTypes, SupervisorNumbers
  <2> DEFINE n == nudging[t].loaded + 1
             stats == [valid |-> task_stats[t].valid, enabled |-> TRUE, nudges |-> n]
  <2>2. task_stats' = [task_stats EXCEPT ![t] = stats]
    BY <1>4 DEF NudgeStore
  <2>3. stats \in [valid : BOOLEAN, enabled : BOOLEAN, nudges : 0 .. NudgeLimit]
    BY <2>1, NudgeTypes
  <2>4. task_stats' \in [NudgingTasks -> [valid : BOOLEAN, enabled : BOOLEAN, nudges : 0 .. NudgeLimit]]
    BY <2>2, <2>3 DEF SupervisorTypeOK
  <2>5. NotNudging \in [on : BOOLEAN, loaded : 0 .. NudgeLimit - 1]
    BY SupervisorNumbers DEF NotNudging
  <2>6. nudging' \in [NudgingTasks -> [on : BOOLEAN, loaded : 0 .. NudgeLimit - 1]]
    BY <1>4, <2>5 DEF NudgeStore, SupervisorTypeOK
  <2>7. silence' \in [NudgingTasks -> 0 .. 2]
    <3>1. silence \in [NudgingTasks -> 0 .. 2] /\ silence' = [silence EXCEPT ![t] = 0]
      BY <1>4 DEF NudgeStore, SupervisorTypeOK
    <3> QED
      BY <3>1
  <2> QED
    BY <1>4, <2>4, <2>6, <2>7 DEF NudgeStore, supervisorQueues, SupervisorTypeOK
<1>5. ASSUME NEW q \in WatchedQueues, RegisterQueue(q) PROVE SupervisorTypeOK'
  BY <1>5 DEF RegisterQueue, SupervisorTypeOK
<1>6. ASSUME NEW q \in WatchedQueues, QueueFillsOrEmpties(q) PROVE SupervisorTypeOK'
  BY <1>6 DEF QueueFillsOrEmpties, SupervisorTypeOK
<1>7. ASSUME CheckQueues PROVE SupervisorTypeOK'
  BY <1>7 DEF CheckQueues, SupervisorTypeOK
<1>8. ASSUME NEW t \in NudgingTasks, CheckTask(t) PROVE SupervisorTypeOK'
  <2>1. Verdict(task_stats[t].nudges) \in {"ok", "stalled", "too slow", "too fast"}
    BY DEF Verdict
  <2>2. verdicts' \in [NudgingTasks -> {"ok", "stalled", "too slow", "too fast"}]
    BY <1>8, <2>1 DEF CheckTask, SupervisorTypeOK
  <2>3. supervising' \in [at : {"queues", "tasks"} \cup NudgingTasks, todo : SUBSET NudgingTasks]
    <3>1. supervising \in [at : {"queues", "tasks"} \cup NudgingTasks, todo : SUBSET NudgingTasks]
      BY DEF SupervisorTypeOK
    <3> QED
      BY <1>8, <3>1 DEF CheckTask
  <2> QED
    BY <1>8, <2>2, <2>3 DEF CheckTask, supervisorQueues, SupervisorTypeOK
<1>9. ASSUME NEW t \in NudgingTasks, ClearNudges(t) PROVE SupervisorTypeOK'
  <2>1. Min({silence[t] + 1, 2}) \in 0 .. 2
    <3>1. silence[t] \in {0, 1, 2}
      BY NudgeTypes
    <3> QED
      BY <3>1, NextSilence
  <2> DEFINE stats == [valid |-> task_stats[t].valid, enabled |-> task_stats[t].enabled, nudges |-> 0]
  <2>2. stats \in [valid : BOOLEAN, enabled : BOOLEAN, nudges : 0 .. NudgeLimit]
    BY NudgeTypes, SupervisorNumbers
  <2>3. [task_stats[t] EXCEPT !.nudges = 0] = stats
    BY NudgeTypes
  <2>4. task_stats' = [task_stats EXCEPT ![t] = stats]
    BY <1>9, <2>3 DEF ClearNudges
  <2>5. task_stats' \in [NudgingTasks -> [valid : BOOLEAN, enabled : BOOLEAN, nudges : 0 .. NudgeLimit]]
    BY <2>2, <2>4 DEF SupervisorTypeOK
  <2>6. silence' \in [NudgingTasks -> 0 .. 2]
    BY <1>9, <2>1 DEF ClearNudges, SupervisorTypeOK
  <2>7. supervising' \in [at : {"queues", "tasks"} \cup NudgingTasks, todo : SUBSET NudgingTasks]
    BY <1>9 DEF ClearNudges, SupervisorTypeOK
  <2> HIDE DEF stats
  <2> QED
    BY <1>9, <2>5, <2>6, <2>7 DEF ClearNudges, supervisorQueues, SupervisorTypeOK
<1>10. ASSUME ChecksDone PROVE SupervisorTypeOK'
  BY <1>10 DEF ChecksDone, supervisorQueues, SupervisorTypeOK
<1> QED
  BY <1>1, <1>2, <1>3, <1>4, <1>5, <1>6, <1>7, <1>8, <1>9, <1>10 DEF SupervisorNext, SupervisorStep

LEMMA SilentNext ==
    SupervisorInv /\ [SupervisorNext]_supervisorVars => \A t \in NudgingTasks : SilentTrue(t)'
<1> SUFFICES ASSUME SupervisorInv, NEW t \in NudgingTasks
             PROVE  [SupervisorNext]_supervisorVars => SilentTrue(t)'
  OBVIOUS
<1>0. SupervisorTypeOK /\ SilentTrue(t)
  BY DEF SupervisorInv
<1>1. ASSUME UNCHANGED <<task_stats, supervising, verdicts, silence>> PROVE SilentTrue(t)'
  BY <1>0, <1>1 DEF SilentTrue
<1>2. ASSUME NEW u \in NudgingTasks, RegisterTask(u) PROVE SilentTrue(t)'
  <2>1. task_stats'[t].nudges = task_stats[t].nudges
    BY <1>0, <1>2, ZenonT(40) DEF RegisterTask, SupervisorTypeOK
  <2> QED
    BY <1>0, <1>2, <2>1 DEF RegisterTask, SilentTrue
<1>3. ASSUME NEW u \in NudgingTasks, NudgeStore(u) PROVE SilentTrue(t)'
  <2>1. CASE u = t
    <3>1. silence'[t] = 0
      BY <1>0, <1>3, <2>1 DEF NudgeStore, SupervisorTypeOK
    <3> QED
      BY <3>1 DEF SilentTrue
  <2>2. CASE u # t
    <3>1. task_stats'[t] = task_stats[t] /\ silence'[t] = silence[t]
      BY <1>0, <1>3, <2>2 DEF NudgeStore, SupervisorTypeOK
    <3> QED
      BY <1>0, <1>3, <3>1 DEF NudgeStore, SilentTrue
  <2> QED
    BY <2>1, <2>2
<1>4. ASSUME NEW u \in NudgingTasks, CheckTask(u) PROVE SilentTrue(t)'
  <2>1. UNCHANGED <<task_stats, silence>>
    BY <1>4 DEF CheckTask
  <2>2. CASE ~(task_stats[u].valid /\ task_stats[u].enabled)
    <3>1. verdicts' = verdicts /\ supervising'.at # t
      BY <1>0, <1>4, <2>2, SupervisorAssumption, ZenonT(40) DEF CheckTask, SupervisorTypeOK
    <3> QED
      BY <1>0, <2>1, <3>1 DEF SilentTrue
  <2>3. CASE task_stats[u].valid /\ task_stats[u].enabled
    <3>1. /\ verdicts' = [verdicts EXCEPT ![u] = Verdict(task_stats[u].nudges)]
          /\ supervising'.at = u
      BY <1>4, <2>3 DEF CheckTask
    <3>2. CASE u = t
      <4>1. verdicts'[t] = Verdict(task_stats[t].nudges)
        BY <1>0, <3>1, <3>2 DEF SupervisorTypeOK
      <4>2. silence[t] >= 1 => verdicts'[t] = "stalled"
        BY <1>0, <4>1 DEF SilentTrue, Verdict
      <4> QED
        BY <1>0, <2>1, <4>2 DEF SilentTrue
    <3>3. CASE u # t
      <4>1. verdicts'[t] = verdicts[t]
        BY <1>0, <3>1, <3>3 DEF SupervisorTypeOK
      <4> QED
        BY <1>0, <2>1, <3>1, <3>3, <4>1 DEF SilentTrue
    <3> QED
      BY <3>2, <3>3
  <2> QED
    BY <2>2, <2>3
<1>5. ASSUME NEW u \in NudgingTasks, ClearNudges(u) PROVE SilentTrue(t)'
  <2>1. /\ verdicts' = verdicts /\ supervising.at = u /\ supervising'.at = "tasks"
        /\ task_stats' = [task_stats EXCEPT ![u].nudges = 0]
        /\ silence' = [silence EXCEPT ![u] = Min({silence[u] + 1, 2})]
    BY <1>0, <1>5 DEF ClearNudges, SupervisorTypeOK
  <2>2. supervising'.at # t
    BY <2>1, SupervisorAssumption
  <2>3. CASE u = t
    <3>1. task_stats'[t].nudges = 0
      BY <1>0, <2>1, <2>3, ZenonT(40) DEF SupervisorTypeOK
    <3>2. silence'[t] = Min({silence[t] + 1, 2})
      BY <1>0, <2>1, <2>3 DEF SupervisorTypeOK
    <3>3. silence'[t] = 2 => silence[t] >= 1
      <4>1. silence[t] \in {0, 1, 2}
        BY <1>0, NudgeTypes
      <4> QED
        BY <3>2, <4>1, NextSilence
    <3> QED
      BY <1>0, <2>1, <2>2, <2>3, <3>1, <3>3 DEF SilentTrue
  <2>4. CASE u # t
    <3>1. task_stats'[t] = task_stats[t] /\ silence'[t] = silence[t]
      BY <1>0, <2>1, <2>4 DEF SupervisorTypeOK
    <3> QED
      BY <1>0, <2>1, <2>2, <3>1 DEF SilentTrue
  <2> QED
    BY <2>3, <2>4
<1>6. ASSUME CheckQueues PROVE SilentTrue(t)'
  <2>1. UNCHANGED <<task_stats, verdicts, silence>> /\ supervising'.at = "tasks"
    BY <1>6 DEF CheckQueues
  <2>2. supervising'.at # t
    BY <2>1, SupervisorAssumption
  <2> QED
    BY <1>0, <2>1, <2>2 DEF SilentTrue
<1>7. ASSUME ChecksDone PROVE SilentTrue(t)'
  <2>1. UNCHANGED <<task_stats, verdicts, silence>> /\ supervising'.at = "queues"
    BY <1>7 DEF ChecksDone
  <2>2. supervising'.at # t
    BY <2>1, SupervisorAssumption
  <2> QED
    BY <1>0, <2>1, <2>2 DEF SilentTrue
<1> QED
  BY <1>1, <1>2, <1>3, <1>4, <1>5, <1>6, <1>7 DEF SupervisorNext, SupervisorStep, NudgeLoad, RegisterQueue,
     QueueFillsOrEmpties, supervisorVars

LEMMA SupervisorInvNext == SupervisorInv /\ [SupervisorNext]_supervisorVars => SupervisorInv'
BY SupervisorTypeNext, SilentNext DEF SupervisorInv
---------------------------------------------------------------------------
(* The watchdog *)

(* The memory that survives a reset tells of the error that was met last. *)
TellsLastCrash ==
    /\ debug_info.errors = IF lastCrash = NoCrash THEN {} ELSE {lastCrash.error}
    /\ lastCrash # NoCrash => debug_info.task = lastCrash.task

(* Before the boot has looked at that memory nothing is known of it; and a *)
(* second error before the report of the first one is met without a        *)
(* watchdog, so that nobody comes back to tell of it.                      *)
WatchdogKnows ==
    /\ ~debug_info.marker => stage = 1 /\ lastCrash = NoCrash
    /\ debug_info.marker /\ (cpu = "runs" \/ watchdog.on) => TellsLastCrash
    /\ debugTaskDone /\ cpu = "runs" => lastCrash = NoCrash
    /\ debugTaskDone \/ cpu = "spins" => stage = 6
    /\ watchdog.on => debugTaskDone
    /\ cpu = "spins" => lastCrash # NoCrash

WatchdogPatient ==
    watchdog.on /\ cpu = "runs" =>
        /\ supervisorTask.at \in {"delay", "check"}
        /\ watchdog.left = IF supervisorTask.at = "delay" THEN WatchdogSeconds
                           ELSE WatchdogSeconds - 1 - supervisorTask.lag

WatchdogInv == WatchdogTypeOK /\ WatchdogKnows /\ WatchdogPatient

LEMMA LastStage == DOMAIN Stages = 1 .. 6 /\ \A i \in 1 .. 6 : Stages[i] = "running" <=> i = 6
BY DEF Stages

LEMMA FirstStage == \A i \in 1 .. 6 : Stages[i] = "debug" <=> i = 1
BY DEF Stages
LEMMA WatchdogNumbers == WatchdogSeconds \in Nat /\ MaxLag \in Nat
BY WatchdogAssumption DEF WatchdogAssumption

(* What a reset puts back. *)
LEMMA RestartTypes ==
    ASSUME WatchdogTypeOK, NEW reason \in {"watchdog", "software", "normal"}, Restart(reason),
           debug_info' \in [marker : BOOLEAN, errors : SUBSET FatalErrors, task : CrashTasks \cup {"none"}],
           lastCrash' \in {lastCrash, NoCrash}
    PROVE  WatchdogTypeOK'
<1>1. /\ SupervisorNotStarted \in [at : {"setup", "delay", "check"}, lag : 0 .. MaxLag]
      /\ WatchdogOff \in [on : BOOLEAN, left : 0 .. WatchdogSeconds]
  BY WatchdogNumbers DEF SupervisorNotStarted, WatchdogOff
<1>2. NoCrash \in [error : FatalErrors \cup {"none"}, task : CrashTasks \cup {"none"}]
  BY DEF NoCrash
<1>3. /\ supervisorTask' \in [at : {"setup", "delay", "check"}, lag : 0 .. MaxLag]
      /\ watchdog' \in [on : BOOLEAN, left : 0 .. WatchdogSeconds]
  BY <1>1 DEF Restart
<1>4. {reported', lastCrash'} \subseteq [error : FatalErrors \cup {"none"}, task : CrashTasks \cup {"none"}]
  BY <1>2 DEF Restart, WatchdogTypeOK
<1>5. stage' \in 1 .. 6 /\ reasonOfLastReset' \in {"unknown", "watchdog", "software", "normal"}
  BY DEF Restart
<1>6. {cpu', commandTask'} \subseteq {"runs", "spins"}
  BY DEF Restart
<1>7. {inited', systemInitError', debugTaskDone'} \subseteq BOOLEAN
  <2>1. inited' = TRUE /\ systemInitError' = FALSE /\ debugTaskDone' = FALSE
    BY DEF Restart
  <2> QED
    BY <2>1
<1> QED
  BY <1>3, <1>4, <1>5, <1>6, <1>7 DEF WatchdogTypeOK

LEMMA WatchdogInvInit == WatchdogInit => WatchdogInv
<1> SUFFICES ASSUME WatchdogInit PROVE WatchdogInv
  OBVIOUS
<1>1. /\ SupervisorNotStarted \in [at : {"setup", "delay", "check"}, lag : 0 .. MaxLag]
      /\ WatchdogOff \in [on : BOOLEAN, left : 0 .. WatchdogSeconds]
  BY WatchdogNumbers DEF SupervisorNotStarted, WatchdogOff
<1>2. AfterPowerOn \in [marker : BOOLEAN, errors : SUBSET FatalErrors, task : CrashTasks \cup {"none"}]
  BY DEF AfterPowerOn
<1>3. NoCrash \in [error : FatalErrors \cup {"none"}, task : CrashTasks \cup {"none"}]
  BY DEF NoCrash
<1>4. {reported, lastCrash} \subseteq [error : FatalErrors \cup {"none"}, task : CrashTasks \cup {"none"}]
  BY <1>3 DEF WatchdogInit
<1>5. /\ stage \in 1 .. 6 /\ {inited, systemInitError, debugTaskDone} \subseteq BOOLEAN
      /\ {cpu, commandTask} \subseteq {"runs", "spins"}
      /\ reasonOfLastReset \in {"unknown", "watchdog", "software", "normal"}
  <2>1. inited = TRUE /\ systemInitError = FALSE /\ debugTaskDone = FALSE
    BY DEF WatchdogInit
  <2>2. {inited, systemInitError, debugTaskDone} \subseteq BOOLEAN
    BY <2>1
  <2>3. stage = 1 /\ cpu = "runs" /\ commandTask = "runs" /\ reasonOfLastReset = "unknown"
    BY DEF WatchdogInit
  <2> QED
    BY <2>2, <2>3
<1>6. WatchdogTypeOK
  <2>1. /\ debug_info \in [marker : BOOLEAN, errors : SUBSET FatalErrors, task : CrashTasks \cup {"none"}]
        /\ supervisorTask \in [at : {"setup", "delay", "check"}, lag : 0 .. MaxLag]
        /\ watchdog \in [on : BOOLEAN, left : 0 .. WatchdogSeconds]
    BY <1>1, <1>2 DEF WatchdogInit
  <2> QED
    BY <1>4, <1>5, <2>1 DEF WatchdogTypeOK
<1> QED
  BY <1>6 DEF WatchdogInit, WatchdogInv, WatchdogKnows, WatchdogPatient, AfterPowerOn, WatchdogOff

LEMMA WatchdogTypeNext == WatchdogTypeOK /\ WatchdogPatient /\ [WatchdogNext]_watchdogVars => WatchdogTypeOK'
<1> SUFFICES ASSUME WatchdogTypeOK, WatchdogPatient PROVE [WatchdogNext]_watchdogVars => WatchdogTypeOK'
  OBVIOUS
<1>1. ASSUME UNCHANGED watchdogVars PROVE WatchdogTypeOK'
  BY <1>1 DEF watchdogVars, bootVars, WatchdogTypeOK
<1>2. ASSUME BootDebug PROVE WatchdogTypeOK'
  BY <1>2, FirstStage DEF BootDebug, WatchdogTypeOK
<1>3. ASSUME NEW ok \in BOOLEAN, BootStage(ok) PROVE WatchdogTypeOK'
  BY <1>3, FirstStage, LastStage DEF BootStage, WatchdogTypeOK
<1>4. ASSUME ReportErrors PROVE WatchdogTypeOK'
  <2>1. NoCrash \in [error : FatalErrors \cup {"none"}, task : CrashTasks \cup {"none"}]
    BY DEF NoCrash
  <2>2. debug_info.task \in CrashTasks \cup {"none"} /\ debug_info' = [debug_info EXCEPT !.errors = {}]
    BY <1>4 DEF ReportErrors, WatchdogTypeOK
  <2>3. FirstOf(debug_info.errors) \in FatalErrors \cup {"none"}
    BY DEF FirstOf, FatalErrors
  <2>4. reported' \in [error : FatalErrors \cup {"none"}, task : CrashTasks \cup {"none"}]
    BY <1>4, <2>1, <2>2, <2>3 DEF ReportErrors
  <2>5. debug_info' \in [marker : BOOLEAN, errors : SUBSET FatalErrors, task : CrashTasks \cup {"none"}]
    BY <2>2 DEF WatchdogTypeOK
  <2> QED
    BY <1>4, <2>1, <2>4, <2>5 DEF ReportErrors, WatchdogTypeOK, bootVars
<1>5. ASSUME NEW task \in CrashTasks, NEW error \in FatalErrors, Crash(task, error) PROVE WatchdogTypeOK'
  <2>1. debug_info' \in [marker : BOOLEAN, errors : SUBSET FatalErrors, task : CrashTasks \cup {"none"}]
    BY <1>5 DEF Crash, WatchdogTypeOK
  <2>2. lastCrash' \in [error : FatalErrors \cup {"none"}, task : CrashTasks \cup {"none"}]
    BY <1>5 DEF Crash
  <2>3. cpu' \in {"runs", "spins"}
    BY <1>5 DEF Crash
  <2> QED
    BY <1>5, <2>1, <2>2, <2>3 DEF Crash, WatchdogTypeOK, bootVars
<1>6. ASSUME SupervisorRuns PROVE WatchdogTypeOK'
  <2>1. supervisorTask' \in [at : {"setup", "delay", "check"}, lag : 0 .. MaxLag]
    BY <1>6, WatchdogNumbers DEF SupervisorRuns, SupervisorSetup, SupervisorChecks
  <2>2. watchdog' \in [on : BOOLEAN, left : 0 .. WatchdogSeconds]
    <3>1. WatchdogSeconds \in 0 .. WatchdogSeconds /\ watchdog \in [on : BOOLEAN, left : 0 .. WatchdogSeconds]
      BY WatchdogNumbers DEF WatchdogTypeOK
    <3>2. CASE SupervisorSetup
      BY <3>1, <3>2 DEF SupervisorSetup
    <3>3. CASE SupervisorChecks
      BY <3>1, <3>3 DEF SupervisorChecks
    <3> QED
      BY <1>6, <3>2, <3>3 DEF SupervisorRuns
  <2> QED
    BY <1>6, <2>1, <2>2 DEF SupervisorRuns, SupervisorSetup, SupervisorChecks, WatchdogTypeOK, bootVars
<1>7. ASSUME SecondPasses PROVE WatchdogTypeOK'
  <2>1. supervisorTask' \in [at : {"setup", "delay", "check"}, lag : 0 .. MaxLag]
    <3>1. /\ supervisorTask \in [at : {"setup", "delay", "check"}, lag : 0 .. MaxLag]
          /\ supervisorTask.lag \in 0 .. MaxLag
      BY DEF WatchdogTypeOK
    <3>2. CASE cpu = "runs" /\ supervisorTask.at = "check"
      <4>1. supervisorTask.lag + 1 \in 0 .. MaxLag
        BY <1>7, <3>1, <3>2, WatchdogNumbers DEF SecondPasses
      <4>2. supervisorTask' = [supervisorTask EXCEPT !.lag = supervisorTask.lag + 1]
        BY <1>7, <3>2 DEF SecondPasses
      <4> QED
        BY <3>1, <4>1, <4>2
    <3>3. CASE cpu = "runs" /\ supervisorTask.at = "delay"
      BY <1>7, <3>3, WatchdogNumbers DEF SecondPasses
    <3>4. CASE cpu # "runs"
      BY <1>7, <3>1, <3>4 DEF SecondPasses
    <3>5. supervisorTask.at # "setup" \/ cpu # "runs"
      BY <1>7 DEF SecondPasses, WatchdogPatient
    <3> QED
      BY <3>1, <3>2, <3>3, <3>4, <3>5
  <2>2. watchdog' \in [on : BOOLEAN, left : 0 .. WatchdogSeconds]
    BY <1>7, WatchdogNumbers DEF SecondPasses, WatchdogTypeOK
  <2> QED
    BY <1>7, <2>1, <2>2 DEF SecondPasses, WatchdogTypeOK, bootVars
<1>8. ASSUME WatchdogFires \/ ResetBoard PROVE WatchdogTypeOK'
  BY <1>8, RestartTypes DEF WatchdogFires, ResetBoard, WatchdogTypeOK
<1>9. ASSUME TriggerWatchdog PROVE WatchdogTypeOK'
  BY <1>9 DEF TriggerWatchdog, WatchdogTypeOK, bootVars
<1>10. ASSUME PowerCycle PROVE WatchdogTypeOK'
  <2>1. AfterPowerOn \in [marker : BOOLEAN, errors : SUBSET FatalErrors, task : CrashTasks \cup {"none"}]
    BY DEF AfterPowerOn
  <2> QED
    BY <1>10, <2>1, RestartTypes DEF PowerCycle
<1> QED
  BY <1>1, <1>2, <1>3, <1>4, <1>5, <1>6, <1>7, <1>8, <1>9, <1>10 DEF WatchdogNext

LEMMA WatchdogInvNext == WatchdogInv /\ [WatchdogNext]_watchdogVars => WatchdogInv'
<1> SUFFICES ASSUME WatchdogTypeOK, WatchdogKnows, WatchdogPatient, WatchdogTypeOK',
                    [WatchdogNext]_watchdogVars
             PROVE  WatchdogKnows' /\ WatchdogPatient'
  BY WatchdogTypeNext DEF WatchdogInv
<1>0. /\ cpu \in {"runs", "spins"} /\ stage \in 1 .. 6
      /\ debug_info \in [marker : BOOLEAN, errors : SUBSET FatalErrors, task : CrashTasks \cup {"none"}]
      /\ watchdog \in [on : BOOLEAN, left : 0 .. WatchdogSeconds]
      /\ supervisorTask \in [at : {"setup", "delay", "check"}, lag : 0 .. MaxLag]
  BY DEF WatchdogTypeOK
<1> DEFINE Holds == WatchdogKnows' /\ WatchdogPatient'
<1>1. ASSUME UNCHANGED watchdogVars PROVE Holds
  BY <1>1 DEF watchdogVars, bootVars, WatchdogKnows, WatchdogPatient, TellsLastCrash
<1>2. ASSUME BootDebug PROVE Holds
  <2>1. stage = 1 /\ stage' = 2
    BY <1>0, <1>2, FirstStage DEF BootDebug
  <2>2. /\ UNCHANGED <<cpu, debugTaskDone, watchdog, lastCrash>>
        /\ debug_info' = IF debug_info.marker THEN debug_info
                          ELSE [marker |-> TRUE, errors |-> {}, task |-> "none"]
    BY <1>2 DEF BootDebug
  <2>3. ~debugTaskDone /\ cpu # "spins" /\ cpu = "runs" /\ ~watchdog.on
    BY <1>0, <2>1 DEF WatchdogKnows
  <2>4. debug_info'.marker /\ TellsLastCrash'
    BY <2>2, <2>3 DEF WatchdogKnows, TellsLastCrash
  <2> QED
    BY <2>2, <2>3, <2>4 DEF WatchdogKnows, WatchdogPatient
<1>3. ASSUME NEW ok \in BOOLEAN, BootStage(ok) PROVE Holds
  <2>1. stage \in 2 .. 5 /\ stage' = stage + 1
    BY <1>0, <1>3, FirstStage, LastStage DEF BootStage
  <2>2. UNCHANGED <<cpu, debug_info, debugTaskDone, watchdog, lastCrash>>
    BY <1>3 DEF BootStage
  <2>3. debug_info.marker /\ ~debugTaskDone /\ cpu # "spins" /\ ~watchdog.on
    BY <2>1 DEF WatchdogKnows
  <2> QED
    BY <2>2, <2>3 DEF WatchdogKnows, WatchdogPatient, TellsLastCrash
<1>4. ASSUME ReportErrors PROVE Holds
  <2>1. debug_info'.errors = {} /\ debug_info'.marker = debug_info.marker /\ lastCrash' = NoCrash
    BY <1>0, <1>4 DEF ReportErrors
  <2> QED
    BY <1>0, <1>4, <2>1, LastStage
       DEF ReportErrors, WatchdogKnows, WatchdogPatient, TellsLastCrash, bootVars, Running
<1>5. ASSUME NEW task \in CrashTasks, NEW error \in FatalErrors, Crash(task, error) PROVE Holds
  <2>1. lastCrash' = [error |-> error, task |-> task] /\ lastCrash' # NoCrash
    BY <1>5 DEF Crash, FatalErrors, NoCrash
  <2>2. /\ debug_info'.errors = debug_info.errors \cup {error} /\ debug_info'.task = task
        /\ debug_info'.marker = debug_info.marker /\ cpu' = "spins" /\ cpu = "runs" /\ stage = 6
        /\ UNCHANGED <<watchdog, debugTaskDone, stage, supervisorTask>>
    BY <1>0, <1>5, LastStage DEF Crash, bootVars, Running
  <2>3. TellsLastCrash' \/ ~watchdog.on
    BY <2>1, <2>2 DEF WatchdogKnows, TellsLastCrash
  <2> QED
    BY <2>1, <2>2, <2>3 DEF WatchdogKnows, WatchdogPatient
<1>6. ASSUME SupervisorRuns PROVE Holds
  <2>1. /\ UNCHANGED <<stage, cpu, debug_info, debugTaskDone, lastCrash>>
        /\ cpu = "runs"
        /\ watchdog'.left = WatchdogSeconds /\ supervisorTask'.at = "delay"
        /\ watchdog'.on => watchdog.on \/ debugTaskDone
    <3>1. CASE SupervisorSetup
      BY <3>1 DEF SupervisorSetup, bootVars, Running
    <3>2. CASE SupervisorChecks
      BY <1>0, <3>2 DEF SupervisorChecks, bootVars, Running
    <3> QED
      BY <1>6, <3>1, <3>2 DEF SupervisorRuns
  <2> QED
    BY <2>1 DEF WatchdogKnows, WatchdogPatient, TellsLastCrash
<1>7. ASSUME SecondPasses PROVE Holds
  <2>1. /\ UNCHANGED <<stage, cpu, debug_info, debugTaskDone, lastCrash>> /\ watchdog.on
        /\ watchdog'.on = watchdog.on /\ watchdog'.left = watchdog.left - 1
    BY <1>0, <1>7 DEF SecondPasses, bootVars
  <2>2. WatchdogKnows'
    BY <2>1 DEF WatchdogKnows, TellsLastCrash
  <2>3. WatchdogPatient'
    <3>1. CASE cpu = "runs" /\ supervisorTask.at = "delay"
      BY <1>7, <2>1, <3>1, WatchdogNumbers DEF SecondPasses, WatchdogPatient
    <3>2. CASE cpu = "runs" /\ supervisorTask.at = "check"
      <4>1. supervisorTask'.at = "check" /\ supervisorTask'.lag = supervisorTask.lag + 1
        BY <1>0, <1>7, <3>2 DEF SecondPasses
      <4>2. supervisorTask.lag \in Nat
        BY <1>0, WatchdogNumbers
      <4> QED
        BY <2>1, <3>2, <4>1, <4>2, WatchdogNumbers DEF WatchdogPatient
    <3> QED
      BY <2>1, <3>1, <3>2 DEF WatchdogPatient
  <2> QED
    BY <2>2, <2>3
<1>8. ASSUME WatchdogFires \/ ResetBoard PROVE Holds
  <2>1. /\ UNCHANGED <<debug_info, lastCrash>>
        /\ cpu = "runs" \/ watchdog.on
        /\ stage' = 1 /\ cpu' = "runs" /\ ~debugTaskDone' /\ ~watchdog'.on
    BY <1>8 DEF WatchdogFires, ResetBoard, Restart, Running, WatchdogOff
  <2> QED
    BY <1>0, <2>1 DEF WatchdogKnows, WatchdogPatient, TellsLastCrash
<1>9. ASSUME TriggerWatchdog PROVE Holds
  BY <1>9 DEF TriggerWatchdog, WatchdogKnows, WatchdogPatient, TellsLastCrash, bootVars
<1>10. ASSUME PowerCycle PROVE Holds
  <2>1. /\ ~debug_info'.marker /\ lastCrash' = NoCrash
        /\ stage' = 1 /\ cpu' = "runs" /\ ~debugTaskDone' /\ ~watchdog'.on
    BY <1>10 DEF PowerCycle, Restart, AfterPowerOn, WatchdogOff
  <2> QED
    BY <2>1 DEF WatchdogKnows, WatchdogPatient
<1> QED
  BY <1>1, <1>2, <1>3, <1>4, <1>5, <1>6, <1>7, <1>8, <1>9, <1>10 DEF WatchdogNext

LEMMA SupervisionPartsNext ==
    [ModulesNext]_modulesVars => [SupervisorNext]_supervisorVars /\ [WatchdogNext]_watchdogVars
BY DEF ModulesNext, modulesVars, Only, Flash, Sd, Imu, Mag, Adc

(* For any tasks and queues, and any watchdog that waits longer than the   *)
(* tasks of low priority are ever held up: a task that stopped is reported *)
(* as stalled by the second check, what is reported after a reset is what  *)
(* happened before it, and a board whose tasks run is never reset by its   *)
(* watchdog.                                                               *)
THEOREM SupervisionCorrect ==
    ASSUME MaxLag + 1 < WatchdogSeconds PROVE ModulesSpec => SupervisionRight
<1>1. ModulesInit => SupervisorInv /\ WatchdogInv
  BY SupervisorInvInit, WatchdogInvInit DEF ModulesInit
<1>2. SupervisorInv /\ WatchdogInv /\ [ModulesNext]_modulesVars => SupervisorInv' /\ WatchdogInv'
  BY SupervisorInvNext, WatchdogInvNext, SupervisionPartsNext
<1>3. SupervisorInv => SupervisorTypeOK /\ StalledIsReported
  BY DEF SupervisorInv, SilentTrue, StalledIsReported
<1>4. WatchdogInv => WatchdogTypeOK /\ ReportIsTrue
  <2> SUFFICES ASSUME WatchdogTypeOK, WatchdogKnows, Running PROVE ReportIsTrue
    BY DEF WatchdogInv, ReportIsTrue
  <2>1. cpu = "runs" /\ stage = 6
    BY LastStage DEF Running, WatchdogTypeOK
  <2> QED
    BY <2>1 DEF ReportIsTrue, WatchdogKnows, TellsLastCrash
<1>5. WatchdogInv /\ [ModulesNext]_modulesVars => [WatchdogFires => cpu = "spins"]_watchdogVars
  <2> SUFFICES ASSUME WatchdogInv, WatchdogFires, cpu # "spins" PROVE FALSE
    OBVIOUS
  <2>1. watchdog.on /\ watchdog.left = 0 /\ cpu = "runs" /\ supervisorTask.lag \in 0 .. MaxLag
    BY DEF WatchdogFires, WatchdogInv, WatchdogTypeOK
  <2>2. watchdog.left = WatchdogSeconds \/ watchdog.left = WatchdogSeconds - 1 - supervisorTask.lag
    BY <2>1 DEF WatchdogInv, WatchdogPatient
  <2> QED
    BY <2>1, <2>2, WatchdogNumbers
<1> QED
  BY <1>1, <1>2, <1>3, <1>4, <1>5, PTL DEF ModulesSpec, SupervisionRight, WatchdogSparesTheLiving

---------------------------------------------------------------------------
(* The commands, with one UART *)

NumberedFrames == [number : 1 .. MaxFrames, uart : Uarts, kind : CommandKinds]

(* The frames of a chunk that are not parsed yet are the last that arrived,*)
(* in their order.                                                         *)
ChunkInOrder(u) ==
    LET r == uartRx[u] IN
    /\ r.at = "read" => parsed \subseteq 1 .. arrived
    /\ r.at = "feed" =>
         /\ r.i <= r.n /\ r.n <= Len(rx_buf) /\ r.n <= arrived
         /\ \A j \in 1 .. r.n : rx_buf[j].number = arrived - r.n + j
         /\ parsed \subseteq 1 .. arrived - r.n + r.i - 1

CmdPlaces == {"receive", "process", "free", "respond"}

IntakeInv(u) ==
    /\ arrived \in 0 .. MaxFrames
    /\ uartRx \in [Uarts -> [at : {"read", "feed"}, i : 1 .. ChunkFrames, n : 0 .. ChunkFrames]]
    /\ rx_buf \in Seq(NumberedFrames)
    /\ in_queue \in Seq(Messages) /\ Len(in_queue) <= QueueSize
    /\ heap \in 0 .. HeapSize /\ refused \in Nat
    /\ cmdTask = [at |-> cmdTask.at, message |-> cmdTask.message, response |-> cmdTask.response]
    /\ cmdTask.at \in CmdPlaces
    /\ cmdTask.message \in Messages \cup {NoMessage}
    /\ cmdTask.at # "receive" => cmdTask.message \in Messages
    /\ PayloadsAccounted
    /\ ChunkInOrder(u)

LEMMA IntakeNumbers ==
    {ChunkFrames, MaxFrames, QueueSize, HeapSize} \subseteq Nat \ {0}
BY IntakeAssumption DEF IntakeAssumption

LEMMA IntakeInvImplies ==
    ASSUME NEW u \in Uarts, IntakeInv(u)
    PROVE  IntakeTypeOK /\ PayloadsAccounted
<1>1. heap \in Nat /\ Len(in_queue) \in Nat
  BY IntakeNumbers DEF IntakeInv
<1>2. refused \in 0 .. HeapSize
  BY <1>1, IntakeNumbers, SMTT(30) DEF IntakeInv, PayloadsAccounted
<1>3. parsed \subseteq 1 .. MaxFrames
  <2>1. arrived \in Nat /\ arrived <= MaxFrames /\ MaxFrames \in Nat
    BY IntakeNumbers DEF IntakeInv
  <2>2. uartRx[u] \in [at : {"read", "feed"}, i : 1 .. ChunkFrames, n : 0 .. ChunkFrames]
    BY DEF IntakeInv
  <2>3. uartRx[u].i \in Nat /\ uartRx[u].n \in Nat
    BY <2>2, IntakeNumbers
  <2>4. CASE uartRx[u].at = "read"
    BY <2>1, <2>4 DEF IntakeInv, ChunkInOrder
  <2>5. CASE uartRx[u].at = "feed"
    <3>1. arrived - uartRx[u].n + uartRx[u].i - 1 <= MaxFrames
      BY <2>1, <2>3, <2>5 DEF IntakeInv, ChunkInOrder
    <3>2. parsed \subseteq 1 .. arrived - uartRx[u].n + uartRx[u].i - 1
      BY <2>5 DEF IntakeInv, ChunkInOrder
    <3> QED
      BY <2>1, <2>3, <3>1, <3>2
  <2> QED
    BY <2>2, <2>4, <2>5
<1> QED
  BY <1>2, <1>3 DEF IntakeInv, IntakeTypeOK, CmdPlaces

LEMMA IntakeInvInit == ASSUME NEW u, Uarts = {u} PROVE IntakeInit => IntakeInv(u)
<1> SUFFICES ASSUME IntakeInit PROVE IntakeInv(u)
  OBVIOUS
<1>1. NotReading \in [at : {"read", "feed"}, i : 1 .. ChunkFrames, n : 0 .. ChunkFrames]
  BY IntakeNumbers DEF NotReading
<1>2. rx_buf \in Seq(NumberedFrames) /\ in_queue \in Seq(Messages) /\ Len(in_queue) = 0
  BY DEF IntakeInit
<1>3. uartRx[u].at = "read"
  BY DEF IntakeInit, NotReading
<1>4. /\ cmdTask = [at |-> cmdTask.at, message |-> cmdTask.message, response |-> cmdTask.response]
      /\ cmdTask.at = "receive" /\ cmdTask.message = NoMessage
  BY DEF IntakeInit, CmdIdle
<1>5. arrived = 0 /\ heap = 0 /\ refused = 0 /\ parsed = {}
  BY DEF IntakeInit
<1>6. ChunkInOrder(u)
  BY <1>3, <1>5 DEF ChunkInOrder
<1>7. PayloadsAccounted
  BY <1>2, <1>4, <1>5 DEF PayloadsAccounted
<1>8. uartRx \in [Uarts -> [at : {"read", "feed"}, i : 1 .. ChunkFrames, n : 0 .. ChunkFrames]]
  BY <1>1 DEF IntakeInit
<1> QED
  BY <1>2, <1>4, <1>5, <1>6, <1>7, <1>8, IntakeNumbers DEF IntakeInv, CmdPlaces

(* A chunk overwrites the start of the buffer. *)
LEMMA ChunkInBuffer ==
    ASSUME NEW u \in Uarts, NEW n \in 1 .. ChunkFrames, NEW kinds \in [1 .. n -> CommandKinds],
           rx_buf \in Seq(NumberedFrames), arrived \in Nat, arrived + n <= MaxFrames,
           NEW chunk, chunk = [j \in 1 .. n |-> [number |-> arrived + j, uart |-> u, kind |-> kinds[j]]],
           NEW buf, buf = chunk \o SubSeq(rx_buf, n + 1, Len(rx_buf))
    PROVE  /\ buf \in Seq(NumberedFrames) /\ n <= Len(buf)
           /\ \A j \in 1 .. n : buf[j].number = arrived + j
<1>1. n \in Nat /\ ChunkFrames \in Nat /\ MaxFrames \in Nat
  BY IntakeNumbers
<1>2. \A j \in 1 .. n : [number |-> arrived + j, uart |-> u, kind |-> kinds[j]] \in NumberedFrames
  BY <1>1 DEF NumberedFrames
<1>3. chunk \in Seq(NumberedFrames) /\ Len(chunk) = n
  BY <1>1, <1>2
<1>4. Len(rx_buf) \in Nat /\ \A j \in n + 1 .. Len(rx_buf) : rx_buf[j] \in NumberedFrames
  BY <1>1, ElementOfSeq
<1>5. SubSeq(rx_buf, n + 1, Len(rx_buf)) \in Seq(NumberedFrames)
  BY <1>1, <1>4, SubSeqProperties
<1>6. buf \in Seq(NumberedFrames) /\ Len(buf) >= n /\ \A j \in 1 .. n : buf[j] = chunk[j]
  BY <1>1, <1>3, <1>5, ConcatProperties
<1> QED
  BY <1>1, <1>6
LEMMA ReadChunkKeeps ==
    ASSUME NEW u, Uarts = {u}, IntakeInv(u),
           NEW n \in 1 .. ChunkFrames, NEW kinds \in [1 .. n -> CommandKinds], ReadChunk(u, kinds)
    PROVE  IntakeInv(u)'
<1>1. n \in Nat /\ Len(kinds) = n /\ n <= ChunkFrames /\ ChunkFrames \in Nat /\ MaxFrames \in Nat
  BY IntakeNumbers
<1>2. /\ arrived' = arrived + n /\ arrived + n <= MaxFrames
      /\ uartRx[u].at = "read" /\ uartRx' = [uartRx EXCEPT ![u] = [at |-> "feed", i |-> 1, n |-> n]]
      /\ UNCHANGED <<parsed, in_queue, heap, refused, cmdTask>>
  BY <1>1 DEF ReadChunk
<1> DEFINE chunk == [j \in 1 .. n |-> [number |-> arrived + j, uart |-> u, kind |-> kinds[j]]]
           buf == chunk \o SubSeq(rx_buf, n + 1, Len(rx_buf))
<1>3. rx_buf' = buf
  BY <1>1 DEF ReadChunk
<1>4. /\ rx_buf' \in Seq(NumberedFrames) /\ n <= Len(rx_buf')
      /\ \A j \in 1 .. n : rx_buf'[j].number = arrived + j
  <2>1. rx_buf \in Seq(NumberedFrames) /\ arrived \in Nat
    BY <1>1 DEF IntakeInv
  <2>2. buf \in Seq(NumberedFrames) /\ n <= Len(buf) /\ \A j \in 1 .. n : buf[j].number = arrived + j
    BY <1>2, <2>1, ChunkInBuffer, ZenonT(40)
  <2> HIDE DEF buf
  <2> QED
    BY <1>3, <2>2
<1>5. uartRx'[u] = [at |-> "feed", i |-> 1, n |-> n]
  BY <1>2 DEF IntakeInv
<1>6. uartRx' \in [Uarts -> [at : {"read", "feed"}, i : 1 .. ChunkFrames, n : 0 .. ChunkFrames]]
  <2>1. [at |-> "feed", i |-> 1, n |-> n] \in [at : {"read", "feed"}, i : 1 .. ChunkFrames, n : 0 .. ChunkFrames]
    BY <1>1
  <2> QED
    BY <1>2, <2>1 DEF IntakeInv
<1>7. ChunkInOrder(u)'
  <2>1. parsed \subseteq 1 .. arrived
    BY <1>2 DEF IntakeInv, ChunkInOrder
  <2>2. arrived \in Nat
    BY <1>1 DEF IntakeInv
  <2>3. arrived' - n = arrived /\ n <= arrived' /\ arrived' - n + 1 - 1 = arrived
    BY <1>1, <1>2, <2>2
  <2> QED
    BY <1>1, <1>2, <1>4, <1>5, <2>1, <2>3 DEF ChunkInOrder
<1>8. arrived' \in 0 .. MaxFrames
  BY <1>1, <1>2 DEF IntakeInv
<1>9. PayloadsAccounted'
  BY <1>2 DEF IntakeInv, PayloadsAccounted
<1> QED
  BY <1>2, <1>4, <1>6, <1>7, <1>8, <1>9 DEF IntakeInv

LEMMA OneMore ==
    ASSUME NEW S, NEW x \in Nat \ {0}, S \subseteq 1 .. x - 1 PROVE S \cup {x} \subseteq 1 .. x
OBVIOUS

(* The next frame of a chunk. *)
LEMMA NextFrameOfChunk ==
    ASSUME NEW u, Uarts = {u}, IntakeInv(u), uartRx[u].at = "feed"
    PROVE  /\ arrived \in Nat /\ uartRx[u].i \in Nat \ {0} /\ uartRx[u].n \in 0 .. ChunkFrames
           /\ uartRx[u].i <= uartRx[u].n /\ uartRx[u].n <= arrived
           /\ NextFrame(u) \in NumberedFrames /\ NextFrame(u).uart = u
           /\ NextFrame(u).number = arrived - uartRx[u].n + uartRx[u].i
           /\ parsed \subseteq 1 .. NextFrame(u).number - 1
<1>1. uartRx[u] \in [at : {"read", "feed"}, i : 1 .. ChunkFrames, n : 0 .. ChunkFrames]
  BY DEF IntakeInv
<1>2. /\ arrived \in Nat /\ uartRx[u].i \in Nat \ {0} /\ uartRx[u].n \in 0 .. ChunkFrames
      /\ uartRx[u].n \in Nat
  BY <1>1, IntakeNumbers DEF IntakeInv
<1>3. /\ uartRx[u].i <= uartRx[u].n /\ uartRx[u].n <= arrived /\ uartRx[u].n <= Len(rx_buf)
      /\ \A j \in 1 .. uartRx[u].n : rx_buf[j].number = arrived - uartRx[u].n + j
      /\ parsed \subseteq 1 .. arrived - uartRx[u].n + uartRx[u].i - 1
  BY DEF IntakeInv, ChunkInOrder
<1>4. uartRx[u].i \in 1 .. uartRx[u].n /\ uartRx[u].i \in 1 .. Len(rx_buf)
  BY <1>2, <1>3, LenProperties DEF IntakeInv
<1>5. NextFrame(u) \in NumberedFrames
  BY <1>4, ElementOfSeq DEF IntakeInv, NextFrame
<1>6. NextFrame(u).uart = u
  BY <1>5 DEF NumberedFrames
<1>7. NextFrame(u).number = arrived - uartRx[u].n + uartRx[u].i
  BY <1>3, <1>4 DEF NextFrame
<1> QED
  BY <1>2, <1>3, <1>5, <1>6, <1>7

LEMMA FeedFrameKeeps ==
    ASSUME NEW u, Uarts = {u}, IntakeInv(u), FeedFrame(u) PROVE IntakeInv(u)'
<1> DEFINE r == uartRx[u]
<1>1. /\ r.at = "feed" /\ parsed' = parsed \cup {NextFrame(u).number}
      /\ uartRx' = [uartRx EXCEPT ![u] = AfterFrame(u)]
      /\ UNCHANGED <<arrived, rx_buf, cmdTask>>
  BY DEF FeedFrame
<1>2. /\ arrived \in Nat /\ r.i \in Nat \ {0} /\ r.n \in 0 .. ChunkFrames /\ r.n \in Nat
      /\ r.i <= r.n /\ r.n <= arrived
      /\ NextFrame(u) \in NumberedFrames /\ NextFrame(u).number = arrived - r.n + r.i
      /\ parsed' \subseteq 1 .. NextFrame(u).number
  <2>1. NextFrame(u).number \in Nat \ {0}
    BY <1>1, NextFrameOfChunk, IntakeNumbers DEF NumberedFrames
  <2>2. parsed \cup {NextFrame(u).number} \subseteq 1 .. NextFrame(u).number
    BY <1>1, <2>1, NextFrameOfChunk, OneMore
  <2> QED
    BY <1>1, <2>2, NextFrameOfChunk, IntakeNumbers
<1>3. r \in [at : {"read", "feed"}, i : 1 .. ChunkFrames, n : 0 .. ChunkFrames]
  BY DEF IntakeInv
<1>4. ChunkInOrder(u)'
  <2>1. uartRx'[u] = AfterFrame(u)
    BY <1>1 DEF IntakeInv
  <2>2. CASE r.i = r.n
    <3>1. uartRx'[u].at = "read"
      BY <2>1, <2>2 DEF AfterFrame, NotReading
    <3>2. NextFrame(u).number = arrived
      BY <1>2, <2>2
    <3>3. parsed' \subseteq 1 .. arrived
      BY <1>2, <3>2
    <3> QED
      BY <1>1, <3>1, <3>3 DEF ChunkInOrder
  <2>3. CASE r.i # r.n
    <3>1. uartRx'[u].at = "feed" /\ uartRx'[u].n = r.n /\ uartRx'[u].i = r.i + 1
      BY <1>1, <1>3, <2>1, <2>3 DEF AfterFrame
    <3>2. r.i + 1 <= r.n /\ parsed' \subseteq 1 .. arrived - r.n + (r.i + 1) - 1
      <4>1. NextFrame(u).number = arrived - r.n + (r.i + 1) - 1 /\ r.i + 1 <= r.n
        BY <1>2, <2>3
      <4> QED
        BY <1>2, <4>1
    <3>3. r.n <= Len(rx_buf) /\ \A j \in 1 .. r.n : rx_buf[j].number = arrived - r.n + j
      BY <1>1 DEF IntakeInv, ChunkInOrder
    <3> QED
      BY <1>1, <1>2, <3>1, <3>2, <3>3 DEF ChunkInOrder
  <2> QED
    BY <2>2, <2>3
<1>5. uartRx' \in [Uarts -> [at : {"read", "feed"}, i : 1 .. ChunkFrames, n : 0 .. ChunkFrames]]
  <2>1. CASE r.i = r.n
    <3>1. NotReading \in [at : {"read", "feed"}, i : 1 .. ChunkFrames, n : 0 .. ChunkFrames]
      BY IntakeNumbers DEF NotReading
    <3> QED
      BY <1>1, <2>1, <3>1 DEF AfterFrame, IntakeInv
  <2>2. CASE r.i # r.n
    <3>1. r.i + 1 \in 1 .. ChunkFrames
      BY <1>2, <2>2, IntakeNumbers
    <3>2. AfterFrame(u) = [r EXCEPT !.i = r.i + 1]
      BY <2>2 DEF AfterFrame
    <3>3. AfterFrame(u) \in [at : {"read", "feed"}, i : 1 .. ChunkFrames, n : 0 .. ChunkFrames]
      BY <1>3, <3>1, <3>2
    <3> QED
      BY <1>1, <3>3 DEF IntakeInv
  <2> QED
    BY <2>1, <2>2
<1>6. /\ in_queue' \in Seq(Messages) /\ Len(in_queue') <= QueueSize
      /\ heap' \in 0 .. HeapSize /\ refused' \in Nat /\ PayloadsAccounted'
  <2>1. heap \in Nat /\ HeapSize \in Nat /\ QueueSize \in Nat /\ heap <= HeapSize /\ Len(in_queue) \in Nat
        /\ refused \in Nat /\ in_queue \in Seq(Messages) /\ Len(in_queue) <= QueueSize
        /\ PayloadsAccounted
    BY IntakeNumbers, LenProperties DEF IntakeInv
  <2>2. CASE heap = HeapSize
    BY <1>1, <2>1, <2>2 DEF FeedFrame, PayloadsAccounted
  <2>3. CASE heap # HeapSize /\ Len(in_queue) < QueueSize
    <3>1. [index |-> u, frame |-> NextFrame(u)] \in Messages
      BY <1>2 DEF Messages, NumberedFrames
    <3>2. /\ in_queue' = Append(in_queue, [index |-> u, frame |-> NextFrame(u)])
          /\ heap' = heap + 1 /\ refused' = refused
      BY <2>3 DEF FeedFrame
    <3>3. in_queue' \in Seq(Messages) /\ Len(in_queue') = Len(in_queue) + 1
      BY <2>1, <3>1, <3>2
    <3> DEFINE held == IF cmdTask.at \in {"process", "free"} THEN 1 ELSE 0
    <3>6. held \in Nat /\ held' = held /\ heap = Len(in_queue) + held + refused /\ Len(in_queue) \in Nat
      BY <1>1, <2>1, LenProperties DEF PayloadsAccounted
    <3> HIDE DEF held
    <3>7. heap' = Len(in_queue') + held' + refused'
      BY <2>1, <3>2, <3>3, <3>6
    <3>4. PayloadsAccounted'
      BY <3>7 DEF PayloadsAccounted, held
    <3>5. Len(in_queue') <= QueueSize /\ heap' \in 0 .. HeapSize
      BY <2>1, <2>3, <3>2, <3>3
    <3> QED
      BY <2>1, <3>2, <3>3, <3>4, <3>5
  <2>4. CASE heap # HeapSize /\ ~(Len(in_queue) < QueueSize)
    <3>1. in_queue' = in_queue /\ heap' = heap + 1 /\ refused' = refused + 1
      BY <2>4 DEF FeedFrame
    <3> DEFINE held == IF cmdTask.at \in {"process", "free"} THEN 1 ELSE 0
    <3>4. held \in Nat /\ held' = held /\ heap = Len(in_queue) + held + refused /\ Len(in_queue) \in Nat
      BY <1>1, <2>1, LenProperties DEF PayloadsAccounted
    <3> HIDE DEF held
    <3>5. heap' = Len(in_queue') + held' + refused'
      BY <2>1, <3>1, <3>4
    <3>2. PayloadsAccounted'
      BY <3>5 DEF PayloadsAccounted, held
    <3>3. heap' \in 0 .. HeapSize /\ refused' \in Nat
      BY <2>1, <2>4, <3>1
    <3> QED
      BY <2>1, <3>1, <3>2, <3>3
  <2> QED
    BY <2>2, <2>3, <2>4
<1> QED
  BY <1>1, <1>4, <1>5, <1>6 DEF IntakeInv

(* The steps of the command task leave the receivers alone, but for a      *)
(* restart.                                                                *)
LEMMA ReceivingKept ==
    ASSUME NEW u, IntakeInv(u), UNCHANGED receiving,
           in_queue' \in Seq(Messages), Len(in_queue') <= QueueSize,
           heap' \in 0 .. HeapSize, UNCHANGED refused,
           cmdTask' = [at |-> cmdTask'.at, message |-> cmdTask'.message, response |-> cmdTask'.response],
           cmdTask'.at \in CmdPlaces, cmdTask'.message \in Messages \cup {NoMessage},
           cmdTask'.at # "receive" => cmdTask'.message \in Messages,
           PayloadsAccounted'
    PROVE  IntakeInv(u)'
BY DEF IntakeInv, ChunkInOrder, receiving

LEMMA CmdTaskKeeps ==
    ASSUME NEW u, Uarts = {u}, IntakeInv(u), CmdTaskStep PROVE IntakeInv(u)'
<1>0. /\ heap \in 0 .. HeapSize /\ HeapSize \in Nat /\ refused \in Nat /\ PayloadsAccounted
      /\ in_queue \in Seq(Messages) /\ Len(in_queue) <= QueueSize /\ Len(in_queue) \in Nat
      /\ QueueSize \in Nat
      /\ cmdTask = [at |-> cmdTask.at, message |-> cmdTask.message, response |-> cmdTask.response]
      /\ cmdTask.message \in Messages \cup {NoMessage}
      /\ cmdTask.at # "receive" => cmdTask.message \in Messages
  BY IntakeNumbers, LenProperties DEF IntakeInv
<1>1. CASE ReceiveCommand
  <2>1. Head(in_queue) \in Messages /\ Tail(in_queue) \in Seq(Messages) /\ Len(Tail(in_queue)) = Len(in_queue) - 1
    BY <1>0, <1>1, HeadTailProperties DEF ReceiveCommand
  <2>2. PayloadsAccounted'
    BY <1>0, <1>1, <2>1 DEF ReceiveCommand, PayloadsAccounted
  <2> QED
    BY <1>0, <1>1, <2>1, <2>2, ReceivingKept DEF ReceiveCommand, CmdPlaces
<1>2. ASSUME NEW k, NEW outcome, ProcessPacket(outcome) PROVE IntakeInv(u)'
  <2>1. PayloadsAccounted'
    BY <1>0, <1>2 DEF ProcessPacket, PayloadsAccounted
  <2> QED
    BY <1>0, <1>2, <2>1, ReceivingKept DEF ProcessPacket, CmdPlaces
<1>3. CASE ProcessReset
  <2>1. NotReading \in [at : {"read", "feed"}, i : 1 .. ChunkFrames, n : 0 .. ChunkFrames]
    BY IntakeNumbers DEF NotReading
  <2>2. /\ rx_buf' = <<>> /\ uartRx' = [v \in Uarts |-> NotReading] /\ in_queue' = <<>> /\ heap' = 0
        /\ refused' = 0 /\ cmdTask' = CmdIdle /\ UNCHANGED <<arrived, parsed>>
    BY <1>3 DEF ProcessReset
  <2>3. ChunkInOrder(u)'
    <3>1. uartRx'[u].at = "read"
      BY <2>2 DEF NotReading
    <3>2. parsed \subseteq 1 .. arrived
      <4>1. uartRx[u] \in [at : {"read", "feed"}, i : 1 .. ChunkFrames, n : 0 .. ChunkFrames]
        BY DEF IntakeInv
      <4>2. CASE uartRx[u].at = "read"
        BY <4>2 DEF IntakeInv, ChunkInOrder
      <4>3. CASE uartRx[u].at = "feed"
        <5>1. /\ arrived \in Nat /\ uartRx[u].i \in Nat /\ uartRx[u].n \in Nat
              /\ uartRx[u].i <= uartRx[u].n
              /\ parsed \subseteq 1 .. arrived - uartRx[u].n + uartRx[u].i - 1
          BY <4>1, <4>3, NextFrameOfChunk, IntakeNumbers DEF IntakeInv, ChunkInOrder
        <5> QED
          BY <5>1
      <4> QED
        BY <4>1, <4>2, <4>3
    <3> QED
      BY <2>2, <3>1, <3>2 DEF ChunkInOrder
  <2>4. /\ cmdTask' = [at |-> cmdTask'.at, message |-> cmdTask'.message, response |-> cmdTask'.response]
        /\ cmdTask'.at = "receive" /\ cmdTask'.message = NoMessage
    BY <2>2 DEF CmdIdle
  <2>5. Len(in_queue') = 0 /\ in_queue' \in Seq(Messages) /\ rx_buf' \in Seq(NumberedFrames)
    BY <2>2
  <2>6. PayloadsAccounted'
    BY <2>2, <2>4, <2>5 DEF PayloadsAccounted
  <2>7. uartRx' \in [Uarts -> [at : {"read", "feed"}, i : 1 .. ChunkFrames, n : 0 .. ChunkFrames]]
    BY <2>1, <2>2
  <2> QED
    BY <1>0, <2>2, <2>3, <2>4, <2>5, <2>6, <2>7 DEF IntakeInv, CmdPlaces
<1>4. CASE FreePayload
  <2>1. heap' = heap - 1 /\ cmdTask.at = "free" /\ UNCHANGED <<receiving, in_queue, refused>>
    BY <1>4 DEF FreePayload
  <2>2. heap >= 1
    BY <1>0, <2>1 DEF PayloadsAccounted
  <2>3. /\ cmdTask' = [at |-> cmdTask'.at, message |-> cmdTask'.message, response |-> cmdTask'.response]
        /\ \/ cmdTask'.at = "receive" /\ cmdTask'.message = NoMessage
           \/ cmdTask'.at = "respond" /\ cmdTask'.message = cmdTask.message
    BY <1>0, <1>4 DEF FreePayload, CmdIdle
  <2>4. PayloadsAccounted'
    BY <1>0, <2>1, <2>3 DEF PayloadsAccounted
  <2> QED
    BY <1>0, <2>1, <2>2, <2>3, <2>4, ReceivingKept DEF CmdPlaces
<1>5. CASE SendResponse
  <2>1. /\ cmdTask' = [at |-> cmdTask'.at, message |-> cmdTask'.message, response |-> cmdTask'.response]
        /\ cmdTask'.at = "receive" /\ cmdTask'.message = NoMessage /\ cmdTask.at = "respond"
        /\ UNCHANGED <<receiving, in_queue, heap, refused>>
    BY <1>5 DEF SendResponse, CmdIdle
  <2>2. PayloadsAccounted'
    BY <1>0, <2>1 DEF PayloadsAccounted
  <2> QED
    BY <1>0, <2>1, <2>2, ReceivingKept DEF CmdPlaces
<1> QED
  BY <1>1, <1>2, <1>3, <1>4, <1>5 DEF CmdTaskStep

LEMMA IntakeInvNext ==
    ASSUME NEW u, Uarts = {u} PROVE IntakeInv(u) /\ [IntakeNext]_intakeVars => IntakeInv(u)'
<1> SUFFICES ASSUME IntakeInv(u) PROVE [IntakeNext]_intakeVars => IntakeInv(u)'
  OBVIOUS
<1>1. ASSUME UNCHANGED intakeVars PROVE IntakeInv(u)'
  BY <1>1 DEF intakeVars, receiving, IntakeInv, ChunkInOrder, PayloadsAccounted
<1> QED
  BY <1>1, ReadChunkKeeps, FeedFrameKeeps, CmdTaskKeeps DEF IntakeNext

(* Whatever a message makes the experiment do, ground control asked for.   *)
LEMMA OutcomeAsked ==
    ASSUME NEW k, NEW outcome \in Outcomes(k), outcome.does # "nothing"
    PROVE  ForUsFromGround(k)
<1> DEFINE obeyed == {c \in ReachedCases(k) : Obeys(k, c)}
<1>1. obeyed # {} /\ k.target = "ONBOARD_COMPUTER"
  BY DEF Outcomes, Outcome
<1>2. PICK c \in obeyed : TRUE
  BY <1>1
<1> QED
  BY <1>1, <1>2 DEF Obeys, ForUsFromGround

LEMMA IntakePartNext == [ModulesNext]_modulesVars => [IntakeNext]_intakeVars
BY DEF ModulesNext, modulesVars, Only, Flash, Sd, Imu, Mag, Adc

(* For any frames, sizes of queue and heap, and any chunks, as long as one *)
(* UART is connected: every payload on the heap is accounted for, each     *)
(* frame is parsed once and as it arrived, and nothing is done that ground *)
(* control did not ask for.                                                *)
THEOREM CommandsCorrect ==
    ASSUME NEW uart, Uarts = {uart} PROVE ModulesSpec => CommandsRight
<1>1. ModulesInit => IntakeInv(uart)
  BY IntakeInvInit DEF ModulesInit
<1>2. IntakeInv(uart) /\ [ModulesNext]_modulesVars => IntakeInv(uart)'
  BY IntakeInvNext, IntakePartNext
<1>3. IntakeInv(uart) => IntakeTypeOK /\ PayloadsAccounted
  BY IntakeInvImplies
<1>4. [ModulesNext]_modulesVars =>
        [executed' # "nothing" /\ executed' # executed =>
           ForUsFromGround(cmdTask.message.frame.kind)]_intakeVars
  <2> SUFFICES ASSUME IntakeNext, executed' # "nothing", executed' # executed
               PROVE  ForUsFromGround(cmdTask.message.frame.kind)
    BY IntakePartNext
  <2>1. \/ ProcessReset
        \/ \E k \in CommandKinds : \E outcome \in Outcomes(k) : ProcessPacket(outcome)
    BY DEF IntakeNext, CmdTaskStep, ReadChunk, FeedFrame, ReceiveCommand, FreePayload, SendResponse
  <2>2. CASE ProcessReset
    BY <2>2 DEF ProcessReset, Resets, ForUsFromGround
  <2>3. ASSUME NEW outcome, ProcessPacket(outcome) PROVE ForUsFromGround(cmdTask.message.frame.kind)
    BY <2>3, OutcomeAsked DEF ProcessPacket
  <2> QED
    BY <2>1, <2>2, <2>3
<1>5. IntakeInv(uart) /\ [ModulesNext]_modulesVars =>
        [FedRight]_intakeVars
  <2> SUFFICES ASSUME IntakeInv(uart), FeedFrame(uart)
               PROVE  NextFrame(uart).uart = uart /\ NextFrame(uart).number \notin parsed
    BY DEF FedRight
  <2>1. /\ NextFrame(uart).uart = uart /\ NextFrame(uart) \in NumberedFrames
        /\ parsed \subseteq 1 .. NextFrame(uart).number - 1
    BY NextFrameOfChunk DEF FeedFrame
  <2>2. NextFrame(uart).number \in Nat
    BY <2>1, IntakeNumbers DEF NumberedFrames
  <2> QED
    BY <2>1, <2>2
<1>6. ModulesSpec => []IntakeInv(uart) /\ [][ModulesNext]_modulesVars
  BY <1>1, <1>2, PTL DEF ModulesSpec
<1>7. ModulesSpec => OnlyGroundIsObeyed
  BY <1>4, <1>6, PTL DEF OnlyGroundIsObeyed
<1>8. ModulesSpec => ParsedAsReceived
  BY <1>5, <1>6, PTL DEF ParsedAsReceived
<1>9. ModulesSpec => [](part = "intake" => IntakeTypeOK /\ PayloadsAccounted)
  BY <1>3, <1>6, PTL
<1> QED
  BY <1>7, <1>8, <1>9, PTL DEF CommandsRight

---------------------------------------------------------------------------
(* The scintillators.  Numbers first: a set of numbers that has 0 and with *)
(* each number the next has all of them, so a function that is defined by  *)
(* its value at a later place, up to a bound, exists.                      *)
LEMMA LeastNumber ==
    ASSUME NEW T, T \subseteq Nat, T # {}
    PROVE  \E x \in T : \A y \in T : x <= y
<1> DEFINE R == OpToRel(<, Nat)
<1>1. IsWellFoundedOn(R, Nat)
  BY NatLessThanWellFounded
<1>2. \A x, y \in Nat : y < x => <<y, x>> \in R
  BY DEF OpToRel
<1>3. \E x \in T : \A y \in T : ~ (<<y, x>> \in R)
  <2> HIDE DEF R
  <2> QED
    BY <1>1, WFMin
<1>4. PICK x \in T : \A y \in T : ~ (<<y, x>> \in R)
  BY <1>3, Zenon
<1>5. \A y \in T : ~ (y < x)
  <2> HIDE DEF R
  <2> QED
    BY <1>4, <1>2
<1> QED
  BY <1>5

LEMMA AllNumbers ==
    ASSUME NEW S, S \subseteq Nat, 0 \in S, \A n \in S : n + 1 \in S
    PROVE  S = Nat
<1> SUFFICES ASSUME Nat \ S # {} PROVE FALSE
  OBVIOUS
<1>1. PICK x \in Nat \ S : \A y \in Nat \ S : x <= y
  BY LeastNumber
<1>2. x - 1 \in Nat /\ x - 1 \in S
  BY <1>1
<1>3. (x - 1) + 1 \in S
  BY <1>2
<1> QED
  BY <1>1, <1>3

(* A function that looks at its value at a later place has one. *)
LooksLater(f, N, X, base, nx, G) ==
    /\ f \in [1 .. N + 1 -> X]
    /\ \A i \in 1 .. N + 1 : f[i] = IF i > N THEN base ELSE G[i][f[nx[i]]]

LEMMA UpwardRecursion ==
    ASSUME NEW N \in Nat, NEW X, NEW base \in X, NEW nx, \A i \in 1 .. N : nx[i] \in i + 1 .. N + 1,
           NEW G, \A i \in 1 .. N : \A x \in X : G[i][x] \in X
    PROVE  \E f : LooksLater(f, N, X, base, nx, G)
<1> DEFINE From(f, j) == /\ f \in [j .. N + 1 -> X]
                         /\ \A i \in j .. N + 1 : f[i] = IF i > N THEN base ELSE G[i][f[nx[i]]]
           T == {k \in Nat : k <= N => \E f : From(f, N + 1 - k)}
<1>1. 0 \in T
  <2> DEFINE f == [i \in N + 1 .. N + 1 |-> base]
  <2>1. From(f, N + 1 - 0)
    OBVIOUS
  <2> QED
    BY <2>1
<1>2. ASSUME NEW k \in T PROVE k + 1 \in T
  <2>0. k + 1 \in Nat
    OBVIOUS
  <2> HIDE DEF From
  <2> SUFFICES ASSUME k + 1 <= N PROVE \E f : From(f, N + 1 - (k + 1))
    BY <2>0
  <2> USE DEF From
  <2> DEFINE j == N - k
  <2>1. j \in 1 .. N /\ N + 1 - (k + 1) = j /\ N + 1 - k = j + 1
    OBVIOUS
  <2>2. PICK f : From(f, j + 1)
    BY <2>1
  <2> HIDE DEF j
  <2> DEFINE g == [i \in j .. N + 1 |-> IF i = j THEN G[j][f[nx[j]]] ELSE f[i]]
  <2>3. \A i \in j + 1 .. N + 1 : i \in j .. N + 1 /\ i # j /\ g[i] = f[i]
    BY <2>1
  <2>4. \A i \in j .. N : nx[i] \in j + 1 .. N + 1
    BY <2>1
  <2>5. G[j][f[nx[j]]] \in X
    BY <2>1, <2>2, <2>4
  <2>6. g \in [j .. N + 1 -> X]
    <3>1. \A i \in j .. N + 1 : i = j \/ i \in j + 1 .. N + 1
      BY <2>1
    <3> QED
      BY <2>2, <2>5, <3>1
  <2>7. ASSUME NEW i \in j .. N + 1 PROVE g[i] = IF i > N THEN base ELSE G[i][g[nx[i]]]
    <3>1. CASE i = j
      <4>1. g[i] = G[j][f[nx[j]]] /\ nx[j] \in j + 1 .. N + 1 /\ ~(i > N)
        BY <2>1, <2>4, <3>1
      <4>2. g[nx[j]] = f[nx[j]]
        BY <2>3, <4>1
      <4> HIDE DEF g
      <4> QED
        BY <3>1, <4>1, <4>2
    <3>2. CASE i # j
      <4>1. i \in j + 1 .. N + 1 /\ g[i] = f[i]
        BY <2>1, <2>3, <3>2
      <4>2. ~(i > N) => g[nx[i]] = f[nx[i]]
        BY <2>1, <2>3, <2>4, <4>1
      <4>3. f[i] = IF i > N THEN base ELSE G[i][f[nx[i]]]
        BY <2>2, <4>1
      <4> HIDE DEF g
      <4> QED
        BY <4>1, <4>2, <4>3
    <3> QED
      BY <3>1, <3>2
  <2> QED
    BY <2>1, <2>6, <2>7
<1>3. T = Nat
  <2>1. T \subseteq Nat
    OBVIOUS
  <2> HIDE DEF T
  <2> QED
    BY <1>1, <1>2, <2>1, AllNumbers
<1>4. N \in T
  BY <1>3
<1>5. PICK f : From(f, N + 1 - N)
  BY <1>4
<1>6. N + 1 - N = 1
  OBVIOUS
<1> QED
  BY <1>5, <1>6 DEF LooksLater

(* What holds at a place if it holds at the next one holds everywhere.     *)
LEMMA FromTheEnd ==
    ASSUME NEW N \in Nat, NEW nx, \A i \in 1 .. N : nx[i] \in i + 1 .. N + 1,
           NEW S, N + 1 \in S, \A i \in 1 .. N : nx[i] \in S => i \in S
    PROVE  \A i \in 1 .. N + 1 : i \in S
<1> DEFINE T == {k \in Nat : \A i \in 1 .. N + 1 : N + 1 - i <= k => i \in S}
<1>1. 0 \in T
  OBVIOUS
<1>2. ASSUME NEW k \in T PROVE k + 1 \in T
  <2> SUFFICES ASSUME NEW i \in 1 .. N + 1, N + 1 - i <= k + 1 PROVE i \in S
    OBVIOUS
  <2>1. CASE i = N + 1
    BY <2>1
  <2>2. CASE i # N + 1
    <3>1. i \in 1 .. N /\ nx[i] \in i + 1 .. N + 1
      BY <2>2
    <3>2. nx[i] \in 1 .. N + 1 /\ N + 1 - nx[i] <= k
      BY <3>1
    <3> QED
      BY <3>1, <3>2
  <2> QED
    BY <2>1, <2>2
<1>3. T = Nat
  <2>1. T \subseteq Nat
    OBVIOUS
  <2> HIDE DEF T
  <2> QED
    BY <1>1, <1>2, <2>1, AllNumbers
<1>4. ASSUME NEW i \in 1 .. N + 1 PROVE i \in S
  <2>1. N + 1 - i \in Nat
    OBVIOUS
  <2>2. N + 1 - i \in T
    BY <1>3, <2>1
  <2> QED
    BY <2>1, <2>2
<1> QED
  BY <1>4

---------------------------------------------------------------------------
ScmBytes == [size : Nat, bits : Nat]

SmallSize(v) == IF v < 64 THEN 1 ELSE IF v < 4096 THEN 2 ELSE IF v < 262144 THEN 3
                ELSE IF v < 16777216 THEN 4 ELSE 5

(* The size of an integer, by thresholds. *)
LEMMA SizeIs ==
    ASSUME NEW v \in VaruintValues, NEW o
    PROVE  SizeOf(v, o) = o + SmallSize(v)
<1>1. /\ Thresholds[1] = 64 /\ Thresholds[2] = 4096 /\ Thresholds[3] = 262144
      /\ Thresholds[4] = 16777216 /\ Thresholds[5] = 1073741824
  BY DEF Thresholds, MaxLength
<1>2. v \in Nat /\ v < 1073741824
  BY DEF VaruintValues
<1> DEFINE s == SmallSize(v)
           P(i) == v < Thresholds[i] /\ \A j \in 1 .. i - 1 : v >= Thresholds[j]
<1>3. s \in 1 .. 5 /\ P(s)
  BY <1>1, <1>2 DEF SmallSize
<1>4. ASSUME NEW i \in 1 .. 5, P(i) PROVE i = s
  <2> HIDE DEF s
  <2>1. ~(i < s)
    BY <1>3, <1>4, <1>2, <1>1
  <2>2. ~(s < i)
    BY <1>3, <1>4, <1>2, <1>1
  <2> QED
    BY <1>3, <2>1, <2>2
<1> HIDE DEF s
<1>5. SizeOf(v, o) = o + s
  <2> DEFINE c == CHOOSE i \in 1 .. MaxLength : P(i)
  <2>1. c = s
    <3> HIDE DEF P
    <3> QED
      BY <1>3, <1>4 DEF MaxLength
  <2>2. \E i \in 1 .. MaxLength : v < Thresholds[i]
    BY <1>3 DEF MaxLength
  <2>3. SizeOf(v, o) = o + c
    BY <2>2, Zenon DEF SizeOf
  <2> QED
    BY <2>1, <2>3
<1> QED
  BY <1>5 DEF s

LEMMA FirstValuesAre ==
    /\ FirstValues(1) = 64 /\ FirstValues(2) = 32 /\ FirstValues(3) = 16 /\ FirstValues(4) = 8
    /\ FirstValues(5) = 4 /\ FirstValues(6) = 2 /\ FirstValues(7) = 1
<1>1. FirstValues(1) = 64 /\ FirstValues(2) = 32
  BY DEF FirstValues
<1>2. FirstValues(3) = 16 /\ FirstValues(4) = 8
  BY DEF FirstValues
<1>3. FirstValues(5) = 4 /\ FirstValues(6) = 2
  BY DEF FirstValues
<1>4. FirstValues(7) = 1
  BY DEF FirstValues
<1> QED
  BY <1>1, <1>2, <1>3, <1>4

LEMMA ShiftedIs ==
    ASSUME NEW v \in VaruintValues
    PROVE  /\ Shifted(v, 0) = v /\ Shifted(v, 1) = v \div 128 /\ Shifted(v, 2) = v \div 16384
           /\ Shifted(v, 3) = v \div 2097152 /\ Shifted(v, 4) = v \div 268435456
           /\ \A g \in Nat : g > 4 => Shifted(v, g) = 0
<1>1. v \in Nat /\ v < 1073741824
  BY DEF VaruintValues
<1> QED
  BY <1>1 DEF Shifted

(* Seven bits at a time, the shifts of a value add up to it. *)
LEMMA ShiftedSteps ==
    ASSUME NEW v \in VaruintValues
    PROVE  /\ Shifted(v, 0) = v
           /\ \A g \in Nat : Shifted(v, g) \in Nat /\ Shifted(v, g) = 128 * Shifted(v, g + 1) + (Shifted(v, g) % 128)
<1>1. v \in Nat /\ v < 1073741824
  BY DEF VaruintValues
<1>2. /\ Shifted(v, 0) = v /\ Shifted(v, 1) = v \div 128 /\ Shifted(v, 2) = v \div 16384
      /\ Shifted(v, 3) = v \div 2097152 /\ Shifted(v, 4) = v \div 268435456
      /\ \A g \in Nat : g > 4 => Shifted(v, g) = 0
  BY ShiftedIs
<1>3. ASSUME NEW g \in Nat
      PROVE  Shifted(v, g) \in Nat /\ Shifted(v, g) = 128 * Shifted(v, g + 1) + (Shifted(v, g) % 128)
  <2>1. CASE g = 0
    BY <1>1, <1>2, <2>1
  <2>2. CASE g = 1
    BY <1>1, <1>2, <2>2
  <2>3. CASE g = 2
    BY <1>1, <1>2, <2>3
  <2>4. CASE g = 3
    BY <1>1, <1>2, <2>4
  <2>5. CASE g = 4
    BY <1>1, <1>2, <2>5
  <2>6. CASE g > 4
    BY <1>1, <1>2, <2>6
  <2> QED
    BY <2>1, <2>2, <2>3, <2>4, <2>5, <2>6
<1> QED
  BY <1>2, <1>3

(* An integer of size bytes: the first has its size and what is left of    *)
(* the value, each of the others the next seven bits.                      *)
LEMMA EncodedIs ==
    ASSUME NEW v \in VaruintValues, NEW o \in 0 .. 2, NEW size, size = SizeOf(v, o)
    PROVE  /\ size \in 1 .. 7 /\ SizeOf(v, 0) = size - o
           /\ Encoded(v, o) \in Seq(ScmBytes) /\ Len(Encoded(v, o)) = size
           /\ Encoded(v, o)[1] = [size |-> size, bits |-> Shifted(v, size - 1)]
           /\ \A i \in 2 .. size : Encoded(v, o)[i] = [size |-> 0, bits |-> Shifted(v, size - i) % 128]
<1>a. v \in Nat /\ v < 1073741824
  BY DEF VaruintValues
<1>b. /\ SmallSize(v) \in 1 .. 5
      /\ (SmallSize(v) = 1 => v < 64) /\ (SmallSize(v) = 2 => v < 4096)
      /\ (SmallSize(v) = 3 => v < 262144) /\ (SmallSize(v) = 4 => v < 16777216)
  BY <1>a DEF SmallSize
<1>c. size = o + SmallSize(v) /\ SizeOf(v, 0) = 0 + SmallSize(v)
  BY SizeIs
<1>1. SizeOf(v, 0) = size - o /\ size \in 1 .. 7
  BY <1>b, <1>c
<1>2. /\ Shifted(v, 0) = v /\ Shifted(v, 1) = v \div 128 /\ Shifted(v, 2) = v \div 16384
      /\ Shifted(v, 3) = v \div 2097152 /\ Shifted(v, 4) = v \div 268435456
      /\ Shifted(v, 5) = 0 /\ Shifted(v, 6) = 0
  BY ShiftedIs
<1>3. /\ FirstValues(1) = 64 /\ FirstValues(2) = 32 /\ FirstValues(3) = 16 /\ FirstValues(4) = 8
      /\ FirstValues(5) = 4 /\ FirstValues(6) = 2 /\ FirstValues(7) = 1
  BY FirstValuesAre
<1>4. Shifted(v, size - 1) % FirstValues(size) = Shifted(v, size - 1)
  <2>1. CASE size = 1
    <3>1. v < 64
      BY <1>1, <1>a, <1>b, <1>c, <2>1, SMT
    <3> QED
      BY <1>a, <1>2, <1>3, <2>1, <3>1
  <2>2. CASE size = 2
    <3>1. v < 4096
      BY <1>1, <1>a, <1>b, <1>c, <2>2, SMT
    <3> QED
      BY <1>a, <1>2, <1>3, <2>2, <3>1
  <2>3. CASE size = 3
    <3>1. v < 262144
      BY <1>1, <1>a, <1>b, <1>c, <2>3, SMT
    <3> QED
      BY <1>a, <1>2, <1>3, <2>3, <3>1
  <2>4. CASE size = 4
    <3>1. v < 16777216
      BY <1>1, <1>a, <1>b, <1>c, <2>4, SMT
    <3> QED
      BY <1>a, <1>2, <1>3, <2>4, <3>1
  <2>5. CASE size = 5
    BY <1>a, <1>2, <1>3, <2>5
  <2>6. CASE size = 6
    BY <1>2, <1>3, <2>6
  <2>7. CASE size = 7
    BY <1>2, <1>3, <2>7
  <2> QED
    BY <1>1, <2>1, <2>2, <2>3, <2>4, <2>5, <2>6, <2>7
<1>5. Encoded(v, o) = [i \in 1 .. size |->
                          IF i = 1 THEN [size |-> size, bits |-> Shifted(v, size - 1)]
                          ELSE [size |-> 0, bits |-> Shifted(v, size - i) % 128]]
  BY <1>4 DEF Encoded
<1>6. \A i \in 1 .. size : Shifted(v, size - i) \in Nat /\ Shifted(v, size - i) % 128 \in Nat
  <2> TAKE i \in 1 .. size
  <2>1. size - i \in Nat
    BY <1>1
  <2>2. Shifted(v, size - i) \in Nat
    BY <2>1, ShiftedSteps
  <2> QED
    BY <2>2
<1>7. \A i \in 1 .. size : (IF i = 1 THEN [size |-> size, bits |-> Shifted(v, size - 1)]
                            ELSE [size |-> 0, bits |-> Shifted(v, size - i) % 128]) \in ScmBytes
  BY <1>1, <1>6 DEF ScmBytes
<1>8. Encoded(v, o) \in Seq(ScmBytes) /\ Len(Encoded(v, o)) = size
  <2>1. Encoded(v, o) \in [1 .. size -> ScmBytes] /\ size \in Nat
    BY <1>1, <1>5, <1>7
  <2> QED
    BY <2>1
<1>9. Encoded(v, o)[1] = [size |-> size, bits |-> Shifted(v, size - 1)]
  BY <1>1, <1>5
<1>10. \A i \in 2 .. size : Encoded(v, o)[i] = [size |-> 0, bits |-> Shifted(v, size - i) % 128]
  BY <1>1, <1>5
<1> QED
  BY <1>1, <1>8, <1>9, <1>10

LEMMA SizeRange ==
    ASSUME NEW v \in VaruintValues, NEW o \in 0 .. 2
    PROVE  SizeOf(v, o) \in 1 .. 7
BY EncodedIs

---------------------------------------------------------------------------
(* The codes of a histogram. *)
Histograms == {h \in Seq(VaruintValues) : Len(h) \in VaruintValues}

LEMMA SmallIs == /\ VaruintValues \subseteq Nat /\ {0, 1} \subseteq VaruintValues
                 /\ \A m \in VaruintValues, n \in Nat : n <= m => n \in VaruintValues
<1>1. \A v : v \in VaruintValues <=> v \in Nat /\ v < 1073741824
  BY SMT DEF VaruintValues
<1> QED
  BY <1>1, SMT

(* A code stands for one cell or for a run of zeros, and the next code is  *)
(* behind it.                                                              *)
LEMMA AfterCodeIs ==
    ASSUME NEW h \in Histograms, NEW i \in 1 .. Len(h)
    PROVE  /\ AfterCode(h, i) \in i + 1 .. Len(h) + 1
           /\ h[i] = 0 => \A m \in i .. AfterCode(h, i) - 1 : h[m] = 0
           /\ h[i] # 0 => AfterCode(h, i) = i + 1
<1>0. Len(h) \in Nat /\ h \in Seq(VaruintValues) /\ i \in Nat
  BY DEF Histograms
<1>1. CASE h[i] = 0
  <2> DEFINE T == {n \in i + 1 .. Len(h) + 1 : n <= Len(h) => h[n] # 0}
  <2>1. T \subseteq Nat /\ T # {}
    <3>1. Len(h) + 1 \in T
      BY <1>0
    <3> QED
      BY <1>0, <3>1
  <2>2. PICK n \in T : \A k \in T : n <= k
    <3> HIDE DEF T
    <3> QED
      BY <2>1, LeastNumber
  <2>3. \A m \in i .. n - 1 : h[m] = 0
    BY <1>0, <1>1, <2>2
  <2> DEFINE P(k) == (\A m \in i .. k - 1 : h[m] = 0) /\ (k <= Len(h) => h[k] # 0)
  <2>4. n \in i + 1 .. Len(h) + 1 /\ P(n)
    BY <2>2, <2>3
  <2>5. AfterCode(h, i) = CHOOSE k \in i + 1 .. Len(h) + 1 : P(k)
    BY <1>1 DEF AfterCode
  <2> HIDE DEF T
  <2>6. AfterCode(h, i) \in i + 1 .. Len(h) + 1 /\ P(AfterCode(h, i))
    <3> HIDE DEF P
    <3> QED
      BY <2>4, <2>5
  <2> QED
    BY <1>1, <2>6
<1>2. CASE h[i] # 0
  BY <1>0, <1>2 DEF AfterCode
<1> QED
  BY <1>1, <1>2

(* The integer of a code: the length of a run, or the cell itself. *)
LEMMA RunCodeIs ==
    ASSUME NEW h \in Histograms, NEW i \in 1 .. Len(h)
    PROVE  /\ RunCode(h, i)[1] \in VaruintValues /\ RunCode(h, i)[2] \in {0, 1}
           /\ RunCode(h, i)[2] = 1 => RunCode(h, i)[1] = AfterCode(h, i) - i /\ h[i] = 0
           /\ RunCode(h, i)[2] = 0 => RunCode(h, i)[1] = h[i] /\ AfterCode(h, i) = i + 1
<1>0. /\ Len(h) \in Nat /\ Len(h) \in VaruintValues /\ h \in Seq(VaruintValues) /\ i \in Nat /\ h[i] \in VaruintValues
      /\ AfterCode(h, i) \in i + 1 .. Len(h) + 1
  BY AfterCodeIs, SmallIs DEF Histograms
<1>1. CASE AfterCode(h, i) > i + 1
  <2>1. RunCode(h, i) = <<AfterCode(h, i) - i, 1>>
    BY <1>1 DEF RunCode
  <2>2. AfterCode(h, i) - i \in Nat /\ AfterCode(h, i) - i <= Len(h)
    BY <1>0
  <2>3. AfterCode(h, i) - i \in VaruintValues
    BY <1>0, <2>2, SmallIs
  <2>4. h[i] = 0
    BY <1>0, <1>1, AfterCodeIs
  <2> QED
    BY <2>1, <2>3, <2>4
<1>2. CASE ~(AfterCode(h, i) > i + 1)
  <2>1. RunCode(h, i) = <<h[i], 0>>
    BY <1>2 DEF RunCode
  <2>2. AfterCode(h, i) = i + 1
    BY <1>0, <1>2
  <2> QED
    BY <1>0, <2>1, <2>2
<1> QED
  BY <1>1, <1>2

CodeBytes(h, i) == Encoded(RunCode(h, i)[1], RunCode(h, i)[2])

LEMMA CodeBytesAre ==
    ASSUME NEW h \in Histograms, NEW i \in 1 .. Len(h)
    PROVE  CodeBytes(h, i) \in Seq(ScmBytes) /\ Len(CodeBytes(h, i)) = SizeOf(RunCode(h, i)[1], RunCode(h, i)[2])
<1>1. RunCode(h, i)[1] \in VaruintValues /\ RunCode(h, i)[2] \in 0 .. 2
  BY RunCodeIs
<1>2. \A v \in VaruintValues, o \in 0 .. 2 : Encoded(v, o) \in Seq(ScmBytes) /\ Len(Encoded(v, o)) = SizeOf(v, o)
  BY EncodedIs, ZenonT(40)
<1> QED
  BY <1>1, <1>2 DEF CodeBytes

(* histogram_pack() from each cell on, and the sizes that are added up. *)
LEMMA PackedUnfolds ==
    ASSUME NEW h \in Histograms
    PROVE  /\ Packed(h) = PackedFrom(h)[1]
           /\ \A i \in 1 .. Len(h) + 1 : PackedFrom(h)[i] \in Seq(ScmBytes)
           /\ PackedFrom(h)[Len(h) + 1] = <<>>
           /\ \A i \in 1 .. Len(h) : PackedFrom(h)[i] = CodeBytes(h, i) \o PackedFrom(h)[AfterCode(h, i)]
<1> DEFINE N == Len(h)
           Step(f) == [i \in 1 .. N + 1 |-> IF i > N THEN <<>> ELSE CodeBytes(h, i) \o f[AfterCode(h, i)]]
           X == Seq(ScmBytes)
           nx == [i \in 1 .. N |-> AfterCode(h, i)]
           G == [i \in 1 .. N |-> [x \in X |-> CodeBytes(h, i) \o x]]
<1>0. N \in Nat
  BY DEF Histograms
<1>1. /\ <<>> \in X
      /\ \A i \in 1 .. N : nx[i] \in i + 1 .. N + 1 /\ CodeBytes(h, i) \in X
      /\ \A i \in 1 .. N : \A x \in X : G[i][x] \in X
  <2>1. \A i \in 1 .. N : AfterCode(h, i) \in i + 1 .. N + 1 /\ CodeBytes(h, i) \in X
    BY AfterCodeIs, CodeBytesAre
  <2>2. \A i \in 1 .. N : \A x \in X : CodeBytes(h, i) \o x \in X
    BY <2>1
  <2> QED
    BY <2>1, <2>2
<1>2. PICK f : /\ f \in [1 .. N + 1 -> X]
               /\ \A i \in 1 .. N + 1 : f[i] = IF i > N THEN <<>> ELSE G[i][f[nx[i]]]
  <2>1. /\ <<>> \in X /\ \A i \in 1 .. N : nx[i] \in i + 1 .. N + 1
        /\ \A i \in 1 .. N : \A x \in X : G[i][x] \in X
    BY <1>1
  <2> DEFINE base == <<>>
  <2>2. base \in X
    BY <2>1
  <2> HIDE DEF N, X, nx, G, base
  <2>3. \E f : LooksLater(f, N, X, base, nx, G)
    BY <1>0, <2>1, <2>2, UpwardRecursion
  <2> QED
    BY <2>3 DEF base, LooksLater
<1>3. \A i \in 1 .. N : G[i][f[nx[i]]] = CodeBytes(h, i) \o f[AfterCode(h, i)]
  <2> TAKE i \in 1 .. N
  <2>1. nx[i] = AfterCode(h, i) /\ nx[i] \in 1 .. N + 1
    BY <1>0, <1>1
  <2>2. f[nx[i]] \in X
    BY <1>2, <2>1
  <2> HIDE DEF X, N, nx
  <2> QED
    BY <2>1, <2>2
<1>4. f = Step(f)
  <2>1. f = [i \in 1 .. N + 1 |-> f[i]]
    BY <1>2
  <2>2. \A i \in 1 .. N + 1 : f[i] = IF i > N THEN <<>> ELSE CodeBytes(h, i) \o f[AfterCode(h, i)]
    <3> TAKE i \in 1 .. N + 1
    <3>1. ~(i > N) => i \in 1 .. N
      BY <1>0
    <3>2. f[i] = IF i > N THEN <<>> ELSE G[i][f[nx[i]]]
      BY <1>2
    <3>3. ~(i > N) => G[i][f[nx[i]]] = CodeBytes(h, i) \o f[AfterCode(h, i)]
      BY <1>3, <3>1
    <3> HIDE DEF G, nx, X, N
    <3> QED
      BY <3>2, <3>3
  <2> HIDE DEF G, nx, X
  <2> QED
    BY <2>1, <2>2
<1> DEFINE p == PackedFrom(h)
<1>5. p = Step(p)
  <2>1. p = CHOOSE g : g = Step(g)
    BY DEF PackedFrom, CodeBytes
  <2> HIDE DEF p, Step
  <2> QED
    BY <1>4, <2>1
<1>6. Packed(h) = p[1]
  BY DEF Packed, PackedFrom
<1> HIDE DEF p
<1>7. /\ p[N + 1] = <<>>
      /\ \A i \in 1 .. N : p[i] = CodeBytes(h, i) \o p[AfterCode(h, i)]
  <2>1. \A i \in 1 .. N + 1 : p[i] = IF i > N THEN <<>> ELSE CodeBytes(h, i) \o p[AfterCode(h, i)]
    BY <1>5, Zenon
  <2>2. N + 1 \in 1 .. N + 1 /\ N + 1 > N /\ \A i \in 1 .. N : i \in 1 .. N + 1 /\ ~(i > N)
    BY <1>0
  <2> HIDE DEF N
  <2> QED
    BY <2>1, <2>2
<1>8. \A i \in 1 .. N + 1 : p[i] \in X
  <2> DEFINE S == {i \in 1 .. N + 1 : p[i] \in X}
  <2>1. N + 1 \in S
    <3>1. N + 1 \in 1 .. N + 1 /\ p[N + 1] \in X
      BY <1>0, <1>1, <1>7
    <3> HIDE DEF N, X
    <3> QED
      BY <3>1
  <2>2. ASSUME NEW i \in 1 .. N, nx[i] \in S PROVE i \in S
    <3>1. CodeBytes(h, i) \in X /\ p[AfterCode(h, i)] \in X
      BY <1>1, <2>2
    <3>2. CodeBytes(h, i) \o p[AfterCode(h, i)] \in X
      BY <3>1
    <3>3. p[i] = CodeBytes(h, i) \o p[AfterCode(h, i)] /\ i \in 1 .. N + 1
      BY <1>0, <1>7
    <3> HIDE DEF N, X
    <3> QED
      BY <3>2, <3>3
  <2>3. \A i \in 1 .. N : nx[i] \in i + 1 .. N + 1
    BY <1>1
  <2> HIDE DEF S, nx, N
  <2>4. \A i \in 1 .. N + 1 : i \in S
    BY <1>0, <2>1, <2>2, <2>3, FromTheEnd
  <2> QED
    BY <2>4 DEF S
<1> QED
  BY <1>6, <1>7, <1>8 DEF p

(* histogram_get_packed_size() returns what histogram_pack() will write. *)
LEMMA PackedSizeIs ==
    ASSUME NEW h \in Histograms
    PROVE  PackedSize(h) = Len(Packed(h))
<1> DEFINE N == Len(h)
           size(i) == SizeOf(RunCode(h, i)[1], RunCode(h, i)[2])
           Step(f) == [i \in 1 .. N + 1 |-> IF i > N THEN 0 ELSE size(i) + f[AfterCode(h, i)]]
           nx == [i \in 1 .. N |-> AfterCode(h, i)]
           p == PackedFrom(h)
           s == SizeFrom(h)
<1>0. N \in Nat
  BY DEF Histograms
<1>1. \A i \in 1 .. N : nx[i] = AfterCode(h, i) /\ nx[i] \in i + 1 .. N + 1
  BY AfterCodeIs
<1>2. ASSUME NEW i \in 1 .. N
      PROVE  p[i] = CodeBytes(h, i) \o p[AfterCode(h, i)] /\ Len(p[i]) = size(i) + Len(p[AfterCode(h, i)])
  <2>1. /\ CodeBytes(h, i) \in Seq(ScmBytes) /\ Len(CodeBytes(h, i)) = size(i)
        /\ p[i] = CodeBytes(h, i) \o p[AfterCode(h, i)]
    BY CodeBytesAre, PackedUnfolds
  <2>2. AfterCode(h, i) \in 1 .. N + 1
    BY <1>0, <1>1
  <2>3. p[AfterCode(h, i)] \in Seq(ScmBytes)
    BY <2>2, PackedUnfolds
  <2> HIDE DEF p, size
  <2>4. Len(CodeBytes(h, i) \o p[AfterCode(h, i)]) = Len(CodeBytes(h, i)) + Len(p[AfterCode(h, i)])
    BY <2>1, <2>3, ConcatProperties
  <2> QED
    BY <2>1, <2>4
<1>3. p[N + 1] = <<>>
  BY PackedUnfolds
<1> DEFINE f == [i \in 1 .. N + 1 |-> Len(p[i])]
<1>4. f = Step(f)
  <2>1. ASSUME NEW i \in 1 .. N + 1 PROVE Len(p[i]) = IF i > N THEN 0 ELSE size(i) + f[AfterCode(h, i)]
    <3>1. CASE i > N
      <4>1. i = N + 1
        BY <1>0, <3>1
      <4> HIDE DEF p, N
      <4> QED
        BY <1>3, <3>1, <4>1
    <3>2. CASE ~(i > N)
      <4>1. i \in 1 .. N
        BY <1>0, <3>2
      <4>2. AfterCode(h, i) \in 1 .. N + 1
        BY <1>0, <1>1, <4>1
      <4>3. f[AfterCode(h, i)] = Len(p[AfterCode(h, i)])
        BY <4>2
      <4> HIDE DEF p, N, f, size
      <4> QED
        BY <1>2, <3>2, <4>1, <4>3
    <3> QED
      BY <3>1, <3>2
  <2> HIDE DEF p, size
  <2> QED
    BY <2>1
<1>5. s = Step(s)
  <2>1. s = CHOOSE g : g = Step(g)
    BY DEF SizeFrom
  <2> HIDE DEF s, Step, f
  <2> QED
    BY <1>4, <2>1
<1> DEFINE S == {i \in 1 .. N + 1 : s[i] = Len(p[i])}
<1> HIDE DEF s, p
<1>6. \A i \in 1 .. N + 1 : s[i] = IF i > N THEN 0 ELSE size(i) + s[AfterCode(h, i)]
  BY <1>5, Zenon
<1> HIDE DEF size, f
<1>7. N + 1 \in S
  <2>1. N + 1 \in 1 .. N + 1 /\ N + 1 > N
    BY <1>0
  <2> HIDE DEF N
  <2> QED
    BY <1>3, <1>6, <2>1
<1>8. ASSUME NEW i \in 1 .. N, nx[i] \in S PROVE i \in S
  <2>1. i \in 1 .. N + 1 /\ ~(i > N)
    BY <1>0
  <2> HIDE DEF N, nx
  <2> QED
    BY <1>1, <1>2, <1>6, <1>8, <2>1
<1>9. \A i \in 1 .. N + 1 : i \in S
  <2> HIDE DEF S, nx, N
  <2> QED
    BY <1>0, <1>1, <1>7, <1>8, FromTheEnd
<1>10. s[1] = Len(p[1])
  <2>1. 1 \in 1 .. N + 1
    BY <1>0
  <2> HIDE DEF N
  <2> QED
    BY <1>9, <2>1
<1>11. Packed(h) = p[1]
  BY PackedUnfolds DEF p
<1>12. PackedSize(h) = s[1]
  BY DEF PackedSize, SizeFrom, s
<1> QED
  BY <1>10, <1>11, <1>12

---------------------------------------------------------------------------
(* What is encoded is decoded. *)
HoldsAt(buf, at, e) == at + Len(e) <= Len(buf) + 1 /\ \A k \in 1 .. Len(e) : buf[at + k - 1] = e[k]

(* varuint_decode_overlong() finds the value of an integer that the buffer *)
(* holds at a place,                                                       *)
LEMMA ValueDecoded ==
    ASSUME NEW v \in VaruintValues, NEW o \in 0 .. 2, NEW buf \in Seq(ScmBytes), NEW at \in 1 .. Len(buf),
           HoldsAt(buf, at, Encoded(v, o)), NEW size, size = SizeOf(v, o)
    PROVE  ValueAt(buf, at, size) = v
<1> DEFINE Step(f) == [n \in 0 .. size |-> IF n = 0 THEN 0 ELSE 128 * f[n - 1] + buf[at + n - 1].bits]
           r == [n \in 0 .. size |-> IF n = 0 THEN 0 ELSE Shifted(v, size - n)]
           s == ValuesAt(buf, at, size)
<1>0. /\ size \in 1 .. 7 /\ Len(Encoded(v, o)) = size
      /\ Encoded(v, o)[1] = [size |-> size, bits |-> Shifted(v, size - 1)]
      /\ \A i \in 2 .. size : Encoded(v, o)[i] = [size |-> 0, bits |-> Shifted(v, size - i) % 128]
  BY EncodedIs, SMTT(30)
<1>a. \A n \in 1 .. size : buf[at + n - 1] = Encoded(v, o)[n]
  BY <1>0 DEF HoldsAt
<1>b. buf[at + 1 - 1].bits = Shifted(v, size - 1)
  <2>1. buf[at + 1 - 1] = Encoded(v, o)[1]
    BY <1>0, <1>a
  <2> QED
    BY <1>0, <2>1
<1>1. ASSUME NEW n \in 2 .. size PROVE buf[at + n - 1].bits = Shifted(v, size - n) % 128
  <2>1. buf[at + n - 1] = Encoded(v, o)[n] /\ n # 1
    BY <1>0, <1>a
  <2>2. Encoded(v, o)[n] = [size |-> 0, bits |-> Shifted(v, size - n) % 128]
    BY <1>0
  <2> QED
    BY <2>1, <2>2
<1>2. ASSUME NEW n \in 0 .. size PROVE r[n] = IF n = 0 THEN 0 ELSE 128 * r[n - 1] + buf[at + n - 1].bits
  <2>1. CASE n = 0
    BY <2>1
  <2>2. CASE n = 1
    <3>1. Shifted(v, size - 1) \in Nat /\ r[1] = Shifted(v, size - 1) /\ r[0] = 0
      <4>1. size - 1 \in Nat /\ 1 \in 0 .. size /\ 0 \in 0 .. size
        BY <1>0
      <4>2. Shifted(v, size - 1) \in Nat
        BY <4>1, ShiftedSteps
      <4> QED
        BY <4>1, <4>2
    <3>2. buf[at + n - 1].bits = Shifted(v, size - 1)
      BY <1>b, <2>2
    <3>3. n - 1 = 0
      BY <2>2
    <3> HIDE DEF r
    <3> QED
      BY <2>2, <3>1, <3>2, <3>3
  <2>3. CASE n >= 2
    <3>1. /\ size - n \in Nat /\ size - (n - 1) = size - n + 1 /\ n - 1 \in 0 .. size /\ n - 1 # 0 /\ n # 0
          /\ n \in 2 .. size
      BY <1>0, <2>3
    <3>2. r[n] = Shifted(v, size - n) /\ r[n - 1] = Shifted(v, size - n + 1)
      BY <1>0, <3>1
    <3>3. Shifted(v, size - n) = 128 * Shifted(v, size - n + 1) + (Shifted(v, size - n) % 128)
      BY <3>1, ShiftedSteps
    <3>4. buf[at + n - 1].bits = Shifted(v, size - n) % 128
      BY <1>1, <3>1
    <3> HIDE DEF r
    <3> QED
      BY <3>1, <3>2, <3>3, <3>4
  <2> QED
    BY <2>1, <2>2, <2>3
<1>3. r = Step(r)
  <2>1. r = [n \in 0 .. size |-> r[n]]
    OBVIOUS
  <2> HIDE DEF r
  <2> QED
    BY <1>2, <2>1, ZenonT(40)
<1>4. s = Step(s)
  <2>1. s = CHOOSE f : f = Step(f)
    BY DEF ValuesAt
  <2> HIDE DEF s, Step, r
  <2> QED
    BY <1>3, <2>1
<1>5. ValueAt(buf, at, size) = s[size]
  BY DEF ValueAt, ValuesAt
<1>6. r[size] = v
  <2>1. size \in 0 .. size /\ size # 0 /\ size - size = 0
    BY <1>0
  <2>2. r[size] = Shifted(v, size - size)
    BY <2>1
  <2> HIDE DEF r
  <2> QED
    BY <2>1, <2>2, ShiftedSteps
<1> HIDE DEF s, r
<1>7. \A n \in 0 .. size : s[n] = IF n = 0 THEN 0 ELSE 128 * s[n - 1] + buf[at + n - 1].bits
  BY <1>4, Zenon
<1> DEFINE T == {n \in Nat : n <= size => s[n] = r[n]}
<1>8. 0 \in T
  BY <1>0, <1>2, <1>7
<1>9. ASSUME NEW n \in T PROVE n + 1 \in T
  <2> SUFFICES ASSUME n + 1 <= size PROVE s[n + 1] = r[n + 1]
    OBVIOUS
  <2>1. n + 1 \in 0 .. size /\ n + 1 # 0 /\ n + 1 - 1 = n /\ n <= size
    BY <1>0
  <2>2. s[n] = r[n]
    BY <2>1
  <2>3. s[n + 1] = 128 * s[n + 1 - 1] + buf[at + (n + 1) - 1].bits
    BY <1>7, <2>1, SMTT(30)
  <2>4. r[n + 1] = 128 * r[n + 1 - 1] + buf[at + (n + 1) - 1].bits
    BY <1>2, <2>1
  <2> QED
    BY <2>1, <2>2, <2>3, <2>4
<1>10. T = Nat
  <2>1. T \subseteq Nat
    OBVIOUS
  <2> HIDE DEF T
  <2> QED
    BY <1>8, <1>9, <2>1, AllNumbers
<1>11. s[size] = r[size]
  BY <1>0, <1>10
<1> QED
  BY <1>5, <1>6, <1>11

(* its overlong, and the place behind it. *)
LEMMA Decodes ==
    ASSUME NEW v \in VaruintValues, NEW o \in 0 .. 2, NEW buf \in Seq(ScmBytes), NEW at \in 1 .. Len(buf),
           HoldsAt(buf, at, Encoded(v, o))
    PROVE  DecodedAt(buf, at) = [value |-> v, overlong |-> o, next |-> at + SizeOf(v, o)]
<1> DEFINE size == SizeOf(v, o)
<1>1. /\ size \in 1 .. 7 /\ SizeOf(v, 0) = size - o /\ Len(Encoded(v, o)) = size
      /\ Encoded(v, o)[1] = [size |-> size, bits |-> Shifted(v, size - 1)]
      /\ \A i \in 2 .. size : Encoded(v, o)[i] = [size |-> 0, bits |-> Shifted(v, size - i) % 128]
  BY EncodedIs
<1>2. ValueAt(buf, at, size) = v
  BY ValueDecoded
<1> HIDE DEF size
<1>3. buf[at].size = size /\ \A k \in 2 .. size : buf[at + k - 1].size = 0
  <2>1. \A k \in 1 .. size : buf[at + k - 1] = Encoded(v, o)[k]
    BY <1>1 DEF HoldsAt
  <2>2. at + 1 - 1 = at /\ 1 \in 1 .. size /\ \A k \in 2 .. size : k \in 1 .. size
    BY <1>1
  <2>3. buf[at] = Encoded(v, o)[1]
    BY <2>1, <2>2
  <2>4. buf[at].size = size
    BY <1>1, <2>3
  <2>5. ASSUME NEW k \in 2 .. size PROVE buf[at + k - 1].size = 0
    <3>1. buf[at + k - 1] = [size |-> 0, bits |-> Shifted(v, size - k) % 128]
      BY <1>1, <2>1, <2>2
    <3> QED
      BY <3>1
  <2> QED
    BY <2>4, <2>5
<1>4. \A i \in at + 1 .. at + size - 1 : buf[i].size = 0
  <2> TAKE i \in at + 1 .. at + size - 1
  <2>0. size \in Nat /\ at \in Nat /\ i \in Nat /\ at + 1 <= i /\ i <= at + size - 1
    BY <1>1
  <2>1. i - at + 1 \in 2 .. size /\ at + (i - at + 1) - 1 = i
    BY <2>0
  <2> QED
    BY <1>3, <2>1
<1>5. at + size - 1 <= Len(buf) /\ size > 0 /\ size - (size - o) = o
  BY <1>1 DEF HoldsAt
<1>6. DecodedAt(buf, at) = [value |-> ValueAt(buf, at, size), overlong |-> size - SizeOf(ValueAt(buf, at, size), 0),
                            next |-> at + size]
  BY <1>3, <1>4, <1>5 DEF DecodedAt
<1> QED
  BY <1>1, <1>2, <1>5, <1>6 DEF size

(* What a buffer holds at any place is a number. *)
LEMMA ValueIsNumber ==
    ASSUME NEW buf \in Seq(ScmBytes), NEW at \in 1 .. Len(buf), NEW size \in Nat, at + size - 1 <= Len(buf)
    PROVE  ValueAt(buf, at, size) \in Nat
<1> DEFINE bits == [i \in 1 .. size |-> buf[at + size - i].bits]
           nx == [i \in 1 .. size |-> i + 1]
           G == [i \in 1 .. size |-> [x \in Nat |-> 128 * x + bits[i]]]
           base == 0
<1>0. \A n \in 1 .. size : buf[at + n - 1].bits \in Nat
  <2> TAKE n \in 1 .. size
  <2>1. at + n - 1 \in 1 .. Len(buf)
    OBVIOUS
  <2>2. buf[at + n - 1] \in ScmBytes
    BY <2>1
  <2> QED
    BY <2>2 DEF ScmBytes
<1>1. \A i \in 1 .. size : bits[i] \in Nat
  <2> TAKE i \in 1 .. size
  <2>1. size - i + 1 \in 1 .. size /\ at + (size - i + 1) - 1 = at + size - i
    OBVIOUS
  <2> QED
    BY <1>0, <2>1
<1>2. PICK g : LooksLater(g, size, Nat, base, nx, G)
  <2>1. \A i \in 1 .. size : nx[i] \in i + 1 .. size + 1
    OBVIOUS
  <2> HIDE DEF bits
  <2>2. \A i \in 1 .. size : \A x \in Nat : G[i][x] \in Nat
    BY <1>1
  <2>3. base \in Nat
    OBVIOUS
  <2> HIDE DEF nx, G, base
  <2> QED
    BY <2>1, <2>2, <2>3, UpwardRecursion
<1>3. /\ g \in [1 .. size + 1 -> Nat]
      /\ \A i \in 1 .. size + 1 : g[i] = IF i > size THEN 0 ELSE 128 * g[i + 1] + buf[at + size - i].bits
  <2>1. /\ g \in [1 .. size + 1 -> Nat]
        /\ \A i \in 1 .. size + 1 : g[i] = IF i > size THEN base ELSE G[i][g[nx[i]]]
    BY <1>2 DEF LooksLater
  <2>2. ASSUME NEW i \in 1 .. size PROVE G[i][g[nx[i]]] = 128 * g[i + 1] + buf[at + size - i].bits
    <3>1. g[nx[i]] \in Nat /\ nx[i] = i + 1
      BY <2>1
    <3> HIDE DEF nx
    <3> QED
      BY <3>1
  <2>3. \A i \in 1 .. size + 1 : ~(i > size) => i \in 1 .. size
    OBVIOUS
  <2> HIDE DEF G, nx
  <2> QED
    BY <2>1, <2>2, <2>3
<1> DEFINE f == [n \in 0 .. size |-> g[size + 1 - n]]
           Step(x) == [n \in 0 .. size |-> IF n = 0 THEN 0 ELSE 128 * x[n - 1] + buf[at + n - 1].bits]
           s == ValuesAt(buf, at, size)
<1>4. f = Step(f)
  <2>1. ASSUME NEW n \in 0 .. size
        PROVE  g[size + 1 - n] = IF n = 0 THEN 0 ELSE 128 * f[n - 1] + buf[at + n - 1].bits
    <3>1. CASE n = 0
      <4>1. size + 1 \in 1 .. size + 1 /\ size + 1 > size /\ size + 1 - n = size + 1
        BY <3>1
      <4>2. g[size + 1] = 0
        BY <1>3, <4>1, Zenon
      <4> HIDE DEF f
      <4> QED
        BY <3>1, <4>1, <4>2, Zenon
    <3>2. CASE n # 0
      <4>1. /\ size + 1 - n \in 1 .. size + 1 /\ ~(size + 1 - n > size) /\ at + size - (size + 1 - n) = at + n - 1
            /\ size + 1 - n + 1 = size + 1 - (n - 1) /\ n - 1 \in 0 .. size
        BY <3>2
      <4>2. f[n - 1] = g[size + 1 - (n - 1)]
        BY <4>1
      <4> DEFINE i == size + 1 - n
      <4>3. g[i] = 128 * g[i + 1] + buf[at + size - i].bits
        <5>1. i \in 1 .. size + 1 /\ ~(i > size)
          BY <4>1
        <5> HIDE DEF i
        <5> QED
          BY <1>3, <5>1, Zenon
      <4>4. g[i] = 128 * g[size + 1 - (n - 1)] + buf[at + n - 1].bits
        BY <4>1, <4>3, Zenon
      <4> HIDE DEF f
      <4> QED
        BY <3>2, <4>2, <4>4, Zenon DEF i
    <3> QED
      BY <3>1, <3>2
  <2> QED
    BY <2>1
<1>5. s = Step(s)
  <2>1. s = CHOOSE x : x = Step(x)
    BY DEF ValuesAt
  <2> HIDE DEF s, Step, f
  <2> QED
    BY <1>4, <2>1
<1>6. ValueAt(buf, at, size) = s[size]
  BY DEF ValueAt, ValuesAt
<1> HIDE DEF s
<1>7. \A n \in 0 .. size : s[n] = IF n = 0 THEN 0 ELSE 128 * s[n - 1] + buf[at + n - 1].bits
  BY <1>5, Zenon
<1> DEFINE T == {n \in Nat : n <= size => s[n] \in Nat}
<1>8. 0 \in T
  BY <1>7
<1>9. ASSUME NEW n \in Nat, n + 1 <= size, s[n] \in Nat PROVE s[n + 1] \in Nat
  <2> DEFINE m == n + 1
  <2>1. m \in 1 .. size /\ m \in 0 .. size /\ m # 0 /\ m - 1 = n
    BY <1>9
  <2> HIDE DEF m
  <2>2. s[m] = 128 * s[n] + buf[at + m - 1].bits /\ buf[at + m - 1].bits \in Nat
    BY <1>0, <1>7, <2>1
  <2>3. s[m] \in Nat
    BY <1>9, <2>2, SMTT(30)
  <2> QED
    BY <2>3 DEF m
<1>10. T = Nat
  <2>1. T \subseteq Nat
    OBVIOUS
  <2>2. \A n \in T : n + 1 \in T
    BY <1>9
  <2> HIDE DEF T
  <2> QED
    BY <1>8, <2>2, <2>1, AllNumbers
<1>11. s[size] \in Nat
  BY <1>10
<1> QED
  BY <1>6, <1>11

(* A cell of a histogram holds a word. *)
IsWord(v) == v <= 65535

(* What histogram_unpack() makes of a code. *)
LEMMA CellsOfCode ==
    ASSUME NEW code, code.value \in Nat
    PROVE  /\ CodeCells(code) \in Seq(Nat)
           /\ code.overlong > 0 => CodeCells(code) = [i \in 1 .. code.value |-> 0]
           /\ ~(code.overlong > 0) /\ IsWord(code.value) => CodeCells(code) = <<code.value>>
<1>1. 2 ^ 16 = 65536
  OBVIOUS
<1>2. CASE code.overlong > 0
  <2>1. CodeCells(code) = [i \in 1 .. code.value |-> 0]
    BY <1>2 DEF CodeCells
  <2> QED
    BY <1>2, <2>1
<1>3. CASE ~(code.overlong > 0)
  <2>1. CodeCells(code) = <<IF code.value < 65536 THEN code.value ELSE 0>>
    BY <1>1, <1>3 DEF CodeCells
  <2>2. IsWord(code.value) => code.value < 65536
    BY SMT DEF IsWord
  <2>3. CodeCells(code) \in Seq(Nat)
    BY <2>1
  <2> QED
    BY <1>3, <2>1, <2>2, <2>3
<1> QED
  BY <1>2, <1>3

(* A place in the buffer is never left backwards. *)
LEMMA DecodedMovesOn ==
    ASSUME NEW buf \in Seq(ScmBytes), NEW at \in 1 .. Len(buf)
    PROVE  \/ DecodedAt(buf, at).next = at
           \/ DecodedAt(buf, at).next \in at + 1 .. Len(buf) + 1 /\ CodeCells(DecodedAt(buf, at)) \in Seq(Nat)
<1> DEFINE size == buf[at].size
           whole == size > 0 /\ at + size - 1 <= Len(buf) /\ \A i \in at + 1 .. at + size - 1 : buf[i].size = 0
<1>1. size \in Nat
  <2>1. buf[at] \in ScmBytes
    OBVIOUS
  <2> QED
    BY <2>1 DEF ScmBytes
<1>2. CASE whole
  <2>1. ValueAt(buf, at, size) \in Nat
    BY <1>1, <1>2, ValueIsNumber
  <2> DEFINE d == [value |-> ValueAt(buf, at, size), overlong |-> size - SizeOf(ValueAt(buf, at, size), 0),
                   next |-> at + size]
  <2>2. DecodedAt(buf, at) = d
    BY <1>2 DEF DecodedAt
  <2>3. d.value \in Nat /\ d.next = at + size
    BY <2>1
  <2> HIDE DEF d
  <2>4. CodeCells(d) \in Seq(Nat)
    BY <2>3, CellsOfCode
  <2>5. at + size \in at + 1 .. Len(buf) + 1
    BY <1>1, <1>2
  <2> QED
    BY <2>2, <2>3, <2>4, <2>5
<1>3. CASE ~whole
  <2>1. DecodedAt(buf, at) = [value |-> 0, overlong |-> 0, next |-> at]
    BY <1>3 DEF DecodedAt
  <2> QED
    BY <2>1
<1> QED
  BY <1>2, <1>3

LEMMA UnpackedUnfolds ==
    ASSUME NEW buf \in Seq(ScmBytes)
    PROVE  /\ Unpacked(buf) = UnpackedFrom(buf)[1]
           /\ UnpackedFrom(buf)[Len(buf) + 1] = <<>>
           /\ \A at \in 1 .. Len(buf) :
                DecodedAt(buf, at).next # at =>
                UnpackedFrom(buf)[at] = CodeCells(DecodedAt(buf, at)) \o UnpackedFrom(buf)[DecodedAt(buf, at).next]
<1> DEFINE N == Len(buf)
           X == Seq(Nat)
           stops(at) == DecodedAt(buf, at).next = at
           cells(at) == CodeCells(DecodedAt(buf, at))
           Step(f) == [at \in 1 .. N + 1 |->
                          IF at > N \/ stops(at) THEN <<>> ELSE cells(at) \o f[DecodedAt(buf, at).next]]
           nx == [at \in 1 .. N |-> IF stops(at) THEN N + 1 ELSE DecodedAt(buf, at).next]
           G == [at \in 1 .. N |-> [x \in X |-> IF stops(at) THEN <<>> ELSE cells(at) \o x]]
           base == <<>>
<1>0. N \in Nat
  OBVIOUS
<1>1. \A at \in 1 .. N : stops(at) \/ (DecodedAt(buf, at).next \in at + 1 .. N + 1 /\ cells(at) \in X)
  BY DecodedMovesOn
<1>2. PICK f : LooksLater(f, N, X, base, nx, G)
  <2> HIDE DEF stops, cells
  <2>1. base \in X /\ \A at \in 1 .. N : nx[at] \in at + 1 .. N + 1
    BY <1>0, <1>1 DEF stops
  <2>2. \A at \in 1 .. N : \A x \in X : G[at][x] \in X
    <3> TAKE at \in 1 .. N
    <3> TAKE x \in X
    <3>1. CASE stops(at)
      BY <3>1
    <3>2. CASE ~stops(at)
      <4>1. cells(at) \in X
        BY <1>1, <3>2 DEF stops
      <4>2. cells(at) \o x \in X
        BY <4>1
      <4> HIDE DEF X
      <4> QED
        BY <3>2, <4>2
    <3> QED
      BY <3>1, <3>2
  <2> HIDE DEF N, X, nx, G, base
  <2> QED
    BY <1>0, <2>1, <2>2, UpwardRecursion
<1>3. /\ f \in [1 .. N + 1 -> X]
      /\ \A at \in 1 .. N + 1 : f[at] = IF at > N THEN base ELSE G[at][f[nx[at]]]
  BY <1>2 DEF LooksLater
<1>4. ASSUME NEW at \in 1 .. N
      PROVE  G[at][f[nx[at]]] = IF stops(at) THEN <<>> ELSE cells(at) \o f[DecodedAt(buf, at).next]
  <2>1. nx[at] \in 1 .. N + 1 /\ (~stops(at) => nx[at] = DecodedAt(buf, at).next)
    BY <1>0, <1>1
  <2>2. f[nx[at]] \in X
    BY <1>3, <2>1
  <2> HIDE DEF X, N, nx, stops, cells
  <2> QED
    BY <2>1, <2>2
<1>5. f = Step(f)
  <2>1. f = [at \in 1 .. N + 1 |-> f[at]]
    BY <1>3
  <2>2. \A at \in 1 .. N + 1 : f[at] = IF at > N \/ stops(at) THEN <<>> ELSE cells(at) \o f[DecodedAt(buf, at).next]
    <3> TAKE at \in 1 .. N + 1
    <3>1. ~(at > N) => at \in 1 .. N
      BY <1>0
    <3> HIDE DEF G, nx, X, N, stops, cells
    <3> QED
      BY <1>3, <1>4, <3>1
  <2> HIDE DEF G, nx, X, stops, cells
  <2> QED
    BY <2>1, <2>2
<1> DEFINE p == UnpackedFrom(buf)
<1>6. p = Step(p)
  <2>1. p = CHOOSE g : g = Step(g)
    BY DEF UnpackedFrom
  <2> HIDE DEF p, Step
  <2> QED
    BY <1>5, <2>1
<1>7. Unpacked(buf) = p[1]
  BY DEF Unpacked, UnpackedFrom
<1> HIDE DEF p
<1>8. \A at \in 1 .. N + 1 : p[at] = IF at > N \/ stops(at) THEN <<>> ELSE cells(at) \o p[DecodedAt(buf, at).next]
  BY <1>6, Zenon
<1>9. N + 1 \in 1 .. N + 1 /\ N + 1 > N /\ \A at \in 1 .. N : at \in 1 .. N + 1 /\ ~(at > N)
  BY <1>0
<1>10. p[N + 1] = <<>>
  <2> HIDE DEF N, stops, cells
  <2> QED
    BY <1>8, <1>9
<1>11. \A at \in 1 .. N : ~stops(at) => p[at] = cells(at) \o p[DecodedAt(buf, at).next]
  <2> HIDE DEF N, stops, cells
  <2> QED
    BY <1>8, <1>9
<1> QED
  BY <1>7, <1>10, <1>11 DEF p

(* The rest of a histogram is unpacked from the rest of the packed one. *)
LEMMA HistogramIs ==
    ASSUME NEW h \in Histograms
    PROVE  Len(h) \in Nat /\ h \in Seq(Nat) /\ \A i \in 1 .. Len(h) : h[i] \in Nat
<1>1. h \in Seq(VaruintValues) /\ VaruintValues \subseteq Nat
  BY SmallIs DEF Histograms
<1>2. Len(h) \in Nat /\ h \in [1 .. Len(h) -> VaruintValues]
  BY <1>1
<1>3. h \in [1 .. Len(h) -> Nat]
  BY <1>1, <1>2
<1>4. h \in Seq(Nat)
  BY <1>2, <1>3
<1> QED
  BY <1>2, <1>3, <1>4

LEMMA BytesAssociate == \A x, y, z \in Seq(ScmBytes) : (x \o y) \o z = x \o (y \o z)
<1> TAKE x, y, z \in Seq(ScmBytes)
<1> QED
  BY ConcatAssociative, SMTT(30)

(* A piece of a sequence before its rest. *)
LEMMA SubSeqIs ==
    ASSUME NEW S, NEW s \in Seq(S), NEW m \in Nat, NEW n \in Nat, 1 <= m, m <= n + 1, n <= Len(s)
    PROVE  /\ SubSeq(s, m, n) \in Seq(S) /\ Len(SubSeq(s, m, n)) = n - m + 1
           /\ \A i \in 1 .. n - m + 1 : SubSeq(s, m, n)[i] = s[m + i - 1]
<1>1. m \in Int /\ n \in Int /\ \A i \in m .. n : s[i] \in S
  OBVIOUS
<1>2. /\ SubSeq(s, m, n) \in Seq(S)
      /\ Len(SubSeq(s, m, n)) = IF m <= n THEN n - m + 1 ELSE 0
      /\ \A i \in 1 .. n - m + 1 : SubSeq(s, m, n)[i] = s[m + i - 1]
  BY <1>1, SubSeqProperties
<1>3. ~(m <= n) => n - m + 1 = 0
  OBVIOUS
<1> QED
  BY <1>2, <1>3

PieceOf(d, S, s, m, n) ==
    d \in Seq(S) /\ Len(d) = n - m + 1 /\ \A i \in 1 .. n - m + 1 : d[i] = s[m + i - 1]

LEMMA SubSeqIsPiece ==
    ASSUME NEW S, NEW s \in Seq(S), NEW m \in Nat, NEW n \in Nat, 1 <= m, m <= n + 1, n <= Len(s)
    PROVE  PieceOf(SubSeq(s, m, n), S, s, m, n)
BY SubSeqIs DEF PieceOf

(* A piece of a sequence before its rest. *)
IsPiece(a, h, c, n) == Len(a) = n - c /\ \A i \in 1 .. n - c : a[i] = h[c + i - 1]

(* A histogram from a cell on is the cells of its code and those after it. *)
LEMMA RestJoined ==
    ASSUME NEW h \in Seq(Nat), NEW c \in 1 .. Len(h), NEW n \in c + 1 .. Len(h) + 1,
           NEW a \in Seq(Nat), IsPiece(a, h, c, n)
    PROVE  a \o SubSeq(h, n, Len(h)) = SubSeq(h, c, Len(h))
<1> USE DEF IsPiece
<1> DEFINE N == Len(h)
           rest == SubSeq(h, n, N)
           d == SubSeq(h, c, N)
           b == a \o rest
<1>1. N \in Nat /\ c \in Nat /\ n \in Nat /\ 1 <= c /\ c < n /\ n <= N + 1 /\ N <= Len(h) /\ 1 <= n /\ c <= N + 1
  OBVIOUS
<1>2. rest \in Seq(Nat) /\ Len(rest) = N - n + 1 /\ \A i \in 1 .. N - n + 1 : rest[i] = h[n + i - 1]
  <2>1. N <= Len(h) /\ n <= N + 1 /\ n \in Nat /\ N \in Nat /\ 1 <= n
    BY <1>1
  <2> HIDE DEF N
  <2>2. PieceOf(rest, Nat, h, n, N)
    BY <2>1, SubSeqIsPiece
  <2> HIDE DEF rest
  <2> QED
    BY <2>2 DEF PieceOf
<1>3. d \in Seq(Nat) /\ Len(d) = N - c + 1 /\ \A i \in 1 .. N - c + 1 : d[i] = h[c + i - 1]
  <2> HIDE DEF N
  <2>1. PieceOf(d, Nat, h, c, N)
    BY <1>1, SubSeqIsPiece
  <2> HIDE DEF d
  <2> QED
    BY <2>1 DEF PieceOf
<1> HIDE DEF N, rest, d
<1>4. b \in Seq(Nat) /\ Len(b) = N - c + 1
  <2>1. b \in Seq(Nat) /\ Len(b) = Len(a) + Len(rest)
    BY <1>2, ConcatProperties
  <2>2. (n - c) + (N - n + 1) = N - c + 1
    BY <1>1
  <2> QED
    BY <1>2, <2>1, <2>2
<1>5. \A i \in 1 .. Len(a) + Len(rest) : b[i] = IF i <= Len(a) THEN a[i] ELSE rest[i - Len(a)]
  BY <1>2, ConcatProperties
<1> HIDE DEF b
<1>6. ASSUME NEW i \in 1 .. N - c + 1 PROVE b[i] = d[i]
  <2>1. CASE i <= n - c
    <3>1. i \in 1 .. Len(a) + Len(rest) /\ i \in 1 .. n - c /\ i <= Len(a)
      BY <1>1, <1>2, <2>1
    <3>2. b[i] = a[i]
      BY <1>5, <3>1
    <3> QED
      BY <1>3, <3>1, <3>2
  <2>2. CASE i > n - c
    <3>1. /\ i \in 1 .. Len(a) + Len(rest) /\ ~(i <= Len(a))
          /\ i - Len(a) \in 1 .. N - n + 1 /\ n + (i - Len(a)) - 1 = c + i - 1
      <4> DEFINE la == Len(a)
                 lr == Len(rest)
      <4>1. la = n - c /\ lr = N - n + 1
        BY <1>2
      <4>2. i \in 1 .. N - c + 1
        OBVIOUS
      <4> HIDE DEF la, lr
      <4>3. /\ i \in 1 .. la + lr /\ ~(i <= la)
            /\ i - la \in 1 .. N - n + 1 /\ n + (i - la) - 1 = c + i - 1
        BY <1>1, <2>2, <4>1, <4>2, SMTT(30)
      <4> QED
        BY <4>3, Zenon DEF la, lr
    <3>2. b[i] = rest[i - Len(a)]
      BY <1>5, <3>1
    <3>3. rest[i - Len(a)] = h[n + (i - Len(a)) - 1]
      <4>1. \A j \in 1 .. N - n + 1 : rest[j] = h[n + j - 1]
        BY <1>2
      <4> QED
        BY <3>1, <4>1, Zenon
    <3> QED
      BY <1>3, <3>1, <3>2, <3>3
  <2>3. i <= n - c \/ i > n - c
    BY <1>1
  <2> QED
    BY <2>1, <2>2, <2>3
<1>7. b = d
  BY <1>3, <1>4, <1>6, SeqEqual
<1> QED
  BY <1>7 DEF b, d, rest, N

(* Unpacking the integer of a code yields the cells that the code stands   *)
(* for.                                                                    *)
LEMMA CodeUnpacked ==
    ASSUME NEW h \in Histograms, \A i \in 1 .. Len(h) : IsWord(h[i]), NEW c \in 1 .. Len(h),
           NEW code, code.value = RunCode(h, c)[1], code.overlong = RunCode(h, c)[2]
    PROVE  CodeCells(code) \o SubSeq(h, AfterCode(h, c), Len(h)) = SubSeq(h, c, Len(h))
<1> DEFINE n == AfterCode(h, c)
           v == RunCode(h, c)[1]
           o == RunCode(h, c)[2]
           a == CodeCells(code)
<1>0. Len(h) \in Nat /\ h \in Seq(Nat) /\ c \in Nat /\ c \in 1 .. Len(h) /\ h[c] \in Nat /\ IsWord(h[c])
  BY HistogramIs
<1>1. /\ n \in c + 1 .. Len(h) + 1
      /\ h[c] = 0 => \A m \in c .. n - 1 : h[m] = 0
  BY AfterCodeIs
<1>2. v \in Nat /\ o \in {0, 1} /\ (o = 1 => v = n - c /\ h[c] = 0) /\ (o = 0 => v = h[c] /\ n = c + 1)
  <2>1. v \in VaruintValues /\ o \in {0, 1} /\ (o = 1 => v = n - c /\ h[c] = 0) /\ (o = 0 => v = h[c] /\ n = c + 1)
    BY RunCodeIs
  <2> HIDE DEF v, o, n
  <2> QED
    BY <2>1, SmallIs
<1>3. /\ a \in Seq(Nat)
      /\ o > 0 => a = [i \in 1 .. v |-> 0]
      /\ ~(o > 0) /\ IsWord(v) => a = <<v>>
  <2>1. code.value \in Nat /\ code.value = v /\ code.overlong = o
    BY <1>2
  <2> HIDE DEF v, o, n
  <2>2. /\ CodeCells(code) \in Seq(Nat)
        /\ code.overlong > 0 => CodeCells(code) = [i \in 1 .. code.value |-> 0]
        /\ ~(code.overlong > 0) /\ IsWord(code.value) => CodeCells(code) = <<code.value>>
    BY <2>1, CellsOfCode
  <2> QED
    BY <2>1, <2>2
<1> HIDE DEF n, v, o, a
<1>4. Len(a) = n - c /\ \A i \in 1 .. n - c : a[i] = h[c + i - 1]
  <2>1. CASE o = 1
    <3>1. a = [i \in 1 .. n - c |-> 0] /\ n - c \in Nat
      BY <1>0, <1>1, <1>2, <1>3, <2>1
    <3>2. \A i \in 1 .. n - c : h[c + i - 1] = 0
      <4> TAKE i \in 1 .. n - c
      <4>1. c + i - 1 \in c .. n - 1
        BY <1>0, <1>1
      <4> QED
        BY <1>1, <1>2, <2>1, <4>1
    <3> QED
      BY <3>1, <3>2
  <2>2. CASE o = 0
    <3>1. a = <<h[c]>> /\ n = c + 1
      BY <1>0, <1>2, <1>3, <2>2
    <3>2. n - c = 1 /\ \A i \in 1 .. n - c : c + i - 1 = c /\ i = 1
      BY <1>0, <3>1
    <3>3. Len(<<h[c]>>) = 1 /\ <<h[c]>>[1] = h[c]
      OBVIOUS
    <3> QED
      BY <3>1, <3>2, <3>3
  <2> QED
    BY <1>2, <2>1, <2>2
<1>5. a \o SubSeq(h, n, Len(h)) = SubSeq(h, c, Len(h))
  <2>1. h \in Seq(Nat) /\ c \in 1 .. Len(h) /\ n \in c + 1 .. Len(h) + 1 /\ a \in Seq(Nat)
    BY <1>0, <1>1, <1>3
  <2>2. IsPiece(a, h, c, n)
    BY <1>4 DEF IsPiece
  <2> QED
    BY <2>1, <2>2, RestJoined
<1> QED
  BY <1>5 DEF a, n

(* histogram_unpack() is the inverse of histogram_pack(): any histogram of *)
(* 16-bit cells, packed and unpacked, is itself again.                     *)
THEOREM PackedUnpacks ==
    ASSUME NEW h \in Histograms, \A i \in 1 .. Len(h) : IsWord(h[i])
    PROVE  Packed(h) \in Seq(ScmBytes) /\ Unpacked(Packed(h)) = h
<1> DEFINE N == Len(h)
           buf == Packed(h)
           u == UnpackedFrom(buf)
           p == PackedFrom(h)
           nx == [i \in 1 .. N |-> AfterCode(h, i)]
           S == {c \in 1 .. N + 1 : \A at \in 1 .. Len(buf) + 1 :
                    HoldsAt(buf, at, p[c]) /\ at + Len(p[c]) = Len(buf) + 1 => u[at] = SubSeq(h, c, N)}
<1>0. N \in Nat /\ h \in Seq(VaruintValues)
  BY DEF Histograms
<1>1. /\ buf = p[1]
      /\ \A i \in 1 .. N + 1 : p[i] \in Seq(ScmBytes)
      /\ p[N + 1] = <<>>
      /\ \A i \in 1 .. N : p[i] = CodeBytes(h, i) \o p[AfterCode(h, i)]
  BY PackedUnfolds
<1>2. buf \in Seq(ScmBytes)
  <2>1. 1 \in 1 .. N + 1
    BY <1>0
  <2> HIDE DEF N, buf, p
  <2> QED
    BY <1>1, <2>1
<1>3. /\ Unpacked(buf) = u[1]
      /\ u[Len(buf) + 1] = <<>>
      /\ \A at \in 1 .. Len(buf) :
           DecodedAt(buf, at).next # at => u[at] = CodeCells(DecodedAt(buf, at)) \o u[DecodedAt(buf, at).next]
  BY <1>2, UnpackedUnfolds
<1>4. \A i \in 1 .. N : nx[i] = AfterCode(h, i) /\ nx[i] \in i + 1 .. N + 1
  BY AfterCodeIs
<1> HIDE DEF buf, u, p, nx
<1>5. N + 1 \in S
  <2>1. N + 1 \in 1 .. N + 1 /\ SubSeq(h, N + 1, N) = <<>>
    BY <1>0
  <2>2. Len(p[N + 1]) = 0
    BY <1>1
  <2>3. ASSUME NEW at \in 1 .. Len(buf) + 1, at + Len(p[N + 1]) = Len(buf) + 1 PROVE u[at] = SubSeq(h, N + 1, N)
    <3>1. at = Len(buf) + 1
      BY <1>2, <2>2, <2>3
    <3>2. u[Len(buf) + 1] = <<>>
      BY <1>3
    <3>3. u[at] = <<>>
      BY <3>1, <3>2
    <3> HIDE DEF N
    <3> QED
      BY <2>1, <3>3
  <2> HIDE DEF N
  <2> QED
    BY <2>1, <2>3
<1>6. ASSUME NEW c \in 1 .. N, nx[c] \in S PROVE c \in S
  <2> SUFFICES ASSUME NEW at \in 1 .. Len(buf) + 1, HoldsAt(buf, at, p[c]), at + Len(p[c]) = Len(buf) + 1
               PROVE  u[at] = SubSeq(h, c, N)
    BY <1>0
  <2> DEFINE v == RunCode(h, c)[1]
             o == RunCode(h, c)[2]
             e == CodeBytes(h, c)
             q == p[nx[c]]
  <2>1. v \in VaruintValues /\ o \in 0 .. 2 /\ e = Encoded(v, o)
    BY RunCodeIs DEF CodeBytes
  <2>2. e \in Seq(ScmBytes) /\ Len(e) = SizeOf(v, o)
    BY CodeBytesAre
  <2>3. Len(e) \in 1 .. 7
    <3> HIDE DEF v, o, e
    <3>1. SizeOf(v, o) \in 1 .. 7
      BY <2>1, SizeRange
    <3> QED
      BY <2>2, <3>1
  <2> HIDE DEF v, o, e
  <2>4. nx[c] \in 1 .. N + 1 /\ q \in Seq(ScmBytes) /\ p[c] = e \o q
    <3>1. nx[c] \in 1 .. N + 1 /\ nx[c] = AfterCode(h, c)
      BY <1>0, <1>4
    <3>2. p[c] = e \o p[AfterCode(h, c)]
      BY <1>1 DEF e
    <3>3. p[nx[c]] \in Seq(ScmBytes)
      <4> HIDE DEF N
      <4> QED
        BY <1>1, <3>1
    <3> QED
      BY <3>1, <3>2, <3>3
  <2> HIDE DEF q
  <2>5. Len(p[c]) = Len(e) + Len(q) /\ (\A k \in 1 .. Len(e) : p[c][k] = e[k]) /\ \A k \in 1 .. Len(q) : p[c][Len(e) + k] = q[k]
    <3>1. Len(e \o q) = Len(e) + Len(q)
      BY <2>2, <2>4, ConcatProperties
    <3>2. ASSUME NEW k \in 1 .. Len(e) PROVE (e \o q)[k] = e[k]
      BY <2>2, <2>4
    <3>3. ASSUME NEW k \in 1 .. Len(q) PROVE (e \o q)[Len(e) + k] = q[k]
      <4>1. \A i \in 1 .. Len(e) + Len(q) : (e \o q)[i] = IF i <= Len(e) THEN e[i] ELSE q[i - Len(e)]
        <5>1. e \in Seq(ScmBytes) /\ q \in Seq(ScmBytes)
          BY <2>2, <2>4
        <5> QED
          BY <5>1, ConcatProperties
      <4>2. /\ Len(e) + k \in 1 .. Len(e) + Len(q) /\ ~(Len(e) + k <= Len(e)) /\ Len(e) + k - Len(e) = k
        BY <2>3, <2>4
      <4> QED
        BY <4>1, <4>2
    <3> QED
      BY <2>4, <3>1, <3>2, <3>3
  <2>6. at \in 1 .. Len(buf) /\ at + Len(e) \in 1 .. Len(buf) + 1 /\ Len(q) \in Nat /\ at + Len(e) + Len(q) = Len(buf) + 1
    <3> DEFINE le == Len(e)
               lq == Len(q)
               lb == Len(buf)
    <3>1. le \in 1 .. 7 /\ lq \in Nat /\ lb \in Nat /\ at \in Nat /\ at >= 1
      BY <1>2, <2>3, <2>4
    <3>2. at + (le + lq) = lb + 1
      BY <2>5
    <3> HIDE DEF le, lq, lb
    <3>3. at \in 1 .. lb /\ at + le \in 1 .. lb + 1 /\ lq \in Nat /\ at + le + lq = lb + 1
      BY <3>1, <3>2
    <3> QED
      BY <3>3 DEF le, lq, lb
  <2>7. HoldsAt(buf, at, Encoded(v, o))
    <3>1. \A k \in 1 .. Len(p[c]) : buf[at + k - 1] = p[c][k]
      BY DEF HoldsAt
    <3>2. ASSUME NEW k \in 1 .. Len(e) PROVE buf[at + k - 1] = e[k]
      <4>1. k \in 1 .. Len(p[c])
        BY <2>2, <2>3, <2>4, <2>5, SMTT(30)
      <4> QED
        BY <2>5, <3>1, <4>1
    <3>3. at + Len(e) <= Len(buf) + 1
      BY <2>6
    <3>4. HoldsAt(buf, at, e)
      BY <3>2, <3>3 DEF HoldsAt
    <3> QED
      BY <2>1, <3>4
  <2>8. HoldsAt(buf, at + Len(e), q)
    <3>1. \A k \in 1 .. Len(p[c]) : buf[at + k - 1] = p[c][k]
      BY DEF HoldsAt
    <3>2. ASSUME NEW k \in 1 .. Len(q) PROVE buf[at + Len(e) + k - 1] = q[k]
      <4>1. Len(e) + k \in 1 .. Len(p[c]) /\ at + (Len(e) + k) - 1 = at + Len(e) + k - 1
        BY <2>3, <2>5, <2>6
      <4> QED
        BY <2>5, <3>1, <4>1
    <3>3. at + Len(e) + Len(q) <= Len(buf) + 1
      BY <1>2, <2>6
    <3> QED
      BY <3>2, <3>3 DEF HoldsAt
  <2> DEFINE d == DecodedAt(buf, at)
  <2>9. d = [value |-> v, overlong |-> o, next |-> at + Len(e)]
    BY <1>2, <2>1, <2>2, <2>6, <2>7, Decodes, SMTT(30)
  <2>10. d.next = at + Len(e) /\ d.next # at /\ d.value = v /\ d.overlong = o
    <3>1. d.next = at + Len(e) /\ d.value = v /\ d.overlong = o
      <4> HIDE DEF d
      <4> QED
        BY <2>9
    <3>2. at + Len(e) # at
      <4>1. \A x, y \in Nat : y \in 1 .. 7 => x + y # x
        OBVIOUS
      <4>2. at \in Nat /\ Len(e) \in Nat
        BY <2>3, <2>6
      <4> QED
        BY <2>3, <4>1, <4>2
    <3> QED
      BY <3>1, <3>2
  <2> HIDE DEF d
  <2>11. u[at] = CodeCells(d) \o u[d.next]
    <3>1. DecodedAt(buf, at).next # at
      BY <2>10 DEF d
    <3>2. \A x \in 1 .. Len(buf) :
            DecodedAt(buf, x).next # x => u[x] = CodeCells(DecodedAt(buf, x)) \o u[DecodedAt(buf, x).next]
      BY <1>3
    <3> QED
      BY <2>6, <3>1, <3>2, Zenon DEF d
  <2>12. u[d.next] = SubSeq(h, nx[c], N)
    <3>1. \A x \in 1 .. Len(buf) + 1 : HoldsAt(buf, x, q) /\ x + Len(q) = Len(buf) + 1 => u[x] = SubSeq(h, nx[c], N)
      BY <1>6 DEF q
    <3> QED
      BY <2>6, <2>8, <2>10, <3>1
  <2>13. u[d.next] = SubSeq(h, AfterCode(h, c), Len(h))
    <3>1. nx[c] = AfterCode(h, c)
      BY <1>4
    <3> QED
      BY <2>12, <3>1
  <2>14. CodeCells(d) \o SubSeq(h, AfterCode(h, c), Len(h)) = SubSeq(h, c, Len(h))
    BY <2>10, CodeUnpacked DEF v, o
  <2> QED
    BY <2>11, <2>13, <2>14
<1>7. \A c \in 1 .. N + 1 : c \in S
  <2> HIDE DEF S, N
  <2> QED
    BY <1>0, <1>4, <1>5, <1>6, FromTheEnd
<1>8. u[1] = SubSeq(h, 1, N)
  <2>1. 1 \in S
    BY <1>0, <1>7
  <2>2. HoldsAt(buf, 1, buf) /\ 1 + Len(buf) = Len(buf) + 1 /\ 1 \in 1 .. Len(buf) + 1
    <3>1. \A k \in 1 .. Len(buf) : 1 + k - 1 = k
      OBVIOUS
    <3> QED
      BY <1>2, <3>1 DEF HoldsAt
  <2> QED
    BY <1>1, <2>1, <2>2
<1>9. SubSeq(h, 1, N) = h
  BY <1>0
<1> QED
  BY <1>2, <1>3, <1>8, <1>9 DEF buf

---------------------------------------------------------------------------
(* Fragments. *)
LEMMA PiecesJoin ==
    ASSUME NEW s \in Seq(ScmBytes), NEW i \in Nat, NEW j \in Nat, i <= j, j <= Len(s)
    PROVE  SubSeq(s, 1, i) \o SubSeq(s, i + 1, j) = SubSeq(s, 1, j)
<1> DEFINE a == SubSeq(s, 1, i)
           b == SubSeq(s, i + 1, j)
           d == SubSeq(s, 1, j)
           c == a \o b
<1>0. Len(s) \in Nat /\ i <= Len(s) /\ 1 <= i + 1 /\ 1 <= j + 1 /\ i + 1 <= j + 1 /\ 1 \in Nat /\ i + 1 \in Nat
  OBVIOUS
<1>1. a \in Seq(ScmBytes) /\ Len(a) = i - 1 + 1 /\ \A k \in 1 .. i - 1 + 1 : a[k] = s[1 + k - 1]
  BY <1>0, SubSeqIs
<1>2. b \in Seq(ScmBytes) /\ Len(b) = j - (i + 1) + 1 /\ \A k \in 1 .. j - (i + 1) + 1 : b[k] = s[i + 1 + k - 1]
  BY <1>0, SubSeqIs
<1>3. d \in Seq(ScmBytes) /\ Len(d) = j - 1 + 1 /\ \A k \in 1 .. j - 1 + 1 : d[k] = s[1 + k - 1]
  BY <1>0, SubSeqIs
<1> HIDE DEF a, b, d
<1>4. c \in Seq(ScmBytes) /\ Len(c) = Len(a) + Len(b)
  BY <1>1, <1>2, ConcatProperties
<1>5. \A k \in 1 .. Len(a) + Len(b) : c[k] = IF k <= Len(a) THEN a[k] ELSE b[k - Len(a)]
  BY <1>1, <1>2, ConcatProperties
<1> HIDE DEF c
<1>6. Len(a) = i /\ Len(b) = j - i /\ Len(d) = j /\ Len(c) = j
  BY <1>1, <1>2, <1>3, <1>4
<1>7. ASSUME NEW k \in 1 .. j PROVE c[k] = d[k]
  <2>1. CASE k <= i
    <3>1. k \in 1 .. Len(a) + Len(b) /\ k \in 1 .. i - 1 + 1 /\ k \in 1 .. j - 1 + 1 /\ k <= Len(a)
      BY <1>6, <2>1
    <3>2. c[k] = a[k]
      BY <1>5, <3>1
    <3> QED
      BY <1>1, <1>3, <3>1, <3>2
  <2>2. CASE k > i
    <3>1. /\ k \in 1 .. Len(a) + Len(b) /\ k - Len(a) \in 1 .. j - (i + 1) + 1 /\ k \in 1 .. j - 1 + 1
          /\ ~(k <= Len(a)) /\ i + 1 + (k - Len(a)) - 1 = 1 + k - 1
      BY <1>6, <2>2
    <3>2. c[k] = b[k - Len(a)]
      BY <1>5, <3>1
    <3>3. b[k - Len(a)] = s[i + 1 + (k - Len(a)) - 1]
      BY <1>2, <3>1
    <3> QED
      BY <1>3, <3>1, <3>2, <3>3
  <2> QED
    BY <2>1, <2>2
<1>8. c = d
  BY <1>3, <1>4, <1>6, <1>7, SeqEqual
<1> QED
  BY <1>8 DEF a, b, c, d

(* FRAGMENT_SIZE times a number. *)
CutEnd(bytes, n) == IF n * FragmentSize < Len(bytes) THEN n * FragmentSize ELSE Len(bytes)
NumFragments(bytes) == (Len(bytes) + FragmentSize - 1) \div FragmentSize

(* The fragments of sendSCMMeasurement() end where the next begins. *)
LEMMA CutEnds ==
    ASSUME NEW b \in Seq(ScmBytes), b # <<>>
    PROVE  /\ NumFragments(b) \in Nat \ {0} /\ CutEnd(b, 0) = 0 /\ CutEnd(b, NumFragments(b)) = Len(b)
           /\ \A n \in 1 .. NumFragments(b) : /\ CutEnd(b, n) \in 0 .. Len(b)
                                              /\ CutEnd(b, n - 1) = (n - 1) * FragmentSize
                                              /\ CutEnd(b, n - 1) <= CutEnd(b, n)
                                              /\ CutEnd(b, n) = CutEnd(b, n - 1) + FragmentSize \/ n = NumFragments(b)
<1> DEFINE L == Len(b)
           F == FragmentSize
           k == NumFragments(b)
<1>1. L \in Nat \ {0} /\ F \in Nat \ {0}
  BY ScmAssumption, EmptySeq
<1> HIDE DEF L, F, k
<1>2. k \in Nat \ {0} /\ (k - 1) * F < L /\ L <= k * F
  <2>1. k = (L + F - 1) \div F
    BY DEF k, L, F, NumFragments
  <2>2. k \in Nat /\ k * F <= L + F - 1 /\ L + F - 1 < (k + 1) * F
    BY <1>1, <2>1
  <2>3. (k + 1) * F = k * F + F /\ (k - 1) * F = k * F - F
    BY <1>1, <2>2
  <2>4. k # 0
    BY <1>1, <2>2, <2>3
  <2> QED
    BY <1>1, <2>2, <2>3, <2>4
<1>3. \A x, y \in Nat : x <= y => x * F <= y * F
  BY <1>1
<1>4. \A n \in 1 .. k : (n - 1) * F < L /\ (n - 1) * F \in Nat /\ n * F = (n - 1) * F + F
  <2> TAKE n \in 1 .. k
  <2>1. n - 1 \in Nat /\ k - 1 \in Nat /\ n - 1 <= k - 1
    BY <1>2
  <2>2. (n - 1) * F <= (k - 1) * F
    BY <1>3, <2>1
  <2>3. (n - 1) * F \in Nat /\ (k - 1) * F \in Nat
    BY <1>1, <2>1
  <2>4. n * F = (n - 1) * F + F
    BY <1>1, <2>1
  <2> QED
    BY <1>1, <1>2, <2>2, <2>3, <2>4
<1>5. \A n : CutEnd(b, n) = IF n * F < L THEN n * F ELSE L
  BY DEF CutEnd, F, L
<1>6. CutEnd(b, 0) = 0 /\ CutEnd(b, k) = L
  <2>1. 0 * F = 0 /\ 0 < L
    BY <1>1
  <2>2. ~(k * F < L)
    <3>1. k * F \in Nat
      BY <1>1, <1>2
    <3> QED
      BY <1>1, <1>2, <3>1
  <2> QED
    BY <1>5, <2>1, <2>2
<1>7. ASSUME NEW n \in 1 .. k
      PROVE  /\ CutEnd(b, n) \in 0 .. L /\ CutEnd(b, n - 1) = (n - 1) * F /\ CutEnd(b, n - 1) <= CutEnd(b, n)
             /\ CutEnd(b, n) = CutEnd(b, n - 1) + F \/ n = k
  <2> DEFINE x == (n - 1) * F
             y == n * F
  <2>1. x < L /\ x \in Nat /\ y = x + F
    BY <1>4
  <2>2. CutEnd(b, n - 1) = (IF x < L THEN x ELSE L) /\ CutEnd(b, n) = IF y < L THEN y ELSE L
    BY <1>5
  <2>3. y < L \/ y = L \/ n = k
    <3>1. CASE n # k
      <4>1. n + 1 \in 1 .. k /\ n + 1 - 1 = n
        BY <1>2, <3>1
      <4> QED
        BY <1>4, <4>1
    <3> QED
      BY <3>1
  <2> HIDE DEF x, y
  <2>4. /\ CutEnd(b, n) \in 0 .. L /\ CutEnd(b, n - 1) = x /\ CutEnd(b, n - 1) <= CutEnd(b, n)
        /\ CutEnd(b, n) = CutEnd(b, n - 1) + F \/ n = k
    BY <1>1, <2>1, <2>2, <2>3
  <2> QED
    BY <2>4 DEF x
<1> QED
  BY <1>2, <1>6, <1>7 DEF L, F, k

(* A sequence of sequences that ends in the pieces of one is that one. *)
LEMMA FragmentsJoin ==
    ASSUME NEW b \in Seq(ScmBytes), b # <<>>
    PROVE  /\ FlattenSeq(Cut(b)) = b
           /\ \A n \in DOMAIN Cut(b) : Len(Cut(b)[n]) = FragmentSize \/ n = Len(Cut(b))
<1> DEFINE k == NumFragments(b)
           e(n) == CutEnd(b, n)
           q == Cut(b)
<1>0. /\ k \in Nat \ {0} /\ e(0) = 0 /\ e(k) = Len(b) /\ Len(b) \in Nat
      /\ \A n \in 1 .. k : /\ e(n) \in 0 .. Len(b) /\ e(n - 1) = (n - 1) * FragmentSize /\ e(n - 1) <= e(n)
                           /\ e(n) = e(n - 1) + FragmentSize \/ n = k
  BY CutEnds
<1>1. q = [n \in 1 .. k |-> SubSeq(b, e(n - 1) + 1, e(n))]
  <2>1. q = [n \in 1 .. k |-> SubSeq(b, (n - 1) * FragmentSize + 1, e(n))]
    BY DEF Cut, NumFragments, CutEnd
  <2>2. \A n \in 1 .. k : (n - 1) * FragmentSize = e(n - 1)
    BY <1>0
  <2> HIDE DEF q, k, e
  <2> QED
    BY <2>1, <2>2
<1> HIDE DEF k, e, q
<1>a. \A n \in 1 .. k : e(n - 1) \in Nat /\ e(n) \in Nat /\ e(n - 1) <= e(n) /\ e(n) <= Len(b)
  <2> TAKE n \in 1 .. k
  <2>1. n = 1 \/ n - 1 \in 1 .. k
    BY <1>0
  <2>2. e(n - 1) \in Nat
    <3>1. CASE n = 1
      <4>1. n - 1 = 0
        BY <3>1
      <4> QED
        BY <1>0, <4>1
    <3>2. CASE n - 1 \in 1 .. k
      BY <1>0, <3>2
    <3> QED
      BY <2>1, <3>1, <3>2
  <2> QED
    BY <1>0, <2>2
<1>2. Len(q) = k /\ DOMAIN q = 1 .. k
  BY <1>0, <1>1
<1>3. ASSUME NEW n \in 1 .. k PROVE Len(q[n]) = FragmentSize \/ n = k
  <2>1. q[n] = SubSeq(b, e(n - 1) + 1, e(n))
    BY <1>1
  <2>2. Len(q[n]) = e(n) - (e(n - 1) + 1) + 1
    <3>1. e(n - 1) + 1 \in Nat /\ e(n) \in Nat /\ 1 <= e(n - 1) + 1 /\ e(n - 1) + 1 <= e(n) + 1 /\ e(n) <= Len(b)
      BY <1>a
    <3> QED
      BY <2>1, <3>1, SubSeqIs
  <2>3. FragmentSize \in Nat
    BY ScmAssumption
  <2>4. e(n) = e(n - 1) + FragmentSize \/ n = k
    BY <1>0
  <2> QED
    BY <1>a, <2>2, <2>3, <2>4
<1> DEFINE r == [n \in 1 .. k |-> SubSeq(b, 1, e(n))]
           Step(f) == [n \in 1 .. k |-> IF n = 1 THEN q[n] ELSE f[n - 1] \o q[n]]
           s == CHOOSE f : f = Step(f)
<1>4. ASSUME NEW n \in 1 .. k PROVE r[n] = IF n = 1 THEN q[n] ELSE r[n - 1] \o q[n]
  <2>1. q[n] = SubSeq(b, e(n - 1) + 1, e(n)) /\ r[n] = SubSeq(b, 1, e(n))
    BY <1>1
  <2>2. CASE n = 1
    <3>1. n - 1 = 0 /\ e(0) + 1 = 1
      BY <1>0, <2>2
    <3>2. q[n] = SubSeq(b, 1, e(n))
      BY <2>1, <3>1
    <3> HIDE DEF r
    <3> QED
      BY <2>1, <2>2, <3>2
  <2>3. CASE n # 1
    <3>1. n - 1 \in 1 .. k
      BY <1>0, <2>3
    <3>2. r[n - 1] = SubSeq(b, 1, e(n - 1))
      BY <3>1
    <3>3. SubSeq(b, 1, e(n - 1)) \o SubSeq(b, e(n - 1) + 1, e(n)) = SubSeq(b, 1, e(n))
      BY <1>a, PiecesJoin
    <3> HIDE DEF r
    <3> QED
      BY <2>1, <2>3, <3>2, <3>3
  <2> QED
    BY <2>2, <2>3
<1>5. r = Step(r)
  <2>1. r = [n \in 1 .. k |-> r[n]]
    OBVIOUS
  <2> HIDE DEF r
  <2> QED
    BY <1>4, <2>1
<1>6. s = Step(s)
  <2> HIDE DEF Step, r
  <2> QED
    BY <1>5
<1>7. FlattenSeq(q) = s[k]
  <2>1. Len(q) # 0
    BY <1>0, <1>2
  <2>2. FlattenSeq(q) = (CHOOSE f : f = [n \in 1 .. Len(q) |-> IF n = 1 THEN q[n] ELSE f[n - 1] \o q[n]])[Len(q)]
    BY <2>1 DEF FlattenSeq
  <2> QED
    BY <1>2, <2>2
<1> HIDE DEF s, r
<1>8. \A n \in 1 .. k : s[n] = IF n = 1 THEN q[n] ELSE s[n - 1] \o q[n]
  BY <1>6, Zenon
<1> DEFINE T == {n \in Nat : n + 1 \in 1 .. k => s[n + 1] = r[n + 1]}
<1>9. 0 \in T
  <2>1. 1 \in 1 .. k /\ 0 + 1 = 1
    BY <1>0
  <2>2. s[1] = r[1]
    BY <1>4, <1>8, <2>1
  <2> QED
    BY <2>1, <2>2
<1>10. ASSUME NEW n \in Nat, n + 1 \in 1 .. k => s[n + 1] = r[n + 1], n + 2 \in 1 .. k PROVE s[n + 2] = r[n + 2]
  <2> DEFINE m == n + 2
  <2>1. m \in 1 .. k /\ m # 1 /\ m - 1 = n + 1 /\ n + 1 \in 1 .. k
    BY <1>0, <1>10
  <2> HIDE DEF m
  <2>2. s[m] = s[n + 1] \o q[m] /\ r[m] = r[n + 1] \o q[m]
    BY <1>4, <1>8, <2>1
  <2>3. s[m] = r[m]
    BY <1>10, <2>1, <2>2
  <2> QED
    BY <2>3 DEF m
<1>11. \A n \in T : n + 1 \in T
  <2> TAKE n \in T
  <2>1. n \in Nat /\ n + 1 + 1 = n + 2 /\ n + 1 \in Nat
    OBVIOUS
  <2>2. (n + 1) + 1 \in 1 .. k => s[(n + 1) + 1] = r[(n + 1) + 1]
    BY <1>10, <2>1
  <2> QED
    BY <2>1, <2>2
<1>12. T = Nat
  <2>1. T \subseteq Nat
    OBVIOUS
  <2> HIDE DEF T
  <2> QED
    BY <1>9, <1>11, <2>1, AllNumbers
<1>13. s[k] = r[k]
  <2>1. k - 1 \in Nat /\ k - 1 + 1 = k /\ k \in 1 .. k
    BY <1>0
  <2>2. k - 1 \in T
    BY <1>12, <2>1
  <2> QED
    BY <2>1, <2>2
<1>14. r[k] = b
  <2>1. k \in 1 .. k
    BY <1>0
  <2>2. r[k] = SubSeq(b, 1, Len(b))
    BY <1>0, <2>1 DEF r
  <2> QED
    BY <2>2
<1> QED
  BY <1>2, <1>3, <1>7, <1>13, <1>14 DEF q

---------------------------------------------------------------------------
(* The bytes of a packet. *)
LEMMA MeasurementIs ==
    ASSUME NEW hs \in Measurements, NEW i \in 1 .. NumScintillators
    PROVE  hs[i] \in Histograms /\ Len(hs[i]) = HistogramSize /\ i - 1 \in VaruintValues /\ i \in Nat /\ {0, 1} \subseteq VaruintValues
<1>1. HistogramSize \in VaruintValues /\ NumScintillators \in VaruintValues /\ Measurements \subseteq [1 .. NumScintillators -> [1 .. HistogramSize -> VaruintValues]]
  BY ScmAssumption
<1>2. HistogramSize \in Nat /\ NumScintillators \in Nat
  BY ScmAssumption
<1>3. hs[i] \in [1 .. HistogramSize -> VaruintValues]
  BY <1>1
<1>4. hs[i] \in Seq(VaruintValues) /\ Len(hs[i]) = HistogramSize
  BY <1>2, <1>3
<1>5. i - 1 \in Nat /\ i - 1 <= NumScintillators /\ i \in Nat
  BY <1>2
<1> QED
  BY <1>1, <1>4, <1>5, SmallIs DEF Histograms

LEMMA EncodedBytes ==
    ASSUME NEW v \in VaruintValues, NEW o \in 0 .. 2
    PROVE  Encoded(v, o) \in Seq(ScmBytes) /\ Len(Encoded(v, o)) = SizeOf(v, o) /\ SizeOf(v, o) \in 1 .. 7
BY EncodedIs, ZenonT(40)

LEMMA PackedBytes ==
    ASSUME NEW h \in Histograms
    PROVE  Packed(h) \in Seq(ScmBytes) /\ (Len(h) > 0 => Packed(h) # <<>>)
<1>1. Len(h) \in Nat /\ 1 \in 1 .. Len(h) + 1
  BY HistogramIs
<1>2. Packed(h) = PackedFrom(h)[1] /\ PackedFrom(h)[1] \in Seq(ScmBytes)
  BY <1>1, PackedUnfolds
<1>3. ASSUME Len(h) > 0 PROVE Packed(h) # <<>>
  <2>1. 1 \in 1 .. Len(h)
    BY <1>1, <1>3
  <2> DEFINE a == CodeBytes(h, 1)
             b == PackedFrom(h)[AfterCode(h, 1)]
  <2>2. Packed(h) = a \o b
    BY <1>2, <2>1, PackedUnfolds
  <2>3. a \in Seq(ScmBytes) /\ Len(a) \in 1 .. 7
    <3>1. RunCode(h, 1)[1] \in VaruintValues /\ RunCode(h, 1)[2] \in 0 .. 2
      BY <2>1, RunCodeIs
    <3> QED
      BY <3>1, EncodedBytes DEF CodeBytes
  <2>4. b \in Seq(ScmBytes)
    <3>1. AfterCode(h, 1) \in 1 .. Len(h) + 1
      BY <1>1, <2>1, AfterCodeIs
    <3> QED
      BY <3>1, PackedUnfolds
  <2> HIDE DEF a, b
  <2>5. Len(a \o b) = Len(a) + Len(b)
    BY <2>3, <2>4, ConcatProperties
  <2>6. Len(b) \in Nat /\ Len(a) \in Nat /\ Len(a) # 0
    BY <2>3, <2>4
  <2>7. Len(a \o b) # 0
    BY <2>5, <2>6
  <2> QED
    BY <2>2, <2>7
<1> QED
  BY <1>2, <1>3

LEMMA PacketUnfolds ==
    ASSUME NEW hs \in Measurements
    PROVE  /\ PacketBytes(hs) = Encoded(0, 1) \o PacketFrom(hs)[1]
           /\ \A i \in 1 .. NumScintillators + 1 : PacketFrom(hs)[i] \in Seq(ScmBytes)
           /\ PacketFrom(hs)[NumScintillators + 1] = <<>>
           /\ \A i \in 1 .. NumScintillators :
                PacketFrom(hs)[i] = Encoded(i - 1, 2) \o (Packed(hs[i]) \o PacketFrom(hs)[i + 1])
<1> DEFINE N == NumScintillators
           X == Seq(ScmBytes)
           head(i) == Encoded(i - 1, 2) \o Packed(hs[i])
           Step(f) == [i \in 1 .. N + 1 |-> IF i > N THEN <<>> ELSE head(i) \o f[i + 1]]
           nx == [i \in 1 .. N |-> i + 1]
           G == [i \in 1 .. N |-> [x \in X |-> head(i) \o x]]
           base == <<>>
<1>0. N \in Nat
  BY ScmAssumption
<1>1. ASSUME NEW i \in 1 .. N PROVE Encoded(i - 1, 2) \in X /\ Packed(hs[i]) \in X /\ head(i) \in X
  <2>1. hs[i] \in Histograms /\ i - 1 \in VaruintValues
    BY MeasurementIs
  <2>2. 2 \in 0 .. 2
    OBVIOUS
  <2>3. Encoded(i - 1, 2) \in X
    BY <2>1, <2>2, EncodedBytes
  <2>4. Packed(hs[i]) \in X
    BY <2>1, PackedBytes
  <2> QED
    BY <2>3, <2>4
<1>2. PICK f : LooksLater(f, N, X, base, nx, G)
  <2>1. base \in X /\ \A i \in 1 .. N : nx[i] \in i + 1 .. N + 1
    BY <1>0
  <2>2. ASSUME NEW i \in 1 .. N, NEW x \in X PROVE G[i][x] \in X
    <3>1. head(i) \in X
      BY <1>1
    <3>2. head(i) \o x \in X
      <4> HIDE DEF head
      <4> QED
        BY <3>1
    <3> HIDE DEF X, head
    <3> QED
      BY <3>2
  <2>3. \A i \in 1 .. N : \A x \in X : G[i][x] \in X
    BY <2>2
  <2> HIDE DEF N, X, nx, G, base
  <2> QED
    BY <1>0, <2>1, <2>3, UpwardRecursion
<1>3. /\ f \in [1 .. N + 1 -> X]
      /\ \A i \in 1 .. N + 1 : f[i] = IF i > N THEN base ELSE G[i][f[nx[i]]]
  BY <1>2 DEF LooksLater
<1>4. ASSUME NEW i \in 1 .. N PROVE G[i][f[nx[i]]] = head(i) \o f[i + 1]
  <2>1. nx[i] = i + 1 /\ i + 1 \in 1 .. N + 1
    BY <1>0
  <2>2. f[nx[i]] \in X
    BY <1>3, <2>1
  <2> HIDE DEF X, N, nx, head
  <2> QED
    BY <2>1, <2>2
<1>5. f = Step(f)
  <2>1. f = [i \in 1 .. N + 1 |-> f[i]]
    BY <1>3
  <2>2. \A i \in 1 .. N + 1 : f[i] = IF i > N THEN <<>> ELSE head(i) \o f[i + 1]
    <3> TAKE i \in 1 .. N + 1
    <3>1. ~(i > N) => i \in 1 .. N
      BY <1>0
    <3> HIDE DEF G, nx, X, N, head
    <3> QED
      BY <1>3, <1>4, <3>1
  <2> HIDE DEF G, nx, X, head
  <2> QED
    BY <2>1, <2>2
<1> DEFINE p == PacketFrom(hs)
<1>6. p = Step(p)
  <2>1. p = CHOOSE g : g = Step(g)
    BY DEF PacketFrom
  <2> HIDE DEF p, Step
  <2> QED
    BY <1>5, <2>1
<1>7. PacketBytes(hs) = Encoded(0, 1) \o p[1]
  BY DEF PacketBytes, PacketFrom
<1> HIDE DEF p
<1> HIDE DEF head
<1>8. \A i \in 1 .. N + 1 : p[i] = IF i > N THEN <<>> ELSE head(i) \o p[i + 1]
  BY <1>6, Zenon
<1>9. N + 1 \in 1 .. N + 1 /\ N + 1 > N /\ \A i \in 1 .. N : i \in 1 .. N + 1 /\ ~(i > N)
  BY <1>0
<1>10. p[N + 1] = <<>> /\ \A i \in 1 .. N : p[i] = head(i) \o p[i + 1]
  <2> HIDE DEF N
  <2> QED
    BY <1>8, <1>9
<1>11. \A i \in 1 .. N + 1 : p[i] \in X
  <2> DEFINE S == {i \in 1 .. N + 1 : p[i] \in X}
  <2>1. N + 1 \in S
    <3>1. N + 1 \in 1 .. N + 1 /\ p[N + 1] \in X
      BY <1>0, <1>10
    <3> HIDE DEF N, X
    <3> QED
      BY <3>1
  <2>2. ASSUME NEW i \in 1 .. N, nx[i] \in S PROVE i \in S
    <3>1. head(i) \in X /\ p[i + 1] \in X
      BY <1>1, <2>2
    <3>2. head(i) \o p[i + 1] \in X
      BY <3>1
    <3>3. p[i] = head(i) \o p[i + 1] /\ i \in 1 .. N + 1
      <4>1. i \in 1 .. N /\ i \in 1 .. N + 1
        BY <1>0
      <4> HIDE DEF N
      <4> QED
        BY <1>10, <4>1, Zenon
    <3> HIDE DEF N, X
    <3>4. p[i] \in X
      BY <3>2, <3>3, Zenon
    <3> QED
      BY <3>3, <3>4, Zenon
  <2>3. \A i \in 1 .. N : nx[i] \in i + 1 .. N + 1
    BY <1>0
  <2> HIDE DEF S, nx, N
  <2>4. \A i \in 1 .. N + 1 : i \in S
    BY <1>0, <2>1, <2>2, <2>3, FromTheEnd
  <2> QED
    BY <2>4 DEF S
<1>12. ASSUME NEW i \in 1 .. N PROVE p[i] = Encoded(i - 1, 2) \o (Packed(hs[i]) \o p[i + 1])
  <2>1. i + 1 \in 1 .. N + 1
    BY <1>0
  <2>2. Encoded(i - 1, 2) \in Seq(ScmBytes) /\ Packed(hs[i]) \in Seq(ScmBytes) /\ p[i + 1] \in Seq(ScmBytes)
    BY <1>1, <1>11, <2>1
  <2>3. p[i] = (Encoded(i - 1, 2) \o Packed(hs[i])) \o p[i + 1]
    BY <1>10 DEF head
  <2>4. \A x, y, z \in Seq(ScmBytes) : (x \o y) \o z = x \o (y \o z)
    BY BytesAssociate
  <2> QED
    BY <2>2, <2>3, <2>4, Zenon
<1> QED
  BY <1>7, <1>10, <1>11, <1>12 DEF p

(* What is left of an integer and what comes after it. *)
Suffix(e, k) == SubSeq(e, k + 1, Len(e))

LEMMA SuffixSteps ==
    ASSUME NEW e \in Seq(ScmBytes), NEW k \in Nat, k < Len(e), NEW rest \in Seq(ScmBytes)
    PROVE  /\ Suffix(e, k) \o rest \in Seq(ScmBytes) /\ Suffix(e, k) \o rest # <<>>
           /\ Head(Suffix(e, k) \o rest) = e[k + 1]
           /\ Tail(Suffix(e, k) \o rest) = Suffix(e, k + 1) \o rest
           /\ Suffix(e, 0) = e /\ Suffix(e, Len(e)) \o rest = rest
<1> DEFINE a == Suffix(e, k)
           b == Suffix(e, k + 1)
           s == a \o rest
           t == b \o rest
           L == Len(e)
<1>0. L \in Nat /\ k < L
  OBVIOUS
<1>1. a \in Seq(ScmBytes) /\ Len(a) = L - k /\ \A i \in 1 .. L - k : a[i] = e[k + 1 + i - 1]
  <2> DEFINE m == k + 1
  <2>1. m \in Nat /\ L \in Nat /\ 1 <= m /\ m <= L + 1 /\ L <= Len(e) /\ L - m + 1 = L - k
    BY <1>0
  <2> HIDE DEF m, L
  <2>2. /\ SubSeq(e, m, L) \in Seq(ScmBytes) /\ Len(SubSeq(e, m, L)) = L - m + 1
        /\ \A i \in 1 .. L - m + 1 : SubSeq(e, m, L)[i] = e[m + i - 1]
    BY <2>1, SubSeqIs
  <2>3. a = SubSeq(e, m, L)
    BY DEF Suffix, m, L
  <2> HIDE DEF a
  <2>4. /\ a \in Seq(ScmBytes) /\ Len(a) = L - k
        /\ \A i \in 1 .. L - k : a[i] = e[m + i - 1]
    BY <2>1, <2>2, <2>3
  <2> QED
    BY <2>4 DEF m
<1>2. b \in Seq(ScmBytes) /\ Len(b) = L - k - 1 /\ \A i \in 1 .. L - k - 1 : b[i] = e[k + 1 + 1 + i - 1]
  <2> DEFINE m == k + 1 + 1
  <2>1. m \in Nat /\ L \in Nat /\ 1 <= m /\ m <= L + 1 /\ L <= Len(e) /\ L - m + 1 = L - k - 1
    BY <1>0
  <2> HIDE DEF m, L
  <2>2. /\ SubSeq(e, m, L) \in Seq(ScmBytes) /\ Len(SubSeq(e, m, L)) = L - m + 1
        /\ \A i \in 1 .. L - m + 1 : SubSeq(e, m, L)[i] = e[m + i - 1]
    BY <2>1, SubSeqIs
  <2>3. b = SubSeq(e, m, L)
    BY DEF Suffix, m, L
  <2> HIDE DEF b
  <2>4. /\ b \in Seq(ScmBytes) /\ Len(b) = L - k - 1
        /\ \A i \in 1 .. L - k - 1 : b[i] = e[m + i - 1]
    BY <2>1, <2>2, <2>3
  <2> QED
    BY <2>4 DEF m
<1>3. Suffix(e, 0) = e
  BY DEF Suffix
<1>4. Suffix(e, L) \o rest = rest
  <2>1. Suffix(e, L) = <<>>
    BY <1>0 DEF Suffix
  <2> HIDE DEF L
  <2> QED
    BY <2>1, ConcatEmptySeq
<1> HIDE DEF a, b, L
<1>5. /\ s \in Seq(ScmBytes) /\ Len(s) = Len(a) + Len(rest)
      /\ \A i \in 1 .. Len(a) + Len(rest) : s[i] = IF i <= Len(a) THEN a[i] ELSE rest[i - Len(a)]
  BY <1>1, ConcatProperties
<1>6. /\ t \in Seq(ScmBytes) /\ Len(t) = Len(b) + Len(rest)
      /\ \A i \in 1 .. Len(b) + Len(rest) : t[i] = IF i <= Len(b) THEN b[i] ELSE rest[i - Len(b)]
  BY <1>2, ConcatProperties
<1> HIDE DEF s, t
<1>7. Len(rest) \in Nat /\ Len(s) = L - k + Len(rest) /\ Len(t) = L - k - 1 + Len(rest) /\ Len(s) >= 1
  BY <1>0, <1>1, <1>2, <1>5, <1>6, SMTT(30)
<1>8. s # <<>>
  BY <1>7
<1>9. s[1] = e[k + 1]
  <2>1. 1 \in 1 .. Len(a) + Len(rest) /\ 1 <= Len(a) /\ 1 \in 1 .. L - k /\ k + 1 + 1 - 1 = k + 1
    BY <1>0, <1>1, <1>7, SMTT(30)
  <2> QED
    BY <1>1, <1>5, <2>1
<1>10. Tail(s) = t
  <2> DEFINE u == Tail(s)
  <2>1. u \in Seq(ScmBytes) /\ Len(u) = Len(s) - 1 /\ \A i \in 1 .. Len(u) : u[i] = s[i + 1]
    BY <1>5, <1>8, HeadTailProperties
  <2> HIDE DEF u
  <2>2. Len(u) = Len(t)
    BY <1>0, <1>7, <2>1
  <2>3. ASSUME NEW i \in 1 .. Len(u) PROVE u[i] = t[i]
    <3>1. u[i] = s[i + 1]
      BY <2>1
    <3>2. i + 1 \in 1 .. Len(a) + Len(rest) /\ i \in 1 .. Len(b) + Len(rest)
      BY <1>0, <1>1, <1>2, <1>7, <2>1, <2>2
    <3>3. CASE i <= Len(b)
      <4>1. i + 1 <= Len(a) /\ i + 1 \in 1 .. L - k /\ i \in 1 .. L - k - 1 /\ k + 1 + (i + 1) - 1 = k + 1 + 1 + i - 1
        BY <1>0, <1>1, <1>2, <3>3
      <4>2. s[i + 1] = a[i + 1] /\ t[i] = b[i]
        BY <1>5, <1>6, <3>2, <3>3, <4>1
      <4>3. a[i + 1] = e[k + 1 + (i + 1) - 1] /\ b[i] = e[k + 1 + 1 + i - 1]
        BY <1>1, <1>2, <4>1
      <4>4. e[k + 1 + (i + 1) - 1] = e[k + 1 + 1 + i - 1]
        BY <4>1, Zenon
      <4> QED
        BY <3>1, <4>2, <4>3, <4>4, Zenon
    <3>4. CASE ~(i <= Len(b))
      <4>1. ~(i + 1 <= Len(a)) /\ i + 1 - Len(a) = i - Len(b)
        BY <1>0, <1>1, <1>2, <3>4
      <4>2. s[i + 1] = rest[i + 1 - Len(a)] /\ t[i] = rest[i - Len(b)]
        BY <1>5, <1>6, <3>2, <3>4, <4>1, SMTT(30)
      <4> QED
        BY <3>1, <4>1, <4>2
    <3> QED
      BY <3>3, <3>4
  <2>4. u = t
    BY <1>6, <2>1, <2>2, <2>3, SeqEqual
  <2> QED
    BY <2>4 DEF u
<1>11. Head(s) = e[k + 1]
  BY <1>9
<1> QED
  BY <1>3, <1>4, <1>5, <1>8, <1>10, <1>11 DEF s, t, a, b, L

---------------------------------------------------------------------------
(* The integers of a packet: its start, at place 0 of histogram 0, the     *)
(* marker of each histogram, at its place 0, and the codes of its cells.   *)
ScmPlaces == {<<0, 0>>} \cup (1 .. NumScintillators) \X (0 .. HistogramSize)

IntegerAt(hs, i, c) == IF i = 0 THEN <<0, 1>> ELSE IF c = 0 THEN <<i - 1, 2>> ELSE RunCode(hs[i], c)
BytesAt(hs, i, c) == Encoded(IntegerAt(hs, i, c)[1], IntegerAt(hs, i, c)[2])
RestAfter(hs, i, c) ==
    IF i = 0 THEN PacketFrom(hs)[1]
    ELSE IF c = 0 THEN Packed(hs[i]) \o PacketFrom(hs)[i + 1]
    ELSE PackedFrom(hs[i])[AfterCode(hs[i], c)] \o PacketFrom(hs)[i + 1]

NextPlace(hs, i, c) ==
    IF i = 0 THEN <<1, 0>> ELSE IF c = 0 THEN <<i, 1>>
    ELSE IF AfterCode(hs[i], c) <= HistogramSize THEN <<i, AfterCode(hs[i], c)>> ELSE <<i + 1, 0>>

LEMMA ScmNumbers ==
    /\ NumScintillators \in Nat \ {0} /\ HistogramSize \in Nat \ {0}
    /\ FragmentSize \in Nat \ {0} /\ MaxPackets \in Nat \ {0}
BY ScmAssumption

LEMMA PlaceIs ==
    ASSUME NEW i, NEW c, <<i, c>> \in ScmPlaces
    PROVE  (i = 0 /\ c = 0) \/ (i \in 1 .. NumScintillators /\ c \in 0 .. HistogramSize)
BY DEF ScmPlaces

(* The integer at a place of a packet, its bytes and those after it. *)
LEMMA IntegerIs ==
    ASSUME NEW hs \in Measurements, NEW i, NEW c, <<i, c>> \in ScmPlaces
    PROVE  /\ IntegerAt(hs, i, c)[1] \in VaruintValues /\ IntegerAt(hs, i, c)[2] \in 0 .. 2
           /\ BytesAt(hs, i, c) \in Seq(ScmBytes) /\ Len(BytesAt(hs, i, c)) \in 1 .. 7
           /\ RestAfter(hs, i, c) \in Seq(ScmBytes)
<1>0. {0, 1} \subseteq VaruintValues /\ NumScintillators \in Nat /\ HistogramSize \in Nat
  BY SmallIs, ScmNumbers
<1>1. IntegerAt(hs, i, c)[1] \in VaruintValues /\ IntegerAt(hs, i, c)[2] \in 0 .. 2 /\ RestAfter(hs, i, c) \in Seq(ScmBytes)
  <2>1. CASE i = 0 /\ c = 0
    <3>1. IntegerAt(hs, i, c) = <<0, 1>> /\ RestAfter(hs, i, c) = PacketFrom(hs)[1]
      BY <2>1 DEF IntegerAt, RestAfter
    <3>2. 1 \in 1 .. NumScintillators + 1
      BY <1>0
    <3>3. PacketFrom(hs)[1] \in Seq(ScmBytes)
      BY <3>2, PacketUnfolds
    <3> QED
      BY <1>0, <3>1, <3>3
  <2>2. CASE i \in 1 .. NumScintillators /\ c \in 0 .. HistogramSize
    <3>1. hs[i] \in Histograms /\ Len(hs[i]) = HistogramSize /\ i - 1 \in VaruintValues /\ i # 0 /\ i + 1 \in 1 .. NumScintillators + 1
      BY <1>0, <2>2, MeasurementIs
    <3>2. PacketFrom(hs)[i + 1] \in Seq(ScmBytes)
      BY <3>1, PacketUnfolds
    <3>3. CASE c = 0
      <4>1. IntegerAt(hs, i, c) = <<i - 1, 2>> /\ RestAfter(hs, i, c) = Packed(hs[i]) \o PacketFrom(hs)[i + 1]
        BY <3>1, <3>3 DEF IntegerAt, RestAfter
      <4>2. Packed(hs[i]) \in Seq(ScmBytes)
        BY <3>1, PackedBytes
      <4>3. Packed(hs[i]) \o PacketFrom(hs)[i + 1] \in Seq(ScmBytes)
        BY <3>2, <4>2, ConcatProperties
      <4> QED
        BY <3>1, <4>1, <4>3
    <3>4. CASE c # 0
      <4>1. c \in 1 .. Len(hs[i])
        BY <2>2, <3>1, <3>4
      <4>2. /\ IntegerAt(hs, i, c) = RunCode(hs[i], c)
            /\ RestAfter(hs, i, c) = PackedFrom(hs[i])[AfterCode(hs[i], c)] \o PacketFrom(hs)[i + 1]
        BY <3>1, <3>4 DEF IntegerAt, RestAfter
      <4>3. RunCode(hs[i], c)[1] \in VaruintValues /\ RunCode(hs[i], c)[2] \in 0 .. 2
        BY <3>1, <4>1, RunCodeIs
      <4>4. AfterCode(hs[i], c) \in 1 .. Len(hs[i]) + 1
        <5>1. AfterCode(hs[i], c) \in c + 1 .. Len(hs[i]) + 1
          BY <3>1, <4>1, AfterCodeIs
        <5> QED
          BY <1>0, <3>1, <4>1, <5>1
      <4>5. PackedFrom(hs[i])[AfterCode(hs[i], c)] \in Seq(ScmBytes)
        BY <3>1, <4>4, PackedUnfolds
      <4>6. PackedFrom(hs[i])[AfterCode(hs[i], c)] \o PacketFrom(hs)[i + 1] \in Seq(ScmBytes)
        BY <3>2, <4>5, ConcatProperties
      <4> QED
        BY <4>2, <4>3, <4>6
    <3> QED
      BY <3>3, <3>4
  <2> QED
    BY <2>1, <2>2, PlaceIs
<1>2. BytesAt(hs, i, c) \in Seq(ScmBytes) /\ Len(BytesAt(hs, i, c)) \in 1 .. 7
  <2> DEFINE v == IntegerAt(hs, i, c)[1]
             o == IntegerAt(hs, i, c)[2]
  <2>1. v \in VaruintValues /\ o \in 0 .. 2
    BY <1>1
  <2> HIDE DEF v, o
  <2>2. Encoded(v, o) \in Seq(ScmBytes) /\ Len(Encoded(v, o)) \in 1 .. 7
    BY <2>1, EncodedBytes
  <2> QED
    BY <2>2 DEF BytesAt, v, o
<1> QED
  BY <1>1, <1>2

(* The bytes from a cell on are its code and those after it. *)
LEMMA CellBytes ==
    ASSUME NEW hs \in Measurements, NEW i \in 1 .. NumScintillators, NEW c \in 1 .. HistogramSize
    PROVE  PackedFrom(hs[i])[c] \o PacketFrom(hs)[i + 1] = BytesAt(hs, i, c) \o RestAfter(hs, i, c)
<1> DEFINE h == hs[i]
           q == PacketFrom(hs)[i + 1]
           a == CodeBytes(h, c)
           b == PackedFrom(h)[AfterCode(h, c)]
<1>0. NumScintillators \in Nat /\ HistogramSize \in Nat
  BY ScmNumbers
<1>1. h \in Histograms /\ Len(h) = HistogramSize /\ c \in 1 .. Len(h)
  BY MeasurementIs
<1>2. q \in Seq(ScmBytes)
  <2>1. i + 1 \in 1 .. NumScintillators + 1
    BY <1>0
  <2> QED
    BY <2>1, PacketUnfolds
<1> HIDE DEF h
<1>3. a \in Seq(ScmBytes)
  BY <1>1, CodeBytesAre
<1>4. b \in Seq(ScmBytes) /\ PackedFrom(h)[c] = a \o b
  <2>1. AfterCode(h, c) \in c + 1 .. Len(h) + 1
    BY <1>1, AfterCodeIs
  <2>2. AfterCode(h, c) \in 1 .. Len(h) + 1
    BY <1>0, <1>1, <2>1
  <2> QED
    BY <1>1, <2>2, PackedUnfolds
<1>5. BytesAt(hs, i, c) = a /\ RestAfter(hs, i, c) = b \o q
  <2>1. i # 0 /\ c # 0
    BY <1>0
  <2> QED
    BY <2>1 DEF BytesAt, IntegerAt, RestAfter, CodeBytes, h
<1> HIDE DEF a, b, q
<1>7. (a \o b) \o q = a \o (b \o q)
  <2> DEFINE X == Seq(ScmBytes)
  <2>1. \A x, y, z \in X : (x \o y) \o z = x \o (y \o z)
    BY BytesAssociate
  <2>2. a \in X /\ b \in X /\ q \in X
    BY <1>2, <1>3, <1>4
  <2> HIDE DEF X
  <2> QED
    BY <2>1, <2>2, Zenon
<1> QED
  BY <1>4, <1>5, <1>7 DEF h, q

(* Behind an integer comes the one of the next place, or the end of the    *)
(* packet.                                                                 *)
LEMMA NextBytes ==
    ASSUME NEW hs \in Measurements, NEW i, NEW c, <<i, c>> \in ScmPlaces,
           NEW j, NEW d, NextPlace(hs, i, c) = <<j, d>>
    PROVE  \/ <<j, d>> \in ScmPlaces /\ RestAfter(hs, i, c) = BytesAt(hs, j, d) \o RestAfter(hs, j, d)
           \/ i = NumScintillators /\ j = i + 1 /\ d = 0 /\ c \in 1 .. HistogramSize /\ RestAfter(hs, i, c) = <<>>
<1>0. NumScintillators \in Nat /\ HistogramSize \in Nat /\ 1 \in 1 .. HistogramSize /\ 1 \in 1 .. NumScintillators
  BY ScmNumbers
<1>m. \A n \in 1 .. NumScintillators : PacketFrom(hs)[n] = BytesAt(hs, n, 0) \o RestAfter(hs, n, 0)
  <2> TAKE n \in 1 .. NumScintillators
  <2>1. n # 0
    BY <1>0
  <2>2. PacketFrom(hs)[n] = Encoded(n - 1, 2) \o (Packed(hs[n]) \o PacketFrom(hs)[n + 1])
    BY PacketUnfolds
  <2>3. BytesAt(hs, n, 0) = Encoded(n - 1, 2)
    BY <2>1 DEF BytesAt, IntegerAt
  <2>4. RestAfter(hs, n, 0) = Packed(hs[n]) \o PacketFrom(hs)[n + 1]
    BY <2>1 DEF RestAfter
  <2> QED
    BY <2>2, <2>3, <2>4
<1>1. CASE i = 0 /\ c = 0
  <2>1. j = 1 /\ d = 0 /\ RestAfter(hs, i, c) = PacketFrom(hs)[1]
    BY <1>1 DEF NextPlace, RestAfter
  <2>2. <<1, 0>> \in ScmPlaces
    BY <1>0 DEF ScmPlaces
  <2> QED
    BY <1>0, <1>m, <2>1, <2>2
<1>2. CASE i \in 1 .. NumScintillators /\ c = 0
  <2>1. i # 0
    BY <1>0, <1>2
  <2>2. j = i /\ d = 1 /\ RestAfter(hs, i, c) = Packed(hs[i]) \o PacketFrom(hs)[i + 1]
    BY <1>2, <2>1 DEF NextPlace, RestAfter
  <2>3. <<i, 1>> \in ScmPlaces
    BY <1>0, <1>2 DEF ScmPlaces
  <2>4. Packed(hs[i]) = PackedFrom(hs[i])[1]
    BY DEF Packed
  <2>5. PackedFrom(hs[i])[1] \o PacketFrom(hs)[i + 1] = BytesAt(hs, i, 1) \o RestAfter(hs, i, 1)
    BY <1>0, <1>2, CellBytes
  <2> QED
    BY <2>2, <2>3, <2>4, <2>5
<1>3. CASE i \in 1 .. NumScintillators /\ c \in 1 .. HistogramSize
  <2> DEFINE n == AfterCode(hs[i], c)
  <2>1. i # 0 /\ c # 0
    BY <1>0, <1>3
  <2>2. RestAfter(hs, i, c) = PackedFrom(hs[i])[n] \o PacketFrom(hs)[i + 1]
    BY <2>1 DEF RestAfter
  <2>3. hs[i] \in Histograms /\ Len(hs[i]) = HistogramSize
    BY <1>3, MeasurementIs
  <2>4. n \in c + 1 .. HistogramSize + 1
    <3>1. c \in 1 .. Len(hs[i])
      BY <1>3, <2>3
    <3>2. n \in c + 1 .. Len(hs[i]) + 1
      BY <2>3, <3>1, AfterCodeIs
    <3> QED
      BY <2>3, <3>2
  <2>n. NextPlace(hs, i, c) = IF n <= HistogramSize THEN <<i, n>> ELSE <<i + 1, 0>>
    BY <2>1 DEF NextPlace
  <2> HIDE DEF n
  <2>5. CASE n <= HistogramSize
    <3>1. n \in 1 .. HistogramSize /\ j = i /\ d = n
      BY <1>0, <1>3, <2>4, <2>5, <2>n
    <3>2. <<i, n>> \in ScmPlaces
      BY <1>0, <1>3, <3>1 DEF ScmPlaces
    <3>3. PackedFrom(hs[i])[n] \o PacketFrom(hs)[i + 1] = BytesAt(hs, i, n) \o RestAfter(hs, i, n)
      BY <1>3, <3>1, CellBytes
    <3> QED
      BY <2>2, <3>1, <3>2, <3>3
  <2>6. CASE ~(n <= HistogramSize)
    <3>1. n = HistogramSize + 1 /\ j = i + 1 /\ d = 0
      BY <1>0, <1>3, <2>4, <2>6, <2>n
    <3>2. PackedFrom(hs[i])[n] = <<>>
      BY <2>3, <3>1, PackedUnfolds
    <3>3. PacketFrom(hs)[i + 1] \in Seq(ScmBytes)
      <4>1. i + 1 \in 1 .. NumScintillators + 1
        BY <1>0, <1>3
      <4> QED
        BY <4>1, PacketUnfolds
    <3>4. RestAfter(hs, i, c) = PacketFrom(hs)[i + 1]
      BY <2>2, <3>2, <3>3, ConcatEmptySeq
    <3>5. CASE i = NumScintillators
      <4>1. PacketFrom(hs)[i + 1] = <<>>
        BY <3>5, PacketUnfolds
      <4> QED
        BY <1>3, <3>1, <3>4, <3>5, <4>1
    <3>6. CASE i # NumScintillators
      <4>1. i + 1 \in 1 .. NumScintillators
        BY <1>0, <1>3, <3>6
      <4>2. <<i + 1, 0>> \in ScmPlaces
        BY <1>0, <4>1 DEF ScmPlaces
      <4> QED
        BY <1>m, <3>1, <3>4, <4>1, <4>2
    <3> QED
      BY <3>5, <3>6
  <2> QED
    BY <2>5, <2>6
<1>4. \/ i = 0 /\ c = 0
      \/ i \in 1 .. NumScintillators /\ c = 0
      \/ i \in 1 .. NumScintillators /\ c \in 1 .. HistogramSize
  <2>1. (i = 0 /\ c = 0) \/ (i \in 1 .. NumScintillators /\ c \in 0 .. HistogramSize)
    BY PlaceIs
  <2> QED
    BY <1>0, <2>1
<1> QED
  BY <1>1, <1>2, <1>3, <1>4

---------------------------------------------------------------------------
(* The decoder after k bytes of an integer. *)
DecoderAfter(e, k, v) == [bytes_left |-> Len(e) - k, bytes_read |-> k, value |-> Shifted(v, Len(e) - k)]

(* A byte of an integer takes the decoder a byte further, and the last one *)
(* ends it.                                                                *)
LEMMA ByteFed ==
    ASSUME NEW v \in VaruintValues, NEW o \in 0 .. 2, NEW k \in Nat, k < Len(Encoded(v, o)),
           NEW d, k > 0 => d = DecoderAfter(Encoded(v, o), k, v)
    PROVE  /\ DecoderFed(d, Encoded(v, o)[k + 1]) = DecoderAfter(Encoded(v, o), k + 1, v)
           /\ DecoderEnds(d, Encoded(v, o)[k + 1]) <=> k + 1 = Len(Encoded(v, o))
<1> DEFINE size == SizeOf(v, o)
           b == Encoded(v, o)[k + 1]
<1>1. /\ size \in 1 .. 7 /\ Len(Encoded(v, o)) = size
      /\ Encoded(v, o)[1] = [size |-> size, bits |-> Shifted(v, size - 1)]
      /\ \A i \in 2 .. size : Encoded(v, o)[i] = [size |-> 0, bits |-> Shifted(v, size - i) % 128]
  <2> HIDE DEF size
  <2>1. size = SizeOf(v, o)
    BY DEF size
  <2> QED
    BY <2>1, EncodedIs
<1> HIDE DEF size
<1>2. DecoderAfter(Encoded(v, o), k + 1, v) =
          [bytes_left |-> size - (k + 1), bytes_read |-> k + 1, value |-> Shifted(v, size - (k + 1))]
  BY <1>1 DEF DecoderAfter
<1>3. k < size
  BY <1>1
<1>4. DecoderFed(d, b) = DecoderAfter(Encoded(v, o), k + 1, v) /\ (b.size > 0 \/ d.bytes_left > 0)
  <2>1. CASE k = 0
    <3>1. b = [size |-> size, bits |-> Shifted(v, size - 1)]
      BY <1>1, <2>1
    <3> HIDE DEF b
    <3>2. b.size = size /\ b.bits = Shifted(v, size - 1) /\ size > 0
      BY <1>1, <3>1
    <3>3. DecoderFed(d, b) = [bytes_left |-> size - 1, bytes_read |-> 1, value |-> Shifted(v, size - 1)]
      BY <3>2 DEF DecoderFed
    <3> QED
      BY <1>2, <2>1, <3>2, <3>3
  <2>2. CASE k > 0
    <3>0. k + 1 \in 2 .. size /\ size \in Nat
      BY <1>1, <1>3, <2>2
    <3>1. b = [size |-> 0, bits |-> Shifted(v, size - (k + 1)) % 128]
      BY <1>1, <3>0
    <3> HIDE DEF b
    <3>2. b.size = 0 /\ b.bits = Shifted(v, size - (k + 1)) % 128 /\ ~(b.size > 0)
      BY <3>1
    <3>3. d = [bytes_left |-> size - k, bytes_read |-> k, value |-> Shifted(v, size - k)]
      BY <1>1, <2>2 DEF DecoderAfter
    <3>4. d.bytes_left = size - k /\ d.bytes_read = k /\ d.value = Shifted(v, size - k)
      BY <3>3
    <3>5. d.bytes_left > 0
      BY <3>0, <3>4
    <3>6. DecoderFed(d, b) = [bytes_left |-> (size - k) - 1, bytes_read |-> k + 1,
                              value |-> 128 * Shifted(v, size - k) + (Shifted(v, size - (k + 1)) % 128)]
      BY <3>2, <3>4, <3>5 DEF DecoderFed
    <3>7. size - (k + 1) \in Nat /\ size - (k + 1) + 1 = size - k /\ (size - k) - 1 = size - (k + 1)
      BY <3>0
    <3>8. Shifted(v, size - (k + 1)) = 128 * Shifted(v, size - (k + 1) + 1) + (Shifted(v, size - (k + 1)) % 128)
      BY <3>7, ShiftedSteps
    <3>9. Shifted(v, size - (k + 1)) = 128 * Shifted(v, size - k) + (Shifted(v, size - (k + 1)) % 128)
      BY <3>7, <3>8
    <3> QED
      BY <1>2, <3>5, <3>6, <3>7, <3>9
  <2> QED
    BY <2>1, <2>2
<1>5. DecoderFed(d, b).bytes_left = size - (k + 1)
  BY <1>2, <1>4
<1>6. DecoderEnds(d, b) <=> DecoderFed(d, b).bytes_left = 0
  BY <1>4 DEF DecoderEnds
<1>7. size - (k + 1) = 0 <=> k + 1 = size
  BY <1>1, <1>3
<1> QED
  BY <1>1, <1>4, <1>5, <1>6, <1>7 DEF b

(* After its last byte the decoder has the value and the overlong of an    *)
(* integer.                                                                *)
LEMMA IntegerDecoded ==
    ASSUME NEW v \in VaruintValues, NEW o \in 0 .. 2, NEW e, e = Encoded(v, o)
    PROVE  DecoderAfter(e, Len(e), v).value = v /\ DecoderOverlong(DecoderAfter(e, Len(e), v)) = o
<1> DEFINE size == SizeOf(v, o)
<1>1. size \in 1 .. 7 /\ SizeOf(v, 0) = size - o /\ Len(e) = size
  BY EncodedIs, ZenonT(40)
<1> HIDE DEF size
<1>2. DecoderAfter(e, Len(e), v) = [bytes_left |-> 0, bytes_read |-> size, value |-> Shifted(v, 0)]
  <2>1. size - size = 0
    BY <1>1
  <2> QED
    BY <1>1, <2>1 DEF DecoderAfter
<1>3. Shifted(v, 0) = v
  BY ShiftedSteps
<1> DEFINE d == DecoderAfter(e, Len(e), v)
<1>4. d.value = v /\ d.bytes_read = size
  BY <1>2, <1>3
<1> HIDE DEF d
<1>5. DecoderOverlong(d) = size - (size - o)
  BY <1>1, <1>4 DEF DecoderOverlong
<1>6. size - (size - o) = o
  BY <1>1
<1> QED
  BY <1>4, <1>5, <1>6 DEF d

---------------------------------------------------------------------------
(* The state of the task. *)
Words == {v \in Nat : IsWord(v)}
ScmStates == [index : 1 .. NumScintillators, histogram : [1 .. HistogramSize -> Words],
              next : 1 .. HistogramSize + 1, stamp : Nat]

FilledTo(h, c) == [j \in 1 .. HistogramSize |-> IF j < c THEN Saturated(h[j]) ELSE 0]

LEMMA WordsAre ==
    /\ 0 \in Words /\ Words \subseteq VaruintValues /\ Words \subseteq Nat
    /\ Saturated(0) = 0 /\ \A v \in Nat : Saturated(v) \in Words
<1>1. 0 \in Words /\ Saturated(0) = 0
  BY SMT DEF Words, IsWord, Saturated
<1>2. \A v \in Nat : Saturated(v) \in Words
  BY SMT DEF Words, IsWord, Saturated
<1>3. Words \subseteq VaruintValues
  <2>1. \A v : v \in VaruintValues <=> v \in Nat /\ v < 1073741824
    BY SMT DEF VaruintValues
  <2> QED
    BY <2>1, SMT DEF Words, IsWord
<1>4. Words \subseteq Nat
  BY DEF Words
<1> QED
  BY <1>1, <1>2, <1>3, <1>4

LEMMA WordHistogram ==
    ASSUME NEW h \in [1 .. HistogramSize -> Words]
    PROVE  h \in Histograms /\ Len(h) = HistogramSize /\ \A i \in 1 .. Len(h) : IsWord(h[i])
<1>1. HistogramSize \in VaruintValues /\ HistogramSize \in Nat
  BY ScmAssumption
<1>2. h \in Seq(Words) /\ Len(h) = HistogramSize
  BY <1>1
<1>3. h \in Seq(VaruintValues)
  <2>1. h \in [1 .. HistogramSize -> VaruintValues]
    BY WordsAre
  <2> QED
    BY <1>1, <2>1
<1>4. \A i \in 1 .. Len(h) : IsWord(h[i])
  BY <1>2 DEF Words
<1> QED
  BY <1>1, <1>2, <1>3, <1>4 DEF Histograms

LEMMA StartIs ==
    ASSUME NEW i \in 1 .. NumScintillators, NEW n \in Nat
    PROVE  /\ StartHistogram(i, n) \in ScmStates
           /\ StartHistogram(i, n).index = i /\ StartHistogram(i, n).histogram = Empty
           /\ StartHistogram(i, n).next = 1 /\ StartHistogram(i, n).stamp = n
<1>1. HistogramSize \in Nat \ {0} /\ 1 \in 1 .. HistogramSize + 1
  BY ScmNumbers
<1>2. Empty \in [1 .. HistogramSize -> Words]
  BY WordsAre DEF Empty
<1> QED
  BY <1>1, <1>2 DEF StartHistogram, ScmStates

LEMMA StampedIs ==
    ASSUME NEW s \in ScmStates, NEW n \in Nat, NEW t, t = [s EXCEPT !.stamp = n]
    PROVE  /\ t \in ScmStates /\ t.index = s.index /\ t.histogram = s.histogram
           /\ t.next = s.next /\ t.stamp = n
BY DEF ScmStates

(* What a step of the task adds to the histogram it collects. *)
AddsCell(s, v, t) ==
    /\ t.next = s.next + 1
    /\ \A j \in 1 .. HistogramSize : t.histogram[j] = IF j = s.next THEN Saturated(v) ELSE s.histogram[j]
AddsZeros(s, v, t) ==
    /\ t.next = s.next + v
    /\ \A j \in 1 .. HistogramSize :
         t.histogram[j] = IF s.next <= j /\ j < s.next + v THEN 0 ELSE s.histogram[j]

(* addNonzeroToHistogram() within and beyond the histogram. *)
LEMMA CellAdded ==
    ASSUME NEW s \in ScmStates, NEW v \in Nat, NEW t, t = AddNonzero(s, v)
    PROVE  /\ t \in ScmStates /\ t.stamp = s.stamp /\ t.index = s.index
           /\ s.next <= HistogramSize => AddsCell(s, v, t)
<1>0. HistogramSize \in Nat /\ s.next \in 1 .. HistogramSize + 1 /\ s.histogram \in [1 .. HistogramSize -> Words]
  BY ScmNumbers DEF ScmStates
<1>1. CASE s.next > HistogramSize
  <2>1. t = s
    BY <1>1 DEF AddNonzero
  <2> QED
    BY <1>0, <1>1, <2>1
<1>2. CASE ~(s.next > HistogramSize)
  <2> DEFINE w == Saturated(v)
  <2>1. t = [s EXCEPT !.histogram[s.next] = w, !.next = @ + 1]
    BY <1>2 DEF AddNonzero
  <2>2. w \in Words
    BY WordsAre
  <2> HIDE DEF w
  <2>3. s.next \in 1 .. HistogramSize /\ s.next + 1 \in 1 .. HistogramSize + 1
    BY <1>0, <1>2
  <2>4. /\ t.histogram = [s.histogram EXCEPT ![s.next] = w] /\ t.next = s.next + 1
        /\ t.stamp = s.stamp /\ t.index = s.index
    BY <2>1 DEF ScmStates
  <2>5. t.histogram \in [1 .. HistogramSize -> Words]
    BY <1>0, <2>2, <2>4
  <2>6. t \in ScmStates
    BY <2>1, <2>3, <2>4, <2>5 DEF ScmStates
  <2>7. \A j \in 1 .. HistogramSize : t.histogram[j] = IF j = s.next THEN w ELSE s.histogram[j]
    BY <1>0, <2>3, <2>4
  <2> QED
    BY <2>4, <2>6, <2>7 DEF w, AddsCell
<1> QED
  BY <1>1, <1>2

(* addZerosToHistogram() within and beyond the histogram. *)
LEMMA ZerosAdded ==
    ASSUME NEW s \in ScmStates, NEW v \in Nat, v > 0, NEW t, t = AddZeros(s, v)
    PROVE  /\ t \in ScmStates /\ t.stamp = s.stamp /\ t.index = s.index
           /\ s.next + v <= HistogramSize + 1 => AddsZeros(s, v, t)
<1>0. HistogramSize \in Nat /\ s.next \in 1 .. HistogramSize + 1 /\ s.histogram \in [1 .. HistogramSize -> Words]
  BY ScmNumbers DEF ScmStates
<1> DEFINE end == IF s.next + v - 1 > HistogramSize THEN HistogramSize ELSE s.next + v - 1
           g == [i \in 1 .. HistogramSize |-> IF i \in s.next .. end THEN 0 ELSE s.histogram[i]]
<1>1. t = [s EXCEPT !.histogram = g, !.next = end + 1]
  BY DEF AddZeros
<1>2. end \in Nat /\ end + 1 \in 1 .. HistogramSize + 1 /\ (s.next + v <= HistogramSize + 1 => end = s.next + v - 1)
  BY <1>0
<1>3. g \in [1 .. HistogramSize -> Words]
  <2> HIDE DEF end
  <2> QED
    BY <1>0, WordsAre
<1> HIDE DEF end
<1>4. \A j \in 1 .. HistogramSize : g[j] = IF s.next <= j /\ j <= end THEN 0 ELSE s.histogram[j]
  BY <1>0, <1>2
<1> HIDE DEF g
<1>5. t.histogram = g /\ t.next = end + 1 /\ t.stamp = s.stamp /\ t.index = s.index
  BY <1>1 DEF ScmStates
<1>6. t \in ScmStates
  BY <1>1, <1>2, <1>3 DEF ScmStates
<1>7. ASSUME s.next + v <= HistogramSize + 1
      PROVE  AddsZeros(s, v, t)
  <2>1. end + 1 = s.next + v /\ \A j \in 1 .. HistogramSize : j <= end <=> j < s.next + v
    BY <1>0, <1>2, <1>7
  <2> QED
    BY <1>4, <1>5, <2>1 DEF AddsZeros
<1> QED
  BY <1>5, <1>6, <1>7

---------------------------------------------------------------------------
(* What the task knows before an integer arrives whose packet is the last  *)
(* of m.  Once the whole of packet p was received, the histogram of the    *)
(* last scintillator is collected and waits for the next packet.           *)
LastWasWhole(m, loss, s, p) ==
    IF p = 0 THEN s.histogram = Empty
    ELSE \/ loss = p
         \/ s.index = NumScintillators /\ s.histogram = FilledTo(m[p][NumScintillators], HistogramSize + 1)

CollectedTo(m, s, i, c) ==
    s.stamp = Len(m) /\ s.index = i /\ s.next = c /\ s.histogram = FilledTo(m[Len(m)][i], c)

ScmBefore(m, loss, s, i, c) ==
    IF i = 0 THEN LastWasWhole(m, loss, s, Len(m) - 1)
    ELSE IF c > 0 THEN CollectedTo(m, s, i, c)
    ELSE IF i = 1 THEN LastWasWhole(m, loss, s, Len(m) - 1) /\ s.stamp = Len(m)
    ELSE CollectedTo(m, s, i - 1, HistogramSize + 1)

(* What the end of an integer makes of the state. *)
ScmMoves(m, v, o, s, t) ==
    \/ o = 2 /\ v < NumScintillators /\ t = StartHistogram(v + 1, s.stamp)
    \/ o = 1 /\ v = 0 /\ t = [s EXCEPT !.stamp = Len(m)]
    \/ o = 1 /\ v > 0 /\ t = AddZeros(s, v)
    \/ o = 0 /\ t = AddNonzero(s, v)
    \/ (o > 2 \/ (o = 2 /\ v >= NumScintillators)) /\ t = s

LEMMA StampedWhole ==
    ASSUME NEW m, NEW loss, NEW s, NEW t, NEW n, t.index = s.index, t.histogram = s.histogram,
           LastWasWhole(m, loss, s, n)
    PROVE  LastWasWhole(m, loss, t, n)
BY DEF LastWasWhole

(* The start of a packet, the marker of a histogram and a code take the    *)
(* task to the next place.                                                 *)
LEMMA StartMoves ==
    ASSUME NEW m \in Seq(Measurements), Len(m) > 0, NEW s \in ScmStates, NEW loss, NEW t,
           ScmBefore(m, loss, s, 0, 0), ScmMoves(m, 0, 1, s, t)
    PROVE  ScmBefore(m, loss, t, 1, 0)
<1>0. Len(m) \in Nat
  OBVIOUS
<1>1. t = [s EXCEPT !.stamp = Len(m)]
  BY DEF ScmMoves
<1>2. t.index = s.index /\ t.histogram = s.histogram /\ t.stamp = Len(m)
  BY <1>0, <1>1, StampedIs
<1>3. LastWasWhole(m, loss, s, Len(m) - 1)
  BY DEF ScmBefore
<1>4. LastWasWhole(m, loss, t, Len(m) - 1)
  BY <1>2, <1>3, StampedWhole
<1> QED
  BY <1>2, <1>4 DEF ScmBefore

LEMMA MarkerMoves ==
    ASSUME NEW m \in Seq(Measurements), Len(m) > 0, NEW s \in ScmStates, NEW loss, NEW t,
           NEW i \in 1 .. NumScintillators, ScmBefore(m, loss, s, i, 0), ScmMoves(m, i - 1, 2, s, t)
    PROVE  ScmBefore(m, loss, t, i, 1)
<1>0. Len(m) \in Nat /\ NumScintillators \in Nat /\ HistogramSize \in Nat /\ i # 0 /\ i - 1 + 1 = i /\ i - 1 < NumScintillators
  BY ScmNumbers
<1>1. t = StartHistogram(i, s.stamp)
  BY <1>0 DEF ScmMoves
<1>2. s.stamp = Len(m)
  BY <1>0 DEF ScmBefore, CollectedTo
<1>3. t.stamp = Len(m) /\ t.index = i /\ t.next = 1 /\ t.histogram = Empty
  BY <1>0, <1>1, <1>2, StartIs
<1>4. FilledTo(m[Len(m)][i], 1) = Empty
  BY <1>0 DEF FilledTo, Empty
<1>5. CollectedTo(m, t, i, 1)
  BY <1>3, <1>4 DEF CollectedTo
<1> QED
  BY <1>0, <1>5 DEF ScmBefore

LEMMA CodeMoves ==
    ASSUME NEW m \in Seq(Measurements), Len(m) > 0, NEW s \in ScmStates, NEW loss, NEW t,
           NEW i \in 1 .. NumScintillators, NEW c \in 1 .. HistogramSize, ScmBefore(m, loss, s, i, c),
           NEW h, h = m[Len(m)][i], ScmMoves(m, RunCode(h, c)[1], RunCode(h, c)[2], s, t)
    PROVE  CollectedTo(m, t, i, AfterCode(h, c))
<1> DEFINE n == AfterCode(h, c)
           v == RunCode(h, c)[1]
           o == RunCode(h, c)[2]
<1>0. Len(m) \in Nat /\ m[Len(m)] \in Measurements /\ NumScintillators \in Nat /\ HistogramSize \in Nat /\ i # 0 /\ c > 0
  BY ScmNumbers
<1>1. h \in Histograms /\ Len(h) = HistogramSize /\ c \in 1 .. Len(h)
  BY <1>0, MeasurementIs
<1>2. \A j \in 1 .. HistogramSize : h[j] \in Nat
  BY <1>1, HistogramIs
<1>3. n \in c + 1 .. HistogramSize + 1 /\ (h[c] = 0 => \A j \in c .. n - 1 : h[j] = 0)
  BY <1>1, AfterCodeIs
<1>4. v \in Nat /\ o \in {0, 1} /\ (o = 1 => v = n - c /\ h[c] = 0) /\ (o = 0 => v = h[c] /\ n = c + 1)
  BY <1>1, RunCodeIs, SmallIs
<1>5. s.stamp = Len(m) /\ s.index = i /\ s.next = c /\ s.histogram = FilledTo(h, c)
  BY <1>0 DEF ScmBefore, CollectedTo
<1>6. ScmMoves(m, v, o, s, t)
  OBVIOUS
<1> HIDE DEF n, v, o
<1>7. \A j \in 1 .. HistogramSize : s.histogram[j] = IF j < c THEN Saturated(h[j]) ELSE 0
  BY <1>5 DEF FilledTo
<1>8. t \in ScmStates /\ t.stamp = Len(m) /\ t.index = i /\ t.next = n
      /\ \A j \in 1 .. HistogramSize : t.histogram[j] = IF j < n THEN Saturated(h[j]) ELSE 0
  <2>1. CASE o = 1
    <3>1. v = n - c /\ v > 0 /\ c + v = n /\ c + v <= HistogramSize + 1
      BY <1>0, <1>3, <1>4, <2>1
    <3>2. t = AddZeros(s, v)
      BY <1>6, <2>1, <3>1 DEF ScmMoves
    <3>3. /\ t \in ScmStates /\ t.stamp = s.stamp /\ t.index = s.index /\ t.next = c + v
          /\ \A j \in 1 .. HistogramSize : t.histogram[j] = IF c <= j /\ j < c + v THEN 0 ELSE s.histogram[j]
      <4>1. s.next + v <= HistogramSize + 1
        BY <1>5, <3>1
      <4>2. t \in ScmStates /\ t.stamp = s.stamp /\ t.index = s.index /\ AddsZeros(s, v, t)
        BY <1>4, <3>1, <3>2, <4>1, ZerosAdded
      <4>3. s.next = c
        BY <1>5
      <4> QED
        BY ONLY <4>2, <4>3 DEF AddsZeros
    <3>4. ASSUME NEW j \in 1 .. HistogramSize PROVE t.histogram[j] = IF j < n THEN Saturated(h[j]) ELSE 0
      <4>1. t.histogram[j] = IF c <= j /\ j < n THEN 0 ELSE s.histogram[j]
        BY <3>1, <3>3
      <4>2. CASE c <= j /\ j < n
        <5>1. h[j] = 0
          BY <1>0, <1>3, <1>4, <2>1, <4>2
        <5> QED
          BY <4>1, <4>2, <5>1, WordsAre
      <4>3. CASE ~(c <= j /\ j < n)
        <5>1. t.histogram[j] = IF j < c THEN Saturated(h[j]) ELSE 0
          BY <1>7, <4>1, <4>3
        <5>2. j < c <=> j < n
          BY <1>0, <1>3, <4>3
        <5> QED
          BY <5>1, <5>2
      <4> QED
        BY <4>2, <4>3
    <3> QED
      BY <1>5, <3>1, <3>3, <3>4
  <2>2. CASE o = 0
    <3>1. t = AddNonzero(s, v)
      BY <1>6, <2>2 DEF ScmMoves
    <3>2. v = h[c] /\ n = c + 1
      BY <1>4, <2>2
    <3>3. s.next <= HistogramSize
      BY <1>0, <1>5
    <3>4. /\ t \in ScmStates /\ t.stamp = s.stamp /\ t.index = s.index /\ t.next = c + 1
          /\ \A j \in 1 .. HistogramSize : t.histogram[j] = IF j = c THEN Saturated(v) ELSE s.histogram[j]
      <4>2. t \in ScmStates /\ t.stamp = s.stamp /\ t.index = s.index /\ AddsCell(s, v, t)
        BY <1>4, <3>1, <3>3, CellAdded
      <4>3. s.next = c
        BY <1>5
      <4> QED
        BY ONLY <4>2, <4>3 DEF AddsCell
    <3>5. ASSUME NEW j \in 1 .. HistogramSize PROVE t.histogram[j] = IF j < n THEN Saturated(h[j]) ELSE 0
      <4>1. j < n <=> j < c \/ j = c
        BY <1>0, <3>2
      <4> QED
        BY <1>7, <3>2, <3>4, <4>1
    <3> QED
      BY <1>5, <3>2, <3>4, <3>5
  <2> QED
    BY <1>4, <2>1, <2>2
<1>9. t.histogram = FilledTo(h, n)
  <2>1. t.histogram \in [1 .. HistogramSize -> Words]
    BY <1>8 DEF ScmStates
  <2>2. t.histogram = [j \in 1 .. HistogramSize |-> t.histogram[j]]
    BY <2>1
  <2> QED
    BY <1>8, <2>2 DEF FilledTo
<1> QED
  BY <1>8, <1>9 DEF CollectedTo, n

(* An integer takes the task from its place to the next. *)
LEMMA IntegerMoves ==
    ASSUME NEW m \in Seq(Measurements), Len(m) > 0, NEW s \in ScmStates, NEW loss, NEW t,
           NEW i, NEW c, <<i, c>> \in ScmPlaces, NEW j, NEW d, NextPlace(m[Len(m)], i, c) = <<j, d>>,
           ScmBefore(m, loss, s, i, c),
           ScmMoves(m, IntegerAt(m[Len(m)], i, c)[1], IntegerAt(m[Len(m)], i, c)[2], s, t)
    PROVE  /\ <<j, d>> \in ScmPlaces => ScmBefore(m, loss, t, j, d)
           /\ i = NumScintillators /\ j = i + 1 /\ d = 0 /\ c \in 1 .. HistogramSize
                 => LastWasWhole(m, loss, t, Len(m))
<1> DEFINE hs == m[Len(m)]
<1>0. /\ NumScintillators \in Nat \ {0} /\ HistogramSize \in Nat \ {0} /\ Len(m) \in Nat /\ Len(m) # 0
      /\ hs \in Measurements
  BY ScmNumbers
<1>p. (i = 0 /\ c = 0) \/ (i \in 1 .. NumScintillators /\ c \in 0 .. HistogramSize)
  BY PlaceIs
<1>1. CASE i = 0 /\ c = 0
  <2>1. IntegerAt(hs, i, c) = <<0, 1>> /\ j = 1 /\ d = 0
    BY <1>1 DEF IntegerAt, NextPlace
  <2>2. ScmBefore(m, loss, t, 1, 0)
    BY <1>1, <2>1, StartMoves
  <2>3. ~(i = NumScintillators)
    BY <1>0, <1>1
  <2> QED
    BY <2>1, <2>2, <2>3
<1>2. CASE i \in 1 .. NumScintillators /\ c = 0
  <2>0. i # 0
    BY <1>0, <1>2
  <2>1. IntegerAt(hs, i, c) = <<i - 1, 2>> /\ j = i /\ d = 1
    BY <1>2, <2>0 DEF IntegerAt, NextPlace
  <2>2. ScmBefore(m, loss, t, i, 1)
    BY <1>2, <2>1, MarkerMoves
  <2>3. ~(c \in 1 .. HistogramSize)
    BY <1>0, <1>2
  <2> QED
    BY <2>1, <2>2, <2>3
<1>3. CASE i \in 1 .. NumScintillators /\ c \in 1 .. HistogramSize
  <2> DEFINE h == hs[i]
             n == AfterCode(h, c)
  <2>0. i # 0 /\ c # 0
    BY <1>0, <1>3
  <2>1. IntegerAt(hs, i, c) = RunCode(h, c)
    BY <2>0 DEF IntegerAt
  <2>2. <<j, d>> = IF n <= HistogramSize THEN <<i, n>> ELSE <<i + 1, 0>>
    BY <2>0 DEF NextPlace
  <2>3. h \in Histograms /\ Len(h) = HistogramSize /\ c \in 1 .. Len(h)
    BY <1>0, <1>3, MeasurementIs
  <2>4. n \in c + 1 .. HistogramSize + 1
    BY <2>3, AfterCodeIs
  <2>5. CollectedTo(m, t, i, n)
    BY <1>3, <2>1, CodeMoves
  <2> HIDE DEF n
  <2>6. CASE n <= HistogramSize
    <3>1. j = i /\ d = n /\ n > 0 /\ j # i + 1
      BY <1>0, <1>3, <2>2, <2>4, <2>6
    <3>2. ScmBefore(m, loss, t, i, n)
      BY <2>0, <2>5, <3>1 DEF ScmBefore
    <3> QED
      BY <3>1, <3>2
  <2>7. CASE ~(n <= HistogramSize)
    <3>1. j = i + 1 /\ d = 0 /\ n = HistogramSize + 1 /\ i + 1 # 0 /\ i + 1 # 1 /\ i + 1 - 1 = i
      BY <1>0, <1>3, <2>2, <2>4, <2>7
    <3>2. CollectedTo(m, t, i, HistogramSize + 1)
      BY <2>5, <3>1
    <3>3. ScmBefore(m, loss, t, i + 1, 0)
      <4>1. j # 0 /\ j # 1 /\ j - 1 = i /\ ~(0 > 0)
        BY <1>0, <1>3, <3>1
      <4>2. CollectedTo(m, t, j - 1, HistogramSize + 1)
        BY ONLY <3>2, <4>1
      <4>3. ScmBefore(m, loss, t, j, 0)
        BY ONLY <4>1, <4>2 DEF ScmBefore
      <4> QED
        BY ONLY <3>1, <4>3
    <3>4. i = NumScintillators => LastWasWhole(m, loss, t, Len(m))
      BY <1>0, <3>2 DEF LastWasWhole, CollectedTo
    <3> QED
      BY <3>1, <3>3, <3>4
  <2> QED
    BY <2>6, <2>7
<1> QED
  <2>1. c \in 0 .. HistogramSize => c = 0 \/ c \in 1 .. HistogramSize
    BY <1>0
  <2> QED
    BY <1>1, <1>2, <1>3, <1>p, <2>1

---------------------------------------------------------------------------
(* The invariant.  Unless a byte of the last packet was harmed, what is    *)
(* left of the packet starts within one of its integers, the decoder holds *)
(* the bytes before, and the task has collected what came before that      *)
(* integer.                                                                *)
Decoders == [bytes_left : Nat, bytes_read : Nat, value : Nat]

AtInteger(m, loss, b, d, s, i, c, k) ==
    LET e == BytesAt(m[Len(m)], i, c)
    IN  /\ k < Len(e)
        /\ b = Suffix(e, k) \o RestAfter(m[Len(m)], i, c)
        /\ k > 0 => d = DecoderAfter(e, k, IntegerAt(m[Len(m)], i, c)[1])
        /\ ScmBefore(m, loss, s, i, c)

OnItsWay(m, loss, b, d, s) ==
    IF b = <<>> THEN LastWasWhole(m, loss, s, Len(m))
    ELSE /\ Len(m) > 0
         /\ loss = Len(m) \/ \E i, c : <<i, c>> \in ScmPlaces /\ \E k \in Nat : AtInteger(m, loss, b, d, s, i, c, k)

ScmTypes ==
    /\ measured \in Seq(Measurements) /\ Len(measured) <= MaxPackets
    /\ lossIn \in 0 .. Len(measured)
    /\ stream \in Seq(ScmBytes) /\ decoder \in Decoders
    /\ scm \in ScmStates /\ scm.stamp <= Len(measured)

ScmInv == ScmTypes /\ OnItsWay(measured, lossIn, stream, decoder, scm) /\ FragmentsUnpack

(* Any byte leaves the decoder and the task in a state of their type. *)
LEMMA DecoderTyped ==
    ASSUME NEW d \in Decoders, NEW b \in ScmBytes
    PROVE  DecoderFed(d, b) \in Decoders
<1>0. b.size \in Nat /\ b.bits \in Nat /\ d.bytes_left \in Nat /\ d.bytes_read \in Nat /\ d.value \in Nat
  BY DEF ScmBytes, Decoders
<1>1. CASE b.size > 0
  <2>1. DecoderFed(d, b) = [bytes_left |-> b.size - 1, bytes_read |-> 1, value |-> b.bits]
    BY <1>1 DEF DecoderFed
  <2>2. b.size - 1 \in Nat
    BY <1>0, <1>1
  <2> QED
    BY <1>0, <2>1, <2>2 DEF Decoders
<1>2. CASE ~(b.size > 0) /\ d.bytes_left > 0
  <2>1. DecoderFed(d, b) = [bytes_left |-> d.bytes_left - 1, bytes_read |-> d.bytes_read + 1,
                            value |-> 128 * d.value + b.bits]
    BY <1>2 DEF DecoderFed
  <2>2. d.bytes_left - 1 \in Nat /\ d.bytes_read + 1 \in Nat /\ 128 * d.value + b.bits \in Nat
    BY <1>0, <1>2
  <2> QED
    BY <2>1, <2>2 DEF Decoders
<1>3. CASE ~(b.size > 0) /\ ~(d.bytes_left > 0)
  BY <1>3 DEF DecoderFed
<1> QED
  BY <1>1, <1>2, <1>3

LEMMA MovesTyped ==
    ASSUME NEW m \in Seq(Measurements), NEW s \in ScmStates, s.stamp <= Len(m), NEW v \in Nat, NEW o,
           NEW t, ScmMoves(m, v, o, s, t)
    PROVE  t \in ScmStates /\ t.stamp <= Len(m)
<1>0. Len(m) \in Nat /\ s.stamp \in Nat /\ Len(m) <= Len(m) /\ NumScintillators \in Nat
  BY ScmNumbers DEF ScmStates
<1>1. CASE v < NumScintillators /\ t = StartHistogram(v + 1, s.stamp)
  <2>1. v + 1 \in 1 .. NumScintillators
    BY <1>0, <1>1
  <2> QED
    BY <1>0, <1>1, <2>1, StartIs
<1>2. CASE t = [s EXCEPT !.stamp = Len(m)]
  <2>1. t \in ScmStates /\ t.stamp = Len(m)
    BY <1>0, <1>2, StampedIs
  <2> QED
    BY <1>0, <2>1
<1>3. CASE v > 0 /\ t = AddZeros(s, v)
  BY <1>3, ZerosAdded
<1>4. CASE t = AddNonzero(s, v)
  BY <1>4, CellAdded
<1>5. CASE t = s
  BY <1>5
<1> QED
  BY <1>1, <1>2, <1>3, <1>4, <1>5 DEF ScmMoves

(* The next byte of an integer. *)
MovesOn(m, b, d, i, c, k) ==
    LET e == BytesAt(m[Len(m)], i, c)
        v == IntegerAt(m[Len(m)], i, c)[1]
    IN  /\ DecoderFed(d, Head(b)) = DecoderAfter(e, k + 1, v)
        /\ DecoderEnds(d, Head(b)) <=> k + 1 = Len(e)
        /\ Tail(b) = Suffix(e, k + 1) \o RestAfter(m[Len(m)], i, c)
        /\ k + 1 < Len(e) => Tail(b) # <<>>
        /\ k + 1 = Len(e) => /\ Tail(b) = RestAfter(m[Len(m)], i, c)
                             /\ DecoderFed(d, Head(b)).value = v
                             /\ DecoderOverlong(DecoderFed(d, Head(b))) = IntegerAt(m[Len(m)], i, c)[2]

LEMMA ByteIs ==
    ASSUME NEW m \in Seq(Measurements), Len(m) > 0, NEW loss, NEW b, NEW d, NEW s,
           NEW i, NEW c, <<i, c>> \in ScmPlaces, NEW k \in Nat, AtInteger(m, loss, b, d, s, i, c, k)
    PROVE  MovesOn(m, b, d, i, c, k)
<1> DEFINE hs == m[Len(m)]
           e == BytesAt(hs, i, c)
           v == IntegerAt(hs, i, c)[1]
           o == IntegerAt(hs, i, c)[2]
           rest == RestAfter(hs, i, c)
<1>0. hs \in Measurements
  OBVIOUS
<1>1. v \in VaruintValues /\ o \in 0 .. 2 /\ e \in Seq(ScmBytes) /\ Len(e) \in 1 .. 7 /\ rest \in Seq(ScmBytes)
  BY <1>0, IntegerIs
<1>2. e = Encoded(v, o)
  BY DEF BytesAt
<1>3. k < Len(e) /\ b = Suffix(e, k) \o rest /\ (k > 0 => d = DecoderAfter(e, k, v))
  BY DEF AtInteger
<1> HIDE DEF hs, e, v, o, rest
<1>4. Head(b) = e[k + 1] /\ Tail(b) = Suffix(e, k + 1) \o rest
  BY <1>1, <1>3, SuffixSteps, ZenonT(40)
<1>5. DecoderFed(d, Head(b)) = DecoderAfter(e, k + 1, v) /\ (DecoderEnds(d, Head(b)) <=> k + 1 = Len(e))
  <2>1. k < Len(Encoded(v, o)) /\ (k > 0 => d = DecoderAfter(Encoded(v, o), k, v))
    BY <1>2, <1>3
  <2>2. /\ DecoderFed(d, Encoded(v, o)[k + 1]) = DecoderAfter(Encoded(v, o), k + 1, v)
        /\ DecoderEnds(d, Encoded(v, o)[k + 1]) <=> k + 1 = Len(Encoded(v, o))
    BY <1>1, <2>1, ByteFed
  <2> QED
    BY <1>2, <1>4, <2>2
<1>6. ASSUME k + 1 < Len(e) PROVE Tail(b) # <<>>
  <2>1. Suffix(e, k + 1) \o rest # <<>>
    BY <1>1, <1>6, SuffixSteps
  <2> QED
    BY <1>4, <2>1
<1>7. ASSUME k + 1 = Len(e)
      PROVE  Tail(b) = rest /\ DecoderFed(d, Head(b)).value = v /\ DecoderOverlong(DecoderFed(d, Head(b))) = o
  <2>1. Suffix(e, Len(e)) \o rest = rest
    BY <1>1, <1>3, SuffixSteps
  <2>2. DecoderAfter(e, Len(e), v).value = v /\ DecoderOverlong(DecoderAfter(e, Len(e), v)) = o
    BY <1>1, <1>2, IntegerDecoded
  <2> QED
    BY <1>4, <1>5, <1>7, <2>1, <2>2
<1> QED
  BY <1>4, <1>5, <1>6, <1>7 DEF MovesOn, hs, e, v, o, rest

(* A byte that is fed takes the task along the packet. *)
LEMMA ByteKeepsWay ==
    ASSUME NEW m \in Seq(Measurements), NEW loss, NEW b \in Seq(ScmBytes), b # <<>>, NEW d, NEW s \in ScmStates,
           OnItsWay(m, loss, b, d, s), NEW t,
           \/ ~DecoderEnds(d, Head(b)) /\ t = s
           \/ DecoderEnds(d, Head(b))
              /\ ScmMoves(m, DecoderFed(d, Head(b)).value, DecoderOverlong(DecoderFed(d, Head(b))), s, t)
    PROVE  OnItsWay(m, loss, Tail(b), DecoderFed(d, Head(b)), t)
<1>0. Len(m) > 0 /\ Len(m) # 0 /\ Len(m) \in Nat
  BY DEF OnItsWay
<1>1. CASE loss = Len(m)
  BY <1>0, <1>1 DEF OnItsWay, LastWasWhole
<1>2. CASE loss # Len(m)
  <2>1. PICK i, c : <<i, c>> \in ScmPlaces /\ \E k \in Nat : AtInteger(m, loss, b, d, s, i, c, k)
    BY <1>2 DEF OnItsWay
  <2>2. PICK k \in Nat : AtInteger(m, loss, b, d, s, i, c, k)
    BY <2>1
  <2> DEFINE e == BytesAt(m[Len(m)], i, c)
             v == IntegerAt(m[Len(m)], i, c)[1]
             f == DecoderFed(d, Head(b))
             q == Tail(b)
  <2>3. /\ f = DecoderAfter(e, k + 1, v)
        /\ DecoderEnds(d, Head(b)) <=> k + 1 = Len(e)
        /\ q = Suffix(e, k + 1) \o RestAfter(m[Len(m)], i, c)
        /\ k + 1 < Len(e) => q # <<>>
        /\ k + 1 = Len(e) => /\ q = RestAfter(m[Len(m)], i, c)
                             /\ f.value = v
                             /\ DecoderOverlong(f) = IntegerAt(m[Len(m)], i, c)[2]
    <3>1. MovesOn(m, b, d, i, c, k)
      BY <1>0, <2>1, <2>2, ByteIs
    <3> QED
      BY <3>1 DEF MovesOn
  <2>4. k < Len(e) /\ ScmBefore(m, loss, s, i, c)
    BY <2>2 DEF AtInteger
  <2>5. Len(e) \in Nat /\ m[Len(m)] \in Measurements
    <3>1. m[Len(m)] \in Measurements
      BY <1>0
    <3>2. Len(e) \in 1 .. 7
      BY <2>1, <3>1, IntegerIs
    <3> QED
      BY <3>1, <3>2
  <2>6. \/ ~DecoderEnds(d, Head(b)) /\ t = s
        \/ DecoderEnds(d, Head(b)) /\ ScmMoves(m, f.value, DecoderOverlong(f), s, t)
    OBVIOUS
  <2> HIDE DEF f, q, e
  <2>7. CASE k + 1 < Len(e)
    <3>1. t = s /\ q # <<>> /\ k + 1 \in Nat
      BY <2>3, <2>5, <2>6, <2>7
    <3>2. AtInteger(m, loss, q, f, t, i, c, k + 1)
      BY <2>3, <2>4, <2>7, <3>1 DEF AtInteger, e
    <3>3. OnItsWay(m, loss, q, f, t)
      BY <1>0, <2>1, <3>1, <3>2 DEF OnItsWay
    <3> QED
      BY <3>3 DEF q, f
  <2>8. CASE k + 1 = Len(e)
    <3>1. q = RestAfter(m[Len(m)], i, c) /\ ScmMoves(m, v, IntegerAt(m[Len(m)], i, c)[2], s, t)
      BY <2>3, <2>6, <2>8
    <3>2. PICK j, n : NextPlace(m[Len(m)], i, c) = <<j, n>>
      BY DEF NextPlace
    <3>3. /\ <<j, n>> \in ScmPlaces => ScmBefore(m, loss, t, j, n)
          /\ i = NumScintillators /\ j = i + 1 /\ n = 0 /\ c \in 1 .. HistogramSize => LastWasWhole(m, loss, t, Len(m))
      BY <1>0, <2>1, <2>4, <3>1, <3>2, IntegerMoves
    <3>4. \/ /\ <<j, n>> \in ScmPlaces
             /\ RestAfter(m[Len(m)], i, c) = BytesAt(m[Len(m)], j, n) \o RestAfter(m[Len(m)], j, n)
          \/ /\ i = NumScintillators /\ j = i + 1 /\ n = 0 /\ c \in 1 .. HistogramSize
             /\ RestAfter(m[Len(m)], i, c) = <<>>
      BY <2>1, <2>5, <3>2, NextBytes
    <3>5. CASE <<j, n>> \in ScmPlaces /\ q = BytesAt(m[Len(m)], j, n) \o RestAfter(m[Len(m)], j, n)
      <4> DEFINE g == BytesAt(m[Len(m)], j, n)
                 rest == RestAfter(m[Len(m)], j, n)
      <4>1. g \in Seq(ScmBytes) /\ Len(g) \in 1 .. 7 /\ rest \in Seq(ScmBytes)
        BY <2>5, <3>5, IntegerIs
      <4>2. q = g \o rest
        BY <3>5
      <4> HIDE DEF g, rest
      <4>z. 0 \in Nat /\ ~(0 > 0) /\ \A x \in 1 .. 7 : 0 < x
        OBVIOUS
      <4>3. 0 \in Nat /\ 0 < Len(g) /\ ~(0 > 0)
        BY <4>1, <4>z
      <4>4. Suffix(g, 0) = g /\ Suffix(g, 0) \o rest # <<>>
        BY <4>1, <4>3, SuffixSteps
      <4>5. q = Suffix(g, 0) \o rest /\ q # <<>>
        BY <4>2, <4>4
      <4>6. ScmBefore(m, loss, t, j, n)
        BY <3>3, <3>5
      <4>7. AtInteger(m, loss, q, f, t, j, n, 0)
        BY <4>3, <4>5, <4>6 DEF AtInteger, g, rest
      <4>8. OnItsWay(m, loss, q, f, t)
        BY <1>0, <3>5, <4>3, <4>5, <4>7 DEF OnItsWay
      <4> QED
        BY <4>8 DEF q, f
    <3>6. CASE q = <<>> /\ LastWasWhole(m, loss, t, Len(m))
      BY <3>6 DEF OnItsWay, q
    <3> QED
      BY <3>1, <3>3, <3>4, <3>5, <3>6
  <2> QED
    BY <2>4, <2>5, <2>7, <2>8
<1> QED
  BY <1>1, <1>2

(* What the SCM sends starts at the first integer. *)
LEMMA PacketOnItsWay ==
    ASSUME NEW m \in Seq(Measurements), NEW hs \in Measurements, NEW loss \in 0 .. Len(m), NEW d, NEW s,
           OnItsWay(m, loss, <<>>, d, s), NEW n, n = Append(m, hs)
    PROVE  PacketBytes(hs) \in Seq(ScmBytes) /\ OnItsWay(n, loss, PacketBytes(hs), d, s)
<1> DEFINE e == BytesAt(hs, 0, 0)
           rest == RestAfter(hs, 0, 0)
           q == PacketBytes(hs)
<1>0. Len(m) \in Nat /\ Len(n) = Len(m) + 1 /\ Len(n) - 1 = Len(m) /\ Len(n) > 0 /\ n[Len(n)] = hs
      /\ \A p \in 1 .. Len(m) : n[p] = m[p]
  OBVIOUS
<1>1. <<0, 0>> \in ScmPlaces
  BY DEF ScmPlaces
<1>2. e \in Seq(ScmBytes) /\ Len(e) \in 1 .. 7 /\ rest \in Seq(ScmBytes)
  BY <1>1, IntegerIs
<1>3. q = e \o rest
  <2>1. IntegerAt(hs, 0, 0) = <<0, 1>>
    BY DEF IntegerAt
  <2>2. e = Encoded(0, 1) /\ rest = PacketFrom(hs)[1]
    BY <2>1 DEF BytesAt, RestAfter
  <2> QED
    BY <2>2 DEF PacketBytes
<1> HIDE DEF q
<1>z. 0 \in Nat /\ ~(0 > 0) /\ \A x \in 1 .. 7 : 0 < x
  OBVIOUS
<1>4. 0 \in Nat /\ 0 < Len(e) /\ ~(0 > 0)
  BY <1>2, <1>z
<1>5. q = Suffix(e, 0) \o rest /\ q # <<>> /\ q \in Seq(ScmBytes)
  <2> HIDE DEF e, rest
  <2>1. Suffix(e, 0) = e /\ Suffix(e, 0) \o rest # <<>> /\ Suffix(e, 0) \o rest \in Seq(ScmBytes)
    BY <1>2, <1>4, SuffixSteps
  <2> QED
    BY <1>3, <2>1
<1>6. LastWasWhole(m, loss, s, Len(m))
  BY DEF OnItsWay
<1>7. LastWasWhole(n, loss, s, Len(n) - 1)
  <2>1. CASE Len(m) = 0
    BY <1>0, <1>6, <2>1, SMTT(30) DEF LastWasWhole
  <2>2. CASE Len(m) # 0
    <3>0. Len(m) \in 1 .. Len(m)
      BY <1>0, <2>2
    <3>1. n[Len(m)] = m[Len(m)]
      BY <1>0, <3>0
    <3> QED
      BY <1>0, <1>6, <2>2, <3>1 DEF LastWasWhole
  <2> QED
    BY <2>1, <2>2
<1>8. ScmBefore(n, loss, s, 0, 0)
  BY <1>7 DEF ScmBefore
<1>9. AtInteger(n, loss, q, d, s, 0, 0, 0)
  BY <1>0, <1>4, <1>5, <1>8 DEF AtInteger
<1>10. OnItsWay(n, loss, q, d, s)
  BY <1>0, <1>1, <1>4, <1>5, <1>9 DEF OnItsWay
<1> QED
  BY <1>5, <1>10 DEF q

---------------------------------------------------------------------------
(* A report unpacks to the histogram it was made from. *)
Unpacks(r) ==
    LET bytes == FlattenSeq(r.fragments)
    IN  r.stamp > 0 => /\ Unpacked(bytes) = r.histogram
                       /\ Len(bytes) = PackedSize(r.histogram)
                       /\ \A n \in DOMAIN r.fragments :
                            Len(r.fragments[n]) = FragmentSize \/ n = Len(r.fragments)

(* What packHistogram() and sendSCMMeasurement() report unpacks to the     *)
(* histogram collected.                                                    *)
LEMMA ReportUnpacks ==
    ASSUME NEW s \in ScmStates, Unpacks(scmReported)
    PROVE  Unpacks(Report(s))
<1> DEFINE h == s.histogram
           b == Packed(h)
           f == Cut(b)
<1>0. h \in [1 .. HistogramSize -> Words] /\ HistogramSize \in Nat \ {0}
  BY ScmNumbers DEF ScmStates
<1>1. h \in Histograms /\ Len(h) = HistogramSize /\ \A i \in 1 .. Len(h) : IsWord(h[i])
  BY <1>0, WordHistogram
<1> HIDE DEF h
<1>2. b \in Seq(ScmBytes) /\ Unpacked(b) = h
  BY <1>1, PackedUnpacks
<1>3. b # <<>>
  <2>1. Len(h) > 0
    BY <1>0, <1>1
  <2> QED
    BY <1>1, <2>1, PackedBytes
<1>4. PackedSize(h) = Len(b)
  BY <1>1, PackedSizeIs
<1> HIDE DEF b
<1>5. FlattenSeq(f) = b /\ \A n \in DOMAIN f : Len(f[n]) = FragmentSize \/ n = Len(f)
  BY <1>2, <1>3, FragmentsJoin
<1> HIDE DEF f
<1>6. \/ Report(s) = scmReported
      \/ Report(s) = [index |-> s.index, stamp |-> s.stamp, histogram |-> h, fragments |-> f]
  BY DEF Report, h, b, f
<1>7. ASSUME NEW r, r.histogram = h, r.fragments = f PROVE Unpacks(r)
  BY <1>2, <1>4, <1>5, <1>7 DEF Unpacks
<1>8. CASE Report(s) = [index |-> s.index, stamp |-> s.stamp, histogram |-> h, fragments |-> f]
  <2>1. Report(s).histogram = h /\ Report(s).fragments = f
    BY <1>8
  <2> QED
    BY <1>7, <2>1
<1> QED
  BY <1>6, <1>8

LEMMA FragmentsUnpackIs == (FragmentsUnpack <=> Unpacks(scmReported)) /\ (FragmentsUnpack' <=> Unpacks(scmReported'))
BY DEF FragmentsUnpack, Unpacks

(* The last disjunct of a byte: what its integer makes of the state. *)
LEMMA ByteOutcome ==
    ASSUME ScmByte
    PROVE  /\ stream # <<>> /\ stream' = Tail(stream) /\ decoder' = DecoderFed(decoder, Head(stream))
           /\ measured' = measured /\ lossIn' = lossIn
           /\ \/ ~DecoderEnds(decoder, Head(stream)) /\ scm' = scm
              \/ /\ DecoderEnds(decoder, Head(stream))
                 /\ ScmMoves(measured, decoder'.value, DecoderOverlong(decoder'), scm, scm')
           /\ \/ scmReported' = scmReported
              \/ /\ DecoderEnds(decoder, Head(stream)) /\ DecoderOverlong(decoder') = 2
                 /\ scmReported' = Report(scm)
<1>1. CASE ScmByteKept
  BY <1>1 DEF ScmByte, ScmByteKept
<1>2. CASE ScmIntegerEnds
  <2> DEFINE v == decoder'.value
             o == DecoderOverlong(decoder')
  <2>0. DecoderEnds(decoder, Head(stream))
    BY <1>2 DEF ScmIntegerEnds
  <2>1. ScmMarker(v, o) \/ ScmPacketStarts(v, o) \/ ScmZeros(v, o) \/ ScmCell(v, o) \/ ScmIgnores(v, o)
    BY <1>2 DEF ScmIntegerEnds
  <2> HIDE DEF v, o
  <2>2. ScmMoves(measured, v, o, scm, scm')
    BY <2>1 DEF ScmMoves, ScmMarker, ScmPacketStarts, ScmZeros, ScmCell, ScmIgnores
  <2>3. scmReported' = scmReported \/ (o = 2 /\ scmReported' = Report(scm))
    BY <2>1 DEF ScmMarker, ScmPacketStarts, ScmZeros, ScmCell, ScmIgnores
  <2> QED
    BY <2>0, <2>2, <2>3 DEF ScmByte, v, o
<1> QED
  BY <1>1, <1>2 DEF ScmByte

LEMMA HeadAndTail ==
    ASSUME NEW b \in Seq(ScmBytes), b # <<>>
    PROVE  Head(b) \in ScmBytes /\ Tail(b) \in Seq(ScmBytes)
OBVIOUS

LEMMA FlippedTyped ==
    ASSUME NEW b \in ScmBytes
    PROVE  Flipped(b) \in ScmBytes
<1> DEFINE x == IF b.bits % 2 = 0 /\ b.size < 7 THEN b.bits + 1 ELSE (IF b.bits > 0 THEN b.bits - 1 ELSE 0)
<1>1. b.bits \in Nat
  BY DEF ScmBytes
<1>2. x \in Nat
  BY <1>1
<1>3. Flipped(b) = [b EXCEPT !.bits = x]
  BY DEF Flipped
<1> HIDE DEF x
<1> QED
  BY <1>2, <1>3 DEF ScmBytes

LEMMA ScmInvByte == ASSUME ScmInv, ScmByte PROVE ScmInv'
<1>0. ScmTypes /\ OnItsWay(measured, lossIn, stream, decoder, scm) /\ FragmentsUnpack
  BY DEF ScmInv
<1>1. /\ stream # <<>> /\ stream' = Tail(stream) /\ decoder' = DecoderFed(decoder, Head(stream))
      /\ measured' = measured /\ lossIn' = lossIn
      /\ \/ ~DecoderEnds(decoder, Head(stream)) /\ scm' = scm
         \/ /\ DecoderEnds(decoder, Head(stream))
            /\ ScmMoves(measured, decoder'.value, DecoderOverlong(decoder'), scm, scm')
      /\ scmReported' = scmReported \/ scmReported' = Report(scm)
  BY ByteOutcome
<1>2. /\ measured \in Seq(Measurements) /\ stream \in Seq(ScmBytes) /\ decoder \in Decoders
      /\ scm \in ScmStates /\ scm.stamp <= Len(measured)
  BY <1>0 DEF ScmTypes
<1>3. stream' \in Seq(ScmBytes) /\ decoder' \in Decoders /\ decoder'.value \in Nat
  <2>1. Head(stream) \in ScmBytes /\ Tail(stream) \in Seq(ScmBytes)
    BY <1>1, <1>2, HeadAndTail
  <2>2. decoder' \in Decoders
    BY <1>1, <1>2, <2>1, DecoderTyped
  <2> QED
    BY <1>1, <2>1, <2>2 DEF Decoders
<1>4. scm' \in ScmStates /\ scm'.stamp <= Len(measured)
  BY <1>1, <1>2, <1>3, MovesTyped
<1>5. ScmTypes'
  BY <1>0, <1>1, <1>3, <1>4 DEF ScmTypes
<1>6. OnItsWay(measured, lossIn, Tail(stream), DecoderFed(decoder, Head(stream)), scm')
  BY <1>0, <1>1, <1>2, ByteKeepsWay
<1>7. OnItsWay(measured, lossIn, stream, decoder, scm)'
  BY <1>1, <1>6
<1>8. FragmentsUnpack'
  BY <1>0, <1>1, <1>2, FragmentsUnpackIs, ReportUnpacks
<1> QED
  BY <1>5, <1>7, <1>8 DEF ScmInv

LEMMA ScmInvInit == ScmInit => ScmInv
<1> SUFFICES ASSUME ScmInit PROVE ScmInv
  OBVIOUS
<1>0. HistogramSize \in Nat \ {0} /\ NumScintillators \in Nat \ {0} /\ MaxPackets \in Nat
  BY ScmNumbers
<1>1. /\ measured = <<>> /\ stream = <<>> /\ lossIn = 0 /\ decoder = DecoderReset
      /\ scm = StartHistogram(1, 0) /\ scmReported = NothingReported
  BY DEF ScmInit
<1>2. Len(measured) = 0 /\ measured \in Seq(Measurements) /\ stream \in Seq(ScmBytes) /\ lossIn \in 0 .. 0
  BY <1>1
<1>3. 1 \in 1 .. NumScintillators /\ 0 \in Nat
  BY <1>0
<1>4. scm \in ScmStates /\ scm.histogram = Empty /\ scm.stamp = 0
  BY <1>1, <1>3, StartIs
<1>5. decoder \in Decoders
  BY <1>1 DEF DecoderReset, Decoders
<1>6. ScmTypes
  BY <1>0, <1>2, <1>4, <1>5 DEF ScmTypes
<1>7. OnItsWay(measured, lossIn, stream, decoder, scm)
  BY <1>1, <1>2, <1>4 DEF OnItsWay, LastWasWhole
<1>8. FragmentsUnpack
  <2>1. scmReported.stamp = 0
    BY <1>1 DEF NothingReported
  <2> QED
    BY <2>1 DEF FragmentsUnpack
<1> QED
  BY <1>6, <1>7, <1>8 DEF ScmInv

LEMMA ScmInvSends == ASSUME ScmInv, NEW hs \in Measurements, ScmSends(hs) PROVE ScmInv'
<1>0. ScmTypes /\ OnItsWay(measured, lossIn, stream, decoder, scm) /\ FragmentsUnpack
  BY DEF ScmInv
<1>1. /\ stream = <<>> /\ Len(measured) < MaxPackets
      /\ measured' = Append(measured, hs) /\ stream' = PacketBytes(hs)
      /\ lossIn' = lossIn /\ decoder' = decoder /\ scm' = scm /\ scmReported' = scmReported
  BY DEF ScmSends
<1>2. /\ measured \in Seq(Measurements) /\ Len(measured) \in Nat /\ lossIn \in 0 .. Len(measured)
      /\ scm \in ScmStates /\ scm.stamp <= Len(measured) /\ scm.stamp \in Nat /\ MaxPackets \in Nat
  BY <1>0, ScmNumbers DEF ScmTypes, ScmStates
<1>3. PacketBytes(hs) \in Seq(ScmBytes) /\ OnItsWay(measured', lossIn, PacketBytes(hs), decoder, scm)
  BY <1>0, <1>1, <1>2, PacketOnItsWay
<1>4. measured' \in Seq(Measurements) /\ Len(measured') = Len(measured) + 1
  BY <1>1, <1>2
<1>5. Len(measured') <= MaxPackets /\ lossIn \in 0 .. Len(measured') /\ scm.stamp <= Len(measured')
  BY <1>1, <1>2, <1>4
<1>6. ScmTypes'
  BY <1>0, <1>1, <1>3, <1>4, <1>5 DEF ScmTypes
<1>7. OnItsWay(measured, lossIn, stream, decoder, scm)'
  BY <1>1, <1>3
<1>8. FragmentsUnpack'
  BY <1>0, <1>1, FragmentsUnpackIs
<1> QED
  BY <1>6, <1>7, <1>8 DEF ScmInv

LEMMA ScmInvHarmed == ASSUME ScmInv, ByteHarmed PROVE ScmInv'
<1>0. ScmTypes /\ OnItsWay(measured, lossIn, stream, decoder, scm) /\ FragmentsUnpack
  BY DEF ScmInv
<1>1. /\ stream # <<>> /\ lossIn' = Len(measured)
      /\ stream' \in {Tail(stream), <<Flipped(Head(stream))>> \o Tail(stream)}
      /\ measured' = measured /\ decoder' = decoder /\ scm' = scm /\ scmReported' = scmReported
  BY DEF ByteHarmed
<1>2. stream \in Seq(ScmBytes) /\ Len(measured) \in Nat /\ Len(measured) > 0 /\ Len(measured) # 0
  BY <1>0, <1>1 DEF ScmTypes, OnItsWay
<1>3. stream' \in Seq(ScmBytes)
  <2>1. Head(stream) \in ScmBytes /\ Tail(stream) \in Seq(ScmBytes)
    BY <1>1, <1>2, HeadAndTail
  <2>2. <<Flipped(Head(stream))>> \in Seq(ScmBytes)
    BY <2>1, FlippedTyped
  <2>3. <<Flipped(Head(stream))>> \o Tail(stream) \in Seq(ScmBytes)
    BY <2>1, <2>2, ConcatProperties
  <2> QED
    BY <1>1, <2>1, <2>3
<1>4. ScmTypes'
  BY <1>0, <1>1, <1>2, <1>3 DEF ScmTypes
<1>5. OnItsWay(measured, lossIn, stream, decoder, scm)'
  BY <1>1, <1>2 DEF OnItsWay, LastWasWhole
<1>6. FragmentsUnpack'
  BY <1>0, <1>1, FragmentsUnpackIs
<1> QED
  BY <1>4, <1>5, <1>6 DEF ScmInv

LEMMA ScmInvSilent == ASSUME ScmInv, ScmSilent PROVE ScmInv'
<1>0. ScmTypes /\ OnItsWay(measured, lossIn, stream, decoder, scm) /\ FragmentsUnpack
  BY DEF ScmInv
<1>1. /\ stream = <<>> /\ scm' = [scm EXCEPT !.stamp = 0]
      /\ measured' = measured /\ lossIn' = lossIn /\ stream' = stream /\ decoder' = decoder
      /\ scmReported' = scmReported
  BY DEF ScmSilent
<1>2. scm \in ScmStates /\ Len(measured) \in Nat
  BY <1>0 DEF ScmTypes
<1>3. scm' \in ScmStates /\ scm'.index = scm.index /\ scm'.histogram = scm.histogram /\ scm'.stamp = 0
  <2>1. \A t : t = [scm EXCEPT !.stamp = 0]
                 => t \in ScmStates /\ t.index = scm.index /\ t.histogram = scm.histogram /\ t.stamp = 0
    BY <1>2, StampedIs
  <2> QED
    BY <1>1, <2>1
<1>4. ScmTypes'
  BY <1>0, <1>1, <1>2, <1>3 DEF ScmTypes
<1>5. LastWasWhole(measured, lossIn, scm, Len(measured))
  BY <1>0, <1>1 DEF OnItsWay
<1>6. LastWasWhole(measured, lossIn, scm', Len(measured))
  BY <1>3, <1>5, StampedWhole
<1>7. OnItsWay(measured, lossIn, stream, decoder, scm)'
  BY <1>1, <1>6 DEF OnItsWay
<1>8. FragmentsUnpack'
  BY <1>0, <1>1, FragmentsUnpackIs
<1> QED
  BY <1>4, <1>7, <1>8 DEF ScmInv

LEMMA ScmInvNext == ScmInv /\ [ScmNext]_scmVars => ScmInv'
<1>1. CASE ScmInv /\ UNCHANGED scmVars
  BY <1>1 DEF scmVars, ScmInv, ScmTypes, OnItsWay, FragmentsUnpack
<1> QED
  BY <1>1, ScmInvByte, ScmInvHarmed, ScmInvSilent, ScmInvSends DEF ScmNext

(* A histogram is reported at the marker of the next one. *)
LEMMA ScmReports ==
    ScmInv /\ [ScmNext]_scmVars /\ scmReported' # scmReported
        => lossIn \in {Len(measured), Len(measured) - 1} \ {0} \/ scmReported'.histogram \in MeasuredAs(scmReported')
<1> SUFFICES ASSUME ScmInv, ScmNext, scmReported' # scmReported, lossIn \notin {Len(measured), Len(measured) - 1} \ {0}
             PROVE  scmReported'.histogram \in MeasuredAs(scmReported')
  BY DEF scmVars
<1>0. ScmByte
  BY DEF ScmNext, ByteHarmed, ScmSilent, ScmSends
<1>1. /\ stream # <<>> /\ decoder' = DecoderFed(decoder, Head(stream))
      /\ DecoderEnds(decoder, Head(stream)) /\ DecoderOverlong(decoder') = 2 /\ scmReported' = Report(scm)
      /\ measured' = measured
  BY <1>0, ByteOutcome
<1>2. /\ OnItsWay(measured, lossIn, stream, decoder, scm) /\ measured \in Seq(Measurements) /\ lossIn \in 0 .. Len(measured)
      /\ Len(measured) \in Nat
  BY DEF ScmInv, ScmTypes
<1>3. Len(measured) > 0 /\ lossIn # Len(measured)
  BY <1>1, <1>2 DEF OnItsWay
<1>4. PICK i, c : <<i, c>> \in ScmPlaces /\ \E k \in Nat : AtInteger(measured, lossIn, stream, decoder, scm, i, c, k)
  BY <1>1, <1>2, <1>3 DEF OnItsWay
<1>5. PICK k \in Nat : AtInteger(measured, lossIn, stream, decoder, scm, i, c, k)
  BY <1>4
<1> DEFINE hs == measured[Len(measured)]
<1>6. IntegerAt(hs, i, c)[2] = 2
  <2>1. MovesOn(measured, stream, decoder, i, c, k)
    BY <1>2, <1>3, <1>4, <1>5, ByteIs
  <2> QED
    BY <1>1, <2>1 DEF MovesOn
<1>7. /\ NumScintillators \in Nat \ {0} /\ HistogramSize \in Nat \ {0} /\ hs \in Measurements
      /\ Len(measured) \in DOMAIN measured
  BY <1>2, <1>3, ScmNumbers
<1>8. i \in 1 .. NumScintillators /\ i # 0 /\ c = 0
  <2>1. (i = 0 /\ c = 0) \/ (i \in 1 .. NumScintillators /\ c \in 0 .. HistogramSize)
    BY <1>4, PlaceIs
  <2>2. ~(i = 0)
    BY <1>6 DEF IntegerAt
  <2>3. ASSUME i \in 1 .. NumScintillators, c \in 1 .. HistogramSize PROVE FALSE
    <3>1. hs[i] \in Histograms /\ Len(hs[i]) = HistogramSize
      BY <1>7, <2>3, MeasurementIs
    <3>2. RunCode(hs[i], c)[2] \in {0, 1}
      BY <2>3, <3>1, RunCodeIs
    <3>3. c # 0
      BY <2>3
    <3>4. IntegerAt(hs, i, c) = RunCode(hs[i], c)
      BY <2>2, <3>3 DEF IntegerAt
    <3> QED
      BY <1>6, <3>2, <3>4
  <2>4. c \in 0 .. HistogramSize => c = 0 \/ c \in 1 .. HistogramSize
    BY <1>7
  <2> QED
    BY <2>1, <2>2, <2>3, <2>4
<1>9. ScmBefore(measured, lossIn, scm, i, 0)
  BY <1>5, <1>8 DEF AtInteger
<1>10. scm.stamp = Len(measured)
  BY <1>8, <1>9 DEF ScmBefore, CollectedTo
<1>11. scmReported'.index = scm.index /\ scmReported'.stamp = Len(measured) /\ scmReported'.histogram = scm.histogram
  BY <1>1, <1>10 DEF Report
<1>12. \A n : \A p \in DOMAIN measured : FilledTo(measured[p][n], HistogramSize + 1) = Cells(p, n)
  <2>1. \A j \in 1 .. HistogramSize : j < HistogramSize + 1
    BY <1>7
  <2> QED
    BY <2>1 DEF FilledTo, Cells
<1>13. \/ scm.histogram = Empty
       \/ \E p \in {Len(measured) - 1, Len(measured)} \cap DOMAIN measured : scm.histogram = Cells(p, scm.index)
  <2>1. CASE i = 1
    <3>1. LastWasWhole(measured, lossIn, scm, Len(measured) - 1)
      BY <1>8, <1>9, <2>1 DEF ScmBefore
    <3>2. CASE Len(measured) - 1 = 0
      BY <3>1, <3>2 DEF LastWasWhole
    <3>3. CASE Len(measured) - 1 # 0
      <4>1. lossIn # Len(measured) - 1 /\ Len(measured) - 1 \in DOMAIN measured
        <5>1. lossIn # Len(measured) - 1
          BY <3>3
        <5>2. Len(measured) - 1 \in 1 .. Len(measured)
          <6>1. \A x \in Nat : x > 0 /\ x - 1 # 0 => x - 1 \in 1 .. x
            OBVIOUS
          <6> QED
            BY <1>2, <1>3, <3>3, <6>1
        <5> QED
          BY <1>2, <5>1, <5>2
      <4>2. /\ scm.index = NumScintillators
            /\ scm.histogram = FilledTo(measured[Len(measured) - 1][NumScintillators], HistogramSize + 1)
        BY <3>1, <3>3, <4>1 DEF LastWasWhole
      <4> QED
        BY <1>12, <4>1, <4>2
    <3> QED
      BY <3>2, <3>3
  <2>2. CASE i # 1
    <3>1. CollectedTo(measured, scm, i - 1, HistogramSize + 1)
      BY <1>8, <1>9, <2>2 DEF ScmBefore
    <3> QED
      BY <1>7, <1>12, <3>1 DEF CollectedTo
  <2> QED
    BY <2>1, <2>2
<1> QED
  <2>1. CASE scm.histogram = Empty
    BY <1>11, <2>1 DEF MeasuredAs
  <2>2. CASE \E p \in {Len(measured) - 1, Len(measured)} \cap DOMAIN measured : scm.histogram = Cells(p, scm.index)
    BY <1>11, <2>2 DEF MeasuredAs
  <2> QED
    BY <1>13, <2>1, <2>2

LEMMA ScmInvTypes == ScmInv => ScmTypeOK /\ FragmentsUnpack
<1> SUFFICES ASSUME ScmInv PROVE ScmTypeOK
  BY DEF ScmInv
<1>1. ScmTypes
  BY DEF ScmInv
<1>2. Len(measured) \in Nat /\ MaxPackets \in Nat /\ Len(measured) <= MaxPackets
  BY <1>1, ScmNumbers DEF ScmTypes
<1>3. /\ scm.index \in 1 .. NumScintillators /\ scm.next \in 1 .. HistogramSize + 1
      /\ scm.stamp \in Nat /\ scm.stamp <= Len(measured)
  BY <1>1 DEF ScmTypes, ScmStates
<1> QED
  BY <1>1, <1>2, <1>3 DEF ScmTypes, ScmTypeOK

(* A step of any part is a step of the SCM or leaves it alone. *)
LEMMA ScmPartNext == [ModulesNext]_modulesVars => [ScmNext]_scmVars
BY DEF ModulesNext, modulesVars, Only, Flash, Sd, Imu, Mag, Adc

(* For any number of scintillators and cells, any size of the fragments    *)
(* and any histograms that the SCM measures: the fragments of a report     *)
(* join to the packed histogram, which has the size that was calculated    *)
(* for it and unpacks to the histogram again, and unless a byte was harmed *)
(* in its packet or the one before, the histogram is the one that its      *)
(* scintillator measured.                                                  *)
THEOREM MeasurementsCorrect == ModulesSpec => MeasurementsRight
<1>1. ModulesInit => ScmInv
  BY ScmInvInit DEF ModulesInit
<1>2. ScmInv /\ [ModulesNext]_modulesVars => ScmInv'
  BY ScmInvNext, ScmPartNext
<1>3. ScmInv => (part = "scm" => ScmTypeOK /\ FragmentsUnpack)
  BY ScmInvTypes
<1>4. ScmInv /\ [ModulesNext]_modulesVars =>
        [scmReported' # scmReported => lossIn \in {Len(measured), Len(measured) - 1} \ {0}
                               \/ scmReported'.histogram \in MeasuredAs(scmReported')]_scmVars
  BY ScmReports, ScmPartNext DEF scmVars
<1> QED
  BY <1>1, <1>2, <1>3, <1>4, PTL DEF ModulesSpec, MeasurementsRight, ReportsAreMeasured
=============================================================================

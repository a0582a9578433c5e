---------------------------- MODULE LinksProofs ----------------------------
(***************************************************************************)
(* Proofs about what carries data: the queue, the ring buffer, a UART, the *)
(* USB device with its serial port, and the SPI bus.  A step of one session*)
(* leaves the state of the others alone, so the invariant of each part is  *)
(* inductive for the steps of all of them.                                 *)
(***************************************************************************)
EXTENDS MCLinks, FiniteSetTheorems, SequenceTheorems, WellFoundedInduction, TLAPS

---------------------------------------------------------------------------
(* The queue.  For any tasks, messages and limit it keeps its types and    *)
(* its limit, implements the bounded first in, first out queue, and loses  *)
(* no wakeup.                                                              *)

(* Which task is in which method, and where it can be in it. *)
Places_OK ==
    \A t \in Callers :
        /\ op[t] \in Fifo!Sends \cup {"close"} => t \in Senders
        /\ op[t] \in Fifo!ReceiverOps => t \in Receivers
        /\ pc[t] = "idle" => op[t] \in Fifo!Results
        /\ pc[t] = "wait" => op[t] = "receive" /\ items = <<>>
        /\ pc[t] = "asleep" => op[t] \in {"send", "receive"}
        /\ pc[t] = "woken" => op[t] \in {"send", "receive"}
        /\ pc[t] = "notify" => op[t] = "close" /\ is_closed

IInv == TypeOK /\ Places_OK

USE DEF Callers, Fifo!Callers

LEMMA InitIInv == Init => IInv
<1> SUFFICES ASSUME Init PROVE IInv
  OBVIOUS
<1> USE DEF Init, Fifo!Init
<1>1. items \in Seq(Messages) /\ Len(items) \in 0..Limit
  BY LimitAssumption
<1>2. op \in [Callers -> Fifo!Ops \cup Fifo!Results] /\ pc \in [Callers -> Places]
  BY DEF Fifo!Results, Places
<1>3. TypeOK
  BY <1>1, <1>2 DEF TypeOK
<1>4. Places_OK
  BY DEF Places_OK, Fifo!Results, Fifo!Sends, Fifo!ReceiverOps
<1> QED BY <1>3, <1>4 DEF IInv

(* The tasks that are notified are some of the sleeping ones. *)
LEMMA NotifiedSleep ==
    ASSUME NEW n, NEW S, NEW w \in Notified(n, S) PROVE w \subseteq S
BY DEF Notified

(* A place for one task, "woken" for some others. *)
LEMMA MovedType ==
    ASSUME pc \in [Callers -> Places], NEW t \in Callers, NEW p \in Places, NEW w
    PROVE  /\ Moved(t, p, w) \in [Callers -> Places]
           /\ Moved(t, p, w)[t] = p
           /\ \A u \in Callers \ {t} :
                Moved(t, p, w)[u] = IF u \in w THEN "woken" ELSE pc[u]
BY DEF Moved, Places

LEMMA StepIInv == IInv /\ [Next]_vars => IInv'
<1> SUFFICES ASSUME IInv, [Next]_vars PROVE IInv'
  OBVIOUS
<1> USE DEF IInv
<1>names. /\ Fifo!Results = {"ok", "refused"}
          /\ Fifo!Sends = {"send", "send_or_drop"}
          /\ Fifo!ReceiverOps = {"receive", "clear"}
          /\ Fifo!Ops = {"send", "send_or_drop", "receive", "clear", "close"}
  BY DEF Fifo!Results, Fifo!Sends, Fifo!ReceiverOps, Fifo!Ops
<1>1. ASSUME UNCHANGED vars PROVE IInv'
  BY <1>1 DEF vars, TypeOK, Places_OK
<1>2. ASSUME NEW t \in Callers, Call(t) PROVE IInv'
  <2> USE <1>2, <1>names DEF Call, Fifo!Call
  <2>1. TypeOK' BY DEF TypeOK, Places
  <2>2. Places_OK'
    BY CallersAssumption DEF TypeOK, Places, Places_OK
  <2> QED BY <2>1, <2>2
<1>3. ASSUME NEW t \in Callers, Refuse(t) PROVE IInv'
  <2> USE <1>3, <1>names DEF Refuse, Return, Fifo!Return, Moved
  <2>1. TypeOK' BY DEF TypeOK, Places
  <2>2. Places_OK' BY DEF TypeOK, Places_OK
  <2> QED BY <2>1, <2>2
<1>4. ASSUME NEW t \in Callers, Push(t) PROVE IInv'
  <2> USE <1>4, <1>names
  <2>1. PICK w \in Notified(1, SleepingReceivers) : Return(t, "ok", w)
    BY DEF Push
  <2>2. \A u \in w : u \in Receivers /\ pc[u] = "asleep"
    BY <2>1, NotifiedSleep DEF SleepingReceivers
  <2>3. /\ op[t] \in Fifo!Sends /\ t \in Senders /\ Unlocked
        /\ items' = Append(items, message[t]) /\ Len(items) < Limit
        /\ UNCHANGED is_closed
    BY DEF Push, Locks, Places_OK
  <2>4. items' \in Seq(Messages) /\ Len(items') = Len(items) + 1
    BY <2>3 DEF TypeOK
  <2>5. TypeOK'
    BY <2>1, <2>3, <2>4, LimitAssumption DEF TypeOK, Return, Fifo!Return, Moved, Places
  <2>6. Places_OK'
    BY <2>1, <2>2, <2>3 DEF TypeOK, Places_OK, Return, Fifo!Return, Moved, Unlocked
  <2> QED BY <2>5, <2>6
<1>5. ASSUME NEW t \in Callers, WaitForRoom(t) \/ WakeUp(t) \/ Wait(t) PROVE IInv'
  <2> USE <1>5, <1>names DEF WaitForRoom, WakeUp, Wait, Locks, Moved
  <2>1. TypeOK' BY DEF TypeOK, Places
  <2>2. Places_OK' BY DEF TypeOK, Places_OK
  <2> QED BY <2>1, <2>2
<1>6. ASSUME NEW t \in Callers, Pop(t) PROVE IInv'
  <2> USE <1>6, <1>names
  <2>1. PICK w \in Notified(1, SleepingSenders) : Return(t, "ok", w)
    BY DEF Pop
  <2>2. \A u \in w : u \in Senders /\ pc[u] = "asleep"
    BY <2>1, NotifiedSleep DEF SleepingSenders
  <2>3. /\ op[t] = "receive" /\ Unlocked /\ items # <<>>
        /\ items' = Tail(items) /\ UNCHANGED is_closed
    BY DEF Pop, Locks
  <2>4. items' \in Seq(Messages) /\ Len(items') = Len(items) - 1 /\ Len(items) > 0
    BY <2>3 DEF TypeOK
  <2>5. TypeOK'
    BY <2>1, <2>3, <2>4, LimitAssumption DEF TypeOK, Return, Fifo!Return, Moved, Places
  <2>6. Places_OK'
    BY <2>1, <2>2, <2>3 DEF TypeOK, Places_OK, Return, Fifo!Return, Moved, Unlocked
  <2> QED BY <2>5, <2>6
<1>7. ASSUME NEW t \in Callers, PopClosed(t) PROVE IInv'
  <2> USE <1>7, <1>names DEF PopClosed, Return, Fifo!Return, Moved
  <2>1. TypeOK' BY DEF TypeOK, Places
  <2>2. Places_OK' BY DEF TypeOK, Places_OK
  <2> QED BY <2>1, <2>2
<1>8. ASSUME NEW t \in Callers, FoundEmpty(t) PROVE IInv'
  <2> USE <1>8, <1>names DEF FoundEmpty, Locks, Moved
  <2>1. TypeOK' BY DEF TypeOK, Places
  <2>2. Places_OK' BY DEF TypeOK, Places_OK
  <2> QED BY <2>1, <2>2
<1>9. ASSUME NEW t \in Callers, Clear(t) PROVE IInv'
  <2> USE <1>9, <1>names
  <2>1. PICK w \in Notified(Len(items), SleepingSenders) : Return(t, "ok", w)
    BY DEF Clear
  <2>2. \A u \in w : u \in Senders /\ pc[u] = "asleep"
    BY <2>1, NotifiedSleep DEF SleepingSenders
  <2>3. items' = <<>> /\ UNCHANGED is_closed /\ Unlocked /\ op[t] = "clear"
    BY DEF Clear, Locks
  <2>4. items' \in Seq(Messages) /\ Len(items') = 0
    BY <2>3
  <2>5. TypeOK'
    BY <2>1, <2>3, <2>4, LimitAssumption DEF TypeOK, Return, Fifo!Return, Moved, Places
  <2>6. Places_OK'
    BY <2>1, <2>2, <2>3 DEF TypeOK, Places_OK, Return, Fifo!Return, Moved, Unlocked
  <2> QED BY <2>5, <2>6
<1>10. ASSUME NEW t \in Callers, AlreadyClosed(t) \/ Close(t) PROVE IInv'
  <2> USE <1>10, <1>names DEF AlreadyClosed, Close, Return, Fifo!Return, Moved
  <2>1. TypeOK' BY DEF TypeOK, Places
  <2>2. Places_OK' BY DEF TypeOK, Places_OK
  <2> QED BY <2>1, <2>2
<1>11. ASSUME NEW t \in Callers, CloseNotify(t) PROVE IInv'
  <2> USE <1>11, <1>names DEF CloseNotify, Return, Fifo!Return, Moved, SleepingReceivers
  <2>1. TypeOK' BY DEF TypeOK, Places
  <2>2. Places_OK' BY DEF TypeOK, Places_OK
  <2> QED BY <2>1, <2>2
<1> QED
  BY <1>1, <1>2, <1>3, <1>4, <1>5, <1>6, <1>7, <1>8, <1>9, <1>10, <1>11 DEF Next, Step

(* The inductive invariant holds in every state. *)
LEMMA Inductive == Spec => []IInv
BY InitIInv, StepIInv, PTL DEF Spec

(* Every variable keeps its type, and the queue never holds more messages  *)
(* than its limit: std::queue itself has none.                             *)
THEOREM TypeCorrect == Spec => []TypeOK
BY Inductive, PTL DEF IInv
---------------------------------------------------------------------------
(* Every step of the queue is a step of the bounded queue or does not      *)
(* change what a caller can see.                                           *)
LEMMA StepFifo == IInv /\ [Next]_vars => [Fifo!Next]_(Fifo!fifoVars)
<1> SUFFICES ASSUME IInv, [Next]_vars, ~UNCHANGED Fifo!fifoVars PROVE Fifo!Next
  OBVIOUS
<1> USE DEF Fifo!fifoVars
<1>1. PICK t \in Callers : Call(t) \/ Step(t) \/ WakeUp(t)
  BY DEF Next, vars
<1>2. CASE Call(t)
  BY <1>2 DEF Call, Fifo!Next
<1>3. CASE Refuse(t)
  BY <1>3, LimitAssumption DEF Refuse, Locks, Return, Fifo!Next, Fifo!Refuse, IInv, TypeOK
<1>4. CASE Push(t)
  BY <1>4 DEF Push, Locks, Return, Fifo!Next, Fifo!Put
<1>5. CASE Pop(t)
  BY <1>5 DEF Pop, Locks, Return, Fifo!Next, Fifo!Take
<1>6. CASE PopClosed(t)
  BY <1>6 DEF PopClosed, Locks, Return, Fifo!Next, Fifo!End
<1>7. CASE Clear(t)
  BY <1>7 DEF Clear, Locks, Return, Fifo!Next, Fifo!Clear
<1>8. CASE AlreadyClosed(t)
  BY <1>8 DEF AlreadyClosed, Return, Fifo!Next, Fifo!Closed
<1>9. CASE Close(t)
  BY <1>9 DEF Close, Fifo!Next, Fifo!Close
<1>10. CASE CloseNotify(t)
  <2>1. op[t] = "close" /\ is_closed
    BY <1>10 DEF CloseNotify, IInv, Places_OK
  <2> QED BY <1>10, <2>1 DEF CloseNotify, Return, Fifo!Next, Fifo!Closed
<1>11. CASE WaitForRoom(t) \/ FoundEmpty(t) \/ Wait(t) \/ WakeUp(t)
  BY <1>11 DEF WaitForRoom, FoundEmpty, Wait, WakeUp
<1> QED
  BY <1>1, <1>2, <1>3, <1>4, <1>5, <1>6, <1>7, <1>8, <1>9, <1>10, <1>11 DEF Step

(* The queue with its mutex, its condition variables, spurious wakeups and *)
(* unsynchronised close() implements the bounded first in, first out       *)
(* queue: messages are neither lost, duplicated nor reordered, and a call  *)
(* is refused only when the queue is closed, or full for send_or_drop().   *)
THEOREM Implements == Spec => ImplementsFifo
<1>1. Init => Fifo!Init
  BY DEF Init
<1> QED
  BY <1>1, StepFifo, Inductive, PTL DEF Spec, Fifo!Spec, ImplementsFifo
---------------------------------------------------------------------------
(* What the notifications do to the numbers of sleeping and woken tasks. *)
LEMMA OneNotified ==
    ASSUME NEW S, IsFiniteSet(S), NEW w \in Notified(1, S), S \ w # {}
    PROVE  IsFiniteSet(w) /\ w \subseteq S /\ Cardinality(w) = 1
<1>1. w \subseteq S /\ IsFiniteSet(w)
  BY FS_Subset DEF Notified
<1>2. Cardinality(S) \in Nat /\ Cardinality(S) # 0
  BY FS_CardinalityType, FS_EmptySet
<1>3. Cardinality(w) = IF 1 < Cardinality(S) THEN 1 ELSE Cardinality(S)
  BY DEF Notified
<1> QED BY <1>1, <1>2, <1>3

LEMMA ManyNotified ==
    ASSUME NEW n \in Nat, NEW S, IsFiniteSet(S), NEW w \in Notified(n, S), S \ w # {}
    PROVE  IsFiniteSet(w) /\ w \subseteq S /\ Cardinality(w) = n
<1>1. w \subseteq S /\ IsFiniteSet(w) /\ w # S
  BY FS_Subset DEF Notified
<1>2. Cardinality(w) # Cardinality(S)
  BY <1>1, FS_Subset
<1>3. Cardinality(w) = IF n < Cardinality(S) THEN n ELSE Cardinality(S)
  BY DEF Notified
<1> QED BY <1>1, <1>2, <1>3

LEMMA WokenGrow ==
    ASSUME NEW A, IsFiniteSet(A), NEW w, IsFiniteSet(w), A \cap w = {}
    PROVE  /\ IsFiniteSet(A \cup w)
           /\ Cardinality(A \cup w) = Cardinality(A) + Cardinality(w)
           /\ Cardinality(A) \in Nat
<1>1. Cardinality(A \cap w) = 0
  BY FS_EmptySet
<1>2. Cardinality(A) \in Nat /\ Cardinality(w) \in Nat
  BY FS_CardinalityType
<1>3. /\ IsFiniteSet(A \cup w)
      /\ Cardinality(A \cup w) = Cardinality(A) + Cardinality(w) - Cardinality(A \cap w)
  BY FS_Union
<1> QED BY <1>1, <1>2, <1>3

LEMMA WokenShrink ==
    ASSUME NEW A, IsFiniteSet(A), NEW t
    PROVE  /\ IsFiniteSet(A \ {t}) /\ Cardinality(A) \in Nat
           /\ Cardinality(A \ {t}) \in Nat /\ Cardinality(A \ {t}) >= Cardinality(A) - 1
BY FS_RemoveElement, FS_CardinalityType

LEMMA TasksFinite ==
    /\ IsFiniteSet(SleepingSenders) /\ IsFiniteSet(SleepingReceivers)
    /\ IsFiniteSet(Woken(Senders)) /\ IsFiniteSet(Woken(Receivers))
<1>1. SleepingSenders \subseteq Callers /\ SleepingReceivers \subseteq Callers
  BY DEF SleepingSenders, SleepingReceivers
<1>2. Woken(Senders) \subseteq Callers /\ Woken(Receivers) \subseteq Callers
  BY DEF Woken
<1> QED BY <1>1, <1>2, CallersAssumption, FS_Subset

(* NoLostWakeup of each kind of task. *)
NoLostReceiver == SleepingReceivers # {} => Len(items) <= Cardinality(Woken(Receivers))
NoLostSender == SleepingSenders # {} => Limit - Len(items) <= Cardinality(Woken(Senders))

LEMMA StepReceivers == IInv /\ NoLostReceiver /\ [Next]_vars => NoLostReceiver'
<1> SUFFICES ASSUME IInv, NoLostReceiver, [Next]_vars, (SleepingReceivers # {})'
             PROVE  Len(items)' <= Cardinality(Woken(Receivers))'
  BY DEF NoLostReceiver
<1>len. Len(items) \in Nat /\ Len(items)' \in Nat
  BY StepIInv DEF IInv, TypeOK
<1>fin. /\ IsFiniteSet(SleepingReceivers) /\ IsFiniteSet(Woken(Receivers))
        /\ Cardinality(Woken(Receivers)) \in Nat
  BY TasksFinite, FS_CardinalityType
<1>pc. pc \in [Callers -> Places]
  BY DEF IInv, TypeOK
<1>1. CASE UNCHANGED vars
  BY <1>1 DEF vars, NoLostReceiver, SleepingReceivers, Woken
<1>2. ASSUME NEW t \in Callers, Call(t) \/ Refuse(t) \/ AlreadyClosed(t) \/ Close(t)
      PROVE  Len(items)' <= Cardinality(Woken(Receivers))'
  <2>1. pc[t] \notin {"asleep", "woken"} /\ pc'[t] \notin {"asleep", "woken"} /\ items' = items
    BY <1>2, <1>pc DEF Call, Fifo!Call, Refuse, AlreadyClosed, Close, Return, Moved, Locks,
       IInv, Places_OK, Fifo!Results
  <2>2. \A u \in Callers \ {t} : pc'[u] = pc[u]
    BY <1>2, <1>pc DEF Call, Refuse, AlreadyClosed, Close, Return, Moved
  <2>3. SleepingReceivers' = SleepingReceivers /\ Woken(Receivers)' = Woken(Receivers)
    BY <2>1, <2>2 DEF SleepingReceivers, Woken
  <2> QED BY <2>1, <2>3 DEF NoLostReceiver
<1>3. ASSUME NEW t \in Callers, Push(t)
      PROVE  Len(items)' <= Cardinality(Woken(Receivers))'
  <2>1. PICK w \in Notified(1, SleepingReceivers) : Return(t, "ok", w)
    BY <1>3 DEF Push
  <2>2. /\ t \in Senders /\ t \notin Receivers /\ Len(items') = Len(items) + 1
    BY <1>3, CallersAssumption DEF Push, Locks, IInv, TypeOK, Places_OK
  <2>3. /\ SleepingReceivers' = SleepingReceivers \ w
        /\ Woken(Receivers)' = Woken(Receivers) \cup w
        /\ Woken(Receivers) \cap w = {}
    <3>1. w \subseteq SleepingReceivers
      BY NotifiedSleep
    <3>2. \A u \in Receivers : pc'[u] = IF u \in w THEN "woken" ELSE pc[u]
      BY <2>1, <2>2 DEF Return, Moved
    <3> QED BY <3>1, <3>2 DEF SleepingReceivers, Woken
  <2>4. IsFiniteSet(w) /\ Cardinality(w) = 1
    BY <2>1, <2>3, <1>fin, OneNotified
  <2>5. SleepingReceivers # {}
    BY <2>3
  <2>6. Cardinality(Woken(Receivers)') = Cardinality(Woken(Receivers)) + 1
    BY <2>3, <2>4, <1>fin, WokenGrow
  <2> QED BY <2>2, <2>5, <2>6, <1>len, <1>fin DEF NoLostReceiver
<1>4. ASSUME NEW t \in Callers, WaitForRoom(t)
      PROVE  Len(items)' <= Cardinality(Woken(Receivers))'
  <2>1. t \notin Receivers /\ items' = items
    BY <1>4, CallersAssumption DEF WaitForRoom, Locks, IInv, Places_OK, Fifo!Sends
  <2>2. \A u \in Receivers : pc'[u] = pc[u]
    BY <1>4, <2>1 DEF WaitForRoom, Moved
  <2> QED BY <2>1, <2>2 DEF NoLostReceiver, SleepingReceivers, Woken
<1>5. ASSUME NEW t \in Callers, WakeUp(t)
      PROVE  Len(items)' <= Cardinality(Woken(Receivers))'
  <2>1. /\ items' = items /\ pc[t] = "asleep" /\ pc'[t] = "woken"
        /\ \A u \in Callers \ {t} : pc'[u] = pc[u]
    BY <1>5 DEF WakeUp, Moved
  <2>2. SleepingReceivers # {} /\ Woken(Receivers) \subseteq Woken(Receivers)'
    BY <2>1 DEF SleepingReceivers, Woken
  <2>3. IsFiniteSet(Woken(Receivers)')
    BY CallersAssumption, FS_Subset DEF Woken
  <2>4. Cardinality(Woken(Receivers)) <= Cardinality(Woken(Receivers)')
        /\ Cardinality(Woken(Receivers)') \in Nat
    BY <2>2, <2>3, FS_Subset, FS_CardinalityType
  <2> QED BY <2>1, <2>2, <2>4, <1>len, <1>fin DEF NoLostReceiver
<1>6. ASSUME NEW t \in Callers, Pop(t)
      PROVE  Len(items)' <= Cardinality(Woken(Receivers))'
  <2>1. PICK w \in Notified(1, SleepingSenders) : Return(t, "ok", w)
    BY <1>6 DEF Pop
  <2>2. w \cap Receivers = {}
    BY NotifiedSleep, CallersAssumption DEF SleepingSenders
  <2>3. pc[t] \in {"enter", "woken"} /\ pc'[t] = "idle"
        /\ \A u \in Receivers \ {t} : pc'[u] = pc[u]
    BY <1>6, <2>1, <2>2 DEF Pop, Locks, Return, Moved
  <2>4. SleepingReceivers' = SleepingReceivers /\ Woken(Receivers)' = Woken(Receivers) \ {t}
    BY <2>3 DEF SleepingReceivers, Woken
  <2>5. Len(items') = Len(items) - 1
    BY <1>6 DEF Pop, IInv, TypeOK
  <2>6. /\ Cardinality(Woken(Receivers) \ {t}) >= Cardinality(Woken(Receivers)) - 1
        /\ Cardinality(Woken(Receivers) \ {t}) \in Nat
    BY <1>fin, WokenShrink
  <2>7. Len(items) <= Cardinality(Woken(Receivers))
    BY <2>4 DEF NoLostReceiver
  <2> QED BY <2>4, <2>5, <2>6, <2>7, <1>len, <1>fin
<1>7. ASSUME NEW t \in Callers, PopClosed(t) \/ FoundEmpty(t) \/ Wait(t) \/ Clear(t)
      PROVE  Len(items)' <= Cardinality(Woken(Receivers))'
  <2>1. items' = <<>>
    BY <1>7 DEF PopClosed, FoundEmpty, Wait, Clear, IInv, Places_OK
  <2>2. IsFiniteSet(Woken(Receivers)')
    BY CallersAssumption, FS_Subset DEF Woken
  <2>3. Cardinality(Woken(Receivers)') \in Nat
    BY <2>2, FS_CardinalityType
  <2>4. Len(items)' = 0
    BY <2>1
  <2> QED BY <2>3, <2>4
<1>8. ASSUME NEW t \in Callers, CloseNotify(t) PROVE FALSE
  <2>1. \A u \in Callers : u \in SleepingReceivers => pc'[u] # "asleep"
    BY <1>8 DEF CloseNotify, Return, Moved
  <2>2. \A u \in Callers : pc'[u] = "asleep" => pc[u] = "asleep"
    BY <1>8 DEF CloseNotify, Return, Moved
  <2> QED BY <2>1, <2>2 DEF SleepingReceivers
<1> QED
  BY <1>1, <1>2, <1>3, <1>4, <1>5, <1>6, <1>7, <1>8 DEF Next, Step

LEMMA StepSenders == IInv /\ NoLostSender /\ [Next]_vars => NoLostSender'
<1> SUFFICES ASSUME IInv, NoLostSender, [Next]_vars, (SleepingSenders # {})'
             PROVE  Limit - Len(items)' <= Cardinality(Woken(Senders))'
  BY DEF NoLostSender
<1>len. Len(items) \in 0..Limit /\ Len(items)' \in 0..Limit /\ Limit \in Nat
  BY StepIInv, LimitAssumption DEF IInv, TypeOK
<1>fin. /\ IsFiniteSet(SleepingSenders) /\ IsFiniteSet(Woken(Senders))
        /\ Cardinality(Woken(Senders)) \in Nat
  BY TasksFinite, FS_CardinalityType
<1>pc. pc \in [Callers -> Places]
  BY DEF IInv, TypeOK
<1>1. CASE UNCHANGED vars
  BY <1>1 DEF vars, NoLostSender, SleepingSenders, Woken
<1>2. ASSUME NEW t \in Callers,
             \/ Call(t) \/ Refuse(t) \/ AlreadyClosed(t) \/ Close(t)
             \/ PopClosed(t) \/ FoundEmpty(t) \/ Wait(t) \/ CloseNotify(t)
      PROVE  Limit - Len(items)' <= Cardinality(Woken(Senders))'
  <2>1. items' = items
    BY <1>2 DEF Call, Fifo!Call, Refuse, AlreadyClosed, Close, PopClosed, FoundEmpty, Wait,
       CloseNotify
  <2>2. \A u \in Senders : (pc'[u] = "asleep" <=> pc[u] = "asleep")
                          /\ (pc'[u] = "woken" <=> pc[u] = "woken")
    <3>1. CASE Call(t) \/ Refuse(t) \/ AlreadyClosed(t) \/ Close(t)
      BY <3>1, <1>pc DEF Call, Fifo!Call, Refuse, AlreadyClosed, Close, Return, Moved, Locks,
         IInv, Places_OK, Fifo!Results
    <3>2. CASE PopClosed(t) \/ FoundEmpty(t) \/ Wait(t)
      BY <3>2, CallersAssumption DEF PopClosed, FoundEmpty, Wait, Return, Moved, Locks, IInv,
         Places_OK, Fifo!ReceiverOps
    <3>3. CASE CloseNotify(t)
      BY <3>3, CallersAssumption DEF CloseNotify, Return, Moved, SleepingReceivers
    <3> QED BY <1>2, <3>1, <3>2, <3>3
  <2>3. SleepingSenders' = SleepingSenders /\ Woken(Senders)' = Woken(Senders)
    BY <2>2 DEF SleepingSenders, Woken
  <2> QED BY <2>1, <2>3 DEF NoLostSender
<1>3. ASSUME NEW t \in Callers, Push(t)
      PROVE  Limit - Len(items)' <= Cardinality(Woken(Senders))'
  <2>1. PICK w \in Notified(1, SleepingReceivers) : Return(t, "ok", w)
    BY <1>3 DEF Push
  <2>2. w \cap Senders = {}
    BY NotifiedSleep, CallersAssumption DEF SleepingReceivers
  <2>3. pc[t] \in {"enter", "woken"} /\ pc'[t] = "idle"
        /\ \A u \in Senders \ {t} : pc'[u] = pc[u]
    BY <1>3, <2>1, <2>2 DEF Push, Locks, Return, Moved
  <2>4. SleepingSenders' = SleepingSenders /\ Woken(Senders)' = Woken(Senders) \ {t}
    BY <2>3 DEF SleepingSenders, Woken
  <2>5. Len(items') = Len(items) + 1
    BY <1>3 DEF Push, Locks, IInv, TypeOK, Places_OK
  <2>6. /\ Cardinality(Woken(Senders) \ {t}) >= Cardinality(Woken(Senders)) - 1
        /\ Cardinality(Woken(Senders) \ {t}) \in Nat
    BY <1>fin, WokenShrink
  <2>7. Limit - Len(items) <= Cardinality(Woken(Senders))
    BY <2>4 DEF NoLostSender
  <2> QED BY <2>4, <2>5, <2>6, <2>7, <1>len, <1>fin
<1>4. ASSUME NEW t \in Callers, WaitForRoom(t)
      PROVE  Limit - Len(items)' <= Cardinality(Woken(Senders))'
  <2>1. Len(items)' >= Limit
    BY <1>4 DEF WaitForRoom
  <2>2. IsFiniteSet(Woken(Senders)')
    BY CallersAssumption, FS_Subset DEF Woken
  <2>3. Cardinality(Woken(Senders)') \in Nat
    BY <2>2, FS_CardinalityType
  <2> QED BY <2>1, <2>3, <1>len
<1>5. ASSUME NEW t \in Callers, WakeUp(t)
      PROVE  Limit - Len(items)' <= Cardinality(Woken(Senders))'
  <2>1. /\ items' = items /\ pc[t] = "asleep" /\ pc'[t] = "woken"
        /\ \A u \in Callers \ {t} : pc'[u] = pc[u]
    BY <1>5 DEF WakeUp, Moved
  <2>2. SleepingSenders # {} /\ Woken(Senders) \subseteq Woken(Senders)'
    BY <2>1 DEF SleepingSenders, Woken
  <2>3. IsFiniteSet(Woken(Senders)')
    BY CallersAssumption, FS_Subset DEF Woken
  <2>4. Cardinality(Woken(Senders)) <= Cardinality(Woken(Senders)')
        /\ Cardinality(Woken(Senders)') \in Nat
    BY <2>2, <2>3, FS_Subset, FS_CardinalityType
  <2> QED BY <2>1, <2>2, <2>4, <1>len, <1>fin DEF NoLostSender
<1>6. ASSUME NEW t \in Callers, Pop(t) \/ Clear(t)
      PROVE  Limit - Len(items)' <= Cardinality(Woken(Senders))'
  <2> DEFINE n == IF Pop(t) THEN 1 ELSE Len(items)
  <2>1. PICK w \in Notified(n, SleepingSenders) : Return(t, "ok", w)
    BY <1>6 DEF Pop, Clear
  <2>2. /\ t \notin Senders /\ Len(items') >= Len(items) - n
    <3>1. op[t] \in Fifo!ReceiverOps
      BY <1>6 DEF Pop, Clear, Locks, Fifo!ReceiverOps
    <3>2. t \notin Senders
      BY <3>1, CallersAssumption DEF IInv, Places_OK
    <3>3. CASE Pop(t)
      BY <3>3, <3>2 DEF Pop, IInv, TypeOK
    <3>4. CASE ~Pop(t) /\ Clear(t)
      BY <3>4, <3>2, <1>len DEF Clear
    <3> QED BY <1>6, <3>3, <3>4
  <2>3. /\ SleepingSenders' = SleepingSenders \ w
        /\ Woken(Senders)' = Woken(Senders) \cup w
        /\ Woken(Senders) \cap w = {}
    <3>1. w \subseteq SleepingSenders
      BY NotifiedSleep
    <3>2. \A u \in Senders : pc'[u] = IF u \in w THEN "woken" ELSE pc[u]
      BY <2>1, <2>2 DEF Return, Moved
    <3> QED BY <3>1, <3>2 DEF SleepingSenders, Woken
  <2>4. n \in Nat
    BY <1>len
  <2>5. IsFiniteSet(w) /\ Cardinality(w) = n
    BY <2>1, <2>3, <2>4, <1>fin, ManyNotified
  <2>6. SleepingSenders # {}
    BY <2>3
  <2>7. Cardinality(Woken(Senders)') = Cardinality(Woken(Senders)) + n
    BY <2>3, <2>5, <1>fin, WokenGrow
  <2> QED BY <2>2, <2>4, <2>6, <2>7, <1>len, <1>fin DEF NoLostSender
<1> QED
  BY <1>1, <1>2, <1>3, <1>4, <1>5, <1>6 DEF Next, Step

(* However the senders, the receivers, clear() and close() overlap, there  *)
(* are as many woken receivers as messages while a receiver sleeps, and as *)
(* many woken senders as there is room while a sender sleeps.              *)
THEOREM WakeupsKept == Spec => []NoLostWakeup
<1>1. Init => NoLostReceiver /\ NoLostSender
  BY DEF Init, NoLostReceiver, NoLostSender, SleepingSenders, SleepingReceivers
<1>2. NoLostReceiver /\ NoLostSender => NoLostWakeup
  BY DEF NoLostReceiver, NoLostSender, NoLostWakeup
<1> QED
  BY <1>1, <1>2, Inductive, StepReceivers, StepSenders, PTL DEF Spec

HIDE DEF Callers, Fifo!Callers

LEMMA SmallerOfTwo ==
    ASSUME NEW a \in Nat, NEW b \in Nat
    PROVE  Min({a, b}) \in {a, b} /\ Min({a, b}) <= a /\ Min({a, b}) <= b
<1>1. \E x \in {a, b} : \A y \in {a, b} : x =< y
  OBVIOUS
<1> QED
  BY <1>1 DEF Min

---------------------------------------------------------------------------
(* The ring buffer. *)

(* What a side has still to do lies within the bytes, or the room, there   *)
(* was when it looked, which the other side only makes larger; what it has *)
(* copied is what the memory holds.                                        *)
WithinRoom ==
    /\ Len(ringWriter.data) <= Free(w_ptr, r_ptr)
    /\ ringWriter.at = "idle" => ringWriter.data = <<>>
WithinBytes ==
    /\ ringReader.skip + ringReader.n <= Full(w_ptr, r_ptr)
    /\ ringReader.kind # "peek" => ringReader.skip = 0
    /\ ringReader.at = "idle" => ringReader.skip = 0 /\ ringReader.n = 0
    /\ ringReader.at = "copy" => ringReader.data = <<>> /\ ringReader.kind # "skip"
WrittenThere ==
    ringWriter.at = "store" =>
        \A i \in 1 .. Len(ringWriter.data) : buff[Wrapped(w_ptr + i - 1)] = ringWriter.data[i]
CopiedThere ==
    ringReader.at = "store" =>
        IF ringReader.kind = "skip" THEN ringReader.data = <<>>
        ELSE /\ Len(ringReader.data) = ringReader.n
             /\ \A i \in 1 .. ringReader.n :
                  ringReader.data[i] = buff[Wrapped(r_ptr + ringReader.skip + i - 1)]

RingInv == RingTypeOK /\ WithinRoom /\ WithinBytes /\ WrittenThere /\ CopiedThere

LEMMA RingNumbers == Size \in Nat /\ Size >= 2 /\ 0 \in Cells
BY RingAssumption DEF Cells

LEMMA RingBounds ==
    ASSUME NEW w \in Cells, NEW r \in Cells
    PROVE  /\ Full(w, r) \in 0 .. Size - 1 /\ Free(w, r) \in 0 .. Size - 1
           /\ Full(w, r) + Free(w, r) = Size - 1
           /\ Wrapped(r + Full(w, r)) = w
BY RingNumbers DEF Cells, Full, Free, Wrapped

LEMMA WrappedCell ==
    ASSUME NEW p \in 0 .. 2 * Size - 1
    PROVE  Wrapped(p) \in Cells
BY RingNumbers DEF Cells, Wrapped

LEMMA WrappedTwice ==
    ASSUME NEW p \in Cells, NEW i \in 0 .. Size, NEW j \in 0 .. Size, p + i + j < 2 * Size
    PROVE  Wrapped(Wrapped(p + i) + j) = Wrapped(p + i + j)
BY RingNumbers DEF Cells, Wrapped

(* The writing side, that moves on by at most what is free, and the reading*)
(* side, that moves on by at most what is there.                           *)
LEMMA WriterMoves ==
    ASSUME NEW w \in Cells, NEW r \in Cells, NEW n \in 0 .. Size, n <= Free(w, r)
    PROVE  /\ Wrapped(w + n) \in Cells
           /\ Full(Wrapped(w + n), r) = Full(w, r) + n
           /\ Free(Wrapped(w + n), r) = Free(w, r) - n
BY RingNumbers DEF Cells, Full, Free, Wrapped

LEMMA ReaderMoves ==
    ASSUME NEW w \in Cells, NEW r \in Cells, NEW n \in 0 .. Size, n <= Full(w, r)
    PROVE  /\ Wrapped(r + n) \in Cells
           /\ Full(w, Wrapped(r + n)) = Full(w, r) - n
           /\ Free(w, Wrapped(r + n)) = Free(w, r) + n
BY RingNumbers DEF Cells, Full, Free, Wrapped

LEMMA CellsApart ==
    ASSUME NEW w \in Cells, NEW r \in Cells, NEW i \in Nat, NEW j \in Nat,
           i < Free(w, r), j < Full(w, r)
    PROVE  Wrapped(w + i) # Wrapped(r + j)
BY RingNumbers DEF Cells, Full, Free, Wrapped

LEMMA CopiedType ==
    ASSUME buff \in [Cells -> Byte], NEW p \in Cells, NEW n \in 0 .. Size
    PROVE  /\ Copied(p, n) \in Seq(Byte) /\ Len(Copied(p, n)) = n
           /\ \A i \in 1 .. n : Copied(p, n)[i] = buff[Wrapped(p + i - 1)]
<1>1. ASSUME NEW i \in 1 .. n PROVE buff[Wrapped(p + i - 1)] \in Byte
  <2>1. p + i - 1 \in 0 .. 2 * Size - 1
    BY RingNumbers DEF Cells
  <2> QED
    BY <2>1, WrappedCell
<1> QED
  BY <1>1 DEF Copied

LEMMA ContentsType ==
    RingTypeOK =>
        /\ RingContents \in Seq(Byte) /\ Len(RingContents) = Full(w_ptr, r_ptr)
        /\ \A i \in 1 .. Full(w_ptr, r_ptr) : RingContents[i] = buff[Wrapped(r_ptr + i - 1)]
<1> SUFFICES ASSUME RingTypeOK
             PROVE  /\ RingContents \in Seq(Byte) /\ Len(RingContents) = Full(w_ptr, r_ptr)
                    /\ \A i \in 1 .. Full(w_ptr, r_ptr) : RingContents[i] = buff[Wrapped(r_ptr + i - 1)]
  OBVIOUS
<1>1. w_ptr \in Cells /\ r_ptr \in Cells /\ buff \in [Cells -> Byte]
  BY DEF RingTypeOK
<1>2. Full(w_ptr, r_ptr) \in 0 .. Size
  BY <1>1, RingBounds, RingNumbers
<1> QED
  BY <1>1, <1>2, CopiedType DEF RingContents

LEMMA NextContents ==
    RingTypeOK' =>
        /\ RingContents' \in Seq(Byte) /\ Len(RingContents') = Full(w_ptr', r_ptr')
        /\ \A i \in 1 .. Full(w_ptr', r_ptr') : RingContents'[i] = buff'[Wrapped(r_ptr' + i - 1)]
<1>1. (RingTypeOK =>
        /\ RingContents \in Seq(Byte) /\ Len(RingContents) = Full(w_ptr, r_ptr)
        /\ \A i \in 1 .. Full(w_ptr, r_ptr) : RingContents[i] = buff[Wrapped(r_ptr + i - 1)])'
  BY ContentsType, PTL
<1> QED
  BY <1>1

LEMMA RingInvInit == RingInit => RingInv
<1> SUFFICES ASSUME RingInit PROVE RingInv
  OBVIOUS
<1>1. \E b \in Byte : TRUE
  BY RingAssumption
<1>2. RingTypeOK
  BY <1>1, RingNumbers DEF RingInit, RingTypeOK
<1>3. Full(w_ptr, r_ptr) = 0 /\ Free(w_ptr, r_ptr) = Size - 1 /\ Len(ringWriter.data) = 0
  BY RingNumbers DEF RingInit, Full, Free
<1> QED
  BY <1>2, <1>3, RingNumbers DEF RingInit, RingInv, WithinRoom, WithinBytes, WrittenThere, CopiedThere

(* The writing side copies to cells that the reading side does not look at.*)
LEMMA CopyKeepsContents ==
    ASSUME RingInv, WriteCopy, NEW j \in Nat, j < Full(w_ptr, r_ptr)
    PROVE  buff'[Wrapped(r_ptr + j)] = buff[Wrapped(r_ptr + j)]
<1> DEFINE n == Len(ringWriter.data)
<1>1. /\ w_ptr \in Cells /\ r_ptr \in Cells /\ n \in Nat /\ n <= Free(w_ptr, r_ptr)
      /\ Full(w_ptr, r_ptr) \in 0 .. Size - 1 /\ Free(w_ptr, r_ptr) \in 0 .. Size - 1
  BY RingBounds DEF RingInv, RingTypeOK, WithinRoom
<1>2. buff' = [c \in Cells |->
                IF c \in CellsFrom(w_ptr, n)
                THEN ringWriter.data[1 + (IF c >= w_ptr THEN c - w_ptr ELSE c - w_ptr + Size)]
                ELSE buff[c]]
  BY DEF WriteCopy
<1> HIDE DEF n
<1>3. Wrapped(r_ptr + j) \in Cells
  <2>1. r_ptr + j \in 0 .. 2 * Size - 1
    BY <1>1, RingNumbers DEF Cells
  <2> QED
    BY <2>1, WrappedCell
<1>4. Wrapped(r_ptr + j) \notin CellsFrom(w_ptr, n)
  <2> SUFFICES ASSUME NEW i \in 0 .. n - 1 PROVE Wrapped(w_ptr + i) # Wrapped(r_ptr + j)
    BY DEF CellsFrom
  <2>1. i \in Nat /\ i < Free(w_ptr, r_ptr)
    BY <1>1
  <2> QED
    BY <1>1, <2>1, CellsApart
<1> QED
  BY <1>2, <1>3, <1>4

LEMMA RingWriteStep ==
    ASSUME RingInv, RingWrites
    PROVE  RingInv' /\ UNCHANGED <<r_ptr, ringReader>>
<1>0. /\ buff \in [Cells -> Byte] /\ w_ptr \in Cells /\ r_ptr \in Cells
      /\ ringWriter \in [at : {"idle", "copy", "store"}, data : Seq(Byte)]
      /\ Len(ringWriter.data) \in Nat
  BY DEF RingInv, RingTypeOK
<1>1. /\ Full(w_ptr, r_ptr) \in 0 .. Size - 1 /\ Free(w_ptr, r_ptr) \in 0 .. Size - 1
      /\ Full(w_ptr, r_ptr) + Free(w_ptr, r_ptr) = Size - 1 /\ Wrapped(r_ptr + Full(w_ptr, r_ptr)) = w_ptr
  BY <1>0, RingBounds
<1>2. ASSUME NEW n \in RingRequests, NEW all \in BOOLEAN, NEW data \in [1 .. n -> Byte], WriteBegin(data, all)
      PROVE  RingInv' /\ UNCHANGED <<r_ptr, ringReader>>
  <2>1. data \in Seq(Byte) /\ Len(data) = n /\ n \in Nat
    BY <1>2, RingNumbers DEF RingRequests
  <2> DEFINE m == Min({Free(w_ptr, r_ptr), Len(data)})
  <2>2. m \in Nat /\ m <= Free(w_ptr, r_ptr) /\ m <= Len(data)
    BY <1>1, <2>1, SmallerOfTwo
  <2> HIDE DEF m
  <2>3. SubSeq(data, 1, m) \in Seq(Byte) /\ Len(SubSeq(data, 1, m)) = m
    <3>1. \A i \in 1 .. m : data[i] \in Byte
      BY <2>1, <2>2
    <3>2. /\ SubSeq(data, 1, m) \in Seq(Byte)
          /\ Len(SubSeq(data, 1, m)) = IF 1 <= m THEN m - 1 + 1 ELSE 0
      BY <2>2, <3>1, SubSeqProperties
    <3> QED
      BY <2>2, <3>2
  <2>4. ringWriter' = [at |-> "copy", data |-> SubSeq(data, 1, m)]
    BY <1>2 DEF WriteBegin, m
  <2>5. UNCHANGED <<buff, w_ptr, r_ptr, ringReader>>
    BY <1>2 DEF WriteBegin
  <2> QED
    BY <2>2, <2>3, <2>4, <2>5
       DEF RingInv, RingTypeOK, WithinRoom, WithinBytes, WrittenThere, CopiedThere
<1>3. ASSUME NEW n \in RingRequests, Advance(n) PROVE RingInv' /\ UNCHANGED <<r_ptr, ringReader>>
  <2> DEFINE m == Min({n, Free(w_ptr, r_ptr)})
  <2>1. m \in Nat /\ m <= Free(w_ptr, r_ptr)
    BY <1>1, SmallerOfTwo, RingNumbers DEF RingRequests
  <2> HIDE DEF m
  <2>2. m \in 0 .. Size
    BY <1>1, <2>1, RingNumbers
  <2>3. /\ Copied(w_ptr, m) \in Seq(Byte) /\ Len(Copied(w_ptr, m)) = m
        /\ \A i \in 1 .. m : Copied(w_ptr, m)[i] = buff[Wrapped(w_ptr + i - 1)]
    BY <1>0, <2>2, CopiedType
  <2>4. ringWriter' = [at |-> "store", data |-> Copied(w_ptr, m)] /\ UNCHANGED <<buff, w_ptr, r_ptr, ringReader>>
    BY <1>3 DEF Advance, m
  <2> HIDE DEF Copied
  <2> QED
    BY <2>1, <2>3, <2>4 DEF RingInv, RingTypeOK, WithinRoom, WithinBytes, WrittenThere, CopiedThere
<1>4. CASE WriteCopy
  <2> DEFINE n == Len(ringWriter.data)
  <2>1. n \in 0 .. Size /\ n <= Free(w_ptr, r_ptr) /\ n < Size
    BY <1>0, <1>1, RingNumbers DEF RingInv, WithinRoom
  <2>2. UNCHANGED <<w_ptr, r_ptr, ringReader>> /\ ringWriter' = [ringWriter EXCEPT !.at = "store"]
    BY <1>4 DEF WriteCopy
  <2>3. buff' = [c \in Cells |->
                  IF c \in CellsFrom(w_ptr, n)
                  THEN ringWriter.data[1 + (IF c >= w_ptr THEN c - w_ptr ELSE c - w_ptr + Size)]
                  ELSE buff[c]]
    BY <1>4 DEF WriteCopy
  <2>4. ASSUME NEW c \in CellsFrom(w_ptr, n)
        PROVE  1 + (IF c >= w_ptr THEN c - w_ptr ELSE c - w_ptr + Size) \in 1 .. n
    <3>1. PICK i \in 0 .. n - 1 : c = Wrapped(w_ptr + i)
      BY DEF CellsFrom
    <3> QED
      BY <1>0, <2>1, <3>1, RingNumbers DEF Wrapped, Cells
  <2>5. buff' \in [Cells -> Byte]
    <3>1. \A i \in 1 .. n : ringWriter.data[i] \in Byte
      BY <1>0
    <3> HIDE DEF n
    <3> QED
      BY <1>0, <2>3, <2>4, <3>1
  <2>6. ASSUME NEW i \in 1 .. n PROVE buff'[Wrapped(w_ptr + i - 1)] = ringWriter.data[i]
    <3> DEFINE c == Wrapped(w_ptr + i - 1)
    <3>1. c \in Cells /\ c \in CellsFrom(w_ptr, n)
      <4>1. w_ptr + i - 1 \in 0 .. 2 * Size - 1 /\ i - 1 \in 0 .. n - 1 /\ w_ptr + i - 1 = w_ptr + (i - 1)
        BY <1>0, <2>1, RingNumbers DEF Cells
      <4> QED
        BY <4>1, WrappedCell DEF CellsFrom
    <3>2. 1 + (IF c >= w_ptr THEN c - w_ptr ELSE c - w_ptr + Size) = i
      BY <1>0, <2>1, RingNumbers DEF Wrapped, Cells
    <3> HIDE DEF c, n
    <3>3. buff'[c] = ringWriter.data[i]
      BY <2>3, <3>1, <3>2
    <3> QED
      BY <3>3 DEF c
  <2>7. ASSUME NEW j \in Nat, j < Full(w_ptr, r_ptr)
        PROVE  buff'[Wrapped(r_ptr + j)] = buff[Wrapped(r_ptr + j)]
    BY <1>4, <2>7, CopyKeepsContents
  <2>8. CopiedThere'
    <3> SUFFICES ASSUME CopiedThere, ringReader.at = "store", ringReader.kind # "skip", NEW i \in 1 .. ringReader.n
                 PROVE  buff'[Wrapped(r_ptr + ringReader.skip + i - 1)] = buff[Wrapped(r_ptr + ringReader.skip + i - 1)]
      BY <2>2 DEF RingInv, CopiedThere
    <3>1. /\ ringReader.skip + i - 1 \in Nat /\ ringReader.skip + i - 1 < Full(w_ptr, r_ptr)
          /\ r_ptr + ringReader.skip + i - 1 = r_ptr + (ringReader.skip + i - 1)
      BY <1>0, <1>1, RingNumbers DEF RingInv, RingTypeOK, WithinBytes, Cells
    <3> QED
      BY <2>7, <3>1
  <2>9. WrittenThere'
    BY <1>0, <2>2, <2>6 DEF WrittenThere
  <2> QED
    BY <1>0, <2>2, <2>5, <2>8, <2>9 DEF RingInv, RingTypeOK, WithinRoom, WithinBytes
<1>5. CASE WriteStore
  <2>1. Len(ringWriter.data) \in 0 .. Size /\ Len(ringWriter.data) <= Free(w_ptr, r_ptr)
    BY <1>0, <1>1, RingNumbers DEF RingInv, WithinRoom
  <2>2. /\ w_ptr' \in Cells
        /\ Full(w_ptr', r_ptr) = Full(w_ptr, r_ptr) + Len(ringWriter.data)
        /\ Free(w_ptr', r_ptr) \in Nat
    BY <1>0, <1>1, <1>5, <2>1, WriterMoves DEF WriteStore
  <2>3. ringWriter' = [at |-> "idle", data |-> <<>>] /\ UNCHANGED <<buff, r_ptr, ringReader>>
    BY <1>5 DEF WriteStore
  <2>4. RingTypeOK'
    BY <1>0, <2>2, <2>3 DEF RingInv, RingTypeOK
  <2>5. WithinRoom' /\ WrittenThere'
    BY <2>2, <2>3 DEF WithinRoom, WrittenThere
  <2>6. WithinBytes'
    BY <1>1, <2>1, <2>2, <2>3, RingNumbers DEF WithinBytes, RingInv, RingTypeOK
  <2> QED
    BY <2>3, <2>4, <2>5, <2>6 DEF RingInv, CopiedThere
<1> QED
  BY <1>2, <1>3, <1>4, <1>5 DEF RingWrites

LEMMA RingReadStep ==
    ASSUME RingInv, RingReads
    PROVE  RingInv' /\ UNCHANGED <<buff, w_ptr, ringWriter>>
<1>0. /\ buff \in [Cells -> Byte] /\ w_ptr \in Cells /\ r_ptr \in Cells
      /\ ringReader.skip \in 0 .. Size /\ ringReader.n \in 0 .. Size
  BY DEF RingInv, RingTypeOK
<1>1. /\ Full(w_ptr, r_ptr) \in 0 .. Size - 1 /\ Free(w_ptr, r_ptr) \in 0 .. Size - 1
      /\ Full(w_ptr, r_ptr) + Free(w_ptr, r_ptr) = Size - 1
  BY <1>0, RingBounds
<1>2. ASSUME NEW kind \in {"read", "peek", "skip"}, NEW skip \in 0 .. Size, NEW n \in RingRequests,
             NEW all \in BOOLEAN, kind # "peek" => skip = 0, ReadBegin(kind, skip, n, all)
      PROVE  RingInv' /\ UNCHANGED <<buff, w_ptr, ringWriter>>
  <2> DEFINE m == Min({Full(w_ptr, r_ptr) - skip, n})
  <2>1. Full(w_ptr, r_ptr) - skip \in Nat
    BY <1>1, <1>2, RingNumbers DEF ReadBegin
  <2>2. m \in Nat /\ m <= Full(w_ptr, r_ptr) - skip
    BY <2>1, SmallerOfTwo, RingNumbers DEF RingRequests
  <2>3. /\ ringReader' = [at |-> IF kind = "skip" THEN "store" ELSE "copy", kind |-> kind,
                          skip |-> skip, n |-> m, data |-> <<>>]
        /\ UNCHANGED <<buff, w_ptr, r_ptr, ringWriter>>
    BY <1>2 DEF ReadBegin
  <2> HIDE DEF m
  <2>4. m \in 0 .. Size /\ skip + m <= Full(w_ptr, r_ptr)
    BY <1>1, <2>2, RingNumbers
  <2>5. /\ ringReader'.at = (IF kind = "skip" THEN "store" ELSE "copy") /\ ringReader'.kind = kind
        /\ ringReader'.skip = skip /\ ringReader'.n = m /\ ringReader'.data = <<>>
    BY <2>3
  <2>6. RingTypeOK'
    <3>1. <<>> \in Seq(Byte)
      OBVIOUS
    <3>2. ringReader' \in [at : {"idle", "copy", "store"}, kind : {"read", "peek", "skip"},
                           skip : 0 .. Size, n : 0 .. Size, data : Seq(Byte)]
      BY <2>3, <2>4, <3>1
    <3> QED
      BY <2>3, <3>2 DEF RingInv, RingTypeOK
  <2>7. WithinBytes'
    BY <1>2, <2>3, <2>4, <2>5 DEF WithinBytes
  <2>8. WithinRoom' /\ WrittenThere'
    BY <2>3 DEF RingInv, WithinRoom, WrittenThere
  <2>9. CopiedThere'
    BY <2>5 DEF CopiedThere
  <2> QED
    BY <2>3, <2>6, <2>7, <2>8, <2>9 DEF RingInv
<1>3. CASE ReadCopy
  <2>1. ringReader' = [ringReader EXCEPT !.at = "store",
                         !.data = Copied(Wrapped(r_ptr + ringReader.skip), ringReader.n)]
    BY <1>3 DEF ReadCopy
  <2>2. UNCHANGED <<buff, w_ptr, r_ptr, ringWriter>>
    BY <1>3 DEF ReadCopy
  <2>3. Wrapped(r_ptr + ringReader.skip) \in Cells
    <3>1. r_ptr + ringReader.skip \in 0 .. 2 * Size - 1
      BY <1>0, RingNumbers DEF Cells
    <3> QED
      BY <3>1, WrappedCell
  <2> DEFINE data == Copied(Wrapped(r_ptr + ringReader.skip), ringReader.n)
  <2>4. /\ data \in Seq(Byte) /\ Len(data) = ringReader.n
        /\ \A i \in 1 .. ringReader.n : data[i] = buff[Wrapped(Wrapped(r_ptr + ringReader.skip) + i - 1)]
    BY <1>0, <2>3, CopiedType
  <2> HIDE DEF data
  <2>5. ASSUME NEW i \in 1 .. ringReader.n
        PROVE  data[i] = buff[Wrapped(r_ptr + ringReader.skip + i - 1)]
    <3>1. /\ i - 1 \in 0 .. Size /\ r_ptr + ringReader.skip + (i - 1) < 2 * Size
          /\ Wrapped(r_ptr + ringReader.skip) + (i - 1) = Wrapped(r_ptr + ringReader.skip) + i - 1
          /\ r_ptr + ringReader.skip + (i - 1) = r_ptr + ringReader.skip + i - 1
      <4>1. ringReader.skip + ringReader.n <= Full(w_ptr, r_ptr)
        BY DEF RingInv, WithinBytes
      <4>2. Wrapped(r_ptr + ringReader.skip) \in Int
        BY <2>3, RingNumbers DEF Cells
      <4> QED
        BY <1>0, <1>1, <4>1, <4>2, RingNumbers DEF Cells
    <3>2. Wrapped(Wrapped(r_ptr + ringReader.skip) + (i - 1)) = Wrapped(r_ptr + ringReader.skip + (i - 1))
      BY <1>0, <3>1, WrappedTwice
    <3> QED
      BY <2>4, <3>1, <3>2
  <2>6. RingTypeOK'
    BY <2>1, <2>2, <2>4 DEF RingInv, RingTypeOK, data
  <2>7. CopiedThere'
    <3>1. /\ ringReader'.kind = ringReader.kind /\ ringReader'.skip = ringReader.skip
          /\ ringReader'.n = ringReader.n /\ ringReader'.data = data
      BY <2>1 DEF data, RingInv, RingTypeOK
    <3>2. ringReader.kind # "skip"
      BY <1>3 DEF ReadCopy, RingInv, WithinBytes
    <3> QED
      BY <2>2, <2>4, <2>5, <3>1, <3>2 DEF CopiedThere
  <2>8. WithinBytes'
    BY <2>1, <2>2 DEF RingInv, RingTypeOK, WithinBytes
  <2> QED
    BY <2>2, <2>6, <2>7, <2>8 DEF RingInv, WithinRoom, WrittenThere
<1>4. CASE ReadStore
  <2>1. /\ UNCHANGED <<buff, w_ptr, ringWriter>>
        /\ ringReader' = [ringReader EXCEPT !.at = "idle", !.skip = 0, !.n = 0]
        /\ r_ptr' = IF ringReader.kind = "peek" THEN r_ptr ELSE Wrapped(r_ptr + ringReader.n)
    BY <1>4 DEF ReadStore
  <2>2. ringReader.n <= Full(w_ptr, r_ptr)
    BY <1>0, <1>1, RingNumbers DEF RingInv, WithinBytes
  <2>3. /\ r_ptr' \in Cells /\ Full(w_ptr, r_ptr') \in Nat
        /\ Free(w_ptr, r_ptr') >= Free(w_ptr, r_ptr) /\ Free(w_ptr, r_ptr') \in Nat
    <3>1. Wrapped(r_ptr + ringReader.n) \in Cells
          /\ Full(w_ptr, Wrapped(r_ptr + ringReader.n)) = Full(w_ptr, r_ptr) - ringReader.n
          /\ Free(w_ptr, Wrapped(r_ptr + ringReader.n)) = Free(w_ptr, r_ptr) + ringReader.n
      BY <1>0, <2>2, ReaderMoves
    <3> QED
      BY <1>0, <1>1, <2>1, <2>2, <3>1, RingNumbers
  <2>4. RingTypeOK'
    <3>1. ringReader' \in [at : {"idle", "copy", "store"}, kind : {"read", "peek", "skip"},
                           skip : 0 .. Size, n : 0 .. Size, data : Seq(Byte)]
      BY <2>1, RingNumbers DEF RingInv, RingTypeOK
    <3> QED
      BY <2>1, <2>3, <3>1 DEF RingInv, RingTypeOK
  <2>5. WithinRoom'
    BY <1>0, <1>1, <2>1, <2>3 DEF RingInv, RingTypeOK, WithinRoom
  <2>6. WithinBytes' /\ CopiedThere'
    BY <2>1, <2>3 DEF RingInv, RingTypeOK, WithinBytes, CopiedThere
  <2> QED
    BY <2>1, <2>4, <2>5, <2>6 DEF RingInv, WrittenThere
<1> QED
  <2>1. CASE \E n \in RingRequests, all \in BOOLEAN : ReadBegin("read", 0, n, all)
    <3>1. PICK n \in RingRequests, all \in BOOLEAN : ReadBegin("read", 0, n, all)
      BY <2>1
    <3>2. 0 \in 0 .. Size
      BY RingNumbers
    <3> QED
      BY <1>2, <3>1, <3>2
  <2>2. CASE \E n \in RingRequests, skip \in 0 .. Size : ReadBegin("peek", skip, n, FALSE)
    <3>1. PICK n \in RingRequests, skip \in 0 .. Size : ReadBegin("peek", skip, n, FALSE)
      BY <2>2
    <3> QED
      BY <1>2, <3>1
  <2>3. CASE \E n \in RingRequests : ReadBegin("skip", 0, n, FALSE)
    <3>1. PICK n \in RingRequests : ReadBegin("skip", 0, n, FALSE)
      BY <2>3
    <3>2. 0 \in 0 .. Size
      BY RingNumbers
    <3> QED
      BY <1>2, <3>1, <3>2
  <2> QED
    BY <1>3, <1>4, <2>1, <2>2, <2>3 DEF RingReads

LEMMA RingInvNext == ASSUME RingInv, [RingNext]_ringVars PROVE RingInv'
<1>1. CASE RingWrites
  BY <1>1, RingWriteStep
<1>2. CASE RingReads
  BY <1>2, RingReadStep
<1>3. CASE RingReset
  <2>1. Full(w_ptr, r_ptr)' = 0 /\ Free(w_ptr, r_ptr)' = Size - 1
    BY <1>3, RingNumbers DEF RingReset, Full, Free
  <2>2. r_ptr \in Cells /\ w_ptr \in Cells /\ Free(w_ptr, r_ptr) \in 0 .. Size - 1 /\ Full(w_ptr, r_ptr) \in 0 .. Size - 1
    BY RingBounds DEF RingInv, RingTypeOK
  <2>3. UNCHANGED <<buff, ringWriter, ringReader>> /\ w_ptr' \in Cells /\ r_ptr' \in Cells
    BY <1>3, RingNumbers DEF RingReset
  <2>4. ringWriter.at = "idle" /\ ringReader.at = "idle"
    BY <1>3 DEF RingReset
  <2>5. ringReader.skip + ringReader.n = 0 /\ Len(ringWriter.data) = 0
    <3>1. ringReader.skip = 0 /\ ringReader.n = 0 /\ ringWriter.data = <<>>
      BY <2>4 DEF RingInv, WithinBytes, WithinRoom
    <3> QED
      BY <3>1
  <2>6. RingTypeOK'
    BY <2>3 DEF RingInv, RingTypeOK
  <2>7. WithinRoom' /\ WithinBytes'
    BY <2>1, <2>3, <2>4, <2>5, RingNumbers DEF RingInv, WithinRoom, WithinBytes
  <2>8. WrittenThere' /\ CopiedThere'
    BY <2>3, <2>4 DEF WrittenThere, CopiedThere
  <2> QED
    BY <2>6, <2>7, <2>8 DEF RingInv
<1>4. CASE UNCHANGED ringVars
  BY <1>4 DEF ringVars, RingInv, RingTypeOK, WithinRoom, WithinBytes, WrittenThere, CopiedThere
<1> QED
  BY <1>1, <1>2, <1>3, <1>4 DEF RingNext

LEMMA LeastNumber ==
    ASSUME NEW T, T \subseteq Nat, T # {}
    PROVE  \E x \in T : \A y \in T : x <= y
<1> DEFINE R == OpToRel(<, Nat)
<1>1. IsWellFoundedOn(R, Nat)
  BY NatLessThanWellFounded
<1>2. \A x, y \in Nat : y < x => <<y, x>> \in R
  BY DEF OpToRel
<1>3. \E x \in T : \A y \in T : ~ (<<y, x>> \in R)
  <2> HIDE DEF R
  <2> QED
    BY <1>1, WFMin
<1>4. PICK x \in T : \A y \in T : ~ (<<y, x>> \in R)
  BY <1>3, Zenon
<1>5. \A y \in T : ~ (y < x)
  <2> HIDE DEF R
  <2> QED
    BY <1>4, <1>2
<1> QED
  BY <1>5

LEMMA FoundThere ==
    ASSUME RingTypeOK, NEW n \in 1 .. 2, NEW needle \in [1 .. n -> Byte], NEW y \in Nat,
           y + n <= Full(w_ptr, r_ptr)
    PROVE  (\A i \in 1 .. Len(needle) : buff[Wrapped(Wrapped(r_ptr + y) + i - 1)] = needle[i])
           <=> SubSeq(RingContents, y + 1, y + n) = needle
<1>1. /\ RingContents \in Seq(Byte) /\ Len(RingContents) = Full(w_ptr, r_ptr)
      /\ \A i \in 1 .. Full(w_ptr, r_ptr) : RingContents[i] = buff[Wrapped(r_ptr + i - 1)]
  BY ContentsType
<1>2. Full(w_ptr, r_ptr) \in 0 .. Size - 1 /\ r_ptr \in Cells
  BY RingBounds DEF RingTypeOK
<1>3. needle \in Seq(Byte) /\ Len(needle) = n
  OBVIOUS
<1> DEFINE found == SubSeq(RingContents, y + 1, y + n)
<1>4. /\ found \in Seq(Byte) /\ Len(found) = n
      /\ \A i \in 1 .. n : found[i] = RingContents[y + i]
  <2>1. \A i \in y + 1 .. y + n : RingContents[i] \in Byte
    BY <1>1, <1>2, ElementOfSeq
  <2>2. /\ found \in Seq(Byte)
        /\ Len(found) = IF y + 1 <= y + n THEN y + n - (y + 1) + 1 ELSE 0
        /\ \A i \in 1 .. y + n - (y + 1) + 1 : found[i] = RingContents[y + 1 + i - 1]
    <3>1. y + 1 \in Int /\ y + n \in Int
      OBVIOUS
    <3> QED
      BY <2>1, <3>1, SubSeqProperties
  <2> HIDE DEF found
  <2>3. y + n - (y + 1) + 1 = n /\ y + 1 <= y + n /\ \A i \in 1 .. n : y + 1 + i - 1 = y + i
    OBVIOUS
  <2> QED
    BY <2>2, <2>3
<1>5. ASSUME NEW i \in 1 .. n PROVE found[i] = buff[Wrapped(Wrapped(r_ptr + y) + i - 1)]
  <2>1. y + i \in 1 .. Full(w_ptr, r_ptr) /\ r_ptr + (y + i) - 1 = r_ptr + y + (i - 1)
    BY <1>2 DEF Cells
  <2>2. Wrapped(Wrapped(r_ptr + y) + (i - 1)) = Wrapped(r_ptr + y + (i - 1))
    <3>1. y \in 0 .. Size /\ i - 1 \in 0 .. Size /\ r_ptr + y + (i - 1) < 2 * Size
      BY <1>2, <2>1, RingNumbers DEF Cells
    <3> QED
      BY <1>2, <3>1, WrappedTwice
  <2>3. Wrapped(r_ptr + y) + (i - 1) = Wrapped(r_ptr + y) + i - 1
    <3>1. Wrapped(r_ptr + y) \in Int
      BY <1>2, RingNumbers DEF Wrapped, Cells
    <3> QED
      BY <3>1
  <2> HIDE DEF found
  <2>4. found[i] = buff[Wrapped(r_ptr + (y + i) - 1)]
    BY <1>1, <1>4, <2>1
  <2> QED
    BY <2>1, <2>2, <2>3, <2>4
<1> HIDE DEF found
<1>6. found = needle <=> \A i \in 1 .. n : found[i] = needle[i]
  BY <1>3, <1>4, SeqEqual
<1> QED
  BY <1>3, <1>5, <1>6 DEF found

LEMMA RingQueries == ASSUME RingTypeOK PROVE QueriesAgree
<1>0. /\ w_ptr \in Cells /\ r_ptr \in Cells
      /\ Full(w_ptr, r_ptr) \in 0 .. Size - 1 /\ Free(w_ptr, r_ptr) \in 0 .. Size - 1
      /\ Len(RingContents) = Full(w_ptr, r_ptr)
  BY RingBounds, ContentsType DEF RingTypeOK
<1>1. LinearRead(w_ptr, r_ptr) = Min({Full(w_ptr, r_ptr), Size - r_ptr})
  <2>1. Full(w_ptr, r_ptr) \in Nat /\ Size - r_ptr \in Nat
    BY <1>0, RingNumbers DEF Cells
  <2>2. PICK m : m = Min({Full(w_ptr, r_ptr), Size - r_ptr})
    OBVIOUS
  <2>3. m \in {Full(w_ptr, r_ptr), Size - r_ptr} /\ m <= Full(w_ptr, r_ptr) /\ m <= Size - r_ptr
    BY <2>1, <2>2, SmallerOfTwo
  <2> QED
    BY <1>0, <2>2, <2>3, RingNumbers DEF LinearRead, Full, Cells
<1>2. LinearWrite(w_ptr, r_ptr) = Min({Free(w_ptr, r_ptr), Size - w_ptr})
  <2>1. Free(w_ptr, r_ptr) \in Nat /\ Size - w_ptr \in Nat
    BY <1>0, RingNumbers DEF Cells
  <2>2. PICK m : m = Min({Free(w_ptr, r_ptr), Size - w_ptr})
    OBVIOUS
  <2>3. m \in {Free(w_ptr, r_ptr), Size - w_ptr} /\ m <= Free(w_ptr, r_ptr) /\ m <= Size - w_ptr
    BY <2>1, <2>2, SmallerOfTwo
  <2> QED
    BY <1>0, <2>2, <2>3, RingNumbers DEF LinearWrite, Free, Cells
<1>3. ASSUME NEW n \in 1 .. 2, NEW start \in 0 .. Size, NEW needle \in [1 .. n -> Byte], NEW x \in 0 .. Size
      PROVE  x \in Find(needle, start) <=>
                 /\ x >= start /\ x + n <= Len(RingContents) /\ SubSeq(RingContents, x + 1, x + n) = needle
                 /\ \A y \in start .. x - 1 : SubSeq(RingContents, y + 1, y + n) # needle
  <2> DEFINE Here(y) == SubSeq(RingContents, y + 1, y + n) = needle
             places == {y \in start .. Full(w_ptr, r_ptr) - n : Here(y)}
  <2>1. Len(needle) = n
    OBVIOUS
  <2>2. \A y \in start .. Full(w_ptr, r_ptr) - n :
          (\A i \in 1 .. Len(needle) : buff[Wrapped(Wrapped(r_ptr + y) + i - 1)] = needle[i]) <=> Here(y)
    <3> SUFFICES ASSUME NEW y \in start .. Full(w_ptr, r_ptr) - n
                 PROVE  (\A i \in 1 .. Len(needle) : buff[Wrapped(Wrapped(r_ptr + y) + i - 1)] = needle[i])
                        <=> Here(y)
      OBVIOUS
    <3>1. y \in Nat /\ y + n <= Full(w_ptr, r_ptr)
      BY <1>0, RingNumbers
    <3> QED
      BY <3>1, FoundThere
  <2>3. Find(needle, start) = IF places = {} THEN {} ELSE {Min(places)}
    <3>1. {y \in start .. Full(w_ptr, r_ptr) - Len(needle) :
             \A i \in 1 .. Len(needle) : buff[Wrapped(Wrapped(r_ptr + y) + i - 1)] = needle[i]} = places
      <4> HIDE DEF Here
      <4> QED
        BY <2>1, <2>2
    <3> QED
      BY <3>1 DEF Find
  <2>4. places \subseteq Nat
    BY <1>0, RingNumbers
  <2>5. places # {} => Min(places) \in places /\ \A y \in places : Min(places) <= y
    <3> HIDE DEF places
    <3>1. places # {} => \E y \in places : \A z \in places : y <= z
      BY <2>4, LeastNumber
    <3> QED
      BY <3>1 DEF Min
  <2>6. \A y \in Nat : y \in places <=> y >= start /\ y + n <= Full(w_ptr, r_ptr) /\ Here(y)
    <3> HIDE DEF Here
    <3> QED
      BY <1>0, RingNumbers
  <2> HIDE DEF places, Here
  <2>7. x \in Find(needle, start) <=> x \in places /\ \A y \in places : x <= y
    <3>1. CASE places = {}
      BY <2>3, <3>1
    <3>2. CASE places # {}
      <4>1. PICK m : m = Min(places)
        OBVIOUS
      <4>2. m \in places /\ m \in Nat /\ \A y \in places : m <= y
        BY <2>4, <2>5, <3>2, <4>1
      <4>3. x \in Find(needle, start) <=> x = m
        BY <2>3, <3>2, <4>1
      <4>4. ASSUME x \in places, \A y \in places : x <= y PROVE x = m
        <5>1. x \in Nat /\ x <= m /\ m <= x
          BY <2>4, <4>2, <4>4
        <5> QED
          BY <4>2, <5>1
      <4> QED
        BY <4>2, <4>3, <4>4
    <3> QED
      BY <3>1, <3>2
  <2>8. (x \in places /\ \A y \in places : x <= y) <=>
           x >= start /\ x + n <= Full(w_ptr, r_ptr) /\ Here(x) /\ \A y \in start .. x - 1 : ~Here(y)
    <3>1. ASSUME x \in places, \A y \in places : x <= y
          PROVE  x >= start /\ x + n <= Full(w_ptr, r_ptr) /\ Here(x) /\ \A y \in start .. x - 1 : ~Here(y)
      <4>1. x \in Nat /\ x >= start /\ x + n <= Full(w_ptr, r_ptr) /\ Here(x)
        BY <2>6, <3>1, RingNumbers
      <4>2. ASSUME NEW y \in start .. x - 1, Here(y) PROVE FALSE
        <5>1. y \in Nat /\ y >= start /\ y + n <= Full(w_ptr, r_ptr) /\ y < x
          BY <1>0, <4>1, RingNumbers
        <5>2. y \in places
          BY <2>6, <4>2, <5>1
        <5> QED
          BY <3>1, <5>1, <5>2
      <4> QED
        BY <4>1, <4>2
    <3>2. ASSUME x >= start, x + n <= Full(w_ptr, r_ptr), Here(x), \A y \in start .. x - 1 : ~Here(y)
          PROVE  x \in places /\ \A y \in places : x <= y
      <4>1. x \in places
        BY <2>6, <3>2, RingNumbers
      <4>2. ASSUME NEW y \in places PROVE x <= y
        <5>1. y \in Nat /\ y >= start /\ Here(y)
          BY <2>4, <2>6
        <5> QED
          BY <3>2, <5>1, RingNumbers
      <4> QED
        BY <4>1, <4>2
    <3> QED
      BY <3>1, <3>2
  <2> QED
    BY <1>0, <2>7, <2>8 DEF Here
<1> QED
  BY <1>1, <1>2, <1>3 DEF QueriesAgree

LEMMA RingInvImplies == ASSUME RingInv PROVE RingTypeOK /\ SidesApart /\ QueriesAgree
<1>1. RingTypeOK /\ QueriesAgree
  BY RingQueries DEF RingInv
<1>2. SidesApart
  <2> SUFFICES ASSUME NEW i \in 0 .. Len(ringWriter.data) - 1, NEW j \in 0 .. Full(w_ptr, r_ptr) - 1
               PROVE  Wrapped(w_ptr + i) # Wrapped(r_ptr + j)
    BY DEF SidesApart, CellsFrom
  <2>1. /\ w_ptr \in Cells /\ r_ptr \in Cells /\ Len(ringWriter.data) \in Nat
        /\ Len(ringWriter.data) <= Free(w_ptr, r_ptr)
    BY <1>1 DEF RingTypeOK, RingInv, WithinRoom
  <2>2. Full(w_ptr, r_ptr) \in 0 .. Size - 1 /\ Free(w_ptr, r_ptr) \in 0 .. Size - 1
    BY <2>1, RingBounds
  <2>3. i \in Nat /\ j \in Nat /\ i < Free(w_ptr, r_ptr) /\ j < Full(w_ptr, r_ptr)
    BY <2>1, <2>2, RingNumbers
  <2> QED
    BY <2>1, <2>3, CellsApart
<1> QED
  BY <1>1, <1>2

(* The refinement: the bytes change with the two stores of pointers only,  *)
(* and then as in the abstract buffer.                                     *)
Given == IF ringReader.at = "idle" THEN ringReader.data ELSE <<>>

LEMMA SameContents ==
    ASSUME RingTypeOK, RingTypeOK', UNCHANGED <<w_ptr, r_ptr>>,
           \A j \in Nat : j < Full(w_ptr, r_ptr) => buff'[Wrapped(r_ptr + j)] = buff[Wrapped(r_ptr + j)]
    PROVE  RingContents' = RingContents
<1>1. PICK old \in Seq(Byte) : /\ old = RingContents /\ Len(old) = Full(w_ptr, r_ptr)
                              /\ \A i \in 1 .. Full(w_ptr, r_ptr) : old[i] = buff[Wrapped(r_ptr + i - 1)]
  BY ContentsType
<1>2. PICK new \in Seq(Byte) : /\ new = RingContents' /\ Len(new) = Full(w_ptr, r_ptr)
                              /\ \A i \in 1 .. Full(w_ptr, r_ptr) : new[i] = buff'[Wrapped(r_ptr + i - 1)]
  BY NextContents
<1>3. r_ptr \in Cells /\ Full(w_ptr, r_ptr) \in Nat
  BY RingBounds DEF RingTypeOK
<1>4. ASSUME NEW i \in 1 .. Full(w_ptr, r_ptr) PROVE new[i] = old[i]
  <2>1. i - 1 \in Nat /\ i - 1 < Full(w_ptr, r_ptr) /\ r_ptr + (i - 1) = r_ptr + i - 1
    BY <1>3, RingNumbers DEF Cells
  <2>2. buff'[Wrapped(r_ptr + (i - 1))] = buff[Wrapped(r_ptr + (i - 1))]
    BY <2>1
  <2> QED
    BY <1>1, <1>2, <2>1, <2>2
<1> QED
  BY <1>1, <1>2, <1>4, SeqEqual

LEMMA RingInitMaps == RingInit => RingFifo!FifoInit
<1> SUFFICES ASSUME RingInit PROVE RingFifo!FifoInit
  OBVIOUS
<1>1. RingTypeOK /\ Full(w_ptr, r_ptr) = 0
  BY RingInvInit, RingNumbers DEF RingInv, RingInit, Full
<1>2. RingContents \in Seq(Byte) /\ Len(RingContents) = 0
  BY <1>1, ContentsType
<1> QED
  BY <1>2 DEF RingInit, RingFifo!FifoInit

(* What a reader at its store takes out, and what it leaves. *)
LEMMA TakenFromFront ==
    ASSUME RingInv, RingInv', ringReader.kind # "peek", ReadStore
    PROVE  /\ ringReader.n \in 0 .. Len(RingContents)
           /\ RingContents' = SubSeq(RingContents, ringReader.n + 1, Len(RingContents))
<1>1. PICK old \in Seq(Byte) : /\ old = RingContents /\ Len(old) = Full(w_ptr, r_ptr)
                              /\ \A i \in 1 .. Full(w_ptr, r_ptr) : old[i] = buff[Wrapped(r_ptr + i - 1)]
  BY ContentsType DEF RingInv
<1>2. PICK new \in Seq(Byte) : /\ new = RingContents' /\ Len(new) = Full(w_ptr', r_ptr')
                              /\ \A i \in 1 .. Full(w_ptr', r_ptr') : new[i] = buff'[Wrapped(r_ptr' + i - 1)]
  BY NextContents DEF RingInv
<1>3. /\ r_ptr \in Cells /\ w_ptr \in Cells /\ Full(w_ptr, r_ptr) \in 0 .. Size - 1
      /\ ringReader.n \in 0 .. Size /\ ringReader.skip \in 0 .. Size
  BY RingBounds DEF RingInv, RingTypeOK
<1>4. PICK n \in 0 .. Size : n = ringReader.n /\ n <= Full(w_ptr, r_ptr)
  BY <1>3, RingNumbers DEF RingInv, WithinBytes
<1>5. r_ptr' = Wrapped(r_ptr + n) /\ w_ptr' = w_ptr /\ buff' = buff
  BY <1>4 DEF ReadStore
<1>6. Full(w_ptr', r_ptr') = Full(w_ptr, r_ptr) - n
  BY <1>3, <1>4, <1>5, ReaderMoves
<1> DEFINE rest == SubSeq(old, n + 1, Len(old))
<1>7. /\ rest \in Seq(Byte) /\ Len(rest) = Len(old) - n
      /\ \A i \in 1 .. Len(old) - n : rest[i] = old[n + i]
  <2>1. \A i \in n + 1 .. Len(old) : old[i] \in Byte
    BY <1>3, <1>4, ElementOfSeq
  <2>2. n + 1 \in Int /\ Len(old) \in Int
    BY <1>4
  <2>3. /\ rest \in Seq(Byte) /\ Len(rest) = IF n + 1 <= Len(old) THEN Len(old) - (n + 1) + 1 ELSE 0
        /\ \A i \in 1 .. Len(old) - (n + 1) + 1 : rest[i] = old[n + 1 + i - 1]
    BY <2>1, <2>2, SubSeqProperties
  <2> HIDE DEF rest
  <2>4. /\ Len(old) - (n + 1) + 1 = Len(old) - n
        /\ \A i \in 1 .. Len(old) - n : n + 1 + i - 1 = n + i
    <3>1. PICK m \in Nat, l \in Nat : m = n /\ l = Len(old)
      BY <1>1, <1>3, <1>4
    <3>2. l - (m + 1) + 1 = l - m /\ \A i \in 1 .. l - m : m + 1 + i - 1 = m + i
      OBVIOUS
    <3> QED
      BY <3>1, <3>2
  <2>5. Len(rest) = Len(old) - n
    BY <1>1, <1>3, <1>4, <2>3
  <2> QED
    BY <2>3, <2>4, <2>5
<1> HIDE DEF rest
<1>8. ASSUME NEW i \in 1 .. Len(old) - n PROVE new[i] = rest[i]
  <2>1. n + i \in 1 .. Full(w_ptr, r_ptr) /\ i \in 1 .. Full(w_ptr', r_ptr')
    BY <1>1, <1>3, <1>4, <1>6
  <2>2. new[i] = buff[Wrapped(Wrapped(r_ptr + n) + i - 1)] /\ rest[i] = buff[Wrapped(r_ptr + (n + i) - 1)]
    BY <1>1, <1>2, <1>5, <1>7, <2>1
  <2>3. /\ i - 1 \in 0 .. Size /\ r_ptr + n + (i - 1) < 2 * Size
        /\ Wrapped(r_ptr + n) + (i - 1) = Wrapped(r_ptr + n) + i - 1
        /\ r_ptr + n + (i - 1) = r_ptr + (n + i) - 1
    <3>1. Wrapped(r_ptr + n) \in Int
      BY <1>3, <1>4, RingNumbers DEF Wrapped, Cells
    <3>2. r_ptr \in 0 .. Size - 1 /\ n \in Nat /\ i \in Nat /\ i >= 1 /\ n + i <= Size - 1
      BY <1>3, <1>4, <2>1, RingNumbers DEF Cells
    <3> QED
      BY <3>1, <3>2, RingNumbers
  <2>4. Wrapped(Wrapped(r_ptr + n) + (i - 1)) = Wrapped(r_ptr + n + (i - 1))
    BY <1>3, <1>4, <2>3, WrappedTwice
  <2> QED
    BY <2>2, <2>3, <2>4
<1>9. new = rest
  BY <1>1, <1>2, <1>6, <1>7, <1>8, SeqEqual
<1> QED
  BY <1>1, <1>2, <1>3, <1>4, <1>9 DEF rest

(* What a reader that does not skip has copied is what is still at the     *)
(* front, after the bytes a peek leaves out.                               *)
LEMMA CopiedFromFront ==
    ASSUME RingInv, ringReader.at = "store", ringReader.kind # "skip"
    PROVE  ringReader.data = SubSeq(RingContents, ringReader.skip + 1, ringReader.skip + ringReader.n)
<1>1. PICK old \in Seq(Byte) : /\ old = RingContents /\ Len(old) = Full(w_ptr, r_ptr)
                              /\ \A i \in 1 .. Full(w_ptr, r_ptr) : old[i] = buff[Wrapped(r_ptr + i - 1)]
  BY ContentsType DEF RingInv
<1>2. /\ r_ptr \in Cells /\ Full(w_ptr, r_ptr) \in 0 .. Size - 1
      /\ ringReader.n \in 0 .. Size /\ ringReader.skip \in 0 .. Size /\ ringReader.data \in Seq(Byte)
  BY RingBounds DEF RingInv, RingTypeOK
<1>3. PICK n \in 0 .. Size, skip \in 0 .. Size, data \in Seq(Byte) :
        /\ n = ringReader.n /\ skip = ringReader.skip /\ data = ringReader.data
        /\ skip + n <= Full(w_ptr, r_ptr)
  BY <1>2 DEF RingInv, WithinBytes
<1>4. Len(data) = n /\ \A i \in 1 .. n : data[i] = buff[Wrapped(r_ptr + skip + i - 1)]
  BY <1>3 DEF RingInv, CopiedThere
<1> DEFINE part == SubSeq(old, skip + 1, skip + n)
<1>5. /\ part \in Seq(Byte) /\ Len(part) = n /\ \A i \in 1 .. n : part[i] = old[skip + i]
  <2>1. \A i \in skip + 1 .. skip + n : old[i] \in Byte
    BY <1>1, <1>2, <1>3, ElementOfSeq
  <2>2. skip + 1 \in Int /\ skip + n \in Int
    BY <1>3
  <2>3. /\ part \in Seq(Byte) /\ Len(part) = IF skip + 1 <= skip + n THEN skip + n - (skip + 1) + 1 ELSE 0
        /\ \A i \in 1 .. skip + n - (skip + 1) + 1 : part[i] = old[skip + 1 + i - 1]
    BY <2>1, <2>2, SubSeqProperties
  <2> HIDE DEF part
  <2>4. skip + n - (skip + 1) + 1 = n /\ \A i \in 1 .. n : skip + 1 + i - 1 = skip + i
    <3>1. PICK m \in Nat, l \in Nat : m = n /\ l = skip
      BY <1>3
    <3>2. l + m - (l + 1) + 1 = m /\ \A i \in 1 .. m : l + 1 + i - 1 = l + i
      OBVIOUS
    <3> QED
      BY <3>1, <3>2
  <2>5. Len(part) = n
    BY <1>3, <2>3
  <2> QED
    BY <2>3, <2>4, <2>5
<1> HIDE DEF part
<1>6. ASSUME NEW i \in 1 .. n PROVE data[i] = part[i]
  <2>1. skip + i \in 1 .. Full(w_ptr, r_ptr) /\ r_ptr + skip + i - 1 = r_ptr + (skip + i) - 1
    BY <1>2, <1>3 DEF Cells
  <2> QED
    BY <1>1, <1>4, <1>5, <2>1
<1>7. data = part
  BY <1>3, <1>4, <1>5, <1>6, SeqEqual
<1> QED
  BY <1>1, <1>3, <1>7 DEF part

(* What a writer at its store adds. *)
LEMMA PutAtEnd ==
    ASSUME RingInv, RingInv', WriteStore
    PROVE  RingContents' = RingContents \o ringWriter.data
<1>1. PICK old \in Seq(Byte) : /\ old = RingContents /\ Len(old) = Full(w_ptr, r_ptr)
                              /\ \A i \in 1 .. Full(w_ptr, r_ptr) : old[i] = buff[Wrapped(r_ptr + i - 1)]
  BY ContentsType DEF RingInv
<1>2. PICK new \in Seq(Byte) : /\ new = RingContents' /\ Len(new) = Full(w_ptr', r_ptr')
                              /\ \A i \in 1 .. Full(w_ptr', r_ptr') : new[i] = buff'[Wrapped(r_ptr' + i - 1)]
  BY NextContents DEF RingInv
<1>3. /\ r_ptr \in Cells /\ w_ptr \in Cells /\ Full(w_ptr, r_ptr) \in 0 .. Size - 1
      /\ Free(w_ptr, r_ptr) \in 0 .. Size - 1 /\ Full(w_ptr, r_ptr) + Free(w_ptr, r_ptr) = Size - 1
      /\ Wrapped(r_ptr + Full(w_ptr, r_ptr)) = w_ptr
  BY RingBounds DEF RingInv, RingTypeOK
<1>4. PICK data \in Seq(Byte) :
        /\ data = ringWriter.data /\ Len(data) <= Free(w_ptr, r_ptr)
        /\ \A i \in 1 .. Len(data) : buff[Wrapped(w_ptr + i - 1)] = data[i]
  BY DEF RingInv, RingTypeOK, WithinRoom, WrittenThere, WriteStore
<1>5. Len(data) \in 0 .. Size
  BY <1>3, <1>4, RingNumbers
<1>6. w_ptr' = Wrapped(w_ptr + Len(data)) /\ r_ptr' = r_ptr /\ buff' = buff
  BY <1>4 DEF WriteStore
<1>7. Full(w_ptr', r_ptr') = Full(w_ptr, r_ptr) + Len(data)
  BY <1>3, <1>4, <1>5, <1>6, WriterMoves
<1> DEFINE all == old \o data
<1>8. /\ all \in Seq(Byte) /\ Len(all) = Len(old) + Len(data)
      /\ \A i \in 1 .. Len(old) + Len(data) : all[i] = IF i <= Len(old) THEN old[i] ELSE data[i - Len(old)]
  BY ConcatProperties
<1> HIDE DEF all
<1>9. ASSUME NEW i \in 1 .. Len(old) + Len(data) PROVE new[i] = all[i]
  <2>1. new[i] = buff[Wrapped(r_ptr + i - 1)]
    BY <1>1, <1>2, <1>6, <1>7
  <2>2. CASE i <= Len(old)
    BY <1>1, <1>8, <2>1, <2>2
  <2>3. CASE ~(i <= Len(old))
    <3>1. /\ i - Len(old) \in 1 .. Len(data)
          /\ i - Len(old) - 1 \in 0 .. Size /\ r_ptr + Full(w_ptr, r_ptr) + (i - Len(old) - 1) < 2 * Size
          /\ r_ptr + Full(w_ptr, r_ptr) + (i - Len(old) - 1) = r_ptr + i - 1
          /\ w_ptr + (i - Len(old) - 1) = w_ptr + (i - Len(old)) - 1
          /\ Full(w_ptr, r_ptr) \in 0 .. Size
      <4>1. PICK full \in Nat, m \in Nat :
              /\ full = Full(w_ptr, r_ptr) /\ full = Len(old) /\ m = Len(data) /\ full + m <= Size - 1
        BY <1>1, <1>3, <1>4, <1>5, RingNumbers
      <4>2. r_ptr \in 0 .. Size - 1 /\ w_ptr \in 0 .. Size - 1 /\ i \in 1 .. full + m /\ i > full
        BY <1>3, <2>3, <4>1, RingNumbers DEF Cells
      <4> QED
        BY <4>1, <4>2, RingNumbers
    <3>2. Wrapped(Wrapped(r_ptr + Full(w_ptr, r_ptr)) + (i - Len(old) - 1))
            = Wrapped(r_ptr + Full(w_ptr, r_ptr) + (i - Len(old) - 1))
      BY <1>3, <3>1, WrappedTwice
    <3>3. Wrapped(r_ptr + i - 1) = Wrapped(w_ptr + (i - Len(old)) - 1)
      BY <1>3, <3>1, <3>2
    <3>4. buff[Wrapped(w_ptr + (i - Len(old)) - 1)] = data[i - Len(old)]
      BY <1>4, <3>1
    <3>5. all[i] = data[i - Len(old)]
      BY <1>8, <2>3
    <3> QED
      BY <2>1, <3>3, <3>4, <3>5
  <2> QED
    BY <2>2, <2>3
<1>10. new = all
  <2>1. Len(new) = Len(all)
    BY <1>1, <1>2, <1>7, <1>8
  <2>2. \A i \in 1 .. Len(new) : new[i] = all[i]
    BY <1>8, <1>9, <2>1
  <2> QED
    BY <1>8, <2>1, <2>2, SeqEqual
<1> QED
  BY <1>1, <1>2, <1>4, <1>10 DEF all

LEMMA RingFifoNext ==
    ASSUME RingInv, [RingNext]_ringVars
    PROVE  [RingFifo!FifoNext]_<<RingContents, Given>>
<1>0. RingInv' /\ RingTypeOK /\ RingTypeOK'
  BY RingInvNext DEF RingInv
<1>1. PICK length \in Nat : length = Len(RingContents) /\ length = Full(w_ptr, r_ptr) /\ length <= Size - 1
  <2>1. Len(RingContents) = Full(w_ptr, r_ptr) /\ Full(w_ptr, r_ptr) \in 0 .. Size - 1
    BY <1>0, ContentsType, RingBounds DEF RingTypeOK
  <2> QED
    BY <2>1, RingNumbers
<1>2. ASSUME UNCHANGED <<buff, w_ptr, r_ptr>> PROVE RingContents' = RingContents
  BY <1>0, <1>2, SameContents
<1>3. ASSUME UNCHANGED <<buff, w_ptr, r_ptr, ringReader>> PROVE UNCHANGED <<RingContents, Given>>
  BY <1>2, <1>3 DEF Given
<1>4. CASE WriteCopy
  <2>1. UNCHANGED <<w_ptr, r_ptr, ringReader>>
    BY <1>4 DEF WriteCopy
  <2>2. ASSUME NEW j \in Nat, j < Full(w_ptr, r_ptr)
        PROVE  buff'[Wrapped(r_ptr + j)] = buff[Wrapped(r_ptr + j)]
    BY <1>4, <2>2, CopyKeepsContents
  <2>3. RingContents' = RingContents
    BY <1>0, <2>1, <2>2, SameContents
  <2> QED
    BY <2>1, <2>3 DEF Given
<1>5. CASE WriteStore
  <2>1. RingContents' = RingContents \o ringWriter.data /\ UNCHANGED ringReader
    BY <1>0, <1>5, PutAtEnd DEF WriteStore
  <2>2. PICK data \in Seq(Byte) : data = ringWriter.data /\ Len(data) <= Free(w_ptr, r_ptr)
    BY <1>0 DEF RingTypeOK, RingInv, WithinRoom
  <2>3. length + Free(w_ptr, r_ptr) = Size - 1 /\ Free(w_ptr, r_ptr) \in Nat
    BY <1>0, <1>1, RingBounds, RingNumbers DEF RingTypeOK
  <2>4. CASE data = <<>>
    <3>1. RingContents' = RingContents
      BY <1>0, <2>1, <2>2, <2>4, ContentsType, ConcatEmptySeq
    <3> QED
      BY <2>1, <3>1 DEF Given
  <2>5. CASE data # <<>>
    <3>1. Len(data) \in Nat /\ data \in [1 .. Len(data) -> Byte] /\ Len(data) # 0
      BY <2>2, <2>5, LenProperties
    <3>2. Len(data) \in 1 .. Size - 1 /\ length + Len(data) <= Size - 1
      BY <2>2, <2>3, <3>1, RingNumbers
    <3>3. RingFifo!Put(data)
      BY <1>1, <2>1, <2>2, <3>2 DEF RingFifo!Put, Given
    <3>4. \E n \in 1 .. Size - 1 : \E bytes \in [1 .. n -> Byte] : RingFifo!Put(bytes)
      BY <3>1, <3>2, <3>3
    <3> QED
      BY <3>4 DEF RingFifo!FifoNext
  <2> QED
    BY <2>4, <2>5
<1>6. ASSUME NEW kind, NEW skip, NEW n, NEW all, ReadBegin(kind, skip, n, all)
      PROVE  RingFifo!FifoNext
  <2>1. ringReader'.at # "idle" /\ UNCHANGED <<buff, w_ptr, r_ptr>>
    BY <1>6 DEF ReadBegin
  <2>2. RingFifo!Call
    BY <1>2, <2>1 DEF RingFifo!Call, Given
  <2> QED
    BY <2>2 DEF RingFifo!FifoNext
<1>7. CASE ReadCopy
  <2>1. ringReader.at # "idle" /\ ringReader'.at # "idle" /\ UNCHANGED <<buff, w_ptr, r_ptr>>
    BY <1>0, <1>7 DEF ReadCopy, RingTypeOK
  <2> QED
    BY <1>2, <2>1 DEF Given
<1>8. CASE ReadStore
  <2>1. /\ ringReader.at = "store" /\ Given = <<>> /\ Given' = ringReader.data
        /\ ringReader.n \in Nat /\ ringReader.skip \in Nat /\ ringReader.kind \in {"read", "peek", "skip"}
        /\ ringReader.skip + ringReader.n <= length
        /\ ringReader.kind # "peek" => ringReader.skip = 0
    BY <1>0, <1>1, <1>8 DEF ReadStore, RingTypeOK, Given, RingInv, WithinBytes
  <2>2. CASE ringReader.kind = "peek"
    <3>1. RingContents' = RingContents
      BY <1>2, <1>8, <2>2 DEF ReadStore
    <3>2. Given' = SubSeq(RingContents, ringReader.skip + 1, ringReader.skip + ringReader.n)
      BY <2>1, <2>2, CopiedFromFront
    <3>3. RingFifo!Peek(ringReader.skip, ringReader.n)
      BY <3>1, <3>2 DEF RingFifo!Peek, Given
    <3>4. ringReader.n \in 0 .. length /\ ringReader.skip \in 0 .. length - ringReader.n
      BY <2>1
    <3> QED
      BY <1>1, <3>3, <3>4 DEF RingFifo!FifoNext
  <2>3. CASE ringReader.kind # "peek"
    <3>1. ringReader.n \in 0 .. length /\ RingContents' = SubSeq(RingContents, ringReader.n + 1, Len(RingContents))
      BY <1>0, <1>1, <1>8, <2>3, TakenFromFront
    <3>2. CASE ringReader.kind = "skip"
      <4>1. ringReader.data = <<>>
        BY <2>1, <3>2 DEF RingInv, CopiedThere
      <4>2. RingFifo!Drop(ringReader.n)
        BY <2>1, <3>1, <4>1 DEF RingFifo!Drop, Given
      <4> QED
        BY <1>1, <3>1, <4>2 DEF RingFifo!FifoNext
    <3>3. CASE ringReader.kind # "skip"
      <4>1. ringReader.data = SubSeq(RingContents, 1, ringReader.n)
        <5>1. ringReader.skip = 0 /\ 0 + 1 = 1 /\ 0 + ringReader.n = ringReader.n
          BY <2>1, <2>3
        <5> QED
          BY <2>1, <3>3, <5>1, CopiedFromFront
      <4>2. RingFifo!Take(ringReader.n)
        BY <2>1, <3>1, <4>1 DEF RingFifo!Take, Given
      <4> QED
        BY <1>1, <3>1, <4>2 DEF RingFifo!FifoNext
    <3> QED
      BY <3>2, <3>3
  <2> QED
    BY <2>2, <2>3
<1>9. CASE RingReset
  <2>1. Full(w_ptr', r_ptr') = 0 /\ UNCHANGED ringReader
    BY <1>9, RingNumbers DEF RingReset, Full
  <2>2. RingContents' = <<>>
    BY <1>0, <2>1, NextContents
  <2>3. RingFifo!Reset
    BY <2>1, <2>2 DEF RingFifo!Reset, Given
  <2> QED
    BY <2>3 DEF RingFifo!FifoNext
<1> HIDE DEF RingFifo!FifoNext
<1>10. ASSUME NEW data, NEW all, WriteBegin(data, all) PROVE UNCHANGED <<RingContents, Given>>
  BY <1>3, <1>10 DEF WriteBegin
<1>11. ASSUME NEW n, Advance(n) PROVE UNCHANGED <<RingContents, Given>>
  BY <1>3, <1>11 DEF Advance
<1>12. CASE UNCHANGED ringVars
  BY <1>3, <1>12 DEF ringVars
<1>13. CASE RingWrites
  BY <1>4, <1>5, <1>10, <1>11, <1>13 DEF RingWrites
<1>14. CASE RingReads
  BY <1>6, <1>7, <1>8, <1>14 DEF RingReads
<1> QED
  BY <1>9, <1>12, <1>13, <1>14 DEF RingNext

(* For any size and any bytes the ring buffer, whose two sides copy byte by*)
(* byte and store their pointers when they are done, is a buffer of first  *)
(* in, first out in which each operation happens at once.                  *)
THEOREM RingImplements == RingSpec => ImplementsByteFifo
<1>1. RingInit => RingInv
  BY RingInvInit
<1>2. RingInv /\ [RingNext]_ringVars => RingInv'
  BY RingInvNext
<1>3. RingInit => RingFifo!FifoInit
  BY RingInitMaps
<1>4. RingInv /\ [RingNext]_ringVars => [RingFifo!FifoNext]_<<RingContents, Given>>
  BY RingFifoNext
<1> QED
  BY <1>1, <1>2, <1>3, <1>4, PTL DEF RingSpec, ImplementsByteFifo, RingFifo!FifoSpec, Given

---------------------------------------------------------------------------
(* The UART.  Outside of read() a byte in the receive ring has its event   *)
(* flag, because read() empties the ring: its buffer is not smaller.       *)

BufferHoldsRing == Room <= ReadSize

ReadFlagged == uartReader # "take" /\ rxRing > 0 => "READ" \in uartEvents

(* init() ends with the last UART. *)
SomeToConfigure == uartInit = "running" => numPhys < NumPhys

UartInv == UartTypeOK /\ NothingStranded /\ ReadFlagged /\ SomeToConfigure

LEMMA UartNumbers ==
    /\ RingSize \in Nat /\ Room \in Nat /\ Room >= 1 /\ ReadSize \in Nat /\ MaxWrite \in Nat
    /\ NumPhys \in Nat /\ NumPhys >= 1
BY UartAssumption DEF Room

LEMMA PhyParts ==
    /\ DOMAIN NoPhy = {"initialized", "rings", "irq", "event", "handle"}
    /\ {NoPhy, Configured, LeftByMspInit} \subseteq [DOMAIN NoPhy -> BOOLEAN]
<1>1. DOMAIN NoPhy = {"initialized", "rings", "irq", "event", "handle"}
  BY DEF NoPhy
<1>2. NoPhy \in [DOMAIN NoPhy -> BOOLEAN]
  <2>1. NoPhy = [part \in DOMAIN NoPhy |-> NoPhy[part]]
    BY DEF NoPhy
  <2>2. /\ NoPhy.initialized = FALSE /\ NoPhy.rings = FALSE /\ NoPhy.irq = FALSE
        /\ NoPhy.event = FALSE /\ NoPhy.handle = FALSE
    BY DEF NoPhy
  <2>3. \A part \in DOMAIN NoPhy : NoPhy[part] = FALSE
    BY <1>1, <2>2
  <2> QED
    BY <2>1, <2>3
<1>3. Configured \in [DOMAIN NoPhy -> BOOLEAN]
  BY DEF Configured
<1>4. LeftByMspInit \in [DOMAIN NoPhy -> BOOLEAN]
  BY <1>1, <1>2 DEF LeftByMspInit
<1> QED
  BY <1>1, <1>2, <1>3, <1>4

LEMMA UartInvInit == UartsInit => UartInv
<1> SUFFICES ASSUME UartsInit PROVE UartInv
  OBVIOUS
<1>1. phy \in [Phys -> [DOMAIN NoPhy -> BOOLEAN]]
  BY PhyParts DEF UartsInit
<1>2. {txeie, tdrFull, rdrFull, overrun} \subseteq BOOLEAN
  BY DEF UartsInit
<1>3. 0 \in 0 .. Room /\ 0 \in 0 .. NumPhys /\ 0 \in 0 .. MaxWrite
  BY UartNumbers
<1>4. uartWriter \in [at : {"idle", "push", "enable", "wait"}, left : 0 .. MaxWrite]
  BY <1>3 DEF UartsInit
<1>5. UartTypeOK
  BY <1>1, <1>2, <1>3, <1>4 DEF UartsInit, UartTypeOK
<1> QED
  BY <1>5, UartNumbers DEF UartsInit, UartInv, NothingStranded, ReadFlagged, SomeToConfigure

LEMMA UartInvNext == ASSUME BufferHoldsRing, UartInv, [UartNext]_uartVars PROVE UartInv'
<1> USE UartNumbers DEF UartInv, NothingStranded, ReadFlagged, SomeToConfigure
<1>0. UartTypeOK
  OBVIOUS
<1>1. CASE ConfigureUart
  <2>0. numPhys \in 0 .. NumPhys /\ numPhys + 1 <= NumPhys
    BY <1>0, <1>1 DEF ConfigureUart, UartTypeOK
  <2>1. numPhys' \in 0 .. NumPhys
    BY <1>1, <2>0 DEF ConfigureUart
  <2>2. phy' \in [Phys -> [DOMAIN NoPhy -> BOOLEAN]]
    <3>1. \E p \in Nat, left \in {NoPhy, Configured, LeftByMspInit} : phy' = [phy EXCEPT ![p] = left]
      BY <1>1, <2>0 DEF ConfigureUart
    <3> QED
      BY <1>0, <3>1, PhyParts DEF UartTypeOK
  <2>3. uartInit' \in {"running", "mapped", "failed"}
    BY <1>1 DEF ConfigureUart
  <2>4. SomeToConfigure'
    BY <1>1, <2>0, <2>1 DEF ConfigureUart
  <2> QED
    BY <1>0, <1>1, <2>1, <2>2, <2>3, <2>4 DEF ConfigureUart, UartTypeOK, registers, uartTasks
<1>2. ASSUME NEW size \in 1 .. MaxWrite, WriteUart(size) PROVE UartInv'
  BY <1>0, <1>2 DEF WriteUart, UartTypeOK, setUp, registers
<1>3. CASE PushBytes
  <2>1. uartWriter.left \in 0 .. MaxWrite /\ txRing \in 0 .. Room
    BY <1>0 DEF UartTypeOK
  <2> DEFINE written == Min({Room - txRing, uartWriter.left})
  <2>2. written \in Nat /\ written <= Room - txRing /\ written <= uartWriter.left
    BY <2>1, SmallerOfTwo
  <2>3. txRing' = txRing + written /\ uartWriter' = [at |-> "enable", left |-> uartWriter.left - written]
    BY <1>3 DEF PushBytes
  <2> HIDE DEF written
  <2>4. txRing' \in 0 .. Room /\ uartWriter.left - written \in 0 .. MaxWrite
    BY <2>1, <2>2, <2>3
  <2> QED
    BY <1>0, <1>3, <2>3, <2>4 DEF PushBytes, UartTypeOK, setUp, registers
<1>4. CASE EnableTxe
  BY <1>0, <1>4 DEF EnableTxe, UartTypeOK, setUp
<1>5. CASE WaitWritten \/ WaitTimesOut
  BY <1>0, <1>5 DEF WaitWritten, WaitTimesOut, AfterWait, UartTypeOK, setUp, registers
<1>6. CASE ReadUart
  BY <1>0, <1>6 DEF ReadUart, UartTypeOK, setUp, registers
<1>7. CASE WaitRead
  BY <1>0, <1>7 DEF WaitRead, UartTypeOK, setUp, registers
<1>8. CASE TakeBytes
  <2>1. rxRing \in 0 .. Room /\ rxRing <= ReadSize
    BY <1>0 DEF UartTypeOK, BufferHoldsRing
  <2>2. Min({rxRing, ReadSize}) = rxRing
    BY <2>1, SmallerOfTwo
  <2>3. rxRing' = 0
    BY <1>8, <2>1, <2>2 DEF TakeBytes
  <2> QED
    BY <1>0, <1>8, <2>3 DEF TakeBytes, UartTypeOK, setUp, registers
<1>9. CASE UartIrq
  <2>1. txRing \in 0 .. Room /\ rxRing \in 0 .. Room /\ {txeie, tdrFull, rdrFull} \subseteq BOOLEAN
    BY <1>0 DEF UartTypeOK
  <2>2. txRing' \in 0 .. Room /\ rxRing' \in 0 .. Room
    BY <1>9, <2>1 DEF UartIrq
  <2>3. uartEvents' \subseteq {"WRITTEN", "READ"} /\ {txeie, tdrFull, rdrFull, overrun}' \subseteq BOOLEAN
    BY <1>0, <1>9 DEF UartIrq, UartTypeOK
  <2>4. UartTypeOK'
    BY <1>0, <1>9, <2>2, <2>3 DEF UartIrq, UartTypeOK, setUp, uartTasks
  <2>5. NothingStranded'
    BY <1>0, <1>9, <2>1 DEF UartIrq, UartTypeOK, uartTasks
  <2>6. ReadFlagged'
    BY <1>0, <1>9, <2>1 DEF UartIrq, UartTypeOK, uartTasks
  <2>7. SomeToConfigure'
    BY <1>9 DEF UartIrq, setUp
  <2> QED
    BY <2>4, <2>5, <2>6, <2>7
<1>10. CASE ShiftOut
  BY <1>0, <1>10 DEF ShiftOut, UartTypeOK, setUp, uartTasks
<1>11. CASE ByteArrives
  BY <1>0, <1>11 DEF ByteArrives, UartTypeOK, setUp, uartTasks
<1>12. CASE UNCHANGED uartVars
  BY <1>0, <1>12 DEF uartVars, setUp, registers, uartTasks, UartTypeOK
<1> QED
  BY <1>1, <1>2, <1>3, <1>4, <1>5, <1>6, <1>7, <1>8, <1>9, <1>10, <1>11, <1>12
     DEF UartNext, UartWriterStep, UartReaderStep
---------------------------------------------------------------------------
(* The USB device and its serial port. *)

(* The device: what a handle may be, and how the class, its endpoint and   *)
(* the connection follow the configuration.                                *)
Devices ==
    [state : {"DEFAULT", "ADDRESSED", "CONFIGURED", "SUSPENDED"},
     old : {"DEFAULT", "ADDRESSED", "CONFIGURED"}, config : {0, 1}, wakeup : BOOLEAN,
     classData : BOOLEAN, cmdOp : {"none", "other"}, connected : BOOLEAN,
     TxState : {0, 1}, sending : {"nothing", "data", "empty"}, armed : BOOLEAN]

Follows(d) ==
    /\ d.classData <=> d.state = "CONFIGURED" \/ (d.state = "SUSPENDED" /\ d.old = "CONFIGURED")
    /\ d.connected => d.classData
    /\ d.armed => d.classData

(* The endpoint is armed only with the class. *)
ArmedWithClass(d, e) == e.classData => (e.armed = d.armed /\ d.classData) \/ (e.armed /\ ~d.armed)

(* A transfer is ended by others, but started by the task alone. *)
OnlyEnds(d, e) == e.sending \in {d.sending, "nothing"} /\ e.TxState \in {d.TxState, 0}

Steps(d, e) == e \in Devices /\ Follows(e) /\ ArmedWithClass(d, e) /\ OnlyEnds(d, e)

Answers == {"stall", "none", "STATUS_IN", "DATA_IN", "DATA_OUT"}
Outcomes(d) == {o \in [dev : Devices, answer : Answers, len : Nat] : Steps(d, o.dev)}

LEMMA OutcomeOf ==
    ASSUME NEW d, NEW e, Steps(d, e), NEW n \in Nat, NEW answer \in Answers
    PROVE  Outcome(e, answer, n) \in Outcomes(d)
BY DEF Outcome, Outcomes, Steps

LEMMA AnswersOf ==
    ASSUME NEW d, NEW e, Steps(d, e)
    PROVE  /\ CtlError(e) \in Outcomes(d) /\ CtlSendStatus(e) \in Outcomes(d) /\ Unanswered(e) \in Outcomes(d)
           /\ \A n \in Nat : CtlSendData(e, n) \in Outcomes(d) /\ CtlPrepareRx(e, n) \in Outcomes(d)
BY OutcomeOf DEF CtlError, CtlSendStatus, Unanswered, CtlSendData, CtlPrepareRx, Answers

LEMMA DeviceStays == ASSUME NEW d \in Devices, Follows(d) PROVE Steps(d, d)
BY DEF Devices, Follows, Steps, ArmedWithClass, OnlyEnds

(* A request for a descriptor has its length as its value. *)
TypedRequest(r) == r.len \in Nat /\ (r.name = "GET_DESCRIPTOR" => r.value \in Nat)

LEMMA RequestsTyped == ASSUME NEW r \in Requests PROVE TypedRequest(r)
<1>0. Descriptors \subseteq Nat /\ Lengths \subseteq Nat
  BY UsbAssumption
<1>1. ASSUME NEW to, NEW type, NEW names, NEW values, NEW lengths \in SUBSET Nat,
             "GET_DESCRIPTOR" \in names => values \subseteq Nat, r \in Request(to, type, names, values, lengths)
      PROVE  TypedRequest(r)
  BY <1>1 DEF Request, TypedRequest
<1>2. \/ r \in Request("device", "standard", {"GET_DESCRIPTOR"}, Descriptors, Lengths)
      \/ r \in Request("device", "standard", {"SET_ADDRESS", "SET_CONFIGURATION"}, 0 .. 2, {0})
      \/ r \in Request("device", "standard", {"GET_CONFIGURATION", "GET_STATUS"}, {0}, {1, 2})
      \/ r \in Request("device", "standard", {"SET_FEATURE", "CLEAR_FEATURE"}, {"wakeup", "test", "other"}, {0})
      \/ r \in Request("device", "standard", {"other"}, {0}, {0})
      \/ r \in Request("interface", "standard", {"GET_STATUS", "GET_INTERFACE"}, {0}, {2})
      \/ r \in Request("interface", "standard", {"SET_INTERFACE", "other"}, {0}, {0})
      \/ r \in Request("interface", "class", {"SET_CONTROL_LINE_STATE"}, {0, 1}, {0})
      \/ r \in Request("interface", "class", {"SET_LINE_CODING", "GET_LINE_CODING"}, {0}, Lengths \ {0})
      \/ r \in Request("endpoint", "standard", {"SET_FEATURE", "CLEAR_FEATURE"}, {"control", "data"}, {0})
      \/ r \in Request("endpoint", "standard", {"GET_STATUS"}, {"control", "data"}, {2})
      \/ r \in Request("other", "standard", {"other"}, {0}, {0})
  BY DEF Requests
<1>3. CASE r \in Request("device", "standard", {"GET_DESCRIPTOR"}, Descriptors, Lengths)
  BY <1>0, <1>1, <1>3
<1>4. CASE r \in Request("device", "standard", {"SET_ADDRESS", "SET_CONFIGURATION"}, 0 .. 2, {0})
  BY <1>0, <1>1, <1>4
<1>5. CASE r \in Request("device", "standard", {"GET_CONFIGURATION", "GET_STATUS"}, {0}, {1, 2})
  BY <1>0, <1>1, <1>5
<1>6. CASE r \in Request("device", "standard", {"SET_FEATURE", "CLEAR_FEATURE"}, {"wakeup", "test", "other"}, {0})
  BY <1>0, <1>1, <1>6
<1>7. CASE r \in Request("device", "standard", {"other"}, {0}, {0})
  BY <1>0, <1>1, <1>7
<1>8. CASE r \in Request("interface", "standard", {"GET_STATUS", "GET_INTERFACE"}, {0}, {2})
  BY <1>0, <1>1, <1>8
<1>9. CASE r \in Request("interface", "standard", {"SET_INTERFACE", "other"}, {0}, {0})
  BY <1>0, <1>1, <1>9
<1>10. CASE r \in Request("interface", "class", {"SET_CONTROL_LINE_STATE"}, {0, 1}, {0})
  BY <1>0, <1>1, <1>10
<1>11. CASE r \in Request("interface", "class", {"SET_LINE_CODING", "GET_LINE_CODING"}, {0}, Lengths \ {0})
  BY <1>0, <1>1, <1>11
<1>12. CASE r \in Request("endpoint", "standard", {"SET_FEATURE", "CLEAR_FEATURE"}, {"control", "data"}, {0})
  BY <1>0, <1>1, <1>12
<1>13. CASE r \in Request("endpoint", "standard", {"GET_STATUS"}, {"control", "data"}, {2})
  BY <1>0, <1>1, <1>13
<1>14. CASE r \in Request("other", "standard", {"other"}, {0}, {0})
  BY <1>0, <1>1, <1>14
<1> QED
  BY <1>2, <1>3, <1>4, <1>5, <1>6, <1>7, <1>8, <1>9, <1>10, <1>11, <1>12, <1>13, <1>14

LEMMA ClassSteps ==
    ASSUME NEW d \in Devices, Follows(d), d.state # "SUSPENDED"
    PROVE  /\ Steps(d, ClassDeInit(d)) \/ d.state = "CONFIGURED"
           /\ d.state = "ADDRESSED" => Steps(d, [ClassInit(d) EXCEPT !.config = 1, !.state = "CONFIGURED"])
           /\ Steps(d, [ClassDeInit(d) EXCEPT !.config = 0, !.state = "ADDRESSED"])
           /\ d.state # "CONFIGURED" => Steps(d, [d EXCEPT !.state = "DEFAULT"]) /\ Steps(d, [d EXCEPT !.state = "ADDRESSED"])
           /\ \A b \in BOOLEAN : Steps(d, [d EXCEPT !.wakeup = b])
           /\ d.classData => \A b \in BOOLEAN : Steps(d, [d EXCEPT !.connected = b])
           /\ Steps(d, [d EXCEPT !.cmdOp = "other"])
BY DEF Devices, Follows, Steps, ArmedWithClass, OnlyEnds, ClassInit, ClassDeInit

LEMMA CdcSetups ==
    ASSUME NEW d \in Devices, Follows(d), d.state # "SUSPENDED", NEW r \in Requests
    PROVE  CdcSetup(d, r) \in Outcomes(d)
<1> DEFINE taken == [d EXCEPT !.connected = (r.value = 1)]
           coded == [d EXCEPT !.cmdOp = "other"]
<1>1. /\ CtlError(d) \in Outcomes(d) /\ Unanswered(d) \in Outcomes(d)
      /\ \A n \in Nat : CtlSendData(d, n) \in Outcomes(d)
  BY DeviceStays, AnswersOf
<1>2. \A n \in Nat : CtlPrepareRx(coded, n) \in Outcomes(d)
  BY ClassSteps, AnswersOf
<1>3. d.classData => Unanswered(taken) \in Outcomes(d)
  <2> SUFFICES ASSUME d.classData PROVE Unanswered(taken) \in Outcomes(d)
    OBVIOUS
  <2>1. (r.value = 1) \in BOOLEAN /\ \A b \in BOOLEAN : Steps(d, [d EXCEPT !.connected = b])
    BY ClassSteps
  <2>2. Steps(d, taken)
    BY <2>1
  <2> HIDE DEF taken
  <2> QED
    BY <2>2, AnswersOf
<1>4. Min({7, r.len}) \in Nat /\ Min({r.len, MaxPacket}) \in Nat
  BY RequestsTyped, SmallerOfTwo, UsbAssumption DEF TypedRequest
<1> HIDE DEF taken, coded
<1> QED
  BY <1>1, <1>2, <1>3, <1>4 DEF CdcSetup, taken, coded

LEMMA DeviceRequests ==
    ASSUME NEW d \in Devices, Follows(d), d.state # "SUSPENDED", NEW r \in Requests
    PROVE  StdDevReq(d, r) \in Outcomes(d)
<1> DEFINE default == [d EXCEPT !.state = "DEFAULT"]
           addressed == [d EXCEPT !.state = "ADDRESSED"]
           configured == [ClassInit(d) EXCEPT !.config = 1, !.state = "CONFIGURED"]
           unconfigured == [ClassDeInit(d) EXCEPT !.config = 0, !.state = "ADDRESSED"]
           woken(b) == [d EXCEPT !.wakeup = b]
<1>0. /\ \A e : Steps(d, e) => CtlError(e) \in Outcomes(d) /\ CtlSendStatus(e) \in Outcomes(d)
      /\ CtlError(d) \in Outcomes(d) /\ Unanswered(d) \in Outcomes(d) /\ CtlSendStatus(d) \in Outcomes(d)
      /\ \A n \in Nat : CtlSendData(d, n) \in Outcomes(d)
  BY DeviceStays, AnswersOf
<1>1. /\ d.state # "CONFIGURED" => Steps(d, default) /\ Steps(d, addressed) /\ Steps(d, ClassDeInit(d))
      /\ d.state = "ADDRESSED" => Steps(d, configured)
      /\ Steps(d, unconfigured) /\ Steps(d, woken(FALSE)) /\ Steps(d, woken(TRUE))
  BY ClassSteps
<1>2. d.wakeup \in BOOLEAN /\ d.state \in {"DEFAULT", "ADDRESSED", "CONFIGURED"}
  BY DEF Devices
<1> HIDE DEF default, addressed, configured, unconfigured, woken
<1>3. GetDescriptor(d, r) \in Outcomes(d) \/ r.name # "GET_DESCRIPTOR"
  <2> SUFFICES ASSUME r.name = "GET_DESCRIPTOR" PROVE GetDescriptor(d, r) \in Outcomes(d)
    OBVIOUS
  <2>1. Min({r.value, r.len}) \in Nat
    BY RequestsTyped, SmallerOfTwo DEF TypedRequest
  <2> QED
    BY <1>0, <2>1 DEF GetDescriptor
<1>4. SetAddress(d, r) \in Outcomes(d)
  <2>1. SetAddress(d, r) = IF d.state = "CONFIGURED" THEN CtlError(d)
                           ELSE CtlSendStatus(IF r.value = 0 THEN default ELSE addressed)
    BY DEF SetAddress, default, addressed
  <2> QED
    BY <1>0, <1>1, <2>1
<1>5. SetConfig(d, r) \in Outcomes(d)
  <2>1. SetConfig(d, r) =
          IF r.value > 1 THEN CtlError(d)
          ELSE CASE d.state = "ADDRESSED" -> CtlSendStatus(IF r.value = 0 THEN d ELSE configured)
                 [] d.state = "CONFIGURED" -> CtlSendStatus(IF r.value = 1 THEN d ELSE unconfigured)
                 [] OTHER -> CtlError(ClassDeInit(d))
    BY DEF SetConfig, configured, unconfigured
  <2> QED
    BY <1>0, <1>1, <1>2, <2>1
<1>6. GetConfig(d, r) \in Outcomes(d) /\ GetStatus(d, r) \in Outcomes(d)
  BY <1>0 DEF GetConfig, GetStatus
<1>7. SetFeature(d, r) \in Outcomes(d)
  <2>1. (d.wakeup \/ r.value = "wakeup") = TRUE \/ (d.wakeup \/ r.value = "wakeup") = FALSE
    BY <1>2
  <2>2. SetFeature(d, r) = IF r.value = "other" THEN CtlError(d)
                           ELSE CtlSendStatus(woken(d.wakeup \/ r.value = "wakeup"))
    BY DEF SetFeature, woken
  <2> QED
    BY <1>0, <1>1, <2>1, <2>2
<1>8. ClrFeature(d, r) \in Outcomes(d)
  <2>1. ClrFeature(d, r) = IF d.state = "SUSPENDED" THEN CtlError(d)
                           ELSE IF r.value = "wakeup" THEN CtlSendStatus(woken(FALSE)) ELSE Unanswered(d)
    BY DEF ClrFeature, woken
  <2> QED
    BY <1>0, <1>1, <2>1
<1> QED
  BY <1>0, <1>3, <1>4, <1>5, <1>6, <1>7, <1>8 DEF StdDevReq

LEMMA RequestsHandled ==
    ASSUME NEW d \in Devices, Follows(d), d.state # "SUSPENDED", NEW r \in Requests
    PROVE  Handled(d, r) \in Outcomes(d)
<1>0. /\ CtlError(d) \in Outcomes(d) /\ CtlSendStatus(d) \in Outcomes(d)
      /\ \A n \in Nat : CtlSendData(d, n) \in Outcomes(d)
  BY DeviceStays, AnswersOf
<1>1. StdDevReq(d, r) \in Outcomes(d)
  BY DeviceRequests
<1>2. StdItfReq(d, r) \in Outcomes(d)
  <2>1. PICK o \in Outcomes(d) : o = CdcSetup(d, r)
    BY CdcSetups
  <2>2. CtlSendStatus(o.dev) \in Outcomes(d)
    BY AnswersOf DEF Outcomes
  <2> QED
    BY <1>0, <2>1, <2>2 DEF StdItfReq
<1>3. StdEPReq(d, r) \in Outcomes(d)
  BY <1>0 DEF StdEPReq
<1> QED
  BY <1>0, <1>1, <1>2, <1>3 DEF Handled

(* The control endpoint.  Of a transfer to the host, sent counts the packet*)
(* under way, which is as long as it can be; an empty one is the last.     *)
InTransfer(e) ==
    e.state = "DATA_IN" =>
        /\ e.rem <= e.total
        /\ IF e.rem > MaxPacket THEN e.sent = e.total - e.rem + MaxPacket ELSE e.sent = e.total
        /\ \/ e.want = e.asked /\ e.last = (IF e.rem > MaxPacket THEN MaxPacket ELSE e.rem)
           \/ e.want = 0 /\ e.last = 0 /\ e.rem <= MaxPacket
Ended(e) == e.state = "STATUS_OUT" => e.sent = e.total /\ (e.total < e.asked => e.last < MaxPacket)

Transfers ==
    [state : {"IDLE", "SETUP", "DATA_IN", "DATA_OUT", "STATUS_IN", "STATUS_OUT"},
     stalled : BOOLEAN, total : Nat, rem : Nat, want : Nat, asked : Nat, sent : Nat, last : Nat]

LEMMA IdleTransfer == Idle \in Transfers /\ InTransfer(Idle) /\ Ended(Idle)
BY DEF Idle, Transfers, InTransfer, Ended

LEMMA AnswerStarts ==
    ASSUME NEW d, NEW o \in Outcomes(d), NEW r, r.len \in Nat
    PROVE  Answered(o, r) \in Transfers /\ InTransfer(Answered(o, r)) /\ Ended(Answered(o, r))
<1>0. MaxPacket \in Nat /\ MaxPacket >= 1 /\ o.len \in Nat /\ o.answer \in Answers
  BY UsbAssumption DEF Outcomes
<1>1. PICK m \in Nat : m = Min({o.len, MaxPacket}) /\ m = IF o.len > MaxPacket THEN MaxPacket ELSE o.len
  <2>1. PICK m : m = Min({o.len, MaxPacket})
    OBVIOUS
  <2>2. m \in {o.len, MaxPacket} /\ m <= o.len /\ m <= MaxPacket
    BY <1>0, <2>1, SmallerOfTwo
  <2> QED
    BY <1>0, <2>1, <2>2
<1> DEFINE state == IF o.answer \in {"stall", "none"} THEN "SETUP" ELSE o.answer
           part == IF o.answer = "DATA_IN" THEN m ELSE 0
<1> DEFINE begun == [Idle EXCEPT !.state = state, !.stalled = (o.answer = "stall"), !.total = o.len]
           offered == [begun EXCEPT !.rem = o.len, !.want = r.len, !.asked = r.len]
<1>2. Answered(o, r) = [offered EXCEPT !.sent = part, !.last = part]
  BY <1>1 DEF Answered
<1>3. /\ state \in {"SETUP", "STATUS_IN", "DATA_IN", "DATA_OUT"} /\ part \in Nat
      /\ state = "DATA_IN" => part = m
  BY <1>0 DEF Answers
<1> HIDE DEF state, part
<1>4. begun \in Transfers /\ begun.state = state /\ begun.total = o.len
  BY <1>0, <1>3, IdleTransfer DEF Transfers
<1> HIDE DEF begun
<1>5. /\ offered \in Transfers /\ offered.state = state /\ offered.total = o.len
      /\ offered.rem = o.len /\ offered.want = r.len /\ offered.asked = r.len
  BY <1>0, <1>4 DEF Transfers
<1> HIDE DEF offered
<1>6. PICK e : e = Answered(o, r)
  OBVIOUS
<1>7. /\ e \in Transfers /\ e.state = state /\ e.total = o.len
      /\ e.rem = o.len /\ e.want = r.len /\ e.asked = r.len /\ e.sent = part /\ e.last = part
  BY <1>2, <1>3, <1>5, <1>6 DEF Transfers
<1>8. InTransfer(e) /\ Ended(e)
  <2>1. e.state # "STATUS_OUT"
    BY <1>3, <1>7
  <2>2. CASE state = "DATA_IN"
    <3>1. PICK n \in Nat : n = o.len /\ e.rem = n /\ e.total = n /\ e.sent = m /\ e.last = m
      BY <1>0, <1>3, <1>7, <2>2
    <3>2. n <= n /\ n - n + MaxPacket = MaxPacket
      BY <1>0
    <3>3. m = IF n > MaxPacket THEN MaxPacket ELSE n
      BY <1>1, <3>1
    <3> QED
      BY <1>7, <2>1, <3>1, <3>2, <3>3 DEF InTransfer, Ended
  <2>3. CASE state # "DATA_IN"
    BY <1>7, <2>1, <2>3 DEF InTransfer, Ended
  <2> QED
    BY <2>2, <2>3
<1> QED
  BY <1>6, <1>7, <1>8

LEMMA PacketTaken ==
    ASSUME NEW e \in Transfers, InTransfer(e), e.state = "DATA_IN"
    PROVE  AfterPacket(e) \in Transfers /\ InTransfer(AfterPacket(e)) /\ Ended(AfterPacket(e))
<1>0. MaxPacket \in Nat /\ MaxPacket >= 1
  BY UsbAssumption
<1>1. /\ e.total \in Nat /\ e.rem \in Nat /\ e.want \in Nat /\ e.asked \in Nat
      /\ e.sent \in Nat /\ e.last \in Nat
  BY DEF Transfers
<1>2. CASE MorePackets(e)
  <2>1. PICK left \in Nat : left = e.rem - MaxPacket /\ left > 0
    BY <1>0, <1>1, <1>2 DEF MorePackets
  <2>2. PICK m : m = Min({left, MaxPacket})
    OBVIOUS
  <2>3. m \in {left, MaxPacket} /\ m <= left /\ m <= MaxPacket /\ m \in Nat
    BY <1>0, <2>1, <2>2, SmallerOfTwo
  <2>4. PICK f : f = [e EXCEPT !.rem = left, !.sent = e.sent + m, !.last = m]
    OBVIOUS
  <2>5. AfterPacket(e) = f
    BY <1>2, <2>1, <2>2, <2>4 DEF AfterPacket
  <2>6. f \in Transfers
    <3>1. PICK g : g = [e EXCEPT !.rem = left]
      OBVIOUS
    <3>2. PICK n \in Nat : n = e.sent + m
      BY <1>1, <2>3
    <3>3. g \in Transfers
      BY <3>1 DEF Transfers
    <3>4. f = [g EXCEPT !.sent = n, !.last = m]
      BY <2>4, <3>1, <3>2
    <3> QED
      BY <2>3, <3>3, <3>4 DEF Transfers
  <2>7. /\ f.rem = left /\ f.sent = e.sent + m /\ f.last = m
        /\ f.total = e.total /\ f.want = e.want /\ f.asked = e.asked /\ f.state = "DATA_IN"
    BY <2>4 DEF Transfers
  <2>8. InTransfer(f) /\ Ended(f)
    BY <1>0, <1>1, <1>2, <2>1, <2>3, <2>7 DEF InTransfer, Ended, MorePackets
  <2> QED
    BY <2>5, <2>6, <2>8
<1>3. CASE ~MorePackets(e) /\ EmptyPacket(e)
  <2>1. PICK f : f = [e EXCEPT !.want = 0, !.last = 0]
    OBVIOUS
  <2>2. AfterPacket(e) = f
    BY <1>3, <2>1 DEF AfterPacket
  <2>3. f \in Transfers
    BY <1>1, <2>1 DEF Transfers
  <2>4. /\ f.rem = e.rem /\ f.sent = e.sent /\ f.last = 0
        /\ f.total = e.total /\ f.want = 0 /\ f.asked = e.asked /\ f.state = "DATA_IN"
    BY <2>1 DEF Transfers
  <2>5. InTransfer(f) /\ Ended(f)
    BY <1>0, <1>1, <1>3, <2>4 DEF InTransfer, Ended, MorePackets
  <2> QED
    BY <2>2, <2>3, <2>5
<1>4. CASE ~MorePackets(e) /\ ~EmptyPacket(e)
  <2>1. PICK f : f = [e EXCEPT !.state = "STATUS_OUT"]
    OBVIOUS
  <2>2. AfterPacket(e) = f
    BY <1>4, <2>1 DEF AfterPacket
  <2>3. f \in Transfers
    BY <2>1 DEF Transfers
  <2>4. /\ f.rem = e.rem /\ f.sent = e.sent /\ f.last = e.last
        /\ f.total = e.total /\ f.want = e.want /\ f.asked = e.asked /\ f.state = "STATUS_OUT"
    BY <2>1 DEF Transfers
  <2>5. InTransfer(f) /\ Ended(f)
    BY <1>0, <1>1, <1>4, <2>4 DEF InTransfer, Ended, MorePackets, EmptyPacket
  <2> QED
    BY <2>2, <2>3, <2>5
<1> QED
  BY <1>2, <1>3, <1>4

DeviceInv ==
    /\ usbSetup \in {"off", "ready", "failed"}
    /\ dev \in Devices /\ Follows(dev)
    /\ ep0 \in Transfers /\ InTransfer(ep0) /\ Ended(ep0)

LEMMA DeviceInvInit == UsbDeviceInit => DeviceInv
<1> SUFFICES ASSUME UsbDeviceInit PROVE DeviceInv
  OBVIOUS
<1>1. dev \in Devices /\ Follows(dev)
  BY DEF UsbDeviceInit, NewDevice, Devices, Follows
<1> QED
  BY <1>1, IdleTransfer DEF UsbDeviceInit, DeviceInv

LEMMA BusSteps ==
    ASSUME DeviceInv, BusReset \/ Suspend \/ Resume \/ Disconnected \/ SetupStep
    PROVE  DeviceInv' /\ Steps(dev, dev')
<1>1. dev \in Devices /\ Follows(dev)
  BY DEF DeviceInv
<1>2. CASE BusReset
  <2>1. Steps(dev, dev')
    BY <1>1, <1>2 DEF BusReset, ClassDeInit, Devices, Follows, Steps, ArmedWithClass, OnlyEnds
  <2> QED
    BY <1>2, <2>1, IdleTransfer DEF BusReset, DeviceInv, Steps
<1>3. CASE Suspend
  <2>1. Steps(dev, dev')
    BY <1>1, <1>3 DEF Suspend, Devices, Follows, Steps, ArmedWithClass, OnlyEnds
  <2> QED
    BY <1>3, <2>1 DEF Suspend, DeviceInv, Steps
<1>4. CASE Resume
  <2>1. Steps(dev, dev')
    BY <1>1, <1>4 DEF Resume, Devices, Follows, Steps, ArmedWithClass, OnlyEnds
  <2> QED
    BY <1>4, <2>1 DEF Resume, DeviceInv, Steps
<1>5. CASE Disconnected
  <2>1. Steps(dev, dev')
    BY <1>1, <1>5 DEF Disconnected, ClassDeInit, Devices, Follows, Steps, ArmedWithClass, OnlyEnds
  <2> QED
    BY <1>5, <2>1 DEF Disconnected, DeviceInv, Steps
<1>6. CASE SetupStep
  BY <1>1, <1>6, DeviceStays DEF SetupStep, DeviceInv
<1> QED
  BY <1>2, <1>3, <1>4, <1>5, <1>6

LEMMA DeviceInvNext == ASSUME DeviceInv, [UsbDeviceNext]_usbDeviceVars PROVE DeviceInv'
<1>0. dev \in Devices /\ Follows(dev) /\ ep0 \in Transfers
  BY DEF DeviceInv
<1>1. ASSUME NEW r \in Requests, SetupStage(r) PROVE DeviceInv'
  <2>1. Handled(dev, r) \in Outcomes(dev)
    BY <1>0, <1>1, RequestsHandled DEF SetupStage
  <2>2. PICK o \in Outcomes(dev) : o = Handled(dev, r)
    BY <2>1
  <2>3. dev' = o.dev /\ ep0' = Answered(o, r) /\ usbSetup' = usbSetup
    BY <1>1, <2>2 DEF SetupStage
  <2>4. dev' \in Devices /\ Follows(dev')
    BY <2>3 DEF Outcomes, Steps
  <2>5. ep0' \in Transfers /\ InTransfer(ep0') /\ Ended(ep0')
    BY <2>3, RequestsTyped, AnswerStarts DEF TypedRequest
  <2> QED
    BY <2>3, <2>4, <2>5 DEF DeviceInv
<1>2. CASE ControlDataIn
  BY <1>0, <1>2, PacketTaken DEF ControlDataIn, DeviceInv
<1>3. CASE ControlDataOut
  <2>1. dev' \in Devices /\ Follows(dev')
    BY <1>0, <1>3 DEF ControlDataOut, Devices, Follows
  <2>2. ep0' \in Transfers /\ ep0'.state = "STATUS_IN"
    BY <1>0, <1>3 DEF ControlDataOut, Transfers
  <2>3. InTransfer(ep0') /\ Ended(ep0')
    BY <2>2 DEF InTransfer, Ended
  <2> QED
    BY <1>3, <2>1, <2>2, <2>3 DEF ControlDataOut, DeviceInv
<1>4. CASE UNCHANGED usbDeviceVars
  BY <1>4 DEF usbDeviceVars, DeviceInv
<1> QED
  BY <1>1, <1>2, <1>3, <1>4, BusSteps DEF UsbDeviceNext

(* The receive buffer.  A byte that is not the last of its packet is       *)
(* followed by the next one, and the task that copies has bytes to copy.   *)
Available == BytesAvailable(rxBufferHeadPos, rxBufferTailPos)

PortTyped ==
    /\ rxBuffer \in [0 .. RxSize - 1 -> 1 .. MaxOut]
    /\ rxBufferHeadPos \in 0 .. RxSize - 1 /\ rxBufferTailPos \in 0 .. RxSize - 1
    /\ lastRead \in 1 .. MaxOut /\ rxRefused \in BOOLEAN /\ lateAnswer \in BOOLEAN
    /\ usbEvents \subseteq {"WRITTEN"}
    /\ usbWriter \in {"idle", "submit", "wait"}
    /\ usbReader \in [at : {"idle", "poll", "copy"}, left : 0 .. RxSize - 1]

CopiesUnread == usbReader.at = "copy" => usbReader.left >= 1 /\ usbReader.left <= Available

PacketsGoOn ==
    /\ lastRead > 1 => Available > 0 /\ rxBuffer[rxBufferTailPos] = lastRead - 1
    /\ \A k \in 0 .. Available - 1 :
         rxBuffer[After(rxBufferTailPos, k)] > 1 =>
             /\ k + 1 < Available
             /\ rxBuffer[After(rxBufferTailPos, k + 1)] = rxBuffer[After(rxBufferTailPos, k)] - 1

RefusedSinceSetup == dev.classData => (dev.armed <=> ~rxRefused)

PortInv == PortTyped /\ CopiesUnread /\ PacketsGoOn /\ RefusedSinceSetup

LEMMA UsbNumbers == RxSize \in Nat /\ RxSize >= 2 /\ MaxOut \in Nat /\ MaxOut >= 1
BY UsbPortAssumption

LEMMA OverEnd ==
    ASSUME NEW x \in 0 .. 2 * RxSize - 1
    PROVE  x % RxSize = IF x >= RxSize THEN x - RxSize ELSE x
<1>1. CASE x < RxSize
  BY <1>1, UsbNumbers
<1>2. CASE ~(x < RxSize)
  <2>1. x - RxSize \in Nat /\ x - RxSize < RxSize /\ x = RxSize * 1 + (x - RxSize)
    BY <1>2, UsbNumbers
  <2> QED
    BY <1>2, <2>1, UsbNumbers
<1> QED
  BY <1>1, <1>2

LEMMA Positions ==
    ASSUME NEW h \in 0 .. RxSize - 1, NEW t \in 0 .. RxSize - 1
    PROVE  /\ BytesAvailable(h, t) = (IF h >= t THEN h - t ELSE h - t + RxSize)
           /\ BytesAvailable(h, t) \in 0 .. RxSize - 1
           /\ \A n \in 0 .. RxSize : /\ After(t, n) = (IF t + n >= RxSize THEN t + n - RxSize ELSE t + n)
                                    /\ After(t, n) \in 0 .. RxSize - 1
<1>1. /\ BytesAvailable(h, t) = IF h >= t THEN h - t ELSE h - t + RxSize
      /\ BytesAvailable(h, t) \in 0 .. RxSize - 1
  <2>1. PICK x \in 0 .. 2 * RxSize - 1 : x = h + RxSize - t
    <3>1. h + RxSize - t \in 0 .. 2 * RxSize - 1
      BY UsbNumbers
    <3> QED
      BY <3>1
  <2>2. BytesAvailable(h, t) = x % RxSize
    BY <2>1 DEF BytesAvailable
  <2>3. x % RxSize = IF x >= RxSize THEN x - RxSize ELSE x
    BY OverEnd
  <2> QED
    BY <2>1, <2>2, <2>3, UsbNumbers
<1>2. ASSUME NEW n \in 0 .. RxSize
      PROVE  /\ After(t, n) = IF t + n >= RxSize THEN t + n - RxSize ELSE t + n
             /\ After(t, n) \in 0 .. RxSize - 1
  <2>1. PICK x \in 0 .. 2 * RxSize - 1 : x = t + n
    <3>1. t + n \in 0 .. 2 * RxSize - 1
      BY UsbNumbers
    <3> QED
      BY <3>1
  <2>2. After(t, n) = x % RxSize
    BY <2>1 DEF After
  <2>3. x % RxSize = IF x >= RxSize THEN x - RxSize ELSE x
    BY OverEnd
  <2> QED
    BY <2>1, <2>2, <2>3, UsbNumbers
<1> QED
  BY <1>1, <1>2

LEMMA PortInvInit == UsbPortInit => PortInv
<1> SUFFICES ASSUME UsbPortInit PROVE PortInv
  OBVIOUS
<1>1. PortTyped
  <2>1. usbReader \in [at : {"idle", "poll", "copy"}, left : 0 .. RxSize - 1]
    BY UsbNumbers DEF UsbPortInit
  <2>2. rxBuffer \in [0 .. RxSize - 1 -> 1 .. MaxOut] /\ lastRead \in 1 .. MaxOut
    BY UsbNumbers DEF UsbPortInit
  <2>3. rxBufferHeadPos \in 0 .. RxSize - 1 /\ rxBufferTailPos \in 0 .. RxSize - 1
    BY UsbNumbers DEF UsbPortInit
  <2> QED
    BY <2>1, <2>2, <2>3 DEF UsbPortInit, PortTyped
<1>2. Available = 0
  <2>1. 0 \in 0 .. RxSize - 1 /\ Available = BytesAvailable(0, 0)
    BY UsbNumbers DEF UsbPortInit, Available
  <2> QED
    BY <2>1, Positions
<1>3. ~dev.classData
  BY DEF UsbPortInit, UsbDeviceInit, NewDevice
<1> QED
  BY <1>1, <1>2, <1>3 DEF UsbPortInit, PortInv, CopiesUnread, PacketsGoOn, RefusedSinceSetup

(* A step of the device alone. *)
LEMMA DeviceSteps ==
    ASSUME DeviceInv, PortInv, DeviceStep
    PROVE  DeviceInv' /\ PortInv' /\ Steps(dev, dev')
<1>0. dev \in Devices /\ Follows(dev)
  BY DEF DeviceInv
<1>1. DeviceInv' /\ Steps(dev, dev')
  <2>1. ASSUME NEW r \in PortRequests, HostRequest(r) PROVE DeviceInv' /\ Steps(dev, dev')
    <3>1. Handled(dev, r) \in Outcomes(dev)
      BY <1>0, <2>1, RequestsHandled DEF HostRequest, PortRequests
    <3>2. Steps(dev, dev') /\ UNCHANGED <<usbSetup, ep0>>
      BY <2>1, <3>1 DEF HostRequest, Outcomes
    <3> QED
      BY <3>2 DEF DeviceInv, Steps
  <2> QED
    BY <2>1, BusSteps DEF DeviceStep
<1>2. UNCHANGED <<rxBuffer, rxBufferHeadPos, rxBufferTailPos, lastRead, usbReader, usbEvents, usbWriter, lateAnswer>>
  BY DEF DeviceStep, usbRx, usbReading, usbWriting
<1>3. rxRefused' = (rxRefused /\ ~(dev'.armed /\ ~dev.armed))
  BY DEF DeviceStep
<1>4. PortTyped'
  <2>1. rxRefused' \in BOOLEAN
    BY <1>3
  <2> QED
    BY <1>2, <2>1 DEF PortInv, PortTyped
<1>5. Available' = Available /\ CopiesUnread' /\ PacketsGoOn'
  BY <1>2 DEF PortInv, CopiesUnread, PacketsGoOn, Available
<1>6. RefusedSinceSetup'
  <2>1. dev.armed \in BOOLEAN /\ dev'.armed \in BOOLEAN /\ rxRefused \in BOOLEAN
    BY <1>1, <1>0 DEF Steps, Devices, PortInv, PortTyped
  <2>2. dev'.classData => (dev'.armed = dev.armed /\ dev.classData) \/ (dev'.armed /\ ~dev.armed)
    BY <1>1 DEF Steps, ArmedWithClass, OnlyEnds
  <2> QED
    BY <1>3, <2>1, <2>2 DEF PortInv, RefusedSinceSetup
<1> QED
  BY <1>1, <1>4, <1>5, <1>6 DEF PortInv

LEMMA PacketArrives ==
    ASSUME DeviceInv, PortInv, NEW n \in 1 .. MaxOut, UsbDataOut(n)
    PROVE  DeviceInv' /\ PortInv'
<1>0. /\ dev \in Devices /\ Follows(dev) /\ dev.state = "CONFIGURED" /\ dev.armed = TRUE /\ dev.classData
      /\ UNCHANGED <<usbSetup, ep0, rxBufferTailPos, lastRead, usbReader, usbEvents, usbWriter, lateAnswer>>
  BY DEF DeviceInv, UsbDataOut, Follows, Devices, usbReading, usbWriting
<1>1. PICK h \in 0 .. RxSize - 1, t \in 0 .. RxSize - 1, a \in 0 .. RxSize - 1 :
        h = rxBufferHeadPos /\ t = rxBufferTailPos /\ a = Available
  BY Positions DEF PortInv, PortTyped, Available
<1>2. /\ a = (IF h >= t THEN h - t ELSE h - t + RxSize)
      /\ \A i \in 0 .. RxSize : /\ After(t, i) = (IF t + i >= RxSize THEN t + i - RxSize ELSE t + i)
                               /\ After(t, i) \in 0 .. RxSize - 1
                               /\ After(h, i) = (IF h + i >= RxSize THEN h + i - RxSize ELSE h + i)
                               /\ After(h, i) \in 0 .. RxSize - 1
  BY <1>1, Positions DEF Available
<1>3. (Fits(n) <=> n < RxSize - a) /\ Fits(n) \in BOOLEAN
  BY <1>1 DEF Fits, Available
<1>4. rxBuffer' = [p \in 0 .. RxSize - 1 |->
                     LET i == BytesAvailable(p, h) + 1
                     IN  IF i \in Stored(n) THEN Packet(n)[i] ELSE rxBuffer[p]]
  BY <1>1 DEF UsbDataOut
<1>5. \A i \in Nat : i \in Stored(n) <=> i >= 1 /\ i <= n /\ i <= RxSize - a
  BY <1>1, UsbNumbers DEF Stored, Available
<1>6. \A i \in 1 .. n : Packet(n)[i] = n - i + 1 /\ Packet(n)[i] \in 1 .. MaxOut
  BY UsbNumbers DEF Packet
<1>7. rxBuffer' \in [0 .. RxSize - 1 -> 1 .. MaxOut]
  <2>1. ASSUME NEW p \in 0 .. RxSize - 1
        PROVE  (IF BytesAvailable(p, h) + 1 \in Stored(n) THEN Packet(n)[BytesAvailable(p, h) + 1] ELSE rxBuffer[p])
                 \in 1 .. MaxOut
    <3>1. PICK i \in Nat : i = BytesAvailable(p, h) + 1
      BY Positions, UsbNumbers
    <3>2. i \in Stored(n) => i \in 1 .. n
      BY <1>5, UsbNumbers
    <3>3. rxBuffer[p] \in 1 .. MaxOut
      BY DEF PortInv, PortTyped
    <3> QED
      BY <1>6, <3>1, <3>2, <3>3
  <2> QED
    BY <1>4, <2>1
(* The bytes that wait stay, and those of the packet come after them. *)
<1>8. ASSUME NEW k \in 0 .. a - 1 PROVE rxBuffer'[After(t, k)] = rxBuffer[After(t, k)]
  <2>1. k \in 0 .. RxSize /\ After(t, k) \in 0 .. RxSize - 1
    BY <1>2, UsbNumbers
  <2>2. BytesAvailable(After(t, k), h) + 1 \in Nat /\ BytesAvailable(After(t, k), h) + 1 > RxSize - a
    <3>1. PICK p \in 0 .. RxSize - 1 : p = After(t, k) /\ p = IF t + k >= RxSize THEN t + k - RxSize ELSE t + k
      BY <1>2, <2>1
    <3>2. BytesAvailable(p, h) = IF p >= h THEN p - h ELSE p - h + RxSize
      BY Positions
    <3> QED
      BY <1>2, <3>1, <3>2, UsbNumbers
  <2>3. BytesAvailable(After(t, k), h) + 1 \notin Stored(n)
    <3>1. PICK i \in Nat : i = BytesAvailable(After(t, k), h) + 1 /\ i > RxSize - a
      BY <2>2
    <3> QED
      BY <1>5, <3>1, UsbNumbers
  <2> QED
    BY <1>4, <2>1, <2>3
<1>9. ASSUME Fits(n), NEW j \in 0 .. n - 1 PROVE rxBuffer'[After(t, a + j)] = n - j
  <2>1. n + a < RxSize /\ a + j \in 0 .. RxSize /\ j \in 0 .. RxSize /\ j + 1 \in 1 .. n
    BY <1>3, <1>9, UsbNumbers
  <2>2. PICK p \in 0 .. RxSize - 1 : p = After(t, a + j) /\ p = After(h, j)
    <3>1. After(t, a + j) = After(h, j) /\ After(h, j) \in 0 .. RxSize - 1
      BY <1>2, <2>1, UsbNumbers
    <3> QED
      BY <3>1
  <2>3. BytesAvailable(p, h) = j
    <3>1. BytesAvailable(p, h) = IF p >= h THEN p - h ELSE p - h + RxSize
      BY Positions
    <3>2. p = IF h + j >= RxSize THEN h + j - RxSize ELSE h + j
      BY <1>2, <2>1, <2>2
    <3> QED
      BY <2>1, <3>1, <3>2, UsbNumbers
  <2>4. j + 1 \in Stored(n) /\ Packet(n)[j + 1] = n - j
    <3>1. j + 1 \in Nat /\ j + 1 >= 1 /\ j + 1 <= n /\ j + 1 <= RxSize - a /\ n - (j + 1) + 1 = n - j
      BY <2>1, UsbNumbers
    <3> QED
      BY <1>5, <1>6, <2>1, <3>1
  <2> QED
    BY <1>4, <2>2, <2>3, <2>4
<1>10. PICK b \in 0 .. RxSize - 1 : b = Available' /\ b = IF Fits(n) THEN a + n ELSE a
  <2>1. CASE Fits(n)
    <3>1. rxBufferHeadPos' = After(h, n)
      BY <1>1, <2>1 DEF UsbDataOut, HeadAfter
    <3>2. n + a < RxSize /\ n \in 0 .. RxSize
      BY <1>3, <2>1, UsbNumbers
    <3>3. PICK q \in 0 .. RxSize - 1 : q = After(h, n) /\ q = IF h + n >= RxSize THEN h + n - RxSize ELSE h + n
      BY <1>2, <3>2
    <3>4. BytesAvailable(q, t) = IF q >= t THEN q - t ELSE q - t + RxSize
      BY Positions
    <3>5. BytesAvailable(q, t) = a + n
      BY <1>2, <3>2, <3>3, <3>4, UsbNumbers
    <3>6. Available' = BytesAvailable(q, t)
      BY <1>0, <1>1, <3>1, <3>3 DEF Available
    <3> QED
      BY <2>1, <3>2, <3>5, <3>6, UsbNumbers
  <2>2. CASE ~Fits(n)
    <3>1. rxBufferHeadPos' = rxBufferHeadPos
      BY <2>2 DEF UsbDataOut, HeadAfter
    <3>2. Available' = a
      BY <1>0, <1>1, <3>1 DEF Available
    <3> QED
      BY <2>2, <3>2
  <2> QED
    BY <2>1, <2>2
<1>11. rxBufferHeadPos' \in 0 .. RxSize - 1
  <2>1. Fits(n) => n \in 0 .. RxSize
    BY <1>3, UsbNumbers
  <2> QED
    BY <1>1, <1>2, <2>1 DEF UsbDataOut, HeadAfter
<1>12. dev' \in Devices /\ Follows(dev') /\ dev'.armed = Fits(n) /\ dev'.classData
  BY <1>0, <1>3 DEF UsbDataOut, Devices, Follows
<1>13. rxRefused' = ~Fits(n)
  BY <1>0 DEF UsbDataOut, PortInv, PortTyped, RefusedSinceSetup
<1>14. PortTyped'
  BY <1>0, <1>3, <1>7, <1>11, <1>13 DEF PortInv, PortTyped
<1>15. CopiesUnread'
  <2>1. a <= b
    BY <1>10, UsbNumbers
  <2> QED
    BY <1>0, <1>1, <1>10, <2>1, UsbNumbers DEF PortInv, PortTyped, CopiesUnread
<1>16. /\ lastRead > 1 => b > 0 /\ rxBuffer'[t] = lastRead - 1
       /\ \A k \in 0 .. b - 1 : rxBuffer'[After(t, k)] > 1 =>
             k + 1 < b /\ rxBuffer'[After(t, k + 1)] = rxBuffer'[After(t, k)] - 1
  <2>1. /\ lastRead > 1 => a > 0 /\ rxBuffer[t] = lastRead - 1
        /\ \A k \in 0 .. a - 1 : rxBuffer[After(t, k)] > 1 =>
              k + 1 < a /\ rxBuffer[After(t, k + 1)] = rxBuffer[After(t, k)] - 1
    BY <1>1 DEF PortInv, PacketsGoOn
  <2>2. ASSUME lastRead > 1 PROVE b > 0 /\ rxBuffer'[t] = lastRead - 1
    <3>1. a > 0 /\ 0 \in 0 .. a - 1 /\ After(t, 0) = t
      BY <1>2, <2>1, <2>2, UsbNumbers
    <3>2. b > 0
      BY <1>10, <3>1, UsbNumbers
    <3> QED
      BY <1>8, <2>1, <2>2, <3>1, <3>2
  <2>3. ASSUME NEW k \in 0 .. b - 1, rxBuffer'[After(t, k)] > 1
        PROVE  k + 1 < b /\ rxBuffer'[After(t, k + 1)] = rxBuffer'[After(t, k)] - 1
    <3>1. CASE k < a
      <4>1. k \in 0 .. a - 1
        BY <3>1, UsbNumbers
      <4>2. k + 1 < a /\ rxBuffer[After(t, k + 1)] = rxBuffer[After(t, k)] - 1 /\ rxBuffer'[After(t, k)] = rxBuffer[After(t, k)]
        BY <1>8, <2>1, <2>3, <4>1
      <4>3. k + 1 \in 0 .. a - 1 /\ k + 1 < b
        BY <1>10, <4>1, <4>2, UsbNumbers
      <4> QED
        BY <1>8, <4>2, <4>3
    <3>2. CASE ~(k < a)
      <4>1. Fits(n) /\ b = a + n
        BY <1>10, <3>2, UsbNumbers
      <4>2. PICK j \in 0 .. n - 1 : k = a + j
        <5>1. k - a \in 0 .. n - 1 /\ k = a + (k - a)
          BY <3>2, <4>1, UsbNumbers
        <5> QED
          BY <5>1
      <4>3. rxBuffer'[After(t, k)] = n - j
        BY <1>9, <4>1, <4>2
      <4>4. j + 1 \in 0 .. n - 1 /\ k + 1 = a + (j + 1) /\ k + 1 < b /\ n - (j + 1) = n - j - 1
        BY <2>3, <4>1, <4>2, <4>3, UsbNumbers
      <4>5. rxBuffer'[After(t, k + 1)] = n - (j + 1)
        BY <1>9, <4>1, <4>4
      <4> QED
        BY <4>3, <4>4, <4>5
    <3> QED
      BY <3>1, <3>2
  <2> QED
    BY <2>2, <2>3
<1>17. PacketsGoOn'
  BY <1>0, <1>1, <1>10, <1>16 DEF PacketsGoOn
<1> QED
  BY <1>0, <1>12, <1>13, <1>14, <1>15, <1>17 DEF DeviceInv, PortInv, RefusedSinceSetup

(* A packet or its empty follower has gone out. *)
LEMMA PacketGoesOut ==
    ASSUME DeviceInv, PortInv, NEW full \in BOOLEAN, UsbDataIn(full)
    PROVE  DeviceInv' /\ PortInv'
<1>1. UNCHANGED <<usbSetup, ep0, rxBuffer, rxBufferHeadPos, rxBufferTailPos, lastRead, rxRefused, usbReader, usbWriter, lateAnswer>>
  BY DEF UsbDataIn, usbRx, usbReading
<1>2. dev \in Devices /\ Follows(dev)
  BY DEF DeviceInv
<1>3. dev' \in Devices /\ Follows(dev') /\ dev'.armed = dev.armed /\ dev'.classData = dev.classData
  BY <1>2 DEF UsbDataIn, Devices, Follows
<1>4. usbEvents' \subseteq {"WRITTEN"}
  BY DEF UsbDataIn, PortInv, PortTyped
<1>5. PortTyped'
  BY <1>1, <1>4 DEF PortInv, PortTyped
<1>6. CopiesUnread' /\ PacketsGoOn'
  BY <1>1 DEF PortInv, CopiesUnread, PacketsGoOn, Available
<1> QED
  BY <1>1, <1>3, <1>5, <1>6 DEF DeviceInv, PortInv, RefusedSinceSetup

(* What write() does leaves the receive buffer alone. *)
LEMMA TaskWrites ==
    ASSUME DeviceInv, PortInv, UsbWrite \/ UsbSubmit \/ UsbWritten \/ UsbWriteTimesOut
    PROVE  DeviceInv' /\ PortInv'
<1>1. UNCHANGED <<usbSetup, ep0, rxBuffer, rxBufferHeadPos, rxBufferTailPos, lastRead, rxRefused, usbReader>>
  BY DEF UsbWrite, UsbSubmit, UsbWritten, UsbWriteTimesOut, usbRx, usbReading, usbDeviceVars
<1>2. dev \in Devices /\ Follows(dev)
  BY DEF DeviceInv
<1>3. dev' \in Devices /\ Follows(dev') /\ dev'.armed = dev.armed /\ dev'.classData = dev.classData
  <2>1. CASE UsbSubmit
    BY <1>2, <2>1 DEF UsbSubmit, Devices, Follows
  <2>2. CASE ~UsbSubmit
    BY <1>2, <2>2 DEF UsbWrite, UsbWritten, UsbWriteTimesOut, usbDeviceVars
  <2> QED
    BY <2>1, <2>2
<1>4. usbEvents' \subseteq {"WRITTEN"} /\ usbWriter' \in {"idle", "submit", "wait"}
  BY DEF UsbWrite, UsbSubmit, UsbWritten, UsbWriteTimesOut, PortInv, PortTyped
<1>5. lateAnswer' \in BOOLEAN
  BY DEF UsbWrite, UsbSubmit, UsbWritten, UsbWriteTimesOut, PortInv, PortTyped
<1>6. PortTyped'
  BY <1>1, <1>4, <1>5 DEF PortInv, PortTyped
<1>7. CopiesUnread' /\ PacketsGoOn'
  BY <1>1 DEF PortInv, CopiesUnread, PacketsGoOn, Available
<1> QED
  BY <1>1, <1>3, <1>6, <1>7 DEF DeviceInv, PortInv, RefusedSinceSetup

(* What waits to be read is a sequence as long as there are bytes. *)
LEMMA UnreadBytes ==
    ASSUME PortInv
    PROVE  /\ Available \in 0 .. RxSize - 1
           /\ Unread \in Seq(1 .. MaxOut) /\ Len(Unread) = Available
           /\ \A i \in 1 .. Available : Unread[i] = rxBuffer[After(rxBufferTailPos, i - 1)]
<1>1. Available \in 0 .. RxSize - 1
  BY Positions DEF PortInv, PortTyped, Available
<1>2. Unread = [i \in 1 .. Available |-> rxBuffer[After(rxBufferTailPos, i - 1)]]
  BY DEF Unread, Available
<1>3. ASSUME NEW i \in 1 .. Available PROVE rxBuffer[After(rxBufferTailPos, i - 1)] \in 1 .. MaxOut
  <2>1. i - 1 \in 0 .. RxSize
    BY <1>1, UsbNumbers
  <2>2. After(rxBufferTailPos, i - 1) \in 0 .. RxSize - 1
    BY <2>1, Positions DEF PortInv, PortTyped
  <2> QED
    BY <2>2 DEF PortInv, PortTyped
<1>4. Unread \in [1 .. Available -> 1 .. MaxOut]
  BY <1>2, <1>3
<1>5. Available \in Nat
  BY <1>1, UsbNumbers
<1> QED
  BY <1>1, <1>2, <1>4, <1>5, LenProperties

LEMMA TaskPolls ==
    ASSUME DeviceInv, PortInv, UsbRead \/ UsbPoll
    PROVE  DeviceInv' /\ PortInv'
<1>1. UNCHANGED <<usbSetup, dev, ep0, rxBuffer, rxBufferHeadPos, rxBufferTailPos, lastRead, rxRefused, usbEvents, usbWriter, lateAnswer>>
  BY DEF UsbRead, UsbPoll, usbRx, usbWriting, usbDeviceVars
<1>2. PICK a \in 0 .. RxSize - 1 : a = Available /\ a = Len(Unread) /\ (Unread # <<>> => a >= 1)
  <2>1. Unread # <<>> => Len(Unread) # 0
    BY UnreadBytes, EmptySeq
  <2> QED
    BY <2>1, UnreadBytes, UsbNumbers
<1>3. Available' = a
  BY <1>1, <1>2 DEF Available
<1>4. CASE UsbRead
  <2>1. usbReader' = [at |-> "poll", left |-> 0]
    BY <1>4 DEF UsbRead
  <2>2. usbReader' \in [at : {"idle", "poll", "copy"}, left : 0 .. RxSize - 1] /\ usbReader'.at = "poll"
    BY <2>1, UsbNumbers
  <2> QED
    BY <1>1, <1>2, <1>3, <2>2 DEF DeviceInv, PortInv, PortTyped, CopiesUnread, PacketsGoOn, RefusedSinceSetup
<1>5. CASE UsbPoll
  <2>1. usbReader' = [at |-> "copy", left |-> a] /\ a >= 1
    BY <1>2, <1>5 DEF UsbPoll
  <2>2. usbReader' \in [at : {"idle", "poll", "copy"}, left : 0 .. RxSize - 1] /\ usbReader'.left = a
    BY <2>1, UsbNumbers
  <2>3. CopiesUnread'
    BY <1>3, <2>1, <2>2, UsbNumbers DEF CopiesUnread
  <2> QED
    BY <1>1, <1>2, <1>3, <2>2, <2>3 DEF DeviceInv, PortInv, PortTyped, PacketsGoOn, RefusedSinceSetup
<1> QED
  BY <1>4, <1>5

(* The task takes the byte at the tail: what follows it comes next. *)
LEMMA TaskReadsByte ==
    ASSUME DeviceInv, PortInv, UsbReadByte
    PROVE  DeviceInv' /\ PortInv'
<1>1. UNCHANGED <<usbSetup, dev, ep0, rxBuffer, rxBufferHeadPos, rxRefused, usbEvents, usbWriter, lateAnswer>>
  BY DEF UsbReadByte, usbRx, usbWriting, usbDeviceVars
<1>2. PICK h \in 0 .. RxSize - 1, t \in 0 .. RxSize - 1, a \in 0 .. RxSize - 1, m \in 0 .. RxSize - 1 :
        h = rxBufferHeadPos /\ t = rxBufferTailPos /\ a = Available /\ m = usbReader.left
  BY Positions DEF PortInv, PortTyped, Available
<1>3. m >= 1 /\ m <= a
  BY <1>2 DEF UsbReadByte, PortInv, CopiesUnread
<1>4. a = (IF h >= t THEN h - t ELSE h - t + RxSize)
  BY <1>2, Positions DEF Available
<1>5. PICK u \in 0 .. RxSize - 1 : u = rxBufferTailPos' /\ u = After(t, 1) /\ u = (IF t + 1 >= RxSize THEN t + 1 - RxSize ELSE t + 1)
  <2>1. 1 \in 0 .. RxSize
    BY UsbNumbers
  <2> QED
    BY <1>2, <2>1, Positions DEF UsbReadByte
<1>6. Available' = a - 1
  <2>1. BytesAvailable(h, u) = (IF h >= u THEN h - u ELSE h - u + RxSize)
    BY Positions
  <2>2. BytesAvailable(h, u) = a - 1
    <3>1. a >= 1 /\ h # t
      BY <1>3, <1>4, UsbNumbers
    <3>2. CASE t + 1 >= RxSize
      <4>1. u = 0 /\ t = RxSize - 1 /\ h < t
        BY <1>5, <3>1, <3>2, UsbNumbers
      <4>2. a = h - t + RxSize /\ BytesAvailable(h, u) = h - u
        BY <1>4, <2>1, <4>1, UsbNumbers
      <4> QED
        BY <4>1, <4>2, UsbNumbers
    <3>3. CASE ~(t + 1 >= RxSize)
      <4>1. u = t + 1 /\ (h >= t <=> h >= u)
        BY <1>5, <3>1, <3>3, UsbNumbers
      <4> QED
        BY <1>4, <2>1, <4>1, UsbNumbers
    <3> QED
      BY <3>2, <3>3
  <2> QED
    BY <1>1, <1>2, <1>5, <2>2 DEF Available
<1>7. ASSUME NEW k \in 0 .. a - 1 PROVE After(u, k) = After(t, k + 1)
  <2>1. k \in 0 .. RxSize /\ k + 1 \in 0 .. RxSize
    BY UsbNumbers
  <2>2. /\ After(u, k) = (IF u + k >= RxSize THEN u + k - RxSize ELSE u + k)
        /\ After(t, k + 1) = (IF t + (k + 1) >= RxSize THEN t + (k + 1) - RxSize ELSE t + (k + 1))
    BY <2>1, Positions
  <2> QED
    BY <1>5, <2>1, <2>2, UsbNumbers
<1>8. After(t, 0) = t
  <2>1. 0 \in 0 .. RxSize
    BY UsbNumbers
  <2>2. After(t, 0) = (IF t + 0 >= RxSize THEN t + 0 - RxSize ELSE t + 0)
    BY <2>1, Positions
  <2> QED
    BY <2>2, UsbNumbers
<1>9. lastRead' = rxBuffer[t] /\ lastRead' \in 1 .. MaxOut
  BY <1>2 DEF UsbReadByte, PortInv, PortTyped
<1>10. usbReader' \in [at : {"idle", "poll", "copy"}, left : 0 .. RxSize - 1]
  <2>1. CASE m = 1
    BY <1>2, <2>1, UsbNumbers DEF UsbReadByte
  <2>2. CASE m # 1
    <3>1. usbReader \in [at : {"idle", "poll", "copy"}, left : 0 .. RxSize - 1]
      BY DEF PortInv, PortTyped
    <3>2. usbReader' = [usbReader EXCEPT !.left = m - 1] /\ m - 1 \in 0 .. RxSize - 1
      BY <1>2, <1>3, <2>2, UsbNumbers DEF UsbReadByte
    <3> QED
      BY <3>1, <3>2
  <2> QED
    BY <2>1, <2>2
<1>11. usbReader'.at = "copy" => usbReader'.left = m - 1 /\ m # 1
  <2>1. usbReader \in [at : {"idle", "poll", "copy"}, left : 0 .. RxSize - 1]
    BY DEF PortInv, PortTyped
  <2> QED
    BY <1>2, <2>1 DEF UsbReadByte
<1>12. CopiesUnread'
  <2>1. m # 1 => m - 1 >= 1 /\ m - 1 <= a - 1
    BY <1>3, UsbNumbers
  <2> QED
    BY <1>6, <1>11, <2>1 DEF CopiesUnread
<1>13. PortTyped'
  BY <1>1, <1>5, <1>9, <1>10 DEF PortInv, PortTyped
<1>14. \A k \in 0 .. a - 1 : rxBuffer[After(t, k)] > 1 =>
          k + 1 < a /\ rxBuffer[After(t, k + 1)] = rxBuffer[After(t, k)] - 1
  BY <1>2 DEF PortInv, PacketsGoOn
<1>15. ASSUME rxBuffer[t] > 1 PROVE a - 1 > 0 /\ rxBuffer[u] = rxBuffer[t] - 1
  <2>1. 0 \in 0 .. a - 1
    BY <1>3, UsbNumbers
  <2>2. 0 + 1 < a /\ rxBuffer[After(t, 0 + 1)] = rxBuffer[After(t, 0)] - 1
    BY <1>8, <1>14, <1>15, <2>1
  <2> QED
    BY <1>5, <1>8, <2>2, UsbNumbers
<1>16. ASSUME NEW k \in 0 .. a - 2, rxBuffer[After(u, k)] > 1
       PROVE  k + 1 < a - 1 /\ rxBuffer[After(u, k + 1)] = rxBuffer[After(u, k)] - 1
  <2>1. k \in 0 .. a - 1 /\ k + 1 \in 0 .. a - 1
    BY <1>3, UsbNumbers
  <2>2. After(u, k) = After(t, k + 1) /\ After(u, k + 1) = After(t, (k + 1) + 1)
    BY <1>7, <2>1
  <2>3. (k + 1) + 1 < a /\ rxBuffer[After(t, (k + 1) + 1)] = rxBuffer[After(t, k + 1)] - 1
    BY <1>14, <1>16, <2>1, <2>2
  <2> QED
    BY <2>1, <2>2, <2>3, UsbNumbers
<1>17. PacketsGoOn'
  <2>1. (a - 1) - 1 = a - 2
    BY <1>3, UsbNumbers
  <2> QED
    BY <1>1, <1>5, <1>6, <1>9, <1>15, <1>16, <2>1 DEF PacketsGoOn
<1> QED
  BY <1>1, <1>12, <1>13, <1>17 DEF DeviceInv, PortInv, RefusedSinceSetup

LEMMA PortInvNext ==
    ASSUME DeviceInv, PortInv, [UsbPortNext]_usbPortVars PROVE DeviceInv' /\ PortInv'
<1>1. CASE UNCHANGED usbPortVars
  BY <1>1 DEF usbPortVars, usbDeviceVars, usbRx, usbReading, usbWriting, DeviceInv, PortInv,
       PortTyped, CopiesUnread, PacketsGoOn, RefusedSinceSetup, Available
<1>2. CASE UsbPortNext
  BY <1>2, DeviceSteps, PacketArrives, PacketGoesOut, TaskWrites, TaskPolls, TaskReadsByte
    DEF UsbPortNext, UsbTaskStep
<1> QED
  BY <1>1, <1>2

(* As long as no write() has left a transfer behind, a transfer is under    *)
(* way only while a write() waits for it, and the flag says that it is over*)
(* and that the class takes the next one.                                  *)
Announced ==
    ~lateAnswer =>
        /\ usbWriter # "wait" => usbEvents = {} /\ dev.sending = "nothing"
        /\ "WRITTEN" \in usbEvents => dev.sending = "nothing" /\ dev.TxState = 0

LEMMA AnnouncedNext ==
    ASSUME DeviceInv, PortInv, Announced, [UsbPortNext]_usbPortVars PROVE Announced'
<1>0. /\ dev.sending \in {"nothing", "data", "empty"} /\ dev.TxState \in {0, 1} /\ lateAnswer \in BOOLEAN
      /\ usbEvents \subseteq {"WRITTEN"}
  BY DEF DeviceInv, Devices, PortInv, PortTyped
<1>1. CASE DeviceStep
  <2>1. OnlyEnds(dev, dev') /\ UNCHANGED <<usbEvents, usbWriter, lateAnswer>>
    BY <1>1, DeviceSteps DEF Steps, DeviceStep, usbWriting
  <2> QED
    BY <2>1 DEF Announced, OnlyEnds
<1>2. ASSUME NEW n \in 1 .. MaxOut, UsbDataOut(n) PROVE Announced'
  <2>1. dev'.sending = dev.sending /\ dev'.TxState = dev.TxState /\ UNCHANGED <<usbEvents, usbWriter, lateAnswer>>
    BY <1>2 DEF UsbDataOut, usbWriting, DeviceInv, Devices
  <2> QED
    BY <2>1 DEF Announced
<1>3. ASSUME NEW full \in BOOLEAN, UsbDataIn(full) PROVE Announced'
  <2>1. dev.sending # "nothing" /\ UNCHANGED <<usbWriter, lateAnswer>>
    BY <1>3 DEF UsbDataIn
  <2>2. \/ dev'.sending = "nothing" /\ dev'.TxState = 0
        \/ UNCHANGED usbEvents
    BY <1>3 DEF UsbDataIn, DeviceInv, Devices
  <2> QED
    BY <2>1, <2>2 DEF Announced
<1>4. CASE UsbRead \/ UsbPoll \/ UsbReadByte \/ UsbWrite
  BY <1>4 DEF UsbRead, UsbPoll, UsbReadByte, UsbWrite, usbDeviceVars, usbWriting, Announced
<1>5. CASE UsbSubmit
  <2>1. usbWriter = "submit" /\ UNCHANGED <<usbEvents, lateAnswer>> /\ (usbWriter' = "wait" \/ UNCHANGED dev)
    BY <1>5 DEF UsbSubmit
  <2> QED
    BY <2>1 DEF Announced
<1>6. CASE UsbWritten
  BY <1>6 DEF UsbWritten, usbDeviceVars, Announced
<1>7. CASE UsbWriteTimesOut
  BY <1>0, <1>7 DEF UsbWriteTimesOut, usbDeviceVars, Announced
<1>8. CASE UNCHANGED usbPortVars
  BY <1>8 DEF usbPortVars, usbDeviceVars, usbWriting, Announced
<1> QED
  BY <1>1, <1>2, <1>3, <1>4, <1>5, <1>6, <1>7, <1>8 DEF UsbPortNext, UsbTaskStep

(* What the invariants say of the device and of the port. *)
LEMMA DeviceInvImplies ==
    DeviceInv => UsbDeviceTypeOK /\ ClassFollowsConfiguration /\ ControlTransfersEnd
<1> SUFFICES ASSUME DeviceInv PROVE UsbDeviceTypeOK /\ ClassFollowsConfiguration /\ ControlTransfersEnd
  OBVIOUS
<1>1. UsbDeviceTypeOK
  BY DEF DeviceInv, UsbDeviceTypeOK, Devices, Transfers
<1>2. ClassFollowsConfiguration
  BY DEF DeviceInv, ClassFollowsConfiguration, Follows
<1>3. ControlTransfersEnd
  BY DEF DeviceInv, ControlTransfersEnd, InTransfer, Ended
<1> QED
  BY <1>1, <1>2, <1>3

LEMMA PortInvImplies == DeviceInv /\ PortInv => UsbPortTypeOK /\ WholePackets /\ SilencedOnlyByRefusal
<1> SUFFICES ASSUME DeviceInv, PortInv PROVE UsbPortTypeOK /\ WholePackets /\ SilencedOnlyByRefusal
  OBVIOUS
<1>1. UsbPortTypeOK
  BY DeviceInvImplies DEF PortInv, PortTyped, UsbPortTypeOK
<1>2. SilencedOnlyByRefusal
  BY DEF DeviceInv, PortInv, Follows, RefusedSinceSetup, SilencedOnlyByRefusal
<1>3. PICK a \in 0 .. RxSize - 1, t \in 0 .. RxSize - 1 : a = Available /\ t = rxBufferTailPos
  BY UnreadBytes DEF PortInv, PortTyped
<1>4. PICK stream : stream = <<lastRead>> \o Unread
  OBVIOUS
<1>5. <<lastRead>> \in Seq(1 .. MaxOut) /\ Len(<<lastRead>>) = 1 /\ <<lastRead>>[1] = lastRead
  BY DEF PortInv, PortTyped
<1>6. /\ Len(stream) = 1 + a /\ stream[1] = lastRead
      /\ \A i \in 2 .. 1 + a : stream[i] = Unread[i - 1]
  <2>1. /\ Len(stream) = 1 + a
        /\ \A i \in 1 .. 1 + a : stream[i] = IF i <= 1 THEN <<lastRead>>[i] ELSE Unread[i - 1]
    BY <1>3, <1>4, <1>5, UnreadBytes, ConcatProperties
  <2> QED
    BY <1>3, <1>5, <2>1, UsbNumbers
<1>7. \A i \in 2 .. 1 + a : stream[i] = rxBuffer[After(t, i - 2)]
  <2>1. ASSUME NEW i \in 2 .. 1 + a PROVE stream[i] = rxBuffer[After(t, i - 2)]
    <3>1. i - 1 \in 1 .. a /\ (i - 1) - 1 = i - 2
      BY UsbNumbers
    <3> QED
      BY <1>3, <1>6, <3>1, UnreadBytes
  <2> QED
    BY <2>1
<1>8. After(t, 0) = t
  <2>1. 0 \in 0 .. RxSize
    BY UsbNumbers
  <2>2. After(t, 0) = (IF t + 0 >= RxSize THEN t + 0 - RxSize ELSE t + 0)
    BY <2>1, Positions
  <2> QED
    BY <2>2, UsbNumbers
<1>9. ASSUME NEW i \in 1 .. 1 + a, stream[i] > 1
      PROVE  i < 1 + a /\ stream[i + 1] = stream[i] - 1
  <2>1. CASE i = 1
    <3>1. a > 0 /\ rxBuffer[t] = lastRead - 1
      BY <1>3, <1>6, <1>9, <2>1 DEF PortInv, PacketsGoOn
    <3>2. 2 \in 2 .. 1 + a /\ i + 1 = 2 /\ 2 - 2 = 0 /\ i < 1 + a
      BY <2>1, <3>1, UsbNumbers
    <3> QED
      BY <1>6, <1>7, <1>8, <2>1, <3>1, <3>2
  <2>2. CASE i # 1
    <3>1. PICK k \in 0 .. a - 1 : i = k + 2
      <4>1. i - 2 \in 0 .. a - 1 /\ i = (i - 2) + 2
        BY <2>2, UsbNumbers
      <4> QED
        BY <4>1
    <3>2. stream[i] = rxBuffer[After(t, k)]
      <4>1. i \in 2 .. 1 + a /\ i - 2 = k
        BY <3>1, UsbNumbers
      <4> QED
        BY <1>7, <4>1
    <3>3. k + 1 < a /\ rxBuffer[After(t, k + 1)] = rxBuffer[After(t, k)] - 1
      BY <1>3, <1>9, <3>2 DEF PortInv, PacketsGoOn
    <3>4. i + 1 \in 2 .. 1 + a /\ (i + 1) - 2 = k + 1 /\ i < 1 + a
      BY <3>1, <3>3, UsbNumbers
    <3> QED
      BY <1>7, <3>2, <3>3, <3>4
  <2> QED
    BY <2>1, <2>2
<1>10. WholePackets
  BY <1>4, <1>6, <1>9 DEF WholePackets
<1> QED
  BY <1>1, <1>2, <1>10

---------------------------------------------------------------------------
(* The SPI bus.  The task that has locked it is the only one with its chip *)
(* selected and a transfer under way, and until the first end that comes   *)
(* too late an event flag is for the transfer that this task waits for.    *)

SpiPlaces == {"idle", "lock", "start", "wait", "abort", "release", "unlock", "report"}

SpiTask ==
    [at : SpiPlaces, left : 0 .. MaxTransfers, success : BOOLEAN, status : {"HAL_OK", "HAL_BUSY"}]

SpiTasks == [SpiDevices -> SpiTask]

Holds(d) == spiTask[d].at \in {"start", "wait", "abort", "release", "unlock"}

OneHolder ==
    /\ in_use \in SpiDevices \cup {NoDevice}
    /\ \A d \in SpiDevices : Holds(d) => in_use = d
    /\ \A d \in selected : spiTask[d].at \in {"start", "wait", "abort", "release"}
    /\ \A d \in SpiDevices : spiTask[d].at \in {"start", "wait", "abort", "release"} => d \in selected

InTime ==
    ~lateDone =>
        /\ inFlight # NoDevice => spiTask[inFlight].at \in {"wait", "abort"}
        /\ spiEvents # {} => inFlight = NoDevice /\ \E d \in SpiDevices : spiTask[d].at = "wait"

SpiTyped ==
    /\ spiState \in {"new", "unfinished", "failed", "initialized"} /\ spiKernel \in BOOLEAN
    /\ inFlight \in SpiDevices \cup {NoDevice}
    /\ selected \subseteq SpiDevices
    /\ spiEvents \subseteq {"DONE", "ERROR"} /\ lateDone \in BOOLEAN
    /\ last_hal_status \in {"HAL_OK", "HAL_BUSY", "HAL_ERROR"}

SpiInv == SpiTyped /\ spiTask \in SpiTasks /\ OneHolder /\ InTime

LEMMA NoTransferTyped == NoTransfer \in SpiTask
BY SpiAssumption DEF NoTransfer, SpiTask, SpiPlaces

LEMMA SpiInvInit == SpiInit => SpiInv
<1> SUFFICES ASSUME SpiInit PROVE SpiInv
  OBVIOUS
<1>2. \A d \in SpiDevices : spiTask[d].at = "idle"
  BY DEF SpiInit, NoTransfer
<1>3. spiTask \in SpiTasks
  BY NoTransferTyped DEF SpiInit, SpiTasks
<1> QED
  BY <1>2, <1>3 DEF SpiInit, SpiInv, SpiTyped, OneHolder, Holds, InTime

(* A task that only goes on leaves the tasks of the other devices alone.   *)
LEMMA GotoKeeps ==
    ASSUME spiTask \in SpiTasks, NEW d \in SpiDevices, NEW p \in SpiPlaces, spiTask' = Goto(d, p)
    PROVE  /\ spiTask' \in SpiTasks
           /\ spiTask'[d].at = p
           /\ \A e \in SpiDevices \ {d} : spiTask'[e] = spiTask[e]
BY DEF SpiTasks, SpiTask, Goto

LEMMA SpiStep ==
    ASSUME SpiInv, NEW d \in SpiDevices, SpiTaskStep(d) PROVE SpiInv'
<1> USE DEF SpiInv, spiBus
<1>0. SpiTyped /\ spiTask \in SpiTasks /\ OneHolder /\ InTime /\ NoDevice \notin SpiDevices
  BY SpiAssumption
<1>1. CASE LockBus(d)
  <2>1. /\ spiTask' \in SpiTasks /\ spiTask'[d].at = "start"
        /\ \A e \in SpiDevices \ {d} : spiTask'[e] = spiTask[e]
    BY <1>0, <1>1, GotoKeeps DEF LockBus, SpiPlaces
  <2>2. OneHolder'
    BY <1>0, <1>1, <2>1 DEF LockBus, OneHolder, Holds, SpiTyped
  <2>3. InTime'
    BY <1>0, <1>1, <2>1 DEF LockBus, InTime, SpiTyped
  <2> QED
    BY <1>0, <1>1, <2>1, <2>2, <2>3 DEF LockBus, SpiTyped
<1>2. CASE StartTransfer(d) /\ inFlight = NoDevice
  <2>1. /\ spiTask' \in SpiTasks /\ spiTask'[d].at = "wait"
        /\ \A e \in SpiDevices \ {d} : spiTask'[e] = spiTask[e]
    BY <1>0, <1>2, GotoKeeps DEF StartTransfer, SpiPlaces
  <2>2. OneHolder'
    BY <1>0, <1>2, <2>1 DEF StartTransfer, OneHolder, Holds, SpiTyped
  <2>3. ~lateDone => spiEvents = {}
    BY <1>0, <1>2 DEF StartTransfer, OneHolder, Holds, InTime
  <2>4. InTime'
    BY <1>0, <1>2, <2>1, <2>3 DEF StartTransfer, InTime
  <2> QED
    BY <1>0, <1>2, <2>1, <2>2, <2>4 DEF StartTransfer, SpiTyped
<1>3. CASE StartTransfer(d) /\ inFlight # NoDevice
  <2>1. /\ spiTask' \in SpiTasks /\ spiTask'[d].at = "release"
        /\ \A e \in SpiDevices \ {d} : spiTask'[e] = spiTask[e]
    BY <1>0, <1>3 DEF StartTransfer, SpiTasks, SpiTask, SpiPlaces
  <2>2. OneHolder'
    BY <1>0, <1>3, <2>1 DEF StartTransfer, OneHolder, Holds, SpiTyped
  <2>3. lateDone
    BY <1>0, <1>3 DEF StartTransfer, OneHolder, Holds, InTime, SpiTyped
  <2> QED
    BY <1>0, <1>3, <2>1, <2>2, <2>3 DEF StartTransfer, SpiTyped, InTime
<1>4. CASE TransferAnswered(d)
  <2>1. /\ spiTask' \in SpiTasks /\ spiTask'[d].at \in {"start", "abort", "release"}
        /\ \A e \in SpiDevices \ {d} : spiTask'[e] = spiTask[e]
    <3>1. CASE "ERROR" \in spiEvents
      BY <1>0, <1>4, <3>1, GotoKeeps DEF TransferAnswered, SpiPlaces
    <3>2. CASE "ERROR" \notin spiEvents /\ spiTask[d].left > 1
      <4>1. spiTask[d].left - 1 \in 0 .. MaxTransfers
        BY <1>0, <3>2, SpiAssumption DEF SpiTasks, SpiTask
      <4> QED
        BY <1>0, <1>4, <3>2, <4>1 DEF TransferAnswered, SpiTasks, SpiTask, SpiPlaces
    <3>3. CASE "ERROR" \notin spiEvents /\ ~(spiTask[d].left > 1)
      BY <1>0, <1>4, <3>3 DEF TransferAnswered, SpiTasks, SpiTask, SpiPlaces
    <3> QED
      BY <3>1, <3>2, <3>3
  <2>2. OneHolder'
    BY <1>0, <1>4, <2>1 DEF TransferAnswered, OneHolder, Holds, SpiTyped
  <2>3. InTime'
    BY <1>0, <1>4, <2>1 DEF TransferAnswered, InTime
  <2> QED
    BY <1>0, <1>4, <2>1, <2>2, <2>3 DEF TransferAnswered, SpiTyped
<1>5. CASE TransferTimesOut(d)
  <2>1. /\ spiTask' \in SpiTasks /\ spiTask'[d].at = "abort"
        /\ \A e \in SpiDevices \ {d} : spiTask'[e] = spiTask[e]
    BY <1>0, <1>5, GotoKeeps DEF TransferTimesOut, SpiPlaces
  <2>2. OneHolder'
    BY <1>0, <1>5, <2>1 DEF TransferTimesOut, OneHolder, Holds, SpiTyped
  <2>3. InTime'
    BY <1>0, <1>5, <2>1 DEF TransferTimesOut, InTime, SpiTyped
  <2> QED
    BY <1>0, <1>5, <2>1, <2>2, <2>3 DEF TransferTimesOut, SpiTyped
<1>6. CASE AbortTransfer(d)
  <2>1. /\ spiTask' \in SpiTasks /\ spiTask'[d].at = "release"
        /\ \A e \in SpiDevices \ {d} : spiTask'[e] = spiTask[e]
    BY <1>0, <1>6, GotoKeeps DEF AbortTransfer, SpiPlaces
  <2>2. OneHolder'
    BY <1>0, <1>6, <2>1 DEF AbortTransfer, OneHolder, Holds, SpiTyped
  <2>3. InTime'
    BY <1>0, <1>6, <2>1 DEF AbortTransfer, InTime
  <2> QED
    BY <1>0, <1>6, <2>1, <2>2, <2>3 DEF AbortTransfer, SpiTyped
<1>7. CASE ReleaseChip(d)
  <2>1. /\ spiTask' \in SpiTasks /\ spiTask'[d].at = "unlock"
        /\ \A e \in SpiDevices \ {d} : spiTask'[e] = spiTask[e]
    BY <1>0, <1>7, GotoKeeps DEF ReleaseChip, SpiPlaces
  <2>2. OneHolder'
    BY <1>0, <1>7, <2>1 DEF ReleaseChip, OneHolder, Holds, SpiTyped
  <2>3. InTime'
    BY <1>0, <1>7, <2>1 DEF ReleaseChip, InTime, SpiTyped
  <2> QED
    BY <1>0, <1>7, <2>1, <2>2, <2>3 DEF ReleaseChip, SpiTyped
<1>8. CASE UnlockBus(d)
  <2>1. /\ spiTask' \in SpiTasks /\ spiTask'[d].at = "report"
        /\ \A e \in SpiDevices \ {d} : spiTask'[e] = spiTask[e]
    BY <1>0, <1>8, GotoKeeps DEF UnlockBus, SpiPlaces
  <2>2. OneHolder'
    BY <1>0, <1>8, <2>1 DEF UnlockBus, OneHolder, Holds, SpiTyped
  <2>3. InTime'
    BY <1>0, <1>8, <2>1 DEF UnlockBus, InTime, SpiTyped
  <2> QED
    BY <1>0, <1>8, <2>1, <2>2, <2>3 DEF UnlockBus, SpiTyped
<1>9. CASE ReportStatus(d)
  <2>1. /\ spiTask' \in SpiTasks /\ spiTask'[d].at = "idle"
        /\ \A e \in SpiDevices \ {d} : spiTask'[e] = spiTask[e]
    BY <1>0, <1>9, GotoKeeps DEF ReportStatus, SpiPlaces
  <2>2. OneHolder'
    BY <1>0, <1>9, <2>1 DEF ReportStatus, OneHolder, Holds, SpiTyped
  <2>3. InTime'
    BY <1>0, <1>9, <2>1 DEF ReportStatus, InTime, SpiTyped
  <2>4. spiTask[d].status \in {"HAL_OK", "HAL_BUSY"}
    BY <1>0 DEF SpiTasks, SpiTask
  <2> QED
    BY <1>0, <1>9, <2>1, <2>2, <2>3, <2>4 DEF ReportStatus, SpiTyped
<1> QED
  BY <1>1, <1>2, <1>3, <1>4, <1>5, <1>6, <1>7, <1>8, <1>9 DEF SpiTaskStep

LEMMA SpiInvNext == ASSUME SpiInv, [SpiNext]_spiVars PROVE SpiInv'
<1> USE DEF SpiInv
<1>0. SpiTyped /\ spiTask \in SpiTasks /\ OneHolder /\ InTime /\ NoDevice \notin SpiDevices
  BY SpiAssumption
<1>1. ASSUME NEW speed \in ClockSpeeds, ConfigureSpi(speed) PROVE SpiInv'
  <2>1. spiState' \in {"new", "unfinished", "failed", "initialized"}
    BY <1>1 DEF ConfigureSpi, MspInit, MspDeInit
  <2> QED
    BY <1>0, <1>1, <2>1 DEF ConfigureSpi, SpiTyped, OneHolder, Holds, InTime
<1>2. CASE StartKernel
  BY <1>0, <1>2 DEF StartKernel, SpiTyped, OneHolder, Holds, InTime
<1>3. ASSUME NEW d \in SpiDevices, NEW status \in {"HAL_OK", "HAL_ERROR"}, PollingTransfer(d, status)
      PROVE SpiInv'
  <2>1. spiTask' \in SpiTasks
    BY <1>0, <1>3 DEF PollingTransfer, SpiTasks, SpiTask
  <2>2. \A e \in SpiDevices : spiTask'[e].at = spiTask[e].at
    BY <1>0, <1>3 DEF PollingTransfer, SpiTasks, SpiTask
  <2>3. OneHolder' /\ InTime'
    BY <1>0, <1>3, <2>2 DEF PollingTransfer, OneHolder, Holds, InTime, SpiTyped
  <2> QED
    BY <1>0, <1>3, <2>1, <2>3 DEF PollingTransfer, spiBus, SpiTyped
<1>4. ASSUME NEW d \in SpiDevices, NEW n \in 1 .. MaxTransfers, Transfer(d, n) PROVE SpiInv'
  <2>1. /\ [NoTransfer EXCEPT !.at = "lock", !.left = n] \in SpiTask
        /\ [NoTransfer EXCEPT !.at = "lock", !.left = n].at = "lock"
    <3> DEFINE locking == [NoTransfer EXCEPT !.at = "lock"]
    <3>1. locking \in SpiTask /\ locking.at = "lock"
      BY NoTransferTyped DEF SpiTask, SpiPlaces
    <3>2. [NoTransfer EXCEPT !.at = "lock", !.left = n] = [locking EXCEPT !.left = n]
      OBVIOUS
    <3> HIDE DEF locking
    <3>3. [locking EXCEPT !.left = n] \in SpiTask /\ [locking EXCEPT !.left = n].at = "lock"
      BY <3>1 DEF SpiTask, SpiPlaces
    <3> QED
      BY <3>2, <3>3
  <2>2. spiTask' \in SpiTasks
    BY <1>0, <1>4, <2>1 DEF Transfer, SpiTasks, SpiTask
  <2>3. spiTask'[d].at = "lock" /\ \A e \in SpiDevices \ {d} : spiTask'[e] = spiTask[e]
    BY <1>0, <1>4, <2>1 DEF Transfer, SpiTasks, SpiTask
  <2>4. OneHolder'
    BY <1>0, <1>4, <2>3 DEF Transfer, OneHolder, Holds, SpiTyped
  <2>5. InTime'
    BY <1>0, <1>4, <2>3 DEF Transfer, InTime, SpiTyped
  <2> QED
    BY <1>0, <1>4, <2>2, <2>4, <2>5 DEF Transfer, spiBus, SpiTyped
<1>5. ASSUME NEW d \in SpiDevices, SpiTaskStep(d) PROVE SpiInv'
  BY <1>5, SpiStep
<1>6. ASSUME NEW event \in {"DONE", "ERROR"}, SpiIrq(event) PROVE SpiInv'
  <2>1. OneHolder'
    BY <1>0, <1>6 DEF SpiIrq, OneHolder, Holds
  <2>2. InTime'
    BY <1>0, <1>6 DEF SpiIrq, InTime, SpiTyped
  <2> QED
    BY <1>0, <1>6, <2>1, <2>2 DEF SpiIrq, spiBus, SpiTyped
<1>7. CASE UNCHANGED spiVars
  BY <1>0, <1>7 DEF spiVars, spiBus, SpiTyped, OneHolder, Holds, InTime
<1> QED
  BY <1>1, <1>2, <1>3, <1>4, <1>5, <1>6, <1>7 DEF SpiNext

LEMMA SpiInvImplies == ASSUME SpiInv PROVE SpiTypeOK /\ OneChipListens /\ DoneMeansDone
<1> USE SpiAssumption DEF SpiInv
<1>1. SpiTypeOK
  BY DEF SpiTypeOK, SpiTyped, SpiTasks, SpiTask, SpiPlaces, OneHolder
<1>2. selected \subseteq {in_use}
  BY DEF SpiTyped, OneHolder, Holds
<1>3. Cardinality(selected) <= 1
  <2>1. CASE selected = {}
    BY <2>1, FS_EmptySet
  <2>2. CASE selected = {in_use}
    BY <2>2, FS_Singleton
  <2> QED
    BY <1>2, <2>1, <2>2
<1>4. inFlight # NoDevice /\ ~lateDone => selected = {inFlight}
  BY <1>2 DEF SpiTyped, OneHolder, InTime, Holds
<1>5. DoneMeansDone
  BY DEF DoneMeansDone, SpiTyped, OneHolder, InTime, Holds
<1> QED
  BY <1>1, <1>3, <1>4, <1>5 DEF OneChipListens
---------------------------------------------------------------------------
LEMMA LinksPartNext ==
    ASSUME [LinksNext]_linksVars
    PROVE  [Next]_vars /\ [RingNext]_ringVars /\ [UartNext]_uartVars /\ [SpiNext]_spiVars
BY DEF LinksNext, linksVars, Only

(* The control transfers are a session of their own, in which the port     *)
(* stands still.                                                           *)
UsbInv ==
    /\ DeviceInv
    /\ link # "usbControl" => PortInv /\ Announced
    /\ link = "usbControl" => usbWriter = "idle"

LEMMA UsbInvNext == ASSUME UsbInv, [LinksNext]_linksVars PROVE UsbInv'
<1>1. link' = link
  BY DEF LinksNext, linksVars, Only
<1>2. CASE link = "usbControl"
  <2>1. [UsbDeviceNext]_usbDeviceVars
    BY <1>2 DEF LinksNext, linksVars, Only, usbPortVars
  <2>2. UNCHANGED usbWriter
    BY <1>2 DEF LinksNext, linksVars, Only, usbPortVars, portVars, usbWriting
  <2> QED
    BY <1>1, <1>2, <2>1, <2>2, DeviceInvNext DEF UsbInv
<1>3. CASE link # "usbControl"
  <2>1. [UsbPortNext]_usbPortVars
    BY <1>3 DEF LinksNext, linksVars, Only, usbPortVars, portVars
  <2> QED
    BY <1>1, <1>3, <2>1, PortInvNext, AnnouncedNext DEF UsbInv
<1> QED
  BY <1>2, <1>3

LEMMA UsbInvInit == LinksInit => UsbInv
<1> SUFFICES ASSUME LinksInit PROVE UsbInv
  OBVIOUS
<1>1. DeviceInv /\ PortInv
  BY DeviceInvInit, PortInvInit DEF LinksInit, UsbPortInit
<1>2. Announced /\ usbWriter = "idle"
  BY DEF LinksInit, UsbPortInit, UsbDeviceInit, NewDevice, Announced
<1> QED
  BY <1>1, <1>2 DEF UsbInv

(* For any host and task of the USB port: a write() that returns true has  *)
(* sent its bytes and the class takes the next ones, unless an earlier     *)
(* write() gave up a transfer that went on.                                *)
THEOREM WritesSent == LinksSpec => WrittenIsSent
<1>1. UsbInv => (UsbWritten => dev.TxState = 0 \/ lateAnswer)
  BY DEF UsbInv, Announced, UsbWritten
<1>2. UsbInv /\ [LinksNext]_linksVars => UsbInv'
  BY UsbInvNext
<1> QED
  BY <1>1, <1>2, UsbInvInit, PTL DEF LinksSpec, WrittenIsSent

(* For any number of tasks, messages and limit, for any ring and its bytes,*)
(* for any ring and writes of a UART whose reader takes no less than the   *)
(* ring holds, for any receive buffer, packets, descriptors and requests of*)
(* USB, and for any devices on the SPI bus: the queue keeps its limit, the *)
(* sides of a ring stay apart, no byte of the UART waits beside an         *)
(* interrupt that is off or a task that sleeps, a packet of the USB host is*)
(* taken or refused as a whole and its class follows its configuration, and*)
(* one chip at a time listens to the transfer it is selected for.          *)
THEOREM LinksCorrect ==
    ASSUME BufferHoldsRing
    PROVE  LinksSpec => []PortsRight
<1> DEFINE Inv == IInv /\ RingInv /\ UartInv /\ UsbInv /\ SpiInv
<1>1. LinksInit => Inv
  BY InitIInv, RingInvInit, UartInvInit, UsbInvInit, SpiInvInit DEF LinksInit
<1>2. Inv /\ [LinksNext]_linksVars => Inv'
  BY LinksPartNext, StepIInv, RingInvNext, UartInvNext, UsbInvNext, SpiInvNext
<1>3. Inv => PortsRight
  <2> SUFFICES ASSUME Inv PROVE PortsRight
    OBVIOUS
  <2>1. RingTypeOK /\ SidesApart /\ QueriesAgree
    BY RingInvImplies
  <2>2. UartTypeOK /\ NothingStranded /\ NoSleepBesideBytes
    BY DEF UartInv, ReadFlagged, NoSleepBesideBytes
  <2>3. ClassFollowsConfiguration /\ ControlTransfersEnd
    BY DeviceInvImplies DEF UsbInv
  <2>4. link \in {"usbIn", "usbOut"} => UsbPortTypeOK /\ WholePackets /\ SilencedOnlyByRefusal
    BY PortInvImplies DEF UsbInv
  <2>5. SpiTypeOK /\ OneChipListens /\ DoneMeansDone
    BY SpiInvImplies
  <2> QED
    BY <2>1, <2>2, <2>3, <2>4, <2>5 DEF IInv, PortsRight
<1> QED
  BY <1>1, <1>2, <1>3, PTL DEF LinksSpec
=============================================================================

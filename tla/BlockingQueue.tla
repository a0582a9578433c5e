---------------------------- MODULE BlockingQueue ----------------------------
(***************************************************************************)
(* The queue between tasks on POSIX: a std::queue under a mutex, with two  *)
(* condition variables.  What a method does while it holds the mutex is    *)
(* one step, except that receive() has one more between its tests and the  *)
(* wait: close() does not take the mutex and may come in between.          *)
(***************************************************************************)
EXTENDS Naturals, Sequences, FiniteSets

CONSTANTS
    Senders,    \* the tasks that send, and may close the queue
    Receivers,  \* the tasks that receive, and may clear the queue
    Messages,
    Limit       \* item_limit

VARIABLES
    items,      \* the std::queue
    is_closed,
    op,         \* the method each task is in, or what the last one returned
    message,    \* what each sender sends
    pc          \* where the task is in the method

vars == <<items, is_closed, op, message, pc>>

Fifo == INSTANCE BoundedFifo
Callers == Fifo!Callers

ASSUME LimitAssumption == Limit \in Nat \ {0}
ASSUME CallersAssumption == IsFiniteSet(Callers) /\ Senders \cap Receivers = {}
ASSUME MessagesAssumption == Messages # {}

(* The places: "idle" outside; "enter" before the mutex is taken; "wait"   *)
(* between the tests of receive() and its wait, with the mutex; "asleep"   *)
(* in a wait; "woken" out of it, before the mutex is taken again; "notify" *)
(* between the store and the notification of close().                      *)
Places == {"idle", "enter", "wait", "asleep", "woken", "notify"}

Unlocked == \A t \in Callers : pc[t] # "wait"

(* The tasks that sleep on item_removed_event and item_added_event. *)
SleepingSenders == {t \in Senders : pc[t] = "asleep"}
SleepingReceivers == {t \in Receivers : pc[t] = "asleep"}

(* The task takes the mutex, at the start of a method or after a wait. *)
Locks(t, ops) ==
    /\ op[t] \in ops
    /\ pc[t] \in {"enter", "woken"}
    /\ Unlocked

(* pc after the task has gone to a place and the tasks in woken were       *)
(* notified.                                                               *)
Moved(t, place, woken) ==
    [u \in Callers |-> IF u = t THEN place ELSE IF u \in woken THEN "woken" ELSE pc[u]]

(* notify_one() wakes one of the sleepers, if there is one; n calls wake n *)
(* of them.                                                                *)
Notified(n, sleepers) ==
    {w \in SUBSET sleepers :
        Cardinality(w) = IF n < Cardinality(sleepers) THEN n ELSE Cardinality(sleepers)}

Init == Fifo!Init /\ pc = [t \in Callers |-> "idle"]

Call(t) == Fifo!Call(t) /\ pc' = [pc EXCEPT ![t] = "enter"]

Return(t, r, woken) ==
    /\ Fifo!Return(t, r)
    /\ pc' = Moved(t, "idle", woken)

---------------------------------------------------------------------------
(* send(), send_with_timeout() and send_or_drop().  The timeout makes no   *)
(* difference: wait_for() holds the mutex again when it returns, and       *)
(* owns_lock(), by which send_with_timeout() would see a timeout, is true. *)

Refuse(t) ==
    /\ Locks(t, Fifo!Sends) /\ pc[t] = "enter"
    /\ is_closed \/ (op[t] = "send_or_drop" /\ Len(items) >= Limit)
    /\ Return(t, "refused", {})
    /\ UNCHANGED <<items, is_closed>>

Push(t) ==
    /\ Locks(t, Fifo!Sends)
    /\ pc[t] = "enter" => ~is_closed
    /\ Len(items) < Limit
    /\ items' = Append(items, message[t])
    /\ \E woken \in Notified(1, SleepingReceivers) : Return(t, "ok", woken)
    /\ UNCHANGED is_closed

WaitForRoom(t) ==
    /\ Locks(t, {"send"})
    /\ pc[t] = "enter" => ~is_closed
    /\ Len(items) >= Limit
    /\ pc' = Moved(t, "asleep", {})
    /\ UNCHANGED <<items, is_closed, op, message>>

(* A wait may end without a notification, or after the timeout. *)
WakeUp(t) ==
    /\ pc[t] = "asleep"
    /\ pc' = Moved(t, "woken", {})
    /\ UNCHANGED <<items, is_closed, op, message>>

---------------------------------------------------------------------------
(* receive() *)

Pop(t) ==
    /\ Locks(t, {"receive"})
    /\ items # <<>>
    /\ items' = Tail(items)
    /\ \E woken \in Notified(1, SleepingSenders) : Return(t, "ok", woken)
    /\ UNCHANGED is_closed

PopClosed(t) ==
    /\ Locks(t, {"receive"})
    /\ items = <<>> /\ is_closed
    /\ Return(t, "refused", {})
    /\ UNCHANGED <<items, is_closed>>

FoundEmpty(t) ==
    /\ Locks(t, {"receive"})
    /\ items = <<>> /\ ~is_closed
    /\ pc' = Moved(t, "wait", {})
    /\ UNCHANGED <<items, is_closed, op, message>>

Wait(t) ==
    /\ pc[t] = "wait"
    /\ pc' = Moved(t, "asleep", {})
    /\ UNCHANGED <<items, is_closed, op, message>>

---------------------------------------------------------------------------
(* clear() and close() *)

(* Mutant: the last message stays in the queue. *)
ClearKeepsLast(t) ==
    /\ Locks(t, {"clear"})
    /\ items' = IF items = <<>> THEN items ELSE <<items[Len(items)]>>
    /\ \E woken \in Notified(Len(items) - Len(items'), SleepingSenders) :
         Return(t, "ok", woken)
    /\ UNCHANGED is_closed

(* Mutant: one notification for all the messages removed. *)
ClearNotifiesOnce(t) ==
    /\ Locks(t, {"clear"})
    /\ items' = <<>>
    /\ \E woken \in Notified(IF items = <<>> THEN 0 ELSE 1, SleepingSenders) :
         Return(t, "ok", woken)
    /\ UNCHANGED is_closed

Clear(t) ==
    /\ Locks(t, {"clear"})
    /\ items' = <<>>
    /\ \E woken \in Notified(Len(items), SleepingSenders) : Return(t, "ok", woken)
    /\ UNCHANGED is_closed

AlreadyClosed(t) ==
    /\ op[t] = "close" /\ pc[t] = "enter" /\ is_closed
    /\ Return(t, "ok", {})
    /\ UNCHANGED <<items, is_closed>>

Close(t) ==
    /\ op[t] = "close" /\ pc[t] = "enter" /\ ~is_closed
    /\ is_closed' = TRUE
    /\ pc' = Moved(t, "notify", {})
    /\ UNCHANGED <<items, op, message>>

CloseNotify(t) ==
    /\ pc[t] = "notify"
    /\ Return(t, "ok", SleepingReceivers)
    /\ UNCHANGED <<items, is_closed>>

---------------------------------------------------------------------------
Step(t) ==
    \/ Refuse(t) \/ Push(t) \/ WaitForRoom(t)
    \/ Pop(t) \/ PopClosed(t) \/ FoundEmpty(t) \/ Wait(t)
    \/ Clear(t) \/ AlreadyClosed(t) \/ Close(t) \/ CloseNotify(t)

Next == \E t \in Callers : Call(t) \/ Step(t) \/ WakeUp(t)

Spec == Init /\ [][Next]_vars

(* The threads run, and one that waits for the mutex gets it in the end,   *)
(* for it is held only for a few instructions at a time.  Nobody has to    *)
(* call, and no wait has to end early.                                     *)
Fairness == \A t \in Callers : SF_vars(Step(t))

FairSpec == Spec /\ Fairness

---------------------------------------------------------------------------
(* Every variable has its type, and the queue keeps its limit. *)
TypeOK ==
    /\ items \in Seq(Messages) /\ Len(items) \in 0..Limit
    /\ is_closed \in BOOLEAN
    /\ op \in [Callers -> Fifo!Ops \cup Fifo!Results]
    /\ message \in [Senders -> Messages]
    /\ pc \in [Callers -> Places]

Woken(tasks) == {t \in tasks : pc[t] = "woken"}

(* No wakeup is lost: as long as a receiver sleeps, there are as many      *)
(* woken receivers under way as there are messages; as long as a sender    *)
(* sleeps, as many woken senders as there is room.  Otherwise a message    *)
(* could stay in the queue while every receiver sleeps.                    *)
NoLostWakeup ==
    /\ SleepingReceivers # {} => Len(items) <= Cardinality(Woken(Receivers))
    /\ SleepingSenders # {} => Limit - Len(items) <= Cardinality(Woken(Senders))

(* The queue implements the bounded first in, first out queue. *)
ImplementsFifo == Fifo!Spec

(* The queue moves: while there is something to receive and a receiver in  *)
(* receive(), messages are received, and while there is room and a sender  *)
(* in send(), messages are sent.                                           *)
QueueMoves ==
    /\ <>[](items # <<>> /\ \E t \in Receivers : op[t] = "receive")
         => []<><<\E t \in Receivers : Pop(t)>>_vars
    /\ <>[](Len(items) < Limit /\ \E t \in Senders : op[t] = "send")
         => []<><<\E t \in Senders : Push(t) \/ Refuse(t)>>_vars
=============================================================================

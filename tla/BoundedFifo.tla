----------------------------- MODULE BoundedFifo -----------------------------
(***************************************************************************)
(* What BlockingQueue promises the tasks that use it: a first in, first    *)
(* out queue of at most Limit messages.  Each call takes effect at one     *)
(* moment between its beginning and its return; a call that cannot take    *)
(* effect waits, except send_or_drop().  After close() sends are refused   *)
(* and receives go on until the queue is empty; a send that was waiting    *)
(* for room at that time is still accepted.                                *)
(***************************************************************************)
EXTENDS Naturals, Sequences

CONSTANTS
    Senders,    \* the tasks that send, and may close the queue
    Receivers,  \* the tasks that receive, and may clear the queue
    Messages,
    Limit       \* item_limit

Callers == Senders \cup Receivers

Results == {"ok", "refused"}
Sends == {"send", "send_or_drop"}
ReceiverOps == {"receive", "clear"}
Ops == Sends \cup ReceiverOps \cup {"close"}

VARIABLES
    items,      \* the messages in the queue
    is_closed,
    op,         \* the call each task is in, or what its last call returned
    message     \* what each sender sends

fifoVars == <<items, is_closed, op, message>>

Init ==
    /\ items = <<>>
    /\ is_closed = FALSE
    /\ op = [t \in Callers |-> "ok"]
    /\ message \in [Senders -> Messages]

Return(t, r) ==
    /\ op' = [op EXCEPT ![t] = r]
    /\ UNCHANGED message

Call(t) ==
    /\ op[t] \in Results
    /\ \/ /\ t \in Senders
          /\ \E o \in Sends, m \in Messages :
               op' = [op EXCEPT ![t] = o] /\ message' = [message EXCEPT ![t] = m]
       \/ /\ \E o \in IF t \in Senders THEN {"close"} ELSE ReceiverOps :
               op' = [op EXCEPT ![t] = o]
          /\ UNCHANGED message
    /\ UNCHANGED <<items, is_closed>>

Put(t) ==
    /\ op[t] \in Sends
    /\ Len(items) < Limit
    /\ items' = Append(items, message[t])
    /\ Return(t, "ok")
    /\ UNCHANGED is_closed

Refuse(t) ==
    /\ op[t] \in Sends
    /\ is_closed \/ (op[t] = "send_or_drop" /\ Len(items) = Limit)
    /\ Return(t, "refused")
    /\ UNCHANGED <<items, is_closed>>

Take(t) ==
    /\ op[t] = "receive"
    /\ items # <<>>
    /\ items' = Tail(items)
    /\ Return(t, "ok")
    /\ UNCHANGED is_closed

End(t) ==
    /\ op[t] = "receive"
    /\ is_closed /\ items = <<>>
    /\ Return(t, "refused")
    /\ UNCHANGED <<items, is_closed>>

Clear(t) ==
    /\ op[t] = "clear"
    /\ items' = <<>>
    /\ Return(t, "ok")
    /\ UNCHANGED is_closed

Close(t) ==
    /\ op[t] = "close"
    /\ is_closed' = TRUE
    /\ UNCHANGED <<items, op, message>>

Closed(t) ==
    /\ op[t] = "close" /\ is_closed
    /\ Return(t, "ok")
    /\ UNCHANGED <<items, is_closed>>

Next ==
    \E t \in Callers :
        \/ Call(t)
        \/ Put(t) \/ Refuse(t)
        \/ Take(t) \/ End(t)
        \/ Clear(t) \/ Close(t) \/ Closed(t)

Spec == Init /\ [][Next]_fifoVars
=============================================================================

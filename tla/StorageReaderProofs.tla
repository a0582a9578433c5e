------------------------ MODULE StorageReaderProofs ------------------------
(***************************************************************************)
(* Proofs about downloads and listings and about the telemetry they send,  *)
(* for any tasks, requests, sizes and limits.                              *)
(***************************************************************************)
EXTENDS MCStorageReader, SequenceTheorems, FiniteSetTheorems, WellFoundedInduction, TLAPS

---------------------------------------------------------------------------
(* What the variables hold. *)

Kinds == {"none", "raw", "file", "dir"}

(* A frame that is marked as the last one exactly when it is. *)
Marked(f) == f.index = f.max <=> f.last
AnyFrames == [kind : Kinds, request : Nat, index : Nat, max : Nat,
              from : Nat, to : Nat, last : BOOLEAN]
Frames == {f \in AnyFrames : Marked(f)}

Answers == {"none", "failed", "accepted"}
Texts == Answers \cup {"status"}
Contents == Frames \cup Texts \cup {NoMessage}
Messages == {m \in [from : Tasks, body : Contents] : m.from = Storage => m.body \in Frames}

TelemTyped ==
    /\ out_queue \in Seq(Messages) /\ Len(out_queue) <= QueueLimit
    /\ writing \in Seq(Messages) /\ Len(writing) <= 1
    /\ sending \in [Tasks -> [at : Places, body : Contents, sent : BOOLEAN]]
    /\ sending[Storage].at \in {"lock", "enqueue"} => sending[Storage].body \in Frames
    /\ order \in Seq(Tasks)
    /\ seq_no_mutex \in Tasks \cup {NoTask}
    /\ buffers \in Int
    /\ mishaps \in 0 .. MaxMishaps

(* Who holds the mutex has drawn the last number, and is about to put its  *)
(* message in the queue.                                                   *)
MutexHeld ==
    /\ \A t \in Tasks : sending[t].at = "enqueue" <=> seq_no_mutex = t
    /\ Len(order) = Len(UnderWay) + (IF seq_no_mutex = NoTask THEN 0 ELSE 1)
    /\ seq_no_mutex # NoTask => order[Len(order)] = seq_no_mutex
    /\ \A i \in 1 .. Len(UnderWay) : UnderWay[i].from = order[i]

Busy == {t \in Tasks : sending[t].at \in {"lock", "enqueue", "free"}}

TelemInv == TelemTyped /\ MutexHeld /\ BuffersAccounted

---------------------------------------------------------------------------
(* The operations.                                                         *)

Operations == [kind : Kinds, left : Nat, pos : Nat, index : Nat, max : Nat,
               ended : BOOLEAN, live : BOOLEAN]

ReaderTyped ==
    /\ heap \in [Requests -> Operations]
    /\ _operation \in Requests \cup {0}
    /\ reader \in [at : {"look", "test", "sent", "after", "cancel", "delete", "crashed"},
                   request : Requests \cup {0}, pos : Nat, error : BOOLEAN]
    /\ cmd \in [at : {"idle", "running", "build", "install", "reset", "answer", "answered"},
                request : Nat \ {0}, seen : Requests \cup {0}, answer : Answers]
    /\ ground \in Frames

(* What is left fits the frames that are left: all but the last of them    *)
(* are full.                                                               *)
FramesLeft(op) == op.max - op.index
Fits(op) ==
    /\ op.max < IndexWord
    /\ ~op.live => op = Nothing
    /\ op.live => op.kind # "none"
    /\ op.ended => op.kind = "dir"
    /\ Running(op) => op.index <= op.max
    /\ Running(op) /\ op.kind = "dir" => op.left = FramesLeft(op) + 1
    /\ Running(op) /\ op.kind # "dir" =>
          /\ op.left > FramesLeft(op) * FragmentLength
          /\ op.left <= FramesLeft(op) * FragmentLength + FragmentLength

Untouched(op) == op.index = 0 /\ op.pos = 0 /\ ~op.ended

(* The last request whose operation was installed or turned down. *)
reached == IF cmd.at \in {"answer", "answered"} THEN cmd.request ELSE cmd.request - 1
Building == cmd.at \in {"install", "reset"}

(* Only the installed operation and the one being installed exist, and     *)
(* the latter replaces one that has nothing more to send.                  *)
Installed ==
    /\ \A r \in Requests : heap[r].live <=> r = _operation \/ (Building /\ r = cmd.request)
    /\ _operation <= reached /\ reader.request <= reached
    /\ \A r \in Requests : r > reached => Untouched(heap[r])
    /\ cmd.at \in {"running", "build", "install", "reset"} => cmd.request \in Requests
    /\ cmd.at = "running" => cmd.seen \in Requests /\ _operation \in {0, cmd.seen}
    /\ cmd.at \in {"build", "install", "reset"} /\ _operation # 0 => ~Running(heap[_operation])
    /\ sending[Cmd].at = "idle" <=> cmd.at # "answered"

(* The storage task in the iterate() of an operation. *)
InIterate ==
    /\ sending[Storage].at = "idle" <=> reader.at # "sent"
    /\ reader.at \in {"test", "sent"} => reader.request # 0
    /\ _operation # 0 => reader.request <= _operation
    /\ reader.at \in {"test", "sent"} => \A r \in Requests : r > reader.request => Untouched(heap[r])
    /\ reader.at = "test" /\ current.kind = "file" => current.pos = reader.pos
    /\ reader.at = "sent" => (current.kind \in {"raw", "file"} => Running(current))
    /\ reader.at = "sent" /\ current.kind = "dir" /\ ~current.ended => Running(current)
    /\ reader.at = "sent" /\ current.kind = "file" => current.pos = reader.pos + Piece

---------------------------------------------------------------------------
(* The frames of the storage task on their way to the ground station.      *)

FrameIn(q, i) == q[i].from = Storage

(* The last frame in q before the j-th message, or else one before q. *)
LastFrame(q, j) ==
    CHOOSE i \in 1 .. (j - 1) : FrameIn(q, i) /\ \A k \in (i + 1) .. (j - 1) : ~FrameIn(q, k)
FrameBefore(f, q, j) ==
    IF \E i \in 1 .. (j - 1) : FrameIn(q, i) THEN q[LastFrame(q, j)].body ELSE f

(* A frame of the request with this index and position goes on after f. *)
GoesOn(f, kind, request, index, pos) ==
    \/ f.request = request /\ f.kind = kind /\ index = f.index + 1 /\ (kind # "dir" => pos = f.to)
    \/ f.request < request /\ index = 0 /\ (kind # "dir" => pos = 0)
Goes(f, g) == GoesOn(f, g.kind, g.request, g.index, g.from)

Chained ==
    \A j \in 1 .. Len(UnderWay) :
        FrameIn(UnderWay, j) => Goes(FrameBefore(ground, UnderWay, j), UnderWay[j].body)

(* The frame that was taken last from the storage task. *)
latest == FrameBefore(ground, UnderWay, Len(UnderWay) + 1)

sent == sending[Storage]
Offered == sent.at \in {"lock", "enqueue"}
Accepted == sent.at = "done" /\ sent.sent

(* Where the next frame of r starts: a file is ahead while its frame is    *)
(* not accepted.                                                           *)
Position(r) ==
    IF reader.at = "sent" /\ r = reader.request /\ heap[r].kind = "file" THEN reader.pos
    ELSE heap[r].pos

(* The frame has what the operation was about to send. *)
Carries(f) ==
    /\ f.request = reader.request
    /\ current.live =>
          /\ f.kind = current.kind /\ f.index = current.index
          /\ f.kind # "dir" => f.to = Position(reader.request) + Piece

(* What is sent next goes on after what was taken last. *)
Stream ==
    /\ Chained
    /\ latest.request <= reached
    /\ Accepted => Carries(latest)
    /\ Offered => Carries(sent.body) /\ Goes(latest, sent.body)
    /\ reader.at \in {"test", "sent"} => latest.request <= reader.request
    /\ _operation # 0 => latest.request <= _operation
    /\ \A r \in Requests :
          Running(heap[r]) /\ ~(Accepted /\ r = reader.request) =>
             GoesOn(latest, heap[r].kind, r, heap[r].index, Position(r))

ReaderInv ==
    /\ ReaderTyped
    /\ \A r \in Requests : Fits(heap[r])
    /\ Installed /\ InIterate /\ Stream

IInv == TelemInv /\ ReaderInv

---------------------------------------------------------------------------
(* The telemetry: one lemma for each thing that can happen to a message.   *)

LEMMA TelemNumbers ==
    /\ QueueLimit \in Nat /\ QueueLimit >= 1 /\ MaxMishaps \in Nat
    /\ IsFiniteSet(Tasks) /\ NoTask \notin Tasks
    /\ Storage \in Tasks /\ Cmd \in Tasks /\ Storage # Cmd
BY TelemetryAssumption, ReaderAssumption

LEMMA UnderWayType ==
    ASSUME TelemTyped
    PROVE  /\ UnderWay \in Seq(Messages)
           /\ Len(UnderWay) = Len(writing) + Len(out_queue)
           /\ Len(UnderWay) \in Nat /\ Len(out_queue) \in Nat /\ Len(writing) \in Nat
           /\ Len(order) \in Nat
<1>1. writing \in Seq(Messages) /\ out_queue \in Seq(Messages) /\ order \in Seq(Tasks)
  BY DEF TelemTyped
<1>2. UnderWay \in Seq(Messages) /\ Len(UnderWay) = Len(writing) + Len(out_queue)
  BY <1>1, ConcatProperties DEF UnderWay
<1> QED
  BY <1>1, <1>2, LenProperties

LEMMA BusyFinite ==
    ASSUME TelemTyped
    PROVE  IsFiniteSet(Busy) /\ Cardinality(Busy) \in Nat
BY TelemNumbers, FS_Subset, FS_CardinalityType DEF Busy

LEMMA BusyMore ==
    ASSUME TelemTyped, NEW t \in Tasks, t \notin Busy, Busy' = Busy \cup {t}
    PROVE  Cardinality(Busy') = Cardinality(Busy) + 1
BY BusyFinite, FS_AddElement

LEMMA BusyLess ==
    ASSUME TelemTyped, NEW t \in Busy, Busy' = Busy \ {t}
    PROVE  Cardinality(Busy') = Cardinality(Busy) - 1
BY BusyFinite, FS_RemoveElement

(* A step that leaves the messages alone. *)
LEMMA TelemSame ==
    ASSUME TelemInv,
           UNCHANGED <<out_queue, seq_no_mutex, sending, writing, buffers, order>>,
           mishaps' \in 0 .. MaxMishaps
    PROVE  TelemInv' /\ UnderWay' = UnderWay
BY DEF TelemInv, TelemTyped, MutexHeld, BuffersAccounted, UnderWay

LEMMA MishapType == TelemTyped /\ Mishap => mishaps' \in 0 .. MaxMishaps
BY TelemNumbers DEF TelemTyped, Mishap

LEMMA TelemSendTo ==
    ASSUME TelemInv, NEW t \in Tasks, NEW body \in Contents, t = Storage => body \in Frames,
           NEW essential \in BOOLEAN, SendTo(t, body, essential)
    PROVE  /\ TelemInv' /\ UnderWay' = UnderWay
           /\ sending' \in [Tasks -> [at : Places, body : Contents, sent : BOOLEAN]]
           /\ \A u \in Tasks \ {t} : sending'[u] = sending[u]
           /\ \/ sending'[t].at = "lock" /\ sending'[t].body = body
              \/ sending'[t].at = "done" /\ (essential => ~sending'[t].sent)
<1>1. /\ sending \in [Tasks -> [at : Places, body : Contents, sent : BOOLEAN]]
      /\ sending[t].at = "idle" /\ sending[t] \in [at : Places, body : Contents, sent : BOOLEAN]
  BY DEF TelemInv, TelemTyped, SendTo
<1>2. /\ UNCHANGED <<out_queue, seq_no_mutex, writing, order>>
      /\ mishaps' \in 0 .. MaxMishaps
  BY MishapType DEF SendTo, TelemInv, TelemTyped
<1>3. UnderWay' = UnderWay
  BY <1>2 DEF UnderWay
<1>4. NoMessage \in Contents
  BY DEF Contents
<1>5. CASE /\ buffers' = buffers + 1
           /\ sending' = [sending EXCEPT ![t] = [at |-> "lock", body |-> body, sent |-> FALSE]]
  <2>2. /\ sending' \in [Tasks -> [at : Places, body : Contents, sent : BOOLEAN]]
        /\ \A u \in Tasks \ {t} : sending'[u] = sending[u]
        /\ sending'[t].at = "lock" /\ sending'[t].body = body
    BY <1>1, <1>5 DEF Places
  <2>3. TelemTyped'
    <3>1. sending'[Storage].at \in {"lock", "enqueue"} => sending'[Storage].body \in Frames
      BY <2>2, TelemNumbers DEF TelemInv, TelemTyped
    <3> QED
      BY <1>2, <1>5, <2>2, <3>1 DEF TelemInv, TelemTyped
  <2>4. MutexHeld'
    BY <1>1, <1>2, <1>3, <2>2 DEF TelemInv, MutexHeld
  <2>5. t \notin Busy /\ Busy' = Busy \cup {t}
    BY <1>1, <2>2 DEF Busy
  <2>6. BuffersAccounted'
    <3>1. buffers = Len(UnderWay) + Cardinality(Busy) /\ buffers \in Int
      BY DEF TelemInv, BuffersAccounted, Busy, TelemTyped
    <3>2. Cardinality(Busy') = Cardinality(Busy) + 1
      BY <2>5, BusyMore DEF TelemInv
    <3>3. buffers' = Len(UnderWay') + Cardinality(Busy')
      BY <1>3, <1>5, <3>1, <3>2, UnderWayType, BusyFinite DEF TelemInv
    <3> QED
      BY <3>3 DEF BuffersAccounted, Busy
  <2> QED
    BY <1>3, <2>2, <2>3, <2>4, <2>6 DEF TelemInv
<1>6. ASSUME NEW s \in BOOLEAN, essential => ~s, Finish(t, s), UNCHANGED buffers
      PROVE  /\ TelemInv' /\ sending'[t].at = "done" /\ sending'[t].sent = s
             /\ sending' \in [Tasks -> [at : Places, body : Contents, sent : BOOLEAN]]
             /\ \A u \in Tasks \ {t} : sending'[u] = sending[u]
  <2>1. /\ sending' \in [Tasks -> [at : Places, body : Contents, sent : BOOLEAN]]
        /\ \A u \in Tasks \ {t} : sending'[u] = sending[u]
        /\ sending'[t].at = "done" /\ sending'[t].sent = s
    BY <1>1, <1>4, <1>6 DEF Finish, Places
  <2>2. TelemTyped'
    <3>1. sending'[Storage].at \in {"lock", "enqueue"} => sending'[Storage].body \in Frames
      BY <2>1, TelemNumbers DEF TelemInv, TelemTyped
    <3> QED
      BY <1>2, <1>6, <2>1, <3>1 DEF TelemInv, TelemTyped
  <2>3. MutexHeld'
    BY <1>1, <1>2, <1>3, <2>1 DEF TelemInv, MutexHeld
  <2>4. Busy' = Busy
    BY <1>1, <2>1 DEF Busy
  <2>5. BuffersAccounted'
    BY <1>3, <1>6, <2>4 DEF TelemInv, BuffersAccounted, Busy
  <2> QED
    BY <2>1, <2>2, <2>3, <2>5 DEF TelemInv
<1> QED
  BY <1>3, <1>5, <1>6 DEF SendTo

LEMMA TelemReturn ==
    ASSUME TelemInv, NEW t \in Tasks, Return(t),
           UNCHANGED <<out_queue, seq_no_mutex, writing, buffers, order>>,
           mishaps' \in 0 .. MaxMishaps
    PROVE  /\ TelemInv' /\ UnderWay' = UnderWay
           /\ sending'[t].at = "idle"
           /\ \A u \in Tasks \ {t} : sending'[u] = sending[u]
<1>1. /\ sending \in [Tasks -> [at : Places, body : Contents, sent : BOOLEAN]]
      /\ sending[t].at = "done"
  BY DEF TelemInv, TelemTyped, Return
<1>2. UnderWay' = UnderWay
  BY DEF UnderWay
<1>3. /\ sending' \in [Tasks -> [at : Places, body : Contents, sent : BOOLEAN]]
      /\ \A u \in Tasks \ {t} : sending'[u] = sending[u]
      /\ sending'[t].at = "idle"
  BY <1>1 DEF Return, Places, Contents
<1>4. TelemTyped'
  <2>1. sending'[Storage].at \in {"lock", "enqueue"} => sending'[Storage].body \in Frames
    BY <1>3, TelemNumbers DEF TelemInv, TelemTyped
  <2> QED
    BY <1>3, <2>1 DEF TelemInv, TelemTyped
<1>5. MutexHeld'
  BY <1>1, <1>2, <1>3 DEF TelemInv, MutexHeld
<1>6. Busy' = Busy
  BY <1>1, <1>3 DEF Busy
<1>7. BuffersAccounted'
  BY <1>2, <1>6 DEF TelemInv, BuffersAccounted, Busy
<1> QED
  BY <1>2, <1>3, <1>4, <1>5, <1>7 DEF TelemInv

LEMMA TelemDrawNumber ==
    ASSUME TelemInv, NEW t \in Tasks, DrawNumber(t)
    PROVE  /\ TelemInv' /\ UnderWay' = UnderWay
           /\ sending'[t].at = "enqueue" /\ sending'[t].body = sending[t].body
           /\ \A u \in Tasks \ {t} : sending'[u] = sending[u]
<1>1. /\ sending \in [Tasks -> [at : Places, body : Contents, sent : BOOLEAN]]
      /\ sending[t].at = "lock" /\ seq_no_mutex = NoTask /\ order \in Seq(Tasks)
  BY DEF TelemInv, TelemTyped, DrawNumber
<1>2. UnderWay' = UnderWay
  BY DEF UnderWay, DrawNumber
<1>3. /\ sending' \in [Tasks -> [at : Places, body : Contents, sent : BOOLEAN]]
      /\ \A u \in Tasks \ {t} : sending'[u] = sending[u]
      /\ sending'[t].at = "enqueue" /\ sending'[t].body = sending[t].body
  BY <1>1 DEF DrawNumber, GoTo, Places
<1>4. /\ order' \in Seq(Tasks) /\ Len(order') = Len(order) + 1 /\ order'[Len(order')] = t
      /\ \A i \in 1 .. Len(order) : order'[i] = order[i]
  BY <1>1, AppendProperties, LenProperties DEF DrawNumber
<1>5. TelemTyped'
  <2>1. sending'[Storage].at \in {"lock", "enqueue"} => sending'[Storage].body \in Frames
    BY <1>1, <1>3, TelemNumbers DEF TelemInv, TelemTyped
  <2> QED
    BY <1>3, <1>4, <2>1 DEF TelemInv, TelemTyped, DrawNumber
<1>6. MutexHeld'
  <2>1. \A u \in Tasks : sending'[u].at = "enqueue" <=> seq_no_mutex' = u
    BY <1>1, <1>3, TelemNumbers DEF TelemInv, MutexHeld, DrawNumber
  <2>2. Len(order) = Len(UnderWay) /\ \A i \in 1 .. Len(UnderWay) : UnderWay[i].from = order[i]
    BY <1>1, UnderWayType DEF TelemInv, MutexHeld
  <2> QED
    BY <1>2, <1>4, <2>1, <2>2, TelemNumbers DEF MutexHeld, DrawNumber
<1>7. Busy' = Busy
  BY <1>1, <1>3 DEF Busy
<1>8. BuffersAccounted'
  BY <1>2, <1>7 DEF TelemInv, BuffersAccounted, Busy, DrawNumber
<1> QED
  BY <1>2, <1>3, <1>5, <1>6, <1>8 DEF TelemInv

LEMMA TelemEnqueue ==
    ASSUME TelemInv, NEW t \in Tasks, Enqueue(t)
    PROVE  /\ TelemInv'
           /\ UnderWay' = Append(UnderWay, [from |-> t, body |-> sending[t].body])
           /\ sending'[t].at = "done" /\ sending'[t].sent
           /\ \A u \in Tasks \ {t} : sending'[u] = sending[u]
<1> DEFINE m == [from |-> t, body |-> sending[t].body]
<1>1. /\ sending \in [Tasks -> [at : Places, body : Contents, sent : BOOLEAN]]
      /\ sending[t].at = "enqueue" /\ order \in Seq(Tasks)
      /\ out_queue \in Seq(Messages) /\ writing \in Seq(Messages)
      /\ Len(out_queue) < QueueLimit
  BY DEF TelemInv, TelemTyped, Enqueue
<1>2. m \in Messages
  BY <1>1 DEF Messages, TelemInv, TelemTyped
<1>3. UnderWay' = Append(UnderWay, m)
  <2> HIDE DEF m
  <2>1. out_queue' = Append(out_queue, m) /\ writing' = writing
    BY DEF Enqueue, m
  <2>2. writing \o Append(out_queue, m) = Append(writing \o out_queue, m)
    BY <1>1, <1>2
  <2> QED
    BY <2>1, <2>2 DEF UnderWay
<1>4. /\ sending' \in [Tasks -> [at : Places, body : Contents, sent : BOOLEAN]]
      /\ \A u \in Tasks \ {t} : sending'[u] = sending[u]
      /\ sending'[t].at = "done" /\ sending'[t].sent
  BY <1>1 DEF Enqueue, Finish, Places, Contents
<1>5. out_queue' \in Seq(Messages) /\ Len(out_queue') = Len(out_queue) + 1
  BY <1>1, <1>2, AppendProperties DEF Enqueue
<1>6. TelemTyped'
  <2>1. sending'[Storage].at \in {"lock", "enqueue"} => sending'[Storage].body \in Frames
    BY <1>4, TelemNumbers DEF TelemInv, TelemTyped
  <2>2. Len(out_queue') <= QueueLimit
    BY <1>1, <1>5, TelemNumbers, LenProperties
  <2> QED
    BY <1>4, <1>5, <2>1, <2>2 DEF TelemInv, TelemTyped, Enqueue
<1>7. MutexHeld'
  <2>1. \A u \in Tasks : sending'[u].at = "enqueue" <=> seq_no_mutex' = u
    BY <1>1, <1>4, TelemNumbers DEF TelemInv, MutexHeld, Enqueue
  <2>2. seq_no_mutex = t /\ seq_no_mutex' = NoTask /\ order' = order
    BY <1>1 DEF TelemInv, MutexHeld, Enqueue
  <2>3. /\ Len(order) = Len(UnderWay) + 1 /\ order[Len(order)] = t
        /\ \A i \in 1 .. Len(UnderWay) : UnderWay[i].from = order[i]
    BY <2>2, TelemNumbers DEF TelemInv, MutexHeld
  <2>4. /\ UnderWay \in Seq(Messages) /\ Len(UnderWay) \in Nat
    BY UnderWayType DEF TelemInv
  <2>5. /\ Len(UnderWay') = Len(UnderWay) + 1
        /\ \A i \in 1 .. Len(UnderWay) : UnderWay'[i] = UnderWay[i]
        /\ UnderWay'[Len(UnderWay) + 1] = m
    <3> HIDE DEF m
    <3> QED
      BY <1>2, <1>3, <2>4, AppendProperties
  <2>6. \A i \in 1 .. Len(UnderWay') : UnderWay'[i].from = order'[i]
    BY <2>2, <2>3, <2>4, <2>5
  <2> QED
    BY <2>1, <2>2, <2>3, <2>5, <2>6 DEF MutexHeld
<1>8. t \in Busy /\ Busy' = Busy \ {t}
  BY <1>1, <1>4 DEF Busy
<1>9. BuffersAccounted'
  <2>1. buffers = Len(UnderWay) + Cardinality(Busy) /\ buffers' = buffers
    BY DEF TelemInv, BuffersAccounted, Busy, Enqueue
  <2>2. Cardinality(Busy') = Cardinality(Busy) - 1
    BY <1>8, BusyLess DEF TelemInv
  <2>3. /\ UnderWay \in Seq(Messages) /\ Len(UnderWay) \in Nat /\ Cardinality(Busy) \in Nat
    BY UnderWayType, BusyFinite DEF TelemInv
  <2>4. Len(UnderWay') = Len(UnderWay) + 1
    <3> HIDE DEF m
    <3> QED
      BY <1>2, <1>3, <2>3, AppendProperties
  <2>5. buffers' = Len(UnderWay') + Cardinality(Busy')
    BY <2>1, <2>2, <2>3, <2>4
  <2> QED
    BY <2>5 DEF BuffersAccounted, Busy
<1> QED
  BY <1>3, <1>4, <1>6, <1>7, <1>9 DEF TelemInv

LEMMA TelemTimeOut ==
    ASSUME TelemInv, NEW t \in Tasks, TimeOut(t)
    PROVE  /\ TelemInv' /\ UnderWay' = UnderWay
           /\ sending'[t].at = "free"
           /\ \A u \in Tasks \ {t} : sending'[u] = sending[u]
<1>1. /\ sending \in [Tasks -> [at : Places, body : Contents, sent : BOOLEAN]]
      /\ sending[t].at = "enqueue" /\ order \in Seq(Tasks)
  BY DEF TelemInv, TelemTyped, TimeOut
<1>2. UnderWay' = UnderWay
  BY DEF UnderWay, TimeOut
<1>3. /\ sending' \in [Tasks -> [at : Places, body : Contents, sent : BOOLEAN]]
      /\ \A u \in Tasks \ {t} : sending'[u] = sending[u]
      /\ sending'[t].at = "free"
  BY <1>1 DEF TimeOut, GoTo, Places
<1>4. seq_no_mutex = t /\ seq_no_mutex' = NoTask
  BY <1>1 DEF TelemInv, MutexHeld, TimeOut
<1>5. /\ Len(order) = Len(UnderWay) + 1 /\ Len(UnderWay) \in Nat
      /\ \A i \in 1 .. Len(UnderWay) : UnderWay[i].from = order[i]
  BY <1>4, TelemNumbers, UnderWayType DEF TelemInv, MutexHeld
<1>6. /\ order' \in Seq(Tasks) /\ Len(order') = Len(UnderWay)
      /\ \A i \in 1 .. Len(UnderWay) : order'[i] = order[i]
  <2>1. order' = SubSeq(order, 1, Len(UnderWay))
    BY <1>5 DEF TimeOut
  <2> QED
    BY <1>1, <1>5, <2>1, SubSeqProperties
<1>7. TelemTyped'
  <2>1. sending'[Storage].at \in {"lock", "enqueue"} => sending'[Storage].body \in Frames
    BY <1>3, TelemNumbers DEF TelemInv, TelemTyped
  <2> QED
    BY <1>3, <1>4, <1>6, <2>1, MishapType DEF TelemInv, TelemTyped, TimeOut
<1>8. MutexHeld'
  <2>1. \A u \in Tasks : sending'[u].at = "enqueue" <=> seq_no_mutex' = u
    BY <1>1, <1>3, <1>4, TelemNumbers DEF TelemInv, MutexHeld
  <2> QED
    BY <1>2, <1>4, <1>5, <1>6, <2>1 DEF MutexHeld
<1>9. Busy' = Busy
  BY <1>1, <1>3 DEF Busy
<1>10. BuffersAccounted'
  BY <1>2, <1>9 DEF TelemInv, BuffersAccounted, Busy, TimeOut
<1> QED
  BY <1>2, <1>3, <1>7, <1>8, <1>10 DEF TelemInv

LEMMA TelemFreeBuffer ==
    ASSUME TelemInv, NEW t \in Tasks, FreeBuffer(t)
    PROVE  /\ TelemInv' /\ UnderWay' = UnderWay
           /\ sending'[t].at = "done" /\ ~sending'[t].sent
           /\ \A u \in Tasks \ {t} : sending'[u] = sending[u]
<1>1. /\ sending \in [Tasks -> [at : Places, body : Contents, sent : BOOLEAN]]
      /\ sending[t].at = "free"
  BY DEF TelemInv, TelemTyped, FreeBuffer
<1>2. UnderWay' = UnderWay
  BY DEF UnderWay, FreeBuffer
<1>3. /\ sending' \in [Tasks -> [at : Places, body : Contents, sent : BOOLEAN]]
      /\ \A u \in Tasks \ {t} : sending'[u] = sending[u]
      /\ sending'[t].at = "done" /\ ~sending'[t].sent
  BY <1>1 DEF FreeBuffer, Finish, Places, Contents
<1>4. TelemTyped'
  <2>1. sending'[Storage].at \in {"lock", "enqueue"} => sending'[Storage].body \in Frames
    BY <1>3, TelemNumbers DEF TelemInv, TelemTyped
  <2> QED
    BY <1>3, <2>1 DEF TelemInv, TelemTyped, FreeBuffer
<1>5. MutexHeld'
  BY <1>1, <1>2, <1>3 DEF TelemInv, MutexHeld, FreeBuffer
<1>6. t \in Busy /\ Busy' = Busy \ {t}
  BY <1>1, <1>3 DEF Busy
<1>7. BuffersAccounted'
  <2>1. buffers = Len(UnderWay) + Cardinality(Busy) /\ buffers' = buffers - 1
    BY DEF TelemInv, BuffersAccounted, Busy, FreeBuffer
  <2>2. Cardinality(Busy') = Cardinality(Busy) - 1
    BY <1>6, BusyLess DEF TelemInv
  <2>3. buffers' = Len(UnderWay') + Cardinality(Busy')
    BY <1>2, <2>1, <2>2, UnderWayType, BusyFinite DEF TelemInv
  <2> QED
    BY <2>3 DEF BuffersAccounted, Busy
<1> QED
  BY <1>2, <1>3, <1>4, <1>5, <1>7 DEF TelemInv

LEMMA TelemReceive ==
    ASSUME TelemInv, Receive
    PROVE  TelemInv' /\ UnderWay' = UnderWay /\ sending' = sending
<1>1. /\ out_queue \in Seq(Messages) /\ out_queue # <<>> /\ writing = <<>>
      /\ Len(out_queue) <= QueueLimit
  BY DEF TelemInv, TelemTyped, Receive
<1>2. /\ Head(out_queue) \in Messages /\ Tail(out_queue) \in Seq(Messages)
      /\ <<Head(out_queue)>> \in Seq(Messages)
      /\ Len(Tail(out_queue)) = Len(out_queue) - 1 /\ Len(out_queue) \in Nat
  BY <1>1, HeadTailProperties, LenProperties
<1>3. UnderWay' = UnderWay
  <2>1. <<Head(out_queue)>> \o Tail(out_queue) = out_queue
    BY <1>1
  <2>2. <<>> \o out_queue = out_queue
    BY <1>1
  <2> QED
    BY <1>1, <2>1, <2>2 DEF UnderWay, Receive
<1>4. TelemTyped'
  <2>1. /\ writing' = <<Head(out_queue)>> /\ out_queue' = Tail(out_queue)
    BY DEF Receive
  <2>2. Len(writing') <= 1 /\ Len(out_queue') <= QueueLimit
    BY <1>1, <1>2, <2>1, TelemNumbers
  <2> QED
    BY <1>2, <2>1, <2>2 DEF TelemInv, TelemTyped, Receive
<1>5. MutexHeld' /\ BuffersAccounted'
  BY <1>3 DEF TelemInv, MutexHeld, BuffersAccounted, Receive
<1> QED
  BY <1>3, <1>4, <1>5 DEF TelemInv, Receive

LEMMA TelemWrite ==
    ASSUME TelemInv, Write
    PROVE  /\ TelemInv' /\ sending' = sending
           /\ UnderWay # <<>> /\ UnderWay' = Tail(UnderWay) /\ Head(UnderWay) = Head(writing)
<1>1. /\ out_queue \in Seq(Messages) /\ writing \in Seq(Messages) /\ order \in Seq(Tasks)
      /\ writing # <<>> /\ Len(writing) <= 1 /\ writing' = <<>> /\ out_queue' = out_queue
  BY DEF TelemInv, TelemTyped, Write
<1>2. /\ Len(writing) = 1 /\ UnderWay \in Seq(Messages) /\ UnderWay' = out_queue
      /\ Len(UnderWay) = 1 + Len(out_queue) /\ Len(out_queue) \in Nat
  <2>1. Len(writing) \in Nat /\ Len(writing) # 0
    BY <1>1, LenProperties, EmptySeq
  <2>2. <<>> \o out_queue = out_queue
    BY <1>1
  <2>3. UnderWay' = out_queue
    BY <1>1, <2>2 DEF UnderWay
  <2>4. /\ UnderWay \in Seq(Messages) /\ Len(UnderWay) = Len(writing) + Len(out_queue)
        /\ Len(out_queue) \in Nat
    BY UnderWayType DEF TelemInv
  <2>5. Len(writing) = 1
    <3>1. ASSUME NEW n \in Nat, n # 0, n <= 1 PROVE n = 1
      BY <3>1
    <3>2. Len(writing) <= 1
      BY <1>1
    <3> QED
      BY <2>1, <3>1, <3>2
  <2>6. Len(UnderWay) = 1 + Len(out_queue)
    BY <2>4, <2>5
  <2> QED
    BY <2>3, <2>4, <2>5, <2>6
<1>3. /\ UnderWay # <<>> /\ Tail(UnderWay) = out_queue /\ Head(UnderWay) = Head(writing)
  <2>1. writing = <<Head(writing)>>
    BY <1>1, <1>2
  <2>2. /\ UnderWay = <<Head(writing)>> \o out_queue
    BY <2>1 DEF UnderWay
  <2>3. UnderWay # <<>>
    BY <1>2, EmptySeq
  <2> QED
    BY <1>1, <1>2, <2>2, <2>3
<1>4. /\ order # <<>> /\ order' = Tail(order) /\ Len(order) \in Nat
      /\ order' \in Seq(Tasks) /\ Len(order') = Len(order) - 1
      /\ \A i \in 1 .. Len(order') : order'[i] = order[i + 1]
  <2>1. Len(order) \in Nat /\ Len(order) >= 1
    BY <1>1, <1>2, LenProperties DEF TelemInv, MutexHeld
  <2>2. order # <<>> /\ order' = Tail(order)
    BY <2>1, EmptySeq DEF Write
  <2> QED
    BY <1>1, <2>1, <2>2, HeadTailProperties
<1>5. TelemTyped'
  <2>1. <<>> \in Seq(Messages) /\ Len(<<>>) <= 1
    OBVIOUS
  <2>2. buffers' \in Int
    BY DEF TelemInv, TelemTyped, Write
  <2> QED
    BY <1>1, <1>4, <2>1, <2>2 DEF TelemInv, TelemTyped, Write
<1>6. /\ Len(UnderWay') = Len(UnderWay) - 1
      /\ \A i \in 1 .. Len(UnderWay') : UnderWay'[i] = UnderWay[i + 1]
  BY <1>2, <1>3, HeadTailProperties
<1>7. MutexHeld'
  <2>1. \A u \in Tasks : sending'[u].at = "enqueue" <=> seq_no_mutex' = u
    BY DEF TelemInv, MutexHeld, Write
  <2>2. Len(order') = Len(UnderWay') + (IF seq_no_mutex' = NoTask THEN 0 ELSE 1)
    BY <1>2, <1>4, <1>6 DEF TelemInv, MutexHeld, Write
  <2>3. ASSUME seq_no_mutex' # NoTask PROVE order'[Len(order')] = seq_no_mutex'
    <3>1. seq_no_mutex' = seq_no_mutex
      BY DEF Write
    <3>2. order[Len(order)] = seq_no_mutex /\ Len(order) = Len(UnderWay) + 1
      BY <2>3, <3>1 DEF TelemInv, MutexHeld
    <3>3. Len(order') \in 1 .. Len(order') /\ Len(order') + 1 = Len(order)
      BY <1>2, <1>4, <3>2
    <3> QED
      BY <1>4, <3>1, <3>2, <3>3
  <2>4. ASSUME NEW i \in 1 .. Len(UnderWay') PROVE UnderWay'[i].from = order'[i]
    <3>1. /\ i + 1 \in 1 .. Len(UnderWay) /\ Len(UnderWay') \in Nat
      BY <1>2, <1>6
    <3>2. i \in 1 .. Len(order')
      <4>1. Len(order') = Len(UnderWay') \/ Len(order') = Len(UnderWay') + 1
        BY <2>2, <3>1
      <4> QED
        BY <3>1, <4>1
    <3> QED
      BY <1>4, <1>6, <3>1, <3>2 DEF TelemInv, MutexHeld
  <2> QED
    BY <2>1, <2>2, <2>3, <2>4 DEF MutexHeld
<1>8. BuffersAccounted'
  BY <1>2, <1>6 , BusyFinite DEF TelemInv, TelemTyped, BuffersAccounted, Busy, Write
<1> QED
  BY <1>1, <1>2, <1>3, <1>5, <1>7, <1>8 DEF TelemInv, Write

---------------------------------------------------------------------------
(* The last frame before a message.                                        *)

LEMMA LeastNumber ==
    ASSUME NEW T, T \subseteq Nat, T # {}
    PROVE  \E x \in T : \A y \in T : x <= y
<1> DEFINE R == OpToRel(<, Nat)
<1>1. IsWellFoundedOn(R, Nat)
  BY NatLessThanWellFounded
<1>2. \A x, y \in Nat : y < x => <<y, x>> \in R
  BY DEF OpToRel
<1>3. \E x \in T : \A y \in T : ~ (<<y, x>> \in R)
  <2> HIDE DEF R
  <2> QED
    BY <1>1, WFMin
<1>4. PICK x \in T : \A y \in T : ~ (<<y, x>> \in R)
  BY <1>3, Zenon
<1>5. \A y \in T : ~ (y < x)
  <2> HIDE DEF R
  <2> QED
    BY <1>4, <1>2
<1> QED
  BY <1>5

LEMMA LastFrameLast ==
    ASSUME NEW q, NEW j \in Nat, \E i \in 1 .. (j - 1) : FrameIn(q, i)
    PROVE  /\ LastFrame(q, j) \in 1 .. (j - 1) /\ FrameIn(q, LastFrame(q, j))
           /\ \A k \in (LastFrame(q, j) + 1) .. (j - 1) : ~FrameIn(q, k)
<1> DEFINE T == {d \in Nat : j - d \in 1 .. (j - 1) /\ FrameIn(q, j - d)}
<1>1. T \subseteq Nat /\ T # {}
  <2>1. PICK i \in 1 .. (j - 1) : FrameIn(q, i)
    OBVIOUS
  <2>2. j - i \in Nat /\ j - (j - i) = i
    OBVIOUS
  <2>3. j - i \in T
    BY <2>1, <2>2
  <2> QED
    BY <2>3
<1>2. PICK d \in T : \A e \in T : d <= e
  <2> HIDE DEF T
  <2> QED
    BY <1>1, LeastNumber
<1>3. d \in Nat /\ j - d \in 1 .. (j - 1) /\ FrameIn(q, j - d)
  BY <1>2
<1>4. ASSUME NEW k \in (j - d + 1) .. (j - 1) PROVE ~FrameIn(q, k)
  <2> SUFFICES ASSUME FrameIn(q, k) PROVE FALSE
    OBVIOUS
  <2>1. k \in 1 .. (j - 1) /\ j - k \in Nat /\ j - (j - k) = k /\ j - k < d
    BY <1>3, <1>4
  <2>2. j - k \in T
    BY <2>1
  <2>3. d <= j - k
    BY <1>2, <2>2
  <2> QED
    BY <1>3, <2>1, <2>3
<1>5. \E i \in 1 .. (j - 1) : FrameIn(q, i) /\ \A k \in (i + 1) .. (j - 1) : ~FrameIn(q, k)
  BY <1>3, <1>4
<1> QED
  BY <1>5 DEF LastFrame

LEMMA LastFrameIs ==
    ASSUME NEW q, NEW j \in Nat, NEW i \in 1 .. (j - 1), FrameIn(q, i),
           \A k \in (i + 1) .. (j - 1) : ~FrameIn(q, k)
    PROVE  LastFrame(q, j) = i
<1> DEFINE l == LastFrame(q, j)
<1>1. l \in 1 .. (j - 1) /\ FrameIn(q, l) /\ \A k \in (l + 1) .. (j - 1) : ~FrameIn(q, k)
  BY LastFrameLast
<1> HIDE DEF l
<1>2. ~ (l < i)
  <2> SUFFICES ASSUME l < i PROVE FALSE
    OBVIOUS
  <2>1. i \in (l + 1) .. (j - 1)
    BY <1>1
  <2> QED
    BY <1>1, <2>1
<1>3. ~ (i < l)
  <2> SUFFICES ASSUME i < l PROVE FALSE
    OBVIOUS
  <2>1. l \in (i + 1) .. (j - 1)
    BY <1>1
  <2> QED
    BY <1>1, <2>1
<1>4. l = i
  BY <1>1, <1>2, <1>3
<1> QED
  BY <1>4 DEF l

LEMMA NoFrameBefore ==
    ASSUME NEW q, NEW j, NEW f, ~ \E i \in 1 .. (j - 1) : FrameIn(q, i)
    PROVE  FrameBefore(f, q, j) = f
BY DEF FrameBefore

LEMMA FrameBeforeIs ==
    ASSUME NEW q, NEW j \in Nat, NEW f, NEW i \in 1 .. (j - 1), FrameIn(q, i),
           \A k \in (i + 1) .. (j - 1) : ~FrameIn(q, k)
    PROVE  FrameBefore(f, q, j) = q[i].body
BY LastFrameIs DEF FrameBefore

LEMMA FrameBeforeType ==
    ASSUME NEW q \in Seq(Messages), NEW f \in Frames, NEW j \in 1 .. Len(q) + 1
    PROVE  FrameBefore(f, q, j) \in Frames
<1>1. CASE ~ \E i \in 1 .. (j - 1) : FrameIn(q, i)
  BY <1>1, NoFrameBefore
<1>2. CASE \E i \in 1 .. (j - 1) : FrameIn(q, i)
  <2>1. j \in Nat /\ Len(q) \in Nat /\ j - 1 <= Len(q)
    BY LenProperties
  <2>2. LastFrame(q, j) \in 1 .. (j - 1) /\ FrameIn(q, LastFrame(q, j))
    BY <1>2, <2>1, LastFrameLast
  <2>3. LastFrame(q, j) \in 1 .. Len(q)
    BY <2>1, <2>2
  <2>4. q[LastFrame(q, j)] \in Messages
    BY <2>3, ElementOfSeq
  <2> QED
    BY <1>2, <2>2, <2>4 DEF FrameBefore, FrameIn, Messages
<1> QED
  BY <1>1, <1>2

LEMMA FrameBeforeSame ==
    ASSUME NEW p, NEW q, NEW j \in Nat, NEW f,
           \A i \in 1 .. (j - 1) : q[i] = p[i]
    PROVE  FrameBefore(f, q, j) = FrameBefore(f, p, j)
<1>1. \A i \in 1 .. (j - 1) : FrameIn(q, i) <=> FrameIn(p, i)
  BY DEF FrameIn
<1>2. CASE ~ \E i \in 1 .. (j - 1) : FrameIn(p, i)
  BY <1>1, <1>2, NoFrameBefore
<1>3. CASE \E i \in 1 .. (j - 1) : FrameIn(p, i)
  <2>1. PICK i \in 1 .. (j - 1) : FrameIn(p, i) /\ \A k \in (i + 1) .. (j - 1) : ~FrameIn(p, k)
    BY <1>3, LastFrameLast
  <2>2. FrameBefore(f, p, j) = p[i].body
    BY <2>1, FrameBeforeIs
  <2>3. FrameIn(q, i) /\ \A k \in (i + 1) .. (j - 1) : ~FrameIn(q, k)
    BY <1>1, <2>1
  <2>4. FrameBefore(f, q, j) = q[i].body
    BY <2>3, FrameBeforeIs
  <2> QED
    BY <2>2, <2>4
<1> QED
  BY <1>2, <1>3

LEMMA FrameBeforeNext ==
    ASSUME NEW q, NEW f, NEW j \in Nat, j # 0, NEW next, next = j + 1
    PROVE  FrameBefore(f, q, next) = IF FrameIn(q, j) THEN q[j].body ELSE FrameBefore(f, q, j)
<1>1. next \in Nat /\ next - 1 = j
  OBVIOUS
<1>2. CASE FrameIn(q, j)
  <2>1. j \in 1 .. (next - 1) /\ (j + 1) .. (next - 1) = {}
    BY <1>1
  <2> QED
    BY <1>1, <1>2, <2>1, FrameBeforeIs
<1>3. CASE ~FrameIn(q, j) /\ ~ \E i \in 1 .. (j - 1) : FrameIn(q, i)
  <2>1. \A i \in 1 .. (next - 1) : i = j \/ i \in 1 .. (j - 1)
    BY <1>1
  <2> QED
    BY <1>3, <2>1, NoFrameBefore
<1>4. CASE ~FrameIn(q, j) /\ \E i \in 1 .. (j - 1) : FrameIn(q, i)
  <2>1. PICK i \in 1 .. (j - 1) : FrameIn(q, i) /\ \A k \in (i + 1) .. (j - 1) : ~FrameIn(q, k)
    BY <1>4, LastFrameLast
  <2>2. FrameBefore(f, q, j) = q[i].body
    BY <2>1, FrameBeforeIs
  <2>3. i \in 1 .. (next - 1) /\ \A k \in (i + 1) .. (next - 1) : k = j \/ k \in (i + 1) .. (j - 1)
    BY <1>1, <2>1
  <2>4. FrameBefore(f, q, next) = q[i].body
    BY <1>1, <1>4, <2>1, <2>3, FrameBeforeIs
  <2> QED
    BY <1>4, <2>2, <2>4
<1> QED
  BY <1>2, <1>3, <1>4

LEMMA FrameBeforeAppend ==
    ASSUME NEW p \in Seq(Messages), NEW m \in Messages, NEW f
    PROVE  /\ \A j \in 1 .. Len(p) + 1 : FrameBefore(f, Append(p, m), j) = FrameBefore(f, p, j)
           /\ FrameBefore(f, Append(p, m), Len(p) + 2) =
                 IF m.from = Storage THEN m.body ELSE FrameBefore(f, p, Len(p) + 1)
<1> DEFINE q == Append(p, m)
           n == Len(p) + 1
           next == Len(p) + 2
<1>1. /\ n \in Nat /\ n # 0 /\ next = n + 1 /\ q[n] = m
      /\ \A i \in 1 .. (n - 1) : q[i] = p[i]
  BY AppendProperties, LenProperties
<1> HIDE DEF q, n, next
<1>2. ASSUME NEW j \in 1 .. n PROVE FrameBefore(f, q, j) = FrameBefore(f, p, j)
  <2>1. j \in Nat /\ \A i \in 1 .. (j - 1) : q[i] = p[i]
    BY <1>1
  <2> QED
    BY <2>1, FrameBeforeSame
<1>3. FrameBefore(f, q, next) = IF FrameIn(q, n) THEN q[n].body ELSE FrameBefore(f, q, n)
  BY <1>1, FrameBeforeNext
<1>4. n \in 1 .. n
  BY <1>1
<1>5. FrameBefore(f, q, next) = IF m.from = Storage THEN m.body ELSE FrameBefore(f, p, n)
  BY <1>1, <1>2, <1>3, <1>4 DEF FrameIn
<1> QED
  BY <1>2, <1>5 DEF q, n, next

LEMMA FrameBeforeTail ==
    ASSUME NEW q \in Seq(Messages), q # <<>>, NEW f, NEW j \in 1 .. Len(q)
    PROVE  FrameBefore(IF FrameIn(q, 1) THEN q[1].body ELSE f, Tail(q), j) = FrameBefore(f, q, j + 1)
<1> DEFINE p == Tail(q)
           g == IF FrameIn(q, 1) THEN q[1].body ELSE f
<1>1. Len(q) \in Nat /\ j \in Nat /\ j + 1 \in Nat /\ \A i \in 1 .. (Len(q) - 1) : p[i] = q[i + 1]
  BY HeadTailProperties, LenProperties
<1> HIDE DEF p, g
<1>2. \A i \in 1 .. (j - 1) : p[i] = q[i + 1]
  BY <1>1
<1>3. CASE \E i \in 1 .. (j - 1) : FrameIn(p, i)
  <2>1. PICK i \in 1 .. (j - 1) : FrameIn(p, i) /\ \A k \in (i + 1) .. (j - 1) : ~FrameIn(p, k)
    BY <1>1, <1>3, LastFrameLast
  <2>2. FrameBefore(g, p, j) = p[i].body
    BY <1>1, <2>1, FrameBeforeIs
  <2>3. i + 1 \in 1 .. (j + 1 - 1) /\ FrameIn(q, i + 1)
    BY <1>1, <1>2, <2>1 DEF FrameIn
  <2>4. ASSUME NEW k \in (i + 1 + 1) .. (j + 1 - 1) PROVE ~FrameIn(q, k)
    <3>1. k - 1 \in (i + 1) .. (j - 1) /\ k - 1 \in 1 .. (j - 1) /\ (k - 1) + 1 = k
      BY <1>1, <2>1
    <3> QED
      BY <1>2, <2>1, <3>1 DEF FrameIn
  <2>5. FrameBefore(f, q, j + 1) = q[i + 1].body
    BY <1>1, <2>3, <2>4, FrameBeforeIs
  <2> QED
    BY <1>2, <2>2, <2>5 DEF p, g
<1>4. CASE ~ \E i \in 1 .. (j - 1) : FrameIn(p, i)
  <2>1. FrameBefore(g, p, j) = g
    BY <1>4, NoFrameBefore
  <2>2. ASSUME NEW k \in (1 + 1) .. (j + 1 - 1) PROVE ~FrameIn(q, k)
    <3>1. k - 1 \in 1 .. (j - 1) /\ (k - 1) + 1 = k
      BY <1>1
    <3> QED
      BY <1>2, <1>4, <3>1 DEF FrameIn
  <2>3. CASE FrameIn(q, 1)
    <3>1. 1 \in 1 .. (j + 1 - 1)
      BY <1>1
    <3>2. FrameBefore(f, q, j + 1) = q[1].body
      BY <1>1, <2>2, <2>3, <3>1, FrameBeforeIs
    <3> QED
      BY <2>1, <2>3, <3>2 DEF p, g
  <2>4. CASE ~FrameIn(q, 1)
    <3>1. \A i \in 1 .. (j + 1 - 1) : i = 1 \/ i \in (1 + 1) .. (j + 1 - 1)
      BY <1>1
    <3>2. FrameBefore(f, q, j + 1) = f
      BY <2>2, <2>4, <3>1, NoFrameBefore
    <3> QED
      BY <2>1, <2>4, <3>2 DEF p, g
  <2> QED
    BY <2>3, <2>4
<1> QED
  BY <1>3, <1>4

---------------------------------------------------------------------------
(* What the telemetry does to the stream of frames.                        *)

LEMMA LatestSame ==
    ASSUME UnderWay' = UnderWay, ground' = ground
    PROVE  latest' = latest /\ (Chained => Chained')
BY DEF latest, Chained, FrameBefore, LastFrame, FrameIn

LEMMA LatestType ==
    ASSUME TelemTyped, ground \in Frames
    PROVE  latest \in Frames
<1>1. UnderWay \in Seq(Messages) /\ Len(UnderWay) \in Nat
  BY UnderWayType
<1>2. Len(UnderWay) + 1 \in 1 .. Len(UnderWay) + 1
  BY <1>1
<1> QED
  BY <1>1, <1>2, FrameBeforeType DEF latest

LEMMA LatestEnqueue ==
    ASSUME TelemInv, NEW t \in Tasks, Enqueue(t), ground' = ground
    PROVE  /\ latest' = IF t = Storage THEN sending[t].body ELSE latest
           /\ Chained /\ (t = Storage => Goes(latest, sending[t].body)) => Chained'
<1> DEFINE m == [from |-> t, body |-> sending[t].body]
           p == UnderWay
           n == Len(UnderWay) + 1
<1>1. UnderWay' = Append(p, m) /\ p \in Seq(Messages) /\ Len(p) \in Nat
  BY TelemEnqueue, UnderWayType DEF TelemInv
<1>2. m \in Messages /\ m.from = t /\ m.body = sending[t].body
  BY DEF Messages, TelemInv, TelemTyped, Enqueue
<1>3. n \in Nat /\ Len(UnderWay') = n /\ n = Len(p) + 1 /\ n + 1 = Len(p) + 2
      /\ UnderWay'[n] = m /\ \A i \in 1 .. Len(p) : UnderWay'[i] = p[i]
  <2> HIDE DEF m
  <2>1. Len(UnderWay') = Len(p) + 1 /\ UnderWay'[Len(p) + 1] = m
        /\ \A i \in 1 .. Len(p) : UnderWay'[i] = p[i]
    BY <1>1, <1>2, AppendProperties
  <2> QED
    BY <1>1, <2>1
<1>4. /\ \A j \in 1 .. n : FrameBefore(ground, UnderWay', j) = FrameBefore(ground, p, j)
      /\ FrameBefore(ground, UnderWay', n + 1) = IF t = Storage THEN sending[t].body ELSE FrameBefore(ground, p, n)
  <2> HIDE DEF m, p, n
  <2>1. /\ \A j \in 1 .. Len(p) + 1 : FrameBefore(ground, Append(p, m), j) = FrameBefore(ground, p, j)
        /\ FrameBefore(ground, Append(p, m), Len(p) + 2) =
              IF m.from = Storage THEN m.body ELSE FrameBefore(ground, p, Len(p) + 1)
    BY <1>1, <1>2, FrameBeforeAppend
  <2> QED
    BY <1>1, <1>2, <1>3, <2>1
<1>5. latest' = IF t = Storage THEN sending[t].body ELSE latest
  <2>1. latest' = FrameBefore(ground, UnderWay', Len(UnderWay') + 1)
    BY DEF latest, FrameBefore, LastFrame, FrameIn
  <2>2. latest = FrameBefore(ground, p, n)
    BY DEF latest
  <2> QED
    BY <1>3, <1>4, <2>1, <2>2
<1>6. ASSUME Chained, t = Storage => Goes(latest, sending[t].body), NEW j \in 1 .. Len(UnderWay'),
             FrameIn(UnderWay', j)
      PROVE  Goes(FrameBefore(ground, UnderWay', j), UnderWay'[j].body)
  <2>1. CASE j = n
    <3>1. t = Storage /\ UnderWay'[j].body = sending[t].body
      BY <1>2, <1>3, <1>6, <2>1 DEF FrameIn
    <3>2. FrameBefore(ground, UnderWay', j) = latest
      BY <1>3, <1>4, <2>1 DEF latest
    <3> QED
      BY <1>6, <3>1, <3>2
  <2>2. CASE j # n
    <3>1. j \in 1 .. Len(p) /\ j \in 1 .. n
      BY <1>1, <1>3, <2>2
    <3>2. FrameIn(UnderWay, j) /\ UnderWay'[j] = UnderWay[j]
      BY <1>3, <1>6, <3>1 DEF FrameIn
    <3>3. FrameBefore(ground, UnderWay', j) = FrameBefore(ground, UnderWay, j)
      BY <1>4, <3>1
    <3> QED
      BY <1>6, <3>1, <3>2, <3>3 DEF Chained
  <2> QED
    BY <2>1, <2>2
<1>7. Chained /\ (t = Storage => Goes(latest, sending[t].body)) => Chained'
  <2> SUFFICES ASSUME Chained, t = Storage => Goes(latest, sending[t].body) PROVE Chained'
    OBVIOUS
  <2>1. \A j \in 1 .. Len(UnderWay') : FrameIn(UnderWay', j) =>
           Goes(FrameBefore(ground, UnderWay', j), UnderWay'[j].body)
    BY <1>6
  <2> QED
    BY <2>1 DEF Chained, FrameBefore, LastFrame, FrameIn, Goes, GoesOn
<1> QED
  BY <1>5, <1>7

LEMMA LatestWrite ==
    ASSUME TelemInv, WriteToUart
    PROVE  /\ latest' = latest
           /\ Chained => Chained' /\ (ground' = ground \/ Goes(ground, ground'))
           /\ ground \in Frames => ground' \in Frames
<1> DEFINE q == UnderWay
<1>1. /\ q \in Seq(Messages) /\ q # <<>> /\ UnderWay' = Tail(q)
      /\ Head(q) = Head(writing) /\ Len(q) \in Nat
  BY TelemWrite, UnderWayType DEF TelemInv, WriteToUart
<1>2. /\ Len(UnderWay') = Len(q) - 1 /\ Head(q) = q[1] /\ 1 \in 1 .. Len(q)
      /\ \A i \in 1 .. (Len(q) - 1) : UnderWay'[i] = q[i + 1]
  <2> HIDE DEF q
  <2>1. Len(q) # 0
    BY <1>1, EmptySeq
  <2> QED
    BY <1>1, <2>1, HeadTailProperties
<1>3. ground' = IF FrameIn(q, 1) THEN q[1].body ELSE ground
  BY <1>1, <1>2 DEF FrameIn, WriteToUart
<1>4. \A j \in 1 .. Len(q) : FrameBefore(ground', UnderWay', j) = FrameBefore(ground, q, j + 1)
  <2> HIDE DEF q
  <2> QED
    BY <1>1, <1>3, FrameBeforeTail
<1>5. latest' = latest
  <2>1. latest' = FrameBefore(ground', UnderWay', Len(UnderWay') + 1)
    BY DEF latest, FrameBefore, LastFrame, FrameIn
  <2>2. Len(UnderWay') + 1 = Len(q) /\ Len(q) \in 1 .. Len(q)
    BY <1>1, <1>2
  <2>3. latest = FrameBefore(ground, q, Len(q) + 1)
    BY DEF latest
  <2> QED
    BY <1>4, <2>1, <2>2, <2>3
<1>6. ASSUME Chained PROVE Chained'
  <2>1. ASSUME NEW j \in 1 .. Len(UnderWay'), FrameIn(UnderWay', j)
        PROVE  Goes(FrameBefore(ground', UnderWay', j), UnderWay'[j].body)
    <3>1. j \in 1 .. Len(q) /\ j + 1 \in 1 .. Len(q) /\ j \in 1 .. (Len(q) - 1)
      BY <1>1, <1>2
    <3>2. FrameIn(UnderWay, j + 1) /\ UnderWay'[j] = UnderWay[j + 1]
      BY <1>2, <2>1, <3>1 DEF FrameIn
    <3> QED
      BY <1>4, <1>6, <3>1, <3>2 DEF Chained
  <2> QED
    BY <2>1 DEF Chained, FrameBefore, LastFrame, FrameIn, Goes, GoesOn
<1>7. ASSUME Chained, ground' # ground PROVE Goes(ground, ground')
  <2>1. FrameIn(UnderWay, 1) /\ ground' = UnderWay[1].body
    BY <1>3, <1>7
  <2>2. FrameBefore(ground, UnderWay, 1) = ground
    <3>1. ~ \E i \in 1 .. (1 - 1) : FrameIn(UnderWay, i)
      OBVIOUS
    <3> QED
      BY <3>1, NoFrameBefore
  <2> QED
    BY <1>2, <1>7, <2>1, <2>2 DEF Chained
<1>8. ground \in Frames => ground' \in Frames
  <2>1. q[1] \in Messages
    <3> HIDE DEF q
    <3> QED
      BY <1>1, <1>2, ElementOfSeq
  <2> QED
    BY <1>3, <2>1 DEF Messages, FrameIn
<1> QED
  BY <1>5, <1>6, <1>7, <1>8

---------------------------------------------------------------------------
(* Operations and their frames.                                            *)

LEMMA ReaderNumbers ==
    /\ Requests \subseteq Nat /\ 0 \notin Requests
    /\ FragmentLength \in Nat /\ FragmentLength >= 1
    /\ IndexWord \in Nat /\ IndexWord >= 1 /\ Entries \in Nat
BY ReaderAssumption

LEMMA TimesMore ==
    ASSUME NEW a \in Nat, NEW b \in Nat, NEW c \in Nat, a < b
    PROVE  a * c + c <= b * c
<1>1. PICK d \in Nat : b = (a + 1) + d
  <2>1. b - (a + 1) \in Nat /\ b = (a + 1) + (b - (a + 1))
    OBVIOUS
  <2> QED
    BY <2>1
<1>2. d * c \in Nat
  OBVIOUS
<1>3. ((a + 1) + d) * c = (a * c + c) + d * c
  OBVIOUS
<1> QED
  BY <1>1, <1>2, <1>3

LEMMA MaxIndexFits ==
    ASSUME NEW left \in Nat, left <= IndexWord * FragmentLength
    PROVE  /\ MaxIndex(left) \in Nat /\ MaxIndex(left) < IndexWord
           /\ left > 0 => /\ left > MaxIndex(left) * FragmentLength
                          /\ left <= MaxIndex(left) * FragmentLength + FragmentLength
<1> DEFINE d == left \div FragmentLength
           r == left % FragmentLength
           n == IF left > 0 /\ r = 0 THEN d - 1 ELSE d
<1>1. d \in Nat /\ r \in Nat /\ r < FragmentLength /\ left = d * FragmentLength + r
  BY ReaderNumbers
<1>2. MaxIndex(left) = (d - (IF left > 0 /\ r = 0 THEN 1 ELSE 0)) % IndexWord
  BY DEF MaxIndex
<1> HIDE DEF d, r
<1>3. left > 0 /\ r = 0 => d > 0
  BY <1>1, ReaderNumbers
<1>4. n \in Nat /\ MaxIndex(left) = n % IndexWord
  BY <1>1, <1>2, <1>3
<1>5. left > 0 => left > n * FragmentLength /\ left <= n * FragmentLength + FragmentLength
  <2>1. CASE left > 0 /\ r = 0
    <3>1. n = d - 1 /\ n * FragmentLength = d * FragmentLength - FragmentLength
      BY <1>1, <1>3, <2>1, ReaderNumbers
    <3> QED
      BY <1>1, <2>1, <3>1, ReaderNumbers
  <2>2. CASE left > 0 /\ r # 0
    <3>1. n = d /\ d * FragmentLength \in Nat
      BY <1>1, <2>2, ReaderNumbers
    <3> QED
      BY <1>1, <2>2, <3>1, ReaderNumbers
  <2> QED
    BY <1>1, <2>1, <2>2
<1> HIDE DEF n
<1>6. ASSUME left > 0 PROVE n < IndexWord
  <2> SUFFICES ASSUME IndexWord <= n PROVE FALSE
    BY <1>4, ReaderNumbers
  <2>1. CASE IndexWord = n
    <3>1. left > n * FragmentLength /\ n * FragmentLength = IndexWord * FragmentLength
      BY <1>5, <1>6, <2>1
    <3>2. IndexWord * FragmentLength \in Nat
      BY ReaderNumbers
    <3> QED
      BY <3>1, <3>2
  <2>2. CASE IndexWord < n
    <3>1. IndexWord * FragmentLength + FragmentLength <= n * FragmentLength
      BY <1>4, <2>2, ReaderNumbers, TimesMore
    <3>2. IndexWord * FragmentLength \in Nat /\ n * FragmentLength \in Nat
      BY <1>4, ReaderNumbers
    <3> QED
      BY <1>5, <1>6, <3>1, <3>2, ReaderNumbers
  <2> QED
    BY <1>4, <2>1, <2>2, ReaderNumbers
<1>7. n % IndexWord \in Nat /\ n % IndexWord < IndexWord
  BY <1>4, ReaderNumbers
<1>8. left > 0 => n % IndexWord = n
  BY <1>4, <1>6, ReaderNumbers
<1> QED
  BY <1>4, <1>5, <1>7, <1>8

LEMMA FitsNew ==
    ASSUME NEW input \in Inputs, input.length > 0
    PROVE  LET op == NewOperation(input) IN
           /\ op \in Operations /\ Fits(op) /\ Untouched(op)
           /\ op.live /\ op.kind # "none"
<1> DEFINE left == IF input.kind = "file" THEN LesserOf(input.length, input.rest) ELSE input.length
           max == IF input.kind = "dir" THEN (input.length - 1) % IndexWord ELSE MaxIndex(left)
           op == NewOperation(input)
<1>1. /\ input.kind \in {"raw", "file", "dir"} /\ input.length \in Nat
      /\ input.kind = "file" => input.rest \in Nat
      /\ input.length <= IndexWord * (IF input.kind = "dir" THEN 1 ELSE FragmentLength)
  BY ReaderAssumption
<1>2. op = [kind |-> input.kind, left |-> left, pos |-> 0, index |-> 0, max |-> max,
            ended |-> FALSE, live |-> TRUE]
  BY DEF NewOperation
<1>3. left \in Nat /\ left <= input.length
  BY <1>1 DEF LesserOf
<1>4. CASE input.kind = "dir"
  <2>1. input.length <= IndexWord /\ left = input.length
    BY <1>1, <1>4, ReaderNumbers
  <2>2. max = input.length - 1 /\ max \in Nat
    BY <1>1, <1>4, <2>1, ReaderNumbers
  <2> HIDE DEF left, max, op
  <2>3. op \in Operations /\ op.live /\ op.kind # "none" /\ Untouched(op)
    BY <1>1, <1>2, <1>3, <2>2 DEF Operations, Kinds, Untouched
  <2>4. Fits(op)
    BY <1>1, <1>2, <1>4, <2>1, <2>2, ReaderNumbers DEF Fits, Running, FramesLeft
  <2> QED
    BY <2>3, <2>4 DEF op
<1>5. CASE input.kind # "dir"
  <2>1. left <= IndexWord * FragmentLength
    <3>1. IndexWord * FragmentLength \in Nat
      BY ReaderNumbers
    <3>2. input.length <= IndexWord * FragmentLength
      BY <1>1, <1>5
    <3> HIDE DEF left
    <3> QED
      BY <1>1, <1>3, <3>1, <3>2
  <2>2. /\ max = MaxIndex(left) /\ max \in Nat /\ max < IndexWord
        /\ left > 0 => left > max * FragmentLength /\ left <= max * FragmentLength + FragmentLength
    <3> HIDE DEF left
    <3> QED
      BY <1>3, <1>5, <2>1, MaxIndexFits
  <2> HIDE DEF left, max, op
  <2>3. op \in Operations /\ op.live /\ op.kind # "none" /\ Untouched(op)
    BY <1>1, <1>2, <1>3, <2>2 DEF Operations, Kinds, Untouched
  <2>4. /\ op.max = max /\ op.live /\ op.kind # "none" /\ ~op.ended /\ op.index = 0
        /\ op.left = left /\ op.kind # "dir"
    BY <1>1, <1>2, <1>5
  <2>5. FramesLeft(op) = max
    BY <2>2, <2>4 DEF FramesLeft
  <2>6. Fits(op)
    BY <2>2, <2>4, <2>5 DEF Fits, Running
  <2> QED
    BY <2>3, <2>6 DEF op
<1> QED
  BY <1>4, <1>5

LEMMA FitsNothing == Nothing \in Operations /\ Fits(Nothing) /\ Untouched(Nothing) /\ ~Running(Nothing)
BY ReaderNumbers DEF Nothing, Operations, Kinds, Fits, Untouched, Running

LEMMA FitsCancelled ==
    ASSUME NEW op \in Operations, Fits(op), op.live
    PROVE  /\ Cancelled(op) \in Operations /\ Fits(Cancelled(op)) /\ ~Running(Cancelled(op))
           /\ Cancelled(op).live /\ Cancelled(op).kind = op.kind
           /\ Cancelled(op).index = op.index /\ Cancelled(op).pos = op.pos
           /\ Cancelled(op).ended = op.ended
<1> DEFINE c == Cancelled(op)
<1>1. /\ c \in Operations /\ c.left = 0 /\ c.kind = op.kind /\ c.pos = op.pos
      /\ c.index = op.index /\ c.max = op.max /\ c.ended = op.ended /\ c.live = op.live
  BY DEF Cancelled, Operations
<1> HIDE DEF c
<1>2. ~Running(c)
  BY <1>1 DEF Running
<1>3. Fits(c)
  BY <1>1, <1>2 DEF Fits
<1> QED
  BY <1>1, <1>2, <1>3 DEF c

LEMMA FitsMoved ==
    ASSUME NEW op \in Operations, Fits(op), op.live, NEW p \in Nat, NEW moved,
           moved = [op EXCEPT !.pos = p]
    PROVE  /\ moved \in Operations /\ Fits(moved) /\ Running(moved) = Running(op)
           /\ moved.live /\ moved.kind = op.kind /\ moved.pos = p
           /\ moved.index = op.index /\ moved.left = op.left /\ moved.ended = op.ended
           /\ moved.max = op.max
<1>1. /\ moved \in Operations /\ moved.left = op.left /\ moved.kind = op.kind /\ moved.pos = p
      /\ moved.index = op.index /\ moved.max = op.max /\ moved.ended = op.ended
      /\ moved.live = op.live
  BY DEF Operations
<1>2. Running(moved) = Running(op)
  BY <1>1 DEF Running
<1>3. Fits(moved)
  BY <1>1, <1>2 DEF Fits, FramesLeft
<1> QED
  BY <1>1, <1>2, <1>3

(* A full frame, or the last one. *)
LEMMA FitsPiece ==
    ASSUME NEW op \in Operations, Fits(op), Running(op), op.kind \in {"raw", "file"},
           NEW n, n = LesserOf(op.left, FragmentLength)
    PROVE  /\ n \in Nat /\ n <= op.left
           /\ op.index < IndexWord
           /\ op.index = op.max <=> op.left = n
<1> DEFINE m == FramesLeft(op)
<1>1. /\ op.left \in Nat /\ op.left > 0 /\ op.index \in Nat /\ op.max \in Nat /\ op.index <= op.max
      /\ op.max < IndexWord /\ m \in Nat /\ m = op.max - op.index
      /\ op.left > m * FragmentLength /\ op.left <= m * FragmentLength + FragmentLength
  BY DEF Fits, Operations, FramesLeft, Running
<1> HIDE DEF m
<1>2. n \in Nat /\ n <= op.left
  BY <1>1, ReaderNumbers DEF LesserOf
<1>3. op.index < IndexWord
  BY <1>1, ReaderNumbers
<1>4. CASE m = 0
  <2>1. m * FragmentLength = 0
    BY <1>4, ReaderNumbers
  <2>2. op.left <= FragmentLength /\ op.index = op.max
    <3>1. op.left <= m * FragmentLength + FragmentLength
      BY <1>1
    <3>2. op.left <= 0 + FragmentLength
      BY <2>1, <3>1
    <3>3. op.index \in Nat /\ op.max \in Nat /\ op.max - op.index = 0
      BY <1>1, <1>4
    <3> QED
      BY <3>2, <3>3, ReaderNumbers
  <2>3. n = op.left
    <3>1. op.left \in Nat /\ FragmentLength \in Nat
      BY ReaderNumbers DEF Operations
    <3> QED
      BY <2>2, <3>1 DEF LesserOf
  <2> QED
    BY <1>2, <1>3, <2>2, <2>3
<1>5. CASE m # 0
  <2>1. 0 * FragmentLength + FragmentLength <= m * FragmentLength
    BY <1>1, <1>5, TimesMore, ReaderNumbers
  <2>2. op.left > FragmentLength
    <3>1. m * FragmentLength \in Nat
      BY <1>1, ReaderNumbers
    <3> QED
      BY <1>1, <2>1, <3>1, ReaderNumbers
  <2> QED
    BY <1>1, <1>2, <1>3, <1>5, <2>2, ReaderNumbers DEF LesserOf
<1> QED
  BY <1>4, <1>5

Length(op) == LesserOf(op.left, FragmentLength)

(* The operation after a piece of it was sent, with the handle at p. *)
Advanced(op, p) == [op EXCEPT !.left = op.left - Length(op), !.index = op.index + 1, !.pos = p]

LEMMA FitsPieceSent ==
    ASSUME NEW op \in Operations, Fits(op), Running(op), op.kind \in {"raw", "file"}, NEW p \in Nat
    PROVE  /\ Advanced(op, p) \in Operations /\ Fits(Advanced(op, p))
           /\ Advanced(op, p).live = op.live /\ Advanced(op, p).kind = op.kind
           /\ Advanced(op, p).index = op.index + 1 /\ Advanced(op, p).pos = p
<1> DEFINE n == Length(op)
           next == Advanced(op, p)
<1>0. n = LesserOf(op.left, FragmentLength)
  BY DEF Length
<1> HIDE DEF n
<1>1. /\ op.left \in Nat /\ op.left > 0 /\ op.index \in Nat /\ op.max \in Nat /\ op.index <= op.max
      /\ op.max < IndexWord
      /\ op.left > FramesLeft(op) * FragmentLength
      /\ op.left <= FramesLeft(op) * FragmentLength + FragmentLength
      /\ op.pos \in Nat /\ op.kind \in Kinds /\ ~op.ended /\ op.live \in BOOLEAN
  BY DEF Fits, Operations, Running
<1>2. n \in Nat /\ n <= op.left /\ op.left - n \in Nat
  BY <1>0, <1>1, FitsPiece
<1>3. /\ next \in Operations /\ next.left = op.left - n /\ next.kind = op.kind /\ next.pos = p
      /\ next.index = op.index + 1 /\ next.max = op.max /\ ~next.ended /\ next.live = op.live
  <2> DEFINE l == op.left - n
             i == op.index + 1
  <2>1. l \in Nat /\ i \in Nat /\ next = [op EXCEPT !.left = l, !.index = i, !.pos = p]
    BY <1>1, <1>2 DEF Advanced, n
  <2> HIDE DEF l, i, next
  <2>2. /\ next \in Operations /\ next.left = l /\ next.kind = op.kind /\ next.pos = p
        /\ next.index = i /\ next.max = op.max /\ ~next.ended /\ next.live = op.live
    BY <1>1, <2>1 DEF Operations
  <2> QED
    BY <2>2 DEF l, i
<1> HIDE DEF next
<1>4. op.live
  BY <1>1 DEF Fits, Nothing
<1>5. ASSUME Running(next)
      PROVE  /\ next.index <= next.max
             /\ next.left > FramesLeft(next) * FragmentLength
             /\ next.left <= FramesLeft(next) * FragmentLength + FragmentLength
  <2>1. n = FragmentLength /\ op.left > FragmentLength
    BY <1>0, <1>1, <1>3, <1>5, ReaderNumbers DEF Running, LesserOf
  <2>2. op.index # op.max
    <3>1. op.index = op.max <=> op.left = n
      BY <1>0, FitsPiece
    <3> QED
      BY <1>1, <2>1, <3>1, ReaderNumbers
  <2>3. next.index <= next.max /\ FramesLeft(op) = FramesLeft(next) + 1
        /\ FramesLeft(next) \in Nat
    BY <1>1, <1>3, <2>2 DEF FramesLeft
  <2>4. FramesLeft(op) * FragmentLength = FramesLeft(next) * FragmentLength + FragmentLength
        /\ FramesLeft(next) * FragmentLength \in Nat
    BY <2>3, ReaderNumbers
  <2> QED
    BY <1>1, <1>3, <2>1, <2>3, <2>4, ReaderNumbers
<1>6. next.kind # "none" /\ next.kind # "dir"
  BY <1>3
<1>7. Fits(next)
  BY <1>1, <1>3, <1>4, <1>5, <1>6 DEF Fits
<1> QED
  BY <1>3, <1>7 DEF next

LEMMA FitsEntry ==
    ASSUME NEW op \in Operations, Fits(op), Running(op), op.kind = "dir"
    PROVE  /\ op.index < IndexWord /\ op.index <= op.max /\ op.live
           /\ op.index = op.max <=> op.left = 1
<1>1. /\ op.left \in Nat /\ op.left > 0 /\ op.index \in Nat /\ op.max \in Nat /\ op.index <= op.max
      /\ op.max < IndexWord /\ op.left = (op.max - op.index) + 1 /\ op.live \in BOOLEAN
  BY DEF Fits, Operations, FramesLeft, Running
<1>2. op.live
  BY <1>1 DEF Fits, Nothing
<1> QED
  BY <1>1, <1>2, ReaderNumbers

LEMMA FitsEntrySent ==
    ASSUME NEW op \in Operations, Fits(op), op.kind = "dir", ~op.ended, NEW next,
           op.left > 0, next = [op EXCEPT !.left = op.left - 1, !.index = op.index + 1]
    PROVE  /\ next \in Operations /\ Fits(next) /\ next.live = op.live /\ next.kind = op.kind
           /\ next.index = op.index + 1 /\ next.pos = op.pos /\ ~next.ended
<1>1. /\ op.left \in Nat /\ op.index \in Nat /\ op.max \in Nat /\ op.index <= op.max
      /\ op.max < IndexWord /\ op.left = (op.max - op.index) + 1 /\ op.live
  BY FitsEntry DEF Fits, Operations, FramesLeft, Running
<1>2. /\ next \in Operations /\ next.left = op.left - 1 /\ next.kind = op.kind /\ next.pos = op.pos
      /\ next.index = op.index + 1 /\ next.max = op.max /\ ~next.ended /\ next.live = op.live
  <2> DEFINE l == op.left - 1
             i == op.index + 1
  <2>1. l \in Nat /\ i \in Nat /\ next = [op EXCEPT !.left = l, !.index = i]
    BY <1>1
  <2> HIDE DEF l, i
  <2>2. /\ next \in Operations /\ next.left = l /\ next.kind = op.kind /\ next.pos = op.pos
        /\ next.index = i /\ next.max = op.max /\ ~next.ended /\ next.live = op.live
    BY <1>1, <2>1 DEF Operations
  <2> QED
    BY <2>2 DEF l, i
<1>3. Running(next) => next.index <= next.max /\ next.left = FramesLeft(next) + 1
  BY <1>1, <1>2 DEF Running, FramesLeft
<1>4. Fits(next)
  BY <1>1, <1>2, <1>3 DEF Fits
<1> QED
  BY <1>2, <1>4

---------------------------------------------------------------------------
(* The steps of the cmd task.                                              *)

CmdTypes == [at : {"idle", "running", "build", "install", "reset", "answer", "answered"},
             request : Nat \ {0}, seen : Requests \cup {0}, answer : Answers]

LEMMA RequestNumbers ==
    ASSUME IInv
    PROVE  /\ latest \in Frames /\ latest.request \in Nat /\ reached \in Nat
           /\ cmd.request \in Nat /\ cmd.request >= reached /\ cmd.request <= reached + 1
           /\ reader.request \in Nat /\ _operation \in Nat
<1>1. latest \in Frames
  BY LatestType DEF IInv, ReaderInv, ReaderTyped, TelemInv
<1>2. latest.request \in Nat
  BY <1>1 DEF Frames, AnyFrames
<1>3. /\ reached \in Nat /\ cmd.request \in Nat
      /\ cmd.request >= reached /\ cmd.request <= reached + 1
  BY DEF IInv, ReaderInv, ReaderTyped, reached
<1>4. reader.request \in Nat /\ _operation \in Nat
  <2>1. reader.request \in Requests \cup {0} /\ _operation \in Requests \cup {0}
    BY DEF IInv, ReaderInv, ReaderTyped
  <2>2. ASSUME NEW r \in Requests \cup {0} PROVE r \in Nat
    BY ReaderNumbers
  <2> QED
    BY <2>1, <2>2, Zenon
<1> QED
  BY <1>1, <1>2, <1>3, <1>4

LEMMA CmdMoves ==
    ASSUME IInv, UNCHANGED <<heap, _operation, reader, ground>>,
           sending'[Storage] = sending[Storage], UnderWay' = UnderWay,
           cmd' \in CmdTypes, reached <= reached', Installed'
    PROVE  ReaderInv'
<1>1. latest' = latest /\ (Chained => Chained')
  BY LatestSame
<1>2. ReaderTyped'
  BY DEF IInv, ReaderInv, ReaderTyped, CmdTypes
<1>3. (\A r \in Requests : Fits(heap[r]))'
  BY DEF IInv, ReaderInv, Fits, Running, FramesLeft
<1>4. InIterate'
  BY DEF IInv, ReaderInv, InIterate, current, Running, Untouched, Piece
<1>5. latest.request <= reached'
  <2>1. latest.request \in Nat /\ reached \in Int /\ reached' \in Int
    BY RequestNumbers DEF reached, CmdTypes
  <2> QED
    BY <2>1 DEF IInv, ReaderInv, Stream
<1>6. Stream'
  BY <1>1, <1>5 DEF IInv, ReaderInv, Stream, Accepted, Offered, Carries, Goes, GoesOn, sent, current,
     Running, Position, Piece
<1> QED
  BY <1>2, <1>3, <1>4, <1>6 DEF ReaderInv

(* The cmd task's parts of an invariant that holds. *)
CmdFacts ==
    /\ cmd \in CmdTypes
    /\ \A r \in Requests : heap[r].live <=> r = _operation \/ (Building /\ r = cmd.request)
    /\ _operation <= reached /\ reader.request <= reached
    /\ \A r \in Requests : r > reached => Untouched(heap[r])
    /\ cmd.at \in {"running", "build", "install", "reset"} => cmd.request \in Requests
    /\ cmd.at = "running" => cmd.seen \in Requests /\ _operation \in {0, cmd.seen}
    /\ cmd.at \in {"build", "install", "reset"} /\ _operation # 0 => ~Running(heap[_operation])
    /\ sending[Cmd].at = "idle" <=> cmd.at # "answered"

LEMMA CmdKnows == IInv => CmdFacts
BY DEF IInv, ReaderInv, Installed, ReaderTyped, CmdFacts, CmdTypes

LEMMA LoadStep ==
    ASSUME IInv, LoadOperation
    PROVE  ReaderInv'
<1>1. CmdFacts
  BY CmdKnows
<1>2. /\ UNCHANGED <<heap, _operation, reader, ground, sending>> /\ UnderWay' = UnderWay
      /\ cmd.at = "idle" /\ cmd.request \in Requests
  BY DEF LoadOperation, CmdAt, telemVars, UnderWay
<1>3. /\ cmd' \in CmdTypes /\ cmd'.request = cmd.request /\ cmd'.seen = _operation
      /\ \/ cmd'.at = "build" /\ _operation = 0
         \/ cmd'.at = "running" /\ _operation # 0
  BY <1>1 DEF LoadOperation, CmdTypes, IInv, ReaderInv, ReaderTyped
<1>4. reached' = reached /\ ~Building /\ ~Building'
  BY <1>2, <1>3 DEF reached, Building
<1>5. Installed'
  BY <1>1, <1>2, <1>3, <1>4, ReaderNumbers DEF CmdFacts, Installed, Running, Untouched, IInv, ReaderInv, ReaderTyped
<1> QED
  BY <1>2, <1>3, <1>4, <1>5, CmdMoves, RequestNumbers

LEMMA AskStep ==
    ASSUME IInv, AskRunning
    PROVE  ReaderInv'
<1>1. CmdFacts
  BY CmdKnows
<1>2. /\ UNCHANGED <<heap, _operation, reader, ground, sending>> /\ UnderWay' = UnderWay
      /\ cmd.at = "running" /\ cmd.request \in Requests
  BY <1>1 DEF AskRunning, CmdAt, telemVars, UnderWay, CmdFacts
<1>3. /\ cmd' \in CmdTypes /\ cmd'.request = cmd.request
      /\ \/ cmd'.at = "answer"
         \/ cmd'.at = "build" /\ (heap[cmd.seen].live => ~Running(heap[cmd.seen]))
  <2>1. PICK running \in IF heap[cmd.seen].live THEN {Running(heap[cmd.seen])} ELSE BOOLEAN :
           cmd' = [cmd EXCEPT !.at = IF running THEN "answer" ELSE "build", !.seen = 0,
                              !.answer = IF running THEN "failed" ELSE "none"]
    BY DEF AskRunning
  <2>2. heap[cmd.seen].live => running = Running(heap[cmd.seen])
    BY <2>1
  <2>3. \/ running /\ cmd' = [cmd EXCEPT !.at = "answer", !.seen = 0, !.answer = "failed"]
        \/ ~running /\ cmd' = [cmd EXCEPT !.at = "build", !.seen = 0, !.answer = "none"]
    BY <2>1
  <2>4. cmd' \in CmdTypes /\ cmd'.request = cmd.request
        /\ (cmd'.at = "answer" \/ (cmd'.at = "build" /\ ~running))
    <3>1. cmd \in CmdTypes
      BY <1>1 DEF CmdFacts
    <3>2. CASE running /\ cmd' = [cmd EXCEPT !.at = "answer", !.seen = 0, !.answer = "failed"]
      BY <3>1, <3>2 DEF CmdTypes, Answers
    <3>3. CASE ~running /\ cmd' = [cmd EXCEPT !.at = "build", !.seen = 0, !.answer = "none"]
      BY <3>1, <3>3 DEF CmdTypes, Answers
    <3> QED
      BY <2>3, <3>2, <3>3
  <2> QED
    BY <2>2, <2>4
<1>4. reached <= reached' /\ reached' \in Nat /\ ~Building /\ ~Building'
  BY <1>1, <1>2, <1>3 DEF reached, Building, CmdFacts, CmdTypes
<1>5. _operation # 0 => heap[_operation].live /\ _operation = cmd.seen
  BY <1>1, <1>2 DEF CmdFacts, IInv, ReaderInv, ReaderTyped
<1>6. \A r \in Requests : (r > reached' => r > reached)
  BY <1>4, RequestNumbers, ReaderNumbers
<1>7. _operation <= reached' /\ reader.request <= reached'
  BY <1>1, <1>4, RequestNumbers DEF CmdFacts
<1>8. Installed'
  BY <1>1, <1>2, <1>3, <1>4, <1>5, <1>6, <1>7, ReaderNumbers DEF CmdFacts, Installed, Running, Untouched
<1> QED
  BY <1>2, <1>3, <1>4, <1>8, CmdMoves

LEMMA StartFailsStep ==
    ASSUME IInv, StartFails
    PROVE  TelemInv' /\ ReaderInv'
<1>1. CmdFacts
  BY CmdKnows
<1>2. /\ UNCHANGED <<heap, _operation, reader, ground, sending>>
      /\ UNCHANGED <<out_queue, seq_no_mutex, sending, writing, buffers, order>>
      /\ mishaps' \in 0 .. MaxMishaps
      /\ cmd.at = "build" /\ cmd.request \in Requests
  BY <1>1, MishapType DEF StartFails, CmdAt, CmdFacts, IInv, TelemInv, TelemTyped
<1>3. TelemInv' /\ UnderWay' = UnderWay
  BY <1>2, TelemSame DEF IInv
<1>4. cmd' \in CmdTypes /\ cmd'.request = cmd.request /\ cmd'.at = "answer"
  BY <1>1 DEF StartFails, CmdTypes, CmdFacts, Answers
<1>5. reached <= reached' /\ reached' \in Nat /\ ~Building /\ ~Building'
  BY <1>1, <1>2, <1>4 DEF reached, Building, CmdFacts, CmdTypes
<1>6. \A r \in Requests : (r > reached' => r > reached)
  BY <1>5, RequestNumbers, ReaderNumbers
<1>7. _operation <= reached' /\ reader.request <= reached'
  BY <1>1, <1>5, RequestNumbers DEF CmdFacts
<1>8. Installed'
  BY <1>1, <1>2, <1>4, <1>5, <1>6, <1>7, ReaderNumbers DEF CmdFacts, Installed, Running, Untouched
<1> QED
  BY <1>2, <1>3, <1>4, <1>5, <1>8, CmdMoves

LEMMA AnswerStep ==
    ASSUME IInv, Answer
    PROVE  TelemInv' /\ ReaderInv'
<1>1. CmdFacts
  BY CmdKnows
<1>2. /\ UNCHANGED <<heap, _operation, reader, ground>> /\ cmd.at = "answer"
      /\ SendTo(Cmd, cmd.answer, TRUE) /\ cmd.answer \in Contents
  BY <1>1 DEF Answer, CmdAt, CmdFacts, CmdTypes, Contents, Texts
<1>3. /\ TelemInv' /\ UnderWay' = UnderWay /\ sending'[Cmd].at \in {"lock", "done"}
      /\ sending'[Storage] = sending[Storage]
  BY <1>2, TelemSendTo, TelemNumbers DEF IInv
<1>4. cmd' \in CmdTypes /\ cmd'.request = cmd.request /\ cmd'.at = "answered"
  BY <1>1 DEF Answer, CmdTypes, CmdFacts, Answers
<1>5. reached' = reached /\ ~Building /\ ~Building'
  BY <1>2, <1>4 DEF reached, Building
<1>6. Installed'
  BY <1>1, <1>2, <1>3, <1>4, <1>5 DEF CmdFacts, Installed, Untouched
<1> QED
  BY <1>2, <1>3, <1>4, <1>5, <1>6, CmdMoves, RequestNumbers

LEMMA NextCommandStep ==
    ASSUME IInv, NextCommand
    PROVE  TelemInv' /\ ReaderInv'
<1>1. CmdFacts
  BY CmdKnows
<1>2. /\ UNCHANGED <<heap, _operation, reader, ground>> /\ cmd.at = "answered"
      /\ Return(Cmd)
      /\ UNCHANGED <<out_queue, seq_no_mutex, writing, buffers, order>> /\ mishaps' \in 0 .. MaxMishaps
  BY DEF NextCommand, CmdAt, IInv, TelemInv, TelemTyped
<1>3. /\ TelemInv' /\ UnderWay' = UnderWay /\ sending'[Cmd].at = "idle"
      /\ sending'[Storage] = sending[Storage]
  BY <1>2, TelemReturn, TelemNumbers DEF IInv
<1>4. cmd' \in CmdTypes /\ cmd'.request = cmd.request + 1 /\ cmd'.at = "idle"
  BY <1>1 DEF NextCommand, CmdTypes, CmdFacts, Answers
<1>5. reached' = reached /\ ~Building /\ ~Building'
  BY <1>1, <1>2, <1>4 DEF reached, Building, CmdFacts, CmdTypes
<1>6. Installed'
  BY <1>1, <1>2, <1>3, <1>4, <1>5 DEF CmdFacts, Installed, Untouched
<1> QED
  BY <1>2, <1>3, <1>4, <1>5, <1>6, CmdMoves, RequestNumbers

(* An operation that is ended: cancelled, or deleted. *)
Ended(op, next) ==
    /\ ~Running(next) /\ (Untouched(op) => Untouched(next))
    /\ \/ next = Nothing
       \/ /\ next.live <=> op.live
          /\ next.ended <=> op.ended
          /\ next.kind = op.kind /\ next.index = op.index /\ next.pos = op.pos

(* Whoever ends the operation o, while nothing of it is sent, and where    *)
(* the storage task leaves an iterate(): what it is doing and the stream   *)
(* of frames stay right.                                                   *)
LEMMA EndKeepsStream ==
    ASSUME IInv, NEW o, ground' = ground, UnderWay' = UnderWay, sending'[Storage] = sending[Storage],
           \A r \in Requests : heap'[r] = heap[r] \/ (r = o /\ Ended(heap[r], heap'[r])),
           \/ reader' = reader /\ (reader.at \in {"test", "sent"} /\ o = reader.request => ~Running(heap[o]))
           \/ /\ reader.at # "sent" /\ reader'.at \notin {"test", "sent"}
              /\ reader'.request \in {0, reader.request, _operation'},
           reader'.request \in Requests \cup {0},
           reached <= reached', reached' \in Nat,
           _operation' \in Nat, _operation' # 0 => _operation' = _operation \/ _operation' > reached
    PROVE  InIterate' /\ Stream'
<1>1. latest' = latest /\ Chained'
  BY LatestSame DEF IInv, ReaderInv, Stream
<1>2. ASSUME reader' = reader, reader.at \in {"test", "sent"}
      PROVE  /\ current' = heap'[reader.request] /\ current = heap[reader.request]
             /\ reader.request \in Requests
             /\ \/ current' = current
                \/ reader.request = o /\ ~Running(current) /\ Ended(current, current')
  BY <1>2 DEF current, IInv, ReaderInv, InIterate, ReaderTyped
<1>3. _operation' # 0 => latest.request <= _operation' /\ reader'.request <= _operation'
  <2> SUFFICES ASSUME _operation' # 0 PROVE latest.request <= _operation' /\ reader'.request <= _operation'
    OBVIOUS
  <2>1. latest.request <= _operation' /\ reader.request <= _operation'
    <3>1. CASE _operation' = _operation
      BY <3>1 DEF IInv, ReaderInv, InIterate, Stream
    <3>2. CASE _operation' > reached
      <4>1. latest.request <= reached /\ reader.request <= reached
        BY DEF IInv, ReaderInv, Stream, Installed
      <4> QED
        BY <3>2, <4>1, RequestNumbers
    <3> QED
      BY <3>1, <3>2
  <2>2. reader'.request \in {reader.request, 0, _operation'}
    OBVIOUS
  <2> QED
    BY <2>1, <2>2
<1>4. InIterate'
  <2>1. sending'[Storage].at = "idle" <=> reader'.at # "sent"
    BY DEF IInv, ReaderInv, InIterate
  <2>2. reader'.at \in {"test", "sent"} => reader'.request # 0
    BY DEF IInv, ReaderInv, InIterate
  <2>3. ASSUME reader'.at \in {"test", "sent"}, NEW r \in Requests, r > reader'.request
        PROVE  Untouched(heap'[r])
    BY <2>3 DEF IInv, ReaderInv, InIterate, Ended
  <2>4. reader'.at = "test" /\ current'.kind = "file" => current'.pos = reader'.pos
    BY <1>2 DEF IInv, ReaderInv, InIterate, Ended, Nothing
  <2>5. ASSUME reader'.at = "sent", current'.kind \in {"raw", "file"}
        PROVE  current' = current /\ reader' = reader
    BY <1>2, <2>5 DEF IInv, ReaderInv, InIterate, Ended, Nothing
  <2>6. reader'.at = "sent" => (current'.kind \in {"raw", "file"} => Running(current'))
    BY <2>5 DEF IInv, ReaderInv, InIterate
  <2>7. reader'.at = "sent" /\ current'.kind = "file" => current'.pos = reader'.pos + LesserOf(current'.left, FragmentLength)
    BY <2>5 DEF IInv, ReaderInv, InIterate, Piece
  <2>8. ASSUME reader'.at = "sent", current'.kind = "dir", ~current'.ended
        PROVE  current' = current /\ reader' = reader
    BY <1>2, <2>8 DEF IInv, ReaderInv, InIterate, Ended, Nothing
  <2>9. reader'.at = "sent" /\ current'.kind = "dir" /\ ~current'.ended => Running(current')
    BY <2>8 DEF IInv, ReaderInv, InIterate
  <2> QED
    BY <1>3, <2>1, <2>2, <2>3, <2>4, <2>6, <2>7, <2>9 DEF InIterate, current, Running, Untouched, Piece
<1>5. Stream'
  <2>1. latest.request <= reached'
    <3>1. latest.request <= reached
      BY DEF IInv, ReaderInv, Stream
    <3> QED
      BY <3>1, RequestNumbers
  <2>2. ASSUME NEW f, Carries(f), reader' = reader, reader.at = "sent"
        PROVE  Carries(f)'
    <3>1. reader.request \in Requests /\ reader' = reader
      BY <1>2, <2>2
    <3>2. CASE current' = current
      <4>1. heap'[reader.request] = heap[reader.request]
        BY <1>2, <2>2, <3>2
      <4> QED
        BY <2>2, <3>1, <4>1 DEF Carries, current, Position, Piece
    <3>3. CASE ~Running(current) /\ Ended(current, current')
      <4>1. current.kind \notin {"raw", "file"}
        BY <2>2, <3>3 DEF IInv, ReaderInv, InIterate
      <4>2. current.live => current.kind = "dir"
        BY <1>2, <2>2, <4>1 DEF IInv, ReaderInv, ReaderTyped, Operations, Kinds, Fits
      <4>3. current'.live => current.live /\ current'.kind = current.kind /\ current'.index = current.index
        BY <3>3 DEF Ended, Nothing
      <4> QED
        BY <2>2, <3>1, <4>2, <4>3 DEF Carries, current
    <3> QED
      BY <1>2, <2>2, <3>2, <3>3
  <2>3. sent' = sent
    BY DEF sent
  <2>4. Accepted \/ Offered => reader' = reader /\ reader.at = "sent"
    BY <2>3 DEF Accepted, Offered, sent, IInv, ReaderInv, InIterate
  <2>5. ASSUME NEW r \in Requests, Running(heap'[r]), ~(Accepted' /\ r = reader'.request)
        PROVE  GoesOn(latest, heap'[r].kind, r, heap'[r].index, Position(r)')
    <3>1. heap'[r] = heap[r]
      BY <2>5 DEF Ended
    <3>2. Accepted' = Accepted
      BY <2>3 DEF Accepted
    <3>3. Running(heap[r]) /\ ~(Accepted /\ r = reader.request)
      BY <2>4, <2>5, <3>1, <3>2
    <3>4. Position(r)' = Position(r)
      <4>1. CASE reader' = reader
        BY <3>1, <4>1 DEF Position
      <4>2. CASE reader.at # "sent" /\ reader'.at # "sent"
        BY <3>1, <4>2 DEF Position
      <4> QED
        BY <4>1, <4>2
    <3> QED
      BY <3>1, <3>3, <3>4 DEF IInv, ReaderInv, Stream
  <2>6. (Accepted => Carries(latest)') /\ (Offered => Carries(sent.body)' /\ Goes(latest, sent.body))
    <3>1. Accepted => Carries(latest)
      BY DEF IInv, ReaderInv, Stream
    <3>2. Offered => Carries(sent.body) /\ Goes(latest, sent.body)
      BY DEF IInv, ReaderInv, Stream
    <3> QED
      BY <1>1, <2>2, <2>3, <2>4, <3>1, <3>2 DEF Carries, current, Position, Piece
  <2>7. reader'.at \in {"test", "sent"} => latest.request <= reader'.request
    BY DEF IInv, ReaderInv, Stream
  <2> QED
    BY <1>1, <1>3, <2>1, <2>3, <2>5, <2>6, <2>7 DEF Stream, Accepted, Offered, Carries, Goes, GoesOn, current,
       Running, Position, Piece
<1> QED
  BY <1>4, <1>5

LEMMA EndType ==
    ASSUME IInv, NEW o \in Requests, heap[o].live, NEW next \in {Cancelled(heap[o]), Nothing},
           heap' = [heap EXCEPT ![o] = next]
    PROVE  /\ heap' \in [Requests -> Operations] /\ \A r \in Requests : Fits(heap'[r])
           /\ heap'[o] = next /\ Ended(heap[o], heap'[o]) /\ ~Running(next)
           /\ \A r \in Requests : heap'[r] = heap[r] \/ (r = o /\ Ended(heap[r], heap'[r]))
           /\ \A r \in Requests : r # o => heap'[r] = heap[r]
           /\ next = Nothing <=> ~next.live
<1>1. heap \in [Requests -> Operations] /\ heap[o] \in Operations /\ Fits(heap[o])
      /\ \A r \in Requests : Fits(heap[r])
  BY DEF IInv, ReaderInv, ReaderTyped
<1>2. next \in Operations /\ Fits(next) /\ ~Running(next) /\ Ended(heap[o], next)
  BY <1>1, FitsNothing, FitsCancelled DEF Ended, Untouched
<1>3. next = Nothing <=> ~next.live
  BY <1>1, FitsCancelled DEF Nothing
<1>4. heap'[o] = next /\ \A r \in Requests : r # o => heap'[r] = heap[r]
  BY <1>1
<1>5. heap' \in [Requests -> Operations]
  BY <1>1, <1>2
<1> HIDE DEF Ended, Running
<1> QED
  BY <1>1, <1>2, <1>3, <1>4, <1>5

LEMMA StartStep ==
    ASSUME IInv, NEW input \in Inputs, Start(input)
    PROVE  ReaderInv'
<1> DEFINE r0 == cmd.request
           op == NewOperation(input)
<1>1. CmdFacts
  BY CmdKnows
<1>2. /\ UNCHANGED <<_operation, reader, ground, sending>> /\ UnderWay' = UnderWay
      /\ cmd.at = "build" /\ input.length > 0 /\ r0 \in Requests /\ heap' = [heap EXCEPT ![r0] = op]
  BY <1>1 DEF Start, CmdAt, telemVars, UnderWay, CmdFacts
<1>3. op \in Operations /\ Fits(op) /\ Untouched(op) /\ op.live /\ op.kind # "none"
  BY <1>2, FitsNew
<1> HIDE DEF op
<1>4. cmd' \in CmdTypes /\ cmd'.request = r0 /\ cmd'.at = "install"
  BY <1>1 DEF Start, CmdTypes, CmdFacts
<1>5. reached' = reached /\ reached < r0 /\ Building' /\ ~Building
  BY <1>1, <1>2, <1>4, RequestNumbers DEF reached, Building, CmdFacts, CmdTypes
<1>6. heap'[r0] = op /\ \A r \in Requests : r # r0 => heap'[r] = heap[r]
  BY <1>2 DEF IInv, ReaderInv, ReaderTyped
<1>7. reader.request # r0 /\ _operation # r0 /\ reader.request < r0 /\ latest.request < r0
  <2>1. reader.request <= reached /\ _operation <= reached /\ latest.request <= reached
    BY <1>1 DEF CmdFacts, IInv, ReaderInv, Stream
  <2> QED
    BY <1>2, <1>5, <2>1, RequestNumbers
<1>8. current' = current \/ reader.request = 0
  BY <1>2, <1>6, <1>7 DEF current, IInv, ReaderInv, ReaderTyped
<1>9. ReaderTyped' /\ (\A r \in Requests : Fits(heap[r]))'
  <2>1. heap' \in [Requests -> Operations]
    BY <1>2, <1>3 DEF IInv, ReaderInv, ReaderTyped
  <2>2. \A r \in Requests : Fits(heap'[r])
    BY <1>3, <1>6 DEF IInv, ReaderInv
  <2> QED
    BY <1>2, <1>4, <2>1, <2>2 DEF IInv, ReaderInv, ReaderTyped, CmdTypes, Fits, Running, FramesLeft
<1>10. Installed'
  <2>1. \A r \in Requests : heap'[r].live <=> r = _operation \/ r = r0
    BY <1>1, <1>3, <1>5, <1>6 DEF CmdFacts
  <2>2. \A r \in Requests : r > reached' => Untouched(heap'[r])
    BY <1>1, <1>3, <1>5, <1>6 DEF CmdFacts
  <2>3. _operation # 0 => ~Running(heap'[_operation])
    BY <1>1, <1>2, <1>6, <1>7 DEF CmdFacts, IInv, ReaderInv, ReaderTyped
  <2> QED
    BY <1>1, <1>2, <1>4, <1>5, <2>1, <2>2, <2>3 DEF CmdFacts, Installed, Building, Running, Untouched
<1>11. InIterate'
  <2>1. ASSUME reader.at \in {"test", "sent"}, NEW r \in Requests, r > reader.request
        PROVE  Untouched(heap'[r])
    BY <1>3, <1>6, <2>1 DEF IInv, ReaderInv, InIterate
  <2> QED
    BY <1>2, <1>8, <2>1 DEF IInv, ReaderInv, InIterate, Running, Untouched, Piece
<1>12. Stream'
  <2>1. latest' = latest /\ Chained'
    BY <1>2, LatestSame DEF IInv, ReaderInv, Stream
  <2>2. sent' = sent /\ (Offered \/ Accepted => reader.at = "sent" /\ reader.request # 0 /\ current' = current)
    BY <1>2, <1>8 DEF sent, Offered, Accepted, IInv, ReaderInv, InIterate
  <2>3. reader.request # 0 => heap'[reader.request] = heap[reader.request]
    BY <1>6, <1>7 DEF IInv, ReaderInv, ReaderTyped
  <2>4. \A f : Carries(f) /\ (Offered \/ Accepted) => Carries(f)'
    BY <1>2, <2>2, <2>3 DEF Carries, Position, Piece
  <2>5. ASSUME NEW r \in Requests, Running(heap'[r]), ~(Accepted /\ r = reader.request)
        PROVE  GoesOn(latest, heap'[r].kind, r, heap'[r].index, Position(r)')
    <3>1. CASE r = r0
      <4>1. heap'[r].index = 0 /\ Position(r)' = 0
        BY <1>2, <1>3, <1>6, <1>7, <3>1 DEF Untouched, Position
      <4> QED
        BY <1>7, <3>1, <4>1 DEF GoesOn
    <3>2. CASE r # r0
      <4>1. heap'[r] = heap[r] /\ Position(r)' = Position(r)
        BY <1>2, <1>6, <3>2 DEF Position
      <4> QED
        BY <2>5, <4>1 DEF IInv, ReaderInv, Stream
    <3> QED
      BY <3>1, <3>2
  <2>6. /\ Accepted => Carries(latest)
        /\ Offered => Carries(sent.body) /\ Goes(latest, sent.body)
        /\ latest.request <= reached
        /\ reader.at \in {"test", "sent"} => latest.request <= reader.request
        /\ _operation # 0 => latest.request <= _operation
    BY DEF IInv, ReaderInv, Stream
  <2> QED
    BY <1>2, <1>5, <2>1, <2>2, <2>4, <2>5, <2>6 DEF Stream, Accepted, Offered, Carries, Goes, GoesOn, current,
       Running, Position, Piece
<1> QED
  BY <1>9, <1>10, <1>11, <1>12 DEF ReaderInv

LEMMA CancelInstalledStep ==
    ASSUME IInv, CancelInstalled
    PROVE  ReaderInv'
<1>1. CmdFacts
  BY CmdKnows
<1>2. /\ UNCHANGED <<_operation, reader, ground, sending>> /\ UnderWay' = UnderWay
      /\ cmd.at = "install" /\ cmd.request \in Requests
      /\ heap' = IF _operation = 0 THEN heap ELSE [heap EXCEPT ![_operation] = Cancelled(heap[_operation])]
  BY <1>1 DEF CancelInstalled, CmdAt, telemVars, UnderWay, CmdFacts
<1>3. cmd' \in CmdTypes /\ cmd'.request = cmd.request /\ cmd'.at = "reset"
  BY <1>1 DEF CancelInstalled, CmdTypes, CmdFacts
<1>4. reached' = reached /\ Building' /\ Building /\ reached < cmd.request
  BY <1>1, <1>2, <1>3, RequestNumbers DEF reached, Building, CmdFacts, CmdTypes
<1>5. /\ heap' \in [Requests -> Operations] /\ \A r \in Requests : Fits(heap'[r])
      /\ \A r \in Requests : heap'[r] = heap[r] \/ (r = _operation /\ Ended(heap[r], heap'[r]))
      /\ \A r \in Requests : heap'[r].live <=> heap[r].live
      /\ _operation # 0 => ~Running(heap'[_operation])
  <2>1. CASE _operation = 0
    BY <1>2, <2>1 DEF IInv, ReaderInv, ReaderTyped
  <2>2. CASE _operation # 0
    <3>1. _operation \in Requests /\ heap[_operation].live /\ heap[_operation] \in Operations
          /\ Fits(heap[_operation])
      BY <1>1, <2>2 DEF CmdFacts, IInv, ReaderInv, ReaderTyped
    <3>2. heap' = [heap EXCEPT ![_operation] = Cancelled(heap[_operation])]
      BY <1>2, <2>2
    <3>3. Cancelled(heap[_operation]).live
      BY <3>1, FitsCancelled
    <3> QED
      BY <3>1, <3>2, <3>3, EndType
  <2> QED
    BY <2>1, <2>2
<1>6. ReaderTyped' /\ (\A r \in Requests : Fits(heap[r]))'
  BY <1>2, <1>3, <1>5 DEF IInv, ReaderInv, ReaderTyped, CmdTypes, Fits, Running, FramesLeft
<1>7. Installed'
  <2>1. \A r \in Requests : r > reached => Untouched(heap'[r])
    BY <1>1, <1>5 DEF CmdFacts, Ended
  <2> QED
    BY <1>1, <1>2, <1>3, <1>4, <1>5, <2>1 DEF CmdFacts, Installed, Running, Untouched
<1>8. _operation # 0 => ~Running(heap[_operation])
  BY <1>1, <1>2 DEF CmdFacts
<1>9. InIterate' /\ Stream'
  <2>1. reader.request \in Requests \cup {0} /\ _operation \in Nat /\ reached \in Nat
    BY RequestNumbers DEF IInv, ReaderInv, ReaderTyped
  <2>2. reader.at \in {"test", "sent"} => reader.request # 0
    BY DEF IInv, ReaderInv, InIterate
  <2>3. reached <= reached' /\ reached' \in Nat
    BY <1>4, <2>1
  <2> QED
    BY <1>2, <1>5, <1>8, <2>1, <2>2, <2>3, EndKeepsStream
<1> QED
  BY <1>6, <1>7, <1>9 DEF ReaderInv

LEMMA InstallStep ==
    ASSUME IInv, Install
    PROVE  ReaderInv'
<1>1. CmdFacts
  BY CmdKnows
<1>2. /\ UNCHANGED <<reader, ground, sending>> /\ UnderWay' = UnderWay
      /\ cmd.at = "reset" /\ cmd.request \in Requests /\ _operation' = cmd.request
      /\ heap' = IF _operation = 0 THEN heap ELSE [heap EXCEPT ![_operation] = Nothing]
  BY <1>1 DEF Install, CmdAt, telemVars, UnderWay, CmdFacts
<1>3. cmd' \in CmdTypes /\ cmd'.request = cmd.request /\ cmd'.at = "answer"
  BY <1>1 DEF Install, CmdTypes, CmdFacts, Answers
<1>4. reached' = cmd.request /\ reached < cmd.request /\ ~Building' /\ Building
  BY <1>1, <1>2, <1>3, RequestNumbers DEF reached, Building, CmdFacts, CmdTypes
<1>5. /\ heap' \in [Requests -> Operations] /\ \A r \in Requests : Fits(heap'[r])
      /\ \A r \in Requests : heap'[r] = heap[r] \/ (r = _operation /\ Ended(heap[r], heap'[r]))
      /\ \A r \in Requests : heap'[r].live <=> heap[r].live /\ r # _operation
  <2>1. CASE _operation = 0
    BY <1>2, <2>1, ReaderNumbers DEF IInv, ReaderInv, ReaderTyped, Operations
  <2>2. CASE _operation # 0
    <3>1. _operation \in Requests /\ heap[_operation].live
      BY <1>1, <2>2 DEF CmdFacts, IInv, ReaderInv, ReaderTyped
    <3>2. heap' = [heap EXCEPT ![_operation] = Nothing]
      BY <1>2, <2>2
    <3>3. ~Nothing.live
      BY DEF Nothing
    <3>4. /\ heap' \in [Requests -> Operations] /\ \A r \in Requests : Fits(heap'[r])
          /\ \A r \in Requests : heap'[r] = heap[r] \/ (r = _operation /\ Ended(heap[r], heap'[r]))
          /\ heap'[_operation] = Nothing /\ \A r \in Requests : r # _operation => heap'[r] = heap[r]
      BY <3>1, <3>2, EndType
    <3> QED
      BY <3>3, <3>4
  <2> QED
    BY <2>1, <2>2
<1>6. ReaderTyped' /\ (\A r \in Requests : Fits(heap[r]))'
  BY <1>2, <1>3, <1>5 DEF IInv, ReaderInv, ReaderTyped, CmdTypes, Fits, Running, FramesLeft
<1>7. _operation < cmd.request /\ reader.request <= cmd.request
  BY <1>1, <1>4, RequestNumbers DEF CmdFacts
<1>8. Installed'
  <2>1. \A r \in Requests : heap'[r].live <=> r = cmd.request
    BY <1>1, <1>4, <1>5, <1>7, RequestNumbers DEF CmdFacts
  <2>2. ASSUME NEW r \in Requests, r > cmd.request PROVE Untouched(heap'[r])
    <3>1. r > reached
      BY <1>4, <2>2, RequestNumbers, ReaderNumbers
    <3> QED
      BY <1>1, <1>5, <3>1 DEF CmdFacts, Ended
  <2>3. cmd.request <= cmd.request
    BY RequestNumbers
  <2> QED
    BY <1>1, <1>2, <1>3, <1>4, <1>7, <2>1, <2>2, <2>3 DEF CmdFacts, Installed, Running, Untouched
<1>9. _operation # 0 => ~Running(heap[_operation])
  BY <1>1, <1>2 DEF CmdFacts
<1>10. InIterate' /\ Stream'
  <2>1. reader.request \in Requests \cup {0} /\ cmd.request \in Nat /\ reached \in Nat
    BY RequestNumbers DEF IInv, ReaderInv, ReaderTyped
  <2>2. reader.at \in {"test", "sent"} => reader.request # 0
    BY DEF IInv, ReaderInv, InIterate
  <2>3. reached <= reached' /\ reached' \in Nat
    BY <1>4, <2>1
  <2> QED
    BY <1>2, <1>4, <1>5, <1>9, <2>1, <2>2, <2>3, EndKeepsStream
<1> QED
  BY <1>6, <1>8, <1>10 DEF ReaderInv

LEMMA CmdStep ==
    ASSUME IInv, CmdTask
    PROVE  IInv'
<1>1. CASE LoadOperation \/ AskRunning \/ (\E input \in Inputs : Start(input)) \/ CancelInstalled \/ Install
  <2>1. ReaderInv'
    BY <1>1, LoadStep, AskStep, StartStep, CancelInstalledStep, InstallStep
  <2>2. UNCHANGED <<out_queue, seq_no_mutex, sending, writing, buffers, order, mishaps>>
    BY <1>1 DEF LoadOperation, AskRunning, Start, CancelInstalled, Install, telemVars
  <2>3. TelemInv'
    BY <2>2, TelemSame DEF IInv, TelemInv, TelemTyped
  <2> QED
    BY <2>1, <2>3 DEF IInv
<1>2. CASE StartFails \/ Answer \/ NextCommand
  BY <1>2, StartFailsStep, AnswerStep, NextCommandStep DEF IInv
<1> QED
  BY <1>1, <1>2 DEF CmdTask

---------------------------------------------------------------------------
(* The steps of the storage task.                                          *)

ReaderTypes == [at : {"look", "test", "sent", "after", "cancel", "delete", "crashed"},
                request : Requests \cup {0}, pos : Nat, error : BOOLEAN]

(* What the storage task may do to the installed operation besides reading *)
(* from it: nothing, cancel it, delete it.                                 *)
Leaves ==
    \/ heap' = heap /\ _operation' = _operation
    \/ /\ _operation # 0 /\ _operation' = _operation
       /\ heap' = [heap EXCEPT ![_operation] = Cancelled(heap[_operation])]
    \/ /\ _operation' = 0
       /\ heap' = IF _operation = 0 THEN heap ELSE [heap EXCEPT ![_operation] = Nothing]

LEMMA ReaderLeaves ==
    ASSUME IInv, cmd' = cmd, ground' = ground, sending' = sending, UnderWay' = UnderWay,
           reader.at # "sent", reader' \in ReaderTypes, reader'.at \notin {"test", "sent"},
           reader'.request \in {0, reader.request, _operation'}, Leaves
    PROVE  ReaderInv'
<1>1. CmdFacts
  BY CmdKnows
<1>2. reached' = reached /\ Building' = Building /\ _operation' \in {0, _operation}
  BY DEF reached, Building, Leaves
<1>3. /\ heap' \in [Requests -> Operations] /\ \A r \in Requests : Fits(heap'[r])
      /\ \A r \in Requests : heap'[r] = heap[r] \/ (r = _operation /\ Ended(heap[r], heap'[r]))
      /\ \A r \in Requests : heap'[r].live <=> heap[r].live /\ (_operation' = 0 => r # _operation)
      /\ _operation' # 0 => heap' = heap \/ ~Running(heap'[_operation])
  <2>1. heap \in [Requests -> Operations] /\ \A r \in Requests : Fits(heap[r]) /\ heap[r].live \in BOOLEAN
    BY DEF IInv, ReaderInv, ReaderTyped, Operations
  <2>2. CASE heap' = heap /\ _operation' = _operation
    BY <1>1, <2>1, <2>2, ReaderNumbers DEF CmdFacts
  <2>3. CASE _operation = 0 /\ heap' = heap
    BY <1>2, <2>1, <2>3, ReaderNumbers
  <2>4. ASSUME _operation # 0 PROVE _operation \in Requests /\ heap[_operation].live
    BY <1>1, <2>4 DEF CmdFacts, IInv, ReaderInv, ReaderTyped
  <2>5. CASE /\ _operation # 0 /\ _operation' = _operation
             /\ heap' = [heap EXCEPT ![_operation] = Cancelled(heap[_operation])]
    <3>1. Cancelled(heap[_operation]).live
      BY <2>1, <2>4, <2>5, FitsCancelled
    <3> QED
      BY <2>4, <2>5, <3>1, EndType
  <2>6. CASE _operation # 0 /\ _operation' = 0 /\ heap' = [heap EXCEPT ![_operation] = Nothing]
    <3>1. ~Nothing.live
      BY DEF Nothing
    <3> QED
      BY <2>4, <2>6, <3>1, EndType
  <2> QED
    BY <2>2, <2>3, <2>5, <2>6 DEF Leaves
<1>4. ReaderTyped' /\ (\A r \in Requests : Fits(heap[r]))'
  BY <1>2, <1>3 DEF IInv, ReaderInv, ReaderTyped, ReaderTypes, Fits, Running, FramesLeft
<1>5. _operation' <= reached /\ reader'.request <= reached
  BY <1>1, <1>2, RequestNumbers DEF CmdFacts
<1>6. Installed'
  <2>1. \A r \in Requests : heap'[r].live <=> r = _operation' \/ (Building /\ r = cmd.request)
    <3>1. Building => cmd.request # _operation
      BY <1>1, RequestNumbers DEF Building, reached, CmdFacts
    <3> QED
      BY <1>1, <1>2, <1>3, <3>1, ReaderNumbers DEF CmdFacts
  <2>2. \A r \in Requests : r > reached => Untouched(heap'[r])
    BY <1>1, <1>3 DEF CmdFacts, Ended
  <2> QED
    BY <1>1, <1>2, <1>3, <1>5, <2>1, <2>2 DEF CmdFacts, Installed, Building, Running, Untouched
<1>7. InIterate' /\ Stream'
  <2>1. reader'.request \in Requests \cup {0} /\ _operation' \in Nat /\ reached \in Nat
    BY <1>2, RequestNumbers DEF ReaderTypes
  <2>2. reached <= reached' /\ reached' \in Nat
    BY <1>2, <2>1
  <2> QED
    BY <1>2, <1>3, <2>1, <2>2, EndKeepsStream
<1> QED
  BY <1>4, <1>6, <1>7 DEF ReaderInv

(* An object that the storage task can still use is the installed one. *)
LEMMA CurrentInstalled ==
    ASSUME IInv, reader.request # 0
    PROVE  /\ reader.request \in Requests /\ current \in Operations /\ Fits(current)
           /\ current.live => reader.request = _operation
           /\ current.kind # "none" => current.live
           /\ Running(current) => current.live
<1>1. CmdFacts
  BY CmdKnows
<1>2. reader.request \in Requests /\ current \in Operations /\ Fits(current)
  BY DEF current, IInv, ReaderInv, ReaderTyped
<1>3. Building => reader.request # cmd.request
  BY <1>1, RequestNumbers DEF CmdFacts, Building, reached
<1>4. current.live => reader.request = _operation
  BY <1>1, <1>2, <1>3 DEF CmdFacts, current
<1>5. current.kind # "none" => current.live
  BY <1>2 DEF Fits, Nothing
<1>6. Running(current) => current.live
  BY <1>2, FitsNothing DEF Fits
<1> QED
  BY <1>2, <1>4, <1>5, <1>6

LEMMA LeaveSteps ==
    ASSUME IInv, EnterFails \/ LeaveLoop \/ ReadPieceFails \/ ReadEntryFails \/ After \/ Cancel \/ Delete
    PROVE  ReaderInv'
<1>1. reader \in ReaderTypes /\ _operation \in Requests \cup {0}
  BY DEF IInv, ReaderInv, ReaderTyped, ReaderTypes
<1>2. /\ cmd' = cmd /\ ground' = ground /\ sending' = sending /\ UnderWay' = UnderWay
      /\ reader.at # "sent"
  BY DEF EnterFails, LeaveLoop, ReadPieceFails, ReadEntryFails, After, Cancel, Delete, ReaderAt,
     telemVars, UnderWay
<1>3. CASE EnterFails
  <2>1. reader' = [reader EXCEPT !.at = "cancel", !.request = _operation, !.error = TRUE]
    BY <1>3 DEF EnterFails
  <2>2. reader' \in ReaderTypes /\ reader'.at = "cancel" /\ reader'.request = _operation
    BY <1>1, <2>1 DEF ReaderTypes
  <2>3. Leaves /\ _operation' = _operation
    BY <1>3 DEF EnterFails, Leaves
  <2> QED
    BY <1>2, <2>2, <2>3, ReaderLeaves
<1>4. CASE LeaveLoop \/ ReadEntryFails
  <2>1. /\ reader' \in ReaderTypes /\ reader'.at \in {"after", "cancel"}
        /\ reader'.request = reader.request
    BY <1>1, <1>4 DEF LeaveLoop, ReadEntryFails, ReaderGoes, ReaderFails, ReaderTypes
  <2>2. Leaves
    BY <1>4 DEF LeaveLoop, ReadEntryFails, Leaves
  <2> QED
    BY <1>2, <2>1, <2>2, ReaderLeaves
<1>5. CASE ReadPieceFails
  <2>1. reader' \in ReaderTypes /\ reader'.at = "after" /\ reader'.request = reader.request
    BY <1>1, <1>5 DEF ReadPieceFails, ReaderGoes, ReaderTypes
  <2>2. reader.request # 0 /\ Running(current)
    BY <1>5 DEF ReadPieceFails, ReaderAt, IInv, ReaderInv, InIterate
  <2>3. reader.request = _operation
    BY <2>2, CurrentInstalled
  <2>4. heap' = [heap EXCEPT ![_operation] = Cancelled(heap[_operation])] \/ heap' = heap
    BY <1>5, <2>2, <2>3 DEF ReadPieceFails, Current, current, IInv, ReaderInv, ReaderTyped
  <2>5. Leaves
    BY <1>5, <2>2, <2>3, <2>4 DEF ReadPieceFails, Leaves
  <2> QED
    BY <1>2, <2>1, <2>5, ReaderLeaves
<1>6. CASE After
  <2>1. /\ reader' \in ReaderTypes /\ reader'.at \in {"look", "cancel"}
        /\ reader'.request = reader.request
    BY <1>1, <1>6 DEF After, ReaderGoes, ReaderTypes
  <2>2. Leaves
    BY <1>6 DEF After, Leaves
  <2> QED
    BY <1>2, <2>1, <2>2, ReaderLeaves
<1>7. CASE Cancel
  <2>1. reader' \in ReaderTypes /\ reader'.at = "delete" /\ reader'.request = reader.request
    BY <1>1, <1>7 DEF Cancel, ReaderGoes, ReaderTypes
  <2>2. Leaves
    BY <1>7 DEF Cancel, Leaves
  <2> QED
    BY <1>2, <2>1, <2>2, ReaderLeaves
<1>8. CASE Delete
  <2>1. /\ reader' \in ReaderTypes /\ reader'.at \in {"cancel", "look"}
        /\ reader'.request \in {0, reader.request}
    <3>1. CASE reader.error
      BY <1>1, <1>8, <3>1 DEF Delete, ReaderTypes
    <3>2. CASE ~reader.error
      BY <1>8, <3>2 DEF Delete, ReaderTypes
    <3> QED
      BY <3>1, <3>2
  <2>2. Leaves
    BY <1>8 DEF Delete, Leaves
  <2> QED
    BY <1>2, <2>1, <2>2, ReaderLeaves
<1> QED
  BY <1>3, <1>4, <1>5, <1>6, <1>7, <1>8

LEMMA EnterStep ==
    ASSUME IInv, Enter
    PROVE  ReaderInv'
<1>1. CmdFacts
  BY CmdKnows
<1>2. /\ UNCHANGED <<heap, _operation, cmd, ground, sending>> /\ UnderWay' = UnderWay
      /\ reader.at = "look" /\ _operation \in Requests /\ heap[_operation] \in Operations
  BY DEF Enter, ReaderAt, telemVars, UnderWay, IInv, ReaderInv, ReaderTyped
<1>3. /\ reader' \in ReaderTypes /\ reader'.at = "test" /\ reader'.request = _operation
      /\ heap[_operation].kind = "file" => reader'.pos = heap[_operation].pos
  <2> DEFINE p == IF heap[_operation].kind = "file" THEN heap[_operation].pos ELSE 0
  <2>1. p \in Nat
    BY <1>2 DEF Operations
  <2>2. reader' = [reader EXCEPT !.at = "test", !.request = _operation, !.pos = p]
    BY DEF Enter
  <2> HIDE DEF p
  <2>3. reader \in ReaderTypes
    BY DEF IInv, ReaderInv, ReaderTyped, ReaderTypes
  <2>4. reader' \in ReaderTypes /\ reader'.at = "test" /\ reader'.request = _operation /\ reader'.pos = p
    BY <1>2, <2>1, <2>2, <2>3 DEF ReaderTypes
  <2> QED
    BY <2>4 DEF p
<1>4. ReaderTyped' /\ (\A r \in Requests : Fits(heap[r]))'
  BY <1>2, <1>3 DEF IInv, ReaderInv, ReaderTyped, ReaderTypes, Fits, Running, FramesLeft
<1>5. Installed'
  BY <1>1, <1>2, <1>3 DEF CmdFacts, Installed, Running, Untouched, reached, Building
<1>6. ASSUME NEW r \in Requests, r > _operation PROVE Untouched(heap[r])
  <2>1. CASE heap[r].live
    <3>1. Building /\ r = cmd.request
      BY <1>1, <1>6, <2>1, RequestNumbers DEF CmdFacts
    <3>2. r > reached
      BY <3>1, RequestNumbers DEF Building, reached
    <3> QED
      BY <1>1, <3>2 DEF CmdFacts
  <2>2. CASE ~heap[r].live
    BY <2>2, FitsNothing DEF IInv, ReaderInv, Fits
  <2> QED
    BY <2>1, <2>2
<1>7. InIterate'
  <2>1. _operation <= _operation /\ _operation # 0
    BY <1>2, RequestNumbers, ReaderNumbers
  <2>2. sending[Storage].at = "idle"
    BY <1>2 DEF IInv, ReaderInv, InIterate
  <2> QED
    BY <1>2, <1>3, <1>6, <2>1, <2>2 DEF InIterate, Untouched, current
<1>8. Stream'
  <2>1. latest' = latest /\ Chained'
    BY <1>2, LatestSame DEF IInv, ReaderInv, Stream
  <2>2. sent.at = "idle" /\ sent' = sent
    BY <1>2 DEF sent, IInv, ReaderInv, InIterate
  <2>3. ~Accepted /\ ~Accepted' /\ ~Offered'
    BY <2>2 DEF Accepted, Offered
  <2>4. \A r \in Requests : Position(r)' = Position(r)
    BY <1>2, <1>3 DEF Position
  <2>5. latest.request <= reached /\ latest.request <= _operation
    BY <1>2, ReaderNumbers DEF IInv, ReaderInv, Stream
  <2>6. \A r \in Requests : Running(heap[r]) => GoesOn(latest, heap[r].kind, r, heap[r].index, Position(r))
    BY <2>3 DEF IInv, ReaderInv, Stream
  <2> QED
    BY <1>2, <1>3, <2>1, <2>3, <2>4, <2>5, <2>6 DEF Stream, Running, GoesOn, reached
<1> QED
  BY <1>4, <1>5, <1>7, <1>8 DEF ReaderInv

(* A frame is offered to the telemetry, which takes it or refuses it at    *)
(* once.                                                                   *)
LEMMA OfferStep ==
    ASSUME IInv, reader.at = "test", reader' = [reader EXCEPT !.at = "sent"],
           UNCHANGED <<cmd, ground, _operation>>,
           Running(current), NEW f \in Frames, SendTo(Storage, f, TRUE),
           f.request = reader.request, f.kind = current.kind, f.index = current.index,
           f.kind # "dir" => f.from = current.pos /\ f.to = current.pos + Piece,
           NEW next \in Operations, Fits(next), next.live, next.kind = current.kind,
           next.index = current.index, next.left = current.left,
           next.kind # "dir" => ~next.ended,
           next.kind = "raw" => next.pos = current.pos,
           next.kind = "file" => next.pos = current.pos + Piece,
           heap' = [heap EXCEPT ![reader.request] = next]
    PROVE  TelemInv' /\ ReaderInv'
<1> DEFINE r0 == reader.request
<1>1. CmdFacts
  BY CmdKnows
<1>2. /\ r0 \in Requests /\ r0 # 0 /\ current \in Operations /\ Fits(current)
      /\ current.live /\ r0 = _operation /\ current.kind # "none"
  BY CurrentInstalled DEF IInv, ReaderInv, InIterate, Fits
<1>3. /\ reader \in ReaderTypes /\ heap \in [Requests -> Operations]
      /\ heap[r0] = current
  BY DEF IInv, ReaderInv, ReaderTyped, ReaderTypes, current
<1>4. /\ reader' \in ReaderTypes /\ reader'.at = "sent" /\ reader'.request = r0 /\ reader'.pos = reader.pos
  BY <1>3 DEF ReaderTypes
<1>5. /\ TelemInv' /\ UnderWay' = UnderWay
      /\ \A u \in Tasks \ {Storage} : sending'[u] = sending[u]
      /\ \/ sending'[Storage].at = "lock" /\ sending'[Storage].body = f
         \/ sending'[Storage].at = "done" /\ ~sending'[Storage].sent
  BY TelemSendTo, TelemNumbers DEF Contents, IInv
<1>6. heap'[r0] = next /\ \A r \in Requests : r # r0 => heap'[r] = heap[r]
  BY <1>2, <1>3
<1>7. heap' \in [Requests -> Operations] /\ \A r \in Requests : Fits(heap'[r])
  BY <1>2, <1>3, <1>6 DEF IInv, ReaderInv
<1>8. current' = next
  BY <1>4, <1>6 DEF current
<1>9. ReaderTyped' /\ (\A r \in Requests : Fits(heap[r]))'
  BY <1>4, <1>7 DEF IInv, ReaderInv, ReaderTyped, ReaderTypes, Fits, Running, FramesLeft
<1>10. r0 <= reached
  BY <1>1 DEF CmdFacts
<1>11. Installed'
  <2>1. \A r \in Requests : heap'[r].live <=> heap[r].live
    BY <1>2, <1>3, <1>6
  <2>2. \A r \in Requests : r > reached => Untouched(heap'[r])
    BY <1>1, <1>6, <1>10, RequestNumbers DEF CmdFacts
  <2>3. cmd.at \notin {"build", "install", "reset"}
    BY <1>1, <1>2, <1>3, ReaderNumbers DEF CmdFacts
  <2>4. sending'[Cmd] = sending[Cmd]
    BY <1>5, TelemNumbers
  <2> QED
    BY <1>1, <1>4, <2>1, <2>2, <2>3, <2>4 DEF CmdFacts, Installed, Building, reached, Untouched
<1>12. next.kind # "dir" => Running(next)
  BY DEF Running
<1>13. InIterate'
  <2>1. ASSUME NEW r \in Requests, r > r0 PROVE Untouched(heap'[r])
    <3>1. r # r0
      BY <2>1, RequestNumbers
    <3> QED
      BY <1>6, <2>1, <3>1 DEF IInv, ReaderInv, InIterate
  <2>2. current.kind = "file" => current.pos = reader.pos
    BY DEF IInv, ReaderInv, InIterate
  <2>3. r0 <= _operation
    BY <1>2, RequestNumbers
  <2>4. next.kind = "file" => next.pos = reader.pos + LesserOf(next.left, FragmentLength)
    BY <2>2 DEF Piece
  <2>5. next.kind = "dir" /\ ~next.ended => Running(next)
    BY DEF Running
  <2>6. sending'[Storage].at # "idle"
    BY <1>5
  <2> QED
    BY <1>2, <1>4, <1>8, <1>12, <2>1, <2>3, <2>4, <2>5, <2>6 DEF InIterate, Untouched, Running, current, Piece
<1>14. Stream'
  <2>1. latest' = latest /\ Chained'
    BY <1>5, LatestSame DEF IInv, ReaderInv, Stream
  <2>2. sent.at = "idle" /\ ~Accepted
    BY DEF sent, Accepted, IInv, ReaderInv, InIterate
  <2>3. ~Accepted' /\ (Offered' => sent'.body = f)
    BY <1>5 DEF Accepted, Offered, sent
  <2>4. /\ Position(r0) = current.pos
        /\ f.kind # "dir" => Position(r0)' = current.pos
    <3>1. Position(r0) = current.pos
      BY <1>3 DEF Position
    <3>2. Position(r0)' = IF next.kind = "file" THEN reader.pos ELSE next.pos
      BY <1>4, <1>6 DEF Position
    <3>3. current.kind = "file" => current.pos = reader.pos
      BY DEF IInv, ReaderInv, InIterate
    <3>4. current.kind \in {"raw", "file", "dir"}
      BY <1>2 DEF Operations, Kinds
    <3> QED
      BY <3>1, <3>2, <3>3, <3>4
  <2>5. \A r \in Requests : r # r0 => Position(r)' = Position(r)
    BY <1>4, <1>6 DEF Position
  <2>6. GoesOn(latest, current.kind, r0, current.index, current.pos)
    BY <1>2, <1>3, <2>2, <2>4 DEF IInv, ReaderInv, Stream
  <2>7. Goes(latest, f)
    BY <2>6 DEF Goes, GoesOn
  <2>8. Carries(f)'
    <3>1. f.kind # "dir" => f.to = Position(r0)' + LesserOf(next.left, FragmentLength)
      BY <2>4 DEF Piece
    <3> QED
      BY <1>4, <1>8, <3>1 DEF Carries, Position, Piece
  <2>9. ASSUME NEW r \in Requests, Running(heap'[r])
        PROVE  GoesOn(latest, heap'[r].kind, r, heap'[r].index, Position(r)')
    <3>1. CASE r = r0
      BY <1>6, <2>4, <2>6, <3>1 DEF GoesOn
    <3>2. CASE r # r0
      BY <1>6, <2>2, <2>5, <2>9, <3>2 DEF IInv, ReaderInv, Stream
    <3> QED
      BY <3>1, <3>2
  <2>10. /\ latest.request <= reached /\ latest.request <= r0
         /\ _operation # 0 => latest.request <= _operation
    BY DEF IInv, ReaderInv, Stream
  <2>11. Offered' => Carries(sent.body)' /\ Goes(latest, sent'.body)
    BY <1>4, <1>8, <2>3, <2>7, <2>8 DEF Carries, current
  <2> QED
    BY <1>4, <2>1, <2>3, <2>9, <2>10, <2>11 DEF Stream, Goes, GoesOn, Running, reached
<1> QED
  BY <1>5, <1>9, <1>11, <1>13, <1>14 DEF ReaderInv

LEMMA ReadSteps ==
    ASSUME IInv, ReadPiece \/ ReadEntry \/ ReadEnd
    PROVE  TelemInv' /\ ReaderInv'
<1> DEFINE op == current
           r0 == reader.request
<1>1. /\ reader.at = "test" /\ reader' = [reader EXCEPT !.at = "sent"]
      /\ UNCHANGED <<cmd, ground, _operation>> /\ Running(op)
  BY DEF ReadPiece, ReadEntry, ReadEnd, ReaderAt, ReaderGoes
<1>2. /\ r0 \in Requests /\ op \in Operations /\ Fits(op) /\ op.live /\ ~op.ended
  BY <1>1, CurrentInstalled DEF IInv, ReaderInv, InIterate, Running
<1>3. /\ op.kind \in Kinds /\ op.left \in Nat /\ op.pos \in Nat /\ op.index \in Nat /\ op.max \in Nat
      /\ r0 \in Nat /\ op.max < IndexWord
  BY <1>2, RequestNumbers DEF Operations, Fits
<1>4. heap = [heap EXCEPT ![r0] = op]
  BY <1>2 DEF current, IInv, ReaderInv, ReaderTyped
<1>5. CASE ReadPiece
  <2> DEFINE n == Piece
             f == Frame(op, n, op.max)
             next == IF op.kind = "file" THEN [op EXCEPT !.pos = op.pos + n] ELSE op
  <2>1. /\ op.kind \in {"raw", "file"} /\ SendTo(Storage, f, TRUE)
        /\ heap' = [heap EXCEPT ![r0] = next]
    BY <1>5 DEF ReadPiece, Current
  <2>2. n \in Nat /\ op.index < IndexWord /\ (op.index = op.max <=> op.left = n)
    BY <1>1, <1>2, <2>1, FitsPiece DEF Piece
  <2>3. op.index % IndexWord = op.index
    BY <1>3, <2>2, ReaderNumbers
  <2>4. f = [kind |-> op.kind, request |-> r0, index |-> op.index, max |-> op.max,
             from |-> op.pos, to |-> op.pos + n, last |-> op.left = n]
    BY <2>3 DEF Frame
  <2> HIDE DEF f, n
  <2>5. f \in AnyFrames
    BY <1>3, <2>2, <2>4 DEF AnyFrames
  <2>6. f.index = f.max <=> f.last
    BY <2>2, <2>4
  <2>7. f \in Frames
    BY <2>5, <2>6 DEF Frames, Marked
  <2>8. /\ f.request = r0 /\ f.kind = op.kind /\ f.index = op.index
        /\ f.from = op.pos /\ f.to = op.pos + n
    BY <2>4
  <2>9. /\ next \in Operations /\ Fits(next) /\ next.live /\ next.kind = op.kind
        /\ next.index = op.index /\ next.left = op.left /\ ~next.ended
        /\ next.kind = "raw" => next.pos = op.pos
        /\ next.kind = "file" => next.pos = op.pos + n
    <3>1. CASE op.kind = "file"
      <4>1. op.pos + n \in Nat /\ next = [op EXCEPT !.pos = op.pos + n]
        BY <1>3, <2>2, <3>1
      <4> HIDE DEF next
      <4> QED
        BY <1>2, <3>1, <4>1, FitsMoved
    <3>2. CASE op.kind # "file"
      BY <1>2, <3>2
    <3> QED
      BY <3>1, <3>2
  <2> HIDE DEF next
  <2> QED
    BY <1>1, <2>1, <2>7, <2>8, <2>9, OfferStep DEF n
<1>6. CASE ReadEntry
  <2> DEFINE f == Frame(op, 1, op.max)
             next == [op EXCEPT !.pos = op.pos + 1]
  <2>1. op.kind = "dir" /\ SendTo(Storage, f, TRUE) /\ heap' = [heap EXCEPT ![r0] = next]
    BY <1>6 DEF ReadEntry, Current
  <2>2. op.index < IndexWord /\ (op.index = op.max <=> op.left = 1)
    BY <1>1, <1>2, <2>1, FitsEntry
  <2>3. op.index % IndexWord = op.index
    BY <1>3, <2>2, ReaderNumbers
  <2>4. f = [kind |-> op.kind, request |-> r0, index |-> op.index, max |-> op.max,
             from |-> op.pos, to |-> op.pos + 1, last |-> op.left = 1]
    BY <2>3 DEF Frame
  <2> HIDE DEF f
  <2>5. f \in Frames
    <3>1. f \in AnyFrames
      BY <1>3, <2>4 DEF AnyFrames
    <3>2. f.index = f.max <=> f.last
      BY <2>2, <2>4
    <3> QED
      BY <3>1, <3>2 DEF Frames, Marked
  <2>6. op.pos + 1 \in Nat
    BY <1>3
  <2>7. /\ next \in Operations /\ Fits(next) /\ next.live /\ next.kind = op.kind
        /\ next.index = op.index /\ next.left = op.left
    <3> DEFINE moved == next
    <3>1. moved = [op EXCEPT !.pos = op.pos + 1]
      OBVIOUS
    <3> HIDE DEF moved
    <3>2. /\ moved \in Operations /\ Fits(moved) /\ moved.live /\ moved.kind = op.kind
          /\ moved.index = op.index /\ moved.left = op.left
      BY <1>2, <2>6, <3>1, FitsMoved
    <3> QED
      BY <3>2 DEF moved
  <2> HIDE DEF next
  <2> QED
    BY <1>1, <2>1, <2>4, <2>5, <2>7, OfferStep
<1>7. CASE ReadEnd
  <2> DEFINE m == op.index % IndexWord
             f == [Frame(op, 0, m) EXCEPT !.last = TRUE]
             next == [op EXCEPT !.ended = TRUE, !.max = m]
  <2>1. op.kind = "dir" /\ SendTo(Storage, f, TRUE) /\ heap' = [heap EXCEPT ![r0] = next]
    BY <1>7 DEF ReadEnd, Current
  <2>2. op.index < IndexWord
    BY <1>1, <1>2, <2>1, FitsEntry
  <2>3. m = op.index
    BY <1>3, <2>2, ReaderNumbers
  <2> HIDE DEF f
  <2>4. /\ f \in AnyFrames /\ f.kind = op.kind /\ f.request = r0 /\ f.index = op.index
        /\ f.max = op.index /\ f.last
    <3> DEFINE g == Frame(op, 0, m)
    <3>1. g = [kind |-> op.kind, request |-> r0, index |-> op.index, max |-> op.index,
               from |-> op.pos, to |-> op.pos + 0, last |-> op.left = 0]
      BY <2>3 DEF Frame
    <3> HIDE DEF g
    <3>2. g \in AnyFrames /\ g.kind = op.kind /\ g.request = r0 /\ g.index = op.index
          /\ g.max = op.index
      BY <1>3, <3>1 DEF AnyFrames
    <3>3. f = [g EXCEPT !.last = TRUE]
      BY DEF f, g
    <3> QED
      BY <3>2, <3>3 DEF AnyFrames
  <2>5. next = [op EXCEPT !.ended = TRUE, !.max = op.index]
    BY <2>3
  <2> HIDE DEF next, m
  <2>6. f \in Frames
    BY <2>4 DEF Frames, Marked
  <2>7. /\ next \in Operations /\ next.live /\ next.kind = op.kind /\ next.ended
        /\ next.index = op.index /\ next.left = op.left /\ next.max = op.index
    BY <1>2, <1>3, <2>5 DEF Operations
  <2>8. Fits(next)
    BY <2>1, <2>2, <2>7 DEF Fits, Running
  <2> QED
    BY <1>1, <2>1, <2>4, <2>6, <2>7, <2>8, OfferStep
<1> QED
  BY <1>5, <1>6, <1>7

(* sendTelemetry() returned, and the operation goes on with what it has    *)
(* made of that.                                                           *)
LEMMA ReturnStep ==
    ASSUME IInv, reader.at = "sent", reader' \in ReaderTypes, reader'.request = reader.request,
           reader'.at \in {"test", "after", "crashed"}, UNCHANGED <<cmd, ground, _operation>>,
           Return(Storage), UNCHANGED <<out_queue, seq_no_mutex, writing, buffers, order>>,
           mishaps' \in 0 .. MaxMishaps,
           NEW next \in Operations, Fits(next), next.live <=> current.live,
           Running(next) => Running(current),
           Running(next) => GoesOn(latest, next.kind, reader.request, next.index, next.pos),
           reader'.at = "test" /\ next.kind = "file" => next.pos = reader'.pos,
           heap' = [heap EXCEPT ![reader.request] = next]
    PROVE  TelemInv' /\ ReaderInv'
<1> DEFINE r0 == reader.request
<1>1. CmdFacts
  BY CmdKnows
<1>2. r0 \in Requests /\ r0 # 0 /\ heap \in [Requests -> Operations] /\ heap[r0] = current
  BY CurrentInstalled DEF IInv, ReaderInv, InIterate, ReaderTyped, current
<1>3. /\ TelemInv' /\ UnderWay' = UnderWay
      /\ \A u \in Tasks \ {Storage} : sending'[u] = sending[u]
      /\ sending'[Storage].at = "idle"
  BY TelemReturn, TelemNumbers DEF IInv
<1>4. heap'[r0] = next /\ \A r \in Requests : r # r0 => heap'[r] = heap[r]
  BY <1>2
<1>5. heap' \in [Requests -> Operations] /\ \A r \in Requests : Fits(heap'[r])
  BY <1>2, <1>4 DEF IInv, ReaderInv
<1>6. current' = next
  BY <1>4 DEF current
<1>7. ReaderTyped' /\ (\A r \in Requests : Fits(heap[r]))'
  BY <1>5 DEF IInv, ReaderInv, ReaderTyped, ReaderTypes, Fits, Running, FramesLeft
<1>8. r0 <= reached
  BY <1>1 DEF CmdFacts
<1>9. Installed'
  <2>1. \A r \in Requests : heap'[r].live <=> heap[r].live
    BY <1>2, <1>4
  <2>2. \A r \in Requests : r > reached => Untouched(heap'[r])
    BY <1>1, <1>4, <1>8, RequestNumbers DEF CmdFacts
  <2>3. ASSUME cmd.at \in {"build", "install", "reset"}, _operation # 0
        PROVE  ~Running(heap'[_operation])
    BY <1>1, <1>2, <1>4, <2>3 DEF CmdFacts, IInv, ReaderInv, ReaderTyped
  <2>4. sending'[Cmd] = sending[Cmd]
    BY <1>3, TelemNumbers
  <2> QED
    BY <1>1, <2>1, <2>2, <2>3, <2>4 DEF CmdFacts, Installed, Building, reached, Untouched, Running
<1>10. InIterate'
  <2>1. ASSUME NEW r \in Requests, r > r0 PROVE Untouched(heap'[r])
    <3>1. r # r0
      BY <2>1, RequestNumbers
    <3> QED
      BY <1>4, <2>1, <3>1 DEF IInv, ReaderInv, InIterate
  <2>2. _operation # 0 => r0 <= _operation
    BY DEF IInv, ReaderInv, InIterate
  <2> QED
    BY <1>2, <1>3, <1>6, <2>1, <2>2 DEF InIterate, Untouched, current
<1>11. Stream'
  <2>1. latest' = latest /\ Chained'
    BY <1>3, LatestSame DEF IInv, ReaderInv, Stream
  <2>2. ~Accepted' /\ ~Offered'
    BY <1>3 DEF Accepted, Offered, sent
  <2>3. ASSUME NEW r \in Requests, Running(heap'[r])
        PROVE  GoesOn(latest, heap'[r].kind, r, heap'[r].index, Position(r)')
    <3>1. Position(r)' = heap'[r].pos
      BY DEF Position
    <3>2. CASE r = r0
      BY <1>4, <2>3, <3>1, <3>2
    <3>3. CASE r # r0
      <4>1. Position(r) = heap[r].pos
        BY <3>3 DEF Position
      <4> QED
        BY <1>4, <2>3, <3>1, <3>3, <4>1 DEF IInv, ReaderInv, Stream
    <3> QED
      BY <3>2, <3>3
  <2>4. /\ latest.request <= reached /\ latest.request <= r0
        /\ _operation # 0 => latest.request <= _operation
    BY DEF IInv, ReaderInv, Stream
  <2> QED
    BY <2>1, <2>2, <2>3, <2>4 DEF Stream, GoesOn, Running, reached
<1> QED
  BY <1>3, <1>7, <1>9, <1>10, <1>11 DEF ReaderInv

LEMMA SentSteps ==
    ASSUME IInv, PieceSent \/ EntrySent
    PROVE  TelemInv' /\ ReaderInv'
<1> DEFINE op == current
           r0 == reader.request
<1>1. /\ reader.at = "sent" /\ UNCHANGED <<cmd, ground, _operation>>
      /\ Return(Storage) /\ UNCHANGED <<out_queue, seq_no_mutex, writing, buffers, order, mishaps>>
      /\ sent.at = "done" /\ sent.sent
  BY DEF PieceSent, EntrySent, Returned, ReaderAt, Return, sent
<1>2. Accepted /\ Carries(latest) /\ latest \in Frames
  BY <1>1, RequestNumbers DEF Accepted, IInv, ReaderInv, Stream
<1>3. mishaps' \in 0 .. MaxMishaps
  BY <1>1 DEF IInv, TelemInv, TelemTyped
<1>4. r0 \in Requests /\ op \in Operations /\ Fits(op) /\ (op.kind # "none" => op.live)
  BY <1>1, CurrentInstalled DEF IInv, ReaderInv, InIterate
<1>5. /\ op.kind \in Kinds /\ op.left \in Nat /\ op.pos \in Nat /\ op.index \in Nat
      /\ reader \in ReaderTypes /\ reader.pos \in Nat
  BY <1>4 DEF Operations, ReaderTypes, IInv, ReaderInv, ReaderTyped
<1>6. CASE PieceSent
  <2> DEFINE n == LesserOf(op.left, FragmentLength)
             p == IF op.kind = "raw" THEN op.pos + n ELSE op.pos
             rp == IF op.kind = "file" THEN reader.pos + n ELSE reader.pos
             next == Advanced(op, p)
  <2>1. /\ op.kind \in {"raw", "file"} /\ Running(op) /\ op.live
        /\ op.kind = "file" => op.pos = reader.pos + n
    BY <1>1, <1>4, <1>6 DEF PieceSent, IInv, ReaderInv, InIterate, Piece
  <2>2. heap' = [heap EXCEPT ![r0] = next]
    BY <1>6 DEF PieceSent, Current, Piece, Advanced, Length
  <2>3. reader' = [reader EXCEPT !.at = "test", !.pos = rp]
    BY <1>6 DEF PieceSent, Piece
  <2>4. n \in Nat
    BY <1>4, <2>1, FitsPiece
  <2>5. /\ latest.request = r0 /\ latest.kind = op.kind /\ latest.index = op.index
        /\ latest.to = Position(r0) + n
    BY <1>2, <2>1 DEF Carries, Piece
  <2>6. Position(r0) = IF op.kind = "file" THEN reader.pos ELSE op.pos
    BY <1>1 DEF Position, current
  <2>7. p = latest.to /\ p \in Nat /\ rp \in Nat /\ (op.kind = "file" => p = rp)
    BY <1>5, <2>1, <2>4, <2>5, <2>6
  <2> HIDE DEF n, p, rp
  <2>8. /\ next \in Operations /\ Fits(next) /\ next.live = op.live /\ next.kind = op.kind
        /\ next.index = op.index + 1 /\ next.pos = p
    BY <1>4, <2>1, <2>7, FitsPieceSent
  <2> HIDE DEF next
  <2>9. /\ reader' \in ReaderTypes /\ reader'.at = "test" /\ reader'.request = r0
        /\ reader'.pos = rp
    BY <1>5, <2>3, <2>7 DEF ReaderTypes
  <2>10. GoesOn(latest, next.kind, r0, next.index, next.pos)
    BY <2>5, <2>7, <2>8 DEF GoesOn
  <2> QED
    BY <1>1, <1>3, <2>1, <2>2, <2>7, <2>8, <2>9, <2>10, ReturnStep
<1>7. CASE EntrySent
  <2> DEFINE next == IF op.ended THEN Cancelled(op)
                     ELSE [op EXCEPT !.left = op.left - 1, !.index = op.index + 1]
  <2>1. /\ op.kind = "dir" /\ op.live /\ (~op.ended => Running(op))
    BY <1>1, <1>4, <1>7 DEF EntrySent, IInv, ReaderInv, InIterate
  <2>2. heap' = [heap EXCEPT ![r0] = next] /\ reader' = [reader EXCEPT !.at = "test"]
    BY <1>7 DEF EntrySent, Current, ReaderGoes
  <2>3. reader' \in ReaderTypes /\ reader'.at = "test" /\ reader'.request = r0
    BY <1>5, <2>2 DEF ReaderTypes
  <2>4. latest.request = r0 /\ latest.kind = op.kind /\ latest.index = op.index
    BY <1>2, <2>1 DEF Carries
  <2>5. /\ next \in Operations /\ Fits(next) /\ next.live = op.live /\ next.kind = op.kind
        /\ Running(next) => ~op.ended /\ next.index = op.index + 1
    <3>1. CASE op.ended
      BY <1>4, <2>1, <3>1, FitsCancelled
    <3>2. CASE ~op.ended
      <4>1. next = [op EXCEPT !.left = op.left - 1, !.index = op.index + 1] /\ op.left > 0
        BY <2>1, <3>2 DEF Running
      <4> HIDE DEF next
      <4> QED
        BY <1>4, <2>1, <3>2, <4>1, FitsEntrySent
    <3> QED
      BY <3>1, <3>2
  <2> HIDE DEF next
  <2>6. Running(next) => GoesOn(latest, next.kind, r0, next.index, next.pos)
    BY <2>1, <2>4, <2>5 DEF GoesOn
  <2> QED
    BY <1>1, <1>3, <2>1, <2>2, <2>3, <2>5, <2>6, ReturnStep
<1> QED
  BY <1>6, <1>7

(* The frame was refused, or its operation was deleted meanwhile.          *)
LEMMA RefusedSteps ==
    ASSUME IInv, SentFromDeleted \/ Refused
    PROVE  TelemInv' /\ ReaderInv'
<1> DEFINE op == current
           r0 == reader.request
<1>1. /\ reader.at = "sent" /\ UNCHANGED <<cmd, ground, _operation>>
      /\ Return(Storage) /\ UNCHANGED <<out_queue, seq_no_mutex, writing, buffers, order>>
  BY DEF SentFromDeleted, Refused, Returned, ReaderAt
<1>2. mishaps' \in 0 .. MaxMishaps
  <2>1. mishaps' = mishaps \/ Mishap
    BY DEF SentFromDeleted, Refused
  <2> QED
    BY <2>1, MishapType DEF IInv, TelemInv, TelemTyped
<1>3. /\ r0 \in Requests /\ op \in Operations /\ Fits(op) /\ (op.kind # "none" => op.live)
      /\ Running(op) => op.live
  BY <1>1, CurrentInstalled DEF IInv, ReaderInv, InIterate
<1>4. /\ reader \in ReaderTypes /\ reader.pos \in Nat /\ heap = [heap EXCEPT ![r0] = op]
  BY <1>3 DEF ReaderTypes, IInv, ReaderInv, ReaderTyped, current
<1>5. ReaderGoes("after") \/ ReaderGoes("crashed")
  BY DEF SentFromDeleted, Refused
<1>6. /\ reader' \in ReaderTypes /\ reader'.at \in {"after", "crashed"} /\ reader'.request = r0
  BY <1>4, <1>5 DEF ReaderGoes, ReaderTypes
<1>7. CASE SentFromDeleted
  <2>1. heap' = [heap EXCEPT ![r0] = op] /\ ~Running(op)
    BY <1>3, <1>4, <1>7 DEF SentFromDeleted
  <2> QED
    BY <1>1, <1>2, <1>3, <1>6, <2>1, ReturnStep
<1>8. CASE Refused
  <2>1. op.live /\ ~Accepted
    BY <1>8 DEF Refused, Returned, Accepted, sent
  <2>2. Running(op) => GoesOn(latest, op.kind, r0, op.index, Position(r0))
    BY <1>3, <2>1 DEF IInv, ReaderInv, Stream, current
  <2>3. Position(r0) = IF op.kind = "file" THEN reader.pos ELSE op.pos
    BY <1>1 DEF Position, current
  <2>4. CASE op.kind = "file" /\ heap' = [heap EXCEPT ![r0] = [op EXCEPT !.pos = reader.pos]]
    <3> DEFINE next == [op EXCEPT !.pos = reader.pos]
    <3>1. next = [op EXCEPT !.pos = reader.pos]
      OBVIOUS
    <3>2. heap' = [heap EXCEPT ![r0] = next]
      BY <2>4
    <3> HIDE DEF next
    <3>3. /\ next \in Operations /\ Fits(next) /\ Running(next) = Running(op)
          /\ next.live /\ next.kind = op.kind /\ next.pos = reader.pos /\ next.index = op.index
      BY <1>3, <1>4, <2>1, <3>1, FitsMoved
    <3>4. Running(next) => GoesOn(latest, next.kind, r0, next.index, next.pos)
      BY <2>2, <2>3, <2>4, <3>3
    <3> QED
      BY <1>1, <1>2, <1>6, <2>1, <3>2, <3>3, <3>4, ReturnStep
  <2>5. CASE op.kind # "file" /\ heap' = [heap EXCEPT ![r0] = op]
    BY <1>1, <1>2, <1>3, <1>6, <2>2, <2>3, <2>5, ReturnStep
  <2>6. CASE op.kind = "file" /\ heap' = [heap EXCEPT ![r0] = Cancelled(op)]
    BY <1>1, <1>2, <1>3, <1>6, <2>1, <2>6, FitsCancelled, ReturnStep
  <2>7. \/ heap' = [heap EXCEPT ![r0] = IF op.kind = "file" THEN [op EXCEPT !.pos = reader.pos] ELSE op]
        \/ op.kind = "file" /\ heap' = [heap EXCEPT ![r0] = Cancelled(op)]
    BY <1>8 DEF Refused, Current
  <2> QED
    BY <2>4, <2>5, <2>6, <2>7
<1> QED
  BY <1>7, <1>8

LEMMA StorageStep ==
    ASSUME IInv, StorageTask
    PROVE  IInv'
<1>1. CASE \/ Enter \/ EnterFails \/ LeaveLoop \/ ReadPieceFails \/ ReadEntryFails
           \/ After \/ Cancel \/ Delete
  <2>1. ReaderInv'
    BY <1>1, EnterStep, LeaveSteps
  <2>2. UNCHANGED <<out_queue, seq_no_mutex, sending, writing, buffers, order>>
    BY <1>1 DEF Enter, EnterFails, LeaveLoop, ReadPieceFails, ReadEntryFails, After, Cancel, Delete, telemVars
  <2>3. mishaps' = mishaps \/ Mishap
    BY <1>1 DEF Enter, EnterFails, LeaveLoop, ReadPieceFails, ReadEntryFails, After, Cancel, Delete, telemVars
  <2>4. mishaps' \in 0 .. MaxMishaps
    BY <2>3, MishapType DEF IInv, TelemInv, TelemTyped
  <2>5. TelemInv'
    BY <2>2, <2>4, TelemSame DEF IInv, TelemInv, TelemTyped
  <2> QED
    BY <2>1, <2>5 DEF IInv
<1>2. CASE \/ ReadPiece \/ ReadEntry \/ ReadEnd
           \/ PieceSent \/ EntrySent \/ SentFromDeleted \/ Refused
  BY <1>2, ReadSteps, SentSteps, RefusedSteps DEF IInv
<1> QED
  BY <1>1, <1>2 DEF StorageTask

---------------------------------------------------------------------------
(* The messages on their way, whoever sent them.                           *)

LEMMA MessageMoves ==
    ASSUME IInv, UNCHANGED <<heap, _operation, reader, cmd>>, ground' \in Frames,
           latest' = latest, Chained',
           sending'[Cmd].at = "idle" <=> sending[Cmd].at = "idle",
           sending'[Storage].at = "idle" <=> sending[Storage].at = "idle",
           Accepted' <=> Accepted,
           Offered' => Offered /\ sent'.body = sent.body
    PROVE  ReaderInv'
<1>1. ReaderTyped' /\ (\A r \in Requests : Fits(heap[r]))'
  BY DEF IInv, ReaderInv, ReaderTyped, Fits, Running, FramesLeft
<1>2. Installed'
  BY DEF IInv, ReaderInv, Installed, Building, reached, Untouched, Running
<1>3. InIterate'
  BY DEF IInv, ReaderInv, InIterate, Untouched, Running, current, Piece
<1>4. reached' = reached /\ \A r \in Requests \cup {0} : Position(r)' = Position(r)
  BY DEF reached, Position
<1>5. \A f : Carries(f)' <=> Carries(f)
  BY DEF Carries, current, Position, Piece
<1>6. Stream'
  <2>1. Accepted' => Carries(latest)'
    BY <1>5 DEF IInv, ReaderInv, Stream, Carries
  <2>2. Offered' => Carries(sent.body)' /\ Goes(latest, sent'.body)
    BY <1>5 DEF IInv, ReaderInv, Stream, Carries
  <2> QED
    BY <1>4, <2>1, <2>2 DEF IInv, ReaderInv, Stream, Goes, GoesOn, Running
<1> QED
  BY <1>1, <1>2, <1>3, <1>6 DEF ReaderInv

(* The next frame of an operation whose frame was accepted is not known    *)
(* before sendTelemetry() returns; no later request has sent any.          *)
LEMMA FrameAccepted ==
    ASSUME IInv, Enqueue(Storage), UNCHANGED readVars
    PROVE  TelemInv' /\ ReaderInv'
<1> DEFINE f == sent.body
           r0 == reader.request
<1>1. /\ TelemInv' /\ sending'[Storage].at = "done" /\ sending'[Storage].sent
      /\ \A u \in Tasks \ {Storage} : sending'[u] = sending[u]
  BY TelemEnqueue, TelemNumbers DEF IInv
<1>2. /\ sent.at = "enqueue" /\ Offered /\ Carries(f) /\ Goes(latest, f) /\ f \in Frames
  BY DEF Enqueue, sent, Offered, IInv, ReaderInv, Stream, TelemInv, TelemTyped
<1>3. latest' = f /\ Chained'
  BY <1>2, LatestEnqueue, TelemNumbers DEF readVars, sent, IInv, ReaderInv, Stream
<1>4. reader.at = "sent" /\ r0 \in Requests
  BY <1>2 DEF sent, IInv, ReaderInv, InIterate, ReaderTyped
<1>5. UNCHANGED <<heap, _operation, reader, cmd, ground>>
  BY DEF readVars
<1>6. sending'[Cmd] = sending[Cmd] /\ sent.at # "idle"
  BY <1>1, <1>2, TelemNumbers
<1>7. ReaderTyped' /\ (\A r \in Requests : Fits(heap[r]))'
  BY <1>5 DEF IInv, ReaderInv, ReaderTyped, Fits, Running, FramesLeft
<1>8. Installed'
  BY <1>5, <1>6 DEF IInv, ReaderInv, Installed, Building, reached, Untouched, Running
<1>9. InIterate'
  BY <1>1, <1>4, <1>5 DEF IInv, ReaderInv, InIterate, Untouched, Running, current, Piece
<1>10. Stream'
  <2>1. f.request = r0
    BY <1>2 DEF Carries
  <2>2. Accepted' /\ ~Offered'
    BY <1>1 DEF Accepted, Offered, sent
  <2>3. Carries(latest)'
    BY <1>2, <1>3, <1>5 DEF Carries, current, Position, Piece
  <2>4. reached' = reached /\ \A r \in Requests \cup {0} : Position(r)' = Position(r)
    BY <1>5 DEF reached, Position
  <2>5. r0 <= reached /\ (_operation # 0 => r0 <= _operation) /\ r0 <= r0
    BY RequestNumbers DEF IInv, ReaderInv, Installed, InIterate
  <2>6. ASSUME NEW r \in Requests, Running(heap[r]), r # r0
        PROVE  GoesOn(f, heap[r].kind, r, heap[r].index, Position(r))
    <3>1. GoesOn(latest, heap[r].kind, r, heap[r].index, Position(r))
      BY <2>6 DEF IInv, ReaderInv, Stream
    <3>2. r > r0 /\ Untouched(heap[r])
      <4>1. CASE r > r0
        BY <1>4, <4>1 DEF IInv, ReaderInv, InIterate
      <4>2. CASE ~(r > r0)
        <5>1. latest.request <= r /\ latest.request <= r0
          BY <1>4, <3>1, RequestNumbers, ReaderNumbers DEF GoesOn, IInv, ReaderInv, Stream
        <5>2. heap[r].live /\ heap[r] \in Operations
          BY <2>6, FitsNothing DEF IInv, ReaderInv, ReaderTyped, Fits
        <5>3. r = _operation \/ (Building /\ r = cmd.request)
          BY <5>2 DEF IInv, ReaderInv, Installed
        <5>4. r # _operation
          <6>1. _operation # 0 => r0 <= _operation
            BY <2>5
          <6>2. r \in Nat /\ r # 0 /\ r0 \in Nat
            BY <1>4, ReaderNumbers
          <6> QED
            BY <2>6, <4>2, <6>1, <6>2
        <5>5. r > reached
          BY <5>3, <5>4, RequestNumbers DEF Building, reached
        <5> QED
          BY <2>5, <4>2, <5>5, RequestNumbers, ReaderNumbers
      <4> QED
        BY <4>1, <4>2
    <3>3. Position(r) = heap[r].pos
      BY <2>6 DEF Position
    <3> QED
      BY <1>4, <2>1, <3>2, <3>3, ReaderNumbers DEF GoesOn, Untouched
  <2>7. \A r \in Requests :
           Running(heap[r])' /\ ~(Accepted' /\ r = reader'.request) =>
              GoesOn(latest', heap'[r].kind, r, heap'[r].index, Position(r)')
    BY <1>3, <1>5, <2>2, <2>4, <2>6 DEF Running
  <2> QED
    BY <1>3, <1>5, <2>1, <2>2, <2>3, <2>4, <2>5, <2>7 DEF Stream
<1> QED
  BY <1>1, <1>7, <1>8, <1>9, <1>10 DEF ReaderInv

LEMMA SendsStep ==
    ASSUME IInv, NEW t \in Tasks, Sends(t)
    PROVE  IInv'
<1>1. TelemInv /\ UNCHANGED <<heap, _operation, reader, cmd, ground>> /\ ground' \in Frames
  BY DEF Sends, readVars, IInv, ReaderInv, ReaderTyped
<1>2. CASE DrawNumber(t)
  <2>1. /\ TelemInv' /\ UnderWay' = UnderWay /\ sending[t].at = "lock"
        /\ sending'[t].at = "enqueue" /\ sending'[t].body = sending[t].body
        /\ \A u \in Tasks \ {t} : sending'[u] = sending[u]
    BY <1>1, <1>2, TelemDrawNumber DEF DrawNumber
  <2>2. latest' = latest /\ Chained'
    BY <1>1, <2>1, LatestSame DEF IInv, ReaderInv, Stream
  <2>3. /\ sending'[Cmd].at = "idle" <=> sending[Cmd].at = "idle"
        /\ sending'[Storage].at = "idle" <=> sending[Storage].at = "idle"
        /\ Accepted' <=> Accepted
        /\ Offered' => Offered /\ sent'.body = sent.body
    BY <2>1, TelemNumbers DEF Accepted, Offered, sent
  <2> QED
    BY <1>1, <2>1, <2>2, <2>3, MessageMoves DEF IInv
<1>3. CASE Enqueue(t) /\ t = Storage
  BY <1>3, FrameAccepted DEF IInv, Sends
<1>4. CASE Enqueue(t) /\ t # Storage
  <2>1. /\ TelemInv' /\ sending[t].at = "enqueue" /\ sending'[t].at = "done"
        /\ \A u \in Tasks \ {t} : sending'[u] = sending[u]
    BY <1>1, <1>4, TelemEnqueue DEF Enqueue
  <2>2. latest' = latest /\ Chained'
    BY <1>1, <1>4, LatestEnqueue DEF IInv, ReaderInv, Stream
  <2>3. /\ sending'[Cmd].at = "idle" <=> sending[Cmd].at = "idle"
        /\ sending'[Storage] = sending[Storage]
    BY <1>4, <2>1, TelemNumbers
  <2>4. (Accepted' <=> Accepted) /\ (Offered' <=> Offered) /\ sent' = sent
    BY <2>3 DEF Accepted, Offered, sent
  <2> QED
    BY <1>1, <2>1, <2>2, <2>3, <2>4, MessageMoves DEF IInv
<1>5. CASE TimeOut(t) \/ FreeBuffer(t)
  <2>1. /\ TelemInv' /\ UnderWay' = UnderWay /\ sending[t].at \in {"enqueue", "free"}
        /\ sending'[t].at = "free" \/ (sending'[t].at = "done" /\ ~sending'[t].sent)
        /\ \A u \in Tasks \ {t} : sending'[u] = sending[u]
    BY <1>1, <1>5, TelemTimeOut, TelemFreeBuffer DEF TimeOut, FreeBuffer
  <2>2. latest' = latest /\ Chained'
    BY <1>1, <2>1, LatestSame DEF IInv, ReaderInv, Stream
  <2>3. /\ sending'[Cmd].at = "idle" <=> sending[Cmd].at = "idle"
        /\ sending'[Storage].at = "idle" <=> sending[Storage].at = "idle"
        /\ Accepted' <=> Accepted
        /\ Offered' => Offered /\ sent'.body = sent.body
    BY <2>1, TelemNumbers DEF Accepted, Offered, sent
  <2> QED
    BY <1>1, <2>1, <2>2, <2>3, MessageMoves DEF IInv
<1> QED
  BY <1>2, <1>3, <1>4, <1>5 DEF Sends, InSendTo

LEMMA OtherStep ==
    ASSUME IInv, Other
    PROVE  IInv'
<1>1. PICK t \in Tasks \ {Storage, Cmd} :
         \/ SendTo(t, "status", FALSE)
         \/ Return(t) /\ UNCHANGED <<out_queue, seq_no_mutex, writing, buffers, order, mishaps>>
  BY DEF Other
<1>2. /\ TelemInv /\ UNCHANGED <<heap, _operation, reader, cmd, ground>> /\ ground' \in Frames
      /\ mishaps \in 0 .. MaxMishaps
  BY DEF Other, readVars, IInv, ReaderInv, ReaderTyped, TelemInv, TelemTyped
<1>3. /\ TelemInv' /\ UnderWay' = UnderWay
      /\ \A u \in Tasks \ {t} : sending'[u] = sending[u]
  <2>1. CASE SendTo(t, "status", FALSE)
    BY <1>1, <1>2, <2>1, TelemSendTo DEF Contents, Texts
  <2>2. CASE Return(t) /\ UNCHANGED <<out_queue, seq_no_mutex, writing, buffers, order, mishaps>>
    BY <1>1, <1>2, <2>2, TelemReturn
  <2> QED
    BY <1>1, <2>1, <2>2
<1>4. latest' = latest /\ Chained'
  BY <1>2, <1>3, LatestSame DEF IInv, ReaderInv, Stream
<1>5. sending'[Cmd] = sending[Cmd] /\ sending'[Storage] = sending[Storage]
  BY <1>1, <1>3, TelemNumbers
<1>6. (Accepted' <=> Accepted) /\ (Offered' <=> Offered) /\ sent' = sent
  BY <1>5 DEF Accepted, Offered, sent
<1> QED
  BY <1>2, <1>3, <1>4, <1>5, <1>6, MessageMoves DEF IInv

LEMMA TransmitStep ==
    ASSUME IInv, Transmit
    PROVE  IInv' /\ (ground' = ground \/ Goes(ground, ground'))
<1>1. CASE Receive /\ UNCHANGED readVars
  <2>1. TelemInv' /\ UnderWay' = UnderWay /\ sending' = sending
    BY <1>1, TelemReceive DEF IInv
  <2>2. UNCHANGED <<heap, _operation, reader, cmd, ground>> /\ ground' \in Frames
    BY <1>1 DEF readVars, IInv, ReaderInv, ReaderTyped
  <2>3. latest' = latest /\ Chained'
    BY <2>1, <2>2, LatestSame DEF IInv, ReaderInv, Stream
  <2>4. (Accepted' <=> Accepted) /\ (Offered' <=> Offered) /\ sent' = sent
    BY <2>1 DEF Accepted, Offered, sent
  <2> QED
    BY <2>1, <2>2, <2>3, <2>4, MessageMoves DEF IInv
<1>2. CASE WriteToUart
  <2>1. TelemInv' /\ sending' = sending
    BY <1>2, TelemWrite DEF IInv, WriteToUart
  <2>2. UNCHANGED <<heap, _operation, reader, cmd>>
    BY <1>2 DEF WriteToUart
  <2>3. latest' = latest /\ Chained' /\ ground' \in Frames /\ (ground' = ground \/ Goes(ground, ground'))
    BY <1>2, LatestWrite DEF IInv, ReaderInv, Stream, ReaderTyped
  <2>4. (Accepted' <=> Accepted) /\ (Offered' <=> Offered) /\ sent' = sent
    BY <2>1 DEF Accepted, Offered, sent
  <2> QED
    BY <2>1, <2>2, <2>3, <2>4, MessageMoves DEF IInv
<1> QED
  BY <1>1, <1>2 DEF Transmit

---------------------------------------------------------------------------
(* The theorems.                                                           *)

LEMMA InitHolds == Init => IInv
<1> SUFFICES ASSUME Init PROVE IInv
  OBVIOUS
<1>1. UnderWay = <<>> /\ Len(UnderWay) = 0
  BY DEF Init, TelemInit, UnderWay
<1>2. /\ sending = [t \in Tasks |-> [at |-> "idle", body |-> NoMessage, sent |-> FALSE]]
      /\ sending[Storage].at = "idle" /\ sending[Cmd].at = "idle"
      /\ \A t \in Tasks : sending[t].at = "idle"
  BY TelemNumbers DEF Init, TelemInit
<1>3. TelemTyped
  <2>1. sending \in [Tasks -> [at : Places, body : Contents, sent : BOOLEAN]]
    BY <1>2 DEF Places, Contents
  <2> QED
    BY <1>2, <2>1, TelemNumbers DEF Init, TelemInit, TelemTyped
<1>4. MutexHeld
  BY <1>1, <1>2, TelemNumbers DEF Init, TelemInit, MutexHeld
<1>5. BuffersAccounted
  <2>1. Busy = {}
    BY <1>2 DEF Busy
  <2>2. Cardinality(Busy) = 0
    BY <2>1, FS_EmptySet
  <2>3. buffers = 0
    BY DEF Init, TelemInit
  <2>4. buffers = Len(UnderWay) + Cardinality(Busy)
    BY <1>1, <2>2, <2>3
  <2> QED
    BY <2>4 DEF BuffersAccounted, Busy
<1>6. ground = NoFrame /\ ground \in Frames /\ ground.request = 0
  BY DEF Init, NoFrame, Frames, AnyFrames, Kinds, Marked
<1>7. /\ heap \in [Requests -> Operations]
      /\ \A r \in Requests : /\ heap[r] = Nothing /\ Fits(heap[r]) /\ Untouched(heap[r])
                             /\ ~Running(heap[r]) /\ ~heap[r].live
  BY FitsNothing DEF Init, Nothing
<1>8. ReaderTyped
  BY <1>6, <1>7 DEF Init, ReaderTyped, Answers
<1>9. reached = 0 /\ ~Building
  BY DEF Init, reached, Building
<1>10. Installed
  BY <1>2, <1>7, <1>9, ReaderNumbers DEF Init, Installed
<1>11. InIterate
  BY <1>2 DEF Init, InIterate
<1>12. Stream
  <2>1. latest = ground /\ Chained
    BY <1>1 DEF latest, Chained, FrameBefore
  <2>2. ~Accepted /\ ~Offered
    BY <1>2 DEF Accepted, Offered, sent
  <2> QED
    BY <1>6, <1>7, <1>9, <2>1, <2>2 DEF Stream, Init
<1> QED
  BY <1>3, <1>4, <1>5, <1>7, <1>8, <1>10, <1>11, <1>12 DEF IInv, TelemInv, ReaderInv

LEMMA StepHolds == IInv /\ [Next]_vars => IInv'
<1> SUFFICES ASSUME IInv, [Next]_vars PROVE IInv'
  OBVIOUS
<1>1. CASE Next
  <2>1. CASE CmdTask
    BY <2>1, CmdStep
  <2>2. CASE StorageTask
    BY <2>2, StorageStep
  <2>3. CASE Transmit
    BY <2>3, TransmitStep
  <2>4. CASE Other
    BY <2>4, OtherStep
  <2>5. CASE \E t \in Tasks : Sends(t)
    BY <2>5, SendsStep
  <2> QED
    BY <1>1, <2>1, <2>2, <2>3, <2>4, <2>5 DEF Next
<1>2. CASE UNCHANGED vars
  <2>1. UNCHANGED <<out_queue, seq_no_mutex, sending, writing, buffers, order, mishaps>>
    BY <1>2 DEF vars, telemVars
  <2>2. UNCHANGED <<heap, _operation, reader, cmd, ground>> /\ ground' \in Frames
    BY <1>2 DEF vars, readVars, IInv, ReaderInv, ReaderTyped
  <2>3. TelemInv' /\ UnderWay' = UnderWay
    BY <2>1, TelemSame DEF IInv, TelemInv, TelemTyped
  <2>4. latest' = latest /\ Chained'
    BY <2>2, <2>3, LatestSame DEF IInv, ReaderInv, Stream
  <2>5. (Accepted' <=> Accepted) /\ (Offered' <=> Offered) /\ sent' = sent
    BY <2>1 DEF Accepted, Offered, sent
  <2> QED
    BY <2>1, <2>2, <2>3, <2>4, <2>5, MessageMoves DEF IInv
<1> QED
  BY <1>1, <1>2

LEMMA IInvHolds == Spec => []IInv
BY InitHolds, StepHolds, PTL DEF Spec

(* Whatever tasks send, however many of them, and whatever the queue       *)
(* refuses: messages are written in the order in which they drew their     *)
(* sequence numbers, and every buffer is with its sender or in the queue   *)
(* and is freed once.                                                      *)
THEOREM TelemetryCorrect == Spec => []TelemetryRight
<1>1. IInv => TelemetryRight
  <2> SUFFICES ASSUME IInv PROVE WrittenInOrder
    BY DEF IInv, TelemInv, TelemetryRight
  <2>1. /\ UnderWay \in Seq(Messages) /\ Len(UnderWay) \in Nat
    BY UnderWayType DEF IInv, TelemInv
  <2>2. /\ Len(order) = Len(UnderWay) + (IF seq_no_mutex = NoTask THEN 0 ELSE 1)
        /\ \A i \in 1 .. Len(UnderWay) : UnderWay[i].from = order[i]
    BY DEF IInv, TelemInv, MutexHeld
  <2>3. DOMAIN UnderWay = 1 .. Len(UnderWay)
    BY <2>1
  <2> QED
    BY <2>1, <2>2, <2>3 DEF WrittenInOrder
<1> QED
  BY <1>1, IInvHolds, PTL

(* An operation that has something to send is not replaced: a download     *)
(* that is sending is left alone by every other task.                      *)
LEMMA DownloadInstalled ==
    ASSUME IInv, SendingDownload
    PROVE  /\ _operation = reader.request /\ reader.request \in Requests
           /\ Running(current) /\ reader.request <= reached
<1>1. /\ heap \in [Requests -> Operations] /\ reader.request \in Requests \cup {0}
      /\ reader.request # 0 /\ reader.request <= reached
  BY DEF IInv, ReaderInv, ReaderTyped, Installed, InIterate, SendingDownload
<1>2. Running(current)
  BY DEF IInv, ReaderInv, InIterate, SendingDownload
<1>3. current.live
  BY <1>1, <1>2, FitsNothing DEF IInv, ReaderInv, Fits, current
<1>4. Building /\ reader.request = cmd.request => FALSE
  BY <1>1, RequestNumbers DEF reached, Building
<1> QED
  BY <1>1, <1>2, <1>3, <1>4 DEF IInv, ReaderInv, Installed, current

LEMMA DownloadKept ==
    ASSUME IInv, [Next]_vars
    PROVE  [SendingDownload /\ reader' = reader => current' = current /\ _operation' = _operation]_vars
<1> SUFFICES ASSUME Next, SendingDownload, reader' = reader
             PROVE  current' = current /\ _operation' = _operation
  OBVIOUS
<1>1. ~StorageTask
  <2>1. reader.at = "sent" /\ reader'.at = "sent" /\ reader \in ReaderTypes
    BY DEF SendingDownload, IInv, ReaderInv, ReaderTyped, ReaderTypes
  <2>2. /\ ~Enter /\ ~EnterFails /\ ~LeaveLoop /\ ~ReadPiece /\ ~ReadPieceFails /\ ~ReadEntry
        /\ ~ReadEnd /\ ~ReadEntryFails /\ ~After /\ ~Cancel /\ ~Delete
    BY <2>1 DEF Enter, EnterFails, LeaveLoop, ReadPiece, ReadPieceFails, ReadEntry, ReadEnd,
       ReadEntryFails, After, Cancel, Delete, ReaderAt
  <2>3. /\ PieceSent => reader'.at = "test"
        /\ EntrySent => reader'.at = "test"
        /\ SentFromDeleted => reader'.at \in {"after", "crashed"}
        /\ Refused => reader'.at = "after"
    BY <2>1 DEF PieceSent, EntrySent, SentFromDeleted, Refused, ReaderGoes, ReaderTypes
  <2> QED
    BY <2>1, <2>2, <2>3 DEF StorageTask
<1>2. CASE Transmit \/ Other \/ \E t \in Tasks : Sends(t)
  <2>1. heap' = heap /\ _operation' = _operation
    BY <1>2 DEF Transmit, WriteToUart, Other, Sends, readVars
  <2> QED
    BY <2>1 DEF current
<1>3. CASE CmdTask
  <2>1. /\ _operation = reader.request /\ reader.request \in Requests
        /\ Running(current) /\ reader.request <= reached
    BY DownloadInstalled
  <2>2. CmdFacts
    BY CmdKnows
  <2>3. CASE LoadOperation \/ AskRunning \/ StartFails \/ Answer \/ NextCommand
    <3>1. heap' = heap /\ _operation' = _operation
      BY <2>3 DEF LoadOperation, AskRunning, StartFails, Answer, NextCommand
    <3> QED
      BY <3>1 DEF current
  <2>4. ASSUME NEW input \in Inputs, Start(input) PROVE current' = current /\ _operation' = _operation
    <3>1. /\ cmd.at = "build" /\ _operation' = _operation
          /\ heap' = [heap EXCEPT ![cmd.request] = NewOperation(input)]
      BY <2>4 DEF Start, CmdAt
    <3>2. cmd.request # reader.request
      BY <2>1, <3>1, RequestNumbers DEF reached
    <3> QED
      BY <3>1, <3>2 DEF current
  <2>5. ~CancelInstalled /\ ~Install
    <3>1. cmd.at \in {"install", "reset"} => ~Running(heap[_operation])
      BY <2>1, <2>2, ReaderNumbers DEF CmdFacts
    <3>2. cmd.at \notin {"install", "reset"}
      BY <2>1, <3>1 DEF current
    <3> QED
      BY <3>2 DEF CancelInstalled, Install, CmdAt
  <2> QED
    BY <1>3, <2>3, <2>4, <2>5 DEF CmdTask
<1> QED
  BY <1>1, <1>2, <1>3 DEF Next

(* For requests of any number and any size, with any frame length and any  *)
(* width of an index that they fit: what the ground station gets for a     *)
(* request are frames that follow on one another without a hole, the last  *)
(* of them marked as such, no running operation is ever replaced, and no   *)
(* other task touches a download while its frame is sent.                  *)
THEOREM RepliesCorrect == Spec => RepliesRight
<1>1. IInv => TypeOK
  <2> SUFFICES ASSUME IInv PROVE TypeOK
    OBVIOUS
  <2>1. /\ heap \in [Requests -> Operations] /\ _operation \in Requests \cup {0}
        /\ reader \in ReaderTypes /\ cmd \in CmdTypes
        /\ Len(out_queue) <= QueueLimit /\ mishaps \in 0 .. MaxMishaps
    BY DEF IInv, ReaderInv, ReaderTyped, ReaderTypes, CmdTypes, TelemInv, TelemTyped
  <2>2. buffers \in Nat
    <3>1. buffers = Len(UnderWay) + Cardinality(Busy)
      BY DEF IInv, TelemInv, BuffersAccounted, Busy
    <3>2. Len(UnderWay) \in Nat /\ Cardinality(Busy) \in Nat
      BY UnderWayType, BusyFinite DEF IInv, TelemInv
    <3> QED
      BY <3>1, <3>2
  <2>3. _operation # 0 => heap[_operation].live
    BY <2>1 DEF IInv, ReaderInv, Installed
  <2>4. \A r \in Requests : heap[r].left \in Nat /\ heap[r].index \in Nat
    BY <2>1 DEF Operations
  <2>5. reader.at \in {"look", "test", "sent", "after", "cancel", "delete", "crashed"}
    BY <2>1 DEF ReaderTypes
  <2>6. cmd.at \in {"idle", "running", "build", "install", "reset", "answer", "answered"}
    BY <2>1 DEF CmdTypes
  <2> QED
    BY <2>1, <2>2, <2>3, <2>4, <2>5, <2>6 DEF TypeOK
<1>2. IInv => LastIsMarked
  <2> SUFFICES ASSUME IInv, NEW i \in DOMAIN UnderWay, UnderWay[i].from = Storage
               PROVE  UnderWay[i].body.index = UnderWay[i].body.max <=> UnderWay[i].body.last
    BY DEF LastIsMarked
  <2>1. UnderWay \in Seq(Messages)
    BY UnderWayType DEF IInv, TelemInv
  <2>2. UnderWay[i] \in Messages
    BY <2>1
  <2>3. UnderWay[i].body \in Frames
    BY <2>2 DEF Messages
  <2> QED
    BY <2>3 DEF Frames, Marked
<1>3. IInv /\ [Next]_vars => [FollowsOn]_vars
  <2> SUFFICES ASSUME IInv, Next PROVE FollowsOn
    OBVIOUS
  <2>1. CASE Transmit
    <3>1. ground' = ground \/ Goes(ground, ground')
      BY <2>1, TransmitStep
    <3>2. ground.request \in Nat /\ ground'.request \in Nat
      <4>1. ground \in Frames /\ ground' \in Frames
        BY <2>1, TransmitStep DEF IInv, ReaderInv, ReaderTyped
      <4> QED
        BY <4>1 DEF Frames, AnyFrames
    <3> QED
      BY <3>1, <3>2 DEF FollowsOn, Goes, GoesOn
  <2>2. CASE ~Transmit
    <3>1. CmdTask \/ StorageTask \/ Other \/ \E t \in Tasks : Sends(t)
      BY <2>2 DEF Next
    <3>2. CmdTask => ground' = ground
      BY DEF CmdTask, LoadOperation, AskRunning, StartFails, Start, CancelInstalled, Install,
         Answer, NextCommand, CmdAt
    <3>3. StorageTask => ground' = ground
      BY DEF StorageTask, Enter, EnterFails, LeaveLoop, ReadPiece, ReadPieceFails, ReadEntry,
         ReadEnd, ReadEntryFails, PieceSent, EntrySent, SentFromDeleted, Refused, Returned,
         After, Cancel, Delete, ReaderAt
    <3>4. Other \/ (\E t \in Tasks : Sends(t)) => ground' = ground
      BY DEF Other, Sends, readVars
    <3> QED
      BY <3>1, <3>2, <3>3, <3>4 DEF FollowsOn
  <2> QED
    BY <2>1, <2>2
<1>4. IInv /\ [Next]_vars => [cmd' # cmd => \A r \in Requests : Running(heap[r]) => Running(heap'[r])]_vars
  <2> SUFFICES ASSUME IInv, Next, cmd' # cmd, NEW r \in Requests, Running(heap[r])
               PROVE  Running(heap'[r])
    OBVIOUS
  <2>1. CmdTask
    <3>1. StorageTask => cmd' = cmd
      BY DEF StorageTask, Enter, EnterFails, LeaveLoop, ReadPiece, ReadPieceFails, ReadEntry,
         ReadEnd, ReadEntryFails, PieceSent, EntrySent, SentFromDeleted, Refused, Returned,
         After, Cancel, Delete, ReaderAt
    <3>2. Transmit \/ Other \/ (\E t \in Tasks : Sends(t)) => cmd' = cmd
      BY DEF Transmit, WriteToUart, Other, Sends, readVars
    <3> QED
      BY <3>1, <3>2 DEF Next
  <2>2. CmdFacts /\ heap \in [Requests -> Operations]
    BY CmdKnows DEF IInv, ReaderInv, ReaderTyped
  <2>3. CASE LoadOperation \/ AskRunning \/ StartFails \/ Answer \/ NextCommand
    BY <2>3 DEF LoadOperation, AskRunning, StartFails, Answer, NextCommand
  <2>4. ASSUME NEW input \in Inputs, Start(input) PROVE Running(heap'[r])
    <3>1. cmd.at = "build" /\ heap' = [heap EXCEPT ![cmd.request] = NewOperation(input)]
      BY <2>4 DEF Start, CmdAt
    <3>2. cmd.request > reached /\ ~Building
      BY <3>1, RequestNumbers DEF reached, Building
    <3>3. r # cmd.request
      <4>1. heap[r].live
        BY FitsNothing DEF IInv, ReaderInv, Fits
      <4>2. r = _operation
        BY <2>2, <3>2, <4>1 DEF CmdFacts
      <4> QED
        BY <2>2, <3>2, <4>2, RequestNumbers DEF CmdFacts
    <3> QED
      BY <2>2, <3>1, <3>3
  <2>5. CASE CancelInstalled \/ Install
    <3>1. /\ cmd.at \in {"install", "reset"}
          /\ \A q \in Requests : q # _operation => heap'[q] = heap[q]
      BY <2>2, <2>5 DEF CancelInstalled, Install, CmdAt
    <3>2. r # _operation
      BY <2>2, <3>1, ReaderNumbers DEF CmdFacts
    <3> QED
      BY <3>1, <3>2
  <2> QED
    BY <2>1, <2>3, <2>4, <2>5 DEF CmdTask
<1>5. IInv => (SendingDownload => _operation = reader.request)
  BY DownloadInstalled
<1>6. IInv /\ [Next]_vars =>
        [SendingDownload /\ reader' = reader => current' = current /\ _operation' = _operation]_vars
  BY DownloadKept
<1> QED
  BY <1>1, <1>2, <1>3, <1>4, <1>5, <1>6, IInvHolds, PTL
  DEF Spec, RepliesRight, FramesFollowOn, NeverReplaced, DownloadsUndisturbed
=============================================================================

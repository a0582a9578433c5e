--------------------------- MODULE MCStorageReader ---------------------------
(* Values of the constants of StorageReader for model checking. *)
EXTENDS StorageReader

CONSTANTS Telem

AllTasks == {Storage, Cmd, Telem}
TwoRequests == 1 .. 2
(* Nothing; two full frames; two frames of a file that ends in the second; *)
(* a file beyond its end; a listing of the one entry and its end.          *)
SomeInputs ==
    {[kind |-> "raw", length |-> 0], [kind |-> "raw", length |-> 4],
     [kind |-> "file", length |-> 4, rest |-> 3],
     [kind |-> "file", length |-> 1, rest |-> 0], [kind |-> "dir", length |-> 3]}

(* What the ground station gets for a request: frames that follow on one   *)
(* another without a hole, the last one marked as such, from an operation  *)
(* that no later request has replaced and, in a download, nobody disturbs. *)
RepliesRight ==
    [](TypeOK /\ LastIsMarked) /\ FramesFollowOn /\ NeverReplaced /\ DownloadsUndisturbed

(* The telemetry on the way out: messages are written in the order of      *)
(* their numbers, and every buffer is with its sender or in the queue, or  *)
(* is freed once.                                                          *)
TelemetryRight == WrittenInOrder /\ BuffersAccounted
=============================================================================

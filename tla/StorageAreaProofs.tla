------------------------- MODULE StorageAreaProofs -------------------------
(***************************************************************************)
(* Proofs about StorageArea.  The types hold whatever is asked of the area *)
(* and whatever fails.  The flags, LittleFS and the recorder agree in      *)
(* flight: the area is set up once and mounted or not (BootMode "NORMAL"), *)
(* and ground control sends neither MOUNT nor ERASE.  Then the storage     *)
(* task and the EDR task write the flags one after the other, although     *)
(* nothing in the code makes them: FlagWriters below is why.  They agree   *)
(* too when MOUNT and ERASE come from a careful operator, as long as the   *)
(* device fails only to mount and to format: CarefulInv at the end.        *)
(***************************************************************************)
EXTENDS StorageArea, TLAPS

InFlight == BootMode = "NORMAL" /\ Commands \cap {"MOUNT", "ERASE"} = {}

(* The storage task until its store of FLAG_MOUNTED; while it is there the *)
(* EDR task waits for the area and has no reason to write the flags.       *)
Booting == {"setup", "cfgLoad", "cfgStore", "mountChk", "lfsMount", "setLoad", "setStore"}
Booted == {"setEvt", "mountedAtBoot", "done"}

FlagWriters ==
    /\ \A t \in Tasks \ {"edr", "boot"} :
          pc[t] \in {"idle", "stopChk", "recordChk", "recordSend", "simulateSend", "work"}
    /\ pc["boot"] \in Booting \cup Booted
    /\ pc["boot"] \in Booting =>
          /\ pc["edr"] \in {"waitMounted", "mountedEvt"}
          /\ "MOUNTED" \notin flags
          /\ (lfs <=> pc["boot"] \in {"setLoad", "setStore"})
    /\ pc["boot"] = "cfgStore" => tmp["boot"] = flags
    /\ pc["boot"] \in {"cfgLoad", "cfgStore", "lfsMount", "setLoad", "setStore"} => fsPtr
    /\ pc["boot"] = "lfsMount" => "ERRORED" \notin flags

(* Where the EDR task finds the area mounted, and where it finds it        *)
(* unmounted, once the storage task is through.                            *)
EdrMounted == Recording \cup {"account", "lfsUnmount", "clrLoad", "clrStore"}
EdrUnmounted == {"clrEvt", "decide", "remount", "mountChk", "lfsMount", "setLoad", "setStore"}

EdrAgrees ==
    /\ pc["edr"] \in {"waitMounted", "mountedEvt", "waitUnmounted", "unmountedEvt", "unmountChk",
                      "setEvt", "errLoad", "errStore"} \cup EdrMounted \cup EdrUnmounted
    /\ "MOUNTED" \in flags => fsPtr
    /\ pc["edr"] \in EdrMounted => "MOUNTED" \in flags
    /\ pc["edr"] \in EdrUnmounted => "MOUNTED" \notin flags
    /\ pc["edr"] \in {"errLoad", "errStore"} /\ call["edr"] # "unmount" =>
          "MOUNTED" \notin flags
    /\ pc["edr"] \in {"errStore", "setStore", "clrStore"} => tmp["edr"] = flags
    /\ pc["edr"] \in {"lfsMount", "setLoad", "setStore"} => fsPtr
    /\ pc["edr"] = "lfsMount" => "ERRORED" \notin flags
    /\ pc["edr"] \in {"setLoad", "setStore"} => lfs
    /\ pc["edr"] \in {"clrLoad", "clrStore"} => ~lfs
    /\ pc["boot"] \in Booted /\ pc["edr"] \notin {"setLoad", "setStore", "clrLoad", "clrStore"} =>
          (lfs <=> "MOUNTED" \in flags)
    /\ pc["edr"] \in {"unmountChk", "lfsUnmount"} => call["edr"] = "unmount"
    /\ recState # "DISABLED" => pc["edr"] \in Recording \ {"run", "open"}

IInv == TypeOK /\ FlagWriters /\ EdrAgrees /\ NoLostWakeup

---------------------------------------------------------------------------
(* Moving a task to a place of the program keeps pc and reply typed. *)
LEMMA ReplyType ==
    ASSUME TaskTypeOK, NEW t \in Tasks, NEW l \in Places, NEW r \in {"none", "ok", "error"},
           Reply(t, l, r)
    PROVE  pc' \in [Tasks -> Places] /\ reply' \in {"none", "ok", "error"}
<1>1. pc' \in [Tasks -> Places]
  BY DEF TaskTypeOK, Reply
<1>2. reply' \in {"none", "ok", "error"}
  BY DEF TaskTypeOK, Reply
<1> QED
  BY <1>1, <1>2

(* The places each result operator names are places of the program. *)
LEMMA ResultPlaces ==
    ASSUME NEW t \in Tasks
    PROVE  /\ MountOk(t) \in Places /\ MountFailed(t) \in Places
           /\ MarkErroredDone(t) \in Places
           /\ FormatOk(t) \in Places /\ FormatFailed(t) \in Places
           /\ RecordDone(t) \in Places
  BY DEF MountOk, MountFailed, MarkErroredDone, FormatOk, FormatFailed, RecordDone, Places

(* What EnqueueOrDrop and a receive do to the queue. *)
LEMMA EnqueueType ==
    ASSUME RecorderTypeOK, NEW r \in Requests, EnqueueOrDrop(r)
    PROVE  queue' \in Seq(Requests) /\ Len(queue') <= QueueCap /\ dropped' \in 0..MaxDropped
  BY BoundsAssumption DEF RecorderTypeOK, EnqueueOrDrop

LEMMA TailType ==
    ASSUME RecorderTypeOK, queue # <<>>
    PROVE  /\ Tail(queue) \in Seq(Requests) /\ Len(Tail(queue)) <= QueueCap
           /\ Head(queue) \in Requests
  BY BoundsAssumption DEF RecorderTypeOK

---------------------------------------------------------------------------
(* Every step keeps the types, action by action. *)

LEMMA TypeAreaStep ==
    ASSUME AreaTypeOK, TaskTypeOK, NEW t \in Tasks, AreaStep(t)
    PROVE  AreaTypeOK' /\ TaskTypeOK'
<1>1. CASE ClearLoad(t)
  <2>1. AreaTypeOK'
    BY <1>1 DEF ClearLoad, AreaTypeOK, TaskTypeOK, Flags, areaVars
  <2>2. pc' \in [Tasks -> Places] /\ reply' \in {"none", "ok", "error"}
    BY <1>1, ReplyType, ResultPlaces DEF ClearLoad, Goto, Places
  <2>3. tmp' \in [Tasks -> SUBSET Flags] /\ call' \in [Tasks -> Calls]
    BY <1>1 DEF ClearLoad, AreaTypeOK, TaskTypeOK, Calls
  <2> QED
    BY <2>1, <2>2, <2>3 DEF TaskTypeOK
<1>2. CASE ClearStore(t)
  <2>1. AreaTypeOK'
    BY <1>2 DEF ClearStore, AreaTypeOK, TaskTypeOK, Flags, areaVars
  <2>2. pc' \in [Tasks -> Places] /\ reply' \in {"none", "ok", "error"}
    BY <1>2, ReplyType, ResultPlaces DEF ClearStore, Goto, Places
  <2>3. tmp' \in [Tasks -> SUBSET Flags] /\ call' \in [Tasks -> Calls]
    BY <1>2 DEF ClearStore, AreaTypeOK, TaskTypeOK, Calls
  <2> QED
    BY <2>1, <2>2, <2>3 DEF TaskTypeOK
<1>3. CASE MountCheck(t)
  <2>1. AreaTypeOK'
    BY <1>3 DEF MountCheck, AreaTypeOK, TaskTypeOK, Flags, areaVars
  <2>2. pc' \in [Tasks -> Places] /\ reply' \in {"none", "ok", "error"}
    BY <1>3, ReplyType, ResultPlaces DEF MountCheck, Goto, Places
  <2>3. tmp' \in [Tasks -> SUBSET Flags] /\ call' \in [Tasks -> Calls]
    BY <1>3 DEF MountCheck, AreaTypeOK, TaskTypeOK, Calls
  <2> QED
    BY <2>1, <2>2, <2>3 DEF TaskTypeOK
<1>4. CASE LfsMount(t)
  <2>1. AreaTypeOK'
    BY <1>4 DEF LfsMount, AreaTypeOK, TaskTypeOK, Flags, areaVars
  <2>2. pc' \in [Tasks -> Places] /\ reply' \in {"none", "ok", "error"}
    BY <1>4, ReplyType, ResultPlaces DEF LfsMount, Goto, Places
  <2>3. tmp' \in [Tasks -> SUBSET Flags] /\ call' \in [Tasks -> Calls]
    BY <1>4 DEF LfsMount, AreaTypeOK, TaskTypeOK, Calls
  <2> QED
    BY <2>1, <2>2, <2>3 DEF TaskTypeOK
<1>5. CASE SetMountedLoad(t)
  <2>1. AreaTypeOK'
    BY <1>5 DEF SetMountedLoad, AreaTypeOK, TaskTypeOK, Flags, areaVars
  <2>2. pc' \in [Tasks -> Places] /\ reply' \in {"none", "ok", "error"}
    BY <1>5, ReplyType, ResultPlaces DEF SetMountedLoad, Goto, Places
  <2>3. tmp' \in [Tasks -> SUBSET Flags] /\ call' \in [Tasks -> Calls]
    BY <1>5 DEF SetMountedLoad, AreaTypeOK, TaskTypeOK, Calls
  <2> QED
    BY <2>1, <2>2, <2>3 DEF TaskTypeOK
<1>6. CASE SetMountedStore(t)
  <2>1. AreaTypeOK'
    BY <1>6 DEF SetMountedStore, AreaTypeOK, TaskTypeOK, Flags, areaVars
  <2>2. pc' \in [Tasks -> Places] /\ reply' \in {"none", "ok", "error"}
    BY <1>6, ReplyType, ResultPlaces DEF SetMountedStore, Goto, Places
  <2>3. tmp' \in [Tasks -> SUBSET Flags] /\ call' \in [Tasks -> Calls]
    BY <1>6 DEF SetMountedStore, AreaTypeOK, TaskTypeOK, Calls
  <2> QED
    BY <2>1, <2>2, <2>3 DEF TaskTypeOK
<1>7. CASE SignalMounted(t)
  <2>1. AreaTypeOK'
    BY <1>7 DEF SignalMounted, AreaTypeOK, TaskTypeOK, Flags, areaVars
  <2>2. pc' \in [Tasks -> Places] /\ reply' \in {"none", "ok", "error"}
    BY <1>7, ReplyType, ResultPlaces DEF SignalMounted, Goto, Places
  <2>3. tmp' \in [Tasks -> SUBSET Flags] /\ call' \in [Tasks -> Calls]
    BY <1>7 DEF SignalMounted, AreaTypeOK, TaskTypeOK, Calls
  <2> QED
    BY <2>1, <2>2, <2>3 DEF TaskTypeOK
<1>8. CASE MarkErroredLoad(t)
  <2>1. AreaTypeOK'
    BY <1>8 DEF MarkErroredLoad, AreaTypeOK, TaskTypeOK, Flags, areaVars
  <2>2. pc' \in [Tasks -> Places] /\ reply' \in {"none", "ok", "error"}
    BY <1>8, ReplyType, ResultPlaces DEF MarkErroredLoad, Goto, Places
  <2>3. tmp' \in [Tasks -> SUBSET Flags] /\ call' \in [Tasks -> Calls]
    BY <1>8 DEF MarkErroredLoad, AreaTypeOK, TaskTypeOK, Calls
  <2> QED
    BY <2>1, <2>2, <2>3 DEF TaskTypeOK
<1>9. CASE MarkErroredStore(t)
  <2>1. AreaTypeOK'
    BY <1>9 DEF MarkErroredStore, AreaTypeOK, TaskTypeOK, Flags, areaVars
  <2>2. pc' \in [Tasks -> Places] /\ reply' \in {"none", "ok", "error"}
    BY <1>9, ReplyType, ResultPlaces DEF MarkErroredStore, Goto, Places
  <2>3. tmp' \in [Tasks -> SUBSET Flags] /\ call' \in [Tasks -> Calls]
    BY <1>9 DEF MarkErroredStore, AreaTypeOK, TaskTypeOK, Calls
  <2> QED
    BY <2>1, <2>2, <2>3 DEF TaskTypeOK
<1>10. CASE LfsFormat(t)
  <2>1. AreaTypeOK'
    BY <1>10 DEF LfsFormat, AreaTypeOK, TaskTypeOK, Flags, areaVars
  <2>2. pc' \in [Tasks -> Places] /\ reply' \in {"none", "ok", "error"}
    BY <1>10, ReplyType, ResultPlaces DEF LfsFormat, Goto, Places
  <2>3. tmp' \in [Tasks -> SUBSET Flags] /\ call' \in [Tasks -> Calls]
    BY <1>10 DEF LfsFormat, AreaTypeOK, TaskTypeOK, Calls
  <2> QED
    BY <2>1, <2>2, <2>3 DEF TaskTypeOK
<1> QED
  BY <1>1, <1>2, <1>3, <1>4, <1>5, <1>6, <1>7, <1>8, <1>9, <1>10 DEF AreaStep

LEMMA TypeUnmount ==
    ASSUME AreaTypeOK, TaskTypeOK, Unmount \/ Setup \/ EraseCheck
    PROVE  AreaTypeOK' /\ TaskTypeOK'
<1>1. CASE UnmountCheck
  <2>1. AreaTypeOK'
    BY <1>1 DEF UnmountCheck, AreaTypeOK, TaskTypeOK, Flags, areaVars, Tasks
  <2>2. pc' \in [Tasks -> Places] /\ reply' \in {"none", "ok", "error"}
    BY <1>1, ReplyType DEF UnmountCheck, Goto, Places, Tasks
  <2>3. tmp' \in [Tasks -> SUBSET Flags] /\ call' \in [Tasks -> Calls]
    BY <1>1 DEF UnmountCheck, AreaTypeOK, TaskTypeOK, Calls, Tasks
  <2> QED
    BY <2>1, <2>2, <2>3 DEF TaskTypeOK
<1>2. CASE LfsUnmount
  <2>1. AreaTypeOK'
    BY <1>2 DEF LfsUnmount, AreaTypeOK, TaskTypeOK, Flags, areaVars, Tasks
  <2>2. pc' \in [Tasks -> Places] /\ reply' \in {"none", "ok", "error"}
    BY <1>2, ReplyType DEF LfsUnmount, Goto, Places, Tasks
  <2>3. tmp' \in [Tasks -> SUBSET Flags] /\ call' \in [Tasks -> Calls]
    BY <1>2 DEF LfsUnmount, AreaTypeOK, TaskTypeOK, Calls, Tasks
  <2> QED
    BY <2>1, <2>2, <2>3 DEF TaskTypeOK
<1>3. CASE ClearMountedLoad
  <2>1. AreaTypeOK'
    BY <1>3 DEF ClearMountedLoad, AreaTypeOK, TaskTypeOK, Flags, areaVars, Tasks
  <2>2. pc' \in [Tasks -> Places] /\ reply' \in {"none", "ok", "error"}
    BY <1>3, ReplyType DEF ClearMountedLoad, Goto, Places, Tasks
  <2>3. tmp' \in [Tasks -> SUBSET Flags] /\ call' \in [Tasks -> Calls]
    BY <1>3 DEF ClearMountedLoad, AreaTypeOK, TaskTypeOK, Calls, Tasks
  <2> QED
    BY <2>1, <2>2, <2>3 DEF TaskTypeOK
<1>4. CASE ClearMountedStore
  <2>1. AreaTypeOK'
    BY <1>4 DEF ClearMountedStore, AreaTypeOK, TaskTypeOK, Flags, areaVars, Tasks
  <2>2. pc' \in [Tasks -> Places] /\ reply' \in {"none", "ok", "error"}
    BY <1>4, ReplyType DEF ClearMountedStore, Goto, Places, Tasks
  <2>3. tmp' \in [Tasks -> SUBSET Flags] /\ call' \in [Tasks -> Calls]
    BY <1>4 DEF ClearMountedStore, AreaTypeOK, TaskTypeOK, Calls, Tasks
  <2> QED
    BY <2>1, <2>2, <2>3 DEF TaskTypeOK
<1>5. CASE SignalUnmounted
  <2>1. AreaTypeOK'
    BY <1>5 DEF SignalUnmounted, AreaTypeOK, TaskTypeOK, Flags, areaVars, Tasks
  <2>2. pc' \in [Tasks -> Places] /\ reply' \in {"none", "ok", "error"}
    BY <1>5, ReplyType DEF SignalUnmounted, Goto, Places, Tasks
  <2>3. tmp' \in [Tasks -> SUBSET Flags] /\ call' \in [Tasks -> Calls]
    BY <1>5 DEF SignalUnmounted, AreaTypeOK, TaskTypeOK, Calls, Tasks
  <2> QED
    BY <2>1, <2>2, <2>3 DEF TaskTypeOK
<1>6. CASE Configure
  <2>1. AreaTypeOK'
    BY <1>6 DEF Configure, AreaTypeOK, TaskTypeOK, Flags, areaVars, Tasks
  <2>2. pc' \in [Tasks -> Places] /\ reply' \in {"none", "ok", "error"}
    BY <1>6, ReplyType DEF Configure, Goto, Places, Tasks
  <2>3. tmp' \in [Tasks -> SUBSET Flags] /\ call' \in [Tasks -> Calls]
    BY <1>6 DEF Configure, AreaTypeOK, TaskTypeOK, Calls, Tasks
  <2> QED
    BY <2>1, <2>2, <2>3 DEF TaskTypeOK
<1>7. CASE ConfigureLoad
  <2>1. AreaTypeOK'
    BY <1>7 DEF ConfigureLoad, AreaTypeOK, TaskTypeOK, Flags, areaVars, Tasks
  <2>2. pc' \in [Tasks -> Places] /\ reply' \in {"none", "ok", "error"}
    BY <1>7, ReplyType DEF ConfigureLoad, Goto, Places, Tasks
  <2>3. tmp' \in [Tasks -> SUBSET Flags] /\ call' \in [Tasks -> Calls]
    BY <1>7 DEF ConfigureLoad, AreaTypeOK, TaskTypeOK, Calls, Tasks
  <2> QED
    BY <2>1, <2>2, <2>3 DEF TaskTypeOK
<1>8. CASE ConfigureStore
  <2>1. AreaTypeOK'
    BY <1>8 DEF ConfigureStore, AreaTypeOK, TaskTypeOK, Flags, areaVars, Tasks
  <2>2. pc' \in [Tasks -> Places] /\ reply' \in {"none", "ok", "error"}
    BY <1>8, ReplyType DEF ConfigureStore, Goto, Places, Tasks
  <2>3. tmp' \in [Tasks -> SUBSET Flags] /\ call' \in [Tasks -> Calls]
    BY <1>8 DEF ConfigureStore, AreaTypeOK, TaskTypeOK, Calls, Tasks
  <2> QED
    BY <2>1, <2>2, <2>3 DEF TaskTypeOK
<1>9. CASE MountedAtBoot
  <2>1. AreaTypeOK'
    BY <1>9 DEF MountedAtBoot, AreaTypeOK, TaskTypeOK, Flags, areaVars, Tasks
  <2>2. pc' \in [Tasks -> Places] /\ reply' \in {"none", "ok", "error"}
    BY <1>9, ReplyType DEF MountedAtBoot, Goto, Places, Tasks
  <2>3. tmp' \in [Tasks -> SUBSET Flags] /\ call' \in [Tasks -> Calls]
    BY <1>9 DEF MountedAtBoot, AreaTypeOK, TaskTypeOK, Calls, Tasks
  <2> QED
    BY <2>1, <2>2, <2>3 DEF TaskTypeOK
<1>10. CASE FormatCheck
  <2>1. AreaTypeOK'
    BY <1>10 DEF FormatCheck, AreaTypeOK, TaskTypeOK, Flags, areaVars, Tasks
  <2>2. pc' \in [Tasks -> Places] /\ reply' \in {"none", "ok", "error"}
    BY <1>10, ReplyType DEF FormatCheck, Goto, Places, Tasks
  <2>3. tmp' \in [Tasks -> SUBSET Flags] /\ call' \in [Tasks -> Calls]
    BY <1>10 DEF FormatCheck, AreaTypeOK, TaskTypeOK, Calls, Tasks
  <2> QED
    BY <2>1, <2>2, <2>3 DEF TaskTypeOK
<1>11. CASE EraseCheck
  <2>1. AreaTypeOK'
    BY <1>11 DEF EraseCheck, AreaTypeOK, TaskTypeOK, Flags, areaVars, Tasks
  <2>2. pc' \in [Tasks -> Places] /\ reply' \in {"none", "ok", "error"}
    BY <1>11, ReplyType DEF EraseCheck, Goto, Places, Tasks
  <2>3. tmp' \in [Tasks -> SUBSET Flags] /\ call' \in [Tasks -> Calls]
    BY <1>11 DEF EraseCheck, AreaTypeOK, TaskTypeOK, Calls, Tasks
  <2> QED
    BY <2>1, <2>2, <2>3 DEF TaskTypeOK
<1> QED
  BY <1>1, <1>2, <1>3, <1>4, <1>5, <1>6, <1>7, <1>8, <1>9, <1>10, <1>11 DEF Unmount, Setup

LEMMA TypeManage ==
    ASSUME TypeOK, WaitUntilMounted \/ WaitUntilUnmounted \/ AccountRun \/ Decide \/ Remount
    PROVE  TypeOK'
<1> USE DEF TypeOK
<1>1. CASE WaitUntilMounted
  <2>1. AreaTypeOK'
    BY <1>1 DEF WaitUntilMounted, AreaTypeOK, areaVars
  <2>2. pc' \in [Tasks -> Places] /\ reply' \in {"none", "ok", "error"}
    BY <1>1, ReplyType, ResultPlaces DEF WaitUntilMounted, Goto, Places, Tasks
  <2>3. tmp' \in [Tasks -> SUBSET Flags] /\ call' \in [Tasks -> Calls]
    BY <1>1 DEF WaitUntilMounted, TaskTypeOK, Calls, Tasks
  <2>4. RecorderTypeOK'
    BY <1>1 DEF WaitUntilMounted, RecorderTypeOK, recVars, manageVars
  <2> QED
    BY <2>1, <2>2, <2>3, <2>4 DEF TaskTypeOK
<1>2. CASE WaitUntilUnmounted
  <2>1. AreaTypeOK'
    BY <1>2 DEF WaitUntilUnmounted, AreaTypeOK, areaVars
  <2>2. pc' \in [Tasks -> Places] /\ reply' \in {"none", "ok", "error"}
    BY <1>2, ReplyType, ResultPlaces DEF WaitUntilUnmounted, Goto, Places, Tasks
  <2>3. tmp' \in [Tasks -> SUBSET Flags] /\ call' \in [Tasks -> Calls]
    BY <1>2 DEF WaitUntilUnmounted, TaskTypeOK, Calls, Tasks
  <2>4. RecorderTypeOK'
    BY <1>2 DEF WaitUntilUnmounted, RecorderTypeOK, recVars, manageVars
  <2> QED
    BY <2>1, <2>2, <2>3, <2>4 DEF TaskTypeOK
<1>3. CASE AccountRun
  <2>1. AreaTypeOK'
    BY <1>3 DEF AccountRun, AreaTypeOK, areaVars
  <2>2. pc' \in [Tasks -> Places] /\ reply' \in {"none", "ok", "error"}
    BY <1>3, ReplyType, ResultPlaces DEF AccountRun, Goto, Places, Tasks
  <2>3. tmp' \in [Tasks -> SUBSET Flags] /\ call' \in [Tasks -> Calls]
    BY <1>3 DEF AccountRun, TaskTypeOK, Calls, Tasks
  <2>4. RecorderTypeOK'
    <3>1. remountCounter' = 0 \/ remountCounter' = remountCounter
      BY <1>3 DEF AccountRun
    <3>2. remountCounter' \in 0..MaxRemounts
      BY <3>1, BoundsAssumption DEF RecorderTypeOK
    <3> QED
      BY <1>3, <3>2 DEF AccountRun, RecorderTypeOK, recVars
  <2> QED
    BY <2>1, <2>2, <2>3, <2>4 DEF TaskTypeOK
<1>4. CASE Decide
  <2>1. AreaTypeOK'
    BY <1>4 DEF Decide, AreaTypeOK, areaVars
  <2>2. pc' \in [Tasks -> Places] /\ reply' \in {"none", "ok", "error"}
    BY <1>4, ReplyType, ResultPlaces DEF Decide, Goto, Places, Tasks
  <2>3. tmp' \in [Tasks -> SUBSET Flags] /\ call' \in [Tasks -> Calls]
    BY <1>4 DEF Decide, TaskTypeOK, Calls, Tasks
  <2>4. RecorderTypeOK'
    BY <1>4 DEF Decide, RecorderTypeOK, recVars, manageVars
  <2> QED
    BY <2>1, <2>2, <2>3, <2>4 DEF TaskTypeOK
<1>5. CASE Remount
  <2>1. AreaTypeOK'
    BY <1>5 DEF Remount, AreaTypeOK, areaVars
  <2>2. pc' \in [Tasks -> Places] /\ reply' \in {"none", "ok", "error"}
    BY <1>5, ReplyType, ResultPlaces DEF Remount, Goto, Places, Tasks
  <2>3. tmp' \in [Tasks -> SUBSET Flags] /\ call' \in [Tasks -> Calls]
    BY <1>5 DEF Remount, TaskTypeOK, Calls, Tasks
  <2>4. RecorderTypeOK'
    <3>1. remountCounter' \in 0..MaxRemounts
      BY <1>5, BoundsAssumption DEF Remount, RecorderTypeOK
    <3> QED
      BY <1>5, <3>1 DEF Remount, RecorderTypeOK, recVars
  <2> QED
    BY <2>1, <2>2, <2>3, <2>4 DEF TaskTypeOK
<1> QED
  BY <1>1, <1>2, <1>3, <1>4, <1>5 DEF TypeOK

LEMMA TypeRecorder ==
    ASSUME TypeOK, ClearQueue \/ OpenLog \/ LogOpened \/ Start \/ Receive \/ Exit
    PROVE  TypeOK'
<1> USE DEF TypeOK
<1>1. CASE ClearQueue
  <2>1. AreaTypeOK'
    BY <1>1 DEF ClearQueue, AreaTypeOK, areaVars
  <2>2. pc' \in [Tasks -> Places] /\ reply' \in {"none", "ok", "error"}
    BY <1>1, ReplyType, ResultPlaces DEF ClearQueue, Goto, Places, Tasks
  <2>3. tmp' \in [Tasks -> SUBSET Flags] /\ call' \in [Tasks -> Calls]
    BY <1>1 DEF ClearQueue, TaskTypeOK, Calls, Tasks
  <2>4. RecorderTypeOK'
    <3>1. queue' \in Seq(Requests) /\ Len(queue') <= QueueCap
      BY <1>1, BoundsAssumption DEF ClearQueue
    <3>2. maybeError' \in BOOLEAN
      BY <1>1 DEF ClearQueue
    <3> QED
      BY <1>1, <3>1, <3>2 DEF ClearQueue, RecorderTypeOK, manageVars
  <2> QED
    BY <2>1, <2>2, <2>3, <2>4 DEF TaskTypeOK
<1>2. CASE OpenLog
  <2>1. AreaTypeOK'
    BY <1>2 DEF OpenLog, AreaTypeOK, areaVars
  <2>2. pc' \in [Tasks -> Places] /\ reply' \in {"none", "ok", "error"}
    BY <1>2, ReplyType, ResultPlaces DEF OpenLog, Goto, Places, Tasks
  <2>3. tmp' \in [Tasks -> SUBSET Flags] /\ call' \in [Tasks -> Calls]
    BY <1>2 DEF OpenLog, TaskTypeOK, Calls, Tasks
  <2>4. RecorderTypeOK'
    BY <1>2 DEF OpenLog, RecorderTypeOK, recVars, manageVars
  <2> QED
    BY <2>1, <2>2, <2>3, <2>4 DEF TaskTypeOK
<1>3. CASE LogOpened
  <2>1. AreaTypeOK'
    BY <1>3 DEF LogOpened, AreaTypeOK, areaVars
  <2>2. pc' \in [Tasks -> Places] /\ reply' \in {"none", "ok", "error"}
    BY <1>3, ReplyType, ResultPlaces DEF LogOpened, Goto, Places, Tasks
  <2>3. tmp' \in [Tasks -> SUBSET Flags] /\ call' \in [Tasks -> Calls]
    BY <1>3 DEF LogOpened, TaskTypeOK, Calls, Tasks
  <2>4. RecorderTypeOK'
    BY <1>3, EnqueueType DEF LogOpened, RecorderTypeOK, recVars, manageVars, Requests
  <2> QED
    BY <2>1, <2>2, <2>3, <2>4 DEF TaskTypeOK
<1>4. CASE Start
  <2>1. AreaTypeOK'
    BY <1>4 DEF Start, AreaTypeOK, areaVars
  <2>2. pc' \in [Tasks -> Places] /\ reply' \in {"none", "ok", "error"}
    BY <1>4, ReplyType, ResultPlaces DEF Start, Goto, Places, Tasks
  <2>3. tmp' \in [Tasks -> SUBSET Flags] /\ call' \in [Tasks -> Calls]
    BY <1>4 DEF Start, TaskTypeOK, Calls, Tasks
  <2>4. RecorderTypeOK'
    BY <1>4 DEF Start, RecorderTypeOK, recVars, manageVars
  <2> QED
    BY <2>1, <2>2, <2>3, <2>4 DEF TaskTypeOK
<1>5. CASE Receive
  <2>1. AreaTypeOK'
    BY <1>5 DEF Receive, AreaTypeOK, areaVars
  <2>2. pc' \in [Tasks -> Places] /\ reply' \in {"none", "ok", "error"}
    BY <1>5, ReplyType, ResultPlaces DEF Receive, Goto, Places, Tasks
  <2>3. tmp' \in [Tasks -> SUBSET Flags] /\ call' \in [Tasks -> Calls]
    BY <1>5 DEF Receive, TaskTypeOK, Calls, Tasks
  <2>4. RecorderTypeOK'
    BY <1>5, TailType DEF Receive, RecorderTypeOK, recVars, manageVars, Requests
  <2> QED
    BY <2>1, <2>2, <2>3, <2>4 DEF TaskTypeOK
<1>6. CASE Exit
  <2>1. AreaTypeOK'
    BY <1>6 DEF Exit, AreaTypeOK, areaVars
  <2>2. pc' \in [Tasks -> Places] /\ reply' \in {"none", "ok", "error"}
    BY <1>6, ReplyType, ResultPlaces DEF Exit, Goto, Places, Tasks
  <2>3. tmp' \in [Tasks -> SUBSET Flags] /\ call' \in [Tasks -> Calls]
    BY <1>6 DEF Exit, TaskTypeOK, Calls, Tasks
  <2>4. RecorderTypeOK'
    BY <1>6 DEF Exit, RecorderTypeOK, recVars, manageVars
  <2> QED
    BY <2>1, <2>2, <2>3, <2>4 DEF TaskTypeOK
<1> QED
  BY <1>1, <1>2, <1>3, <1>4, <1>5, <1>6 DEF TypeOK

LEMMA TypeSender ==
    ASSUME TypeOK, NEW t \in Tasks,
           Record(t) \/ NewRecord(t) \/ StopCheck \/ SimulateSend
    PROVE  TypeOK'
<1> USE DEF TypeOK
<1>1. CASE RecordCheck(t)
  <2>1. AreaTypeOK'
    BY <1>1 DEF RecordCheck, AreaTypeOK, areaVars
  <2>2. pc' \in [Tasks -> Places] /\ reply' \in {"none", "ok", "error"}
    BY <1>1, ReplyType, ResultPlaces DEF RecordCheck, Goto, Places, Tasks
  <2>3. tmp' \in [Tasks -> SUBSET Flags] /\ call' \in [Tasks -> Calls]
    BY <1>1 DEF RecordCheck, TaskTypeOK, Calls, Tasks
  <2>4. RecorderTypeOK'
    BY <1>1 DEF RecordCheck, RecorderTypeOK, recVars, manageVars
  <2> QED
    BY <2>1, <2>2, <2>3, <2>4 DEF TaskTypeOK
<1>2. CASE RecordSend(t)
  <2>1. AreaTypeOK'
    BY <1>2 DEF RecordSend, AreaTypeOK, areaVars
  <2>2. pc' \in [Tasks -> Places] /\ reply' \in {"none", "ok", "error"}
    BY <1>2, ReplyType, ResultPlaces DEF RecordSend, Goto, Places, Tasks
  <2>3. tmp' \in [Tasks -> SUBSET Flags] /\ call' \in [Tasks -> Calls]
    BY <1>2 DEF RecordSend, TaskTypeOK, Calls, Tasks
  <2>4. RecorderTypeOK'
    BY <1>2, EnqueueType DEF RecordSend, RecorderTypeOK, manageVars, Requests, RequestOf
  <2> QED
    BY <2>1, <2>2, <2>3, <2>4 DEF TaskTypeOK
<1>3. CASE NewRecord(t)
  <2>1. AreaTypeOK'
    BY <1>3 DEF NewRecord, AreaTypeOK, areaVars
  <2>2. pc' \in [Tasks -> Places] /\ reply' \in {"none", "ok", "error"}
    BY <1>3, ReplyType, ResultPlaces DEF NewRecord, Goto, Places, Tasks
  <2>3. tmp' \in [Tasks -> SUBSET Flags] /\ call' \in [Tasks -> Calls]
    BY <1>3 DEF NewRecord, TaskTypeOK, Calls, Tasks
  <2>4. RecorderTypeOK'
    BY <1>3 DEF NewRecord, RecorderTypeOK, recVars, manageVars
  <2> QED
    BY <2>1, <2>2, <2>3, <2>4 DEF TaskTypeOK
<1>5. CASE StopCheck
  <2>1. AreaTypeOK'
    BY <1>5 DEF StopCheck, AreaTypeOK, areaVars
  <2>2. pc' \in [Tasks -> Places] /\ reply' \in {"none", "ok", "error"}
    BY <1>5, ReplyType, ResultPlaces DEF StopCheck, Goto, Places, Tasks
  <2>3. tmp' \in [Tasks -> SUBSET Flags] /\ call' \in [Tasks -> Calls]
    BY <1>5 DEF StopCheck, TaskTypeOK, Calls, Tasks
  <2>4. RecorderTypeOK'
    BY <1>5 DEF StopCheck, RecorderTypeOK, recVars, manageVars
  <2> QED
    BY <2>1, <2>2, <2>3, <2>4 DEF TaskTypeOK
<1>6. CASE SimulateSend
  <2>1. AreaTypeOK'
    BY <1>6 DEF SimulateSend, AreaTypeOK, areaVars
  <2>2. pc' \in [Tasks -> Places] /\ reply' \in {"none", "ok", "error"}
    BY <1>6, ReplyType, ResultPlaces DEF SimulateSend, Goto, Places, Tasks
  <2>3. tmp' \in [Tasks -> SUBSET Flags] /\ call' \in [Tasks -> Calls]
    BY <1>6 DEF SimulateSend, TaskTypeOK, Calls, Tasks
  <2>4. RecorderTypeOK'
    BY <1>6, BoundsAssumption DEF SimulateSend, RecorderTypeOK, manageVars, Requests
  <2> QED
    BY <2>1, <2>2, <2>3, <2>4 DEF TaskTypeOK
<1> QED
  BY <1>1, <1>2, <1>3, <1>5, <1>6 DEF Record

LEMMA TypeCommand ==
    ASSUME TypeOK, NEW c \in Commands, TakeCommand(c)
    PROVE  TypeOK'
<1> USE DEF TypeOK
<1>0. CommandPlaces[c] \in Places /\ CommandCalls[c] \in Calls
  <2>1. c \in {"MOUNT", "UNMOUNT", "ERASE", "SIMULATE_ERROR"}
    BY CommandsAssumption
  <2> QED
    BY <2>1 DEF CommandPlaces, CommandCalls, Places, Calls
<1>1. AreaTypeOK'
  BY DEF TakeCommand, AreaTypeOK, areaVars
<1>2. pc' \in [Tasks -> Places] /\ reply' \in {"none", "ok", "error"}
  BY <1>0, ReplyType DEF TakeCommand, Goto, Places, Tasks
<1>3. tmp' \in [Tasks -> SUBSET Flags] /\ call' \in [Tasks -> Calls]
  BY <1>0 DEF TakeCommand, TaskTypeOK, Tasks
<1>4. RecorderTypeOK'
  BY DEF TakeCommand, RecorderTypeOK, recVars, manageVars
<1> QED
  BY <1>1, <1>2, <1>3, <1>4 DEF TaskTypeOK

LEMMA TypeWaitAny == TypeOK /\ WaitAny => TypeOK'
<1> SUFFICES ASSUME TypeOK, WaitAny PROVE TypeOK'
  OBVIOUS
<1> USE DEF TypeOK
<1>1. events' \subseteq events /\ UNCHANGED <<flags, fsPtr, lfs, formatted, tmp, call, recVars, manageVars>>
  BY DEF WaitAny
<1>2. Goto("edr", "waitMounted") \/ Goto("edr", "waitUnmounted")
  BY DEF WaitAny
<1>3. AreaTypeOK'
  BY <1>1 DEF AreaTypeOK
<1>4. TaskTypeOK'
  BY <1>1, <1>2, ReplyType DEF TaskTypeOK, Goto, Places, Tasks
<1>5. RecorderTypeOK'
  BY <1>1 DEF RecorderTypeOK, recVars, manageVars
<1> QED
  BY <1>3, <1>4, <1>5

LEMMA TypeNext == TypeOK /\ [Next]_vars => TypeOK'
<1> SUFFICES ASSUME TypeOK, [Next]_vars PROVE TypeOK'
  OBVIOUS
<1>1. ASSUME AreaTypeOK', TaskTypeOK', UNCHANGED <<recVars, manageVars>>
      PROVE  TypeOK'
  BY <1>1 DEF TypeOK, RecorderTypeOK, recVars, manageVars
<1>2. ASSUME NEW t \in Tasks, StorageStep(t) PROVE TypeOK'
  BY <1>1, <1>2, TypeAreaStep DEF StorageStep, TypeOK
<1>3. CASE (Unmount \/ Setup \/ EraseCheck) /\ UNCHANGED <<recVars, manageVars>>
  BY <1>1, <1>3, TypeUnmount DEF TypeOK
<1>4. ASSUME NEW t \in Tasks, Record(t) \/ NewRecord(t) \/ StopCheck \/ SimulateSend
      PROVE  TypeOK'
  BY <1>4, TypeSender
<1>5. CASE EdrTask
  BY <1>2, <1>3, <1>5, TypeManage, TypeRecorder, TypeWaitAny DEF EdrTask, Tasks
<1>6. CASE CmdTask
  BY <1>2, <1>3, <1>4, <1>6 DEF CmdTask, Tasks
<1>7. CASE BootTask
  BY <1>2, <1>3, <1>7 DEF BootTask, Tasks
<1>8. CASE \E c \in Commands : TakeCommand(c)
  BY <1>8, TypeCommand
<1>9. CASE \E p \in Producers : NewRecord(p) \/ Record(p)
  BY <1>4, <1>9 DEF Tasks
<1>10. CASE UNCHANGED vars
  BY <1>1, <1>10 DEF TypeOK, vars, areaVars, taskVars, AreaTypeOK, TaskTypeOK
<1> QED
  BY <1>5, <1>6, <1>7, <1>8, <1>9, <1>10 DEF Next

LEMMA TypeInit == Init => TypeOK
<1> SUFFICES ASSUME Init PROVE TypeOK
  OBVIOUS
<1>1. AreaTypeOK
  BY DEF Init, AreaInit, AreaTypeOK, Flags
<1>2. pc \in [Tasks -> Places]
  BY DEF Init, Places
<1>3. TaskTypeOK
  BY <1>2 DEF Init, AreaInit, TaskTypeOK, Flags, Calls
<1>4. RecorderTypeOK
  <2>1. queue \in Seq(Requests) /\ Len(queue) <= QueueCap
    BY BoundsAssumption DEF Init
  <2>2. dropped \in 0..MaxDropped /\ remountCounter \in 0..MaxRemounts
    BY BoundsAssumption DEF Init
  <2>3. recState \in {"DISABLED", "STARTING", "RUNNING"} /\ maybeError \in BOOLEAN /\ hasIoError \in BOOLEAN
    BY DEF Init
  <2> QED
    BY <2>1, <2>2, <2>3 DEF RecorderTypeOK
<1> QED
  BY <1>1, <1>3, <1>4 DEF TypeOK

(* Whatever ground control sends and whatever fails, in every interleaving *)
(* of the tasks, each variable keeps its type: the queue never holds more  *)
(* than QueueCap requests and the EDR task never counts more than          *)
(* MaxRemounts remounts.                                                   *)
THEOREM TypeCorrect == Spec => []TypeOK
  BY TypeInit, TypeNext, PTL DEF Spec

---------------------------------------------------------------------------
(* In flight: the invariant of the flags, one lemma per task. *)

FlightInv == FlagWriters /\ EdrAgrees /\ NoLostWakeup

(* A step that moves a task other than the EDR and the storage task, and   *)
(* leaves the area alone.                                                  *)
LEMMA FlightOther ==
    ASSUME IInv, NEW t \in Tasks \ {"edr", "boot"},
           NEW l \in {"idle", "stopChk", "recordChk", "recordSend", "simulateSend", "work"},
           Goto(t, l) \/ Reply(t, l, "error"), UNCHANGED <<areaVars, tmp, recState>>,
           call'["edr"] = call["edr"]
    PROVE  FlightInv'
<1>1. pc' = [pc EXCEPT ![t] = l] /\ pc \in [Tasks -> Places]
  BY DEF Goto, Reply, IInv, TypeOK, TaskTypeOK
<1>2. pc'["edr"] = pc["edr"] /\ pc'["boot"] = pc["boot"]
  BY <1>1 DEF Tasks
<1>3. UNCHANGED <<flags, fsPtr, events, lfs, formatted, tmp, recState>>
  BY DEF areaVars
<1>4. FlagWriters'
  BY <1>1, <1>2, <1>3 DEF IInv, FlagWriters
<1>5. EdrAgrees'
  BY <1>2, <1>3 DEF IInv, EdrAgrees
<1>6. NoLostWakeup'
  <2>1. ASSUME NEW u \in Tasks, pc[u] \in {"setEvt", "clrEvt"} PROVE pc'[u] = pc[u]
    BY <1>1, <2>1 DEF IInv, FlagWriters
  <2> QED
    BY <1>2, <1>3, <2>1 DEF IInv, NoLostWakeup
<1> QED
  BY <1>4, <1>5, <1>6 DEF FlightInv

LEMMA FlightBoot ==
    ASSUME InFlight, IInv, BootTask, UNCHANGED <<recState>>
    PROVE  FlightInv'
<1>0. /\ TypeOK /\ FlagWriters /\ EdrAgrees /\ NoLostWakeup
      /\ pc \in [Tasks -> Places] /\ tmp \in [Tasks -> SUBSET Flags]
      /\ call \in [Tasks -> Calls] /\ lfs \in BOOLEAN /\ fsPtr \in BOOLEAN
      /\ "edr" \in Tasks /\ "boot" \in Tasks
  BY DEF IInv, TypeOK, TaskTypeOK, AreaTypeOK, Tasks
<1>1. CASE Configure
  <2>1. FlagWriters'
    BY <1>0, <1>1 DEF Configure, Goto, Reply, InFlight, FlagWriters, EdrAgrees, Booting, Booted
  <2>2. EdrAgrees'
    BY <1>0, <1>1 DEF Configure, Goto, Reply, InFlight, FlagWriters, EdrAgrees, Booting, Booted, EdrMounted, EdrUnmounted, Recording
  <2>3. NoLostWakeup'
    BY <1>0, <1>1 DEF Configure, Goto, Reply, InFlight, FlagWriters, EdrAgrees, NoLostWakeup, Booting, Booted
  <2> QED
    BY <2>1, <2>2, <2>3 DEF FlightInv
<1>2. CASE ConfigureLoad
  <2>1. FlagWriters'
    BY <1>0, <1>2 DEF ConfigureLoad, Goto, Reply, areaVars, InFlight, FlagWriters, EdrAgrees, Booting, Booted
  <2>2. EdrAgrees'
    BY <1>0, <1>2 DEF ConfigureLoad, Goto, Reply, areaVars, InFlight, FlagWriters, EdrAgrees, Booting, Booted, EdrMounted, EdrUnmounted, Recording
  <2>3. NoLostWakeup'
    BY <1>0, <1>2 DEF ConfigureLoad, Goto, Reply, areaVars, InFlight, FlagWriters, EdrAgrees, NoLostWakeup, Booting, Booted
  <2> QED
    BY <2>1, <2>2, <2>3 DEF FlightInv
<1>3. CASE ConfigureStore
  <2>1. FlagWriters'
    BY <1>0, <1>3 DEF ConfigureStore, Goto, Reply, InFlight, FlagWriters, EdrAgrees, Booting, Booted
  <2>2. EdrAgrees'
    BY <1>0, <1>3 DEF ConfigureStore, Goto, Reply, InFlight, FlagWriters, EdrAgrees, Booting, Booted, EdrMounted, EdrUnmounted, Recording
  <2>3. NoLostWakeup'
    BY <1>0, <1>3 DEF ConfigureStore, Goto, Reply, InFlight, FlagWriters, EdrAgrees, NoLostWakeup, Booting, Booted
  <2> QED
    BY <2>1, <2>2, <2>3 DEF FlightInv
<1>4. CASE MountedAtBoot
  <2>1. FlagWriters'
    BY <1>0, <1>4 DEF MountedAtBoot, Goto, Reply, areaVars, InFlight, FlagWriters, EdrAgrees, Booting, Booted
  <2>2. EdrAgrees'
    BY <1>0, <1>4 DEF MountedAtBoot, Goto, Reply, areaVars, InFlight, FlagWriters, EdrAgrees, Booting, Booted, EdrMounted, EdrUnmounted, Recording
  <2>3. NoLostWakeup'
    BY <1>0, <1>4 DEF MountedAtBoot, Goto, Reply, areaVars, InFlight, FlagWriters, EdrAgrees, NoLostWakeup, Booting, Booted
  <2> QED
    BY <2>1, <2>2, <2>3 DEF FlightInv
<1>5. CASE MountCheck("boot")
  <2>1. FlagWriters'
    BY <1>0, <1>5 DEF MountCheck, Goto, Reply, areaVars, MountOk, MountFailed, InFlight, FlagWriters, EdrAgrees, Booting, Booted
  <2>2. EdrAgrees'
    BY <1>0, <1>5 DEF MountCheck, Goto, Reply, areaVars, MountOk, MountFailed, InFlight, FlagWriters, EdrAgrees, Booting, Booted, EdrMounted, EdrUnmounted, Recording
  <2>3. NoLostWakeup'
    BY <1>0, <1>5 DEF MountCheck, Goto, Reply, areaVars, MountOk, MountFailed, InFlight, FlagWriters, EdrAgrees, NoLostWakeup, Booting, Booted
  <2> QED
    BY <2>1, <2>2, <2>3 DEF FlightInv
<1>6. CASE LfsMount("boot")
  <2>1. FlagWriters'
    BY <1>0, <1>6 DEF LfsMount, Goto, Reply, MountFailed, InFlight, FlagWriters, EdrAgrees, Booting, Booted
  <2>2. EdrAgrees'
    <3>1. UNCHANGED <<flags, fsPtr, tmp, call, recState>> /\ pc'["edr"] = pc["edr"]
      BY <1>0, <1>6 DEF LfsMount, Goto, Reply
    <3>2. pc["edr"] \in {"waitMounted", "mountedEvt"} /\ "MOUNTED" \notin flags
      BY <1>0, <1>6 DEF LfsMount, FlagWriters, Booting
    <3>3. pc'["boot"] = "setLoad" \/ lfs' = FALSE
      BY <1>0, <1>6 DEF LfsMount, Goto, Reply
    <3> QED
      BY <1>0, <3>1, <3>2, <3>3 DEF EdrAgrees, EdrMounted, EdrUnmounted, Recording, Booted
  <2>3. NoLostWakeup'
    BY <1>0, <1>6 DEF LfsMount, Goto, Reply, MountFailed, InFlight, FlagWriters, EdrAgrees, NoLostWakeup, Booting, Booted
  <2> QED
    BY <2>1, <2>2, <2>3 DEF FlightInv
<1>7. CASE SetMountedLoad("boot")
  <2>1. FlagWriters'
    BY <1>0, <1>7 DEF SetMountedLoad, Goto, Reply, areaVars, InFlight, FlagWriters, EdrAgrees, Booting, Booted
  <2>2. EdrAgrees'
    BY <1>0, <1>7 DEF SetMountedLoad, Goto, Reply, areaVars, InFlight, FlagWriters, EdrAgrees, Booting, Booted, EdrMounted, EdrUnmounted, Recording
  <2>3. NoLostWakeup'
    BY <1>0, <1>7 DEF SetMountedLoad, Goto, Reply, areaVars, InFlight, FlagWriters, EdrAgrees, NoLostWakeup, Booting, Booted
  <2> QED
    BY <2>1, <2>2, <2>3 DEF FlightInv
<1>8. CASE SetMountedStore("boot")
  <2>1. FlagWriters'
    BY <1>0, <1>8 DEF SetMountedStore, Goto, Reply, InFlight, FlagWriters, EdrAgrees, Booting, Booted
  <2>2. EdrAgrees'
    BY <1>0, <1>8 DEF SetMountedStore, Goto, Reply, InFlight, FlagWriters, EdrAgrees, Booting, Booted, EdrMounted, EdrUnmounted, Recording
  <2>3. NoLostWakeup'
    BY <1>0, <1>8 DEF SetMountedStore, Goto, Reply, InFlight, FlagWriters, EdrAgrees, NoLostWakeup, Booting, Booted
  <2> QED
    BY <2>1, <2>2, <2>3 DEF FlightInv
<1>9. CASE SignalMounted("boot")
  <2>1. FlagWriters'
    BY <1>0, <1>9 DEF SignalMounted, Goto, Reply, MountOk, InFlight, FlagWriters, EdrAgrees, Booting, Booted
  <2>2. EdrAgrees'
    BY <1>0, <1>9 DEF SignalMounted, Goto, Reply, MountOk, InFlight, FlagWriters, EdrAgrees, Booting, Booted, EdrMounted, EdrUnmounted, Recording
  <2>3. NoLostWakeup'
    BY <1>0, <1>9 DEF SignalMounted, Goto, Reply, MountOk, InFlight, FlagWriters, EdrAgrees, NoLostWakeup, Booting, Booted
  <2> QED
    BY <2>1, <2>2, <2>3 DEF FlightInv
<1> QED
  BY <1>1, <1>2, <1>3, <1>4, <1>5, <1>6, <1>7, <1>8, <1>9, <1>0 DEF BootTask, StorageStep, AreaStep, Setup, ClearLoad, ClearStore, MarkErroredLoad, MarkErroredStore, LfsFormat, FormatCheck, FlagWriters, Booting, Booted

LEMMA FlightEdrArea ==
    ASSUME InFlight, IInv, StorageStep("edr") \/ (Unmount /\ UNCHANGED <<recVars, manageVars>>)
    PROVE  FlightInv'
<1>a. UNCHANGED recState
  BY DEF StorageStep, recVars
<1>0. /\ TypeOK /\ FlagWriters /\ EdrAgrees /\ NoLostWakeup
      /\ pc \in [Tasks -> Places] /\ tmp \in [Tasks -> SUBSET Flags]
      /\ call \in [Tasks -> Calls] /\ lfs \in BOOLEAN /\ fsPtr \in BOOLEAN
      /\ "edr" \in Tasks /\ "boot" \in Tasks
  BY DEF IInv, TypeOK, TaskTypeOK, AreaTypeOK, Tasks
<1>1. CASE MountCheck("edr")
  <2>1. FlagWriters'
    BY <1>0, <1>a, <1>1 DEF MountCheck, Goto, Reply, areaVars, MountOk, MountFailed, InFlight, FlagWriters, EdrAgrees, Booting, Booted
  <2>2. EdrAgrees'
    BY <1>0, <1>a, <1>1 DEF MountCheck, Goto, Reply, areaVars, MountOk, MountFailed, InFlight, FlagWriters, EdrAgrees, Booting, Booted, EdrMounted, EdrUnmounted, Recording
  <2>3. NoLostWakeup'
    BY <1>0, <1>a, <1>1 DEF MountCheck, Goto, Reply, areaVars, MountOk, MountFailed, InFlight, FlagWriters, EdrAgrees, NoLostWakeup, Booting, Booted
  <2> QED
    BY <2>1, <2>2, <2>3 DEF FlightInv
<1>2. CASE LfsMount("edr")
  <2>1. FlagWriters'
    BY <1>0, <1>a, <1>2 DEF LfsMount, Goto, Reply, MountFailed, InFlight, FlagWriters, EdrAgrees, Booting, Booted
  <2>2. EdrAgrees'
    BY <1>0, <1>a, <1>2 DEF LfsMount, Goto, Reply, MountFailed, InFlight, FlagWriters, EdrAgrees, Booting, Booted, EdrMounted, EdrUnmounted, Recording
  <2>3. NoLostWakeup'
    BY <1>0, <1>a, <1>2 DEF LfsMount, Goto, Reply, MountFailed, InFlight, FlagWriters, EdrAgrees, NoLostWakeup, Booting, Booted
  <2> QED
    BY <2>1, <2>2, <2>3 DEF FlightInv
<1>3. CASE SetMountedLoad("edr")
  <2>1. FlagWriters'
    BY <1>0, <1>a, <1>3 DEF SetMountedLoad, Goto, Reply, areaVars, InFlight, FlagWriters, EdrAgrees, Booting, Booted
  <2>2. EdrAgrees'
    BY <1>0, <1>a, <1>3 DEF SetMountedLoad, Goto, Reply, areaVars, InFlight, FlagWriters, EdrAgrees, Booting, Booted, EdrMounted, EdrUnmounted, Recording
  <2>3. NoLostWakeup'
    BY <1>0, <1>a, <1>3 DEF SetMountedLoad, Goto, Reply, areaVars, InFlight, FlagWriters, EdrAgrees, NoLostWakeup, Booting, Booted
  <2> QED
    BY <2>1, <2>2, <2>3 DEF FlightInv
<1>4. CASE SetMountedStore("edr")
  <2>1. FlagWriters'
    BY <1>0, <1>a, <1>4 DEF SetMountedStore, Goto, Reply, InFlight, FlagWriters, EdrAgrees, Booting, Booted
  <2>2. EdrAgrees'
    BY <1>0, <1>a, <1>4 DEF SetMountedStore, Goto, Reply, InFlight, FlagWriters, EdrAgrees, Booting, Booted, EdrMounted, EdrUnmounted, Recording
  <2>3. NoLostWakeup'
    BY <1>0, <1>a, <1>4 DEF SetMountedStore, Goto, Reply, InFlight, FlagWriters, EdrAgrees, NoLostWakeup, Booting, Booted
  <2> QED
    BY <2>1, <2>2, <2>3 DEF FlightInv
<1>5. CASE SignalMounted("edr")
  <2>1. FlagWriters'
    BY <1>0, <1>a, <1>5 DEF SignalMounted, Goto, Reply, MountOk, InFlight, FlagWriters, EdrAgrees, Booting, Booted
  <2>2. EdrAgrees'
    BY <1>0, <1>a, <1>5 DEF SignalMounted, Goto, Reply, MountOk, InFlight, FlagWriters, EdrAgrees, Booting, Booted, EdrMounted, EdrUnmounted, Recording
  <2>3. NoLostWakeup'
    BY <1>0, <1>a, <1>5 DEF SignalMounted, Goto, Reply, MountOk, InFlight, FlagWriters, EdrAgrees, NoLostWakeup, Booting, Booted
  <2> QED
    BY <2>1, <2>2, <2>3 DEF FlightInv
<1>6. CASE MarkErroredLoad("edr")
  <2>1. FlagWriters'
    BY <1>0, <1>a, <1>6 DEF MarkErroredLoad, Goto, Reply, areaVars, MarkErroredDone, InFlight, FlagWriters, EdrAgrees, Booting, Booted
  <2>2. EdrAgrees'
    BY <1>0, <1>a, <1>6 DEF MarkErroredLoad, Goto, Reply, areaVars, MarkErroredDone, InFlight, FlagWriters, EdrAgrees, Booting, Booted, EdrMounted, EdrUnmounted, Recording
  <2>3. NoLostWakeup'
    BY <1>0, <1>a, <1>6 DEF MarkErroredLoad, Goto, Reply, areaVars, MarkErroredDone, InFlight, FlagWriters, EdrAgrees, NoLostWakeup, Booting, Booted
  <2> QED
    BY <2>1, <2>2, <2>3 DEF FlightInv
<1>7. CASE MarkErroredStore("edr")
  <2>1. FlagWriters'
    BY <1>0, <1>a, <1>7 DEF MarkErroredStore, Goto, Reply, MarkErroredDone, InFlight, FlagWriters, EdrAgrees, Booting, Booted
  <2>2. EdrAgrees'
    BY <1>0, <1>a, <1>7 DEF MarkErroredStore, Goto, Reply, MarkErroredDone, InFlight, FlagWriters, EdrAgrees, Booting, Booted, EdrMounted, EdrUnmounted, Recording
  <2>3. NoLostWakeup'
    BY <1>0, <1>a, <1>7 DEF MarkErroredStore, Goto, Reply, MarkErroredDone, InFlight, FlagWriters, EdrAgrees, NoLostWakeup, Booting, Booted
  <2> QED
    BY <2>1, <2>2, <2>3 DEF FlightInv
<1>8. CASE UnmountCheck
  <2>1. FlagWriters'
    BY <1>0, <1>a, <1>8 DEF UnmountCheck, Goto, Reply, areaVars, InFlight, FlagWriters, EdrAgrees, Booting, Booted
  <2>2. EdrAgrees'
    BY <1>0, <1>a, <1>8 DEF UnmountCheck, Goto, Reply, areaVars, InFlight, FlagWriters, EdrAgrees, Booting, Booted, EdrMounted, EdrUnmounted, Recording
  <2>3. NoLostWakeup'
    BY <1>0, <1>a, <1>8 DEF UnmountCheck, Goto, Reply, areaVars, InFlight, FlagWriters, EdrAgrees, NoLostWakeup, Booting, Booted
  <2> QED
    BY <2>1, <2>2, <2>3 DEF FlightInv
<1>9. CASE LfsUnmount
  <2>1. FlagWriters'
    BY <1>0, <1>a, <1>9 DEF LfsUnmount, Goto, Reply, InFlight, FlagWriters, EdrAgrees, Booting, Booted
  <2>2. EdrAgrees'
    BY <1>0, <1>a, <1>9 DEF LfsUnmount, Goto, Reply, InFlight, FlagWriters, EdrAgrees, Booting, Booted, EdrMounted, EdrUnmounted, Recording
  <2>3. NoLostWakeup'
    BY <1>0, <1>a, <1>9 DEF LfsUnmount, Goto, Reply, InFlight, FlagWriters, EdrAgrees, NoLostWakeup, Booting, Booted
  <2> QED
    BY <2>1, <2>2, <2>3 DEF FlightInv
<1>10. CASE ClearMountedLoad
  <2>1. FlagWriters'
    BY <1>0, <1>a, <1>10 DEF ClearMountedLoad, Goto, Reply, areaVars, InFlight, FlagWriters, EdrAgrees, Booting, Booted
  <2>2. EdrAgrees'
    BY <1>0, <1>a, <1>10 DEF ClearMountedLoad, Goto, Reply, areaVars, InFlight, FlagWriters, EdrAgrees, Booting, Booted, EdrMounted, EdrUnmounted, Recording
  <2>3. NoLostWakeup'
    BY <1>0, <1>a, <1>10 DEF ClearMountedLoad, Goto, Reply, areaVars, InFlight, FlagWriters, EdrAgrees, NoLostWakeup, Booting, Booted
  <2> QED
    BY <2>1, <2>2, <2>3 DEF FlightInv
<1>11. CASE ClearMountedStore
  <2>1. FlagWriters'
    BY <1>0, <1>a, <1>11 DEF ClearMountedStore, Goto, Reply, InFlight, FlagWriters, EdrAgrees, Booting, Booted
  <2>2. EdrAgrees'
    BY <1>0, <1>a, <1>11 DEF ClearMountedStore, Goto, Reply, InFlight, FlagWriters, EdrAgrees, Booting, Booted, EdrMounted, EdrUnmounted, Recording
  <2>3. NoLostWakeup'
    BY <1>0, <1>a, <1>11 DEF ClearMountedStore, Goto, Reply, InFlight, FlagWriters, EdrAgrees, NoLostWakeup, Booting, Booted
  <2> QED
    BY <2>1, <2>2, <2>3 DEF FlightInv
<1>12. CASE SignalUnmounted
  <2>1. FlagWriters'
    BY <1>0, <1>a, <1>12, <1>0 DEF SignalUnmounted, Goto, Reply, InFlight, FlagWriters, EdrAgrees, Booting, Booted
  <2>2. EdrAgrees'
    BY <1>0, <1>a, <1>12, <1>0 DEF SignalUnmounted, Goto, Reply, InFlight, FlagWriters, EdrAgrees, Booting, Booted, EdrMounted, EdrUnmounted, Recording
  <2>3. NoLostWakeup'
    BY <1>0, <1>a, <1>12, <1>0 DEF SignalUnmounted, Goto, Reply, InFlight, FlagWriters, EdrAgrees, NoLostWakeup, Booting, Booted
  <2> QED
    BY <2>1, <2>2, <2>3 DEF FlightInv
<1> QED
  BY <1>1, <1>2, <1>3, <1>4, <1>5, <1>6, <1>7, <1>8, <1>9, <1>10, <1>11, <1>12, <1>0 DEF StorageStep, AreaStep, Unmount, ClearLoad, ClearStore, LfsFormat, EdrAgrees, EdrMounted, EdrUnmounted, Recording

LEMMA FlightEdr ==
    ASSUME InFlight, IInv, EdrTask
    PROVE  FlightInv'
<1>0. /\ TypeOK /\ FlagWriters /\ EdrAgrees /\ NoLostWakeup
      /\ pc \in [Tasks -> Places] /\ tmp \in [Tasks -> SUBSET Flags]
      /\ call \in [Tasks -> Calls] /\ lfs \in BOOLEAN /\ fsPtr \in BOOLEAN
      /\ "edr" \in Tasks /\ "boot" \in Tasks
  BY DEF IInv, TypeOK, TaskTypeOK, AreaTypeOK, Tasks
<1>1. CASE WaitUntilMounted
  <2>1. FlagWriters'
    BY <1>0, <1>1 DEF WaitUntilMounted, Goto, Reply, areaVars, recVars, manageVars, InFlight, FlagWriters, EdrAgrees, Booting, Booted
  <2>2. EdrAgrees'
    BY <1>0, <1>1 DEF WaitUntilMounted, Goto, Reply, areaVars, recVars, manageVars, InFlight, FlagWriters, EdrAgrees, Booting, Booted, EdrMounted, EdrUnmounted, Recording
  <2>3. NoLostWakeup'
    BY <1>0, <1>1 DEF WaitUntilMounted, Goto, Reply, areaVars, recVars, manageVars, InFlight, FlagWriters, EdrAgrees, NoLostWakeup, Booting, Booted
  <2> QED
    BY <2>1, <2>2, <2>3 DEF FlightInv
<1>2. CASE WaitUntilUnmounted
  <2>1. FlagWriters'
    BY <1>0, <1>2 DEF WaitUntilUnmounted, Goto, Reply, areaVars, recVars, manageVars, InFlight, FlagWriters, EdrAgrees, Booting, Booted
  <2>2. EdrAgrees'
    BY <1>0, <1>2 DEF WaitUntilUnmounted, Goto, Reply, areaVars, recVars, manageVars, InFlight, FlagWriters, EdrAgrees, Booting, Booted, EdrMounted, EdrUnmounted, Recording
  <2>3. NoLostWakeup'
    BY <1>0, <1>2 DEF WaitUntilUnmounted, Goto, Reply, areaVars, recVars, manageVars, InFlight, FlagWriters, EdrAgrees, NoLostWakeup, Booting, Booted
  <2> QED
    BY <2>1, <2>2, <2>3 DEF FlightInv
<1>3. CASE WaitAny
  <2>1. FlagWriters'
    BY <1>0, <1>3 DEF WaitAny, Goto, Reply, recVars, manageVars, InFlight, FlagWriters, EdrAgrees, Booting, Booted
  <2>2. EdrAgrees'
    BY <1>0, <1>3 DEF WaitAny, Goto, Reply, recVars, manageVars, InFlight, FlagWriters, EdrAgrees, Booting, Booted, EdrMounted, EdrUnmounted, Recording
  <2>3. NoLostWakeup'
    BY <1>0, <1>3 DEF WaitAny, Goto, Reply, recVars, manageVars, InFlight, FlagWriters, EdrAgrees, NoLostWakeup, Booting, Booted
  <2> QED
    BY <2>1, <2>2, <2>3 DEF FlightInv
<1>4. CASE AccountRun
  <2>1. FlagWriters'
    BY <1>0, <1>4 DEF AccountRun, Goto, Reply, areaVars, recVars, manageVars, InFlight, FlagWriters, EdrAgrees, Booting, Booted
  <2>2. EdrAgrees'
    BY <1>0, <1>4 DEF AccountRun, Goto, Reply, areaVars, recVars, manageVars, InFlight, FlagWriters, EdrAgrees, Booting, Booted, EdrMounted, EdrUnmounted, Recording
  <2>3. NoLostWakeup'
    BY <1>0, <1>4 DEF AccountRun, Goto, Reply, areaVars, recVars, manageVars, InFlight, FlagWriters, EdrAgrees, NoLostWakeup, Booting, Booted
  <2> QED
    BY <2>1, <2>2, <2>3 DEF FlightInv
<1>5. CASE Decide
  <2>1. FlagWriters'
    BY <1>0, <1>5 DEF Decide, Goto, Reply, areaVars, recVars, manageVars, InFlight, FlagWriters, EdrAgrees, Booting, Booted
  <2>2. EdrAgrees'
    BY <1>0, <1>5 DEF Decide, Goto, Reply, areaVars, recVars, manageVars, InFlight, FlagWriters, EdrAgrees, Booting, Booted, EdrMounted, EdrUnmounted, Recording
  <2>3. NoLostWakeup'
    BY <1>0, <1>5 DEF Decide, Goto, Reply, areaVars, recVars, manageVars, InFlight, FlagWriters, EdrAgrees, NoLostWakeup, Booting, Booted
  <2> QED
    BY <2>1, <2>2, <2>3 DEF FlightInv
<1>6. CASE Remount
  <2>1. FlagWriters'
    BY <1>0, <1>6 DEF Remount, Goto, Reply, areaVars, recVars, manageVars, InFlight, FlagWriters, EdrAgrees, Booting, Booted
  <2>2. EdrAgrees'
    BY <1>0, <1>6 DEF Remount, Goto, Reply, areaVars, recVars, manageVars, InFlight, FlagWriters, EdrAgrees, Booting, Booted, EdrMounted, EdrUnmounted, Recording
  <2>3. NoLostWakeup'
    BY <1>0, <1>6 DEF Remount, Goto, Reply, areaVars, recVars, manageVars, InFlight, FlagWriters, EdrAgrees, NoLostWakeup, Booting, Booted
  <2> QED
    BY <2>1, <2>2, <2>3 DEF FlightInv
<1>7. CASE ClearQueue
  <2>1. FlagWriters'
    BY <1>0, <1>7 DEF ClearQueue, Goto, Reply, areaVars, recVars, manageVars, InFlight, FlagWriters, EdrAgrees, Booting, Booted
  <2>2. EdrAgrees'
    BY <1>0, <1>7 DEF ClearQueue, Goto, Reply, areaVars, recVars, manageVars, InFlight, FlagWriters, EdrAgrees, Booting, Booted, EdrMounted, EdrUnmounted, Recording
  <2>3. NoLostWakeup'
    BY <1>0, <1>7 DEF ClearQueue, Goto, Reply, areaVars, recVars, manageVars, InFlight, FlagWriters, EdrAgrees, NoLostWakeup, Booting, Booted
  <2> QED
    BY <2>1, <2>2, <2>3 DEF FlightInv
<1>8. CASE OpenLog
  <2>1. FlagWriters'
    BY <1>0, <1>8 DEF OpenLog, Goto, Reply, areaVars, recVars, manageVars, InFlight, FlagWriters, EdrAgrees, Booting, Booted
  <2>2. EdrAgrees'
    BY <1>0, <1>8 DEF OpenLog, Goto, Reply, areaVars, recVars, manageVars, InFlight, FlagWriters, EdrAgrees, Booting, Booted, EdrMounted, EdrUnmounted, Recording
  <2>3. NoLostWakeup'
    BY <1>0, <1>8 DEF OpenLog, Goto, Reply, areaVars, recVars, manageVars, InFlight, FlagWriters, EdrAgrees, NoLostWakeup, Booting, Booted
  <2> QED
    BY <2>1, <2>2, <2>3 DEF FlightInv
<1>9. CASE LogOpened
  <2>1. FlagWriters'
    BY <1>0, <1>9 DEF LogOpened, Goto, Reply, areaVars, recVars, manageVars, RecordDone, InFlight, FlagWriters, EdrAgrees, Booting, Booted
  <2>2. EdrAgrees'
    BY <1>0, <1>9 DEF LogOpened, Goto, Reply, areaVars, recVars, manageVars, RecordDone, InFlight, FlagWriters, EdrAgrees, Booting, Booted, EdrMounted, EdrUnmounted, Recording
  <2>3. NoLostWakeup'
    BY <1>0, <1>9 DEF LogOpened, Goto, Reply, areaVars, recVars, manageVars, RecordDone, InFlight, FlagWriters, EdrAgrees, NoLostWakeup, Booting, Booted
  <2> QED
    BY <2>1, <2>2, <2>3 DEF FlightInv
<1>10. CASE Start
  <2>1. FlagWriters'
    BY <1>0, <1>10 DEF Start, Goto, Reply, areaVars, recVars, manageVars, InFlight, FlagWriters, EdrAgrees, Booting, Booted
  <2>2. EdrAgrees'
    BY <1>0, <1>10 DEF Start, Goto, Reply, areaVars, recVars, manageVars, InFlight, FlagWriters, EdrAgrees, Booting, Booted, EdrMounted, EdrUnmounted, Recording
  <2>3. NoLostWakeup'
    BY <1>0, <1>10 DEF Start, Goto, Reply, areaVars, recVars, manageVars, InFlight, FlagWriters, EdrAgrees, NoLostWakeup, Booting, Booted
  <2> QED
    BY <2>1, <2>2, <2>3 DEF FlightInv
<1>11. CASE Receive
  <2>1. FlagWriters'
    BY <1>0, <1>11 DEF Receive, Goto, Reply, areaVars, recVars, manageVars, InFlight, FlagWriters, EdrAgrees, Booting, Booted
  <2>2. EdrAgrees'
    BY <1>0, <1>11 DEF Receive, Goto, Reply, areaVars, recVars, manageVars, InFlight, FlagWriters, EdrAgrees, Booting, Booted, EdrMounted, EdrUnmounted, Recording
  <2>3. NoLostWakeup'
    BY <1>0, <1>11 DEF Receive, Goto, Reply, areaVars, recVars, manageVars, InFlight, FlagWriters, EdrAgrees, NoLostWakeup, Booting, Booted
  <2> QED
    BY <2>1, <2>2, <2>3 DEF FlightInv
<1>12. CASE Exit
  <2>1. FlagWriters'
    BY <1>0, <1>12 DEF Exit, Goto, Reply, areaVars, recVars, manageVars, InFlight, FlagWriters, EdrAgrees, Booting, Booted
  <2>2. EdrAgrees'
    BY <1>0, <1>12 DEF Exit, Goto, Reply, areaVars, recVars, manageVars, InFlight, FlagWriters, EdrAgrees, Booting, Booted, EdrMounted, EdrUnmounted, Recording
  <2>3. NoLostWakeup'
    BY <1>0, <1>12 DEF Exit, Goto, Reply, areaVars, recVars, manageVars, InFlight, FlagWriters, EdrAgrees, NoLostWakeup, Booting, Booted
  <2> QED
    BY <2>1, <2>2, <2>3 DEF FlightInv
<1>13. CASE StorageStep("edr") \/ (Unmount /\ UNCHANGED <<recVars, manageVars>>)
  BY <1>13, FlightEdrArea
<1> QED
  BY <1>1, <1>2, <1>3, <1>4, <1>5, <1>6, <1>7, <1>8, <1>9, <1>10, <1>11, <1>12, <1>13 DEF EdrTask

LEMMA FlightStep == InFlight /\ IInv /\ [Next]_vars => IInv'
<1> SUFFICES ASSUME InFlight, IInv, [Next]_vars PROVE FlightInv'
  BY TypeNext DEF IInv, FlightInv
<1> DEFINE Elsewhere == {"idle", "stopChk", "recordChk", "recordSend", "simulateSend", "work"}
<1>0. TypeOK /\ FlagWriters
  BY DEF IInv
<1>1. CASE EdrTask
  BY <1>1, FlightEdr
<1>2. CASE BootTask
  BY <1>2, FlightBoot DEF BootTask, StorageStep, recVars
<1>3. ASSUME NEW t \in Tasks \ {"edr", "boot"}, Record(t) \/ NewRecord(t)
      PROVE  FlightInv'
  <2>1. RecordDone(t) \in Elsewhere
    BY <1>0, <1>3 DEF RecordDone, Record, RecordCheck, RecordSend, NewRecord
  <2>2. \E l \in Elsewhere : Goto(t, l)
    BY <1>3, <2>1 DEF Record, RecordCheck, RecordSend, NewRecord
  <2>3. UNCHANGED <<areaVars, tmp, recState, call>>
    BY <1>3 DEF Record, RecordCheck, RecordSend, NewRecord, recVars
  <2> QED
    BY <2>2, <2>3, FlightOther
<1>4. CASE CmdTask
  <2>1. CASE StorageStep("cmd") \/ (EraseCheck /\ UNCHANGED <<recVars, manageVars>>)
    BY <1>0, <2>1 DEF StorageStep, AreaStep, EraseCheck, ClearLoad, ClearStore, MountCheck,
       LfsMount, SetMountedLoad, SetMountedStore, SignalMounted, MarkErroredLoad,
       MarkErroredStore, LfsFormat, FlagWriters, Tasks
  <2>2. CASE StopCheck \/ SimulateSend
    <3>1. \E l \in Elsewhere : Goto("cmd", l) \/ Reply("cmd", l, "error")
      BY <2>2 DEF StopCheck, SimulateSend
    <3>2. UNCHANGED <<areaVars, tmp, recState, call>>
      BY <2>2 DEF StopCheck, SimulateSend, recVars
    <3> QED
      BY <3>1, <3>2, FlightOther DEF Tasks
  <2>3. CASE Record("cmd")
    BY <1>3, <2>3 DEF Tasks
  <2> QED
    BY <1>4, <2>1, <2>2, <2>3 DEF CmdTask
<1>5. ASSUME NEW c \in Commands, TakeCommand(c) PROVE FlightInv'
  <2>1. c \in {"UNMOUNT", "SIMULATE_ERROR"}
    BY CommandsAssumption DEF InFlight
  <2>2. \E l \in Elsewhere : Goto("cmd", l)
    BY <1>5, <2>1 DEF TakeCommand, CommandPlaces
  <2>3. UNCHANGED <<areaVars, tmp, recState>> /\ call'["edr"] = call["edr"]
    BY <1>0, <1>5 DEF TakeCommand, recVars, TypeOK, TaskTypeOK, Tasks
  <2> QED
    BY <2>2, <2>3, FlightOther DEF Tasks
<1>6. CASE \E p \in Producers : NewRecord(p) \/ Record(p)
  BY <1>3, <1>6, ProducersAssumption DEF Tasks
<1>7. CASE UNCHANGED vars
  BY <1>7 DEF vars, areaVars, taskVars, recVars, IInv, FlightInv, FlagWriters, EdrAgrees, NoLostWakeup
<1> QED
  BY <1>1, <1>2, <1>4, <1>5, <1>6, <1>7 DEF Next

LEMMA FlightInit == Init => IInv
<1> SUFFICES ASSUME Init PROVE IInv
  OBVIOUS
<1>1. FlagWriters
  BY DEF Init, AreaInit, FlagWriters, Booting, Booted, Tasks
<1>2. EdrAgrees /\ NoLostWakeup
  BY DEF Init, AreaInit, EdrAgrees, EdrMounted, EdrUnmounted, Recording, Booted, NoLostWakeup, Tasks
<1> QED
  BY <1>1, <1>2, TypeInit DEF IInv

LEMMA FlightImplies == IInv => MountedFlagAgrees /\ RecorderHasFilesystem /\ NoLostWakeup
<1> SUFFICES ASSUME IInv PROVE MountedFlagAgrees /\ RecorderHasFilesystem
  BY DEF IInv
<1>1. MountedFlagAgrees
  BY DEF IInv, TypeOK, AreaTypeOK, FlagWriters, EdrAgrees, MountedFlagAgrees, Booting, Tasks
<1>2. RecorderHasFilesystem
  BY DEF IInv, FlagWriters, EdrAgrees, EdrMounted, RecorderHasFilesystem, Recording, Booting, Booted
<1> QED
  BY <1>1, <1>2

(* In flight, whatever device operation fails and however the tasks        *)
(* interleave: FLAG_MOUNTED is what LittleFS is (but for the task between  *)
(* its call and its store), the recorder works on a mounted filesystem     *)
(* from run() to its return, and no wake-up of the EDR task is lost.       *)
LEMMA FlightSafe ==
    InFlight => (Spec => [](MountedFlagAgrees /\ RecorderHasFilesystem /\ NoLostWakeup))
<1> SUFFICES ASSUME InFlight PROVE Spec => [](MountedFlagAgrees /\ RecorderHasFilesystem /\ NoLostWakeup)
  OBVIOUS
<1>1. IInv /\ [Next]_vars => IInv'
  BY FlightStep
<1> QED
  BY <1>1, FlightInit, FlightImplies, PTL DEF Spec

(* In flight FLAG_MOUNTED, which three tasks load and store without a      *)
(* lock, never loses an update.                                            *)
THEOREM FlightFlagAgrees == InFlight => (Spec => []MountedFlagAgrees)
  BY FlightSafe, PTL

(* In flight the recorder keeps its mounted filesystem from run() to its   *)
(* return.                                                                 *)
THEOREM FlightRecorderSafe == InFlight => (Spec => []RecorderHasFilesystem)
  BY FlightSafe, PTL

(* In flight waitUntilMounted() and waitUntilUnmounted() miss no change.   *)
THEOREM FlightWakeupsKept == InFlight => (Spec => []NoLostWakeup)
  BY FlightSafe, PTL

(* In flight no task calls lfs_mount() on a mounted filesystem.            *)
THEOREM FlightMountsUnmounted == InFlight => (Spec => MountsUnmounted)
<1> SUFFICES ASSUME InFlight PROVE Spec => MountsUnmounted
  OBVIOUS
<1>1. IInv /\ [Next]_vars => IInv'
  BY FlightStep
<1>2. IInv => (\A t \in Tasks : Leaves(t, "lfsMount") => ~lfs)
  BY DEF IInv, FlagWriters, EdrAgrees, EdrUnmounted, Leaves, Booting, Booted, Tasks
<1> QED
  BY <1>1, <1>2, FlightInit, PTL DEF Spec, MountsUnmounted

(* In flight no attempt is made to mount an area that is marked as errored *)
(* until a command clears the flag.                                        *)
THEOREM FlightErroredNotMounted == InFlight => (Spec => ErroredNotMounted)
<1> SUFFICES ASSUME InFlight PROVE Spec => ErroredNotMounted
  OBVIOUS
<1>1. IInv /\ [Next]_vars => IInv'
  BY FlightStep
<1>2. IInv => (\A t \in Tasks : Leaves(t, "lfsMount") => "ERRORED" \notin flags)
  BY DEF IInv, FlagWriters, EdrAgrees, Leaves, Tasks
<1> QED
  BY <1>1, <1>2, FlightInit, PTL DEF Spec, ErroredNotMounted

---------------------------------------------------------------------------
(* The other setting: a careful operator mounts, unmounts and erases, and  *)
(* no operation fails while a log is open.                                 *)
CarefulOperator ==
    Careful /\ Faults \cap {"unmount", "open", "write"} = {} /\ "SIMULATE_ERROR" \notin Commands

(* The tasks that mount: the storage task, and then the command task. *)
Mounters == {"boot", "cmd"}

(* The places at which the cmd task leaves the area alone. *)
Quiet == {"idle", "stopChk", "recordChk", "recordSend"}
MountingPlaces == {"mountChk", "lfsMount", "setLoad", "setStore", "setEvt", "lfsFormat"}

BootPlaces == {"setup", "cfgLoad", "cfgStore", "mountedAtBoot", "formatChk", "done"} \cup MountingPlaces
CmdPlaces == {"clearLoad", "clearStore", "errLoad", "errStore", "eraseChk"} \cup Quiet \cup MountingPlaces

(* Ground control waits for the storage task before it sends MOUNT or ERASE. *)
InTurn ==
    /\ pc["boot"] \in BootPlaces /\ pc["cmd"] \in CmdPlaces
    /\ pc["boot"] # "done" => pc["cmd"] \in Quiet
    /\ \A p \in Producers : pc[p] \in {"work", "recordChk", "recordSend"}

(* While one of them has to do with the area, the flag is not set, and what*)
(* it has loaded is what the flags still are.                              *)
OwnsArea(t) ==
    /\ pc[t] \in {"setup", "cfgLoad", "cfgStore", "clearLoad", "clearStore", "errLoad", "errStore",
                  "lfsMount", "setLoad", "setStore", "lfsFormat"} => "MOUNTED" \notin flags
    /\ pc[t] \in {"cfgStore", "clearStore", "setStore", "errStore"} => tmp[t] = flags
    /\ pc[t] \in {"cfgLoad", "cfgStore", "lfsMount", "setLoad", "setStore"} => fsPtr
    /\ pc[t] = "lfsMount" => "ERRORED" \notin flags

(* The EDR task only unmounts: without I/O error it has no reason to mount.*)
EdrUnmounts ==
    /\ pc["edr"] \in {"waitMounted", "mountedEvt", "unmountChk", "clrEvt", "waitUnmounted", "unmountedEvt",
                      "decide"} \cup EdrMounted
    /\ pc["edr"] \in EdrMounted \cup {"unmountedEvt"} => "MOUNTED" \in flags
    /\ pc["edr"] = "clrStore" => tmp["edr"] = flags
    /\ recState # "DISABLED" => pc["edr"] \in Recording \ {"run", "open"}
    /\ ~hasIoError /\ ~maybeError /\ queue \in Seq({"record", "stop"})

(* Between its lfs_mount() and its store of FLAG_MOUNTED. *)
Mounted(t) == pc[t] \in {"setLoad", "setStore"}

LfsAgrees ==
    /\ "MOUNTED" \in flags => fsPtr
    /\ lfs <=> \/ Mounted("boot") \/ Mounted("cmd")
               \/ "MOUNTED" \in flags /\ pc["edr"] \notin {"clrLoad", "clrStore"}

CarefulInv ==
    /\ TypeOK
    /\ InTurn
    /\ OwnsArea("boot") /\ OwnsArea("cmd")
    /\ EdrUnmounts
    /\ LfsAgrees
    /\ NoLostWakeup

---------------------------------------------------------------------------
LEMMA CarefulFacts ==
    ASSUME CarefulInv
    PROVE  /\ pc \in [Tasks -> Places] /\ tmp \in [Tasks -> SUBSET Flags] /\ call \in [Tasks -> Calls]
           /\ flags \in SUBSET Flags /\ lfs \in BOOLEAN /\ fsPtr \in BOOLEAN
           /\ {"edr", "boot", "cmd"} \subseteq Tasks /\ Producers \cap {"edr", "boot", "cmd"} = {}
  BY ProducersAssumption DEF CarefulInv, TypeOK, TaskTypeOK, AreaTypeOK, Tasks

(* A mounter that stays at its places keeps the order of the two. *)
LEMMA BootMoves ==
    ASSUME CarefulInv, pc["cmd"] \in Quiet, pc'["boot"] \in BootPlaces,
           \A v \in Tasks \ {"boot"} : pc'[v] = pc[v]
    PROVE  InTurn'
<1>1. InTurn /\ {"edr", "boot", "cmd"} \subseteq Tasks /\ Producers \subseteq Tasks \ {"boot"}
  BY CarefulFacts DEF CarefulInv, Tasks
<1>2. pc'["cmd"] = pc["cmd"] /\ \A p \in Producers : pc'[p] = pc[p]
  BY <1>1
<1> QED
  BY <1>1, <1>2 DEF InTurn

LEMMA CmdMoves ==
    ASSUME CarefulInv, pc["boot"] = "done" \/ pc'["cmd"] \in Quiet, pc'["cmd"] \in CmdPlaces,
           \A v \in Tasks \ {"cmd"} : pc'[v] = pc[v]
    PROVE  InTurn'
<1>1. InTurn /\ {"edr", "boot", "cmd"} \subseteq Tasks /\ Producers \subseteq Tasks \ {"cmd"}
  BY CarefulFacts DEF CarefulInv, Tasks
<1>2. pc'["boot"] = pc["boot"] /\ \A p \in Producers : pc'[p] = pc[p]
  BY <1>1
<1> QED
  BY <1>1, <1>2 DEF InTurn

(* What a step of one mounter at a place of its own must leave behind. *)
LEMMA CarefulArea ==
    ASSUME CarefulInv, NEW t \in Mounters, NEW u \in Mounters \ {t}, AreaStep(t),
           UNCHANGED <<recVars, manageVars>>
    PROVE  InTurn' /\ OwnsArea(t)' /\ OwnsArea(u)' /\ EdrUnmounts' /\ LfsAgrees' /\ NoLostWakeup'
<1>0. /\ InTurn /\ OwnsArea(t) /\ OwnsArea(u) /\ EdrUnmounts /\ LfsAgrees /\ NoLostWakeup
      /\ pc \in [Tasks -> Places] /\ tmp \in [Tasks -> SUBSET Flags] /\ call \in [Tasks -> Calls]
      /\ flags \in SUBSET Flags /\ lfs \in BOOLEAN /\ fsPtr \in BOOLEAN
      /\ {"edr", "boot", "cmd"} \subseteq Tasks /\ Producers \cap {"edr", "boot", "cmd"} = {}
      /\ t # "edr" /\ u # "edr" /\ t # u /\ {t, u} = {"boot", "cmd"}
  BY CarefulFacts DEF CarefulInv, Mounters
<1>1. UNCHANGED <<recState, queue, dropped, maybeError, hasIoError, remountCounter>>
  BY DEF recVars, manageVars
(* The other mounter has nothing to do with the area. *)
<1>2. pc[u] \in Quiet \cup {"done"}
  BY <1>0 DEF AreaStep, ClearLoad, ClearStore, MountCheck, LfsMount, SetMountedLoad,
     SetMountedStore,
     SignalMounted, MarkErroredLoad, MarkErroredStore, LfsFormat, InTurn, BootPlaces, CmdPlaces, MountingPlaces, Quiet
<1>3. CASE ClearLoad(t)
  <2>0. /\ pc'[t] \in {"clearStore"}
        /\ \A v \in Tasks \ {t} : pc'[v] = pc[v]
    BY <1>0, <1>3 DEF ClearLoad, Goto, Reply, areaVars
  <2>1. InTurn'
    <3>1. pc[t] = "clearLoad" /\ pc[u] \in Quiet \cup {"done"}
      BY <1>2, <1>3 DEF ClearLoad
    <3>2. CASE t = "boot"
      BY <1>0, <2>0, <3>1, <3>2, BootMoves DEF InTurn, BootPlaces, CmdPlaces, Quiet, MountingPlaces
    <3>3. CASE t = "cmd"
      BY <1>0, <2>0, <3>1, <3>3, CmdMoves DEF InTurn, BootPlaces, CmdPlaces, Quiet, MountingPlaces
    <3> QED
      BY <3>2, <3>3 DEF Mounters
  <2>2. OwnsArea(t)' /\ OwnsArea(u)'
    BY <1>0, <1>2, <1>3 DEF ClearLoad, Goto, Reply, areaVars, InTurn, BootPlaces, CmdPlaces,
       OwnsArea, Quiet, MountingPlaces
  <2>3. EdrUnmounts'
    BY <1>0, <1>1, <1>3 DEF ClearLoad, Goto, Reply, areaVars, InTurn, BootPlaces, CmdPlaces,
       OwnsArea, EdrUnmounts, EdrMounted, Recording
  <2>4. LfsAgrees'
    BY <1>0, <1>1, <1>2, <1>3 DEF ClearLoad, Goto, Reply, areaVars, InTurn, BootPlaces, CmdPlaces,
       OwnsArea, EdrUnmounts, EdrMounted, Recording, LfsAgrees, Mounted, Quiet
  <2>5. NoLostWakeup'
    BY <1>0, <1>3 DEF ClearLoad, Goto, Reply, areaVars, OwnsArea, EdrUnmounts, NoLostWakeup
  <2> QED
    BY <2>1, <2>2, <2>3, <2>4, <2>5
<1>4. CASE ClearStore(t)
  <2>0. /\ pc'[t] \in {"mountChk"}
        /\ \A v \in Tasks \ {t} : pc'[v] = pc[v]
    BY <1>0, <1>4 DEF ClearStore, Goto, Reply
  <2>1. InTurn'
    <3>1. pc[t] = "clearStore" /\ pc[u] \in Quiet \cup {"done"}
      BY <1>2, <1>4 DEF ClearStore
    <3>2. CASE t = "boot"
      BY <1>0, <2>0, <3>1, <3>2, BootMoves DEF InTurn, BootPlaces, CmdPlaces, Quiet, MountingPlaces
    <3>3. CASE t = "cmd"
      BY <1>0, <2>0, <3>1, <3>3, CmdMoves DEF InTurn, BootPlaces, CmdPlaces, Quiet, MountingPlaces
    <3> QED
      BY <3>2, <3>3 DEF Mounters
  <2>2. OwnsArea(t)' /\ OwnsArea(u)'
    BY <1>0, <1>2, <1>4 DEF ClearStore, Goto, Reply, InTurn, BootPlaces, CmdPlaces, OwnsArea,
       Quiet, MountingPlaces
  <2>3. EdrUnmounts'
    BY <1>0, <1>1, <1>4 DEF ClearStore, Goto, Reply, InTurn, BootPlaces, CmdPlaces, OwnsArea,
       EdrUnmounts, EdrMounted, Recording
  <2>4. LfsAgrees'
    BY <1>0, <1>1, <1>2, <1>4 DEF ClearStore, Goto, Reply, InTurn, BootPlaces, CmdPlaces,
       OwnsArea, EdrUnmounts, EdrMounted, Recording, LfsAgrees, Mounted, Quiet
  <2>5. NoLostWakeup'
    BY <1>0, <1>4 DEF ClearStore, Goto, Reply, OwnsArea, EdrUnmounts, NoLostWakeup
  <2> QED
    BY <2>1, <2>2, <2>3, <2>4, <2>5
<1>5. CASE MountCheck(t)
  <2>0. /\ pc'[t] \in IF t = "cmd" THEN {"idle", "lfsMount", "errLoad"} ELSE {"mountedAtBoot", "lfsMount", "formatChk", "done"}
        /\ \A v \in Tasks \ {t} : pc'[v] = pc[v]
    BY <1>0, <1>5 DEF MountCheck, Goto, Reply, areaVars, MountOk, MountFailed
  <2>1. InTurn'
    <3>1. pc[t] = "mountChk" /\ pc[u] \in Quiet \cup {"done"}
      BY <1>2, <1>5 DEF MountCheck
    <3>2. CASE t = "boot"
      BY <1>0, <2>0, <3>1, <3>2, BootMoves DEF InTurn, BootPlaces, CmdPlaces, Quiet, MountingPlaces
    <3>3. CASE t = "cmd"
      BY <1>0, <2>0, <3>1, <3>3, CmdMoves DEF InTurn, BootPlaces, CmdPlaces, Quiet, MountingPlaces
    <3> QED
      BY <3>2, <3>3 DEF Mounters
  <2>2. OwnsArea(t)' /\ OwnsArea(u)'
    BY <1>0, <1>2, <1>5 DEF MountCheck, Goto, Reply, areaVars, MountOk, MountFailed, InTurn,
       BootPlaces, CmdPlaces, OwnsArea, Quiet, MountingPlaces
  <2>3. EdrUnmounts'
    BY <1>0, <1>1, <1>5 DEF MountCheck, Goto, Reply, areaVars, MountOk, MountFailed, InTurn,
       BootPlaces, CmdPlaces, OwnsArea, EdrUnmounts, EdrMounted, Recording
  <2>4. LfsAgrees'
    BY <1>0, <1>1, <1>2, <1>5 DEF MountCheck, Goto, Reply, areaVars, MountOk, MountFailed, InTurn,
       BootPlaces, CmdPlaces, OwnsArea, EdrUnmounts, EdrMounted, Recording, LfsAgrees, Mounted, Quiet
  <2>5. NoLostWakeup'
    BY <1>0, <1>5 DEF MountCheck, Goto, Reply, areaVars, MountOk, MountFailed, OwnsArea,
       EdrUnmounts, NoLostWakeup
  <2> QED
    BY <2>1, <2>2, <2>3, <2>4, <2>5
<1>6. CASE LfsMount(t)
  <2>0. /\ pc'[t] \in IF t = "cmd" THEN {"setLoad", "errLoad"} ELSE {"setLoad", "formatChk", "done"}
        /\ \A v \in Tasks \ {t} : pc'[v] = pc[v]
    BY <1>0, <1>6 DEF LfsMount, Goto, Reply, MountFailed
  <2>1. InTurn'
    <3>1. pc[t] = "lfsMount" /\ pc[u] \in Quiet \cup {"done"}
      BY <1>2, <1>6 DEF LfsMount
    <3>2. CASE t = "boot"
      BY <1>0, <2>0, <3>1, <3>2, BootMoves DEF InTurn, BootPlaces, CmdPlaces, Quiet, MountingPlaces
    <3>3. CASE t = "cmd"
      BY <1>0, <2>0, <3>1, <3>3, CmdMoves DEF InTurn, BootPlaces, CmdPlaces, Quiet, MountingPlaces
    <3> QED
      BY <3>2, <3>3 DEF Mounters
  <2>2. OwnsArea(t)' /\ OwnsArea(u)'
    BY <1>0, <1>2, <1>6 DEF LfsMount, Goto, Reply, MountFailed, InTurn, BootPlaces, CmdPlaces,
       OwnsArea, Quiet, MountingPlaces
  <2>3. EdrUnmounts'
    BY <1>0, <1>1, <1>6 DEF LfsMount, Goto, Reply, MountFailed, InTurn, BootPlaces, CmdPlaces,
       OwnsArea, EdrUnmounts, EdrMounted, Recording
  <2>4. LfsAgrees'
    BY <1>0, <1>1, <1>2, <1>6 DEF LfsMount, Goto, Reply, MountFailed, InTurn, BootPlaces,
       CmdPlaces, OwnsArea, EdrUnmounts, EdrMounted, Recording, LfsAgrees, Mounted, Quiet
  <2>5. NoLostWakeup'
    BY <1>0, <1>6 DEF LfsMount, Goto, Reply, MountFailed, OwnsArea, EdrUnmounts, NoLostWakeup
  <2> QED
    BY <2>1, <2>2, <2>3, <2>4, <2>5
<1>7. CASE SetMountedLoad(t)
  <2>0. /\ pc'[t] \in {"setStore"}
        /\ \A v \in Tasks \ {t} : pc'[v] = pc[v]
    BY <1>0, <1>7 DEF SetMountedLoad, Goto, Reply, areaVars
  <2>1. InTurn'
    <3>1. pc[t] = "setLoad" /\ pc[u] \in Quiet \cup {"done"}
      BY <1>2, <1>7 DEF SetMountedLoad
    <3>2. CASE t = "boot"
      BY <1>0, <2>0, <3>1, <3>2, BootMoves DEF InTurn, BootPlaces, CmdPlaces, Quiet, MountingPlaces
    <3>3. CASE t = "cmd"
      BY <1>0, <2>0, <3>1, <3>3, CmdMoves DEF InTurn, BootPlaces, CmdPlaces, Quiet, MountingPlaces
    <3> QED
      BY <3>2, <3>3 DEF Mounters
  <2>2. OwnsArea(t)' /\ OwnsArea(u)'
    BY <1>0, <1>2, <1>7 DEF SetMountedLoad, Goto, Reply, areaVars, InTurn, BootPlaces, CmdPlaces,
       OwnsArea, Quiet, MountingPlaces
  <2>3. EdrUnmounts'
    BY <1>0, <1>1, <1>7 DEF SetMountedLoad, Goto, Reply, areaVars, InTurn, BootPlaces, CmdPlaces,
       OwnsArea, EdrUnmounts, EdrMounted, Recording
  <2>4. LfsAgrees'
    BY <1>0, <1>1, <1>2, <1>7 DEF SetMountedLoad, Goto, Reply, areaVars, InTurn, BootPlaces,
       CmdPlaces, OwnsArea, EdrUnmounts, EdrMounted, Recording, LfsAgrees, Mounted, Quiet
  <2>5. NoLostWakeup'
    BY <1>0, <1>7 DEF SetMountedLoad, Goto, Reply, areaVars, OwnsArea, EdrUnmounts, NoLostWakeup
  <2> QED
    BY <2>1, <2>2, <2>3, <2>4, <2>5
<1>8. CASE SetMountedStore(t)
  <2>0. /\ pc'[t] \in {"setEvt"}
        /\ \A v \in Tasks \ {t} : pc'[v] = pc[v]
    BY <1>0, <1>8 DEF SetMountedStore, Goto, Reply
  <2>1. InTurn'
    <3>1. pc[t] = "setStore" /\ pc[u] \in Quiet \cup {"done"}
      BY <1>2, <1>8 DEF SetMountedStore
    <3>2. CASE t = "boot"
      BY <1>0, <2>0, <3>1, <3>2, BootMoves DEF InTurn, BootPlaces, CmdPlaces, Quiet, MountingPlaces
    <3>3. CASE t = "cmd"
      BY <1>0, <2>0, <3>1, <3>3, CmdMoves DEF InTurn, BootPlaces, CmdPlaces, Quiet, MountingPlaces
    <3> QED
      BY <3>2, <3>3 DEF Mounters
  <2>2. OwnsArea(t)' /\ OwnsArea(u)'
    BY <1>0, <1>2, <1>8 DEF SetMountedStore, Goto, Reply, InTurn, BootPlaces, CmdPlaces, OwnsArea,
       Quiet, MountingPlaces
  <2>3. EdrUnmounts'
    BY <1>0, <1>1, <1>8 DEF SetMountedStore, Goto, Reply, InTurn, BootPlaces, CmdPlaces, OwnsArea,
       EdrUnmounts, EdrMounted, Recording
  <2>4. LfsAgrees'
    BY <1>0, <1>1, <1>2, <1>8 DEF SetMountedStore, Goto, Reply, InTurn, BootPlaces, CmdPlaces,
       OwnsArea, EdrUnmounts, EdrMounted, Recording, LfsAgrees, Mounted, Quiet
  <2>5. NoLostWakeup'
    BY <1>0, <1>8 DEF SetMountedStore, Goto, Reply, OwnsArea, EdrUnmounts, NoLostWakeup
  <2> QED
    BY <2>1, <2>2, <2>3, <2>4, <2>5
<1>9. CASE SignalMounted(t)
  <2>0. /\ pc'[t] \in IF t = "cmd" THEN {"idle"} ELSE {"mountedAtBoot"}
        /\ \A v \in Tasks \ {t} : pc'[v] = pc[v]
    BY <1>0, <1>9 DEF SignalMounted, Goto, Reply, MountOk
  <2>1. InTurn'
    <3>1. pc[t] = "setEvt" /\ pc[u] \in Quiet \cup {"done"}
      BY <1>2, <1>9 DEF SignalMounted
    <3>2. CASE t = "boot"
      BY <1>0, <2>0, <3>1, <3>2, BootMoves DEF InTurn, BootPlaces, CmdPlaces, Quiet, MountingPlaces
    <3>3. CASE t = "cmd"
      BY <1>0, <2>0, <3>1, <3>3, CmdMoves DEF InTurn, BootPlaces, CmdPlaces, Quiet, MountingPlaces
    <3> QED
      BY <3>2, <3>3 DEF Mounters
  <2>2. OwnsArea(t)' /\ OwnsArea(u)'
    BY <1>0, <1>2, <1>9 DEF SignalMounted, Goto, Reply, MountOk, InTurn, BootPlaces, CmdPlaces,
       OwnsArea, Quiet, MountingPlaces
  <2>3. EdrUnmounts'
    BY <1>0, <1>1, <1>9 DEF SignalMounted, Goto, Reply, MountOk, InTurn, BootPlaces, CmdPlaces,
       OwnsArea, EdrUnmounts, EdrMounted, Recording
  <2>4. LfsAgrees'
    BY <1>0, <1>1, <1>2, <1>9 DEF SignalMounted, Goto, Reply, MountOk, InTurn, BootPlaces,
       CmdPlaces, OwnsArea, EdrUnmounts, EdrMounted, Recording, LfsAgrees, Mounted, Quiet
  <2>5. NoLostWakeup'
    BY <1>0, <1>9 DEF SignalMounted, Goto, Reply, MountOk, OwnsArea, EdrUnmounts, NoLostWakeup
  <2> QED
    BY <2>1, <2>2, <2>3, <2>4, <2>5
<1>10. CASE MarkErroredLoad(t)
  <2>0. /\ pc'[t] \in IF t = "cmd" THEN {"idle", "errStore"} ELSE {"remount", "errStore"}
        /\ \A v \in Tasks \ {t} : pc'[v] = pc[v]
    BY <1>0, <1>10 DEF MarkErroredLoad, Goto, Reply, areaVars, MarkErroredDone
  <2>1. InTurn'
    <3>1. pc[t] = "errLoad" /\ pc[u] \in Quiet \cup {"done"}
      BY <1>2, <1>10 DEF MarkErroredLoad
    <3>2. CASE t = "boot"
      BY <1>0, <2>0, <3>1, <3>2, BootMoves DEF InTurn, BootPlaces, CmdPlaces, Quiet, MountingPlaces
    <3>3. CASE t = "cmd"
      BY <1>0, <2>0, <3>1, <3>3, CmdMoves DEF InTurn, BootPlaces, CmdPlaces, Quiet, MountingPlaces
    <3> QED
      BY <3>2, <3>3 DEF Mounters
  <2>2. OwnsArea(t)' /\ OwnsArea(u)'
    BY <1>0, <1>2, <1>10 DEF MarkErroredLoad, Goto, Reply, areaVars, MarkErroredDone, InTurn,
       BootPlaces, CmdPlaces, OwnsArea, Quiet, MountingPlaces
  <2>3. EdrUnmounts'
    BY <1>0, <1>1, <1>10 DEF MarkErroredLoad, Goto, Reply, areaVars, MarkErroredDone, InTurn,
       BootPlaces, CmdPlaces, OwnsArea, EdrUnmounts, EdrMounted, Recording
  <2>4. LfsAgrees'
    BY <1>0, <1>1, <1>2, <1>10 DEF MarkErroredLoad, Goto, Reply, areaVars, MarkErroredDone,
       InTurn, BootPlaces, CmdPlaces, OwnsArea, EdrUnmounts, EdrMounted, Recording, LfsAgrees,
       Mounted, Quiet
  <2>5. NoLostWakeup'
    BY <1>0, <1>10 DEF MarkErroredLoad, Goto, Reply, areaVars, MarkErroredDone, OwnsArea,
       EdrUnmounts, NoLostWakeup
  <2> QED
    BY <2>1, <2>2, <2>3, <2>4, <2>5
<1>11. CASE MarkErroredStore(t)
  <2>0. /\ pc'[t] \in IF t = "cmd" THEN {"idle"} ELSE {"remount"}
        /\ \A v \in Tasks \ {t} : pc'[v] = pc[v]
    BY <1>0, <1>11 DEF MarkErroredStore, Goto, Reply, MarkErroredDone
  <2>1. InTurn'
    <3>1. pc[t] = "errStore" /\ pc[u] \in Quiet \cup {"done"}
      BY <1>2, <1>11 DEF MarkErroredStore
    <3>2. CASE t = "boot"
      BY <1>0, <2>0, <3>1, <3>2, BootMoves DEF InTurn, BootPlaces, CmdPlaces, Quiet, MountingPlaces
    <3>3. CASE t = "cmd"
      BY <1>0, <2>0, <3>1, <3>3, CmdMoves DEF InTurn, BootPlaces, CmdPlaces, Quiet, MountingPlaces
    <3> QED
      BY <3>2, <3>3 DEF Mounters
  <2>2. OwnsArea(t)' /\ OwnsArea(u)'
    BY <1>0, <1>2, <1>11 DEF MarkErroredStore, Goto, Reply, MarkErroredDone, InTurn, BootPlaces,
       CmdPlaces, OwnsArea, Quiet, MountingPlaces
  <2>3. EdrUnmounts'
    BY <1>0, <1>1, <1>11 DEF MarkErroredStore, Goto, Reply, MarkErroredDone, InTurn, BootPlaces,
       CmdPlaces, OwnsArea, EdrUnmounts, EdrMounted, Recording
  <2>4. LfsAgrees'
    BY <1>0, <1>1, <1>2, <1>11 DEF MarkErroredStore, Goto, Reply, MarkErroredDone, InTurn,
       BootPlaces, CmdPlaces, OwnsArea, EdrUnmounts, EdrMounted, Recording, LfsAgrees, Mounted, Quiet
  <2>5. NoLostWakeup'
    BY <1>0, <1>11 DEF MarkErroredStore, Goto, Reply, MarkErroredDone, OwnsArea, EdrUnmounts,
       NoLostWakeup
  <2> QED
    BY <2>1, <2>2, <2>3, <2>4, <2>5
<1>12. CASE LfsFormat(t)
  <2>0. /\ pc'[t] \in IF t = "cmd" THEN {"idle", "errLoad"} ELSE {"mountChk"}
        /\ \A v \in Tasks \ {t} : pc'[v] = pc[v]
    BY <1>0, <1>12 DEF LfsFormat, Goto, Reply, FormatOk, FormatFailed
  <2>1. InTurn'
    <3>1. pc[t] = "lfsFormat" /\ pc[u] \in Quiet \cup {"done"}
      BY <1>2, <1>12 DEF LfsFormat
    <3>2. CASE t = "boot"
      BY <1>0, <2>0, <3>1, <3>2, BootMoves DEF InTurn, BootPlaces, CmdPlaces, Quiet, MountingPlaces
    <3>3. CASE t = "cmd"
      BY <1>0, <2>0, <3>1, <3>3, CmdMoves DEF InTurn, BootPlaces, CmdPlaces, Quiet, MountingPlaces
    <3> QED
      BY <3>2, <3>3 DEF Mounters
  <2>2. OwnsArea(t)' /\ OwnsArea(u)'
    BY <1>0, <1>2, <1>12 DEF LfsFormat, Goto, Reply, FormatOk, FormatFailed, InTurn, BootPlaces,
       CmdPlaces, OwnsArea, Quiet, MountingPlaces
  <2>3. EdrUnmounts'
    BY <1>0, <1>1, <1>12 DEF LfsFormat, Goto, Reply, FormatOk, FormatFailed, InTurn, BootPlaces,
       CmdPlaces, OwnsArea, EdrUnmounts, EdrMounted, Recording
  <2>4. LfsAgrees'
    <3>1. ~lfs /\ "MOUNTED" \notin flags
      BY <1>0, <1>2, <1>12 DEF LfsFormat, OwnsArea, LfsAgrees, Mounted, Quiet
    <3>2. ~lfs' /\ UNCHANGED flags
      BY <3>1, <1>12 DEF LfsFormat
    <3> QED
      BY <1>0, <1>2, <2>0, <3>1, <3>2 DEF LfsAgrees, Mounted, Quiet
  <2>5. NoLostWakeup'
    BY <1>0, <1>12 DEF LfsFormat, Goto, Reply, FormatOk, FormatFailed, OwnsArea, EdrUnmounts,
       NoLostWakeup
  <2> QED
    BY <2>1, <2>2, <2>3, <2>4, <2>5
<1> QED
  BY <1>3, <1>4, <1>5, <1>6, <1>7, <1>8, <1>9, <1>10, <1>11, <1>12 DEF AreaStep

(* The steps of setup(). *)
LEMMA CarefulSetup ==
    ASSUME CarefulInv, Setup, UNCHANGED <<recVars, manageVars>>
    PROVE  InTurn' /\ OwnsArea("boot")' /\ OwnsArea("cmd")' /\ EdrUnmounts' /\ LfsAgrees' /\ NoLostWakeup'
<1>0. /\ InTurn /\ OwnsArea("boot") /\ OwnsArea("cmd") /\ EdrUnmounts /\ LfsAgrees /\ NoLostWakeup
      /\ pc \in [Tasks -> Places] /\ tmp \in [Tasks -> SUBSET Flags] /\ call \in [Tasks -> Calls]
      /\ flags \in SUBSET Flags /\ lfs \in BOOLEAN /\ fsPtr \in BOOLEAN
      /\ {"edr", "boot", "cmd"} \subseteq Tasks /\ Producers \cap {"edr", "boot", "cmd"} = {}
  BY CarefulFacts DEF CarefulInv
<1>1. UNCHANGED <<recState, queue, dropped, maybeError, hasIoError, remountCounter>>
  BY DEF recVars, manageVars
<1>2. pc["cmd"] \in Quiet
  BY <1>0 DEF Setup, Configure, ConfigureLoad, ConfigureStore, MountedAtBoot, FormatCheck, InTurn,
     BootPlaces, MountingPlaces
<1>3. CASE Configure
  <2>0. /\ pc'["boot"] \in {"cfgLoad", "mountChk"}
        /\ \A v \in Tasks \ {"boot"} : pc'[v] = pc[v]
    BY <1>0, <1>3 DEF Configure, Goto, Reply
  <2>1. InTurn'
    <3>1. pc["boot"] = "setup"
      BY <1>3 DEF Configure
    <3> QED
      BY <1>0, <1>2, <2>0, <3>1, BootMoves DEF InTurn, BootPlaces, Quiet, MountingPlaces
  <2>2. OwnsArea("boot")' /\ OwnsArea("cmd")'
    BY <1>0, <1>2, <1>3 DEF Configure, Goto, Reply, InTurn, BootPlaces, CmdPlaces, OwnsArea,
       EdrUnmounts, EdrMounted, LfsAgrees, Quiet, MountingPlaces
  <2>3. EdrUnmounts'
    BY <1>0, <1>1, <1>3 DEF Configure, Goto, Reply, InTurn, BootPlaces, CmdPlaces, OwnsArea,
       EdrUnmounts, EdrMounted, Recording
  <2>4. LfsAgrees'
    BY <1>0, <1>1, <1>2, <1>3 DEF Configure, Goto, Reply, InTurn, BootPlaces, CmdPlaces, OwnsArea,
       EdrUnmounts, EdrMounted, Recording, LfsAgrees, Mounted, Quiet
  <2>5. NoLostWakeup'
    BY <1>0, <1>3 DEF Configure, Goto, Reply, OwnsArea, EdrUnmounts, NoLostWakeup
  <2> QED
    BY <2>1, <2>2, <2>3, <2>4, <2>5
<1>4. CASE ConfigureLoad
  <2>0. /\ pc'["boot"] \in {"cfgStore"}
        /\ \A v \in Tasks \ {"boot"} : pc'[v] = pc[v]
    BY <1>0, <1>4 DEF ConfigureLoad, Goto, Reply, areaVars
  <2>1. InTurn'
    <3>1. pc["boot"] = "cfgLoad"
      BY <1>4 DEF ConfigureLoad
    <3> QED
      BY <1>0, <1>2, <2>0, <3>1, BootMoves DEF InTurn, BootPlaces, Quiet, MountingPlaces
  <2>2. OwnsArea("boot")' /\ OwnsArea("cmd")'
    BY <1>0, <1>2, <1>4 DEF ConfigureLoad, Goto, Reply, areaVars, InTurn, BootPlaces, CmdPlaces,
       OwnsArea, EdrUnmounts, EdrMounted, LfsAgrees, Quiet, MountingPlaces
  <2>3. EdrUnmounts'
    BY <1>0, <1>1, <1>4 DEF ConfigureLoad, Goto, Reply, areaVars, InTurn, BootPlaces, CmdPlaces,
       OwnsArea, EdrUnmounts, EdrMounted, Recording
  <2>4. LfsAgrees'
    BY <1>0, <1>1, <1>2, <1>4 DEF ConfigureLoad, Goto, Reply, areaVars, InTurn, BootPlaces,
       CmdPlaces, OwnsArea, EdrUnmounts, EdrMounted, Recording, LfsAgrees, Mounted, Quiet
  <2>5. NoLostWakeup'
    BY <1>0, <1>4 DEF ConfigureLoad, Goto, Reply, areaVars, OwnsArea, EdrUnmounts, NoLostWakeup
  <2> QED
    BY <2>1, <2>2, <2>3, <2>4, <2>5
<1>5. CASE ConfigureStore
  <2>0. /\ pc'["boot"] \in {"mountChk"}
        /\ \A v \in Tasks \ {"boot"} : pc'[v] = pc[v]
    BY <1>0, <1>5 DEF ConfigureStore, Goto, Reply
  <2>1. InTurn'
    <3>1. pc["boot"] = "cfgStore"
      BY <1>5 DEF ConfigureStore
    <3> QED
      BY <1>0, <1>2, <2>0, <3>1, BootMoves DEF InTurn, BootPlaces, Quiet, MountingPlaces
  <2>2. OwnsArea("boot")' /\ OwnsArea("cmd")'
    BY <1>0, <1>2, <1>5 DEF ConfigureStore, Goto, Reply, InTurn, BootPlaces, CmdPlaces, OwnsArea,
       EdrUnmounts, EdrMounted, LfsAgrees, Quiet, MountingPlaces
  <2>3. EdrUnmounts'
    BY <1>0, <1>1, <1>5 DEF ConfigureStore, Goto, Reply, InTurn, BootPlaces, CmdPlaces, OwnsArea,
       EdrUnmounts, EdrMounted, Recording
  <2>4. LfsAgrees'
    BY <1>0, <1>1, <1>2, <1>5 DEF ConfigureStore, Goto, Reply, InTurn, BootPlaces, CmdPlaces,
       OwnsArea, EdrUnmounts, EdrMounted, Recording, LfsAgrees, Mounted, Quiet
  <2>5. NoLostWakeup'
    BY <1>0, <1>5 DEF ConfigureStore, Goto, Reply, OwnsArea, EdrUnmounts, NoLostWakeup
  <2> QED
    BY <2>1, <2>2, <2>3, <2>4, <2>5
<1>6. CASE MountedAtBoot
  <2>0. /\ pc'["boot"] \in {"done", "formatChk"}
        /\ \A v \in Tasks \ {"boot"} : pc'[v] = pc[v]
    BY <1>0, <1>6 DEF MountedAtBoot, Goto, Reply, areaVars
  <2>1. InTurn'
    <3>1. pc["boot"] = "mountedAtBoot"
      BY <1>6 DEF MountedAtBoot
    <3> QED
      BY <1>0, <1>2, <2>0, <3>1, BootMoves DEF InTurn, BootPlaces, Quiet, MountingPlaces
  <2>2. OwnsArea("boot")' /\ OwnsArea("cmd")'
    BY <1>0, <1>2, <1>6 DEF MountedAtBoot, Goto, Reply, areaVars, InTurn, BootPlaces, CmdPlaces,
       OwnsArea, EdrUnmounts, EdrMounted, LfsAgrees, Quiet, MountingPlaces
  <2>3. EdrUnmounts'
    BY <1>0, <1>1, <1>6 DEF MountedAtBoot, Goto, Reply, areaVars, InTurn, BootPlaces, CmdPlaces,
       OwnsArea, EdrUnmounts, EdrMounted, Recording
  <2>4. LfsAgrees'
    BY <1>0, <1>1, <1>2, <1>6 DEF MountedAtBoot, Goto, Reply, areaVars, InTurn, BootPlaces,
       CmdPlaces, OwnsArea, EdrUnmounts, EdrMounted, Recording, LfsAgrees, Mounted, Quiet
  <2>5. NoLostWakeup'
    BY <1>0, <1>6 DEF MountedAtBoot, Goto, Reply, areaVars, OwnsArea, EdrUnmounts, NoLostWakeup
  <2> QED
    BY <2>1, <2>2, <2>3, <2>4, <2>5
<1>7. CASE FormatCheck
  <2>0. /\ pc'["boot"] \in {"lfsFormat", "mountChk"}
        /\ \A v \in Tasks \ {"boot"} : pc'[v] = pc[v]
    BY <1>0, <1>7 DEF FormatCheck, Goto, Reply, areaVars
  <2>1. InTurn'
    <3>1. pc["boot"] = "formatChk"
      BY <1>7 DEF FormatCheck
    <3> QED
      BY <1>0, <1>2, <2>0, <3>1, BootMoves DEF InTurn, BootPlaces, Quiet, MountingPlaces
  <2>2. OwnsArea("boot")' /\ OwnsArea("cmd")'
    BY <1>0, <1>2, <1>7 DEF FormatCheck, Goto, Reply, areaVars, InTurn, BootPlaces, CmdPlaces,
       OwnsArea, EdrUnmounts, EdrMounted, LfsAgrees, Quiet, MountingPlaces
  <2>3. EdrUnmounts'
    BY <1>0, <1>1, <1>7 DEF FormatCheck, Goto, Reply, areaVars, InTurn, BootPlaces, CmdPlaces,
       OwnsArea, EdrUnmounts, EdrMounted, Recording
  <2>4. LfsAgrees'
    BY <1>0, <1>1, <1>2, <1>7 DEF FormatCheck, Goto, Reply, areaVars, InTurn, BootPlaces,
       CmdPlaces, OwnsArea, EdrUnmounts, EdrMounted, Recording, LfsAgrees, Mounted, Quiet
  <2>5. NoLostWakeup'
    BY <1>0, <1>7 DEF FormatCheck, Goto, Reply, areaVars, OwnsArea, EdrUnmounts, NoLostWakeup
  <2> QED
    BY <2>1, <2>2, <2>3, <2>4, <2>5
<1> QED
  BY <1>3, <1>4, <1>5, <1>6, <1>7 DEF Setup

(* Steps of the EDR task leave the others where they are. *)
LEMMA EdrMoves ==
    ASSUME CarefulInv, \A v \in Tasks \ {"edr"} : pc'[v] = pc[v]
    PROVE  InTurn'
<1>1. InTurn /\ {"edr", "boot", "cmd"} \subseteq Tasks /\ Producers \subseteq Tasks \ {"edr"}
  BY CarefulFacts DEF CarefulInv, Tasks
<1>2. pc'["boot"] = pc["boot"] /\ pc'["cmd"] = pc["cmd"] /\ \A p \in Producers : pc'[p] = pc[p]
  BY <1>1
<1> QED
  BY <1>1, <1>2 DEF InTurn

(* The steps of ensureUnmounted(). *)
LEMMA CarefulUnmount ==
    ASSUME CarefulOperator, CarefulInv, Unmount, UNCHANGED <<recVars, manageVars>>
    PROVE  InTurn' /\ OwnsArea("boot")' /\ OwnsArea("cmd")' /\ EdrUnmounts' /\ LfsAgrees' /\ NoLostWakeup'
<1>0. /\ InTurn /\ OwnsArea("boot") /\ OwnsArea("cmd") /\ EdrUnmounts /\ LfsAgrees /\ NoLostWakeup
      /\ pc \in [Tasks -> Places] /\ tmp \in [Tasks -> SUBSET Flags] /\ call \in [Tasks -> Calls]
      /\ flags \in SUBSET Flags /\ lfs \in BOOLEAN /\ fsPtr \in BOOLEAN
      /\ {"edr", "boot", "cmd"} \subseteq Tasks /\ Producers \cap {"edr", "boot", "cmd"} = {}
  BY CarefulFacts DEF CarefulInv
<1>1. UNCHANGED <<recState, queue, dropped, maybeError, hasIoError, remountCounter>>
  BY DEF recVars, manageVars
<1>2. \A v \in Tasks \ {"edr"} : pc'[v] = pc[v]
  BY <1>0 DEF Unmount, UnmountCheck, LfsUnmount, ClearMountedLoad, ClearMountedStore,
     SignalUnmounted, Goto, Reply
<1>3. InTurn'
  BY <1>2, EdrMoves
<1>4. CASE UnmountCheck
  <2>1. OwnsArea("boot")' /\ OwnsArea("cmd")'
    BY <1>0, <1>4 DEF UnmountCheck, Goto, Reply, areaVars, OwnsArea, EdrUnmounts, EdrMounted
  <2>2. EdrUnmounts'
    BY <1>0, <1>1, <1>4 DEF UnmountCheck, Goto, Reply, areaVars, EdrUnmounts, EdrMounted, Recording
  <2>3. LfsAgrees'
    BY <1>0, <1>4 DEF UnmountCheck, Goto, Reply, areaVars, OwnsArea, EdrUnmounts, EdrMounted,
       LfsAgrees, Mounted
  <2>4. NoLostWakeup'
    BY <1>0, <1>4 DEF UnmountCheck, Goto, Reply, areaVars, EdrUnmounts, EdrMounted, NoLostWakeup
  <2> QED
    BY <1>3, <2>1, <2>2, <2>3, <2>4
<1>5. CASE LfsUnmount
  <2>1. OwnsArea("boot")' /\ OwnsArea("cmd")'
    BY <1>0, <1>5 DEF LfsUnmount, Goto, Reply, CarefulOperator, OwnsArea, EdrUnmounts, EdrMounted
  <2>2. EdrUnmounts'
    BY <1>0, <1>1, <1>5 DEF LfsUnmount, Goto, Reply, CarefulOperator, EdrUnmounts, EdrMounted,
       Recording
  <2>3. LfsAgrees'
    BY <1>0, <1>5 DEF LfsUnmount, Goto, Reply, CarefulOperator, OwnsArea, EdrUnmounts, EdrMounted,
       LfsAgrees, Mounted
  <2>4. NoLostWakeup'
    BY <1>0, <1>5 DEF LfsUnmount, Goto, Reply, CarefulOperator, EdrUnmounts, EdrMounted,
       NoLostWakeup
  <2> QED
    BY <1>3, <2>1, <2>2, <2>3, <2>4
<1>6. CASE ClearMountedLoad
  <2>1. OwnsArea("boot")' /\ OwnsArea("cmd")'
    BY <1>0, <1>6 DEF ClearMountedLoad, Goto, Reply, areaVars, OwnsArea, EdrUnmounts, EdrMounted
  <2>2. EdrUnmounts'
    BY <1>0, <1>1, <1>6 DEF ClearMountedLoad, Goto, Reply, areaVars, EdrUnmounts, EdrMounted,
       Recording
  <2>3. LfsAgrees'
    BY <1>0, <1>6 DEF ClearMountedLoad, Goto, Reply, areaVars, OwnsArea, EdrUnmounts, EdrMounted,
       LfsAgrees, Mounted
  <2>4. NoLostWakeup'
    BY <1>0, <1>6 DEF ClearMountedLoad, Goto, Reply, areaVars, EdrUnmounts, EdrMounted, NoLostWakeup
  <2> QED
    BY <1>3, <2>1, <2>2, <2>3, <2>4
<1>7. CASE ClearMountedStore
  <2>1. OwnsArea("boot")' /\ OwnsArea("cmd")'
    BY <1>0, <1>7 DEF ClearMountedStore, Goto, Reply, OwnsArea, EdrUnmounts, EdrMounted
  <2>2. EdrUnmounts'
    BY <1>0, <1>1, <1>7 DEF ClearMountedStore, Goto, Reply, EdrUnmounts, EdrMounted, Recording
  <2>3. LfsAgrees'
    BY <1>0, <1>7 DEF ClearMountedStore, Goto, Reply, OwnsArea, EdrUnmounts, EdrMounted,
       LfsAgrees, Mounted
  <2>4. NoLostWakeup'
    BY <1>0, <1>7 DEF ClearMountedStore, Goto, Reply, EdrUnmounts, EdrMounted, NoLostWakeup
  <2> QED
    BY <1>3, <2>1, <2>2, <2>3, <2>4
<1>8. CASE SignalUnmounted
  <2>1. OwnsArea("boot")' /\ OwnsArea("cmd")'
    BY <1>0, <1>8 DEF SignalUnmounted, Goto, Reply, OwnsArea, EdrUnmounts, EdrMounted
  <2>2. EdrUnmounts'
    BY <1>0, <1>1, <1>8 DEF SignalUnmounted, Goto, Reply, EdrUnmounts, EdrMounted, Recording
  <2>3. LfsAgrees'
    BY <1>0, <1>8 DEF SignalUnmounted, Goto, Reply, OwnsArea, EdrUnmounts, EdrMounted, LfsAgrees,
       Mounted
  <2>4. NoLostWakeup'
    BY <1>0, <1>8 DEF SignalUnmounted, Goto, Reply, EdrUnmounts, EdrMounted, NoLostWakeup
  <2> QED
    BY <1>3, <2>1, <2>2, <2>3, <2>4
<1> QED
  BY <1>4, <1>5, <1>6, <1>7, <1>8 DEF Unmount

(* No sentinel of simulateIOError() gets into the queue. *)
LEMMA CarefulQueue ==
    ASSUME queue \in Seq({"record", "stop"})
    PROVE  /\ \A r \in {"record", "stop"} : EnqueueOrDrop(r) => queue' \in Seq({"record", "stop"})
           /\ queue # <<>> => Head(queue) \in {"record", "stop"} /\ Tail(queue) \in Seq({"record", "stop"})
<1>1. ASSUME NEW r \in {"record", "stop"}, EnqueueOrDrop(r) PROVE queue' \in Seq({"record", "stop"})
  BY <1>1 DEF EnqueueOrDrop
<1>2. ASSUME queue # <<>> PROVE Head(queue) \in {"record", "stop"} /\ Tail(queue) \in Seq({"record", "stop"})
  BY <1>2
<1> QED
  BY <1>1, <1>2

(* The steps of the recorder and of manage() that leave the area alone. *)
LEMMA CarefulManage ==
    ASSUME CarefulOperator, CarefulInv,
           \/ ClearQueue \/ OpenLog \/ LogOpened \/ Start \/ Receive \/ Exit
           \/ WaitUntilMounted \/ WaitUntilUnmounted \/ WaitAny \/ AccountRun \/ Decide
    PROVE  InTurn' /\ OwnsArea("boot")' /\ OwnsArea("cmd")' /\ EdrUnmounts' /\ LfsAgrees' /\ NoLostWakeup'
<1>0. /\ InTurn /\ OwnsArea("boot") /\ OwnsArea("cmd") /\ EdrUnmounts /\ LfsAgrees /\ NoLostWakeup
      /\ pc \in [Tasks -> Places] /\ tmp \in [Tasks -> SUBSET Flags] /\ call \in [Tasks -> Calls]
      /\ flags \in SUBSET Flags /\ lfs \in BOOLEAN /\ fsPtr \in BOOLEAN
      /\ {"edr", "boot", "cmd"} \subseteq Tasks /\ Producers \cap {"edr", "boot", "cmd"} = {}
  BY CarefulFacts DEF CarefulInv
<1> DEFINE Elsewhere == Recording \cup {"waitMounted", "mountedEvt", "waitUnmounted", "unmountedEvt", "account", "decide", "unmountChk"}
           Still == \A v \in Tasks \ {"edr"} : pc'[v] = pc[v]
           Kept == UNCHANGED <<flags, fsPtr, lfs, tmp>>
           Left == pc["edr"] \in Elsewhere /\ pc'["edr"] \in Elsewhere /\ Still /\ Kept /\ EdrUnmounts' /\ NoLostWakeup'
<1>1. ASSUME ClearQueue PROVE Left
  <2>1. queue' \in Seq({"record", "stop"})
    BY <1>0, <1>1 DEF ClearQueue, recVars, EdrUnmounts
  <2>2. pc["edr"] \in Elsewhere /\ pc'["edr"] \in Elsewhere /\ Still
    BY <1>0, <1>1 DEF ClearQueue, Goto, Reply, Recording, EdrUnmounts
  <2>3. Kept
    BY <1>1 DEF ClearQueue, areaVars
  <2>4. EdrUnmounts'
    BY <1>0, <1>1, <2>1, <2>3 DEF ClearQueue, Goto, Reply, recVars, manageVars, EdrUnmounts,
       EdrMounted, Recording
  <2>5. NoLostWakeup'
    BY <1>0, <1>1 DEF ClearQueue, Goto, Reply, areaVars, EdrUnmounts, EdrMounted, Recording,
       NoLostWakeup
  <2> QED
    BY <2>2, <2>3, <2>4, <2>5
<1>2. ASSUME OpenLog PROVE Left
  <2>1. queue' \in Seq({"record", "stop"})
    BY <1>0, <1>2 DEF OpenLog, recVars, EdrUnmounts
  <2>2. pc["edr"] \in Elsewhere /\ pc'["edr"] \in Elsewhere /\ Still
    BY <1>0, <1>2 DEF OpenLog, Goto, Reply, CarefulOperator, Recording, EdrUnmounts
  <2>3. Kept
    BY <1>2 DEF OpenLog, areaVars
  <2>4. EdrUnmounts'
    BY <1>0, <1>2, <2>1, <2>3 DEF OpenLog, Goto, Reply, CarefulOperator, recVars, manageVars,
       EdrUnmounts, EdrMounted, Recording
  <2>5. NoLostWakeup'
    BY <1>0, <1>2 DEF OpenLog, Goto, Reply, CarefulOperator, areaVars, EdrUnmounts, EdrMounted,
       Recording, NoLostWakeup
  <2> QED
    BY <2>2, <2>3, <2>4, <2>5
<1>3. ASSUME LogOpened PROVE Left
  <2>1. queue' \in Seq({"record", "stop"})
    BY <1>0, <1>3, CarefulQueue DEF LogOpened, EdrUnmounts
  <2>2. pc["edr"] \in Elsewhere /\ pc'["edr"] \in Elsewhere /\ Still
    BY <1>0, <1>3 DEF LogOpened, Goto, Reply, RecordDone, Recording, EdrUnmounts
  <2>3. Kept
    BY <1>3 DEF LogOpened, areaVars
  <2>4. EdrUnmounts'
    BY <1>0, <1>3, <2>1, <2>3 DEF LogOpened, Goto, Reply, RecordDone, recVars, manageVars,
       EdrUnmounts, EdrMounted, Recording
  <2>5. NoLostWakeup'
    BY <1>0, <1>3 DEF LogOpened, Goto, Reply, RecordDone, areaVars, EdrUnmounts, EdrMounted,
       Recording, NoLostWakeup
  <2> QED
    BY <2>2, <2>3, <2>4, <2>5
<1>4. ASSUME Start PROVE Left
  <2>1. queue' \in Seq({"record", "stop"})
    BY <1>0, <1>4 DEF Start, recVars, EdrUnmounts
  <2>2. pc["edr"] \in Elsewhere /\ pc'["edr"] \in Elsewhere /\ Still
    BY <1>0, <1>4 DEF Start, Goto, Reply, Recording, EdrUnmounts
  <2>3. Kept
    BY <1>4 DEF Start, areaVars
  <2>4. EdrUnmounts'
    BY <1>0, <1>4, <2>1, <2>3 DEF Start, Goto, Reply, recVars, manageVars, EdrUnmounts,
       EdrMounted, Recording
  <2>5. NoLostWakeup'
    BY <1>0, <1>4 DEF Start, Goto, Reply, areaVars, EdrUnmounts, EdrMounted, Recording, NoLostWakeup
  <2> QED
    BY <2>2, <2>3, <2>4, <2>5
<1>5. ASSUME Receive PROVE Left
  <2>1. queue' \in Seq({"record", "stop"}) /\ ~maybeError'
    <3>1. Head(queue) \in {"record", "stop"} /\ Tail(queue) \in Seq({"record", "stop"})
      BY <1>0, <1>5, CarefulQueue DEF Receive, EdrUnmounts
    <3> QED
      BY <1>0, <1>5, <3>1 DEF Receive, EdrUnmounts, CarefulOperator
  <2>2. pc["edr"] \in Elsewhere /\ pc'["edr"] \in Elsewhere /\ Still
    BY <1>0, <1>5 DEF Receive, Goto, Reply, CarefulOperator, Recording, EdrUnmounts
  <2>3. Kept
    BY <1>5 DEF Receive, areaVars
  <2>4. EdrUnmounts'
    BY <1>0, <1>5, <2>1, <2>3 DEF Receive, Goto, Reply, CarefulOperator, recVars, manageVars,
       EdrUnmounts, EdrMounted, Recording
  <2>5. NoLostWakeup'
    BY <1>0, <1>5 DEF Receive, Goto, Reply, CarefulOperator, areaVars, EdrUnmounts, EdrMounted,
       Recording, NoLostWakeup
  <2> QED
    BY <2>2, <2>3, <2>4, <2>5
<1>6. ASSUME Exit PROVE Left
  <2>1. queue' \in Seq({"record", "stop"})
    BY <1>0, <1>6 DEF Exit, recVars, EdrUnmounts
  <2>2. pc["edr"] \in Elsewhere /\ pc'["edr"] \in Elsewhere /\ Still
    BY <1>0, <1>6 DEF Exit, Goto, Reply, Recording, EdrUnmounts
  <2>3. Kept
    BY <1>6 DEF Exit, areaVars
  <2>4. EdrUnmounts'
    BY <1>0, <1>6, <2>1, <2>3 DEF Exit, Goto, Reply, recVars, manageVars, EdrUnmounts, EdrMounted,
       Recording
  <2>5. NoLostWakeup'
    BY <1>0, <1>6 DEF Exit, Goto, Reply, areaVars, EdrUnmounts, EdrMounted, Recording, NoLostWakeup
  <2> QED
    BY <2>2, <2>3, <2>4, <2>5
<1>7. ASSUME WaitUntilMounted PROVE Left
  <2>1. queue' \in Seq({"record", "stop"})
    BY <1>0, <1>7 DEF WaitUntilMounted, recVars, EdrUnmounts
  <2>2. pc["edr"] \in Elsewhere /\ pc'["edr"] \in Elsewhere /\ Still
    BY <1>0, <1>7 DEF WaitUntilMounted, Goto, Reply, Recording, EdrUnmounts
  <2>3. Kept
    BY <1>7 DEF WaitUntilMounted, areaVars
  <2>4. EdrUnmounts'
    BY <1>0, <1>7, <2>1, <2>3 DEF WaitUntilMounted, Goto, Reply, recVars, manageVars, EdrUnmounts,
       EdrMounted, Recording
  <2>5. NoLostWakeup'
    BY <1>0, <1>7 DEF WaitUntilMounted, Goto, Reply, areaVars, EdrUnmounts, EdrMounted, Recording,
       NoLostWakeup
  <2> QED
    BY <2>2, <2>3, <2>4, <2>5
<1>8. ASSUME WaitUntilUnmounted PROVE Left
  <2>1. queue' \in Seq({"record", "stop"})
    BY <1>0, <1>8 DEF WaitUntilUnmounted, recVars, EdrUnmounts
  <2>2. pc["edr"] \in Elsewhere /\ pc'["edr"] \in Elsewhere /\ Still
    BY <1>0, <1>8 DEF WaitUntilUnmounted, Goto, Reply, Recording, EdrUnmounts
  <2>3. Kept
    BY <1>8 DEF WaitUntilUnmounted, areaVars
  <2>4. EdrUnmounts'
    BY <1>0, <1>8, <2>1, <2>3 DEF WaitUntilUnmounted, Goto, Reply, recVars, manageVars,
       EdrUnmounts, EdrMounted, Recording
  <2>5. NoLostWakeup'
    BY <1>0, <1>8 DEF WaitUntilUnmounted, Goto, Reply, areaVars, EdrUnmounts, EdrMounted,
       Recording, NoLostWakeup
  <2> QED
    BY <2>2, <2>3, <2>4, <2>5
<1>9. ASSUME WaitAny PROVE Left
  <2>1. queue' \in Seq({"record", "stop"})
    BY <1>0, <1>9 DEF WaitAny, recVars, EdrUnmounts
  <2>2. pc["edr"] \in Elsewhere /\ pc'["edr"] \in Elsewhere /\ Still
    BY <1>0, <1>9 DEF WaitAny, Goto, Reply, Recording, EdrUnmounts
  <2>3. Kept
    BY <1>9 DEF WaitAny
  <2>4. EdrUnmounts'
    BY <1>0, <1>9, <2>1, <2>3 DEF WaitAny, Goto, Reply, recVars, manageVars, EdrUnmounts,
       EdrMounted, Recording
  <2>5. NoLostWakeup'
    BY <1>0, <1>9 DEF WaitAny, Goto, Reply, EdrUnmounts, EdrMounted, Recording, NoLostWakeup
  <2> QED
    BY <2>2, <2>3, <2>4, <2>5
<1>10. ASSUME AccountRun PROVE Left
  <2>1. queue' \in Seq({"record", "stop"})
    BY <1>0, <1>10 DEF AccountRun, recVars, EdrUnmounts
  <2>2. pc["edr"] \in Elsewhere /\ pc'["edr"] \in Elsewhere /\ Still
    BY <1>0, <1>10 DEF AccountRun, Goto, Reply, Recording, EdrUnmounts
  <2>3. Kept
    BY <1>10 DEF AccountRun, areaVars
  <2>4. EdrUnmounts'
    BY <1>0, <1>10, <2>1, <2>3 DEF AccountRun, Goto, Reply, recVars, manageVars, EdrUnmounts,
       EdrMounted, Recording
  <2>5. NoLostWakeup'
    BY <1>0, <1>10 DEF AccountRun, Goto, Reply, areaVars, EdrUnmounts, EdrMounted, Recording,
       NoLostWakeup
  <2> QED
    BY <2>2, <2>3, <2>4, <2>5
<1>11. ASSUME Decide PROVE Left
  <2>1. queue' \in Seq({"record", "stop"})
    BY <1>0, <1>11 DEF Decide, recVars, EdrUnmounts
  <2>2. pc["edr"] \in Elsewhere /\ pc'["edr"] \in Elsewhere /\ Still
    BY <1>0, <1>11 DEF Decide, Goto, Reply, Recording, EdrUnmounts
  <2>3. Kept
    BY <1>11 DEF Decide, areaVars
  <2>4. EdrUnmounts'
    BY <1>0, <1>11, <2>1, <2>3 DEF Decide, Goto, Reply, recVars, manageVars, EdrUnmounts,
       EdrMounted, Recording
  <2>5. NoLostWakeup'
    BY <1>0, <1>11 DEF Decide, Goto, Reply, areaVars, EdrUnmounts, EdrMounted, Recording,
       NoLostWakeup
  <2> QED
    BY <2>2, <2>3, <2>4, <2>5
<1>12. Left
  BY <1>1, <1>2, <1>3, <1>4, <1>5, <1>6, <1>7, <1>8, <1>9, <1>10, <1>11
<1>13. InTurn'
  BY <1>12, EdrMoves
<1>14. OwnsArea("boot")' /\ OwnsArea("cmd")'
  BY <1>0, <1>12 DEF OwnsArea
<1>15. LfsAgrees'
  BY <1>0, <1>12 DEF LfsAgrees, Mounted, Recording
<1> QED
  BY <1>12, <1>13, <1>14, <1>15

(* The other steps of the cmd task: commands, the check of eraseStorage()  *)
(* and record().                                                           *)
LEMMA CarefulCmdMove ==
    ASSUME CarefulInv, pc["cmd"] \in Quiet \cup {"eraseChk"}, pc'["cmd"] \in Quiet \cup {"clearLoad", "eraseChk", "lfsFormat"},
           \A v \in Tasks \ {"cmd"} : pc'[v] = pc[v],
           pc["boot"] = "done" \/ pc'["cmd"] \in Quiet,
           pc'["cmd"] \in {"clearLoad", "lfsFormat"} => "MOUNTED" \notin flags,
           UNCHANGED <<areaVars, tmp, recState, maybeError, hasIoError>>, queue' \in Seq({"record", "stop"})
    PROVE  InTurn' /\ OwnsArea("boot")' /\ OwnsArea("cmd")' /\ EdrUnmounts' /\ LfsAgrees' /\ NoLostWakeup'
<1>0. /\ InTurn /\ OwnsArea("boot") /\ OwnsArea("cmd") /\ EdrUnmounts /\ LfsAgrees /\ NoLostWakeup
      /\ pc \in [Tasks -> Places] /\ tmp \in [Tasks -> SUBSET Flags] /\ call \in [Tasks -> Calls]
      /\ flags \in SUBSET Flags /\ lfs \in BOOLEAN /\ fsPtr \in BOOLEAN
      /\ {"edr", "boot", "cmd"} \subseteq Tasks /\ Producers \cap {"edr", "boot", "cmd"} = {}
  BY CarefulFacts DEF CarefulInv
<1>1. InTurn'
  BY CmdMoves DEF CmdPlaces, MountingPlaces
<1>2. OwnsArea("boot")' /\ OwnsArea("cmd")'
  BY <1>0 DEF OwnsArea, areaVars, Quiet
<1>3. EdrUnmounts'
  BY <1>0 DEF EdrUnmounts, areaVars
<1>4. LfsAgrees'
  BY <1>0 DEF LfsAgrees, Mounted, areaVars, Quiet
<1>5. NoLostWakeup'
  BY <1>0 DEF NoLostWakeup, areaVars, Quiet
<1> QED
  BY <1>1, <1>2, <1>3, <1>4, <1>5

LEMMA CarefulCmd ==
    ASSUME CarefulOperator, CarefulInv,
           \/ EraseCheck /\ UNCHANGED <<recVars, manageVars>>
           \/ StopCheck \/ Record("cmd") \/ \E c \in Commands : TakeCommand(c)
    PROVE  InTurn' /\ OwnsArea("boot")' /\ OwnsArea("cmd")' /\ EdrUnmounts' /\ LfsAgrees' /\ NoLostWakeup'
<1>0. /\ InTurn /\ OwnsArea("boot") /\ OwnsArea("cmd") /\ EdrUnmounts /\ LfsAgrees /\ NoLostWakeup
      /\ pc \in [Tasks -> Places] /\ tmp \in [Tasks -> SUBSET Flags] /\ call \in [Tasks -> Calls]
      /\ flags \in SUBSET Flags /\ lfs \in BOOLEAN /\ fsPtr \in BOOLEAN
      /\ {"edr", "boot", "cmd"} \subseteq Tasks /\ Producers \cap {"edr", "boot", "cmd"} = {}
  BY CarefulFacts DEF CarefulInv
<1>1. CASE EraseCheck /\ UNCHANGED <<recVars, manageVars>>
  <2>1. /\ pc["cmd"] = "eraseChk" /\ pc'["cmd"] = (IF "MOUNTED" \in flags THEN "idle" ELSE "lfsFormat")
        /\ \A v \in Tasks \ {"cmd"} : pc'[v] = pc[v]
    BY <1>0, <1>1 DEF EraseCheck, Reply
  <2>2. pc["boot"] = "done"
    BY <1>0, <2>1 DEF InTurn, Quiet
  <2>3. UNCHANGED <<areaVars, tmp, recState, maybeError, hasIoError, queue>>
    BY <1>1 DEF EraseCheck, recVars, manageVars
  <2> QED
    BY <1>0, <2>1, <2>2, <2>3, CarefulCmdMove DEF Quiet, EdrUnmounts
<1>2. CASE StopCheck
  <2>1. /\ pc["cmd"] = "stopChk" /\ pc'["cmd"] \in {"recordChk", "idle"}
        /\ \A v \in Tasks \ {"cmd"} : pc'[v] = pc[v]
    BY <1>0, <1>2 DEF StopCheck, Reply
  <2>2. UNCHANGED <<areaVars, tmp, recState, maybeError, hasIoError, queue>>
    BY <1>2 DEF StopCheck, recVars, manageVars
  <2> QED
    BY <1>0, <2>1, <2>2, CarefulCmdMove DEF Quiet, EdrUnmounts
<1>3. CASE Record("cmd")
  <2>1. /\ pc["cmd"] \in {"recordChk", "recordSend"} /\ pc'["cmd"] \in {"recordSend", "idle"}
        /\ \A v \in Tasks \ {"cmd"} : pc'[v] = pc[v]
    BY <1>0, <1>3 DEF Record, RecordCheck, RecordSend, RecordDone, Goto, Reply
  <2>2. UNCHANGED <<areaVars, tmp, recState, maybeError, hasIoError>>
    BY <1>3 DEF Record, RecordCheck, RecordSend, recVars, manageVars
  <2>3. queue' \in Seq({"record", "stop"})
    BY <1>0, <1>3, CarefulQueue DEF Record, RecordCheck, RecordSend, RequestOf, recVars, EdrUnmounts
  <2> QED
    BY <2>1, <2>2, <2>3, CarefulCmdMove DEF Quiet
<1>4. ASSUME NEW c \in Commands, TakeCommand(c) PROVE InTurn' /\ OwnsArea("boot")' /\ OwnsArea("cmd")' /\ EdrUnmounts' /\ LfsAgrees' /\ NoLostWakeup'
  <2>1. c \in {"MOUNT", "UNMOUNT", "ERASE"}
    BY CommandsAssumption DEF CarefulOperator
  <2>2. /\ pc["cmd"] = "idle" /\ pc'["cmd"] = CommandPlaces[c]
        /\ \A v \in Tasks \ {"cmd"} : pc'[v] = pc[v]
    BY <1>0, <1>4 DEF TakeCommand, Goto, Reply
  <2>3. /\ c \in {"MOUNT", "ERASE"} => pc["boot"] = "done"
        /\ c = "MOUNT" => "MOUNTED" \notin flags
    BY <1>4 DEF TakeCommand, CarefulOperator
  <2>4. CommandPlaces[c] = CASE c = "MOUNT" -> "clearLoad" [] c = "ERASE" -> "eraseChk" [] c = "UNMOUNT" -> "stopChk"
    BY <2>1 DEF CommandPlaces
  <2>5. UNCHANGED <<areaVars, tmp, recState, maybeError, hasIoError, queue>>
    BY <1>4 DEF TakeCommand, recVars, manageVars
  <2>6. CASE c = "MOUNT"
    BY <1>0, <2>2, <2>3, <2>4, <2>5, <2>6, CarefulCmdMove DEF Quiet, EdrUnmounts
  <2>7. CASE c = "ERASE"
    BY <1>0, <2>2, <2>3, <2>4, <2>5, <2>7, CarefulCmdMove DEF Quiet, EdrUnmounts
  <2>8. CASE c = "UNMOUNT"
    BY <1>0, <2>2, <2>4, <2>5, <2>8, CarefulCmdMove DEF Quiet, EdrUnmounts
  <2> QED
    BY <2>1, <2>6, <2>7, <2>8
<1> QED
  BY <1>1, <1>2, <1>3, <1>4

(* The steps of the tasks that write log records. *)
LEMMA CarefulProducer ==
    ASSUME CarefulInv, NEW p \in Producers, NewRecord(p) \/ Record(p)
    PROVE  InTurn' /\ OwnsArea("boot")' /\ OwnsArea("cmd")' /\ EdrUnmounts' /\ LfsAgrees' /\ NoLostWakeup'
<1>0. /\ InTurn /\ OwnsArea("boot") /\ OwnsArea("cmd") /\ EdrUnmounts /\ LfsAgrees /\ NoLostWakeup
      /\ pc \in [Tasks -> Places] /\ tmp \in [Tasks -> SUBSET Flags] /\ call \in [Tasks -> Calls]
      /\ flags \in SUBSET Flags /\ lfs \in BOOLEAN /\ fsPtr \in BOOLEAN
      /\ {"edr", "boot", "cmd"} \subseteq Tasks /\ Producers \cap {"edr", "boot", "cmd"} = {}
  BY CarefulFacts DEF CarefulInv
<1>1. p \in Tasks \ {"edr", "boot", "cmd"}
  BY <1>0 DEF Tasks
<1>2. /\ pc[p] \in {"work", "recordChk", "recordSend"} /\ pc'[p] \in {"work", "recordChk", "recordSend"}
      /\ \A v \in Tasks \ {p} : pc'[v] = pc[v]
  BY <1>0, <1>1 DEF NewRecord, Record, RecordCheck, RecordSend, RecordDone, Goto, Reply
<1>3. UNCHANGED <<areaVars, tmp, recState, maybeError, hasIoError>>
  BY DEF NewRecord, Record, RecordCheck, RecordSend, recVars, manageVars
<1>4. queue' \in Seq({"record", "stop"})
  BY <1>0, <1>1, CarefulQueue DEF NewRecord, Record, RecordCheck, RecordSend, RequestOf, recVars,
     EdrUnmounts
<1>5. pc'["edr"] = pc["edr"] /\ pc'["boot"] = pc["boot"] /\ pc'["cmd"] = pc["cmd"]
  BY <1>0, <1>1, <1>2
<1>6. InTurn'
  BY <1>0, <1>1, <1>2, <1>5 DEF InTurn, Tasks
<1>7. OwnsArea("boot")' /\ OwnsArea("cmd")'
  BY <1>0, <1>3, <1>5 DEF OwnsArea, areaVars
<1>8. EdrUnmounts'
  BY <1>0, <1>3, <1>4, <1>5 DEF EdrUnmounts, areaVars
<1>9. LfsAgrees'
  BY <1>0, <1>3, <1>5 DEF LfsAgrees, Mounted, areaVars
<1>10. NoLostWakeup'
  BY <1>0, <1>2, <1>3, <1>5 DEF NoLostWakeup, areaVars
<1> QED
  BY <1>6, <1>7, <1>8, <1>9, <1>10

LEMMA CarefulStep == CarefulOperator /\ CarefulInv /\ [Next]_vars => CarefulInv'
<1> SUFFICES ASSUME CarefulOperator, CarefulInv, [Next]_vars
             PROVE  InTurn' /\ OwnsArea("boot")' /\ OwnsArea("cmd")' /\ EdrUnmounts' /\ LfsAgrees' /\ NoLostWakeup'
  BY TypeNext DEF CarefulInv
<1>0. InTurn /\ EdrUnmounts
  BY DEF CarefulInv
<1>1. CASE StorageStep("edr") \/ Remount
  BY <1>0, <1>1 DEF StorageStep, AreaStep, ClearLoad, ClearStore, MountCheck, LfsMount,
     SetMountedLoad, SetMountedStore,
     SignalMounted, MarkErroredLoad, MarkErroredStore, LfsFormat, Remount, EdrUnmounts, EdrMounted, Recording
<1>2. CASE Unmount /\ UNCHANGED <<recVars, manageVars>>
  BY <1>2, CarefulUnmount
<1>3. CASE \/ ClearQueue \/ OpenLog \/ LogOpened \/ Start \/ Receive \/ Exit
           \/ WaitUntilMounted \/ WaitUntilUnmounted \/ WaitAny \/ AccountRun \/ Decide
  BY <1>3, CarefulManage
<1>4. CASE StorageStep("cmd") \/ StorageStep("boot")
  BY <1>4, CarefulArea DEF StorageStep, Mounters
<1>5. CASE Setup /\ UNCHANGED <<recVars, manageVars>>
  BY <1>5, CarefulSetup
<1>6. CASE \/ EraseCheck /\ UNCHANGED <<recVars, manageVars>>
           \/ StopCheck \/ Record("cmd") \/ \E c \in Commands : TakeCommand(c)
  BY <1>6, CarefulCmd
<1>7. CASE SimulateSend
  BY <1>0, <1>7 DEF SimulateSend, InTurn, CmdPlaces, Quiet, MountingPlaces
<1>8. CASE \E p \in Producers : NewRecord(p) \/ Record(p)
  BY <1>8, CarefulProducer
<1>9. CASE UNCHANGED vars
  BY <1>9 DEF vars, areaVars, taskVars, recVars, manageVars, CarefulInv, InTurn, OwnsArea,
     EdrUnmounts, LfsAgrees,
     Mounted, NoLostWakeup
<1> QED
  BY <1>1, <1>2, <1>3, <1>4, <1>5, <1>6, <1>7, <1>8, <1>9 DEF Next, EdrTask, CmdTask, BootTask

LEMMA CarefulInit == Init => CarefulInv
<1> SUFFICES ASSUME Init PROVE CarefulInv
  OBVIOUS
<1>1. /\ pc["edr"] = "waitMounted" /\ pc["boot"] = "setup" /\ pc["cmd"] = "idle"
      /\ \A p \in Producers : pc[p] = "work"
  BY ProducersAssumption DEF Init, Tasks
<1>2. InTurn /\ OwnsArea("boot") /\ OwnsArea("cmd")
  BY <1>1 DEF Init, AreaInit, InTurn, OwnsArea, BootPlaces, CmdPlaces, Quiet, MountingPlaces
<1>3. queue \in Seq({"record", "stop"})
  BY DEF Init
<1>4. EdrUnmounts
  BY <1>1, <1>3 DEF Init, AreaInit, EdrUnmounts, EdrMounted, Recording
<1>5. LfsAgrees /\ NoLostWakeup
  BY <1>1 DEF Init, AreaInit, LfsAgrees, Mounted, NoLostWakeup
<1> QED
  BY <1>2, <1>4, <1>5, TypeInit DEF CarefulInv

(* With a careful operator, whatever fails to be mounted or formatted and  *)
(* however the tasks interleave, eraseStorage() and setup() format no      *)
(* mounted area: nobody else mounts between the check and the format.      *)
THEOREM CarefulFormatsUnmounted == CarefulOperator => (Spec => FormatsUnmounted)
<1> SUFFICES ASSUME CarefulOperator PROVE Spec => FormatsUnmounted
  OBVIOUS
<1>1. CarefulInv /\ [Next]_vars => CarefulInv'
  BY CarefulStep
<1>2. CarefulInv => (\A t \in Tasks : Leaves(t, "lfsFormat") => ~lfs)
  <2> SUFFICES ASSUME CarefulInv, NEW t \in Tasks, pc[t] = "lfsFormat" PROVE ~lfs
    BY DEF Leaves
  <2>1. InTurn /\ OwnsArea("boot") /\ OwnsArea("cmd") /\ EdrUnmounts /\ LfsAgrees
    BY DEF CarefulInv
  <2>2. t \in {"boot", "cmd"}
    BY <2>1 DEF InTurn, EdrUnmounts, EdrMounted, Recording, Tasks
  <2>3. "MOUNTED" \notin flags /\ ~Mounted("boot") /\ ~Mounted("cmd")
    BY <2>1, <2>2 DEF InTurn, OwnsArea, Mounted, Quiet
  <2> QED
    BY <2>1, <2>3 DEF LfsAgrees
<1> QED
  BY <1>1, <1>2, CarefulInit, PTL DEF Spec, FormatsUnmounted

(* With a careful operator no task calls lfs_mount() on a mounted          *)
(* filesystem either.                                                      *)
THEOREM CarefulMountsUnmounted == CarefulOperator => (Spec => MountsUnmounted)
<1> SUFFICES ASSUME CarefulOperator PROVE Spec => MountsUnmounted
  OBVIOUS
<1>1. CarefulInv /\ [Next]_vars => CarefulInv'
  BY CarefulStep
<1>2. CarefulInv => (\A t \in Tasks : Leaves(t, "lfsMount") => ~lfs)
  <2> SUFFICES ASSUME CarefulInv, NEW t \in Tasks, pc[t] = "lfsMount" PROVE ~lfs
    BY DEF Leaves
  <2>1. InTurn /\ OwnsArea("boot") /\ OwnsArea("cmd") /\ EdrUnmounts /\ LfsAgrees
    BY DEF CarefulInv
  <2>2. t \in {"boot", "cmd"}
    BY <2>1 DEF InTurn, EdrUnmounts, EdrMounted, Recording, Tasks
  <2>3. "MOUNTED" \notin flags /\ ~Mounted("boot") /\ ~Mounted("cmd")
    BY <2>1, <2>2 DEF InTurn, OwnsArea, Mounted, Quiet
  <2> QED
    BY <2>1, <2>3 DEF LfsAgrees
<1> QED
  BY <1>1, <1>2, CarefulInit, PTL DEF Spec, MountsUnmounted

(* What FLAG_MOUNTED says is what LittleFS is, and the recorder keeps its  *)
(* filesystem, also when a careful operator mounts and erases.             *)
LEMMA CarefulImplies == CarefulInv => MountedFlagAgrees /\ RecorderHasFilesystem
<1> SUFFICES ASSUME CarefulInv PROVE MountedFlagAgrees /\ RecorderHasFilesystem
  OBVIOUS
<1>1. LfsAgrees /\ EdrUnmounts /\ OwnsArea("boot") /\ OwnsArea("cmd") /\ {"edr", "boot", "cmd"} \subseteq Tasks
  BY CarefulFacts DEF CarefulInv
<1>2. MountedFlagAgrees
  BY <1>1 DEF LfsAgrees, OwnsArea, Mounted, MountedFlagAgrees
<1>3. RecorderHasFilesystem
  BY <1>1 DEF LfsAgrees, EdrUnmounts, EdrMounted, RecorderHasFilesystem, Recording
<1> QED
  BY <1>2, <1>3

THEOREM CarefulSafe ==
    CarefulOperator => (Spec => [](MountedFlagAgrees /\ RecorderHasFilesystem /\ NoLostWakeup))
<1> SUFFICES ASSUME CarefulOperator PROVE Spec => [](MountedFlagAgrees /\ RecorderHasFilesystem /\ NoLostWakeup)
  OBVIOUS
<1>1. CarefulInv /\ [Next]_vars => CarefulInv'
  BY CarefulStep
<1>2. CarefulInv => MountedFlagAgrees /\ RecorderHasFilesystem /\ NoLostWakeup
  BY CarefulImplies DEF CarefulInv
<1> QED
  BY <1>1, <1>2, CarefulInit, PTL DEF Spec
=============================================================================

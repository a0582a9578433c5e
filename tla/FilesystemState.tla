-------------------------- MODULE FilesystemState --------------------------
(***************************************************************************)
(* One storage area as the storage module keeps it (class FilesystemState  *)
(* of src/src/modules/storage.cpp) and the functions of storage.h that the *)
(* tasks of the firmware call on it.                                       *)
(*                                                                         *)
(* The flags are one plain byte that three tasks update without a lock, so *)
(* every `_flags |= x` and `_flags &= ~x` is two steps, a load into a      *)
(* register (tmp) and a store.  LittleFS itself (lfs, formatted) is        *)
(* external: each of its calls is atomic, littlefs-cpp holds a mutex per   *)
(* call and nothing holds it from one call to the next.                    *)
(*                                                                         *)
(* A task that runs one of these functions has its place in pc and the     *)
(* name of the call in call; the operators ...Ok and ...Failed say where   *)
(* each caller goes on with the result.                                    *)
(***************************************************************************)
EXTENDS Naturals, FiniteSets

CONSTANTS
    Faults,     \* the device operations that may fail
    BootMode,   \* the argument of storage::setup()
    Producers   \* the tasks that write log records

Operations == {"setup", "mount", "unmount", "format", "open", "write"}

(* The two defaults of setup(): flight and simulator.  INIT_MODE_FORMAT is *)
(* for the unit tests, where no other task runs.                           *)
BootModes == {"NORMAL", "FORMAT_IF_NEEDED"}

ASSUME FaultsAssumption == Faults \subseteq Operations
ASSUME BootModeAssumption == BootMode \in BootModes
ASSUME ProducersAssumption == Producers \cap {"edr", "cmd", "boot"} = {}

VARIABLES
    flags,      \* FilesystemState::_flags
    fsPtr,      \* whether FilesystemState::_fs is set
    events,     \* FilesystemState::_events
    lfs,        \* whether the lfs_t object is mounted
    formatted,  \* whether the device holds a filesystem
    pc,         \* where each task is
    tmp,        \* the value of _flags a task has loaded and not stored yet
    call,       \* the storage function a task executes
    reply       \* the last response of the cmd task to a storage command

areaVars == <<flags, fsPtr, events, lfs, formatted>>
taskVars == <<pc, tmp, call, reply>>

Tasks == {"edr", "cmd", "boot"} \cup Producers

Flags == {"CONFIGURED", "MOUNTED", "ERRORED"}

Calls == {"none", "mount", "unmount", "erase",
          "mountAtBoot", "formatAtBoot", "mountAgain"}

(***************************************************************************)
(* Moving a task.  The cmd task sends its response when it returns to      *)
(* "idle": 0 is "ok", any other error code "error".                        *)
(***************************************************************************)
Reply(t, l, r) ==
    /\ pc' = [pc EXCEPT ![t] = l]
    /\ reply' = IF t = "cmd" /\ l = "idle" THEN r ELSE reply

Goto(t, l) == Reply(t, l, "ok")

(* Where a caller of ensureMounted() goes on. *)
MountOk(t) ==
    CASE t = "edr" -> "waitMounted" [] t = "cmd" -> "idle" [] OTHER -> "mountedAtBoot"

(* mountStorage() marks the area as errored; mountAtBoot() does not, and   *)
(* with FORMAT_IF_NEEDED setup() formats and tries once more.              *)
MountFailed(t) ==
    CASE t # "boot" -> "errLoad"
      [] t = "boot" /\ call[t] = "mountAtBoot" /\ BootMode = "FORMAT_IF_NEEDED" -> "formatChk"
      [] OTHER -> "done"

(* Where a caller of markErrored() goes on. *)
MarkErroredDone(t) ==
    CASE t = "cmd" -> "idle"
      [] t = "edr" /\ call[t] = "unmount" -> "waitUnmounted"
      [] OTHER -> "remount"

---------------------------------------------------------------------------
(* clearErrors(), called by mountStorage(area, force = true). *)

ClearLoad(t) ==
    /\ pc[t] = "clearLoad"
    /\ tmp' = [tmp EXCEPT ![t] = flags]
    /\ Goto(t, "clearStore")
    /\ UNCHANGED <<areaVars, call>>

ClearStore(t) ==
    /\ pc[t] = "clearStore"
    /\ flags' = tmp[t] \ {"ERRORED"}
    /\ Goto(t, "mountChk")
    /\ tmp' = [tmp EXCEPT ![t] = {}]
    /\ UNCHANGED <<fsPtr, events, lfs, formatted, call>>

(* ensureMounted() *)

(* Mutant: isErrored() is not asked. *)
MountCheckErrored(t) ==
    /\ pc[t] = "mountChk"
    /\ Goto(t, CASE "MOUNTED" \in flags -> MountOk(t)
                 [] "MOUNTED" \notin flags /\ fsPtr -> "lfsMount"
                 [] OTHER -> MountFailed(t))
    /\ UNCHANGED <<areaVars, tmp, call>>

MountCheck(t) ==
    /\ pc[t] = "mountChk"
    /\ Reply(t, CASE "MOUNTED" \in flags -> MountOk(t)
                  [] "MOUNTED" \notin flags /\ fsPtr /\ "ERRORED" \notin flags -> "lfsMount"
                  [] OTHER -> MountFailed(t),
             "ok")
    /\ UNCHANGED <<areaVars, tmp, call>>

LfsMount(t) ==
    /\ pc[t] = "lfsMount"
    /\ \/ /\ formatted
          /\ lfs' = TRUE
          /\ Goto(t, "setLoad")
       \/ /\ ~formatted \/ "mount" \in Faults
          /\ lfs' = FALSE
          /\ Goto(t, MountFailed(t))
    /\ UNCHANGED <<flags, fsPtr, events, formatted, tmp, call>>

SetMountedLoad(t) ==
    /\ pc[t] = "setLoad"
    /\ tmp' = [tmp EXCEPT ![t] = flags]
    /\ Goto(t, "setStore")
    /\ UNCHANGED <<areaVars, call>>

SetMountedStore(t) ==
    /\ pc[t] = "setStore"
    /\ flags' = tmp[t] \cup {"MOUNTED"}
    /\ Goto(t, "setEvt")
    /\ tmp' = [tmp EXCEPT ![t] = {}]
    /\ UNCHANGED <<fsPtr, events, lfs, formatted, call>>

(* Mutant: EVT_MOUNTED is not set. *)
SignalNothing(t) ==
    /\ pc[t] = "setEvt"
    /\ Goto(t, MountOk(t))
    /\ UNCHANGED <<areaVars, tmp, call>>

SignalMounted(t) ==
    /\ pc[t] = "setEvt"
    /\ events' = events \cup {"MOUNTED"}
    /\ Goto(t, MountOk(t))
    /\ UNCHANGED <<flags, fsPtr, lfs, formatted, tmp, call>>

(* ensureUnmounted(); in the firmware only manage() unmounts. *)

(* Mutant: the flag is cleared without lfs_unmount(). *)
UnmountFlagOnly ==
    /\ pc["edr"] = "unmountChk"
    /\ Goto("edr", IF "MOUNTED" \in flags /\ fsPtr THEN "clrLoad" ELSE "waitUnmounted")
    /\ UNCHANGED <<areaVars, tmp, call>>

UnmountCheck ==
    /\ pc["edr"] = "unmountChk"
    /\ Goto("edr", IF "MOUNTED" \in flags /\ fsPtr THEN "lfsUnmount" ELSE "waitUnmounted")
    /\ UNCHANGED <<areaVars, tmp, call>>

LfsUnmount ==
    /\ pc["edr"] = "lfsUnmount"
    /\ \/ /\ lfs' = FALSE
          /\ Goto("edr", "clrLoad")
       \/ /\ "unmount" \in Faults
          /\ lfs' = lfs
          /\ Goto("edr", "errLoad")
    /\ UNCHANGED <<flags, fsPtr, events, formatted, tmp, call>>

ClearMountedLoad ==
    /\ pc["edr"] = "clrLoad"
    /\ tmp' = [tmp EXCEPT !["edr"] = flags]
    /\ Goto("edr", "clrStore")
    /\ UNCHANGED <<areaVars, call>>

(* Mutant: FLAG_MOUNTED stays set. *)
KeepMountedStore ==
    /\ pc["edr"] = "clrStore"
    /\ flags' = tmp["edr"]
    /\ Goto("edr", "clrEvt")
    /\ tmp' = [tmp EXCEPT !["edr"] = {}]
    /\ UNCHANGED <<fsPtr, events, lfs, formatted, call>>

ClearMountedStore ==
    /\ pc["edr"] = "clrStore"
    /\ flags' = tmp["edr"] \ {"MOUNTED"}
    /\ Goto("edr", "clrEvt")
    /\ tmp' = [tmp EXCEPT !["edr"] = {}]
    /\ UNCHANGED <<fsPtr, events, lfs, formatted, call>>

SignalUnmounted ==
    /\ pc["edr"] = "clrEvt"
    /\ events' = events \cup {"UNMOUNTED"}
    /\ Goto("edr", "waitUnmounted")
    /\ UNCHANGED <<flags, fsPtr, lfs, formatted, tmp, call>>

(* markErrored() *)

MarkErroredLoad(t) ==
    /\ pc[t] = "errLoad"
    /\ tmp' = [tmp EXCEPT ![t] = IF "ERRORED" \in flags THEN {} ELSE flags]
    /\ Reply(t, IF "ERRORED" \in flags THEN MarkErroredDone(t) ELSE "errStore", "error")
    /\ UNCHANGED <<areaVars, call>>

MarkErroredStore(t) ==
    /\ pc[t] = "errStore"
    /\ flags' = tmp[t] \cup {"ERRORED"}
    /\ Reply(t, MarkErroredDone(t), "error")
    /\ tmp' = [tmp EXCEPT ![t] = {}]
    /\ UNCHANGED <<fsPtr, events, lfs, formatted, call>>

---------------------------------------------------------------------------
(* eraseStorage(), run by the cmd task: the check and the format are two   *)
(* steps, and nothing keeps the area unmounted between them.               *)

(* Mutant: a mounted area is erased. *)
EraseUnchecked ==
    /\ pc["cmd"] = "eraseChk"
    /\ Goto("cmd", "lfsFormat")
    /\ UNCHANGED <<areaVars, tmp, call>>

EraseCheck ==
    /\ pc["cmd"] = "eraseChk"
    /\ Reply("cmd", IF "MOUNTED" \in flags THEN "idle" ELSE "lfsFormat", "error")
    /\ UNCHANGED <<areaVars, tmp, call>>

(* format(), and where its caller goes on: setup() mounts again whatever   *)
(* formatAtBoot() says.  lfs_format() sets the lfs_t object up and tears   *)
(* it down again.                                                          *)
FormatOk(t) == IF t = "cmd" THEN "idle" ELSE "mountChk"
FormatFailed(t) == IF t = "cmd" THEN "errLoad" ELSE "mountChk"

LfsFormat(t) ==
    /\ pc[t] = "lfsFormat"
    /\ \/ /\ fsPtr
          /\ formatted' = TRUE
          /\ lfs' = FALSE
          /\ Goto(t, FormatOk(t))
       \/ /\ ~fsPtr \/ "format" \in Faults
          /\ formatted' \in IF fsPtr THEN {FALSE, formatted} ELSE {formatted}
          /\ lfs' = (lfs /\ ~fsPtr)
          /\ Goto(t, FormatFailed(t))
    /\ call' = [call EXCEPT ![t] = IF t = "boot" THEN "mountAgain" ELSE call[t]]
    /\ UNCHANGED <<flags, fsPtr, events, tmp>>

---------------------------------------------------------------------------
(* setup(), run once by the storage task. *)

(* configureStorage(): nothing happens if the driver has no configuration. *)
Configure ==
    /\ pc["boot"] = "setup"
    /\ \/ /\ fsPtr' = TRUE
          /\ Goto("boot", "cfgLoad")
       \/ /\ "setup" \in Faults
          /\ fsPtr' = fsPtr
          /\ Goto("boot", "mountChk")
    /\ call' = [call EXCEPT !["boot"] = "mountAtBoot"]
    /\ UNCHANGED <<flags, events, lfs, formatted, tmp>>

ConfigureLoad ==
    /\ pc["boot"] = "cfgLoad"
    /\ tmp' = [tmp EXCEPT !["boot"] = flags]
    /\ Goto("boot", "cfgStore")
    /\ UNCHANGED <<areaVars, call>>

ConfigureStore ==
    /\ pc["boot"] = "cfgStore"
    /\ flags' = tmp["boot"] \cup {"CONFIGURED"}
    /\ Goto("boot", "mountChk")
    /\ tmp' = [tmp EXCEPT !["boot"] = {}]
    /\ UNCHANGED <<fsPtr, events, lfs, formatted, call>>

(* mountAtBoot() succeeds if it mounts the other area too; if it does not, *)
(* FORMAT_IF_NEEDED goes on to formatAtBoot() for both.                    *)
MountedAtBoot ==
    /\ pc["boot"] = "mountedAtBoot"
    /\ \/ Goto("boot", "done")
       \/ /\ call["boot"] = "mountAtBoot" /\ BootMode = "FORMAT_IF_NEEDED"
          /\ "mount" \in Faults
          /\ Goto("boot", "formatChk")
    /\ UNCHANGED <<areaVars, tmp, call>>

(* formatAtBoot(): an area that is mounted by now is left alone. *)
FormatCheck ==
    /\ pc["boot"] = "formatChk"
    /\ IF "MOUNTED" \notin flags /\ fsPtr
       THEN /\ Goto("boot", "lfsFormat")
            /\ call' = [call EXCEPT !["boot"] = "formatAtBoot"]
       ELSE /\ Goto("boot", "mountChk")
            /\ call' = [call EXCEPT !["boot"] = "mountAgain"]
    /\ UNCHANGED <<areaVars, tmp>>

---------------------------------------------------------------------------
AreaStep(t) ==
    \/ ClearLoad(t) \/ ClearStore(t)
    \/ MountCheck(t) \/ LfsMount(t)
    \/ SetMountedLoad(t) \/ SetMountedStore(t) \/ SignalMounted(t)
    \/ MarkErroredLoad(t) \/ MarkErroredStore(t)
    \/ LfsFormat(t)

Unmount ==
    \/ UnmountCheck \/ LfsUnmount
    \/ ClearMountedLoad \/ ClearMountedStore \/ SignalUnmounted

Setup == Configure \/ ConfigureLoad \/ ConfigureStore \/ MountedAtBoot \/ FormatCheck

AreaInit ==
    /\ flags = {}
    /\ fsPtr = FALSE
    /\ events = {}
    /\ lfs = FALSE
    /\ formatted \in BOOLEAN
    /\ tmp = [t \in Tasks |-> {}]
    /\ call = [t \in Tasks |-> "none"]
    /\ reply = "none"
=============================================================================

--------------------------- MODULE ConfigManager ----------------------------
(***************************************************************************)
(* common/config_manager.c: the configuration in RAM (s_config) and its    *)
(* blob in NVS.  Every call into NVS may fail, and the power may be cut    *)
(* between any two of them.  A write that NVS took reaches the flash when  *)
(* nvs_commit returns, or earlier.                                         *)
(*                                                                         *)
(* The four functions are called by one task, one after the other: init    *)
(* by app_main, the others whenever a user of the interface likes.         *)
(***************************************************************************)
EXTENDS Naturals

CONSTANTS
  Config,       \* configurations a caller may set
  Default,      \* DEFAULT_CONFIG
  MaxSets,      \* bound: calls of set and reset_default
  MaxCuts       \* bound: power cuts

Empty == "empty"      \* NVS holds no blob
Unset == "unset"      \* s_config is no configuration: zeros, or half a blob

ASSUME ConfigAssumption ==
  /\ Default \in Config
  /\ {Empty, Unset} \cap Config = {}
  /\ MaxSets \in Nat
  /\ MaxCuts \in Nat

VARIABLES
  ram,          \* s_config
  nvs,          \* what the flash holds
  pending,      \* what NVS was last told to hold
  pc,           \* the next call into NVS
  new,          \* the configuration set or reset_default is writing
  sets,         \* history: calls of set and reset_default by the users
  cuts,         \* history: number of power cuts
  allowed,      \* history: what a user may expect to find: what was last
                \* seen to be in force, and what was written since
  failed        \* history: which of "read" and "write" NVS ever failed

flash == <<nvs, pending>>
history == <<sets, cuts, allowed, failed>>
vars == <<ram, flash, pc, new, history>>

Init ==
  /\ ram = Unset
  /\ nvs = Empty
  /\ pending = Empty
  /\ pc = "load"
  /\ new = Default
  /\ sets = 0
  /\ cuts = 0
  /\ allowed = {Default}
  /\ failed = {}

Go(from, to) == pc = from /\ pc' = to

(***************************************************************************)
(* config_manager_init: open and read in one step, nothing lies between.   *)
(***************************************************************************)
Load ==
  /\ pending # Empty
  /\ Go("load", "idle")
  /\ ram' = pending
  /\ allowed' = {pending}
  /\ UNCHANGED <<flash, new, sets, cuts, failed>>

(* No namespace, or no blob: reset_default.                                *)
NotFound ==
  /\ pending = Empty
  /\ Go("load", "resetOpen")
  /\ new' = Default
  /\ UNCHANGED <<ram, flash, history>>

(* Any other failure: reset_default, too; the blob may be half read.       *)
LoadFails ==
  /\ Go("load", "resetOpen")
  /\ ram' \in {ram, Unset}
  /\ new' = Default
  /\ failed' = failed \cup {"read"}
  /\ UNCHANGED <<flash, sets, cuts, allowed>>

(***************************************************************************)
(* config_manager_reset_default; the result of nvs_erase_all is ignored.   *)
(***************************************************************************)
ResetBegin ==
  /\ sets < MaxSets
  /\ Go("idle", "resetOpen")
  /\ new' = Default
  /\ sets' = sets + 1
  /\ allowed' = allowed \cup {Default}
  /\ UNCHANGED <<ram, flash, cuts, failed>>

Open(from, to) ==
  /\ Go(from, to)
  /\ UNCHANGED <<ram, flash, new, history>>

ResetOpens == Open("resetOpen", "erase")

EraseAll ==
  /\ Go("erase", "put")
  /\ pending' = Empty
  /\ UNCHANGED <<ram, nvs, new, history>>

EraseFails == Open("erase", "put")

(***************************************************************************)
(* config_manager_set                                                      *)
(***************************************************************************)
SetBegin(c) ==
  /\ sets < MaxSets
  /\ Go("idle", "setOpen")
  /\ new' = c
  /\ sets' = sets + 1
  /\ allowed' = allowed \cup {c}
  /\ UNCHANGED <<ram, flash, cuts, failed>>

(* Mutant: set clears the namespace first, as reset_default does.          *)
SetErasesFirst == Open("setOpen", "erase")

SetOpens == Open("setOpen", "put")

(***************************************************************************)
(* What both end with: set_blob, commit, and only then s_config.           *)
(***************************************************************************)
(* Mutant: the caller sees the configuration before NVS has it.            *)
PutToRamFirst ==
  /\ Go("put", "commit")
  /\ ram' = new
  /\ pending' = new
  /\ UNCHANGED <<nvs, new, history>>

Put ==
  /\ Go("put", "commit")
  /\ pending' = new
  /\ UNCHANGED <<ram, nvs, new, history>>

(* Mutant: the handle is closed without a commit.                          *)
CommitForgotten ==
  /\ Go("commit", "idle")
  /\ ram' = new
  /\ allowed' = {new}
  /\ UNCHANGED <<flash, new, sets, cuts, failed>>

Commit ==
  /\ Go("commit", "idle")
  /\ nvs' = pending
  /\ ram' = new
  /\ allowed' = {new}
  /\ UNCHANGED <<pending, new, sets, cuts, failed>>

(* Open, set_blob or commit fails: the caller is not told.                 *)
WriteFails ==
  /\ pc \in {"resetOpen", "setOpen", "put", "commit"}
  /\ pc' = "idle"
  /\ failed' = failed \cup {"write"}
  /\ UNCHANGED <<ram, flash, new, sets, cuts, allowed>>

(***************************************************************************)
(* The world.                                                              *)
(***************************************************************************)
Flush ==
  /\ nvs' = pending
  /\ UNCHANGED <<ram, pending, pc, new, history>>

PowerCut ==
  /\ cuts < MaxCuts
  /\ cuts' = cuts + 1
  /\ ram' = Unset
  /\ pending' = nvs
  /\ pc' = "load"
  /\ UNCHANGED <<nvs, new, sets, allowed, failed>>

Calls ==
  \/ Load \/ NotFound \/ LoadFails
  \/ ResetBegin \/ ResetOpens \/ EraseAll \/ EraseFails
  \/ \E c \in Config : SetBegin(c)
  \/ SetOpens \/ Put \/ Commit \/ WriteFails

Next == Calls \/ Flush \/ PowerCut

Spec == Init /\ [][Next]_vars

(***************************************************************************)
(* Properties.                                                             *)
(***************************************************************************)
TypeOK ==
  /\ ram \in Config \cup {Unset}
  /\ nvs \in Config \cup {Empty}
  /\ pending \in Config \cup {Empty}
  /\ pc \in {"load", "resetOpen", "erase", "setOpen", "put", "commit", "idle"}
  /\ new \in Config
  /\ sets \in 0 .. MaxSets
  /\ cuts \in 0 .. MaxCuts
  /\ allowed \subseteq Config
  /\ failed \subseteq {"read", "write"}

(* What the next start would load.                                         *)
Found(blob) == IF blob = Empty THEN Default ELSE blob

(* README.md:13 (kept over a power cut): wherever the power is cut and     *)
(* whatever writes fail, a start finds the configuration that was in       *)
(* force, or one written since; never the defaults out of the blue, and    *)
(* never again one that an earlier start has left behind.  A read that     *)
(* fails erases the configuration (config_manager.c:28-33, 50-54): that is *)
(* the one way to lose it.                                                 *)
ConfigKept == "read" \in failed \/ Found(nvs) \in allowed

(* config_manager.h:13-17 (set and reset_default write RAM and NVS): while *)
(* NVS works, what the tasks get is what a start would find, whenever the  *)
(* power was cut before.                                                   *)
RamAgrees == pc = "idle" /\ failed = {} => ram \in Config /\ ram = nvs

(* config_manager.c:86-95: no task gets a configuration that the flash     *)
(* does not hold yet, whatever fails, so that none is taken back by the    *)
(* next start.                                                             *)
SavedBeforeUsed == [][ram' # ram /\ ram' \in Config => nvs' = ram']_vars

(* Why the configuration is kept: what NVS was told is as good as what it  *)
(* holds, reset_default writes the defaults only where they are welcome,   *)
(* and what is committed is what was put.                                  *)
LoadClean == pc = "load" => pending = nvs
ResetsToDefault == pc \in {"resetOpen", "erase"} => new = Default
CommitsNew == pc = "commit" => pending = new
WriteWelcome ==
  pc \in {"resetOpen", "erase", "setOpen", "put", "commit"} => new \in allowed
Kept ==
  /\ Found(nvs) \in allowed
  /\ Found(pending) \in allowed
  /\ WriteWelcome
ConfigInv ==
  /\ TypeOK
  /\ LoadClean
  /\ ResetsToDefault
  /\ CommitsNew
  /\ "read" \in failed \/ Kept
  /\ RamAgrees
  /\ pc = "idle" /\ failed = {} => pending = nvs
=============================================================================

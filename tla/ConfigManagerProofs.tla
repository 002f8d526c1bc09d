------------------------ MODULE ConfigManagerProofs -------------------------
(***************************************************************************)
(* What is known of the configuration, whatever the configurations and     *)
(* however many calls, failures of NVS and power cuts there are.           *)
(***************************************************************************)
EXTENDS ConfigManager, TLAPS

LEMMA ConfigInit == ASSUME Init PROVE ConfigInv
BY ConfigAssumption
   DEF Init, ConfigInv, TypeOK, Kept, Found, LoadClean, ResetsToDefault,
       WriteWelcome, CommitsNew, RamAgrees

(* One step of a user, of NVS, or of the power.                            *)
LEMMA ConfigStep ==
  ASSUME ConfigInv, [Next]_vars
  PROVE  ConfigInv'
<1> USE ConfigAssumption
        DEF ConfigInv, TypeOK, Kept, Found, LoadClean, ResetsToDefault,
            WriteWelcome, CommitsNew, RamAgrees, Go, flash, history
<1>1. CASE Load
  BY <1>1 DEF Load
<1>2. CASE NotFound
  BY <1>2 DEF NotFound
<1>3. CASE LoadFails
  BY <1>3 DEF LoadFails
<1>4. CASE ResetBegin
  BY <1>4 DEF ResetBegin
<1>5. CASE ResetOpens
  BY <1>5 DEF ResetOpens, Open
<1>6. CASE EraseAll
  BY <1>6 DEF EraseAll
<1>7. CASE EraseFails
  BY <1>7 DEF EraseFails, Open
<1>8. ASSUME NEW c \in Config, SetBegin(c)
      PROVE  ConfigInv'
  BY <1>8 DEF SetBegin
<1>9. CASE SetOpens
  BY <1>9 DEF SetOpens, Open
<1>10. CASE Put
  BY <1>10 DEF Put
<1>11. CASE Commit
  BY <1>11 DEF Commit
<1>12. CASE WriteFails
  BY <1>12 DEF WriteFails
<1>13. CASE Flush
  BY <1>13 DEF Flush
<1>14. CASE PowerCut
  BY <1>14 DEF PowerCut
<1>15. CASE UNCHANGED vars
  BY <1>15 DEF vars
<1> QED
  BY <1>1, <1>2, <1>3, <1>4, <1>5, <1>6, <1>7, <1>8, <1>9, <1>10, <1>11,
     <1>12, <1>13, <1>14, <1>15
     DEF Next, Calls

LEMMA ConfigInvariant == Spec => []ConfigInv
<1>1. Init => ConfigInv
  BY ConfigInit
<1>2. ConfigInv /\ [Next]_vars => ConfigInv'
  BY ConfigStep
<1> QED
  BY <1>1, <1>2, PTL DEF Spec

(* Writes to NVS may fail and the power may be cut anywhere in             *)
(* config_manager_set and config_manager_reset_default: unless a read ever *)
(* failed, a start finds a configuration that was in force, or one written *)
(* since.                                                                  *)
THEOREM ConfigIsKept == Spec => [](TypeOK /\ ConfigKept)
<1>1. ConfigInv => TypeOK /\ ConfigKept
  BY DEF ConfigInv, Kept, ConfigKept
<1> QED
  BY <1>1, ConfigInvariant, PTL

(* Power cuts alone never part what the tasks read from what the flash     *)
(* holds (config_manager.h:13-17).                                         *)
THEOREM RamIsSaved == Spec => []RamAgrees
<1>1. ConfigInv => RamAgrees
  BY DEF ConfigInv
<1> QED
  BY <1>1, ConfigInvariant, PTL

LEMMA SavedStep ==
  ASSUME ConfigInv, [Next]_vars, ram' # ram, ram' \in Config
  PROVE  nvs' = ram'
<1> USE ConfigAssumption
        DEF ConfigInv, TypeOK, LoadClean, CommitsNew, Go, flash, history
<1>1. CASE Load \/ LoadFails
  BY <1>1 DEF Load, LoadFails
<1>2. CASE NotFound \/ ResetBegin \/ ResetOpens \/ EraseAll \/ EraseFails
  BY <1>2 DEF NotFound, ResetBegin, ResetOpens, EraseAll, EraseFails, Open
<1>3. CASE (\E c \in Config : SetBegin(c)) \/ SetOpens \/ Put
  BY <1>3 DEF SetBegin, SetOpens, Put, Open
<1>4. CASE Commit
  BY <1>4 DEF Commit
<1>5. CASE WriteFails \/ Flush \/ PowerCut
  BY <1>5 DEF WriteFails, Flush, PowerCut
<1>6. CASE UNCHANGED vars
  BY <1>6 DEF vars
<1> QED
  BY <1>1, <1>2, <1>3, <1>4, <1>5, <1>6 DEF Next, Calls

(* No task is given a configuration that the flash does not hold yet,      *)
(* whatever fails (config_manager.c:86-95, 119-126).                       *)
THEOREM SavedFirst == Spec => SavedBeforeUsed
<1>1. ConfigInv /\ [Next]_vars
        => [ram' # ram /\ ram' \in Config => nvs' = ram']_vars
  BY SavedStep
<1> QED
  BY <1>1, ConfigInvariant, PTL DEF Spec, SavedBeforeUsed
=============================================================================

--------------------------- MODULE DeviceConfigFB ---------------------------
(***************************************************************************)
(* The function block DeviceConfigMgmt (framework/.../device/              *)
(* DeviceConfigMgmt.st): it reads the list of recipes, loads one after the *)
(* other and waits for the application to complete each.  The commands on  *)
(* the recipe files (DeviceConfigCmds.st) succeed or fail as the caller    *)
(* says.  recipe is the number of the recipe whose data the devices hold,  *)
(* 0 when there is none or when a load has failed half-way.                *)
(***************************************************************************)
EXTENDS Naturals

DeviceConfigMgmtStatus ==
    {"Idle", "Init", "Load", "WaitProcessing", "Completed", "Resetting"}

DeviceConfigMemory(size) ==
    [status: DeviceConfigMgmtStatus, currentConfigIndex: 0..size,
     configNameListSize: 0..size, allConfigLoaded: BOOLEAN, busy: BOOLEAN,
     error: BOOLEAN, configCompletedOld: BOOLEAN, recipe: 0..size]

DeviceConfigColdStart ==
    [status |-> "Idle", currentConfigIndex |-> 0, configNameListSize |-> 0,
     allConfigLoaded |-> FALSE, busy |-> FALSE, error |-> FALSE,
     configCompletedOld |-> FALSE, recipe |-> 0]

-----------------------------------------------------------------------------
StartConfig(c, enable) ==
    [c EXCEPT !.busy = enable, !.status = IF enable THEN "Init" ELSE @]

(* DeviceConfigCmdType.Init: the list is cleared before it is read. *)
ReadConfigList(c, size, ok) ==
    [c EXCEPT !.allConfigLoaded = FALSE, !.error = ~ok,
              !.configNameListSize = IF ok THEN size ELSE 0,
              !.status = IF ok THEN "Load" ELSE "Resetting"]

(* DeviceConfigCmdType.Load *)
LoadConfig(c, ok) ==
    IF c.currentConfigIndex >= c.configNameListSize
    THEN [c EXCEPT !.status = "Completed"]
    ELSE [c EXCEPT !.error = ~ok,
                   !.recipe = IF ok THEN c.currentConfigIndex + 1 ELSE 0,
                   !.status = IF ok THEN "WaitProcessing" ELSE "Resetting"]

WaitConfig(c, completed) ==
    IF completed
    THEN [c EXCEPT !.busy = FALSE, !.currentConfigIndex = @ + 1, !.status = "Load"]
    ELSE [c EXCEPT !.busy = FALSE]

CompleteConfigs(c) ==
    [c EXCEPT !.allConfigLoaded = TRUE, !.busy = FALSE, !.error = FALSE,
              !.currentConfigIndex = 0, !.status = "Idle"]

(* DeviceConfigCmdType.Reset; continueAfterError is FALSE in every call. *)
ResetConfigs(c) ==
    [c EXCEPT !.error = FALSE, !.currentConfigIndex = 0, !.status = "Init"]

(* One call: completion counts on its rising edge. *)
DeviceConfigScan(c, enable, completed, size, ok) ==
    LET edge == completed /\ ~c.configCompletedOld
        b == [c EXCEPT !.configCompletedOld = completed]
    IN CASE b.status = "Idle" -> StartConfig(b, enable)
         [] b.status = "Init" -> ReadConfigList(b, size, ok)
         [] b.status = "Load" -> LoadConfig(b, ok)
         [] b.status = "WaitProcessing" -> WaitConfig(b, edge)
         [] b.status = "Completed" -> CompleteConfigs(b)
         [] b.status = "Resetting" -> ResetConfigs(b)
=============================================================================

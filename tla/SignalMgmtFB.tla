---------------------------- MODULE SignalMgmtFB ----------------------------
(***************************************************************************)
(* The function block SignalMgmt (framework/.../diagnostics/SignalMgmt.st) *)
(* as operators on its memory: one operator per operating mode.  The bits  *)
(* of an output action are a set, so that the cumulative bitmask is a      *)
(* union.                                                                  *)
(***************************************************************************)
EXTENDS Naturals

(* Bits 0, 1 and 2 of SignalOutputAction. *)
ActionBits == 0..2
SignalOutputAction ==
    [None |-> {}, EmergencyStop |-> {0}, ImmediateStop |-> {1},
     OnPhaseStop |-> {0, 1}, Inhibition |-> {2}]

(* A lower category is more severe. *)
Alarm == 0
Anomaly == 1
Warning == 2
Information == 3
SignalCategory == Alarm..Information

ResetPolicy == {"AuxReset", "UnconditionedReset", "AutoConditionedReset",
                "AutoProvisionalReset", "AutoPriorityReset", "AutoReset"}
ConditionedPolicies ==
    {"AutoConditionedReset", "AutoProvisionalReset", "AutoPriorityReset"}

(* The metadata the caller passes with a signal. *)
Signal(listSize) ==
    [code: 1..listSize, category: SignalCategory, resetPol: ResetPolicy,
     outputAction: SUBSET ActionBits]

(* The reset inputs. *)
ResetInput(listSize) ==
    [reset: BOOLEAN, auxReset: BOOLEAN, selectiveResetTrigger: BOOLEAN,
     selectiveResetCode: 0..listSize, autoResetCondition: BOOLEAN]

SignalMemory(listSize) ==
    [signalList: SUBSET (1..listSize),
     resetOld: BOOLEAN, resetActivation: BOOLEAN,
     auxResetOld: BOOLEAN, auxResetActivation: BOOLEAN,
     selectiveResetOld: BOOLEAN, selectiveResetActivation: BOOLEAN,
     cumulativeOutputAction: SUBSET ActionBits,
     activeCategory: SignalCategory,
     resetEnable: BOOLEAN, auxResetEnable: BOOLEAN]

(* Before the first call; the enumeration's first value is Alarm.          *)
SignalColdStart ==
    [signalList |-> {},
     resetOld |-> FALSE, resetActivation |-> FALSE,
     auxResetOld |-> FALSE, auxResetActivation |-> FALSE,
     selectiveResetOld |-> FALSE, selectiveResetActivation |-> FALSE,
     cumulativeOutputAction |-> SignalOutputAction.None,
     activeCategory |-> Alarm, resetEnable |-> FALSE, auxResetEnable |-> FALSE]

-----------------------------------------------------------------------------
(* SignalMgmtOperatingMode.Reset *)
ResetSignals(m) ==
    [m EXCEPT !.signalList = {},
              !.resetOld = FALSE, !.auxResetOld = FALSE,
              !.selectiveResetOld = FALSE,
              !.cumulativeOutputAction = SignalOutputAction.None,
              !.activeCategory = Information,
              !.resetEnable = FALSE, !.auxResetEnable = FALSE]

(* Mutant: a held button counts as pressed. *)
LevelPrepareSignals(m, in) ==
    [m EXCEPT !.resetActivation = in.reset,
              !.auxResetActivation = in.auxReset,
              !.selectiveResetActivation = in.selectiveResetTrigger,
              !.cumulativeOutputAction = SignalOutputAction.None,
              !.activeCategory = Information,
              !.resetEnable = FALSE, !.auxResetEnable = FALSE]

(* SignalMgmtOperatingMode.Prepare: the edges of the reset inputs hold for  *)
(* the whole cycle.                                                        *)
PrepareSignals(m, in) ==
    [m EXCEPT !.resetActivation = in.reset /\ ~m.resetOld, !.resetOld = in.reset,
              !.auxResetActivation = in.auxReset /\ ~m.auxResetOld,
              !.auxResetOld = in.auxReset,
              !.selectiveResetActivation =
                  in.selectiveResetTrigger /\ ~m.selectiveResetOld,
              !.selectiveResetOld = in.selectiveResetTrigger,
              !.cumulativeOutputAction = SignalOutputAction.None,
              !.activeCategory = Information,
              !.resetEnable = FALSE, !.auxResetEnable = FALSE]

requiresManualReset(s) ==
    s.category \in {Alarm, Anomaly} /\ s.resetPol # "AutoReset"

(* The reset conditions of the edges and of the policy. *)
ResetAdmitted(m, s, in) ==
    \/ m.resetActivation
    \/ m.auxResetActivation /\ s.resetPol = "AuxReset"
    \/ in.autoResetCondition /\ s.resetPol \in ConditionedPolicies
    \/ m.selectiveResetActivation /\ in.selectiveResetCode = s.code

(* Whether the signal is in the list after its call. *)
StaysActive(m, s, active, in) ==
    \/ active
    \/ /\ s.code \in m.signalList
       /\ requiresManualReset(s) /\ ~ResetAdmitted(m, s, in)

(* Mutant: the outputs are accumulated before the list is updated. *)
EarlyProcessSignal(m, s, active, in) ==
    LET was == s.code \in m.signalList
        on == StaysActive(m, s, active, in)
    IN [m EXCEPT
          !.signalList = IF on THEN @ \cup {s.code} ELSE @ \ {s.code},
          !.cumulativeOutputAction = IF was THEN @ \cup s.outputAction ELSE @,
          !.activeCategory = IF was /\ s.category < @ THEN s.category ELSE @]

(* SignalMgmtOperatingMode.Process *)
ProcessSignal(m, s, active, in) ==
    LET on == StaysActive(m, s, active, in)
    IN [m EXCEPT
          !.signalList = IF on THEN @ \cup {s.code} ELSE @ \ {s.code},
          !.cumulativeOutputAction = IF on THEN @ \cup s.outputAction ELSE @,
          !.activeCategory = IF on /\ s.category < @ THEN s.category ELSE @,
          !.resetEnable = @ \/ (on /\ ~active /\ requiresManualReset(s)),
          !.auxResetEnable = @ \/ (on /\ ~active /\ s.resetPol = "AuxReset")]
=============================================================================

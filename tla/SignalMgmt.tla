----------------------------- MODULE SignalMgmt -----------------------------
(***************************************************************************)
(* A signal supervisor in use: one cycle prepares the supervisor and then  *)
(* has it process every signal in turn, as DeviceDiagnostics and the test  *)
(* suite of the devices do, while causes come and go and an operator       *)
(* handles the reset inputs between any two calls.                         *)
(***************************************************************************)
EXTENDS SignalMgmtFB, Sequences

CONSTANTS
    SIGNAL_LIST_MAX_SIZE,
    SignalLists   \* the applications: each the signals of a cycle, in the order
                  \* of their calls

ASSUME SignalAssumption ==
    /\ SIGNAL_LIST_MAX_SIZE \in Nat
    /\ SignalLists \subseteq Seq(Signal(SIGNAL_LIST_MAX_SIZE)) \ {<<>>}
    /\ \A list \in SignalLists : \A k, l \in DOMAIN list :
          k # l => list[k].code # list[l].code

VARIABLES
    signals, \* the application at hand
    sm,      \* memory of the supervisor
    next,    \* index of the next signal of the cycle; 0 between cycles
    causes,  \* codes whose activation condition holds
    in,      \* the reset inputs
    seenGone,\* history: codes whose cause was absent at their last call
    credit   \* history: codes that the last press of a button may still reset
vars == <<signals, sm, next, causes, in, seenGone, credit>>

Codes == {signals[k].code : k \in DOMAIN signals}
Buttons == {"reset", "auxReset", "selectiveResetTrigger"}
(* The codes that a press of b may reset. *)
Resettable(b) ==
    {signals[k].code : k \in {j \in DOMAIN signals :
        /\ requiresManualReset(signals[j])
        /\ b = "auxReset" => signals[j].resetPol = "AuxReset"}}

Init ==
    /\ signals \in SignalLists
    /\ sm = SignalColdStart
    /\ next = 0
    /\ causes = {}
    /\ in = [reset |-> FALSE, auxReset |-> FALSE, selectiveResetTrigger |-> FALSE,
             selectiveResetCode |-> 0, autoResetCondition |-> FALSE]
    /\ seenGone = Codes
    /\ credit = [b \in Buttons |-> {}]

CauseChanges ==
    /\ \E c \in Codes : causes' = IF c \in causes THEN causes \ {c} ELSE causes \cup {c}
    /\ UNCHANGED <<signals, sm, next, in, seenGone, credit>>

OperatorActs ==
    /\ \/ \E b \in Buttons :
             /\ in' = [in EXCEPT ![b] = ~@]
             /\ credit' = IF in[b] THEN credit ELSE [credit EXCEPT ![b] = Resettable(b)]
       \/ /\ \E c \in Codes \ {in.selectiveResetCode} :
                in' = [in EXCEPT !.selectiveResetCode = c]
          /\ UNCHANGED credit
       \/ /\ in' = [in EXCEPT !.autoResetCondition = ~@]
          /\ UNCHANGED credit
    /\ UNCHANGED <<signals, sm, next, causes, seenGone>>

(* Initialization of the application, between two cycles. *)
ResetCall ==
    /\ next = 0
    /\ sm' = ResetSignals(sm)
    /\ UNCHANGED <<signals, next, causes, in, seenGone, credit>>

PrepareCall ==
    /\ next = 0
    /\ sm' = PrepareSignals(sm, in)
    /\ next' = 1
    /\ UNCHANGED <<signals, causes, in, seenGone, credit>>

ProcessCall ==
    /\ next > 0
    /\ LET s == signals[next]
           active == s.code \in causes
       IN /\ sm' = ProcessSignal(sm, s, active, in)
          /\ seenGone' = IF active THEN seenGone \ {s.code} ELSE seenGone \cup {s.code}
          /\ credit' = [b \in Buttons |->
                credit[b] \ (sm.signalList \ sm'.signalList)]
    /\ next' = IF next = Len(signals) THEN 0 ELSE next + 1
    /\ UNCHANGED <<signals, causes, in>>

Next == CauseChanges \/ OperatorActs \/ ResetCall \/ PrepareCall \/ ProcessCall
Spec == Init /\ [][Next]_vars

-----------------------------------------------------------------------------
(* Type invariant. *)
TypeOK ==
    /\ signals \in SignalLists
    /\ sm \in SignalMemory(SIGNAL_LIST_MAX_SIZE)
    /\ next \in 0..Len(signals)
    /\ causes \subseteq Codes
    /\ in \in ResetInput(SIGNAL_LIST_MAX_SIZE)
    /\ seenGone \subseteq Codes
    /\ credit \in [Buttons -> SUBSET Codes]

Latched == {k \in DOMAIN signals : signals[k].code \in sm.signalList}

(* Between cycles the outputs the application reads agree with the list of *)
(* active signals: the stop action is that of all active signals and of no *)
(* other, the category that of the most severe, and a reset is offered     *)
(* exactly when there is something to reset by hand (SignalMgmt.st:31-35). *)
OutputsAgreeWithList ==
    next = 0 /\ sm # SignalColdStart =>
        /\ sm.cumulativeOutputAction =
              UNION {signals[k].outputAction : k \in Latched}
        /\ \A k \in Latched : sm.activeCategory <= signals[k].category
        /\ \/ sm.activeCategory = Information
           \/ \E k \in Latched : sm.activeCategory = signals[k].category
        /\ sm.resetEnable <=>
              \E k \in Latched : /\ signals[k].code \in seenGone
                                 /\ requiresManualReset(signals[k])
        /\ sm.auxResetEnable =>
              \E k \in Latched : signals[k].code \in seenGone

(* One press of a reset button resets a signal at most once: held down, or *)
(* across a reset of the supervisor, it does not reset the signal again    *)
(* when that comes back (SignalMgmt.st:71-77).                             *)
Accepted(s) ==
    {"reset"} \cup (IF s.resetPol = "AuxReset" THEN {"auxReset"} ELSE {})
              \cup (IF in.selectiveResetCode = s.code
                    THEN {"selectiveResetTrigger"} ELSE {})
OnePressResetsOnce ==
    [][next > 0 =>
        LET s == signals[next]
        IN /\ s.code \in sm.signalList \ sm'.signalList
           /\ requiresManualReset(s)
           /\ ~(in.autoResetCondition /\ s.resetPol \in ConditionedPolicies)
           => \E b \in Accepted(s) : s.code \in credit[b]]_vars
=============================================================================

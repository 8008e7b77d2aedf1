-------------------------- MODULE SignalMgmtProofs --------------------------
(* The supervisor's outputs and its reset buttons, for any signals of an   *)
(* application: theorems about SignalMgmt.                                 *)
EXTENDS SignalMgmt, TLAPS

(* A call of this cycle, or of the last one, has been made for signal k.   *)
Done(k) == next = 0 \/ k < next

(* The latched signals whose call the outputs stand for. *)
Counted == {k \in DOMAIN signals : signals[k].code \in sm.signalList /\ Done(k)}
ActionsAgree ==
    \A bit : bit \in sm.cumulativeOutputAction
             <=> \E k \in Counted : bit \in signals[k].outputAction
CategoryAgrees ==
    /\ \A k \in Counted : sm.activeCategory <= signals[k].category
    /\ \/ sm.activeCategory = Information
       \/ \E k \in Counted : sm.activeCategory = signals[k].category
ByHand(k) == signals[k].code \in seenGone /\ requiresManualReset(signals[k])
ResetsAgree ==
    /\ sm.resetEnable <=> \E k \in Counted : ByHand(k)
    /\ sm.auxResetEnable => \E k \in Counted : signals[k].code \in seenGone
OutputsInv ==
    \/ sm = SignalColdStart /\ next = 0
    \/ ActionsAgree /\ CategoryAgrees /\ ResetsAgree

(* A button that is pressed but not yet seen, or seen in this cycle, resets *)
(* nothing that this press has reset before.                               *)
Old(b) ==
    IF b = "reset" THEN sm.resetOld
    ELSE IF b = "auxReset" THEN sm.auxResetOld ELSE sm.selectiveResetOld
Activation(b) ==
    IF b = "reset" THEN sm.resetActivation
    ELSE IF b = "auxReset" THEN sm.auxResetActivation ELSE sm.selectiveResetActivation
Spent(k, b) == signals[k].code \in Resettable(b) \ credit[b]
PressInv ==
    \A b \in Buttons, k \in DOMAIN signals : Spent(k, b) =>
        /\ in[b] /\ ~ Old(b) => signals[k].code \notin sm.signalList /\ Done(k)
        /\ Activation(b) /\ ~ Done(k) => signals[k].code \notin sm.signalList

IInv == TypeOK /\ OutputsInv /\ PressInv

-----------------------------------------------------------------------------
(* The signals of an application. *)
LEMMA SignalsAreKnown ==
  ASSUME TypeOK
  PROVE  /\ Len(signals) \in Nat \ {0} /\ DOMAIN signals = 1..Len(signals)
         /\ \A k \in DOMAIN signals : signals[k] \in Signal(SIGNAL_LIST_MAX_SIZE)
         /\ \A k, l \in DOMAIN signals : k # l => signals[k].code # signals[l].code
  <1>1. /\ signals \in Seq(Signal(SIGNAL_LIST_MAX_SIZE)) /\ signals # <<>>
        /\ \A k, l \in DOMAIN signals : k # l => signals[k].code # signals[l].code
    BY SignalAssumption DEF TypeOK
  <1>2. Len(signals) \in Nat /\ Len(signals) # 0 /\ DOMAIN signals = 1..Len(signals)
    BY <1>1
  <1>3. \A k \in 1..Len(signals) : signals[k] \in Signal(SIGNAL_LIST_MAX_SIZE)
    BY <1>1
  <1> QED BY <1>1, <1>2, <1>3

LEMMA CodesAreSmall ==
  ASSUME TypeOK
  PROVE  Codes \subseteq 1..SIGNAL_LIST_MAX_SIZE
  BY SignalsAreKnown DEF Codes, Signal

LEMMA InitEstablishes == Init => IInv
  <1> SUFFICES ASSUME Init PROVE IInv OBVIOUS
  <1>1. sm \in SignalMemory(SIGNAL_LIST_MAX_SIZE)
    BY DEF Init, SignalColdStart, SignalMemory, SignalOutputAction, SignalCategory, Alarm,
           Information
  <1>2. in \in ResetInput(SIGNAL_LIST_MAX_SIZE)
    BY SignalAssumption DEF Init, ResetInput
  <1>3. TypeOK
    <2>1. Len(signals) \in Nat
      BY SignalAssumption DEF Init
    <2> QED BY <1>1, <1>2, <2>1 DEF Init, TypeOK
  <1>4. OutputsInv
    BY DEF Init, OutputsInv
  <1>5. PressInv
    <2>1. \A b \in Buttons : ~ in[b] /\ ~ Activation(b)
      BY DEF Init, Buttons, Activation, SignalColdStart
    <2> QED BY <2>1 DEF PressInv
  <1> QED BY <1>3, <1>4, <1>5 DEF IInv

-----------------------------------------------------------------------------
(* What the outputs and the buttons depend on. *)
LEMMA OutputsKept ==
  ASSUME OutputsInv, UNCHANGED <<signals, sm, next, seenGone>>
  PROVE  OutputsInv'
  <1>1. Counted' = Counted
    BY DEF Counted, Done
  <1>2. \A k : ByHand(k)' <=> ByHand(k)
    BY DEF ByHand
  <1> QED BY <1>1, <1>2 DEF OutputsInv, ActionsAgree, CategoryAgrees, ResetsAgree

LEMMA CauseChangesStep == IInv /\ CauseChanges => IInv'
  <1> SUFFICES ASSUME IInv, CauseChanges PROVE IInv' OBVIOUS
  <1>1. TypeOK'
    BY DEF IInv, TypeOK, CauseChanges, Codes, Buttons
  <1>2. OutputsInv'
    BY OutputsKept DEF IInv, CauseChanges
  <1>3. PressInv'
    <2>1. /\ \A b : Resettable(b)' = Resettable(b) /\ Old(b)' = Old(b)
                   /\ Activation(b)' = Activation(b)
          /\ \A k : Done(k)' = Done(k)
      BY DEF CauseChanges, Old, Activation, Done, Resettable
    <2>2. \A b, k : Spent(k, b)' = Spent(k, b)
      BY <2>1 DEF CauseChanges, Spent
    <2> QED BY <2>1, <2>2 DEF IInv, PressInv, CauseChanges
  <1> QED BY <1>1, <1>2, <1>3 DEF IInv

(* A press is worth one reset of each signal the button resets.            *)
LEMMA OperatorActsStep == IInv /\ OperatorActs => IInv'
  <1> SUFFICES ASSUME IInv, OperatorActs PROVE IInv' OBVIOUS
  <1>1. Codes' = Codes /\ \A b : Resettable(b)' = Resettable(b) /\ Resettable(b) \subseteq Codes
    BY DEF OperatorActs, Codes, Resettable
  <1>2. OutputsInv'
    BY OutputsKept DEF IInv, OperatorActs
  <1>3. \A b : Old(b)' = Old(b) /\ Activation(b)' = Activation(b)
    BY DEF OperatorActs, Old, Activation
  <1>4. \A k : Done(k)' = Done(k)
    BY DEF OperatorActs, Done
  <1>5. ASSUME NEW b \in Buttons, in' = [in EXCEPT ![b] = ~@],
               credit' = IF in[b] THEN credit ELSE [credit EXCEPT ![b] = Resettable(b)]
        PROVE  TypeOK' /\ PressInv'
    <2>1. in' \in ResetInput(SIGNAL_LIST_MAX_SIZE)
      <3>1. CASE b = "reset"
        BY <1>5, <3>1 DEF IInv, TypeOK, ResetInput
      <3>2. CASE b = "auxReset"
        BY <1>5, <3>2 DEF IInv, TypeOK, ResetInput
      <3>3. CASE b = "selectiveResetTrigger"
        BY <1>5, <3>3 DEF IInv, TypeOK, ResetInput
      <3> QED BY <3>1, <3>2, <3>3 DEF Buttons
    <2>2. credit' \in [Buttons -> SUBSET Codes]
      BY <1>5, <1>1 DEF IInv, TypeOK
    <2>3. TypeOK'
      BY <2>1, <2>2, <1>1 DEF IInv, TypeOK, OperatorActs
    <2>4. \A c \in Buttons : c # b => in'[c] = in[c] /\ credit'[c] = credit[c]
      BY <1>5 DEF IInv, TypeOK, ResetInput, Buttons
    <2>5. in[b] \in BOOLEAN /\ in'[b] = ~ in[b]
      BY <1>5 DEF IInv, TypeOK, ResetInput, Buttons
    <2>6. \/ in[b] /\ credit'[b] = credit[b]
          \/ ~ in[b] /\ credit'[b] = Resettable(b)
      BY <1>5, <2>5 DEF IInv, TypeOK
    <2>7. ASSUME NEW c \in Buttons, NEW k \in DOMAIN signals, Spent(k, c)'
          PROVE  /\ in'[c] /\ ~ Old(c) => signals[k].code \notin sm.signalList /\ Done(k)
                 /\ Activation(c) /\ ~ Done(k) => signals[k].code \notin sm.signalList
      <3>1. CASE c # b
        <4>1. Spent(k, c)
          BY <2>7, <3>1, <2>4, <1>1 DEF Spent, OperatorActs
        <4> QED BY <4>1, <3>1, <2>4 DEF IInv, PressInv
      <3>2. CASE c = b
        <4>1. in[b] /\ Spent(k, b) /\ ~ in'[b]
          BY <2>7, <3>2, <2>5, <2>6, <1>1 DEF Spent, OperatorActs
        <4> QED BY <4>1, <3>2 DEF IInv, PressInv
      <3> QED BY <3>1, <3>2
    <2>8. PressInv'
      BY <2>7, <1>3, <1>4 DEF PressInv, OperatorActs
    <2> QED BY <2>3, <2>8
  <1>6. ASSUME UNCHANGED credit, \A b \in Buttons : in'[b] = in[b],
               in' \in ResetInput(SIGNAL_LIST_MAX_SIZE)
        PROVE  TypeOK' /\ PressInv'
    <2>1. TypeOK'
      BY <1>6, <1>1 DEF IInv, TypeOK, OperatorActs
    <2>2. \A b, k : Spent(k, b)' = Spent(k, b)
      BY <1>6, <1>1 DEF Spent, OperatorActs
    <2> QED BY <1>3, <1>4, <1>6, <2>1, <2>2 DEF IInv, PressInv, OperatorActs
  <1>7. CASE \E b \in Buttons :
                 /\ in' = [in EXCEPT ![b] = ~@]
                 /\ credit' = IF in[b] THEN credit ELSE [credit EXCEPT ![b] = Resettable(b)]
    BY <1>2, <1>5, <1>7 DEF IInv
  <1>8. CASE UNCHANGED credit /\ \E c \in Codes : in' = [in EXCEPT !.selectiveResetCode = c]
    <2>1. in' \in ResetInput(SIGNAL_LIST_MAX_SIZE) /\ \A b \in Buttons : in'[b] = in[b]
      BY <1>8, CodesAreSmall, SignalAssumption DEF IInv, TypeOK, ResetInput, Buttons
    <2> QED BY <2>1, <1>2, <1>6, <1>8 DEF IInv
  <1>9. CASE UNCHANGED credit /\ in' = [in EXCEPT !.autoResetCondition = ~@]
    <2>1. in' \in ResetInput(SIGNAL_LIST_MAX_SIZE) /\ \A b \in Buttons : in'[b] = in[b]
      BY <1>9 DEF IInv, TypeOK, ResetInput, Buttons
    <2> QED BY <2>1, <1>2, <1>6, <1>9 DEF IInv
  <1> QED BY <1>7, <1>8, <1>9 DEF OperatorActs

(* A reset of the supervisor forgets what it has seen of the buttons, and  *)
(* every signal.                                                           *)
LEMMA ResetCallStep == IInv /\ ResetCall => IInv'
  <1> SUFFICES ASSUME IInv, ResetCall PROVE IInv' OBVIOUS
  <1>1. /\ sm'.signalList = {} /\ sm'.cumulativeOutputAction = {}
        /\ sm'.activeCategory = Information /\ ~ sm'.resetEnable /\ ~ sm'.auxResetEnable
        /\ sm' \in SignalMemory(SIGNAL_LIST_MAX_SIZE)
    <2>1. sm \in SignalMemory(SIGNAL_LIST_MAX_SIZE)
      BY DEF IInv, TypeOK
    <2>2. SignalOutputAction.None = {} /\ Information \in SignalCategory
      BY DEF SignalOutputAction, SignalCategory, Alarm, Information
    <2>3. sm' = ResetSignals(sm)
      BY DEF ResetCall
    <2> QED BY <2>1, <2>2, <2>3 DEF ResetSignals, SignalMemory
  <1>2. TypeOK'
    BY <1>1 DEF IInv, TypeOK, ResetCall, Codes
  <1>3. OutputsInv'
    BY <1>1 DEF OutputsInv, ActionsAgree, CategoryAgrees, ResetsAgree, Counted
  <1>4. PressInv'
    BY <1>1 DEF PressInv, Done, ResetCall
  <1> QED BY <1>2, <1>3, <1>4 DEF IInv

(* A cycle begins: no signal is counted yet, and the edges are taken.      *)
LEMMA PrepareCallStep == IInv /\ PrepareCall => IInv'
  <1> SUFFICES ASSUME IInv, PrepareCall PROVE IInv' OBVIOUS
  <1>1. /\ sm'.signalList = sm.signalList /\ sm'.cumulativeOutputAction = {}
        /\ sm'.activeCategory = Information /\ ~ sm'.resetEnable /\ ~ sm'.auxResetEnable
        /\ sm' \in SignalMemory(SIGNAL_LIST_MAX_SIZE)
    <2>1. sm \in SignalMemory(SIGNAL_LIST_MAX_SIZE) /\ in \in ResetInput(SIGNAL_LIST_MAX_SIZE)
      BY DEF IInv, TypeOK
    <2>2. SignalOutputAction.None = {} /\ Information \in SignalCategory
      BY DEF SignalOutputAction, SignalCategory, Alarm, Information
    <2>3. sm' = PrepareSignals(sm, in)
      BY DEF PrepareCall
    <2> DEFINE pressed == in.reset /\ ~ sm.resetOld
               auxPressed == in.auxReset /\ ~ sm.auxResetOld
               selected == in.selectiveResetTrigger /\ ~ sm.selectiveResetOld
    <2>4. pressed \in BOOLEAN /\ auxPressed \in BOOLEAN /\ selected \in BOOLEAN
      OBVIOUS
    <2>5. /\ in.reset \in BOOLEAN /\ in.auxReset \in BOOLEAN
          /\ in.selectiveResetTrigger \in BOOLEAN
      BY <2>1 DEF ResetInput
    <2> DEFINE edges == [sm EXCEPT
                           !.resetActivation = pressed, !.resetOld = in.reset,
                           !.auxResetActivation = auxPressed, !.auxResetOld = in.auxReset,
                           !.selectiveResetActivation = selected,
                           !.selectiveResetOld = in.selectiveResetTrigger]
    <2>6. sm' = [edges EXCEPT
                   !.cumulativeOutputAction = {}, !.activeCategory = Information,
                   !.resetEnable = FALSE, !.auxResetEnable = FALSE]
      BY <2>1, <2>2, <2>3 DEF PrepareSignals, SignalMemory
    <2> HIDE DEF pressed, auxPressed, selected
    <2>7. edges \in SignalMemory(SIGNAL_LIST_MAX_SIZE) /\ edges.signalList = sm.signalList
      BY <2>1, <2>4, <2>5, ZenonT(30) DEF SignalMemory
    <2> HIDE DEF edges
    <2> QED BY <2>2, <2>6, <2>7 DEF SignalMemory
  <1>2. TypeOK'
    BY <1>1, SignalsAreKnown DEF IInv, TypeOK, PrepareCall, Codes
  <1>3. OutputsInv'
    <2>1. Counted' = {}
      BY SignalsAreKnown DEF IInv, PrepareCall, Counted, Done
    <2> QED BY <1>1, <2>1 DEF OutputsInv, ActionsAgree, CategoryAgrees, ResetsAgree
  <1>4. PressInv'
    <2>1. \A b \in Buttons : Old(b)' = in[b] /\ (Activation(b)' <=> in[b] /\ ~ Old(b))
      BY DEF IInv, TypeOK, PrepareCall, PrepareSignals, SignalMemory, ResetInput, Old,
             Activation, Buttons
    <2>2. \A b, k : Spent(k, b)' = Spent(k, b)
      BY DEF PrepareCall, Spent, Resettable
    <2> QED BY <1>1, <2>1, <2>2 DEF IInv, PressInv, PrepareCall
  <1> QED BY <1>2, <1>3, <1>4 DEF IInv

-----------------------------------------------------------------------------
(* A call counts its signal and leaves the others as they are.             *)
LEMMA ProcessCallStep == IInv /\ ProcessCall => IInv'
  <1> SUFFICES ASSUME IInv, ProcessCall PROVE IInv' OBVIOUS
  <1> DEFINE s == signals[next]
             active == s.code \in causes
             on == StaysActive(sm, s, active, in)
  <1>1. next \in DOMAIN signals /\ s \in Signal(SIGNAL_LIST_MAX_SIZE)
    BY SignalsAreKnown DEF IInv, TypeOK, ProcessCall
  <1>2. /\ sm' = ProcessSignal(sm, s, active, in)
        /\ seenGone' = IF active THEN seenGone \ {s.code} ELSE seenGone \cup {s.code}
        /\ credit' = [b \in Buttons |-> credit[b] \ (sm.signalList \ sm'.signalList)]
        /\ UNCHANGED <<signals, causes, in>>
    BY DEF ProcessCall
  <1>3. /\ sm'.signalList = IF on THEN sm.signalList \cup {s.code} ELSE sm.signalList \ {s.code}
        /\ sm'.cumulativeOutputAction =
             IF on THEN sm.cumulativeOutputAction \cup s.outputAction
             ELSE sm.cumulativeOutputAction
        /\ sm'.activeCategory =
             IF on /\ s.category < sm.activeCategory THEN s.category ELSE sm.activeCategory
        /\ sm'.resetEnable = (sm.resetEnable \/ (on /\ ~ active /\ requiresManualReset(s)))
        /\ sm'.auxResetEnable =
             (sm.auxResetEnable \/ (on /\ ~ active /\ s.resetPol = "AuxReset"))
        /\ \A b \in Buttons : Old(b)' = Old(b) /\ Activation(b)' = Activation(b)
    BY <1>2 DEF IInv, TypeOK, SignalMemory, ProcessSignal, Old, Activation, Buttons
  <1>4. \A k \in DOMAIN signals : k # next =>
          /\ signals[k].code \in sm'.signalList <=> signals[k].code \in sm.signalList
          /\ signals[k].code \in seenGone' <=> signals[k].code \in seenGone
    BY <1>1, <1>2, <1>3, SignalsAreKnown DEF IInv
  <1>5. /\ s.code \in sm'.signalList <=> on
        /\ s.code \in seenGone' <=> ~ active
    BY <1>2, <1>3
  <1>6. /\ \A k \in DOMAIN signals : Done(k)' <=> (Done(k) \/ k = next)
        /\ ~ Done(next)
    BY SignalsAreKnown, <1>1 DEF IInv, TypeOK, ProcessCall, Done
  <1>7. TypeOK'
    <2>1. sm' \in SignalMemory(SIGNAL_LIST_MAX_SIZE)
      <3> DEFINE list == sm'.signalList
                 bits == sm'.cumulativeOutputAction
                 category == sm'.activeCategory
      <3>1. sm \in SignalMemory(SIGNAL_LIST_MAX_SIZE)
        BY DEF IInv, TypeOK
      <3>2. /\ list \subseteq 1..SIGNAL_LIST_MAX_SIZE /\ bits \subseteq ActionBits
            /\ category \in SignalCategory
        BY <1>1, <1>3, <3>1 DEF SignalMemory, Signal
      <3>3. sm'.resetEnable \in BOOLEAN /\ sm'.auxResetEnable \in BOOLEAN
        BY <1>3, <3>1 DEF SignalMemory
      <3>4. sm' = [sm EXCEPT !.signalList = list, !.cumulativeOutputAction = bits,
                             !.activeCategory = category, !.resetEnable = sm'.resetEnable,
                             !.auxResetEnable = sm'.auxResetEnable]
        BY <1>2, <3>1 DEF ProcessSignal, SignalMemory
      <3> HIDE DEF list, bits, category
      <3> QED BY <3>1, <3>2, <3>3, <3>4 DEF SignalMemory
    <2>2. next' \in 0..Len(signals')
      BY SignalsAreKnown, <1>1, <1>2 DEF IInv, TypeOK, ProcessCall
    <2>3. s.code \in Codes /\ Codes' = Codes
      BY <1>1, <1>2 DEF Codes
    <2> QED BY <1>2, <2>1, <2>2, <2>3 DEF IInv, TypeOK
  <1>8. OutputsInv'
    <2>1. ActionsAgree /\ CategoryAgrees /\ ResetsAgree
      BY <1>1, SignalsAreKnown DEF IInv, OutputsInv, ProcessCall
    <2>2. Counted' = Counted \cup {k \in {next} : on} /\ next \notin Counted
      BY <1>1, <1>2, <1>4, <1>5, <1>6 DEF Counted
    <2>3. \A k \in Counted : /\ k \in DOMAIN signals /\ k # next
                             /\ signals[k].code \in seenGone' <=> signals[k].code \in seenGone
      BY <2>2, <1>4 DEF Counted
    <2>4. ActionsAgree'
      BY <1>2, <1>3, <2>1, <2>2 DEF ActionsAgree
    <2>5. CategoryAgrees'
      <3>1. s.category \in Nat /\ sm.activeCategory \in Nat /\ s.category <= Information
            /\ \A k \in DOMAIN signals : signals[k].category \in Nat
        BY <1>1, SignalsAreKnown
           DEF IInv, TypeOK, Signal, SignalMemory, SignalCategory, Alarm, Information
      <3>2. \A k \in Counted' : signals[k].category >= sm'.activeCategory
        BY <1>3, <2>1, <2>2, <2>3, <3>1 DEF CategoryAgrees
      <3>3. CASE on /\ s.category < sm.activeCategory
        BY <1>2, <1>3, <2>2, <3>1, <3>2, <3>3 DEF CategoryAgrees
      <3>4. CASE ~ (on /\ s.category < sm.activeCategory)
        BY <1>2, <1>3, <2>1, <2>2, <2>3, <3>1, <3>2, <3>4 DEF CategoryAgrees
      <3> QED BY <3>3, <3>4
    <2>6. ResetsAgree'
      <3>1. \A k \in Counted : ByHand(k)' <=> ByHand(k)
        BY <1>2, <2>3 DEF ByHand, requiresManualReset
      <3>2. \A k : k = next => (ByHand(k)' <=> ~ active /\ requiresManualReset(s))
        BY <1>2, <1>5 DEF ByHand, requiresManualReset
      <3>3. sm'.resetEnable <=> \E k \in Counted' : ByHand(k)'
        BY <1>3, <2>1, <2>2, <3>1, <3>2 DEF ResetsAgree
      <3>4. sm'.auxResetEnable => \E k \in Counted' : signals[k].code \in seenGone'
        BY <1>3, <1>5, <2>1, <2>2, <2>3 DEF ResetsAgree
      <3> QED BY <1>2, <3>3, <3>4 DEF ResetsAgree
    <2> QED BY <2>4, <2>5, <2>6 DEF OutputsInv
  <1>9. PressInv'
    <2>0. \A b : Resettable(b)' = Resettable(b)
      BY <1>2 DEF Resettable
    <2>1. ASSUME NEW b \in Buttons, NEW k \in DOMAIN signals, Spent(k, b)', k # next
          PROVE  Spent(k, b)
      <3>1. signals[k].code \notin sm.signalList \ sm'.signalList
        BY <2>1, <1>4
      <3> QED BY <1>2, <2>0, <2>1, <3>1 DEF Spent
    <2>2. ASSUME NEW b \in Buttons, NEW k \in DOMAIN signals, k = next,
                 Spent(k, b)', in[b] /\ ~ Old(b)
          PROVE  s.code \notin sm'.signalList
      <3>1. ~ Spent(k, b)
        BY <1>1, <1>6, <2>2 DEF IInv, PressInv
      <3>2. s.code \in credit[b] \ credit'[b]
        BY <1>2, <2>2, <3>1, <2>0 DEF Spent
      <3> QED BY <1>2, <3>2
    <2>3. ASSUME NEW b \in Buttons, NEW k \in DOMAIN signals, Spent(k, b)'
          PROVE  /\ in[b] /\ ~ Old(b) => signals[k].code \notin sm'.signalList /\ Done(k)'
                 /\ Activation(b) /\ ~ Done(k)' => signals[k].code \notin sm'.signalList
      <3>1. CASE k = next
        BY <1>6, <2>2, <2>3, <3>1
      <3>2. CASE k # next
        BY <1>4, <1>6, <2>1, <2>3, <3>2 DEF IInv, PressInv
      <3> QED BY <3>1, <3>2
    <2> QED BY <1>2, <1>3, <2>3 DEF PressInv
  <1> QED BY <1>7, <1>8, <1>9 DEF IInv

-----------------------------------------------------------------------------
(* The inductive invariant: types, the outputs stand for the signals of    *)
(* this cycle that are processed, and no press is spent twice.             *)
THEOREM Invariance == Spec => []IInv
  <1>1. IInv /\ [Next]_vars => IInv'
    <2> SUFFICES ASSUME IInv, [Next]_vars PROVE IInv' OBVIOUS
    <2>1. CASE Next
      BY <2>1, CauseChangesStep, OperatorActsStep, ResetCallStep, PrepareCallStep,
         ProcessCallStep DEF Next
    <2>2. CASE UNCHANGED vars
      <3>1. OutputsInv'
        BY <2>2, OutputsKept DEF vars, IInv
      <3>2. TypeOK'
        BY <2>2 DEF vars, IInv, TypeOK, Codes
      <3>3. /\ \A b : Resettable(b)' = Resettable(b) /\ Old(b)' = Old(b)
                     /\ Activation(b)' = Activation(b)
            /\ \A k : Done(k)' = Done(k)
        BY <2>2 DEF vars, Old, Activation, Done, Resettable
      <3>4. \A b, k : Spent(k, b)' = Spent(k, b)
        BY <2>2, <3>3 DEF vars, Spent
      <3>5. PressInv'
        BY <2>2, <3>3, <3>4 DEF vars, IInv, PressInv
      <3> QED BY <3>1, <3>2, <3>5 DEF IInv
    <2> QED BY <2>1, <2>2
  <1> QED BY <1>1, InitEstablishes, PTL DEF Spec

(* OutputsAgreeWithList: between cycles stop action, category and offered  *)
(* resets are those of the latched signals, for every application.         *)
THEOREM OutputsAgree == Spec => []OutputsAgreeWithList
  <1>1. IInv => OutputsAgreeWithList
    <2> SUFFICES ASSUME IInv, next = 0, sm # SignalColdStart
                 PROVE  /\ sm.cumulativeOutputAction =
                             UNION {signals[k].outputAction : k \in Latched}
                        /\ CategoryAgrees /\ ResetsAgree /\ Counted = Latched
      BY DEF OutputsAgreeWithList, CategoryAgrees, ResetsAgree, ByHand
    <2>1. ActionsAgree /\ CategoryAgrees /\ ResetsAgree
      BY DEF IInv, OutputsInv
    <2>2. Counted = Latched
      BY DEF Counted, Latched, Done
    <2>3. sm.cumulativeOutputAction = UNION {signals[k].outputAction : k \in Latched}
      BY <2>1, <2>2 DEF ActionsAgree
    <2> QED BY <2>1, <2>2, <2>3
  <1> QED BY <1>1, Invariance, PTL

(* OnePressResetsOnce: whatever the operator does between the calls, and   *)
(* across resets of the supervisor, a press resets a signal once at most.  *)
THEOREM PressesSpentOnce == Spec => OnePressResetsOnce
  <1> DEFINE s == signals[next]
             ByHandOnly ==
               /\ s.code \in sm.signalList \ sm'.signalList
               /\ requiresManualReset(s)
               /\ ~ (in.autoResetCondition /\ s.resetPol \in ConditionedPolicies)
  <1>1. ASSUME IInv, Next, next > 0, ByHandOnly
        PROVE  \E b \in Accepted(s) : s.code \in credit[b]
    <2>1. ProcessCall
      BY <1>1 DEF Next, CauseChanges, OperatorActs, ResetCall, PrepareCall
    <2>2. next \in DOMAIN signals /\ ~ Done(next)
      BY <1>1, SignalsAreKnown DEF IInv, TypeOK, Done
    <2>3. ResetAdmitted(sm, s, in)
      BY <1>1, <2>1 DEF ProcessCall, ProcessSignal, StaysActive, IInv, TypeOK, SignalMemory
    <2>4. PICK b \in Accepted(s) : b \in Buttons /\ Activation(b) /\ s.code \in Resettable(b)
      <3>1. s.code \in Resettable("reset")
        BY <1>1, <2>2 DEF Resettable
      <3>2. s.resetPol = "AuxReset" => s.code \in Resettable("auxReset")
        BY <1>1, <2>2 DEF Resettable
      <3>3. s.code \in Resettable("selectiveResetTrigger")
        BY <1>1, <2>2 DEF Resettable
      <3> QED BY <1>1, <2>3, <3>1, <3>2, <3>3
              DEF ResetAdmitted, Accepted, Buttons, Activation
    <2>5. ~ Spent(next, b)
      BY <1>1, <2>2, <2>4 DEF IInv, PressInv
    <2> QED BY <2>4, <2>5 DEF Spent
  <1>2. IInv /\ [Next]_vars =>
          [next > 0 => (ByHandOnly => \E b \in Accepted(s) : s.code \in credit[b])]_vars
    BY <1>1
  <1> QED BY <1>2, Invariance, PTL DEF Spec, OnePressResetsOnce
=============================================================================

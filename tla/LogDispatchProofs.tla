------------------------- MODULE LogDispatchProofs --------------------------
(***************************************************************************)
(* Proofs about the loggers and their dispatcher, for buffers of any size, *)
(* any number of loggers and every plant; the second part shows that every *)
(* buffer of every logger implements a BoundedLog.                         *)
(***************************************************************************)
EXTENDS LogDispatch, SequenceTheorems, TLAPS

(* A buffer of its type whose tail follows its head. *)
Sound(r) == r \in Ring /\ r.tail = Position(r.head, r.logSize)

LEMMA ColdStartSound == Sound(RingColdStart)
<1>1. BlankEvent \in LogEvent
  BY LogAssumption DEF BlankEvent, LogEvent
<1>2. RingColdStart \in Ring
  BY <1>1, LogAssumption DEF RingColdStart, Ring, Slots
<1>3. RingColdStart.tail = Position(RingColdStart.head, RingColdStart.logSize)
  BY LogAssumption DEF RingColdStart, Position
<1>4. QED
  BY <1>2, <1>3 DEF Sound

(* A push into a buffer whose overflow count is below its maximum. *)
LEMMA PushSound ==
    ASSUME NEW r, Sound(r), r.overflowCount < MAX_UDINT, NEW e \in LogEvent
    PROVE  Sound(Push(r, e))
<1>1. /\ r \in Ring /\ r.head \in Slots /\ r.tail \in Slots
      /\ r.logSize \in 0..LOG_MAX_SIZE /\ r.overflowCount \in 0..MAX_UDINT
      /\ r.tail = Position(r.head, r.logSize)
  BY DEF Sound, Ring
<1>2. After(r.tail) \in Slots /\ After(r.head) \in Slots
  BY <1>1, LogAssumption DEF After, Slots
<1>3. [r.logBuffer EXCEPT ![r.tail] = e] \in [Slots -> LogEvent]
  BY <1>1 DEF Ring
<1>4. CASE r.logSize >= LOG_MAX_SIZE
  <2>1. Push(r, e) = [r EXCEPT !.logBuffer = [@ EXCEPT ![r.tail] = e],
                               !.tail = After(@), !.head = After(@),
                               !.overflowCount = @ + 1]
    BY <1>1, <1>4 DEF Push, Ring
  <2>2. r.overflowCount + 1 \in 0..MAX_UDINT
    BY <1>1, LogAssumption
  <2>3. Push(r, e) \in Ring
    BY <1>1, <1>2, <1>3, <2>1, <2>2 DEF Ring
  <2>4. After(r.tail) = Position(After(r.head), r.logSize)
    BY <1>1, <1>4, LogAssumption DEF After, Position, Slots
  <2>5. QED
    BY <1>1, <2>1, <2>3, <2>4 DEF Sound, Ring
<1>5. CASE ~(r.logSize >= LOG_MAX_SIZE)
  <2>1. Push(r, e) = [r EXCEPT !.logBuffer = [@ EXCEPT ![r.tail] = e],
                               !.tail = After(@), !.logSize = @ + 1]
    BY <1>1, <1>5 DEF Push, Ring
  <2>2. r.logSize + 1 \in 0..LOG_MAX_SIZE
    BY <1>1, <1>5, LogAssumption
  <2>3. Push(r, e) \in Ring
    BY <1>1, <1>2, <1>3, <2>1, <2>2 DEF Ring
  <2>4. After(r.tail) = Position(r.head, r.logSize + 1)
    BY <1>1, <1>5, LogAssumption DEF After, Position, Slots
  <2>5. QED
    BY <1>1, <2>1, <2>3, <2>4 DEF Sound, Ring
<1>6. QED
  BY <1>4, <1>5

(* Counting a repetition moves no index. *)
LEMMA IncrementSound ==
    ASSUME NEW r, Sound(r) PROVE Sound(IncrementLast(r))
<1>1. /\ r \in Ring /\ r.tail \in Slots /\ r.logBuffer \in [Slots -> LogEvent]
      /\ r.tail = Position(r.head, r.logSize)
  BY DEF Sound, Ring
<1>2. CASE r.logSize = 0
  BY <1>1, <1>2 DEF IncrementLast, Sound, Ring
<1>3. CASE r.logSize # 0
  <2> DEFINE i == Before(r.tail)
             n == r.logBuffer[i].repeatCount
             e == [r.logBuffer[i] EXCEPT !.repeatCount = IF n < MaxRepeat THEN n + 1 ELSE n]
  <2>1. i \in Slots
    BY <1>1, LogAssumption DEF Before, Slots
  <2>2. r.logBuffer[i] \in LogEvent /\ n \in 0..MaxRepeat
    BY <1>1, <2>1 DEF LogEvent
  <2>3. (IF n < MaxRepeat THEN n + 1 ELSE n) \in 0..MaxRepeat
    BY <2>2, LogAssumption
  <2>4. e \in LogEvent
    BY <2>2, <2>3 DEF LogEvent
  <2>5. IncrementLast(r) = [r EXCEPT !.logBuffer = [@ EXCEPT ![i] = e]]
    BY <1>1, <1>3, <2>1, <2>2 DEF IncrementLast, Ring, LogEvent
  <2>6. [r.logBuffer EXCEPT ![i] = e] \in [Slots -> LogEvent]
    BY <1>1, <2>1, <2>4
  <2>7. QED
    BY <1>1, <2>5, <2>6 DEF Sound, Ring
<1>4. QED
  BY <1>2, <1>3

LEMMA PeekSound == ASSUME NEW r, Sound(r) PROVE Sound(Peek(r))
  BY DEF Sound, Ring, Peek

LEMMA PopSound == ASSUME NEW r, Sound(r) PROVE Sound(Pop(r))
<1>1. /\ r \in Ring /\ r.head \in Slots /\ r.logBuffer[r.head] \in LogEvent
      /\ r.logSize \in 0..LOG_MAX_SIZE /\ r.tail = Position(r.head, r.logSize)
  BY DEF Sound, Ring
<1>2. CASE r.logSize = 0
  BY <1>1, <1>2 DEF Pop, Sound, Ring
<1>3. CASE r.logSize # 0
  <2>1. After(r.head) \in Slots /\ r.logSize - 1 \in 0..LOG_MAX_SIZE
    BY <1>1, <1>3, LogAssumption DEF After, Slots
  <2>2. r.tail = Position(After(r.head), r.logSize - 1)
    BY <1>1, <1>3, LogAssumption DEF After, Position, Slots
  <2>3. QED
    BY <1>1, <1>3, <2>1, <2>2 DEF Pop, Sound, Ring
<1>4. QED
  BY <1>2, <1>3

LEMMA ClearSound == ASSUME NEW r, Sound(r) PROVE Sound(Clear(r))
<1>1. 1 \in Slots /\ 1 = Position(1, 0) /\ 0 \in 0..LOG_MAX_SIZE /\ 0 \in 0..MAX_UDINT
  BY LogAssumption DEF Position, Slots
<1>2. r \in Ring
  BY DEF Sound
<1>3. Clear(r) \in Ring
  BY <1>1, <1>2 DEF Clear, Ring
<1>4. QED
  BY <1>1, <1>2, <1>3 DEF Clear, Sound, Ring

(* Every command keeps a buffer sound, and the guard never finds it broken. *)
LEMMA RingSound ==
    ASSUME NEW r, Sound(r), NEW cmd \in LogCmd, NEW e \in LogEvent
    PROVE  Sound(LogRingBuffer(r, cmd, e))
<1> DEFINE n == IF r.overflowCount = MAX_UDINT THEN 1 ELSE r.overflowCount
           fresh == [r EXCEPT !.error = FALSE, !.overflowCount = n]
           done == Command(fresh, cmd, e)
<1>1. ~Broken(r)
  BY LogAssumption DEF Broken, Sound, Ring, Slots
<1>2. Sound(fresh) /\ fresh.overflowCount < MAX_UDINT
  <2>1. n \in 0..MAX_UDINT /\ n < MAX_UDINT
    BY LogAssumption DEF Sound, Ring
  <2>2. QED
    BY <2>1 DEF Sound, Ring
<1>3. Sound(done)
  <2> HIDE DEF fresh
  <2>1. CASE cmd = "Push"          BY <2>1, <1>2, PushSound DEF Command
  <2>2. CASE cmd = "IncrementLast" BY <2>2, <1>2, IncrementSound DEF Command
  <2>3. CASE cmd = "Peek"          BY <2>3, <1>2, PeekSound DEF Command
  <2>4. CASE cmd = "Pop"           BY <2>4, <1>2, PopSound DEF Command
  <2>5. CASE cmd = "Clear"         BY <2>5, <1>2, ClearSound DEF Command
  <2>6. QED
    BY <2>1, <2>2, <2>3, <2>4, <2>5 DEF LogCmd
<1>4. LogRingBuffer(r, cmd, e) = [done EXCEPT !.isEmpty = done.logSize = 0]
  BY <1>1 DEF LogRingBuffer, Sound, Ring
<1>5. QED
  <2> HIDE DEF done
  <2>1. QED BY <1>3, <1>4 DEF Sound, Ring

(* A logger below the maximum only ever adds to its buffer. *)
LEMMA RingGrows ==
    ASSUME NEW r, Sound(r), r.overflowCount < MAX_UDINT,
           NEW cmd \in {"Push", "IncrementLast"}, NEW e \in LogEvent
    PROVE  /\ LogRingBuffer(r, cmd, e).logSize >= r.logSize
           /\ LogRingBuffer(r, cmd, e).overflowCount
                  \in {r.overflowCount, r.overflowCount + 1}
<1> DEFINE n == IF r.overflowCount = MAX_UDINT THEN 1 ELSE r.overflowCount
           fresh == [r EXCEPT !.error = FALSE, !.overflowCount = n]
           done == Command(fresh, cmd, e)
<1>1. r \in Ring /\ r.logSize \in Nat /\ r.overflowCount \in Nat
  BY LogAssumption DEF Sound, Ring
<1>2. ~Broken(r)
  BY LogAssumption DEF Broken, Sound, Ring, Slots
<1>3. /\ done.logSize \in {r.logSize, r.logSize + 1}
      /\ done.overflowCount \in {r.overflowCount, r.overflowCount + 1}
      /\ done = [done EXCEPT !.isEmpty = @]
  <2>0. fresh \in Ring /\ fresh.logSize = r.logSize /\ fresh.overflowCount = r.overflowCount
    <3>1. n = r.overflowCount
      BY <1>1, LogAssumption
    <3> HIDE DEF n
    <3>2. QED
      BY <1>1, <3>1 DEF Sound, Ring
  <2> HIDE DEF fresh
  <2>1. CASE cmd = "Push"
    BY <2>0, <2>1 DEF Command, Push, Ring
  <2>2. CASE cmd = "IncrementLast"
    BY <2>0, <2>2 DEF Command, IncrementLast, Ring
  <2>3. QED
    BY <2>1, <2>2
<1>4. LogRingBuffer(r, cmd, e) = [done EXCEPT !.isEmpty = done.logSize = 0]
  BY <1>2 DEF LogRingBuffer
<1>5. QED
  <2> HIDE DEF done
  <2>1. /\ LogRingBuffer(r, cmd, e).logSize = done.logSize
        /\ LogRingBuffer(r, cmd, e).overflowCount = done.overflowCount
    BY <1>3, <1>4
  <2>2. QED
    BY <1>1, <1>3, <2>1

-----------------------------------------------------------------------------
(* The loggers. *)
LoggersInv ==
    /\ plant \in Plants
    /\ loggers \in [Loggers -> Facade]
    /\ \A l \in Loggers : Sound(loggers[l].logBuffer)

(* Registration touches the flags of a facade only. *)
LEMMA RegisteredSame ==
    ASSUME NEW f \in Facade
    PROVE  /\ Registered(f) \in Facade
           /\ Registered(f).logBuffer = f.logBuffer
           /\ Registered(f).lastMessage = f.lastMessage
  BY DEF Registered, Facade

(* A call of a facade is a push or a repetition in its buffer. *)
LEMMA FacadeCall ==
    ASSUME NEW f \in Facade, Sound(f.logBuffer), NEW m \in Message, NEW within \in BOOLEAN
    PROVE  /\ LoggerFacade(f, m, within) \in Facade
           /\ \E cmd \in {"Push", "IncrementLast"}, e \in LogEvent :
                 LoggerFacade(f, m, within).logBuffer = LogRingBuffer(f.logBuffer, cmd, e)
<1> DEFINE cmd == IF isDuplicate(f, m, within) THEN "IncrementLast" ELSE "Push"
           e == [message |-> m, repeatCount |-> 1]
           ring == LogRingBuffer(f.logBuffer, cmd, e)
<1>1. e \in LogEvent
  BY LogAssumption DEF LogEvent
<1>2. cmd \in {"Push", "IncrementLast"} /\ cmd \in LogCmd
  BY DEF LogCmd
<1>3. ring \in Ring
  BY <1>1, <1>2, RingSound DEF Sound
<1> HIDE DEF cmd, e
<1>4. LoggerFacade(f, m, within) =
         [f EXCEPT !.lastMessage = m, !.logBuffer = ring, !.error = @ \/ ring.error]
  BY DEF LoggerFacade, cmd, e
<1> HIDE DEF ring
<1>5. ring.error \in BOOLEAN
  BY <1>3 DEF Ring
<1>6. LoggerFacade(f, m, within) \in Facade /\ LoggerFacade(f, m, within).logBuffer = ring
  BY <1>3, <1>4, <1>5 DEF Facade
<1>7. QED
  BY <1>1, <1>2, <1>6 DEF ring

(* A step of StartTask takes the buffer of one logger through one command; *)
(* without commands to the buffer itself, through a push or a repetition.  *)
LEMMA LoggerStep ==
    ASSUME LoggersInv, NEW l \in Loggers, LoggerCall(l) \/ BufferCall(l)
    PROVE  /\ LoggersInv'
           /\ plant' = plant
           /\ \A k \in Loggers : k # l => loggers'[k] = loggers[k]
           /\ \/ loggers'[l].logBuffer = loggers[l].logBuffer
              \/ plant.commands # {}
              \/ /\ loggers[l].logBuffer.overflowCount < plant.maxOverflow
                 /\ \E cmd \in {"Push", "IncrementLast"}, e \in LogEvent :
                       loggers'[l].logBuffer = LogRingBuffer(loggers[l].logBuffer, cmd, e)
<1> DEFINE f == loggers[l]
<1>0. /\ f \in Facade /\ Sound(f.logBuffer) /\ plant \in Plant
      /\ plant.commands \subseteq LogCmd /\ plant.messages[l] \subseteq Message
      /\ plant.windows \subseteq BOOLEAN
  BY DispatchAssumption DEF LoggersInv, Plant
<1>1. CASE LoggerCall(l) /\ loggers' = [loggers EXCEPT ![l] = Registered(@)]
  <2>1. loggers'[l] = Registered(f) /\ plant' = plant
    BY <1>1 DEF LoggerCall, LoggersInv
  <2>2. loggers'[l] \in Facade /\ loggers'[l].logBuffer = f.logBuffer
    BY <1>0, <2>1, RegisteredSame
  <2>3. QED
    BY <1>0, <1>1, <2>1, <2>2 DEF LoggersInv
<1>2. CASE /\ LoggerCall(l)
           /\ f.logBuffer.overflowCount < plant.maxOverflow
           /\ \E m \in plant.messages[l], within \in plant.windows :
                 loggers' = [loggers EXCEPT ![l] = LoggerFacade(Registered(@), m, within)]
  <2>1. PICK m \in Message, within \in BOOLEAN :
           loggers' = [loggers EXCEPT ![l] = LoggerFacade(Registered(@), m, within)]
    BY <1>0, <1>2
  <2>2. loggers'[l] = LoggerFacade(Registered(f), m, within) /\ plant' = plant
    BY <1>2, <2>1 DEF LoggerCall, LoggersInv
  <2>3. Registered(f) \in Facade /\ Registered(f).logBuffer = f.logBuffer
    BY <1>0, RegisteredSame
  <2>4. /\ loggers'[l] \in Facade
        /\ \E cmd \in {"Push", "IncrementLast"}, e \in LogEvent :
              loggers'[l].logBuffer = LogRingBuffer(f.logBuffer, cmd, e)
    BY <1>0, <2>2, <2>3, FacadeCall
  <2>5. Sound(loggers'[l].logBuffer)
    BY <1>0, <2>4, RingSound DEF LogCmd
  <2>6. QED
    BY <1>0, <1>2, <2>1, <2>2, <2>4, <2>5 DEF LoggersInv
<1>3. CASE BufferCall(l)
  <2>1. PICK cmd \in plant.commands :
           loggers' = [loggers EXCEPT ![l].logBuffer = LogRingBuffer(@, cmd, BlankEvent)]
    BY <1>3 DEF BufferCall
  <2>2. BlankEvent \in LogEvent /\ cmd \in LogCmd /\ plant' = plant
    BY <1>0, <1>3, LogAssumption DEF BlankEvent, LogEvent, BufferCall
  <2>3. Sound(LogRingBuffer(f.logBuffer, cmd, BlankEvent))
    BY <1>0, <2>2, RingSound
  <2>4. /\ loggers'[l] \in Facade
        /\ loggers'[l].logBuffer = LogRingBuffer(f.logBuffer, cmd, BlankEvent)
    BY <1>0, <2>1, <2>3 DEF LoggersInv, Facade, Sound
  <2>5. QED
    BY <1>0, <2>1, <2>2, <2>3, <2>4 DEF LoggersInv
<1>4. QED
  BY <1>1, <1>2, <1>3 DEF LoggerCall

LEMMA DispatchKeepsLoggers ==
    ASSUME Dispatch PROVE UNCHANGED <<plant, loggers, logSourceList>>
  BY DEF Dispatch, BeginScan, CopySlot, ReadOverflow, ReadSize, SkipSource,
         CommitSource, CallAppender, AppendLog, appVars

THEOREM LoggersCorrect == Spec => []LoggersInv
<1>1. Init => LoggersInv
  BY ColdStartSound DEF Init, LoggersInv, FacadeColdStart, Facade, Sound
<1>2. LoggersInv /\ [Next]_vars => LoggersInv'
  <2> SUFFICES ASSUME LoggersInv, [Next]_vars PROVE LoggersInv'
    OBVIOUS
  <2>1. CASE \E l \in Loggers : LoggerCall(l) \/ BufferCall(l)
    BY <2>1, LoggerStep
  <2>2. CASE Dispatch
    BY <2>2, DispatchKeepsLoggers DEF LoggersInv
  <2>3. CASE UNCHANGED vars
    BY <2>3 DEF vars, LoggersInv
  <2>4. QED
    BY <2>1, <2>2, <2>3 DEF Next
<1>3. QED
  BY <1>1, <1>2, PTL DEF Spec

(* The tail of every buffer stays the slot after its newest event, for     *)
(* buffers of any size and under any sequence of commands                  *)
(* (LogRingBuffer.st:43-53, 87-93).                                        *)
THEOREM TailCorrect == Spec => []TailFollowsHead
<1>1. LoggersInv => TailFollowsHead
  BY DEF LoggersInv, TailFollowsHead, Sound
<1>2. QED
  BY <1>1, LoggersCorrect, PTL

-----------------------------------------------------------------------------
(* The dispatcher's memory. *)
Reading == dispatcher.pc \in {"copy", "overflow", "size", "decide"}
DispatcherType ==
    /\ logSourceList \in Seq(Loggers)
    /\ sources \in [Loggers -> Mark]
    /\ dispatcher \in
          [pc: {"idle", "copy", "overflow", "size", "decide", "append"},
           sourceIndex: Nat \ {0}, slot: Slots,
           currentLogBuffer: [Slots -> LogEvent], current: Mark]
    /\ Reading => dispatcher.sourceIndex \in 1..Len(logSourceList)

(* Buffers that only grow, and counts that do not wrap. *)
Growing == plant.commands = {} /\ plant.maxOverflow < MAX_UDINT
(* What has been read of a growing buffer, and what is remembered of it, is *)
(* not ahead of it; the size just read is not behind what is remembered.    *)
MarksInv ==
    Growing =>
        /\ \A l \in Loggers :
              /\ loggers[l].logBuffer.overflowCount <= plant.maxOverflow
              /\ sources[l].lastLogSize <= loggers[l].logBuffer.logSize
              /\ sources[l].lastOverflowCount <= loggers[l].logBuffer.overflowCount
        /\ dispatcher.pc \in {"size", "decide"} =>
              dispatcher.current.lastOverflowCount <= logRef.overflowCount
        /\ dispatcher.pc = "decide" =>
              /\ dispatcher.current.lastLogSize <= logRef.logSize
              /\ sources[currentSource].lastLogSize <= dispatcher.current.lastLogSize
Inv == LoggersInv /\ DispatcherType /\ MarksInv

LEMMA CurrentSourceListed ==
    ASSUME DispatcherType, Reading PROVE currentSource \in Loggers
  BY DEF DispatcherType, currentSource

LEMMA RingTypes ==
    ASSUME LoggersInv, NEW l \in Loggers
    PROVE  /\ loggers[l].logBuffer.logSize \in 0..LOG_MAX_SIZE
           /\ loggers[l].logBuffer.overflowCount \in 0..MAX_UDINT
           /\ loggers[l].logBuffer.logBuffer \in [Slots -> LogEvent]
  BY DEF LoggersInv, Sound, Ring

(* In a growing buffer size and overflow count never decrease, and the     *)
(* overflow count stays within its bound.                                  *)
LEMMA LoggerGrows ==
    ASSUME LoggersInv, Growing, NEW l \in Loggers, LoggerCall(l) \/ BufferCall(l),
           NEW k \in Loggers,
           loggers[k].logBuffer.overflowCount <= plant.maxOverflow
    PROVE  /\ loggers'[k].logBuffer.logSize >= loggers[k].logBuffer.logSize
           /\ loggers'[k].logBuffer.overflowCount >= loggers[k].logBuffer.overflowCount
           /\ loggers'[k].logBuffer.overflowCount <= plant.maxOverflow
<1> DEFINE r == loggers[k].logBuffer
<1>1. /\ Sound(r) /\ r.logSize \in Nat /\ r.overflowCount \in Nat
      /\ plant.maxOverflow \in Nat
  BY RingTypes, DispatchAssumption, LogAssumption DEF LoggersInv, Plant
<1>2. CASE loggers'[k].logBuffer = r
  BY <1>1, <1>2
<1>3. CASE /\ k = l
           /\ r.overflowCount < plant.maxOverflow
           /\ \E cmd \in {"Push", "IncrementLast"}, e \in LogEvent :
                 loggers'[k].logBuffer = LogRingBuffer(r, cmd, e)
  <2>1. PICK cmd \in {"Push", "IncrementLast"}, e \in LogEvent :
           loggers'[k].logBuffer = LogRingBuffer(r, cmd, e)
    BY <1>3
  <2>2. r.overflowCount < MAX_UDINT
    BY <1>1, <1>3, LogAssumption DEF Growing
  <2>3. /\ loggers'[k].logBuffer.logSize >= r.logSize
        /\ loggers'[k].logBuffer.overflowCount \in {r.overflowCount, r.overflowCount + 1}
    BY <1>1, <2>1, <2>2, RingGrows
  <2>4. QED
    BY <1>1, <1>3, <2>3
<1>4. QED
  BY <1>2, <1>3, LoggerStep DEF Growing

(* A step of StartTask only extends the list of sources. *)
LEMMA LoggerStepList ==
    ASSUME DispatcherType, NEW l \in Loggers, LoggerCall(l) \/ BufferCall(l)
    PROVE  /\ logSourceList' \in Seq(Loggers)
           /\ Len(logSourceList') >= Len(logSourceList)
           /\ \A i \in 1..Len(logSourceList) : logSourceList'[i] = logSourceList[i]
           /\ UNCHANGED <<sources, dispatcher>>
  BY SMTT(30) DEF DispatcherType, LoggerCall, BufferCall

LEMMA LoggerStepInv ==
    ASSUME Inv, NEW l \in Loggers, LoggerCall(l) \/ BufferCall(l)
    PROVE  Inv'
<1>1. LoggersInv' /\ plant' = plant
  BY LoggerStep DEF Inv
<1>2. UNCHANGED <<sources, dispatcher>>
  BY LoggerStepList DEF Inv
<1>3. DispatcherType'
  BY <1>2, LoggerStepList DEF Inv, DispatcherType, Reading
<1>4. MarksInv'
  <2> SUFFICES ASSUME Growing PROVE MarksInv'
    BY <1>1 DEF MarksInv, Growing
  <2>1. \A k \in Loggers :
          /\ loggers'[k].logBuffer.logSize >= loggers[k].logBuffer.logSize
          /\ loggers'[k].logBuffer.overflowCount >= loggers[k].logBuffer.overflowCount
          /\ loggers'[k].logBuffer.overflowCount <= plant.maxOverflow
    BY LoggerGrows DEF Inv, MarksInv
  <2>2. \A k \in Loggers :
          /\ loggers[k].logBuffer.logSize \in Nat /\ loggers[k].logBuffer.overflowCount \in Nat
          /\ loggers'[k].logBuffer.logSize \in Nat /\ loggers'[k].logBuffer.overflowCount \in Nat
          /\ sources[k].lastLogSize \in Nat /\ sources[k].lastOverflowCount \in Nat
    <3>1. \A k \in Loggers :
            Sound(loggers[k].logBuffer) /\ Sound(loggers'[k].logBuffer) /\ sources[k] \in Mark
      BY <1>1 DEF Inv, LoggersInv, DispatcherType
    <3>2. QED
      BY <3>1, LogAssumption DEF Sound, Ring, Mark
  <2>3. dispatcher.current.lastLogSize \in Nat /\ dispatcher.current.lastOverflowCount \in Nat
    BY LogAssumption DEF Inv, DispatcherType, Mark
  <2>4. Reading => /\ currentSource \in Loggers
                   /\ currentSource' = currentSource
    BY <1>2, LoggerStepList, CurrentSourceListed
       DEF Inv, DispatcherType, Reading, currentSource
  <2>5. \A k \in Loggers :
          /\ loggers'[k].logBuffer.overflowCount <= plant'.maxOverflow
          /\ sources'[k].lastLogSize <= loggers'[k].logBuffer.logSize
          /\ sources'[k].lastOverflowCount <= loggers'[k].logBuffer.overflowCount
    BY <1>1, <1>2, <2>1, <2>2 DEF Inv, MarksInv
  <2>6. dispatcher.pc \in {"size", "decide"} =>
           dispatcher.current.lastOverflowCount <= logRef'.overflowCount
    BY <2>1, <2>2, <2>3, <2>4 DEF Inv, MarksInv, Reading, logRef
  <2>7. dispatcher.pc = "decide" =>
           /\ dispatcher.current.lastLogSize <= logRef'.logSize
           /\ sources[currentSource'].lastLogSize <= dispatcher.current.lastLogSize
    BY <2>1, <2>2, <2>3, <2>4 DEF Inv, MarksInv, Reading, logRef
  <2>8. QED
    BY <1>2, <2>5, <2>6, <2>7 DEF MarksInv
<1>5. QED
  BY <1>1, <1>3, <1>4 DEF Inv

LEMMA DispatchStepInv == ASSUME Inv, Dispatch PROVE Inv'
<1>0. UNCHANGED <<plant, loggers, logSourceList>> /\ LoggersInv'
  BY DispatchKeepsLoggers DEF Inv, LoggersInv
<1>1. CASE BeginScan
  <2>0. /\ Len(logSourceList) \in Nat \ {0} /\ 1 \in Slots
        /\ sourceIndex \in 1..Len(logSourceList) /\ sourceIndex \in Nat \ {0}
    <3>1. logSourceList \in Seq(Loggers) /\ logSourceList # <<>>
      BY <1>1 DEF BeginScan, Inv, DispatcherType
    <3>2. Len(logSourceList) \in Nat \ {0}
      BY <3>1
    <3>3. QED
      BY <3>2, LogAssumption DEF sourceIndex, Slots
  <2>1. DispatcherType'
    <3>1. CASE dispatcher' = [dispatcher EXCEPT !.pc = "append"]
      BY <1>0, <1>1, <3>1 DEF BeginScan, Inv, DispatcherType, Reading
    <3>2. CASE dispatcher' = [dispatcher EXCEPT !.pc = "copy", !.slot = 1,
                                                !.sourceIndex = sourceIndex]
      <4> DEFINE start == sourceIndex
      <4>1. start \in Nat \ {0} /\ start \in 1..Len(logSourceList)
        BY <2>0
      <4>2. dispatcher' = [dispatcher EXCEPT !.pc = "copy", !.slot = 1,
                                             !.sourceIndex = start]
        BY <3>2
      <4> HIDE DEF start
      <4>3. QED
        BY <1>0, <1>1, <2>0, <4>1, <4>2 DEF BeginScan, Inv, DispatcherType, Reading
    <3>3. QED
      BY <1>1, <3>1, <3>2 DEF BeginScan
  <2>2. UNCHANGED sources /\ dispatcher'.pc \in {"append", "copy"}
    BY <1>1 DEF BeginScan, Inv, DispatcherType
  <2>3. QED
    BY <1>0, <2>1, <2>2 DEF Inv, MarksInv, Growing
<1>2. CASE CopySlot
  <2>1. /\ UNCHANGED sources /\ currentSource \in Loggers
        /\ dispatcher.slot \in Slots
        /\ logRef.logBuffer[dispatcher.slot] \in LogEvent
    BY <1>2, CurrentSourceListed, RingTypes
       DEF CopySlot, At, Reading, Inv, DispatcherType, logRef
  <2> DEFINE k == dispatcher.slot
             buffer == [dispatcher.currentLogBuffer EXCEPT ![k] = logRef.logBuffer[k]]
             next == IF k = LOG_MAX_SIZE THEN 1 ELSE k + 1
             pc == IF k = LOG_MAX_SIZE THEN "overflow" ELSE "copy"
  <2>2. /\ buffer \in [Slots -> LogEvent] /\ pc \in {"copy", "overflow"}
        /\ dispatcher.pc = "copy"
    BY <1>2, <2>1 DEF CopySlot, At, Inv, DispatcherType
  <2>3. next \in Slots
    BY <2>1, LogAssumption DEF Slots
  <2>4. dispatcher' = [dispatcher EXCEPT !.currentLogBuffer = buffer, !.slot = next, !.pc = pc]
    BY <1>2, <2>2 DEF CopySlot, Inv, DispatcherType
  <2> HIDE DEF k, buffer, next, pc
  <2>5. DispatcherType' /\ dispatcher'.pc \in {"copy", "overflow"}
    BY <1>0, <2>1, <2>2, <2>3, <2>4 DEF Inv, DispatcherType, Reading
  <2>6. QED
    BY <1>0, <2>1, <2>5 DEF Inv, MarksInv, Growing
<1>3. CASE ReadOverflow
  <2>1. /\ UNCHANGED sources /\ currentSource \in Loggers
        /\ logRef.overflowCount \in 0..MAX_UDINT
    BY <1>3, CurrentSourceListed, RingTypes
       DEF ReadOverflow, At, Reading, Inv, DispatcherType, logRef
  <2>2. /\ dispatcher'.pc = "size" /\ dispatcher'.sourceIndex = dispatcher.sourceIndex
        /\ dispatcher'.current.lastOverflowCount = logRef.overflowCount
    BY <1>3 DEF ReadOverflow, Inv, DispatcherType, Mark
  <2>3. DispatcherType'
    BY <1>0, <1>3, <2>1 DEF ReadOverflow, At, Inv, DispatcherType, Reading, Mark
  <2>4. logRef' = logRef
    BY <1>0, <2>2 DEF logRef, currentSource
  <2>5. MarksInv'
    BY <1>0, <2>1, <2>2, <2>4, LogAssumption DEF Inv, MarksInv, Growing
  <2>6. QED
    BY <1>0, <2>3, <2>5 DEF Inv
<1>4. CASE ReadSize
  <2>1. /\ UNCHANGED sources /\ currentSource \in Loggers
        /\ logRef.logSize \in 0..LOG_MAX_SIZE
    BY <1>4, CurrentSourceListed, RingTypes
       DEF ReadSize, At, Reading, Inv, DispatcherType, logRef
  <2>2. /\ dispatcher.pc = "size" /\ dispatcher'.pc = "decide"
        /\ dispatcher'.sourceIndex = dispatcher.sourceIndex
        /\ dispatcher'.current.lastLogSize = logRef.logSize
        /\ dispatcher'.current.lastOverflowCount = dispatcher.current.lastOverflowCount
    BY <1>4 DEF ReadSize, At, Inv, DispatcherType, Mark
  <2>3. DispatcherType'
    BY <1>0, <1>4, <2>1 DEF ReadSize, At, Inv, DispatcherType, Reading, Mark
  <2>4. logRef' = logRef /\ currentSource' = currentSource
    BY <1>0, <2>2 DEF logRef, currentSource
  <2>5. MarksInv'
    BY <1>0, <2>1, <2>2, <2>4, LogAssumption DEF Inv, MarksInv, Growing, logRef
  <2>6. QED
    BY <1>0, <2>3, <2>5 DEF Inv
<1>5. CASE SkipSource
  <2>1. NextSource \in Nat \ {0} /\ UNCHANGED sources
    BY <1>5 DEF SkipSource, NextSource, Inv, DispatcherType
  <2>2. DispatcherType' /\ dispatcher'.pc = "idle"
    BY <1>0, <1>5, <2>1 DEF SkipSource, At, Inv, DispatcherType, Reading
  <2>3. QED
    BY <1>0, <2>1, <2>2 DEF Inv, MarksInv, Growing
<1>6. CASE CommitSource
  <2>1. /\ dispatcher.pc = "decide" /\ currentSource \in Loggers
        /\ dispatcher.current \in Mark
    BY <1>6, CurrentSourceListed DEF CommitSource, At, Reading, Inv, DispatcherType
  <2>2. DispatcherType' /\ dispatcher'.pc = "append"
    BY <1>0, <1>6, <2>1 DEF CommitSource, Inv, DispatcherType, Reading
  <2>3. \A l \in Loggers :
           sources'[l] = IF l = currentSource THEN dispatcher.current ELSE sources[l]
    BY <1>6, <2>1 DEF CommitSource, Inv, DispatcherType
  <2>4. MarksInv'
    BY <1>0, <2>1, <2>2, <2>3 DEF Inv, MarksInv, Growing, logRef
  <2>5. QED
    BY <1>0, <2>2, <2>4 DEF Inv
<1>7. CASE CallAppender
  <2>1. NextSource \in Nat \ {0}
    BY DEF NextSource, Inv, DispatcherType
  <2>2. /\ UNCHANGED sources /\ dispatcher'.pc = "idle"
        /\ \E i \in Nat \ {0} :
              dispatcher' = [dispatcher EXCEPT !.pc = "idle", !.sourceIndex = i]
    BY <1>7, <2>1 DEF CallAppender, AppendLog, Inv, DispatcherType
  <2>3. DispatcherType'
    BY <1>0, <2>2 DEF Inv, DispatcherType, Reading
  <2>4. QED
    BY <1>0, <2>2, <2>3 DEF Inv, MarksInv, Growing
<1>8. QED
  BY <1>1, <1>2, <1>3, <1>4, <1>5, <1>6, <1>7 DEF Dispatch

THEOREM InvCorrect == Spec => []Inv
<1>1. Init => Inv
  <2> SUFFICES ASSUME Init PROVE Inv
    OBVIOUS
  <2>1. LoggersInv
    BY ColdStartSound DEF Init, LoggersInv, FacadeColdStart, Facade, Sound
  <2>2. NoMark \in Mark /\ RingColdStart.logBuffer \in [Slots -> LogEvent] /\ 1 \in Slots
    BY ColdStartSound, LogAssumption DEF NoMark, Mark, Sound, Ring, Slots
  <2>3. DispatcherType
    BY <2>2 DEF Init, DispatcherType, Reading
  <2>4. plant.maxOverflow \in Nat
    BY <2>1, DispatchAssumption DEF LoggersInv, Plant
  <2>5. \A l \in Loggers : /\ loggers[l].logBuffer.logSize = 0
                           /\ loggers[l].logBuffer.overflowCount = 0
                           /\ sources[l].lastLogSize = 0
                           /\ sources[l].lastOverflowCount = 0
    BY DEF Init, FacadeColdStart, RingColdStart, NoMark
  <2>6. MarksInv
    BY <2>4, <2>5 DEF Init, MarksInv
  <2>7. QED
    BY <2>1, <2>3, <2>6 DEF Inv
<1>2. Inv /\ [Next]_vars => Inv'
  <2> SUFFICES ASSUME Inv, [Next]_vars PROVE Inv'
    OBVIOUS
  <2>1. CASE \E l \in Loggers : LoggerCall(l) \/ BufferCall(l)
    BY <2>1, LoggerStepInv
  <2>2. CASE Dispatch
    BY <2>2, DispatchStepInv
  <2>3. CASE UNCHANGED vars
    BY <2>3 DEF vars, Inv, LoggersInv, DispatcherType, Reading, MarksInv, Growing,
                logRef, currentSource
  <2>4. QED
    BY <2>1, <2>2, <2>3 DEF Next
<1>3. QED
  BY <1>1, <1>2, PTL DEF Spec

(* However the logger preempts the dispatcher, what is remembered of a      *)
(* buffer is never ahead of it: the unsigned difference of LogDispatcher.st:49 *)
(* does not wrap.                                                           *)
THEOREM MarksCorrect == Spec => []MarksNeverAhead
<1>1. Inv => MarksNeverAhead
  <2> SUFFICES ASSUME Inv, Growing PROVE MarksNeverAhead
    BY DEF MarksNeverAhead, Growing
  <2>1. QED
    BY DEF Inv, MarksInv, MarksNeverAhead, At
<1>2. QED
  BY <1>1, InvCorrect, PTL

-----------------------------------------------------------------------------
(* Every buffer implements a BoundedLog, under any commands.                *)

(* The events a log may hold: none is the blank one of an unwritten slot.  *)
Event == [message: Message, repeatCount: 1..MaxRepeat]
Live(r) == \A k \in 0..(r.logSize - 1) : r.logBuffer[Position(r.head, k)] \in Event
Good(r) == Sound(r) /\ Live(r)

(* What a step of a buffer is to its log. *)
Recorded(q, r, m) ==
    /\ Contents(q) = Append(IF Len(Contents(r)) = LOG_MAX_SIZE THEN Tail(Contents(r))
                            ELSE Contents(r),
                            [message |-> m, repeatCount |-> 1])
    /\ LastRead(q) = LastRead(r)
Repeated(q, r) ==
    /\ Contents(r) # <<>>
    /\ LET n == Contents(r)[Len(Contents(r))].repeatCount
       IN Contents(q) = [Contents(r) EXCEPT ![Len(Contents(r))].repeatCount =
                            IF n < MaxRepeat THEN n + 1 ELSE n]
    /\ LastRead(q) = LastRead(r)
Peeked(q, r) ==
    /\ Contents(r) # <<>> /\ LastRead(q) = <<Head(Contents(r))>>
    /\ Contents(q) = Contents(r)
Popped(q, r) ==
    /\ Contents(r) # <<>> /\ LastRead(q) = <<Head(Contents(r))>>
    /\ Contents(q) = Tail(Contents(r))
Cleared(q, r) == Contents(q) = <<>> /\ LastRead(q) = LastRead(r)
Kept(q, r) == Contents(q) = Contents(r) /\ LastRead(q) = LastRead(r)

-----------------------------------------------------------------------------
(* The slots in the order of the events. *)
LEMMA PositionFacts ==
  ASSUME NEW h \in Slots, NEW k \in 0..LOG_MAX_SIZE
  PROVE  /\ Position(h, k) \in Slots /\ After(h) \in Slots
         /\ Position(h, 0) = h /\ Position(h, LOG_MAX_SIZE) = h
         /\ k < LOG_MAX_SIZE => /\ After(Position(h, k)) = Position(h, k + 1)
                                /\ Position(After(h), k) = Position(h, k + 1)
                                /\ Before(Position(h, k + 1)) = Position(h, k)
  BY LogAssumption DEF Position, After, Before, Slots

LEMMA PositionsDiffer ==
  ASSUME NEW h \in Slots, NEW j \in 0..(LOG_MAX_SIZE - 1), NEW k \in 0..(LOG_MAX_SIZE - 1),
         j # k
  PROVE  Position(h, j) # Position(h, k)
  BY LogAssumption DEF Position, Slots

(* The contents of a buffer are a sequence. *)
LEMMA ContentsAreASeq ==
  ASSUME NEW r, Good(r)
  PROVE  /\ Contents(r) \in Seq(Event) /\ Len(Contents(r)) = r.logSize
         /\ r.logSize \in 0..LOG_MAX_SIZE
         /\ \A k \in 1..r.logSize : /\ Contents(r)[k] = r.logBuffer[Position(r.head, k - 1)]
                                    /\ Contents(r)[k] \in Event
  <1>1. r.logSize \in 0..LOG_MAX_SIZE /\ r.logSize \in Nat
    BY LogAssumption DEF Good, Sound, Ring
  <1>2. \A k \in 1..r.logSize : k - 1 \in 0..(r.logSize - 1)
    BY <1>1
  <1>3. Contents(r) \in [1..r.logSize -> Event]
    BY <1>1, <1>2 DEF Contents, Good, Live
  <1>4. Contents(r) \in Seq(Event)
    BY <1>1, <1>3, SeqDef
  <1>5. Len(Contents(r)) \in Nat /\ 1..Len(Contents(r)) = 1..r.logSize
    BY <1>3, <1>4, LenProperties
  <1>6. Len(Contents(r)) = r.logSize
    BY <1>1, <1>5
  <1> QED BY <1>1, <1>3, <1>4, <1>6 DEF Contents

(* Two buffers with the same events. *)
LEMMA SameContents ==
  ASSUME NEW r, NEW q, Good(r), q.head = r.head, q.logSize = r.logSize,
         \A k \in 0..(r.logSize - 1) :
            q.logBuffer[Position(q.head, k)] = r.logBuffer[Position(r.head, k)]
  PROVE  Contents(q) = Contents(r)
  <1>1. r.logSize \in Nat
    BY LogAssumption DEF Good, Sound, Ring
  <1>2. \A k \in 1..r.logSize : k - 1 \in 0..(r.logSize - 1)
    BY <1>1
  <1> QED BY <1>2 DEF Contents

-----------------------------------------------------------------------------
(* The oldest event makes room for a new one. *)
LEMMA PushRecords ==
  ASSUME NEW r, Good(r), r.overflowCount < MAX_UDINT, NEW m \in Message
  PROVE  LET q == Push(r, [message |-> m, repeatCount |-> 1])
         IN Good(q) /\ Recorded(q, r, m)
  <1> DEFINE e == [message |-> m, repeatCount |-> 1]
             q == Push(r, e)
  <1>0. /\ r \in Ring /\ r.head \in Slots /\ r.tail \in Slots /\ r.logSize \in 0..LOG_MAX_SIZE
        /\ r.tail = Position(r.head, r.logSize) /\ r.logBuffer \in [Slots -> LogEvent]
    BY DEF Good, Sound, Ring
  <1>1. e \in Event /\ e \in LogEvent
    BY LogAssumption DEF Event, LogEvent
  <1>2. Sound(q)
    BY <1>1, PushSound DEF Good
  <1>3. /\ q.logBuffer = [r.logBuffer EXCEPT ![r.tail] = e]
        /\ q.head = IF r.logSize >= LOG_MAX_SIZE THEN After(r.head) ELSE r.head
        /\ q.logSize = IF r.logSize >= LOG_MAX_SIZE THEN r.logSize ELSE r.logSize + 1
        /\ q.headEntry = r.headEntry
    BY <1>0 DEF Push, Ring
  <1> HIDE DEF e, q
  <1>4. CASE r.logSize = LOG_MAX_SIZE
    <2>1. /\ q.head = After(r.head) /\ q.logSize = LOG_MAX_SIZE /\ r.tail = r.head
      BY <1>0, <1>3, <1>4, PositionFacts, LogAssumption
    <2>2. ASSUME NEW k \in 0..(LOG_MAX_SIZE - 2)
          PROVE  q.logBuffer[Position(q.head, k)] = r.logBuffer[Position(r.head, k + 1)]
      <3>1. /\ k \in 0..LOG_MAX_SIZE /\ k < LOG_MAX_SIZE
            /\ k + 1 \in 0..(LOG_MAX_SIZE - 1) /\ k + 1 \in 0..LOG_MAX_SIZE /\ k + 1 # 0
            /\ 0 \in 0..(LOG_MAX_SIZE - 1) /\ 0 \in 0..LOG_MAX_SIZE
        BY LogAssumption
      <3>2. Position(q.head, k) = Position(r.head, k + 1)
        BY <1>0, <2>1, <3>1, PositionFacts
      <3>3. Position(r.head, k + 1) # r.tail /\ Position(r.head, k + 1) \in Slots
        <4>1. Position(r.head, k + 1) # Position(r.head, 0)
          BY <1>0, <3>1, PositionsDiffer
        <4> QED BY <1>0, <2>1, <3>1, <4>1, PositionFacts
      <3> QED BY <1>0, <1>3, <3>2, <3>3
    <2>3. q.logBuffer[Position(q.head, LOG_MAX_SIZE - 1)] = e
      <3>1. /\ LOG_MAX_SIZE - 1 \in 0..LOG_MAX_SIZE /\ LOG_MAX_SIZE - 1 < LOG_MAX_SIZE
            /\ LOG_MAX_SIZE - 1 + 1 = LOG_MAX_SIZE
        BY LogAssumption
      <3>2. Position(q.head, LOG_MAX_SIZE - 1) = r.head
        BY <1>0, <2>1, <3>1, PositionFacts
      <3> QED BY <1>0, <1>3, <2>1, <3>2
    <2>4. Live(q)
      <3>1. ASSUME NEW k \in 0..(LOG_MAX_SIZE - 1)
            PROVE  q.logBuffer[Position(q.head, k)] \in Event
        <4>1. k = LOG_MAX_SIZE - 1 \/ (k \in 0..(LOG_MAX_SIZE - 2)
                                        /\ k + 1 \in 0..(r.logSize - 1))
          BY <1>4, LogAssumption
        <4> QED BY <1>1, <2>2, <2>3, <4>1 DEF Good, Live
      <3> QED BY <2>1, <3>1 DEF Live
    <2>5. Good(q)
      BY <1>2, <2>4 DEF Good
    <2> DEFINE c == Contents(r)
               t == Append(Tail(c), e)
    <2>6. /\ c \in Seq(Event) /\ Len(c) = LOG_MAX_SIZE /\ c # <<>>
          /\ \A k \in 1..LOG_MAX_SIZE : c[k] = r.logBuffer[Position(r.head, k - 1)]
      BY <1>4, ContentsAreASeq, LogAssumption
    <2>7. /\ Contents(q) \in Seq(Event) /\ Len(Contents(q)) = LOG_MAX_SIZE
          /\ \A k \in 1..LOG_MAX_SIZE : Contents(q)[k] = q.logBuffer[Position(q.head, k - 1)]
      BY <2>1, <2>5, ContentsAreASeq
    <2> HIDE DEF c
    <2>8. /\ Tail(c) \in Seq(Event) /\ Len(Tail(c)) = LOG_MAX_SIZE - 1
          /\ \A k \in 1..(LOG_MAX_SIZE - 1) : Tail(c)[k] = c[k + 1]
      BY <2>6, HeadTailProperties
    <2>9. /\ t \in Seq(Event) /\ Len(t) = LOG_MAX_SIZE /\ t[LOG_MAX_SIZE] = e
          /\ \A k \in 1..(LOG_MAX_SIZE - 1) : t[k] = c[k + 1]
      BY <1>1, <2>8, AppendProperties, LogAssumption
    <2>10. ASSUME NEW k \in 1..LOG_MAX_SIZE PROVE Contents(q)[k] = t[k]
      <3>1. CASE k = LOG_MAX_SIZE
        BY <2>3, <2>7, <2>9, <3>1
      <3>2. CASE k # LOG_MAX_SIZE
        <4>1. /\ k \in 1..(LOG_MAX_SIZE - 1) /\ k - 1 \in 0..(LOG_MAX_SIZE - 2)
              /\ k + 1 \in 1..LOG_MAX_SIZE /\ k - 1 + 1 = k /\ k + 1 - 1 = k
          BY <3>2, LogAssumption
        <4> QED BY <2>2, <2>6, <2>7, <2>9, <4>1
      <3> QED BY <3>1, <3>2
    <2>11. Contents(q) = t
      BY <2>7, <2>9, <2>10, SeqEqual
    <2> QED BY <1>3, <2>5, <2>6, <2>11 DEF Recorded, LastRead, c, e, q
  <1>5. CASE r.logSize < LOG_MAX_SIZE
    <2> DEFINE n == r.logSize
    <2>1. q.head = r.head /\ q.logSize = n + 1 /\ n \in 0..(LOG_MAX_SIZE - 1)
      BY <1>0, <1>3, <1>5, LogAssumption
    <2>2. ASSUME NEW k \in 0..(n - 1)
          PROVE  q.logBuffer[Position(q.head, k)] = r.logBuffer[Position(r.head, k)]
      <3>1. k \in 0..(LOG_MAX_SIZE - 1) /\ k # n /\ k \in 0..LOG_MAX_SIZE
        BY <2>1, LogAssumption
      <3>2. Position(r.head, k) # r.tail /\ Position(r.head, k) \in Slots
        BY <1>0, <2>1, <3>1, PositionsDiffer, PositionFacts
      <3> QED BY <1>0, <1>3, <2>1, <3>2
    <2>3. q.logBuffer[Position(q.head, n)] = e
      BY <1>0, <1>3, <2>1
    <2>4. Live(q)
      <3>1. ASSUME NEW k \in 0..n PROVE q.logBuffer[Position(q.head, k)] \in Event
        <4>1. k = n \/ k \in 0..(n - 1)
          BY <2>1, LogAssumption
        <4> QED BY <1>1, <2>2, <2>3, <4>1 DEF Good, Live
      <3>2. q.logSize - 1 = n
        BY <2>1, LogAssumption
      <3> QED BY <3>1, <3>2 DEF Live
    <2>5. Good(q)
      BY <1>2, <2>4 DEF Good
    <2> DEFINE c == Contents(r)
               t == Append(c, e)
    <2>6. /\ c \in Seq(Event) /\ Len(c) = n /\ Len(c) # LOG_MAX_SIZE /\ n \in Nat
          /\ \A k \in 1..n : c[k] = r.logBuffer[Position(r.head, k - 1)]
      BY <1>5, <2>1, ContentsAreASeq, LogAssumption
    <2>7. /\ Contents(q) \in Seq(Event) /\ Len(Contents(q)) = n + 1
          /\ \A k \in 1..(n + 1) : Contents(q)[k] = q.logBuffer[Position(q.head, k - 1)]
      BY <2>1, <2>5, ContentsAreASeq
    <2> HIDE DEF c
    <2>8. /\ t \in Seq(Event) /\ Len(t) = n + 1 /\ t[n + 1] = e
          /\ \A k \in 1..n : t[k] = c[k]
      BY <1>1, <2>6, AppendProperties
    <2>9. ASSUME NEW k \in 1..(n + 1) PROVE Contents(q)[k] = t[k]
      <3>1. CASE k = n + 1
        <4>1. k - 1 = n
          BY <2>6, <3>1
        <4> QED BY <2>3, <2>7, <2>8, <3>1, <4>1
      <3>2. CASE k # n + 1
        <4>1. k \in 1..n /\ k - 1 \in 0..(n - 1)
          BY <2>6, <3>2
        <4> QED BY <2>2, <2>6, <2>7, <2>8, <4>1
      <3> QED BY <3>1, <3>2
    <2>10. Contents(q) = t
      BY <2>7, <2>8, <2>9, SeqEqual
    <2> QED BY <1>3, <2>5, <2>6, <2>10 DEF Recorded, LastRead, c, e, q
  <1> QED BY <1>0, <1>4, <1>5, LogAssumption DEF q, e
-----------------------------------------------------------------------------
(* A step that leaves the slots and their order alone. *)
LEMMA Untouched ==
  ASSUME NEW r, NEW q, Good(r), Sound(q),
         q.logBuffer = r.logBuffer, q.head = r.head, q.logSize = r.logSize
  PROVE  Good(q) /\ Contents(q) = Contents(r)
  BY SameContents DEF Good, Live

(* The newest event is the one before the tail. *)
LEMMA IncrementRepeats ==
  ASSUME NEW r, Good(r)
  PROVE  LET q == IncrementLast(r) IN Good(q) /\ (Kept(q, r) \/ Repeated(q, r))
  <1> DEFINE q == IncrementLast(r)
             n == r.logSize
             c == Contents(r)
  <1>0. /\ r \in Ring /\ r.head \in Slots /\ n \in 0..LOG_MAX_SIZE
        /\ r.tail = Position(r.head, n) /\ r.logBuffer \in [Slots -> LogEvent]
        /\ Sound(r) /\ Sound(q)
    BY IncrementSound DEF Good, Sound, Ring
  <1>1. CASE n = 0
    <2>1. /\ q.logBuffer = r.logBuffer /\ q.head = r.head /\ q.logSize = r.logSize
          /\ q.headEntry = r.headEntry
      BY <1>0, <1>1 DEF IncrementLast, Ring
    <2> HIDE DEF q
    <2> QED BY <1>0, <2>1, Untouched DEF Kept, LastRead, q
  <1>2. CASE n # 0
    <2> DEFINE i == Before(r.tail)
               b == r.logBuffer[i]
               v == IF b.repeatCount < MaxRepeat THEN b.repeatCount + 1 ELSE b.repeatCount
               e == [b EXCEPT !.repeatCount = v]
               d == [c EXCEPT ![n] = e]
    <2>1. /\ n - 1 \in 0..LOG_MAX_SIZE /\ n - 1 < LOG_MAX_SIZE /\ n - 1 + 1 = n
          /\ n - 1 \in 0..(n - 1) /\ n \in 1..n /\ n \in Nat
          /\ n - 1 \in 0..(LOG_MAX_SIZE - 1)
      BY <1>0, <1>2, LogAssumption
    <2>2. i = Position(r.head, n - 1) /\ i \in Slots
      <3>1. /\ Before(Position(r.head, n - 1 + 1)) = Position(r.head, n - 1)
            /\ Position(r.head, n - 1) \in Slots
        <4> HIDE DEF n
        <4> QED BY <1>0, <2>1, PositionFacts
      <3>2. Position(r.head, n - 1 + 1) = r.tail
        BY <1>0, <2>1
      <3> QED BY <3>1, <3>2
    <2>3. b \in Event
      BY <2>1, <2>2 DEF Good, Live
    <2>4. v \in 1..MaxRepeat
      BY <2>3, LogAssumption DEF Event
    <2>5. e \in Event
      BY <2>3, <2>4 DEF Event
    <2>6. q = [r EXCEPT !.logBuffer = [@ EXCEPT ![i] = e]]
      BY <1>0, <1>2, <2>2, <2>3 DEF IncrementLast, Ring, Event
    <2>7. /\ q.logBuffer = [r.logBuffer EXCEPT ![i] = e]
          /\ q.head = r.head /\ q.logSize = n /\ q.headEntry = r.headEntry
      BY <1>0, <2>6 DEF Ring
    <2> HIDE DEF q, e, v, b
    <2>8. ASSUME NEW k \in 0..(n - 1)
          PROVE  q.logBuffer[Position(q.head, k)] =
                    IF k = n - 1 THEN e ELSE r.logBuffer[Position(r.head, k)]
      <3>1. k \in 0..(LOG_MAX_SIZE - 1) /\ k \in 0..LOG_MAX_SIZE
        BY <2>1, LogAssumption
      <3>2. Position(r.head, k) \in Slots
        BY <1>0, <3>1, PositionFacts
      <3>3. k # n - 1 => Position(r.head, k) # i
        BY <1>0, <2>1, <2>2, <3>1, PositionsDiffer
      <3> QED BY <1>0, <2>2, <2>7, <3>2, <3>3
    <2>9. Good(q)
      BY <1>0, <2>5, <2>7, <2>8 DEF Good, Live
    <2>10. /\ c \in Seq(Event) /\ Len(c) = n /\ c # <<>> /\ c[n] = b
           /\ \A k \in 1..n : c[k] = r.logBuffer[Position(r.head, k - 1)]
      BY <1>2, <2>1, <2>2, ContentsAreASeq DEF b
    <2>11. /\ Contents(q) \in Seq(Event) /\ Len(Contents(q)) = n
           /\ \A k \in 1..n : Contents(q)[k] = q.logBuffer[Position(q.head, k - 1)]
      BY <2>7, <2>9, ContentsAreASeq
    <2> HIDE DEF c
    <2>12. /\ d \in Seq(Event) /\ Len(d) = n
           /\ \A k \in 1..n : d[k] = IF k = n THEN e ELSE c[k]
      BY <2>1, <2>5, <2>10, ExceptSeq
    <2>13. ASSUME NEW k \in 1..n PROVE Contents(q)[k] = d[k]
      <3>1. k - 1 \in 0..(n - 1) /\ (k - 1 = n - 1 <=> k = n)
        BY <2>1
      <3> QED BY <2>8, <2>10, <2>11, <2>12, <3>1
    <2>14. Contents(q) = d
      BY <2>11, <2>12, <2>13, SeqEqual
    <2>15. d = [c EXCEPT ![n].repeatCount = v]
      BY <2>10 DEF e
    <2>16. LastRead(q) = LastRead(r)
      BY <2>7 DEF LastRead
    <2> QED BY <2>9, <2>10, <2>14, <2>15, <2>16 DEF Repeated, c, v, q
  <1> QED BY <1>1, <1>2

(* What is read is the oldest event. *)
LEMMA HeadEntry ==
  ASSUME NEW r, Good(r), r.logSize # 0
  PROVE  /\ Contents(r) # <<>> /\ r.logBuffer[r.head] = Head(Contents(r))
         /\ r.logBuffer[r.head] # BlankEvent
  <1>1. /\ r.head \in Slots /\ r.logSize \in Nat /\ 1 \in 1..r.logSize /\ 1 - 1 = 0
        /\ 0 \in 0..(r.logSize - 1) /\ 0 \in 0..LOG_MAX_SIZE
    BY LogAssumption DEF Good, Sound, Ring
  <1>2. Position(r.head, 0) = r.head
    BY <1>1, PositionFacts
  <1>3. r.logBuffer[r.head] \in Event
    BY <1>1, <1>2 DEF Good, Live
  <1>4. /\ Contents(r) \in Seq(Event) /\ Len(Contents(r)) = r.logSize
        /\ Contents(r)[1] = r.logBuffer[r.head]
    BY <1>1, <1>2, ContentsAreASeq
  <1>5. r.logBuffer[r.head] # BlankEvent
    BY <1>3, LogAssumption DEF Event, BlankEvent
  <1> QED BY <1>1, <1>4, <1>5

LEMMA PeekReads ==
  ASSUME NEW r, Good(r)
  PROVE  LET q == Peek(r) IN Good(q) /\ (Kept(q, r) \/ Peeked(q, r))
  <1> DEFINE q == Peek(r)
  <1>0. r \in Ring /\ Sound(q)
    BY PeekSound DEF Good, Sound
  <1>1. /\ q.logBuffer = r.logBuffer /\ q.head = r.head /\ q.logSize = r.logSize
        /\ q.headEntry = IF r.logSize = 0 THEN r.headEntry ELSE r.logBuffer[r.head]
    BY <1>0 DEF Peek, Ring
  <1> HIDE DEF q
  <1>2. Good(q) /\ Contents(q) = Contents(r)
    BY <1>0, <1>1, Untouched
  <1>3. CASE r.logSize = 0
    BY <1>1, <1>2, <1>3 DEF Kept, LastRead, q
  <1>4. CASE r.logSize # 0
    BY <1>1, <1>2, <1>4, HeadEntry DEF Peeked, LastRead, q
  <1> QED BY <1>3, <1>4

LEMMA PopTakes ==
  ASSUME NEW r, Good(r)
  PROVE  LET q == Pop(r) IN Good(q) /\ (Kept(q, r) \/ Popped(q, r))
  <1> DEFINE q == Pop(r)
             n == r.logSize
             c == Contents(r)
  <1>0. /\ r \in Ring /\ Sound(q) /\ r.head \in Slots /\ n \in 0..LOG_MAX_SIZE
    BY PopSound DEF Good, Sound, Ring
  <1>1. CASE n = 0
    <2>1. /\ q.logBuffer = r.logBuffer /\ q.head = r.head /\ q.logSize = r.logSize
          /\ q.headEntry = r.headEntry
      BY <1>0, <1>1 DEF Pop, Ring
    <2> HIDE DEF q
    <2> QED BY <1>0, <2>1, Untouched DEF Kept, LastRead, q
  <1>2. CASE n # 0
    <2>1. /\ q.logBuffer = r.logBuffer /\ q.head = After(r.head) /\ q.logSize = n - 1
          /\ q.headEntry = r.logBuffer[r.head]
      BY <1>0, <1>2 DEF Pop, Ring
    <2> HIDE DEF q
    <2>2. ASSUME NEW k \in 0..(n - 2)
          PROVE  q.logBuffer[Position(q.head, k)] = r.logBuffer[Position(r.head, k + 1)]
      <3>1. k \in 0..LOG_MAX_SIZE /\ k < LOG_MAX_SIZE
        BY <1>0, LogAssumption
      <3> QED BY <1>0, <2>1, <3>1, PositionFacts
    <2>3. Live(q)
      <3>1. ASSUME NEW k \in 0..(n - 2) PROVE q.logBuffer[Position(q.head, k)] \in Event
        <4>1. k + 1 \in 0..(r.logSize - 1)
          BY <1>0, LogAssumption
        <4> QED BY <2>2, <4>1 DEF Good, Live
      <3>2. q.logSize - 1 = n - 2
        BY <1>0, <2>1, LogAssumption
      <3> QED BY <3>1, <3>2 DEF Live
    <2>4. Good(q)
      BY <1>0, <2>3 DEF Good
    <2>5. /\ c \in Seq(Event) /\ Len(c) = n /\ c # <<>> /\ n \in Nat
          /\ r.logBuffer[r.head] = Head(c) /\ r.logBuffer[r.head] # BlankEvent
          /\ \A k \in 1..n : c[k] = r.logBuffer[Position(r.head, k - 1)]
      BY <1>0, <1>2, ContentsAreASeq, HeadEntry, LogAssumption
    <2>6. /\ Contents(q) \in Seq(Event) /\ Len(Contents(q)) = n - 1
          /\ \A k \in 1..(n - 1) : Contents(q)[k] = q.logBuffer[Position(q.head, k - 1)]
      BY <2>1, <2>4, ContentsAreASeq
    <2> HIDE DEF c
    <2>7. /\ Tail(c) \in Seq(Event) /\ Len(Tail(c)) = n - 1
          /\ \A k \in 1..(n - 1) : Tail(c)[k] = c[k + 1]
      BY <2>5, HeadTailProperties
    <2>8. ASSUME NEW k \in 1..(n - 1) PROVE Contents(q)[k] = Tail(c)[k]
      <3>1. k - 1 \in 0..(n - 2) /\ k + 1 \in 1..n /\ k - 1 + 1 = k /\ k + 1 - 1 = k
        BY <2>5
      <3> QED BY <2>2, <2>5, <2>6, <2>7, <3>1
    <2>9. Contents(q) = Tail(c)
      BY <2>6, <2>7, <2>8, SeqEqual
    <2>10. LastRead(q) = <<Head(c)>>
      BY <2>1, <2>5 DEF LastRead
    <2> QED BY <2>4, <2>5, <2>9, <2>10 DEF Popped, c, q
  <1> QED BY <1>1, <1>2

LEMMA ClearEmpties ==
  ASSUME NEW r, Good(r)
  PROVE  LET q == Clear(r) IN Good(q) /\ Cleared(q, r)
  <1> DEFINE q == Clear(r)
  <1>0. r \in Ring /\ Sound(q)
    BY ClearSound DEF Good, Sound
  <1>1. q.logSize = 0 /\ q.headEntry = r.headEntry
    BY <1>0 DEF Clear, Ring
  <1> HIDE DEF q
  <1>2. Good(q)
    BY <1>0, <1>1 DEF Good, Live
  <1>3. Contents(q) \in Seq(Event) /\ Len(Contents(q)) = 0
    BY <1>1, <1>2, ContentsAreASeq
  <1>4. Contents(q) = <<>>
    BY <1>3, EmptySeq
  <1> QED BY <1>1, <1>2, <1>4 DEF Cleared, LastRead, q

(* What a command does to a buffer is a step of its log, or none. *)
Altered(q, r) == Repeated(q, r) \/ Peeked(q, r) \/ Popped(q, r) \/ Cleared(q, r) \/ Kept(q, r)
StepOf(cmd, q, r, m) == IF cmd = "Push" THEN Recorded(q, r, m) ELSE Altered(q, r)
LogStep(q, r) == (\E m \in Message : Recorded(q, r, m)) \/ Altered(q, r)

LEMMA CommandSteps ==
  ASSUME NEW r, Good(r), r.overflowCount < MAX_UDINT, NEW cmd \in LogCmd, NEW e, NEW m,
         cmd = "Push" => m \in Message /\ e = [message |-> m, repeatCount |-> 1]
  PROVE  Good(Command(r, cmd, e)) /\ StepOf(cmd, Command(r, cmd, e), r, m)
  <1>1. CASE cmd = "Push"
    BY <1>1, PushRecords DEF Command, StepOf
  <1>2. CASE cmd = "IncrementLast"
    BY <1>2, IncrementRepeats DEF Command, StepOf, Altered
  <1>3. CASE cmd = "Peek"
    BY <1>3, PeekReads DEF Command, StepOf, Altered
  <1>4. CASE cmd = "Pop"
    BY <1>4, PopTakes DEF Command, StepOf, Altered
  <1>5. CASE cmd = "Clear"
    BY <1>5, ClearEmpties DEF Command, StepOf, Altered
  <1> QED BY <1>1, <1>2, <1>3, <1>4, <1>5 DEF LogCmd

(* The block around a command: the flags and the wrap of overflowCount are *)
(* not part of the log, and the guard never finds the buffer broken.  The  *)
(* block reports an error only for a repetition in an empty buffer.        *)
LEMMA RingSteps ==
  ASSUME NEW r, Good(r), NEW cmd \in LogCmd, NEW e, NEW m,
         cmd = "Push" => m \in Message /\ e = [message |-> m, repeatCount |-> 1]
  PROVE  /\ Good(LogRingBuffer(r, cmd, e)) /\ StepOf(cmd, LogRingBuffer(r, cmd, e), r, m)
         /\ cmd = "Push" \/ (cmd = "IncrementLast" /\ r.logSize # 0)
               => ~LogRingBuffer(r, cmd, e).error
  <1> DEFINE n == IF r.overflowCount = MAX_UDINT THEN 1 ELSE r.overflowCount
             fresh == [r EXCEPT !.error = FALSE, !.overflowCount = n]
             done == Command(fresh, cmd, e)
             q == [done EXCEPT !.isEmpty = done.logSize = 0]
  <1>0. r \in Ring /\ ~Broken(r)
    BY LogAssumption DEF Broken, Good, Sound, Ring, Slots
  <1>1. n \in 0..MAX_UDINT /\ n < MAX_UDINT
    BY <1>0, LogAssumption DEF Ring
  <1>2. /\ Sound(fresh) /\ fresh.overflowCount < MAX_UDINT /\ ~fresh.error
        /\ fresh.logBuffer = r.logBuffer /\ fresh.head = r.head
        /\ fresh.logSize = r.logSize /\ fresh.headEntry = r.headEntry
    <2> HIDE DEF n
    <2> QED BY <1>0, <1>1 DEF Good, Sound, Ring
  <1> HIDE DEF fresh
  <1>3. Good(fresh) /\ Contents(fresh) = Contents(r) /\ LastRead(fresh) = LastRead(r)
    BY <1>2, Untouched DEF LastRead
  <1>4. Good(done) /\ StepOf(cmd, done, fresh, m)
    BY <1>2, <1>3, CommandSteps
  <1>5. cmd = "Push" \/ (cmd = "IncrementLast" /\ r.logSize # 0) => ~done.error
    <2>1. CASE cmd = "Push"
      BY <1>2, <2>1 DEF Command, Push, Sound, Ring
    <2>2. CASE cmd = "IncrementLast" /\ r.logSize # 0
      BY <1>2, <2>2 DEF Command, IncrementLast, Sound, Ring
    <2> QED BY <2>1, <2>2
  <1> HIDE DEF done
  <1>6. /\ q.logBuffer = done.logBuffer /\ q.head = done.head /\ q.error = done.error
        /\ q.logSize = done.logSize /\ q.headEntry = done.headEntry /\ Sound(q)
    BY <1>4 DEF Good, Sound, Ring
  <1>7. LogRingBuffer(r, cmd, e) = q
    BY <1>0 DEF LogRingBuffer, done, fresh
  <1> HIDE DEF q
  <1>8. Good(q) /\ Contents(q) = Contents(done) /\ LastRead(q) = LastRead(done)
    BY <1>4, <1>6, Untouched DEF LastRead
  <1>9. StepOf(cmd, q, r, m)
    BY <1>3, <1>4, <1>8
       DEF StepOf, Altered, Recorded, Repeated, Peeked, Popped, Cleared, Kept
  <1> QED BY <1>5, <1>6, <1>7, <1>8, <1>9

-----------------------------------------------------------------------------
(* The message of the newest event, whatever a command does. *)
Newest(r, x) == r.logSize > 0 => r.logBuffer[Before(r.tail)].message = x

LEMMA NewestIsLast ==
  ASSUME NEW r, Good(r)
  PROVE  /\ r.logSize > 0 <=> Contents(r) # <<>>
         /\ r.logSize > 0 => r.logBuffer[Before(r.tail)] = Contents(r)[Len(Contents(r))]
  <1> DEFINE n == r.logSize
  <1>1. n \in Nat /\ n <= LOG_MAX_SIZE /\ r.head \in Slots /\ r.tail = Position(r.head, n)
    BY LogAssumption DEF Good, Sound, Ring
  <1>2. Contents(r) \in Seq(Event) /\ Len(Contents(r)) = n
    BY ContentsAreASeq
  <1>3. n > 0 <=> Contents(r) # <<>>
    BY <1>1, <1>2, EmptySeq
  <1>4. ASSUME n > 0 PROVE r.logBuffer[Before(r.tail)] = Contents(r)[n]
    <2>1. /\ n - 1 \in 0..LOG_MAX_SIZE /\ n - 1 < LOG_MAX_SIZE /\ n - 1 + 1 = n
          /\ n \in 1..n
      BY <1>1, <1>4, LogAssumption
    <2>2. Before(Position(r.head, n - 1 + 1)) = Position(r.head, n - 1)
      <3> HIDE DEF n
      <3> QED BY <1>1, <2>1, PositionFacts
    <2>3. Before(r.tail) = Position(r.head, n - 1)
      BY <1>1, <2>1, <2>2
    <2> QED BY <2>1, <2>3, ContentsAreASeq
  <1> QED BY <1>2, <1>3, <1>4

LEMMA NewestKept ==
  ASSUME NEW r, NEW q, Good(r), Good(q), Altered(q, r), NEW x, Newest(r, x)
  PROVE  Newest(q, x)
  <1> DEFINE c == Contents(r)
             d == Contents(q)
  <1>1. /\ c \in Seq(Event) /\ d \in Seq(Event)
        /\ c # <<>> => c[Len(c)].message = x
    BY ContentsAreASeq, NewestIsLast DEF Newest
  <1>2. SUFFICES d # <<>> => d[Len(d)].message = x
    BY NewestIsLast DEF Newest
  <1>3. CASE Repeated(q, r)
    <2> DEFINE n == Len(c)
               k == c[n].repeatCount
               v == IF k < MaxRepeat THEN k + 1 ELSE k
               e == [c[n] EXCEPT !.repeatCount = v]
    <2>1. c # <<>> /\ d = [c EXCEPT ![n].repeatCount = v]
      BY <1>3 DEF Repeated
    <2>2. n \in 1..n /\ c[n] \in Event
      BY <1>1, <2>1, EmptySeq, ElementOfSeq
    <2>3. e \in Event /\ e.message = c[n].message
      BY <2>2, LogAssumption DEF Event
    <2>4. d = [c EXCEPT ![n] = e]
      BY <2>1
    <2> HIDE DEF c, d, e, v, k
    <2>5. Len(d) = n /\ d[n] = e
      BY <1>1, <2>2, <2>3, <2>4, ExceptSeq
    <2> QED BY <1>1, <2>1, <2>3, <2>5
  <1>4. CASE Popped(q, r)
    <2>1. c # <<>> /\ d = Tail(c)
      BY <1>4 DEF Popped
    <2> HIDE DEF c, d
    <2>2. /\ Len(d) = Len(c) - 1 /\ Len(c) \in Nat /\ Len(d) \in Nat
          /\ \A i \in 1..Len(d) : d[i] = c[i + 1]
      BY <1>1, <2>1, HeadTailProperties, LenProperties
    <2>3. ASSUME d # <<>> PROVE d[Len(d)] = c[Len(c)]
      <3>1. Len(d) \in 1..Len(d) /\ Len(d) + 1 = Len(c)
        BY <1>1, <2>2, <2>3, EmptySeq
      <3> QED BY <2>2, <3>1
    <2> QED BY <1>1, <2>1, <2>3
  <1>5. CASE Peeked(q, r) \/ Kept(q, r) \/ Cleared(q, r)
    BY <1>1, <1>5 DEF Peeked, Kept, Cleared
  <1> QED BY <1>3, <1>4, <1>5 DEF Altered

LEMMA NewestRecorded ==
  ASSUME NEW r, NEW q, Good(r), Good(q), NEW m \in Message, Recorded(q, r, m)
  PROVE  q.logSize > 0 /\ Newest(q, m)
  <1> DEFINE c == Contents(r)
             t == IF Len(c) = LOG_MAX_SIZE THEN Tail(c) ELSE c
             e == [message |-> m, repeatCount |-> 1]
             d == Contents(q)
  <1>1. c \in Seq(Event) /\ (Len(c) = LOG_MAX_SIZE => c # <<>>)
    BY ContentsAreASeq, EmptySeq, LogAssumption
  <1> HIDE DEF c
  <1>2. t \in Seq(Event) /\ e \in Event
    BY <1>1, HeadTailProperties, LogAssumption DEF Event
  <1>3. d = Append(t, e)
    BY DEF Recorded, c
  <1> HIDE DEF t, d, e
  <1>4. d \in Seq(Event) /\ Len(d) = Len(t) + 1 /\ d[Len(d)] = e /\ Len(t) \in Nat
    BY <1>2, <1>3, AppendProperties, LenProperties
  <1>5. d # <<>>
    BY <1>4, EmptySeq
  <1> QED BY <1>4, <1>5, NewestIsLast DEF Newest, d, e

-----------------------------------------------------------------------------
(* The loggers. *)
(* A facade whose buffer holds its last message as the newest event.       *)
GoodFacade(f) == f \in Facade /\ Good(f.logBuffer) /\ Newest(f.logBuffer, f.lastMessage)
(* With nobody else at the buffer, the last message is still there. *)
Holds(f) == f.lastMessage # Blank => f.logBuffer.logSize > 0 /\ ~f.logBuffer.error
LogsInv ==
    /\ LoggersInv
    /\ \A l \in Loggers : GoodFacade(loggers[l])
    /\ plant.commands = {} => \A l \in Loggers : Holds(loggers[l])

(* A call of a facade pushes its message or repeats the last one. *)
LEMMA FacadeSteps ==
  ASSUME NEW f, GoodFacade(f), NEW m \in Message, NEW within \in BOOLEAN
  PROVE  LET g == LoggerFacade(f, m, within)
         IN /\ GoodFacade(g) /\ LogStep(g.logBuffer, f.logBuffer)
            /\ Holds(f) => Holds(g)
  <1> DEFINE cmd == IF isDuplicate(f, m, within) THEN "IncrementLast" ELSE "Push"
             e == [message |-> m, repeatCount |-> 1]
             g == LoggerFacade(f, m, within)
             q == LogRingBuffer(f.logBuffer, cmd, e)
  <1>1. /\ cmd \in LogCmd /\ (cmd = "Push" \/ cmd = "IncrementLast")
        /\ cmd = "IncrementLast" => m = f.lastMessage
    BY DEF LogCmd, isDuplicate
  <1>2. g.logBuffer = q /\ g.lastMessage = m
    BY DEF LoggerFacade, GoodFacade, Facade
  <1>3. g \in Facade
    BY FacadeCall DEF GoodFacade, Good
  <1> HIDE DEF cmd, g
  <1>4. /\ Good(q) /\ StepOf(cmd, q, f.logBuffer, m)
        /\ cmd = "Push" \/ (cmd = "IncrementLast" /\ f.logBuffer.logSize # 0) => ~q.error
    BY <1>1, RingSteps DEF GoodFacade
  <1> HIDE DEF q
  <1>5. CASE cmd = "Push"
    <2>1. Recorded(q, f.logBuffer, m)
      BY <1>4, <1>5 DEF StepOf
    <2>2. q.logSize > 0 /\ Newest(q, m)
      BY <1>4, <2>1, NewestRecorded DEF GoodFacade
    <2> QED BY <1>2, <1>3, <1>4, <1>5, <2>1, <2>2 DEF GoodFacade, LogStep, Holds, g
  <1>6. CASE cmd = "IncrementLast"
    <2>1. Altered(q, f.logBuffer) /\ m = f.lastMessage
      BY <1>1, <1>4, <1>6 DEF StepOf
    <2>2. Newest(q, m)
      BY <1>4, <2>1, NewestKept DEF GoodFacade
    <2>3. Holds(f) => q.logSize > 0 /\ ~q.error
      <3> SUFFICES ASSUME Holds(f) PROVE q.logSize > 0 /\ ~q.error
        OBVIOUS
      <3>1. f.logBuffer.logSize > 0 /\ f.logBuffer.logSize \in Nat
        BY <2>1, LogAssumption DEF Holds, GoodFacade, Good, Sound, Ring
      <3>2. q = LogRingBuffer(f.logBuffer, "IncrementLast", e)
        BY <1>6 DEF q
      <3>3. q.logSize = f.logBuffer.logSize
        BY <3>1, <3>2, LogAssumption
           DEF LogRingBuffer, Broken, Command, IncrementLast, GoodFacade, Good, Sound,
               Ring, Slots
      <3> QED BY <1>4, <1>6, <3>1, <3>3
    <2> QED BY <1>2, <1>3, <1>4, <2>1, <2>2, <2>3 DEF GoodFacade, LogStep, Holds, g
  <1> QED BY <1>1, <1>5, <1>6

LEMMA LoggerCallSteps ==
  ASSUME LogsInv, NEW l \in Loggers, LoggerCall(l) \/ BufferCall(l)
  PROVE  /\ LogsInv'
         /\ \A k \in Loggers :
               LogStep(loggers'[k].logBuffer, loggers[k].logBuffer)
  <1> DEFINE f == loggers[l]
  <1>0. /\ f \in Facade /\ GoodFacade(f) /\ loggers \in [Loggers -> Facade]
        /\ plant.commands = {} => Holds(f)
        /\ plant.commands \subseteq LogCmd \ {"Push"}
        /\ plant.messages[l] \subseteq Message /\ plant.windows \subseteq BOOLEAN
    BY DispatchAssumption DEF LogsInv, LoggersInv, Plant
  <1>1. /\ LoggersInv' /\ plant' = plant
        /\ \A k \in Loggers : k # l => loggers'[k] = loggers[k]
    BY LoggerStep DEF LogsInv
  <1>2. /\ GoodFacade(loggers'[l]) /\ LogStep(loggers'[l].logBuffer, f.logBuffer)
        /\ plant.commands = {} => Holds(loggers'[l])
    <2>1. CASE loggers' = [loggers EXCEPT ![l] = Registered(@)]
      <3>1. /\ loggers'[l] \in Facade /\ loggers'[l].logBuffer = f.logBuffer
            /\ loggers'[l].lastMessage = f.lastMessage
        BY <1>0, <2>1, RegisteredSame
      <3> QED BY <1>0, <3>1 DEF GoodFacade, Holds, LogStep, Altered, Kept
    <2>2. CASE \E m \in plant.messages[l], within \in plant.windows :
                  loggers' = [loggers EXCEPT ![l] = LoggerFacade(Registered(@), m, within)]
      <3>1. PICK m \in Message, within \in BOOLEAN :
               loggers' = [loggers EXCEPT ![l] = LoggerFacade(Registered(@), m, within)]
        BY <1>0, <2>2
      <3>2. loggers'[l] = LoggerFacade(Registered(f), m, within)
        BY <1>0, <3>1
      <3>3. /\ GoodFacade(Registered(f)) /\ Registered(f).logBuffer = f.logBuffer
            /\ Holds(f) => Holds(Registered(f))
        BY <1>0, RegisteredSame DEF GoodFacade, Holds
      <3> QED BY <1>0, <3>2, <3>3, FacadeSteps
    <2>3. CASE BufferCall(l)
      <3>1. PICK cmd \in plant.commands :
               loggers' = [loggers EXCEPT ![l].logBuffer =
                              LogRingBuffer(@, cmd, BlankEvent)]
        BY <2>3 DEF BufferCall
      <3>2. /\ loggers'[l].logBuffer = LogRingBuffer(f.logBuffer, cmd, BlankEvent)
            /\ loggers'[l].lastMessage = f.lastMessage
        BY <1>0, <3>1 DEF Facade
      <3>3. cmd \in LogCmd /\ cmd # "Push" /\ plant.commands # {}
        BY <1>0
      <3>4. /\ Good(loggers'[l].logBuffer)
            /\ Altered(loggers'[l].logBuffer, f.logBuffer)
        BY <1>0, <3>2, <3>3, RingSteps DEF GoodFacade, StepOf
      <3>5. Newest(loggers'[l].logBuffer, f.lastMessage)
        BY <1>0, <3>4, NewestKept DEF GoodFacade
      <3>6. loggers'[l] \in Facade
        BY <1>1 DEF LoggersInv
      <3> QED BY <3>2, <3>3, <3>4, <3>5, <3>6 DEF GoodFacade, LogStep
    <2> QED BY <2>1, <2>2, <2>3 DEF LoggerCall
  <1>3. ASSUME NEW k \in Loggers
        PROVE  /\ GoodFacade(loggers'[k])
               /\ LogStep(loggers'[k].logBuffer, loggers[k].logBuffer)
               /\ plant.commands = {} => Holds(loggers'[k])
    <2>1. CASE k = l
      BY <1>2, <2>1
    <2>2. CASE k # l
      BY <1>1, <2>2 DEF LogsInv, LogStep, Altered, Kept
    <2> QED BY <2>1, <2>2
  <1> QED BY <1>1, <1>3 DEF LogsInv

LEMMA NextSteps ==
  ASSUME LogsInv, [Next]_vars
  PROVE  /\ LogsInv'
         /\ \A k \in Loggers :
               LogStep(loggers'[k].logBuffer, loggers[k].logBuffer)
  <1>1. CASE \E l \in Loggers : LoggerCall(l) \/ BufferCall(l)
    BY <1>1, LoggerCallSteps
  <1>2. CASE UNCHANGED <<plant, loggers>>
    BY <1>2 DEF LogsInv, LoggersInv, LogStep, Altered, Kept
  <1>3. CASE Dispatch
    BY <1>2, <1>3, DispatchKeepsLoggers
  <1>4. CASE UNCHANGED vars
    BY <1>2, <1>4 DEF vars
  <1> QED BY <1>1, <1>3, <1>4 DEF Next

(* A step of the buffer of l, as the abstract log sees it. *)
LEMMA StepsMap ==
  ASSUME NEW l \in Loggers, LogStep(loggers'[l].logBuffer, loggers[l].logBuffer)
  PROVE  LET r == loggers[l].logBuffer
         IN Log(l)!Next \/ UNCHANGED <<Contents(r), LastRead(r)>>
  <1> DEFINE r == loggers[l].logBuffer
             q == loggers'[l].logBuffer
  <1>1. CASE \E m \in Message : Recorded(q, r, m)
    BY <1>1 DEF Recorded, Log!Next, Log!Record
  <1>2. CASE Repeated(q, r)
    BY <1>2 DEF Repeated, Log!Next, Log!Repeat
  <1>3. CASE Peeked(q, r)
    BY <1>3 DEF Peeked, Log!Next, Log!Peek
  <1>4. CASE Popped(q, r)
    BY <1>4 DEF Popped, Log!Next, Log!Pop
  <1>5. CASE Cleared(q, r)
    BY <1>5 DEF Cleared, Log!Next, Log!Clear
  <1>6. CASE Kept(q, r)
    BY <1>6 DEF Kept
  <1> QED BY <1>1, <1>2, <1>3, <1>4, <1>5, <1>6 DEF LogStep, Altered

LEMMA InitMaps ==
  ASSUME Init PROVE LogsInv /\ \A l \in Loggers : Log(l)!Init
  <1>1. LoggersInv
    BY ColdStartSound DEF Init, LoggersInv, FacadeColdStart, Facade, Sound
  <1>2. ASSUME NEW l \in Loggers
        PROVE  GoodFacade(loggers[l]) /\ Holds(loggers[l]) /\ Log(l)!Init
    <2> DEFINE r == loggers[l].logBuffer
    <2>1. /\ r.logSize = 0 /\ r.headEntry = BlankEvent /\ Sound(r)
          /\ loggers[l].lastMessage = Blank /\ loggers[l] \in Facade
      BY <1>1 DEF Init, FacadeColdStart, RingColdStart, LoggersInv
    <2> HIDE DEF r
    <2>2. Good(r)
      BY <2>1 DEF Good, Live
    <2>3. Contents(r) = <<>>
      BY <2>1, <2>2, ContentsAreASeq, EmptySeq
    <2>4. LastRead(r) = <<>>
      BY <2>1 DEF LastRead
    <2>5. Newest(r, loggers[l].lastMessage)
      BY <2>1 DEF Newest
    <2> QED BY <2>1, <2>2, <2>3, <2>4, <2>5 DEF GoodFacade, Holds, Log!Init, r
  <1> QED BY <1>1, <1>2 DEF LogsInv

(* Every buffer is a bounded log: whatever is logged, repeated, read or    *)
(* cleared, its events are the last LOG_MAX_SIZE ones in their order, and  *)
(* the slots, the indices and the overflow count are not seen              *)
(* (LogRingBuffer.st:29-112, LoggerFacade.st:85-121).                      *)
THEOREM BuffersAreLogs == Spec => RefinesBoundedLog
  <1> DEFINE Maps ==
        \A l \in Loggers :
           LET r == loggers[l].logBuffer
           IN Log(l)!Next \/ UNCHANGED <<Contents(r), LastRead(r)>>
             Starts == \A l \in Loggers : Log(l)!Init
  <1>1. Init => LogsInv /\ Starts
    BY InitMaps
  <1>2. LogsInv /\ [Next]_vars => LogsInv'
    BY NextSteps
  <1>3. LogsInv /\ [Next]_vars => [Maps]_vars
    BY NextSteps, StepsMap
  <1> HIDE DEF Starts, Maps
  <1>4. Spec => Starts /\ [][Maps]_vars
    BY <1>1, <1>2, <1>3, PTL DEF Spec
  <1> QED BY <1>4 DEF RefinesBoundedLog, Starts, Maps

(* The newest event is the one its facade compares with, and no event goes *)
(* unrecorded as long as the facade alone uses the buffer                  *)
(* (LoggerFacade.st:85-121, LogRingBuffer.st:57-70).                       *)
THEOREM EventsCorrect == Spec => []EventsAreRecorded
  <1>1. Init => LogsInv
    BY InitMaps
  <1>2. LogsInv /\ [Next]_vars => LogsInv'
    BY NextSteps
  <1>3. LogsInv => EventsAreRecorded
    BY DEF LogsInv, GoodFacade, Newest, Holds, EventsAreRecorded
  <1> QED BY <1>1, <1>2, <1>3, PTL DEF Spec
-----------------------------------------------------------------------------
(* What is published.                                                       *)
Steady == "error" \notin plant.connections
(* The mapper and the publisher of an appender between two calls of it: the *)
(* publisher is under way exactly when the mapper is done.                  *)
Pipeline(a) ==
    /\ a \in Appender /\ ~a.done /\ ~a.error
    /\ a.mapper \in {"idle", "busy", "done"} /\ a.publisher \in {"idle", "busy"}
    /\ a.mapper = "done" <=> a.publisher = "busy"
    /\ a.busy <=> a.mapper # "idle"
Snapshot == <<currentSource, dispatcher.current>>
Committed ==
    /\ dispatcher.sourceIndex \in 1..Len(logSourceList)
    /\ sources[currentSource] = dispatcher.current
(* While something is under way the dispatcher reads no other buffer.       *)
CommitInv ==
    Steady => /\ Pipeline(appender)
              /\ Reading => ~appender.busy
              /\ At("append") \/ appender.busy => Committed
              /\ appender.busy => appender.payload = Snapshot

(* A call of the appender for a committed snapshot: what is under way       *)
(* afterwards is that snapshot, whatever was under way before.              *)
LEMMA ExecuteCarries ==
  ASSUME NEW a, Pipeline(a), Snapshot \in Loggers \X Mark,
         a.busy => a.payload = Snapshot,
         NEW connection \in {"up", "down"}, NEW map \in Outcome, NEW pub \in Outcome
  PROVE  LET b == Execute(a, connection, map, pub)
         IN ~(b.done \/ b.error) =>
               Pipeline(b) /\ (b.busy => b.payload = Snapshot)
  <1> DEFINE b == Execute(a, connection, map, pub)
             c == [a EXCEPT !.error = FALSE]
  <1>1. CASE connection = "down"
    BY <1>1 DEF Execute, Pipeline, Appender
  <1>2. CASE connection = "up" /\ a.publisher = "busy"
    <2>1. Mapped(a, map) = a /\ Mapped(c, map) = c /\ a.mapper = "done"
      BY <1>2 DEF Mapped, Pipeline, Appender
    <2>2. b = [c EXCEPT !.publisher = pub, !.done = pub = "done",
                        !.busy = pub = "busy", !.error = pub = "error"]
      BY <1>2, <2>1 DEF Execute, Connected, Published, Pipeline, Appender
    <2> QED BY <1>2, <2>1, <2>2 DEF Pipeline, Appender, Outcome
  <1>3. CASE connection = "up" /\ a.publisher = "idle"
    <2> DEFINE s == IF a.mapper = "busy" THEN a.payload ELSE Snapshot
               d == [a EXCEPT !.error = FALSE, !.mapper = map, !.busy = map = "busy",
                              !.payload = s]
    <2>1. s = Snapshot
      BY DEF Pipeline
    <2>2. Mapped(a, map).mapper = map /\ Mapped(c, map) = d
      BY <1>3 DEF Mapped, Pipeline, Appender, Snapshot
    <2>3. CASE map = "error"
      <3>1. b = [a EXCEPT !.mapper = "idle", !.done = FALSE, !.busy = FALSE,
                          !.error = FALSE]
        BY <1>3, <2>2, <2>3 DEF Execute, Connected
      <3> QED BY <1>3, <3>1 DEF Pipeline, Appender
    <2>4. CASE map = "busy"
      <3>1. d.mapper = "busy"
        BY <2>4 DEF Pipeline, Appender
      <3>2. b = d
        BY <1>3, <2>2, <2>4, <3>1 DEF Execute, Connected, Published
      <3> QED BY <1>3, <2>1, <2>4, <3>2 DEF Pipeline, Appender
    <2>5. CASE map = "done"
      <3>1. d.mapper = "done"
        BY <2>5 DEF Pipeline, Appender
      <3>2. b = [d EXCEPT !.publisher = pub, !.done = pub = "done",
                          !.busy = pub = "busy", !.error = pub = "error"]
        BY <1>3, <2>2, <2>5, <3>1 DEF Execute, Connected, Published
      <3>3. /\ d \in Appender /\ d.mapper = "done" /\ d.payload = Snapshot
            /\ b \in Appender /\ b.mapper = "done" /\ b.payload = Snapshot
            /\ b.publisher = pub /\ (b.busy <=> pub = "busy")
            /\ (b.done <=> pub = "done") /\ (b.error <=> pub = "error")
        <4>1. d \in Appender /\ d.mapper = "done" /\ d.payload = Snapshot
          <5> HIDE DEF s
          <5> QED BY <2>1, <2>5 DEF Pipeline, Appender
        <4> HIDE DEF b, d
        <4> QED BY <3>2, <4>1 DEF Appender
      <3> HIDE DEF b, d
      <3>4. ASSUME ~(b.done \/ b.error) PROVE Pipeline(b) /\ (b.busy => b.payload = Snapshot)
        <4>1. pub = "busy"
          BY <3>3, <3>4 DEF Outcome
        <4> QED BY <3>3, <3>4, <4>1 DEF Pipeline
      <3> QED BY <3>4 DEF b
    <2> QED BY <2>3, <2>4, <2>5 DEF Outcome
  <1> QED BY <1>1, <1>2, <1>3 DEF Pipeline

LEMMA ColdStartPipeline == Pipeline(AppenderColdStart) /\ ~AppenderColdStart.busy
  BY DEF Pipeline, AppenderColdStart, Appender

LEMMA CommitStep == ASSUME Inv, CommitInv, [Next]_vars PROVE CommitInv'
  <1>0. /\ DispatcherType /\ Len(logSourceList) \in Nat
        /\ dispatcher.sourceIndex \in Nat \ {0} /\ plant \in Plant
    BY DispatchAssumption DEF Inv, DispatcherType, LoggersInv
  <1>1. plant' = plant
    BY LoggerStep, DispatchKeepsLoggers DEF Inv, Next, vars
  <1> SUFFICES ASSUME Steady PROVE CommitInv'
    BY <1>1 DEF CommitInv, Steady
  <1>2. CASE \E l \in Loggers : LoggerCall(l) \/ BufferCall(l)
    <2>1. UNCHANGED <<sources, dispatcher, appender>>
      BY <1>2 DEF LoggerCall, BufferCall
    <2>2. /\ Len(logSourceList') \in Nat /\ Len(logSourceList') >= Len(logSourceList)
          /\ \A i \in 1..Len(logSourceList) : logSourceList'[i] = logSourceList[i]
      BY <1>0, <1>2, LoggerStepList
    <2>3. Committed => Committed' /\ Snapshot' = Snapshot
      BY <1>0, <2>1, <2>2 DEF Committed, Snapshot, currentSource
    <2> QED BY <2>1, <2>3 DEF CommitInv, Reading, At
  <1>3. CASE UNCHANGED <<logSourceList, sources, dispatcher, appender>>
    BY <1>3 DEF CommitInv, Reading, At, Committed, Snapshot, currentSource
  <1>4. CASE BeginScan
    <2>1. CASE appender.busy
      <3>1. /\ dispatcher' = [dispatcher EXCEPT !.pc = "append"]
            /\ UNCHANGED <<logSourceList, sources, appender>>
        BY <1>4, <2>1 DEF BeginScan, appVars
      <3>2. /\ dispatcher'.sourceIndex = dispatcher.sourceIndex
            /\ dispatcher'.current = dispatcher.current /\ dispatcher'.pc = "append"
        BY <1>0, <3>1 DEF DispatcherType
      <3> QED BY <2>1, <3>1, <3>2
              DEF CommitInv, Reading, At, Committed, Snapshot, currentSource
    <2>2. CASE ~appender.busy
      <3>1. dispatcher'.pc = "copy" /\ UNCHANGED appender
        BY <1>0, <1>4, <2>2 DEF BeginScan, DispatcherType
      <3> QED BY <2>2, <3>1 DEF CommitInv, Reading, At
    <2> QED BY <2>1, <2>2
  <1>5. CASE CopySlot \/ ReadOverflow \/ ReadSize \/ SkipSource
    <2>1. ~appender.busy /\ UNCHANGED appender
      BY <1>5 DEF CopySlot, ReadOverflow, ReadSize, SkipSource, At, Reading, CommitInv
    <2>2. dispatcher'.pc # "append"
      BY <1>0, <1>5 DEF CopySlot, ReadOverflow, ReadSize, SkipSource, At, DispatcherType
    <2> QED BY <2>1, <2>2 DEF CommitInv, At
  <1>6. CASE CommitSource
    <2>1. /\ ~appender.busy /\ UNCHANGED <<appender, logSourceList>>
          /\ dispatcher.sourceIndex \in 1..Len(logSourceList)
          /\ currentSource \in Loggers
      BY <1>0, <1>6, CurrentSourceListed
         DEF CommitSource, At, Reading, CommitInv, DispatcherType, appVars
    <2>2. /\ dispatcher'.pc = "append" /\ dispatcher'.current = dispatcher.current
          /\ dispatcher'.sourceIndex = dispatcher.sourceIndex
          /\ sources'[currentSource] = dispatcher.current
      BY <1>0, <1>6, <2>1 DEF CommitSource, DispatcherType
    <2>3. Committed'
      BY <2>1, <2>2 DEF Committed, currentSource
    <2> QED BY <2>1, <2>2, <2>3 DEF CommitInv, Reading
  <1>7. CASE CallAppender
    <2>1. PICK connection \in plant.connections, map \in plant.outcomes,
               pub \in plant.outcomes : AppendLog(connection, map, pub)
      BY <1>7 DEF CallAppender
    <2> DEFINE a == Execute(appender, connection, map, pub)
    <2>2. connection \in {"up", "down"} /\ map \in Outcome /\ pub \in Outcome
      BY <1>0, <2>1 DEF Steady, Plant
    <2>3. Committed /\ Snapshot \in Loggers \X Mark
      <3>1. Committed
        BY <2>1 DEF AppendLog, CommitInv
      <3>2. currentSource \in Loggers /\ dispatcher.current \in Mark
        BY <1>0, <3>1 DEF Committed, currentSource, DispatcherType
      <3> QED BY <3>1, <3>2 DEF Snapshot
    <2>4. ~(a.done \/ a.error) => Pipeline(a) /\ (a.busy => a.payload = Snapshot)
      BY <2>2, <2>3, ExecuteCarries DEF CommitInv
    <2>5. /\ UNCHANGED <<logSourceList, sources>>
          /\ appender' = IF a.done \/ a.error THEN AppenderColdStart ELSE a
          /\ dispatcher'.pc = "idle" /\ dispatcher'.current = dispatcher.current
          /\ ~(a.done \/ a.error) => dispatcher'.sourceIndex = dispatcher.sourceIndex
      BY <1>0, <2>1 DEF AppendLog, DispatcherType, appVars
    <2> HIDE DEF a
    <2>6. CASE a.done \/ a.error
      BY <2>5, <2>6, ColdStartPipeline DEF CommitInv, Reading, At
    <2>7. CASE ~(a.done \/ a.error)
      BY <2>3, <2>4, <2>5, <2>7
         DEF CommitInv, Reading, At, Committed, Snapshot, currentSource
    <2> QED BY <2>6, <2>7
  <1>8. CASE UNCHANGED vars
    BY <1>3, <1>8 DEF vars
  <1> QED BY <1>2, <1>4, <1>5, <1>6, <1>7, <1>8 DEF Next, Dispatch

(* Whatever the connection and the client do, short of reporting an error,  *)
(* and however the loggers preempt the dispatcher, what is being published  *)
(* is the snapshot that was committed last (MqttLogAppender.st:54-61,       *)
(* LogDispatcher.st:55-70).                                                 *)
THEOREM PayloadCorrect == Spec => []PayloadIsCommitted
  <1>1. Init => CommitInv
    BY ColdStartPipeline DEF Init, CommitInv, Reading, At
  <1>2. CommitInv => PayloadIsCommitted
    BY DEF CommitInv, Steady, Committed, Snapshot, PayloadIsCommitted
  <1>3. Inv /\ CommitInv /\ [Next]_vars => CommitInv'
    BY CommitStep
  <1> QED BY <1>1, <1>2, <1>3, InvCorrect, PTL DEF Spec
=============================================================================

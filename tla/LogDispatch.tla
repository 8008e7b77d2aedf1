---------------------------- MODULE LogDispatch -----------------------------
(***************************************************************************)
(* The loggers of the application and the dispatcher of their events.      *)
(* The loggers are called from StartTask (priority 1), which preempts the  *)
(* LogDispatcher program (priority 3) between any two of its reads of a    *)
(* logger's buffer; the dispatcher never runs within a logger's call.      *)
(* The MQTT client, the JSON library and the broker are external: a call   *)
(* of theirs has any outcome the plant admits.                             *)
(***************************************************************************)
EXTENDS LogRingBufferFB, Integers

CONSTANTS
    Loggers,
    LOG_APPENDER_BATCH_SIZE,
    Plants   \* the systems to look at, see Plant

Outcome == {"busy", "done", "error"}
Plant == [logAppenderEnable: BOOLEAN,
          sourceListMaxSize: Nat,        \* LOG_SOURCE_LIST_MAX_SIZE
          messages: [Loggers -> SUBSET Message], \* what each logger may log
          windows: SUBSET BOOLEAN,       \* duplicates within suppressDuration
          commands: SUBSET (LogCmd \ {"Push"}), \* given to a buffer directly
          maxOverflow: Nat,              \* bound: no logging beyond it
          connections: SUBSET {"up", "down", "error"},
          outcomes: SUBSET Outcome]      \* of serialization and publication

ASSUME DispatchAssumption ==
    /\ LOG_APPENDER_BATCH_SIZE \in Nat \ {0}
    /\ Plants \subseteq Plant

VARIABLES
    plant,
    loggers,        \* [Loggers -> Facade]
    logSourceList,  \* loggers in the order of their registration
    sources,        \* what the dispatcher remembers of each logger
    dispatcher,     \* the dispatcher between two of its steps
    appender,       \* MqttLogAppender with its mapper and its publisher
    sent            \* history: the last published snapshot of each logger
appVars == <<loggers, logSourceList>>
vars == <<plant, loggers, logSourceList, sources, dispatcher, appender, sent>>

Mark == [lastLogSize: 0..LOG_MAX_SIZE, lastOverflowCount: 0..MAX_UDINT]
NoMark == [lastLogSize |-> 0, lastOverflowCount |-> 0]
Appender == [done: BOOLEAN, busy: BOOLEAN, error: BOOLEAN,
             mapper: Outcome \cup {"idle"}, publisher: Outcome \cup {"idle"},
             payload: {<<>>} \cup (Loggers \X Mark)]  \* what was serialized
AppenderColdStart ==
    [done |-> FALSE, busy |-> FALSE, error |-> FALSE,
     mapper |-> "idle", publisher |-> "idle", payload |-> <<>>]

Init ==
    /\ plant \in Plants
    /\ loggers = [l \in Loggers |-> FacadeColdStart]
    /\ logSourceList = <<>>
    /\ sources = [l \in Loggers |-> NoMark]
    /\ dispatcher = [pc |-> "idle", sourceIndex |-> 1, slot |-> 1,
                     currentLogBuffer |-> RingColdStart.logBuffer, current |-> NoMark]
    /\ appender = AppenderColdStart
    /\ sent = [l \in Loggers |-> NoMark]

-----------------------------------------------------------------------------
(* StartTask: one call of a logger, or of its buffer.                      *)
Registered(f) ==
    [f EXCEPT !.init = TRUE,
              !.error = @ \/ (~f.init /\ Len(logSourceList) >= plant.sourceListMaxSize)]
LoggerCall(l) ==
    /\ \/ loggers' = [loggers EXCEPT ![l] = Registered(@)]
       \/ /\ loggers[l].logBuffer.overflowCount < plant.maxOverflow
          /\ \E m \in plant.messages[l], within \in plant.windows :
                loggers' = [loggers EXCEPT ![l] = LoggerFacade(Registered(@), m, within)]
    /\ logSourceList' =
          IF ~loggers[l].init /\ Len(logSourceList) < plant.sourceListMaxSize
          THEN Append(logSourceList, l) ELSE logSourceList
    /\ UNCHANGED <<plant, sources, dispatcher, appender, sent>>

BufferCall(l) ==
    /\ \E cmd \in plant.commands :
          loggers' = [loggers EXCEPT ![l].logBuffer = LogRingBuffer(@, cmd, BlankEvent)]
    /\ UNCHANGED <<plant, logSourceList, sources, dispatcher, appender, sent>>

-----------------------------------------------------------------------------
(* LogDispatcher, read by read.                                            *)
sourceIndex ==
    IF dispatcher.sourceIndex \in 1..Len(logSourceList) THEN dispatcher.sourceIndex ELSE 1
currentSource == logSourceList[dispatcher.sourceIndex]
logRef == loggers[currentSource].logBuffer
NextSource == IF dispatcher.sourceIndex >= Len(logSourceList) THEN 1
              ELSE dispatcher.sourceIndex + 1

At(pc) == dispatcher.pc = pc

BeginScan ==
    /\ At("idle") /\ plant.logAppenderEnable /\ logSourceList # <<>>
    /\ dispatcher' = IF appender.busy THEN [dispatcher EXCEPT !.pc = "append"]
                     ELSE [dispatcher EXCEPT !.pc = "copy", !.slot = 1,
                                             !.sourceIndex = sourceIndex]
    /\ UNCHANGED <<plant, appVars, sources, appender, sent>>

CopySlot ==
    /\ At("copy")
    /\ dispatcher' =
          [dispatcher EXCEPT
             !.currentLogBuffer[dispatcher.slot] = logRef.logBuffer[dispatcher.slot],
             !.slot = IF @ = LOG_MAX_SIZE THEN 1 ELSE @ + 1,
             !.pc = IF dispatcher.slot = LOG_MAX_SIZE THEN "overflow" ELSE @]
    /\ UNCHANGED <<plant, appVars, sources, appender, sent>>

ReadOverflow ==
    /\ At("overflow")
    /\ dispatcher' = [dispatcher EXCEPT
          !.current.lastOverflowCount = logRef.overflowCount, !.pc = "size"]
    /\ UNCHANGED <<plant, appVars, sources, appender, sent>>

ReadSize ==
    /\ At("size")
    /\ dispatcher' = [dispatcher EXCEPT
          !.current.lastLogSize = logRef.logSize, !.pc = "decide"]
    /\ UNCHANGED <<plant, appVars, sources, appender, sent>>

(* Mutant: an overflow does not bypass the batch threshold. *)
ThresholdDue(current, last) ==
    (current.lastLogSize - last.lastLogSize) % 65536 >= LOG_APPENDER_BATCH_SIZE
(* The difference is a UINT.                                               *)
Due(current, last) ==
    \/ (current.lastLogSize - last.lastLogSize) % 65536 >= LOG_APPENDER_BATCH_SIZE
    \/ current.lastOverflowCount > last.lastOverflowCount

Ready == ~logRef.isEmpty /\ Due(dispatcher.current, sources[currentSource])

SkipSource ==
    /\ At("decide") /\ ~Ready
    /\ dispatcher' = [dispatcher EXCEPT !.sourceIndex = NextSource, !.pc = "idle"]
    /\ UNCHANGED <<plant, appVars, sources, appender, sent>>

(* Mutant: the index is advanced before the snapshot is committed. *)
LateCommitSource ==
    /\ At("decide") /\ Ready
    /\ sources' = [sources EXCEPT ![logSourceList[NextSource]] = dispatcher.current]
    /\ dispatcher' = [dispatcher EXCEPT !.pc = "append"]
    /\ UNCHANGED <<plant, appVars, appender, sent>>
CommitSource ==
    /\ At("decide") /\ Ready
    /\ sources' = [sources EXCEPT ![currentSource] = dispatcher.current]
    /\ dispatcher' = [dispatcher EXCEPT !.pc = "append"]
    /\ UNCHANGED <<plant, appVars, appender, sent>>
-----------------------------------------------------------------------------
(* MqttLogAppender with execute, once connected: unless a publication is   *)
(* under way the mapper is called, and once it is done the publisher.      *)
Mapped(a, map) ==
    IF a.publisher = "busy" THEN a
    ELSE [a EXCEPT !.mapper = map, !.busy = map = "busy",
                   !.payload = IF a.mapper = "busy" THEN @
                               ELSE <<currentSource, dispatcher.current>>]
Published(a, pub) ==
    IF a.mapper # "done" THEN a
    ELSE [a EXCEPT !.publisher = pub, !.done = pub = "done",
                   !.busy = pub = "busy", !.error = pub = "error"]
Connected(a, map, pub) ==
    IF Mapped(a, map).mapper = "error"
    THEN [a EXCEPT !.mapper = "idle", !.done = FALSE, !.busy = FALSE, !.error = FALSE]
    ELSE Published(Mapped([a EXCEPT !.error = FALSE], map), pub)

(* Mutant: a call without connection reports that nothing is under way. *)
ForgetfulExecute(a, connection, map, pub) ==
    IF connection = "up" THEN Connected(a, map, pub)
    ELSE [a EXCEPT !.done = FALSE, !.busy = FALSE, !.error = FALSE]
Execute(a, connection, map, pub) ==
    CASE connection = "error" ->
            [a EXCEPT !.done = FALSE, !.busy = FALSE, !.error = FALSE]
      [] connection = "down" -> [a EXCEPT !.error = FALSE]
      [] connection = "up" -> Connected(a, map, pub)

AppendLog(connection, map, pub) ==
    /\ At("append")
    /\ LET a == Execute(appender, connection, map, pub)
           over == a.done \/ a.error
       IN /\ appender' = IF over THEN AppenderColdStart ELSE a
          /\ dispatcher' = [dispatcher EXCEPT
                !.pc = "idle", !.sourceIndex = IF over THEN NextSource ELSE @]
          /\ sent' = IF a.done THEN [sent EXCEPT ![a.payload[1]] = a.payload[2]] ELSE sent
    /\ UNCHANGED <<plant, appVars, sources>>
CallAppender ==
    \E connection \in plant.connections, map, pub \in plant.outcomes :
        AppendLog(connection, map, pub)

Dispatch == \/ BeginScan \/ CopySlot \/ ReadOverflow \/ ReadSize
            \/ SkipSource \/ CommitSource \/ CallAppender
Next == (\E l \in Loggers : LoggerCall(l) \/ BufferCall(l)) \/ Dispatch
Spec == Init /\ [][Next]_vars

(* The dispatcher is cyclic and is not starved for ever, and of the calls   *)
(* of the appender one after the other succeeds.                           *)
FairSpec ==
    Spec /\ WF_vars(Dispatch) /\ SF_vars(AppendLog("up", "done", "done"))

-----------------------------------------------------------------------------
(* Type invariant. *)
TypeOK ==
    /\ plant \in Plants
    /\ loggers \in [Loggers -> Facade]
    /\ logSourceList \in Seq(Loggers)
    /\ sources \in [Loggers -> Mark]
    /\ dispatcher \in
          [pc: {"idle", "copy", "overflow", "size", "decide", "append"},
           sourceIndex: Nat \ {0}, slot: Slots,
           currentLogBuffer: [Slots -> LogEvent], current: Mark]
    /\ appender \in Appender
    /\ sent \in [Loggers -> Mark]

(* The tail of a buffer stays the slot after its newest event, through      *)
(* overflows, pops and clears (LogRingBuffer.st:43-53, 87-93).             *)
Position(head, k) == IF head + k > LOG_MAX_SIZE THEN head + k - LOG_MAX_SIZE ELSE head + k
TailFollowsHead ==
    \A l \in Loggers :
        LET r == loggers[l].logBuffer IN r.tail = Position(r.head, r.logSize)

(* The event that a duplicate would count in is the one the facade compares *)
(* with; and unless a buffer is emptied behind its facade, no event goes   *)
(* unrecorded (LoggerFacade.st:85-121, LogRingBuffer.st:57-70).            *)
EventsAreRecorded ==
    \A l \in Loggers :
        LET r == loggers[l].logBuffer
        IN /\ r.logSize > 0 =>
                 r.logBuffer[Before(r.tail)].message = loggers[l].lastMessage
           /\ plant.commands = {} /\ loggers[l].lastMessage # Blank =>
                 r.logSize > 0 /\ ~r.error

(* What the dispatcher remembers of a logger is never ahead of its buffer, *)
(* though it is read while the logger runs: the difference of the sizes is *)
(* not negative (LogDispatcher.st:49), nor is an overflow taken twice.     *)
(* It holds below the wrap of overflowCount.                               *)
MarksNeverAhead ==
    plant.commands = {} /\ plant.maxOverflow < MAX_UDINT =>
        \A l \in Loggers :
            /\ sources[l].lastLogSize <= loggers[l].logBuffer.logSize
            /\ sources[l].lastOverflowCount <= loggers[l].logBuffer.overflowCount
            /\ At("decide") /\ l = currentSource =>
                  sources[l].lastLogSize <= dispatcher.current.lastLogSize

(* What is being published is the snapshot that was committed last, also   *)
(* when the connection is away for a while in between; a client that       *)
(* reports an error is another matter (MqttLogAppender.st:54-61).          *)
PayloadIsCommitted ==
    "error" \notin plant.connections /\ appender.busy =>
        /\ appender.payload = <<currentSource, dispatcher.current>>
        /\ sources[currentSource] = dispatcher.current

(* Each buffer implements the log it promises to be. *)
Contents(r) == [k \in 1..r.logSize |-> r.logBuffer[Position(r.head, k - 1)]]
LastRead(r) == IF r.headEntry = BlankEvent THEN <<>> ELSE <<r.headEntry>>
Log(l) ==
    INSTANCE BoundedLog WITH
        Capacity <- LOG_MAX_SIZE,
        log <- Contents(loggers[l].logBuffer),
        read <- LastRead(loggers[l].logBuffer)
RefinesBoundedLog ==
    /\ \A l \in Loggers : Log(l)!Init
    /\ [][\A l \in Loggers :
            LET r == loggers[l].logBuffer
            IN Log(l)!Next \/ UNCHANGED <<Contents(r), LastRead(r)>>]_vars

(* A registered logger with a batch of new events, or with events that were *)
(* overwritten, is served: its events are committed, and published when     *)
(* the broker can be relied on (LogDispatcher.st:42-53).                    *)
Behind(l, mark) ==
    LET r == loggers[l].logBuffer
    IN \/ r.logSize - mark.lastLogSize >= LOG_APPENDER_BATCH_SIZE
       \/ r.overflowCount > mark.lastOverflowCount
IsListed(l) == \E i \in DOMAIN logSourceList : logSourceList[i] = l
Reliable == plant.connections = {"up"} /\ "error" \notin plant.outcomes
BacklogIsServed ==
    \A l \in Loggers :
        (plant.logAppenderEnable /\ IsListed(l) /\ Behind(l, sources[l]))
            ~> (~Behind(l, sources[l]) /\ (Reliable => ~Behind(l, sent[l])))
=============================================================================

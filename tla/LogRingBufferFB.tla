-------------------------- MODULE LogRingBufferFB ---------------------------
(***************************************************************************)
(* The function blocks LogRingBuffer and LoggerFacade.  An event is its    *)
(* message and its repeat count: the logger name, the source and the       *)
(* payload that the facade compares are one message, and the outputs done  *)
(* and isFull, which no code reads, are left out.                          *)
(***************************************************************************)
EXTENDS Naturals, Sequences

CONSTANTS
    LOG_MAX_SIZE,  \* slots of a buffer
    MAX_UDINT,     \* where overflowCount wraps to 1
    MaxRepeat,     \* where repeatCount saturates
    Message,       \* what can be logged
    Blank          \* the message of an event never written

ASSUME LogAssumption ==
    /\ LOG_MAX_SIZE \in Nat \ {0}
    /\ MAX_UDINT \in Nat \ {0, 1}
    /\ MaxRepeat \in Nat \ {0}
    /\ Blank \notin Message

BlankEvent == [message |-> Blank, repeatCount |-> 0]

Slots == 1..LOG_MAX_SIZE
LogEvent == [message: Message \cup {Blank}, repeatCount: 0..MaxRepeat]
LogCmd == {"Push", "IncrementLast", "Peek", "Pop", "Clear"}
Ring == [logBuffer: [Slots -> LogEvent], head: Slots, tail: Slots,
         logSize: 0..LOG_MAX_SIZE, overflowCount: 0..MAX_UDINT,
         isEmpty: BOOLEAN, error: BOOLEAN, headEntry: LogEvent]
RingColdStart ==
    [logBuffer |-> [i \in Slots |-> BlankEvent], head |-> 1, tail |-> 1,
     logSize |-> 0, overflowCount |-> 0, isEmpty |-> FALSE, error |-> FALSE,
     headEntry |-> BlankEvent]

-----------------------------------------------------------------------------
(* (i MOD LOG_MAX_SIZE) + 1, and the slot before i.                        *)
After(i) == IF i = LOG_MAX_SIZE THEN 1 ELSE i + 1
Before(i) == IF i = 1 THEN LOG_MAX_SIZE ELSE i - 1

Push(r, event) ==
    LET full == r.logSize >= LOG_MAX_SIZE
    IN [r EXCEPT !.logBuffer[r.tail] = event,
                 !.tail = After(@),
                 !.head = IF full THEN After(@) ELSE @,
                 !.logSize = IF full THEN @ ELSE @ + 1,
                 !.overflowCount = IF full THEN @ + 1 ELSE @]

(* Mutant: the slot at the tail is taken for the last entry. *)
TailIncrementLast(r) ==
    IF r.logSize = 0 THEN [r EXCEPT !.error = TRUE]
    ELSE [r EXCEPT !.logBuffer[r.tail].repeatCount =
                       IF @ < MaxRepeat THEN @ + 1 ELSE @]
IncrementLast(r) ==
    IF r.logSize = 0 THEN [r EXCEPT !.error = TRUE]
    ELSE [r EXCEPT !.logBuffer[Before(r.tail)].repeatCount =
                       IF @ < MaxRepeat THEN @ + 1 ELSE @]

Peek(r) ==
    IF r.logSize = 0 THEN [r EXCEPT !.error = TRUE]
    ELSE [r EXCEPT !.headEntry = r.logBuffer[r.head]]

Pop(r) ==
    IF r.logSize = 0 THEN [r EXCEPT !.error = TRUE]
    ELSE [r EXCEPT !.headEntry = r.logBuffer[r.head],
                   !.head = After(@), !.logSize = @ - 1]

Clear(r) == [r EXCEPT !.head = 1, !.tail = 1, !.logSize = 0, !.overflowCount = 0]

Command(r, cmd, event) ==
    CASE cmd = "Push" -> Push(r, event)
      [] cmd = "IncrementLast" -> IncrementLast(r)
      [] cmd = "Peek" -> Peek(r)
      [] cmd = "Pop" -> Pop(r)
      [] cmd = "Clear" -> Clear(r)

(* The invariants guard. *)
Broken(r) ==
    r.head \notin Slots \/ r.tail \notin Slots \/ r.logSize > LOG_MAX_SIZE

LogRingBuffer(r, cmd, event) ==
    LET fresh == [r EXCEPT !.error = FALSE,
                           !.overflowCount = IF @ = MAX_UDINT THEN 1 ELSE @]
        done == Command(fresh, cmd, event)
    IN IF Broken(r)
       THEN [r EXCEPT !.head = 1, !.tail = 1, !.logSize = 0, !.error = TRUE]
       ELSE [done EXCEPT !.isEmpty = done.logSize = 0]

-----------------------------------------------------------------------------
Facade == [init: BOOLEAN, error: BOOLEAN, lastMessage: Message \cup {Blank},
           logBuffer: Ring]
FacadeColdStart ==
    [init |-> FALSE, error |-> FALSE, lastMessage |-> Blank,
     logBuffer |-> RingColdStart]

(* Mutant: the message is not compared. *)
HastyDuplicate(f, m, within) == f.lastMessage # Blank /\ within
(* One call with enable: "within" says that the last event is not older    *)
(* than suppressDuration.                                                  *)
isDuplicate(f, m, within) == m = f.lastMessage /\ within
LoggerFacade(f, m, within) ==
    LET cmd == IF isDuplicate(f, m, within) THEN "IncrementLast" ELSE "Push"
        ring == LogRingBuffer(f.logBuffer, cmd, [message |-> m, repeatCount |-> 1])
    IN [f EXCEPT !.lastMessage = m, !.logBuffer = ring, !.error = @ \/ ring.error]
=============================================================================

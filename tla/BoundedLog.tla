----------------------------- MODULE BoundedLog -----------------------------
(***************************************************************************)
(* What a logger's buffer promises: the last Capacity events, oldest       *)
(* first.  A full log gives up its oldest event for a new one; the newest  *)
(* event counts its repetitions instead of being stored again.             *)
(***************************************************************************)
EXTENDS Naturals, Sequences

CONSTANTS Capacity, Message, MaxRepeat
VARIABLES log, read  \* the events, and the one that was read last

Init == log = <<>> /\ read = <<>>

Record(m) ==
    /\ log' = Append(IF Len(log) = Capacity THEN Tail(log) ELSE log,
                     [message |-> m, repeatCount |-> 1])
    /\ UNCHANGED read
Repeat ==
    /\ log # <<>>
    /\ LET n == log[Len(log)].repeatCount
       IN log' = [log EXCEPT ![Len(log)].repeatCount =
                     IF n < MaxRepeat THEN n + 1 ELSE n]
    /\ UNCHANGED read
Peek == log # <<>> /\ read' = <<Head(log)>> /\ UNCHANGED log
Pop == log # <<>> /\ read' = <<Head(log)>> /\ log' = Tail(log)
Clear == log' = <<>> /\ UNCHANGED read

Next == (\E m \in Message : Record(m)) \/ Repeat \/ Peek \/ Pop \/ Clear
Spec == Init /\ [][Next]_<<log, read>>
=============================================================================

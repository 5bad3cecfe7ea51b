----------------------------- MODULE LossyFifo -----------------------------
(***************************************************************************)
(* What the UART receive buffer promises to the code that drains it:       *)
(* bytes come out in the order in which they were received, none twice and *)
(* none invented; a byte is lost only because the buffer held Capacity     *)
(* bytes when it arrived, or because the program was emptying the buffer.  *)
(***************************************************************************)
EXTENDS Naturals, Sequences

CONSTANTS
    Byte,       \* the values a received byte can have
    Capacity    \* how many unread bytes the buffer holds

VARIABLES
    queue,      \* the bytes received and not yet taken, oldest first
    hold,       \* the byte taken and not yet passed on: <<>> or <<b>>
    clearing    \* the program is emptying the buffer

vars == <<queue, hold, clearing>>

Init ==
    /\ queue = <<>>
    /\ hold = <<>>
    /\ clearing = FALSE

Accept(b) ==
    /\ Len(queue) < Capacity
    /\ queue' = Append(queue, b)
    /\ UNCHANGED <<hold, clearing>>

\* A step that loses the arriving byte changes nothing here, so it is a
\* stuttering step; MayLose states when the implementation may take it.
MayLose == Len(queue) = Capacity \/ clearing

Take ==
    /\ ~clearing
    /\ queue # <<>>
    /\ hold = <<>>
    /\ hold' = <<Head(queue)>>
    /\ queue' = Tail(queue)
    /\ UNCHANGED clearing

PassOn ==
    /\ hold # <<>>
    /\ hold' = <<>>
    /\ UNCHANGED <<queue, clearing>>

BeginClear ==
    /\ hold = <<>>
    /\ queue' = <<>>
    /\ clearing' = TRUE
    /\ UNCHANGED hold

EndClear ==
    /\ clearing
    /\ clearing' = FALSE
    /\ UNCHANGED <<queue, hold>>

\* Emptying the buffer with a single store.
Clear ==
    /\ hold = <<>>
    /\ queue' = <<>>
    /\ UNCHANGED <<hold, clearing>>

Next ==
    \/ \E b \in Byte : Accept(b)
    \/ Take
    \/ PassOn
    \/ BeginClear
    \/ EndClear
    \/ Clear

Spec == Init /\ [][Next]_vars
=============================================================================

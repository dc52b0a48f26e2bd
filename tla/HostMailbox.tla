------------------------------ MODULE HostMailbox ------------------------------
(***************************************************************************)
(* What the native host policy promises to the CircuitPython side:         *)
(* operations are numbered, one may wait while another is served, only a   *)
(* pause replaces the one that waits, and a status that does not read as   *)
(* busy is about the last operation that was asked for.                    *)
(***************************************************************************)
EXTENDS Naturals

VARIABLES
    last,       \* the last operation asked for
    waiting,    \* the operation that waits, or 0
    serving,    \* the one that is served, or 0
    shown       \* the operation the status is about

vars == <<last, waiting, serving, shown>>

Init == last = 0 /\ waiting = 0 /\ serving = 0 /\ shown = 0

Ask(pause) ==
    /\ waiting = 0 \/ pause
    /\ last' = last + 1 /\ waiting' = last + 1 /\ UNCHANGED <<serving, shown>>

Begin ==
    /\ serving = 0 /\ waiting # 0
    /\ serving' = waiting /\ waiting' = 0 /\ UNCHANGED <<last, shown>>

Show == serving # 0 /\ shown' = serving /\ UNCHANGED <<last, waiting, serving>>

End == serving # 0 /\ shown = serving /\ serving' = 0 /\ UNCHANGED <<last, waiting, shown>>

Next == (\E pause \in BOOLEAN : Ask(pause)) \/ Begin \/ Show \/ End

Spec == Init /\ [][Next]_vars

===============================================================================

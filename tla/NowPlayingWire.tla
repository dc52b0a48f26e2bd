----------------------------- MODULE NowPlayingWire -----------------------------
(***************************************************************************)
(* The BMS2 snapshot format shared by the controller and the panel         *)
(* (now_playing.py).  A frame's header (size, count, CRC) stands for the   *)
(* content it describes, its payload for one piece of it.                  *)
(***************************************************************************)
EXTENDS Naturals

CONSTANTS
    Contents,   \* what a snapshot may say
    Count,      \* the fragments each content takes
    Modulus     \* values of the wire sequence (65536)

ASSUME ContentAssumption == Contents # {} /\ Count \in [Contents -> Nat \ {0}]
ASSUME ModulusAssumption == Modulus \in Nat \ {0}

AnyContent == CHOOSE c \in Contents : TRUE

(* "number" counts the snapshots of a session; the wire has its low bits. *)
WireSeq(number) == number % Modulus

(* "delay" and "born" are the ages of the frame and of its snapshot. *)
Fragment(session, number, content, index, born) ==
    [session |-> session, number |-> number, content |-> content, index |-> index,
     delay |-> 0, born |-> born]
=============================================================================

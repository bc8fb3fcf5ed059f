--------------------------- MODULE FallbackChains ---------------------------
(***************************************************************************)
(* What inject_outbounds promises: the outbounds selected for a user are   *)
(* handed out in order, each one once, the first one in the main           *)
(* configuration and the others by up to four in reserve configurations,   *)
(* until none is left; or nothing is handed out at all.                    *)
(***************************************************************************)
EXTENDS Naturals, Sequences

CONSTANTS Selections,   \* sequences of outbounds a user may be given
          MainSize, ReserveSize

VARIABLES left,     \* the outbounds yet to be handed out
          served    \* the outbounds of each configuration so far

vars == <<left, served>>

Init == left \in Selections /\ served = <<>>

\* The next configuration takes n outbounds, or what is left of them.
Take(n) ==
    LET m == IF n < Len(left) THEN n ELSE Len(left)
    IN  /\ left # <<>>
        /\ served' = Append(served, SubSeq(left, 1, m))
        /\ left' = SubSeq(left, m + 1, Len(left))

TakeMain == served = <<>> /\ Take(MainSize)

TakeReserve == served # <<>> /\ Take(ReserveSize)

\* The upstream answer is passed on as it is.
GiveUp == served = <<>> /\ left # <<>> /\ left' = <<>> /\ UNCHANGED served

Next == TakeMain \/ TakeReserve \/ GiveUp

Spec == Init /\ [][Next]_vars

Finishes == <>(left = <<>>)

=============================================================================

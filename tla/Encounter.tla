----------------------------- MODULE Encounter ------------------------------
(***************************************************************************)
(* What a fight promises (rules/combat): the player and the foes move in   *)
(* turn, a move of the player fells at most one foe, and a fight ends in   *)
(* victory only when every foe of it has been felled, in defeat only by    *)
(* the foes' move, and in flight only by the player's.  The game master    *)
(* may begin a fight, also in place of the one going on, or call it off,   *)
(* while it is not the foes' move.                                         *)
(***************************************************************************)
EXTENDS FiniteSets

VARIABLES side,    \* who moves next, "none" outside a fight
          foes,    \* those still standing
          ending   \* how the last fight ended, "none" before the first end

vars == <<side, foes, ending>>

Init == side = "none" /\ foes = {} /\ ending = "none"

Begin(who) ==
    /\ side \in {"none", "player"} /\ who # {}
    /\ side' = "player" /\ foes' = who /\ ending' = "none"

CallOff ==
    /\ side \in {"none", "player"}
    /\ side' = "none" /\ foes' = {} /\ ending' = "called"

Move == side = "player" /\ side' = "foes" /\ UNCHANGED <<foes, ending>>

Fell(f) ==
    /\ side = "player" /\ f \in foes
    /\ foes' = foes \ {f}
    /\ \/ foes' # {} /\ side' = "foes" /\ UNCHANGED ending
       \/ foes' = {} /\ side' = "none" /\ ending' = "victory"

Flee == side = "player" /\ side' = "none" /\ foes' = {} /\ ending' = "fled"

Answer == side = "foes" /\ side' = "player" /\ UNCHANGED <<foes, ending>>

Overcome == side = "foes" /\ side' = "none" /\ foes' = {} /\ ending' = "defeat"

\* A fight's foes are any non-empty set of new names.
Next == \/ CallOff \/ Move \/ Flee \/ Answer \/ Overcome
        \/ side' = "player" /\ Begin(foes')
        \/ \E f \in foes : Fell(f)

Spec == Init /\ [][Next]_vars
FairSpec == Spec /\ WF_vars(Answer \/ Overcome)
=============================================================================

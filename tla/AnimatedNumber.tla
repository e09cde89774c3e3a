--------------------------- MODULE AnimatedNumber ---------------------------
(***************************************************************************)
(* The figures of the balance header, src/frontend/src/useAnimatedNumber.js*)
(* A change of the target starts an animation from the number at which the *)
(* last one ended; the next change cancels it.  A value that is neither    *)
(* its start nor its end is "between".                                     *)
(***************************************************************************)
EXTENDS Naturals

CONSTANTS
    Targets, Between,
    MaxChanges     \* bound: changes of the target

VARIABLE ui

\* `frame` is the animation's next frame: none, the first, or a later one.
Init ==
    \E t \in Targets :
        ui = [target |-> t, value |-> t, from |-> t, to |-> t, frame |-> "none", changes |-> 0,
              \* what an observer knows: the target came back to where a cancelled
              \* animation had started
              cameBack |-> FALSE]

TypeOK ==
    /\ ui.target \in Targets /\ ui.from \in Targets /\ ui.to \in Targets
    /\ ui.value \in Targets \cup {Between}
    /\ ui.frame \in {"none", "first", "later"}
    /\ (ui.frame # "none" => ui.to = ui.target /\ ui.from # ui.to)

\* The target changes: the effect's cleanup, and the effect.
Retarget(t) ==
    /\ t # ui.target /\ ui.changes < MaxChanges
    /\ ui' = IF t = ui.from
             THEN [ui EXCEPT !.target = t, !.changes = @ + 1, !.frame = "none",
                             !.cameBack = (ui.frame # "none")]
             ELSE [ui EXCEPT !.target = t, !.changes = @ + 1, !.frame = "first", !.to = t,
                             !.cameBack = FALSE]

\* tick, before the time is over.
Tick ==
    /\ ui.frame # "none"
    /\ ui' = [ui EXCEPT !.frame = "later", !.value = Between]

\* Mutant: the next animation starts where this one did.
LastTickOnly ==
    /\ ui.frame # "none"
    /\ ui' = [ui EXCEPT !.frame = "none", !.value = ui.to]

\* The last tick.
LastTick ==
    /\ ui.frame # "none"
    /\ ui' = [ui EXCEPT !.frame = "none", !.value = ui.to, !.from = ui.to]

Next == (\E t \in Targets : Retarget(t)) \/ Tick \/ LastTick

-----------------------------------------------------------------------------
(* What makes it correct                                                    *)

\* When nothing moves the figure is the target, unless the target came back, during
\* an animation, to where that had started: then it stops where it is.
StopsAtTheTarget == ui.frame = "none" /\ ~ui.cameBack => ui.value = ui.target
=============================================================================

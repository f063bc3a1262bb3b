---------------------------- MODULE BundleStore ----------------------------
(***************************************************************************)
(* What a bundle on disk promises to whoever loads it: a register that     *)
(* holds the last result saved, as long as that save ran to its end.       *)
(* While a save is under way, and after one that was cut short, the        *)
(* register promises nothing.  A load takes time; one that a save overlaps *)
(* promises nothing either.                                                *)
(***************************************************************************)
CONSTANTS Result,                  \* the results that may be saved
          Empty, Damaged, Idle,    \* three values that are not results
          NotFound                 \* the outcome of a load that fails

VARIABLES store,       \* Empty, Damaged or a result
          saving,      \* the result being saved; Idle if none is
          load,        \* what the running load is bound to; Idle if none runs
          answer       \* the outcome of the last load

vars == <<store, saving, load, answer>>

Init == store = Empty /\ saving = Idle /\ load = Idle /\ answer = NotFound

(* A save spoils the register until it ends, and every running load. *)
BeginSave(r) == /\ saving = Idle
                /\ saving' = r
                /\ store' = Damaged
                /\ load' = IF load = Idle THEN Idle ELSE Damaged
                /\ UNCHANGED answer

EndSave == /\ saving # Idle
           /\ store' = saving
           /\ saving' = Idle
           /\ UNCHANGED <<load, answer>>

CutShort == /\ saving' = Idle
            /\ UNCHANGED <<store, load, answer>>

BeginLoad == /\ load = Idle
             /\ store # Empty
             /\ load' = store
             /\ UNCHANGED <<store, saving, answer>>

EndLoad == /\ load # Idle
           /\ load' = Idle
           /\ load \in Result => answer' = load
           /\ UNCHANGED <<store, saving>>

(* A load may fail at once, but not when there is a result to be had. *)
FailLoad == /\ load = Idle
            /\ store \notin Result
            /\ answer' = NotFound
            /\ UNCHANGED <<store, saving, load>>

Next == \/ \E r \in Result : BeginSave(r)
        \/ EndSave \/ CutShort
        \/ BeginLoad \/ EndLoad \/ FailLoad

Spec == Init /\ [][Next]_vars
=============================================================================

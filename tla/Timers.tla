------------------------------- MODULE Timers -------------------------------
(***************************************************************************)
(* What the scheduler promises its callers: an armed event fires once,     *)
(* unless it is cancelled first, and a cancelled event does not fire.      *)
(* When an event fires is left open.  Scheduler.tla implements it.         *)
(***************************************************************************)
CONSTANT Events

VARIABLES
  armed,            \* added, neither fired nor cancelled
  fired             \* handed to the dispatcher and not yet run

vars == <<armed, fired>>

Init == armed = {} /\ fired = {}

Arm(e) == /\ e \notin armed \cup fired
          /\ armed' = armed \cup {e}
          /\ UNCHANGED fired

Cancel(e) == /\ e \in armed
             /\ armed' = armed \ {e}
             /\ UNCHANGED fired

Fire(e) == /\ e \in armed
           /\ armed' = armed \ {e}
           /\ fired' = fired \cup {e}

Done(e) == /\ e \in fired
           /\ fired' = fired \ {e}
           /\ UNCHANGED armed

\* The server goes down: nothing that is armed will fire.
Abandon == /\ armed' = {}
           /\ UNCHANGED fired

Next == \/ \E e \in Events : Arm(e) \/ Cancel(e) \/ Fire(e) \/ Done(e)
        \/ Abandon

SafeSpec == Init /\ [][Next]_vars

\* An event that stays armed fires.
Spec == SafeSpec /\ \A e \in Events : WF_vars(Fire(e))
=============================================================================

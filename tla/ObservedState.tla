---------------------------- MODULE ObservedState ----------------------------
(***************************************************************************)
(* What observing a resource promises (RFC 7641, as SensorResource uses     *)
(* it): what an observer is told is the state of the resource at the moment *)
(* of telling, never an earlier one.  Changes may go untold; triggers,      *)
(* tasks and the ends of the program do not appear here.                    *)
(***************************************************************************)
EXTENDS Integers

CONSTANTS
    Resources,   \* the observable resources
    Observers    \* pairs of a resource and a client

VARIABLES
    current,     \* the version of each resource
    view         \* the version each observer was told last, or Unobserved

Unobserved == -1

Init ==
    /\ current = [r \in Resources |-> 0]
    /\ view = [o \in Observers |-> Unobserved]

Change(r) ==
    /\ current' = [current EXCEPT ![r] = @ + 1]
    /\ UNCHANGED view

\* Some observers are told, others give up.
Tell ==
    /\ view' \in [Observers -> Int]
    /\ \A o \in Observers : view'[o] \in {view[o], current[o[1]], Unobserved}
    /\ UNCHANGED current

Next == (\E r \in Resources : Change(r)) \/ Tell

Spec == Init /\ [][Next]_<<current, view>>
=============================================================================

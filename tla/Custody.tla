------------------------------- MODULE Custody -------------------------------
(***************************************************************************)
(* What a chain of MQTT programs promises of each message it is given: it   *)
(* stays with somebody until it has been dealt with.  The sender may lose   *)
(* it; a broker that has taken it over may not.  Crashes, repetitions and   *)
(* lost connections do not appear here: they must not be visible.           *)
(***************************************************************************)
CONSTANTS
    Items,   \* the messages
    Entry    \* who is given a message first: "sender" or "broker"

VARIABLE at  \* who has each message

Stages == {"new", "sender", "broker", "done", "lost"}

\* A message changes hands, any number of them at a time.
Forward ==
    {<<"new", Entry>>, <<"sender", "broker">>, <<"sender", "lost">>, <<"broker", "done">>}

Init == at = [i \in Items |-> "new"]

Next ==
    /\ at' \in [Items -> Stages]
    /\ \A i \in Items : at'[i] = at[i] \/ <<at[i], at'[i]>> \in Forward

Spec == Init /\ [][Next]_at
=============================================================================

----------------------------- MODULE AtomicFile -----------------------------
(***************************************************************************)
(* What a state file promises its users: it is replaced as a whole.  A     *)
(* committed value is visible at once, and until the directory has been    *)
(* synchronised a power loss may take the file back to any value it had    *)
(* since the last synchronisation, but never to anything else.             *)
(***************************************************************************)
CONSTANTS Values, Initial

VARIABLES
    current,    \* what a reader of the file sees
    possible    \* what it may see after a power loss

Init == current \in Initial /\ possible = {current}

Commit(v) == current' = v /\ possible' = possible \cup {v}

Confirm == possible' = {current} /\ UNCHANGED current

PowerLoss == current' \in possible /\ possible' = {current'}

Next == (\E v \in Values : Commit(v)) \/ Confirm \/ PowerLoss

Spec == Init /\ [][Next]_<<current, possible>>
=============================================================================

----------------------------- MODULE LeaseMutex -----------------------------
(***************************************************************************)
(* What a leased lock promises to the code that takes it: at most one      *)
(* client at a time is protected, and a client becomes protected only      *)
(* while nobody is.  Protection ends when the client gives it up or when   *)
(* its lease runs out; which of the two is not visible here.               *)
(***************************************************************************)
CONSTANT Client      \* the clients that contend for the lock

VARIABLE holder      \* the protected clients: {} or one of them

Init == holder = {}

\* A client becomes protected; nobody else is.
Enter(c) == holder = {} /\ holder' = {c}

\* The protected client gives up, crashes, or its lease runs out.
Leave(c) == holder = {c} /\ holder' = {}

Next == \E c \in Client : Enter(c) \/ Leave(c)

Spec == Init /\ [][Next]_holder
=============================================================================

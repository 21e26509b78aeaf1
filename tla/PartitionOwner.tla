--------------------------- MODULE PartitionOwner ---------------------------
(***************************************************************************)
(* What the share scripts promise about the data partition: it has at most *)
(* one user, it goes from one user to the other through a state in which   *)
(* it has none, and a host gets it only from a console that is up.  Only a *)
(* restart of the console may cut a hand-over short.                       *)
(***************************************************************************)
VARIABLES
    users,      \* who uses the file system: a subset of {"console", "host"}
    up          \* the console has finished its start scripts

Init == users \in {{}, {"console"}} /\ up = FALSE

Acquire(u) ==
    /\ users = {} /\ users' = {u}
    /\ u = "host" => up
    /\ UNCHANGED up

Release == users # {} /\ users' = {} /\ UNCHANGED up

Started == ~up /\ up' = TRUE /\ UNCHANGED users

Restart == users' \in {{}, {"console"}} /\ up' = FALSE

Next ==
    \/ \E u \in {"console", "host"} : Acquire(u)
    \/ Release \/ Started \/ Restart

Spec == Init /\ [][Next]_<<users, up>>
=============================================================================

---------------------------- MODULE CoreLifecycle ----------------------------
(***************************************************************************)
(* What the process supervisor promises, without its locks and steps: at   *)
(* most one core of the panel's own serves, the supervisor launches one    *)
(* only while the core is wanted, and nothing is left serving at the       *)
(* moment the wish for a core is withdrawn.                                *)
(***************************************************************************)
CONSTANT Core     \* process identities

VARIABLES
    live,        \* the panel's cores that serve and were not asked to exit
    wanted,      \* the administrator wants a core
    supervisor   \* an automatic restart is going on

vars == <<live, wanted, supervisor>>

Init == live = {} /\ wanted = FALSE /\ supervisor = FALSE

Launch(p) ==
    /\ live = {}
    /\ supervisor => wanted
    /\ live' = {p}
    /\ UNCHANGED <<wanted, supervisor>>

Exit(p) ==
    /\ live' = live \ {p}
    /\ UNCHANGED <<wanted, supervisor>>

\* A start took effect; the supervisor may hand over in the same step.
Want ==
    /\ supervisor => wanted
    /\ wanted' = TRUE
    /\ supervisor' \in {supervisor, FALSE}
    /\ UNCHANGED live

Withdraw ==
    /\ wanted' = FALSE
    /\ live' = {}
    /\ supervisor' \in {supervisor, FALSE}

\* The supervisor takes over after a crash, or hands over.
Supervise ==
    /\ supervisor' = ~supervisor
    /\ UNCHANGED <<live, wanted>>

\* The panel dies and forgets its cores.
PanelRestart == live' = {} /\ wanted' = FALSE /\ supervisor' = FALSE

Next ==
    \/ \E p \in Core : Launch(p) \/ Exit(p)
    \/ Want \/ Withdraw \/ Supervise \/ PanelRestart

Spec == Init /\ [][Next]_vars
=============================================================================

-------------------------- MODULE ConfigTransaction --------------------------
(***************************************************************************)
(* What an apply promises, without its steps: a transaction on the file    *)
(* the core is configured by.  It commits with the candidate in the file   *)
(* and in the core, or aborts with what it found in both, or it is torn: a *)
(* write failed while it undid, or the panel died.  Whoever launches the   *)
(* core, before, during or after it, launches what the file says.  Others  *)
(* may replace the file at any time, and spoil the transaction they meet.  *)
(***************************************************************************)
CONSTANTS
    Content,    \* what a file may say
    None        \* no file, or nothing runs

VARIABLES
    file,       \* the content on disk
    running,    \* the content the core has loaded
    txn,        \* the transaction: open, and from what to what
    outcome,    \* of the last one
    torn        \* one was left half-way or the file of a running core was
                \* replaced, and none has committed since

vars == <<file, running, txn, outcome, torn>>

Closed == [open |-> FALSE, before |-> None, candidate |-> None, spoilt |-> FALSE]
Close(how) == txn.open /\ txn' = Closed /\ outcome' = how

Init ==
    /\ file \in Content \cup {None}
    /\ running = None /\ txn = Closed /\ outcome = "none" /\ torn = FALSE

Begin(c) ==
    /\ ~txn.open
    /\ txn' = [open |-> TRUE, before |-> file, candidate |-> c, spoilt |-> FALSE]
    /\ outcome' = "none"
    /\ UNCHANGED <<file, running, torn>>

\* The file moves to the candidate or back.
Move ==
    /\ txn.open
    /\ file' \in {txn.before, txn.candidate}
    /\ UNCHANGED <<running, txn, outcome, torn>>

Commit ==
    /\ ~txn.spoilt => file = txn.candidate /\ running = txn.candidate
    /\ Close("ok") /\ torn' = txn.spoilt
    /\ UNCHANGED <<file, running>>

Abort ==
    /\ Close("failed")
    /\ file' = txn.before /\ running' \in {txn.before, None}
    /\ UNCHANGED torn

Tear ==
    /\ Close("failed") /\ torn' = TRUE
    /\ file' \in {file, txn.before} /\ running' \in {running, file', None}

Overwrite ==
    /\ file' \in Content
    /\ txn' = [txn EXCEPT !.spoilt = txn.open]
    /\ torn' = (torn \/ txn.open \/ running # None)
    /\ UNCHANGED <<running, outcome>>

Launch ==
    /\ file # None
    /\ running' = file
    /\ UNCHANGED <<file, txn, outcome, torn>>

Exit ==
    /\ running' = None
    /\ UNCHANGED <<file, txn, outcome, torn>>

\* The panel dies with its core.  Only where nothing was written is nothing torn.
Die ==
    /\ running' = None /\ txn' = Closed /\ outcome' = "none"
    /\ torn' \in {torn, txn.open}
    /\ torn => torn'
    /\ txn.open /\ file # txn.before => torn'
    /\ UNCHANGED file

Next ==
    \/ \E c \in Content : Begin(c)
    \/ Move \/ Commit \/ Abort \/ Tear
    \/ Overwrite
    \/ Launch \/ Exit \/ Die

Spec == Init /\ [][Next]_vars
=============================================================================

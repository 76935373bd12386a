--------------------------- MODULE AtomicPublish ---------------------------
(***************************************************************************)
(* What the output package promises to somebody who watches the results    *)
(* root: a result directory appears whole, in one step, or not at all, and *)
(* a result whose scan reported success never changes and never goes away. *)
(* Only a power loss before that report may take an unreported result      *)
(* back.                                                                   *)
(***************************************************************************)
CONSTANTS Scans,        \* the scans that share one output path
          Nothing       \* the value of result while the output path is absent

VARIABLES result,       \* what the output path shows: Nothing or a view
          reported      \* a scan has reported success

View(owner, whole) == [owner |-> owner, whole |-> whole]

Init == result = Nothing /\ reported = FALSE

\* A scan makes its result visible, whole.
Publish(p) == /\ result = Nothing
              /\ result' = View(p, TRUE)
              /\ UNCHANGED reported

\* The scan whose result is visible reports success.
Report == /\ result # Nothing
          /\ ~reported
          /\ reported' = TRUE
          /\ UNCHANGED result

\* A power loss reverts a rename that was never made durable.
Lose == /\ result # Nothing
        /\ ~reported
        /\ result' = Nothing
        /\ UNCHANGED reported

Next == (\E p \in Scans : Publish(p)) \/ Report \/ Lose

Spec == Init /\ [][Next]_<<result, reported>>
=============================================================================

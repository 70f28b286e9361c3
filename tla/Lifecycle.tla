----------------------------- MODULE Lifecycle ------------------------------
(***************************************************************************)
(* What a poller may see in Verification.status (core/enums.py,            *)
(* VerificationStatus): every delivery of the job publishes RUNNING before *)
(* it publishes an end, and QUEUED never returns.                          *)
(***************************************************************************)
VARIABLE status

Final == {"COMPLETED", "FAILED"}

Init == status = "QUEUED"

Begin == status' = "RUNNING"
End == status = "RUNNING" /\ status' \in Final

Next == Begin \/ End

Spec == Init /\ [][Next]_status
=============================================================================

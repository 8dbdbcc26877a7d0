--------------------------- MODULE MCAnomalyHandler ---------------------------
(* AnomalyHandler with three anomalies, the rules of the under-voltage that      *)
(* answer two of them, and a log of a few records.                            *)
EXTENDS AnomalyHandler, TLC

Codes == {"UVC_LEVEL1", "UVC_RETURN", "MM_NOT_IN_PROGRESS"}

R(code, cond, threshold) == [code |-> code, cond |-> cond, threshold |-> threshold]

UVCRules ==
    0 :> R("UVC_LEVEL1", "AH_SINGLE", 0) @@ 1 :> R("UVC_RETURN", "AH_SINGLE", 0)

Registrations ==
    {[id |-> 1, code |-> "UVC_LEVEL1", cond |-> "AH_SINGLE", threshold |-> 0],
     [id |-> 2, code |-> "MM_NOT_IN_PROGRESS", cond |-> "AH_CONTINUOUS", threshold |-> 1],
     [id |-> 2, code |-> "MM_NOT_IN_PROGRESS", cond |-> "AH_CUMULATE", threshold |-> 2]}
===============================================================================

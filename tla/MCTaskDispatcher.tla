--------------------------- MODULE MCTaskDispatcher ---------------------------
(* Instances of TaskDispatcher for TLC: cycles of a few steps, a counter that   *)
(* turns over after a few cycles, and task lists of two tasks.                 *)
EXTENDS TaskDispatcher, TLC

At(t, name) == [time |-> t, task |-> name]

(* Two task lists with different steps: an exchange shows in the cycle. *)
TaskLists ==
    1 :> <<At(0, "TLM_GENERATOR"), At(1, "TL_CMD")>>
 @@ 2 :> <<At(1, "TL_CMD"), At(2, "EPS_UPDATE")>>

AllOperations ==
    [op : {"SET_TASK_LIST_ID"}, arg : {1, 2}]
    \cup [op : {"CLEAR_BLOCK", "REGISTER", "ACTIVATE_BLOCK"}, arg : {1}]
    \cup [op : {"SET_OBC_TIME"}, arg : {0, 3}]

AnyCycle == 0..(OBCT_MAX_CYCLE - 1)
===============================================================================

-------------------------- MODULE MCTL_CmdDispatcher --------------------------
(* Instances of TL_CmdDispatcher for TLC: times of 4 bits (bytes of 1 bit),     *)
(* blocks that fit and do not fit, collide with the timeline and with          *)
(* themselves, are inactive, empty, and deploy another block.                  *)
EXTENDS TL_CmdDispatcher, TLC

Cmd(t)       == [time |-> t, code |-> "NOP", arg |-> 0]
DeployOf(t, b) == [time |-> t, code |-> "DEPLOY_BLOCK", arg |-> b]

Blocks ==
    1 :> [is_active |-> TRUE,  cmds |-> <<Cmd(1), Cmd(3)>>]
 @@ 2 :> [is_active |-> TRUE,  cmds |-> <<Cmd(0), Cmd(0), Cmd(2)>>]
 @@ 3 :> [is_active |-> TRUE,  cmds |-> <<Cmd(2), DeployOf(1, 1)>>]
 @@ 4 :> [is_active |-> FALSE, cmds |-> <<Cmd(1)>>]
 @@ 5 :> [is_active |-> TRUE,  cmds |-> <<>>]

OneCode == {"NOP"}

RegisteredCmds == {[code |-> "NOP", arg |-> 0], [code |-> "DEPLOY_BLOCK", arg |-> 2]}
Cycles == {1, 2, 4, 5, 6, 8, 10, 11}

Now(code, arg) == [code |-> code, arg |-> arg]

ImmediateCmds == {Now("DEPLOY_BLOCK", b) : b \in 1..5}
            \cup {Now("CLEAR_TIMELINE_AT", t) : t \in 0..15}
            \cup {Now("CLEAR_ALL_TIMELINE", 0)}
            \cup {Now("SET_OBC_TIME", t) : t \in {0, 6, 11}}

(* The cycles EveryCommandLeaves is checked for. *)
WatchedLive == {1, 4}
===============================================================================

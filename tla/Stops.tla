------------------------------- MODULE Stops --------------------------------
(***************************************************************************)
(* The two stops of the risk stack, each under its own callers: the kill   *)
(* switch under any losses, drawdowns and activations, and the daily P&L   *)
(* engine under any marks and takes.  The two share no state (RiskStack    *)
(* composes them over one account), so a behaviour follows one of them     *)
(* while the other stands still.                                           *)
(***************************************************************************)
EXTENDS KillSwitch, DailyPnl

VARIABLE followed    \* the stop this behaviour follows

stops == <<followed, switchVars, dayVars>>

StopsInit ==
    /\ followed \in {"switch", "day"}
    /\ SwitchInit
    /\ DayInit
    /\ followed = "switch" => engine = NewEngine(CHOOSE e \in Equities : TRUE)

FollowSwitch ==
    /\ followed = "switch"
    /\ SwitchNext
    /\ UNCHANGED <<followed, dayVars>>

FollowDay ==
    /\ followed = "day"
    /\ DayNext
    /\ UNCHANGED <<followed, switchVars>>

StopsNext == FollowSwitch \/ FollowDay

\* Bars keep arriving and each one checks the switch (KillSwitch!SwitchFairness).
StopsSpec ==
    /\ StopsInit /\ [][StopsNext]_stops
    /\ WF_stops(FollowSwitch /\ Elapse)
    /\ WF_stops(FollowSwitch /\ CheckSwitch)
=============================================================================

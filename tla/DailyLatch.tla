----------------------------- MODULE DailyLatch -----------------------------
(***************************************************************************)
(* What the daily P&L engine promises to the loop that drives it: within a *)
(* trading day restriction only grows, entering the stopped state raises   *)
(* one request to flatten the book, and the request is handed out once.    *)
(* DailyPnl implements this module.                                        *)
(***************************************************************************)
EXTENDS Integers

VARIABLES
    day,       \* the trading day the latch is in
    level,     \* how restricted trading is, 0 (free) to 3 (stopped)
    request    \* "none" until the stop, "raised" until taken, then "taken"

latchVars == <<day, level, request>>

Stopped == 3

LatchInit ==
    /\ day = -1
    /\ level = 0
    /\ request = "none"

\* Marking the account can only tighten the day, and the stop raises the
\* request.
Tighten(from, was) ==
    \E l \in from..Stopped :
        /\ level' = l
        /\ request' = IF l = Stopped /\ was = "none" THEN "raised" ELSE was

Mark ==
    /\ Tighten(level, request)
    /\ UNCHANGED day

\* A later trading day starts unrestricted, with no request.
Rollover ==
    /\ day' > day
    /\ Tighten(0, "none")

Take ==
    /\ request = "raised"
    /\ request' = "taken"
    /\ UNCHANGED <<day, level>>

LatchNext == Mark \/ Rollover \/ Take

LatchSpec == LatchInit /\ [][LatchNext]_latchVars
=============================================================================

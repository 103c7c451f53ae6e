------------------------------- MODULE Cockpit -------------------------------
(***************************************************************************)
(* Sessions of the GUI that start and stop the trading daemon: the Trading *)
(* panel with its preflight gates, the confirmation of real-money trading, *)
(* the Config panel, the OAuth worker that binds a broker account, and the *)
(* snapshot thread.  One thread draws the panels, so a click is one step;  *)
(* the daemon, the worker and the snapshot thread run beside it.           *)
(*                                                                         *)
(* Abstractions.  The limits of the form are "kill switch set or not"; a   *)
(* run is young until DRY_RUN_UNLOCK_SECS have passed since its start; log *)
(* tails, mascot and layout are left out.  Every tab but Config and        *)
(* Trading is "other".  External: a daemon may end at any time.            *)
(***************************************************************************)
EXTENDS Naturals, FiniteSets

CONSTANT MaxOrphans     \* bound: daemons running without a handle

Modes == {"dry", "demo", "live"}
Kinds == {"demo", "live"}

VARIABLES
    tab,        \* the selected tab
    shared,     \* SharedState: status, firm, risk, limits, acked
    panel,      \* TradingPanel: mode, run, child, clock, dryDone, queued
    confirm,    \* pending_live_confirm: the confirmation is on screen
    auth,       \* the OAuth flow
    creds,      \* the accounts with an .env file: .env.demo, .env.live
    orphans     \* the modes of daemons that run without a handle

cockpit == <<tab, shared, panel, confirm, auth, creds, orphans>>

NoChild == [mode |-> "none", alive |-> FALSE]

\* TradingPanel::default and SharedState::default: everything locked.
NewPanel ==
    [mode |-> "dry", run |-> "Stopped", child |-> NoChild, clock |-> "none",
     dryDone |-> FALSE, queued |-> FALSE]

NewShared(limits) ==
    [status |-> "off", firm |-> FALSE, risk |-> FALSE, limits |-> limits, acked |-> FALSE]

Connected == shared.status # "off"

\* gates_for
Gates(mode) ==
    /\ Connected /\ shared.firm
    /\ mode \in {"demo", "live"} => shared.risk /\ shared.limits
    /\ mode = "live" => panel.dryDone /\ shared.status = "live"

-----------------------------------------------------------------------------
(* The Trading panel.                                                      *)

Alive(child) == IF child.alive THEN {child.mode} ELSE {}

\* spawn_child: a new daemon takes the handle's place, whatever the handle
\* held; or there is no firm or no program, and the panel reads Stopped.
Spawn(before, mode) ==
    \/ /\ shared.firm
       /\ Cardinality(orphans \cup Alive(before.child)) <= MaxOrphans
       /\ panel' = [before EXCEPT !.run = "Running", !.clock = "young",
                                  !.child = [mode |-> mode, alive |-> TRUE]]
       /\ orphans' = orphans \cup Alive(before.child)
    \/ /\ panel' = [before EXCEPT !.run = "Stopped"]
       /\ UNCHANGED orphans

\* mark_run_ended: a dry run that started long enough ago unlocks LIVE.
Ended(before) ==
    [before EXCEPT !.run = "Stopped", !.clock = "none",
                   !.dryDone = @ \/ (before.mode = "dry" /\ before.clock = "old")]

OnTrading == tab = "trading"

\* Mutation of SelectMode: the radio buttons are never disabled.
SelectModeAnyTime ==
    /\ OnTrading
    /\ \E m \in Modes : panel' = [panel EXCEPT !.mode = m]
    /\ UNCHANGED <<tab, shared, confirm, auth, creds, orphans>>

\* The radio buttons, disabled unless the panel reads Stopped.
SelectMode ==
    /\ OnTrading /\ panel.run = "Stopped"
    /\ \E m \in Modes : panel' = [panel EXCEPT !.mode = m]
    /\ UNCHANGED <<tab, shared, confirm, auth, creds, orphans>>

\* handle_start: a LIVE start waits for the confirmation.
Start ==
    /\ OnTrading /\ panel.run = "Stopped" /\ Gates(panel.mode)
    /\ IF panel.mode = "live"
       THEN panel' = [panel EXCEPT !.queued = TRUE] /\ UNCHANGED orphans
       ELSE Spawn(panel, panel.mode)
    /\ UNCHANGED <<tab, shared, confirm, auth, creds>>

\* stop_child: kill and reap.
Stop ==
    /\ OnTrading /\ panel.run = "Running"
    /\ panel' = Ended([panel EXCEPT !.child = NoChild])
    /\ UNCHANGED <<tab, shared, confirm, auth, creds, orphans>>

\* pump_events, only while the Trading tab is drawn: the daemon has ended.
Pump ==
    /\ OnTrading /\ panel.run = "Running"
    /\ panel.child # NoChild /\ ~panel.child.alive
    /\ panel' = Ended([panel EXCEPT !.child = NoChild])
    /\ UNCHANGED <<tab, shared, confirm, auth, creds, orphans>>

\* The daemon of the handle ends by itself, or one without a handle does.
DaemonEnds ==
    /\ \/ /\ panel.child.alive
          /\ panel' = [panel EXCEPT !.child.alive = FALSE]
          /\ UNCHANGED orphans
       \/ /\ \E m \in orphans : orphans' = orphans \ {m}
          /\ UNCHANGED panel
    /\ UNCHANGED <<tab, shared, confirm, auth, creds>>

\* DRY_RUN_UNLOCK_SECS have passed since the start.
Elapse ==
    /\ panel.clock = "young"
    /\ panel' = [panel EXCEPT !.clock = "old"]
    /\ UNCHANGED <<tab, shared, confirm, auth, creds, orphans>>

-----------------------------------------------------------------------------
(* The confirmation window: not modal, the panels under it stay usable.    *)

\* A frame raises it on the first sight of a live account and for a queued
\* LIVE start.
RaiseConfirm ==
    /\ ~confirm
    /\ panel.queued \/ (shared.status = "live" /\ ~shared.acked)
    /\ confirm' = TRUE
    /\ UNCHANGED <<tab, shared, panel, auth, creds, orphans>>

\* "I understand - proceed"; resume_after_confirm starts the queued run.
Proceed ==
    /\ confirm
    /\ confirm' = FALSE
    /\ shared' = [shared EXCEPT !.acked = TRUE]
    /\ IF panel.queued
       THEN Spawn([panel EXCEPT !.queued = FALSE], "live")
       ELSE UNCHANGED <<panel, orphans>>
    /\ UNCHANGED <<tab, auth, creds>>

\* "Cancel"; cancel_live_launch reverts the mode.
Cancel ==
    /\ confirm
    /\ confirm' = FALSE
    /\ panel' = IF panel.queued
                THEN [panel EXCEPT !.queued = FALSE, !.mode = "demo"]
                ELSE panel
    /\ UNCHANGED <<tab, shared, auth, creds, orphans>>

-----------------------------------------------------------------------------
(* The Config panel.                                                       *)

OnConfig == tab = "config"

Disconnect ==
    /\ OnConfig /\ Connected
    /\ shared' = [shared EXCEPT !.status = "off"]
    /\ UNCHANGED <<tab, panel, confirm, auth, creds, orphans>>

AcknowledgeRisk ==
    /\ OnConfig /\ ~shared.risk
    /\ shared' = [shared EXCEPT !.risk = TRUE]
    /\ UNCHANGED <<tab, panel, confirm, auth, creds, orphans>>

\* select_firm; a profile that does not load leaves the one before.
SelectFirm ==
    /\ OnConfig
    /\ shared' = [shared EXCEPT !.firm = TRUE]
    /\ UNCHANGED <<tab, panel, confirm, auth, creds, orphans>>

\* save_config: the form goes into memory, then to the file; the review is
\* withdrawn only when the file is written.
SaveConfig ==
    /\ OnConfig
    /\ \E limits, written \in BOOLEAN :
            shared' = [shared EXCEPT !.limits = limits, !.risk = @ /\ ~written]
    /\ UNCHANGED <<tab, panel, confirm, auth, creds, orphans>>

\* reload_config: whatever the file says now.
ReloadConfig ==
    /\ OnConfig
    /\ \E limits \in BOOLEAN : shared' = [shared EXCEPT !.limits = limits]
    /\ UNCHANGED <<tab, panel, confirm, auth, creds, orphans>>

\* start_auth, from the setup card, which a connected GUI does not show.
StartAuth ==
    /\ OnConfig /\ ~Connected /\ auth = "idle"
    /\ auth' = "waiting"
    /\ UNCHANGED <<tab, shared, panel, confirm, creds, orphans>>

\* run_oauth_flow in the worker: the browser's callback, the exchange of the
\* code and the list of accounts, or the first of them that fails.
WorkerAnswers ==
    /\ auth = "waiting"
    /\ auth' \in {"granted", "failed"}
    /\ UNCHANGED <<tab, shared, panel, confirm, creds, orphans>>

\* pump_auth, only while the Config tab is drawn.
PumpAuth ==
    /\ OnConfig /\ auth \in {"granted", "failed"}
    /\ auth' = IF auth = "granted" THEN "picking" ELSE "idle"
    /\ UNCHANGED <<tab, shared, panel, confirm, creds, orphans>>

\* Mutation of FinalizeAuth: the status does not wait for the file.
FinalizeUnsaved ==
    /\ OnConfig /\ ~Connected /\ auth = "picking"
    /\ \E kind \in Kinds, saved \in BOOLEAN :
        /\ creds' = IF saved THEN creds \cup {kind} ELSE creds
        /\ shared' = [shared EXCEPT !.status = kind]
        /\ auth' = "idle"
    /\ UNCHANGED <<tab, panel, confirm, orphans>>

\* finalize_auth: save the picked account and read Connected; a failed save
\* keeps the accounts for a retry, and an empty list drops them.
FinalizeAuth ==
    /\ OnConfig /\ ~Connected /\ auth = "picking"
    /\ \/ \E kind \in Kinds :
            /\ creds' = creds \cup {kind}
            /\ shared' = [shared EXCEPT !.status = kind]
            /\ auth' = "idle"
       \/ /\ auth' = "idle"
          /\ UNCHANGED <<creds, shared>>
    /\ UNCHANGED <<tab, panel, confirm, orphans>>

\* gadarah auth on a command line binds an account beside the GUI.
CliAuth ==
    /\ \E kind \in Kinds : creds' = creds \cup {kind}
    /\ UNCHANGED <<tab, shared, panel, confirm, auth, orphans>>

\* The account a daemon uses: its process reads .env.demo, then .env.live.
DaemonAccount ==
    IF "live" \in creds THEN "live" ELSE IF "demo" \in creds THEN "demo" ELSE "off"

-----------------------------------------------------------------------------
(* The session around the panels.                                          *)

\* A tab of the bar, or the Fix button of a red preflight row.
SelectTab ==
    /\ \E t \in {"trading", "config", "other"} : tab' = t
    /\ UNCHANGED <<shared, panel, confirm, auth, creds, orphans>>

\* The thread of --state-file: a snapshot of the live loop reads as a demo
\* connection, a file without its fields as none.
ApplySnapshot ==
    /\ \E status \in {"demo", "off"} : shared' = [shared EXCEPT !.status = status]
    /\ UNCHANGED <<tab, panel, confirm, auth, creds, orphans>>

\* The GUI ends and starts again; its daemon goes on.
Relaunch ==
    /\ Cardinality(orphans \cup Alive(panel.child)) <= MaxOrphans
    /\ orphans' = orphans \cup Alive(panel.child)
    /\ \E limits \in BOOLEAN : shared' = NewShared(limits)
    /\ tab' = "other" /\ panel' = NewPanel /\ confirm' = FALSE /\ auth' = "idle"
    /\ UNCHANGED creds

Init ==
    /\ tab = "other"
    /\ \E limits \in BOOLEAN : shared = NewShared(limits)
    /\ panel = NewPanel
    /\ confirm = FALSE /\ auth = "idle"
    /\ creds = {} /\ orphans = {}

TradingTab == SelectMode \/ Start \/ Stop \/ Pump

ConfigTab ==
    \/ Disconnect \/ AcknowledgeRisk \/ SelectFirm \/ SaveConfig \/ ReloadConfig
    \/ StartAuth \/ PumpAuth \/ FinalizeAuth

Next ==
    \/ TradingTab \/ ConfigTab
    \/ RaiseConfirm \/ Proceed \/ Cancel
    \/ SelectTab \/ Relaunch
    \/ DaemonEnds \/ Elapse \/ WorkerAnswers \/ CliAuth \/ ApplySnapshot

Spec == Init /\ [][Next]_cockpit

-----------------------------------------------------------------------------
(* Properties.                                                             *)

SharedState ==
    [status : {"off", "demo", "live"}, firm : BOOLEAN, risk : BOOLEAN,
     limits : BOOLEAN, acked : BOOLEAN]

Handles == [mode : Modes \cup {"none"}, alive : BOOLEAN]

TradingPanel ==
    [mode : Modes, run : {"Stopped", "Running"}, clock : {"none", "young", "old"},
     child : Handles, dryDone : BOOLEAN, queued : BOOLEAN]

\* Each variable of the cockpit stays in its domain.
TypeOK ==
    /\ tab \in {"trading", "config", "other"}
    /\ shared \in SharedState /\ panel \in TradingPanel
    /\ confirm \in BOOLEAN
    /\ auth \in {"idle", "waiting", "granted", "failed", "picking"}
    /\ creds \subseteq Kinds /\ orphans \subseteq Modes

\* A real-money daemon under the panel's handle was earned in this session:
\* by a dry run, by the user's consent to live trading, and by credentials
\* of a live account on disk.
LiveIsEarned ==
    panel.child.mode = "live" => panel.dryDone /\ shared.acked /\ "live" \in creds

\* LIVE is unlocked by a run whose daemon was started as a dry run, however
\* modes are selected, runs are confirmed and daemons are overwritten.
UnlockIsADryRun ==
    [][~panel.dryDone /\ panel'.dryDone => panel.child.mode = "dry"]_cockpit

(* What a comment or a text of the GUI says, and the program does not keep. *)

\* trading.rs:71-73: the dry run itself has lasted DRY_RUN_UNLOCK_SECS; the
\* clock runs on until the panel is drawn.
UnlockTimesTheRun ==
    [][panel.clock = "young" /\ panel'.clock = "old" => panel.child.alive]_cockpit

\* trading.rs:147-150 and the banner: the mode shown is the mode that runs.
ModeMatchesRun == panel.run = "Running" => panel.child.mode = panel.mode

\* The panel reads Stopped when nothing it started in this session runs.
StoppedMeansStopped == panel.run = "Stopped" => ~panel.child.alive

\* Within a session no running daemon loses its handle.
NoDaemonLost == [][~Relaunch => orphans' \subseteq orphans]_cockpit

\* trading.rs:101: LIVE starts with all its gates green.
LaunchIsGated ==
    [][panel'.child.mode = "live" /\ panel.child.mode # "live" => Gates("live")]_cockpit

\* state.rs:345-347: limits that change after a review ask for another.
ReviewStands == [][shared.risk /\ shared'.limits # shared.limits => ~shared'.risk]_cockpit

\* config_tab.rs:881-883: a daemon started now uses the account just bound.
BoundIsUsed ==
    [][FinalizeAuth /\ shared' # shared => DaemonAccount' = shared'.status]_cockpit
=============================================================================

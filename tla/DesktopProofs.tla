---------------------------- MODULE DesktopProofs ----------------------------
(***************************************************************************)
(* What the desktop programs keep, for every bound.                        *)
(*                                                                         *)
(* The cockpit and real money.  Neither promise is inductive: a            *)
(* confirmation queued before a change of mode starts a LIVE daemon later, *)
(* so that what a queued start has earned, and what a running clock says   *)
(* of its daemon, are part of the invariant.                               *)
(*                                                                         *)
(* The installer and the user's disk.  That a reported success means whole *)
(* programs is known only at the last step of the worker: the invariant    *)
(* says, at each step before, which programs are whole already, which are  *)
(* still to do, and that one that was done and is not there has been taken *)
(* by the self-delete shim of an earlier uninstall.                        *)
(*                                                                         *)
(* The Oracle tab.  Settings in the tab, in the file, in the worker and on *)
(* the way to it are sound, unless they descend from a file that was cut   *)
(* and parses: what a removal takes from the lists of entries and of       *)
(* endpoints is shown by the least list it could fail on.                  *)
(***************************************************************************)
EXTENDS MCDesktop, FiniteSetTheorems, WellFoundedInduction, SequenceTheorems, TLAPS

-----------------------------------------------------------------------------
(* The cockpit.                                                            *)


\* A live status has credentials behind it.
StatusIsBound == shared.status = "live" => "live" \in creds

\* A LIVE start that waits has passed its gates once.
QueuedIsEarned == panel.queued => panel.dryDone /\ "live" \in creds

\* While LIVE is locked, the clock runs only over the daemon of the mode that
\* is selected.
ClockIsTheRun ==
    ~panel.dryDone /\ (panel.clock # "none" \/ panel.run = "Running")
        => panel.run = "Running" /\ panel.child.mode = panel.mode

\* A daemon runs in one of the three modes.
HandleIsDaemon == panel.child.alive => panel.child.mode \in Modes

Inv ==
    /\ TypeOK /\ HandleIsDaemon
    /\ StatusIsBound /\ QueuedIsEarned /\ LiveIsEarned /\ ClockIsTheRun

\* What spawn_child does to the panel, field by field.
LEMMA SpawnFields ==
    ASSUME NEW before \in TradingPanel, NEW mode \in Modes, Spawn(before, mode)
    PROVE  /\ panel' \in TradingPanel
           /\ panel'.mode = before.mode
           /\ panel'.dryDone = before.dryDone /\ panel'.queued = before.queued
           /\ \/ panel'.run = "Running" /\ panel'.child.mode = mode
              \/ /\ panel'.run = "Stopped"
                 /\ panel'.clock = before.clock /\ panel'.child = before.child
<1>1. CASE panel' = [before EXCEPT !.run = "Running", !.clock = "young",
                                   !.child = [mode |-> mode, alive |-> TRUE]]
  BY <1>1 DEF TradingPanel, Handles
<1>2. CASE panel' = [before EXCEPT !.run = "Stopped"]
  BY <1>2 DEF TradingPanel
<1> QED
  BY <1>1, <1>2 DEF Spawn

\* Daemons without a handle are daemons of the three modes.
LEMMA SpawnOrphans ==
    ASSUME NEW before \in TradingPanel, NEW mode, Spawn(before, mode),
           before.child.alive => before.child.mode \in Modes, orphans \subseteq Modes
    PROVE  orphans' \subseteq Modes
  BY DEF Spawn, Alive

\* What mark_run_ended leaves of a panel whose handle is dropped.
LEMMA EndedFields ==
    ASSUME NEW p \in TradingPanel
    PROVE  LET e == Ended([p EXCEPT !.child = NoChild])
           IN  /\ e \in TradingPanel
               /\ e.run = "Stopped" /\ e.clock = "none" /\ e.child = NoChild
               /\ e.queued = p.queued
               /\ e.dryDone <=> p.dryDone \/ (p.mode = "dry" /\ p.clock = "old")
<1> DEFINE q == [p EXCEPT !.child = NoChild]
<1>1. /\ q \in TradingPanel /\ q.child = NoChild /\ q.queued = p.queued
      /\ q.dryDone = p.dryDone /\ q.mode = p.mode /\ q.clock = p.clock
  BY DEF TradingPanel, Handles, NoChild
<1> QED
  BY <1>1 DEF Ended, TradingPanel

LEMMA InitInv == Init => Inv
<1> SUFFICES ASSUME Init PROVE Inv
  OBVIOUS
<1>1. PICK limits \in BOOLEAN : shared = NewShared(limits)
  BY DEF Init
<1>2. shared \in SharedState /\ shared.status = "off"
  BY <1>1 DEF SharedState, NewShared
<1>3. /\ panel \in TradingPanel /\ panel.child.mode = "none" /\ ~panel.child.alive
      /\ ~panel.queued /\ panel.clock = "none" /\ panel.run = "Stopped"
  BY DEF Init, NewPanel, NoChild, TradingPanel, Handles, Modes
<1> QED
  BY <1>2, <1>3
  DEF Init, Inv, TypeOK, HandleIsDaemon, StatusIsBound, QueuedIsEarned, LiveIsEarned,
      ClockIsTheRun

\* A new daemon keeps the invariant if its mode has earned it, and, while LIVE
\* is locked, if it is the mode selected.
LEMMA SpawnKeeps ==
    ASSUME Inv, NEW before \in TradingPanel, NEW mode \in Modes, Spawn(before, mode),
           before.child = panel.child,
           shared' \in SharedState, shared'.status = shared.status,
           shared.acked => shared'.acked,
           UNCHANGED <<tab, auth, creds>>, confirm' \in BOOLEAN,
           before.queued => before.dryDone /\ "live" \in creds,
           mode = "live" => before.dryDone /\ shared'.acked /\ "live" \in creds,
           panel.dryDone => before.dryDone,
           ~before.dryDone => mode = before.mode /\ before.clock = "none"
    PROVE  Inv'
<1>1. orphans' \subseteq Modes
  BY SpawnOrphans DEF Inv, TypeOK, HandleIsDaemon
<1>2. TypeOK'
  BY <1>1, SpawnFields DEF Inv, TypeOK
<1>3. HandleIsDaemon' /\ StatusIsBound'
  BY SpawnFields DEF Inv, HandleIsDaemon, StatusIsBound
<1>4. QueuedIsEarned' /\ LiveIsEarned' /\ ClockIsTheRun'
  BY SpawnFields DEF Inv, QueuedIsEarned, LiveIsEarned, ClockIsTheRun
<1> QED
  BY <1>2, <1>3, <1>4 DEF Inv

\* The steps that leave the panel alone keep the invariant if the status stays
\* bound and consent, credentials and daemons are not taken back.
LEMMA BesideThePanel ==
    ASSUME Inv, UNCHANGED panel, shared' \in SharedState,
           shared'.status = "live" => "live" \in creds',
           shared.acked => shared'.acked,
           creds \subseteq creds', creds' \subseteq Kinds, orphans' \subseteq Modes,
           tab' \in {"trading", "config", "other"}, confirm' \in BOOLEAN,
           auth' \in {"idle", "waiting", "granted", "failed", "picking"}
    PROVE  Inv'
  BY DEF Inv, TypeOK, HandleIsDaemon, StatusIsBound, QueuedIsEarned, LiveIsEarned, ClockIsTheRun

\* Every step of the GUI, its worker, the daemons and the command line keeps
\* the invariant.
LEMMA NextInv == Inv /\ [Next]_cockpit => Inv'
<1> SUFFICES ASSUME Inv, [Next]_cockpit
             PROVE  Inv'
  OBVIOUS
<1>1. TypeOK /\ panel \in TradingPanel /\ shared \in SharedState
  BY DEF Inv, TypeOK
<1>2. CASE UNCHANGED cockpit
  BY <1>1, <1>2, BesideThePanel DEF cockpit, Inv, TypeOK, StatusIsBound
<1>3. CASE SelectMode
  <2>1. PICK m \in Modes : panel' = [panel EXCEPT !.mode = m]
    BY <1>3 DEF SelectMode
  <2>2. /\ panel' \in TradingPanel /\ panel'.child = panel.child
        /\ panel'.dryDone = panel.dryDone /\ panel'.queued = panel.queued
        /\ panel'.run = panel.run /\ panel'.clock = panel.clock
    BY <1>1, <2>1 DEF TradingPanel
  <2>3. panel.run = "Stopped" /\ UNCHANGED <<tab, shared, confirm, auth, creds, orphans>>
    BY <1>3 DEF SelectMode
  <2> QED
    BY <2>2, <2>3 DEF Inv, TypeOK, HandleIsDaemon, StatusIsBound, QueuedIsEarned, LiveIsEarned,
                      ClockIsTheRun
<1>4. CASE Start /\ panel.mode = "live"
  <2>1. panel' = [panel EXCEPT !.queued = TRUE]
        /\ UNCHANGED <<tab, shared, confirm, auth, creds, orphans>>
    BY <1>4 DEF Start
  <2>2. panel.dryDone /\ "live" \in creds
    BY <1>4 DEF Start, Gates, Inv, StatusIsBound
  <2>3. /\ panel' \in TradingPanel /\ panel'.child = panel.child
        /\ panel'.dryDone = panel.dryDone
    BY <1>1, <2>1 DEF TradingPanel
  <2> QED
    BY <2>1, <2>2, <2>3 DEF Inv, TypeOK, HandleIsDaemon, StatusIsBound, QueuedIsEarned,
                            LiveIsEarned, ClockIsTheRun
<1>5. CASE Start /\ panel.mode # "live"
  <2>1. Spawn(panel, panel.mode) /\ UNCHANGED <<tab, shared, confirm, auth, creds>>
    BY <1>5 DEF Start
  <2>2. ~panel.dryDone => panel.clock = "none"
    BY <1>5 DEF Start, Inv, ClockIsTheRun
  <2>3. /\ panel.mode \in Modes /\ panel.mode # "live"
        /\ shared' = shared /\ confirm' \in BOOLEAN
        /\ panel.queued => panel.dryDone /\ "live" \in creds
    BY <1>1, <1>5, <2>1 DEF TradingPanel, TypeOK, Inv, QueuedIsEarned
  <2> QED
    BY <1>1, <2>1, <2>2, <2>3, SpawnKeeps
<1>6. CASE Stop \/ Pump
  <2>1. panel' = Ended([panel EXCEPT !.child = NoChild])
        /\ UNCHANGED <<tab, shared, confirm, auth, creds, orphans>>
    BY <1>6 DEF Stop, Pump
  <2>2. /\ panel' \in TradingPanel /\ panel'.run = "Stopped" /\ panel'.clock = "none"
        /\ panel'.child.mode = "none" /\ ~panel'.child.alive
        /\ panel'.queued = panel.queued /\ (panel.dryDone => panel'.dryDone)
    BY <1>1, <2>1, EndedFields DEF NoChild
  <2> QED
    BY <2>1, <2>2 DEF Inv, TypeOK, HandleIsDaemon, StatusIsBound, QueuedIsEarned, LiveIsEarned,
                      ClockIsTheRun
<1>7. CASE DaemonEnds
  <2>1. CASE panel' = [panel EXCEPT !.child.alive = FALSE] /\ orphans' = orphans
    <3>1. /\ panel' \in TradingPanel /\ panel'.child.mode = panel.child.mode
          /\ ~panel'.child.alive
          /\ panel'.mode = panel.mode /\ panel'.run = panel.run
          /\ panel'.clock = panel.clock /\ panel'.queued = panel.queued
          /\ panel'.dryDone = panel.dryDone
      BY <1>1, <2>1 DEF TradingPanel, Handles
    <3> QED
      BY <1>7, <2>1, <3>1
      DEF DaemonEnds, Inv, TypeOK, HandleIsDaemon, StatusIsBound, QueuedIsEarned, LiveIsEarned,
          ClockIsTheRun
  <2>2. CASE panel' = panel /\ orphans' \subseteq orphans
    BY <1>1, <1>7, <2>2, BesideThePanel DEF DaemonEnds, Inv, TypeOK, StatusIsBound
  <2> QED
    BY <1>7, <2>1, <2>2 DEF DaemonEnds
<1>8. CASE Elapse
  <2>1. panel.clock = "young" /\ panel' = [panel EXCEPT !.clock = "old"]
        /\ UNCHANGED <<tab, shared, confirm, auth, creds, orphans>>
    BY <1>8 DEF Elapse
  <2>2. /\ panel' \in TradingPanel /\ panel'.child = panel.child
        /\ panel'.mode = panel.mode /\ panel'.run = panel.run
        /\ panel'.queued = panel.queued /\ panel'.dryDone = panel.dryDone
    BY <1>1, <2>1 DEF TradingPanel
  <2> QED
    BY <2>1, <2>2 DEF Inv, TypeOK, HandleIsDaemon, StatusIsBound, QueuedIsEarned, LiveIsEarned,
                      ClockIsTheRun
<1>9. CASE Proceed /\ panel.queued
  <2> DEFINE before == [panel EXCEPT !.queued = FALSE]
  <2>1. /\ before \in TradingPanel /\ before.child = panel.child /\ ~before.queued
        /\ before.dryDone = panel.dryDone
    BY <1>1 DEF TradingPanel
  <2>2. /\ Spawn(before, "live")
        /\ shared' = [shared EXCEPT !.acked = TRUE]
        /\ UNCHANGED <<tab, auth, creds>> /\ confirm' = FALSE
    BY <1>9 DEF Proceed
  <2>3. shared' \in SharedState /\ shared'.status = shared.status /\ shared'.acked
    BY <1>1, <2>2 DEF SharedState
  <2>4. panel.dryDone /\ "live" \in creds /\ "live" \in Modes
    BY <1>9 DEF Inv, QueuedIsEarned, Modes
  <2> HIDE DEF before
  <2> QED
    BY <2>1, <2>2, <2>3, <2>4, SpawnKeeps
<1>10. CASE Proceed /\ ~panel.queued
  <2>1. shared' = [shared EXCEPT !.acked = TRUE]
        /\ UNCHANGED <<tab, panel, auth, creds, orphans>> /\ confirm' = FALSE
    BY <1>10 DEF Proceed
  <2>2. shared' \in SharedState /\ shared'.status = shared.status /\ shared'.acked
    BY <1>1, <2>1 DEF SharedState
  <2> QED
    BY <1>1, <2>1, <2>2, BesideThePanel DEF Inv, TypeOK, StatusIsBound
<1>11. CASE Cancel
  <2>1. /\ confirm' = FALSE /\ UNCHANGED <<tab, shared, auth, creds, orphans>>
        /\ \/ panel.queued /\ panel' = [panel EXCEPT !.queued = FALSE, !.mode = "demo"]
           \/ panel' = panel
    BY <1>11 DEF Cancel
  <2>2. CASE panel' = panel
    BY <1>1, <2>1, <2>2, BesideThePanel DEF Inv, TypeOK, StatusIsBound
  <2>3. CASE panel.queued /\ panel' = [panel EXCEPT !.queued = FALSE, !.mode = "demo"]
    <3>1. /\ panel' \in TradingPanel /\ panel'.child = panel.child
          /\ panel'.dryDone = panel.dryDone /\ ~panel'.queued
      BY <1>1, <2>3 DEF TradingPanel, Modes
    <3>2. panel.dryDone
      BY <2>3 DEF Inv, QueuedIsEarned
    <3> QED
      BY <2>1, <3>1, <3>2 DEF Inv, TypeOK, HandleIsDaemon, StatusIsBound, QueuedIsEarned,
                              LiveIsEarned, ClockIsTheRun
  <2> QED
    BY <2>1, <2>2, <2>3
<1>12. CASE Disconnect \/ ApplySnapshot
  <2>1. PICK status \in {"demo", "off"} : shared' = [shared EXCEPT !.status = status]
    BY <1>12 DEF Disconnect, ApplySnapshot
  <2>2. /\ shared' \in SharedState /\ shared'.status # "live"
        /\ shared'.acked = shared.acked
    BY <1>1, <2>1 DEF SharedState
  <2> QED
    BY <1>1, <1>12, <2>2, BesideThePanel DEF Disconnect, ApplySnapshot, TypeOK
<1>13. CASE AcknowledgeRisk \/ SelectFirm \/ SaveConfig \/ ReloadConfig
  <2>1. /\ shared' \in SharedState /\ shared'.status = shared.status
        /\ shared'.acked = shared.acked
    <3>1. CASE AcknowledgeRisk \/ SelectFirm
      BY <1>1, <3>1 DEF AcknowledgeRisk, SelectFirm, SharedState
    <3>2. CASE SaveConfig
      <4>1. PICK limits, written \in BOOLEAN :
                shared' = [shared EXCEPT !.limits = limits, !.risk = @ /\ ~written]
        BY <3>2 DEF SaveConfig
      <4> QED
        BY <1>1, <4>1 DEF SharedState
    <3>3. CASE ReloadConfig
      BY <1>1, <3>3 DEF ReloadConfig, SharedState
    <3> QED
      BY <1>13, <3>1, <3>2, <3>3
  <2>2. UNCHANGED <<tab, panel, confirm, auth, creds, orphans>>
    BY <1>13 DEF AcknowledgeRisk, SelectFirm, SaveConfig, ReloadConfig
  <2> QED
    BY <1>1, <2>1, <2>2, BesideThePanel DEF Inv, TypeOK, StatusIsBound
<1>14. CASE FinalizeAuth
  <2>1. CASE UNCHANGED <<creds, shared>>
    BY <1>1, <1>14, <2>1, BesideThePanel DEF FinalizeAuth, Inv, TypeOK, StatusIsBound
  <2>2. CASE \E kind \in Kinds :
                /\ creds' = creds \cup {kind}
                /\ shared' = [shared EXCEPT !.status = kind]
    <3>1. PICK kind \in Kinds :
                /\ creds' = creds \cup {kind}
                /\ shared' = [shared EXCEPT !.status = kind]
      BY <2>2
    <3>2. shared' \in SharedState /\ shared'.status = kind /\ shared'.acked = shared.acked
      BY <1>1, <3>1 DEF SharedState, Kinds
    <3> QED
      BY <1>1, <1>14, <3>1, <3>2, BesideThePanel DEF FinalizeAuth, TypeOK
  <2> QED
    BY <1>14, <2>1, <2>2 DEF FinalizeAuth
<1>15. CASE RaiseConfirm \/ SelectTab \/ StartAuth \/ WorkerAnswers \/ PumpAuth \/ CliAuth
  BY <1>1, <1>15, BesideThePanel
  DEF RaiseConfirm, SelectTab, StartAuth, WorkerAnswers, PumpAuth, CliAuth, Inv, TypeOK,
      StatusIsBound
<1>16. CASE Relaunch
  <2>1. PICK limits \in BOOLEAN : shared' = NewShared(limits)
    BY <1>16 DEF Relaunch
  <2>2. shared' \in SharedState /\ shared'.status = "off"
    BY <2>1 DEF SharedState, NewShared
  <2>3. /\ panel' \in TradingPanel /\ panel'.child.mode = "none" /\ ~panel'.child.alive
        /\ ~panel'.queued /\ panel'.clock = "none" /\ panel'.run = "Stopped"
    BY <1>16 DEF Relaunch, NewPanel, NoChild, TradingPanel, Handles, Modes
  <2>4. orphans' \subseteq Modes
    BY <1>1, <1>16 DEF Relaunch, Alive, Inv, TypeOK, HandleIsDaemon
  <2> QED
    BY <1>16, <2>2, <2>3, <2>4
    DEF Relaunch, Inv, TypeOK, HandleIsDaemon, StatusIsBound, QueuedIsEarned, LiveIsEarned,
        ClockIsTheRun
<1> QED
  BY <1>2, <1>3, <1>4, <1>5, <1>6, <1>7, <1>8, <1>9, <1>10, <1>11, <1>12, <1>13, <1>14,
     <1>15, <1>16 DEF Next, TradingTab, ConfigTab

LEMMA Invariance == Spec => []Inv
  BY InitInv, NextInv, PTL DEF Spec

\* Every reachable cockpit is well typed.
THEOREM TypeCorrect == Spec => []TypeOK
  BY Invariance, PTL DEF Inv

\* No order of clicks, confirmations, snapshots, bindings and dying daemons
\* puts a real-money daemon under the handle that the session did not earn
\* (trading.rs:101, main.rs:743).
THEOREM RealMoneyIsEarned == Spec => []LiveIsEarned
  BY Invariance, PTL DEF Inv

\* LIVE is unlocked by the end of a daemon that was started as a dry run
\* (trading.rs:559).
THEOREM OnlyADryRunUnlocks == Spec => UnlockIsADryRun
<1>1. Inv /\ [Next]_cockpit
        => [~panel.dryDone /\ panel'.dryDone => panel.child.mode = "dry"]_cockpit
  <2> SUFFICES ASSUME Inv, Next, ~panel.dryDone, panel'.dryDone
               PROVE  panel.child.mode = "dry"
    OBVIOUS
  <2>0. panel \in TradingPanel
    BY DEF Inv, TypeOK
  <2>1. CASE Stop \/ Pump
    <3>1. panel' = Ended([panel EXCEPT !.child = NoChild]) /\ panel.run = "Running"
      BY <2>1 DEF Stop, Pump
    <3>2. panel.mode = "dry"
      BY <2>0, <3>1, EndedFields
    <3> QED
      BY <3>1, <3>2 DEF Inv, ClockIsTheRun
  <2>2. CASE Start
    <3>1. CASE panel.mode = "live"
      BY <2>0, <2>2, <3>1 DEF Start, TradingPanel
    <3>2. CASE panel.mode # "live"
      <4>1. Spawn(panel, panel.mode) /\ panel.mode \in Modes
        BY <2>0, <2>2, <3>2 DEF Start, TradingPanel
      <4> QED
        BY <2>0, <4>1, SpawnFields
    <3> QED
      BY <3>1, <3>2
  <2>3. CASE Proceed
    <3>1. CASE panel.queued
      BY <3>1 DEF Inv, QueuedIsEarned
    <3>2. CASE ~panel.queued
      BY <2>3, <3>2 DEF Proceed
    <3> QED
      BY <3>1, <3>2
  <2>4. CASE SelectMode \/ DaemonEnds \/ Elapse \/ Cancel
    BY <2>0, <2>4 DEF SelectMode, DaemonEnds, Elapse, Cancel, TradingPanel
  <2>5. CASE Relaunch
    BY <2>5 DEF Relaunch, NewPanel
  <2>6. CASE ConfigTab
    BY <2>6 DEF ConfigTab, Disconnect, AcknowledgeRisk, SelectFirm, SaveConfig, ReloadConfig,
                StartAuth, PumpAuth, FinalizeAuth
  <2>7. CASE RaiseConfirm \/ SelectTab \/ WorkerAnswers \/ CliAuth \/ ApplySnapshot
    BY <2>7 DEF RaiseConfirm, SelectTab, WorkerAnswers, CliAuth, ApplySnapshot
  <2> QED
    BY <2>1, <2>2, <2>3, <2>4, <2>5, <2>6, <2>7 DEF Next, TradingTab
<1> QED
  BY <1>1, Invariance, PTL DEF Spec, UnlockIsADryRun

-----------------------------------------------------------------------------
(* The installer.                                                          *)

Unpacks == wiz.mode \in {"install", "update"}

\* The worker is at work from the Install tab on, and has an outcome only when
\* it has ended; a wizard that is closed has none.
OutcomeIsLast ==
    /\ wiz.mode = "closed" => wiz.outcome = "none"
    /\ wiz.outcome # "none" => wiz.step = "idle"
    /\ wiz.outcome # "none" \/ wiz.step # "idle" => wiz.tab >= 4

\* The worker unpacks the payload and nothing else.
TodoIsPayload ==
    Unpacks /\ wiz.step \in {"stop", "extract", "create", "write"} =>
        wiz.todo \in Seq(Programs \cup InConfig)

\* There is a file to create or write, and the uninstaller walks the entries of
\* the directory, not the files under config.
TodoFits ==
    /\ wiz.step \in {"create", "write"} => wiz.todo # <<>>
    /\ wiz.step = "delete" => wiz.todo \in Seq((Files \ InConfig) \cup {"config"})

\* A program that is gone since its file was created, by a shim.
Swept(f) == disk[f] = Absent /\ f \in shim.swept

\* The file that is written is there, or a shim has taken it.
WritingOrSwept ==
    Unpacks /\ wiz.step = "write" /\ Head(wiz.todo) \in Programs =>
        disk[Head(wiz.todo)] # Absent \/ Swept(Head(wiz.todo))

\* What the release has of a program: it is on disk, whole, or swept.
Current(f) == disk[f] = wiz.release \/ Swept(f)

\* While the worker unpacks, each program is whole or still to do.
WholeOrToDo ==
    Unpacks /\ wiz.step \in {"stop", "extract", "create", "write"} =>
        \A f \in Programs : Current(f) \/ \E i \in DOMAIN wiz.todo : wiz.todo[i] = f

\* After that each program is whole.
UnpackedIsWhole ==
    Unpacks /\ wiz.step \in {"copy", "links", "record", "ollama", "final"} =>
        \A f \in Programs : Current(f)

InstallerInv ==
    /\ InstallerTypeOK /\ OutcomeIsLast
    /\ TodoIsPayload /\ TodoFits /\ WritingOrSwept
    /\ WholeOrToDo /\ UnpackedIsWhole /\ CompletedIsWhole

LEMMA FiveTabs == DOMAIN Tabs = 1..5
  BY DEF Tabs

\* A wizard that has just been opened, and none.
LEMMA NewWizard ==
    ASSUME NEW mode \in {"closed", "install", "update", "uninstall"},
           NEW release \in Releases \cup {Absent},
           NEW inside \in BOOLEAN, NEW child \in BOOLEAN
    PROVE  LET w == Opened(mode, release, inside, child)
           IN  /\ w \in WizardState /\ w.step = "idle" /\ w.outcome = "none"
               /\ w.mode = mode /\ w.child = child /\ w.tab = 1
  BY FiveTabs DEF Opened, WizardState, Steps

LEMMA NoWizard ==
    /\ Closed \in WizardState
    /\ Closed.step = "idle" /\ Closed.outcome = "none" /\ Closed.mode = "closed"
<1> DEFINE w == Opened("closed", Absent, FALSE, FALSE)
<1>1. /\ w \in WizardState /\ w.step = "idle" /\ w.outcome = "none" /\ w.mode = "closed"
  BY FiveTabs DEF Opened, WizardState, Steps, Absent
<1>2. Closed = [w EXCEPT !.accepted = FALSE]
  BY DEF Closed
<1> HIDE DEF w
<1> QED
  BY <1>1, <1>2 DEF WizardState

\* What a step of the worker and a click change of a wizard, field by field.
SameRun(w, v) == w.mode = v.mode /\ w.release = v.release
SameWork(w, v) == SameRun(w, v) /\ w.step = v.step /\ w.todo = v.todo /\ w.outcome = v.outcome

LEMMA TabSet ==
    ASSUME NEW w \in WizardState, NEW t \in 1..5
    PROVE  LET v == [w EXCEPT !.tab = t]
           IN  v \in WizardState /\ v.tab = t /\ SameWork(v, w)
  BY FiveTabs DEF WizardState, SameRun, SameWork

LEMMA BoxTicked ==
    ASSUME NEW w \in WizardState, NEW b \in BOOLEAN, NEW v,
           \/ v = [w EXCEPT !.accepted = b]
           \/ v = [w EXCEPT !.confirmed = b]
           \/ v = [w EXCEPT !.keep = b]
           \/ v = [w EXCEPT !.child = b]
           \/ v = [w EXCEPT !.error = b]
    PROVE  v \in WizardState /\ v.tab = w.tab /\ SameWork(v, w)
<1>1. CASE v = [w EXCEPT !.accepted = b]
  BY <1>1 DEF WizardState, SameRun, SameWork
<1>2. CASE v = [w EXCEPT !.confirmed = b]
  BY <1>2 DEF WizardState, SameRun, SameWork
<1>3. CASE v = [w EXCEPT !.keep = b]
  BY <1>3 DEF WizardState, SameRun, SameWork
<1>6. CASE v = [w EXCEPT !.child = b]
  BY <1>6 DEF WizardState, SameRun, SameWork
<1>7. CASE v = [w EXCEPT !.error = b]
  BY <1>7 DEF WizardState, SameRun, SameWork
<1> QED
  BY <1>1, <1>2, <1>3, <1>6, <1>7

LEMMA StepSet ==
    ASSUME NEW w \in WizardState, NEW step \in Steps
    PROVE  LET v == [w EXCEPT !.step = step]
           IN  /\ v \in WizardState /\ v.step = step /\ v.tab = w.tab /\ SameRun(v, w)
               /\ v.todo = w.todo /\ v.outcome = w.outcome
  BY DEF WizardState, SameRun

LEMMA TodoSet ==
    ASSUME NEW w \in WizardState, NEW todo \in Seq(Files \cup {"config"})
    PROVE  LET v == [w EXCEPT !.todo = todo]
           IN  /\ v \in WizardState /\ v.todo = todo /\ v.tab = w.tab /\ SameRun(v, w)
               /\ v.step = w.step /\ v.outcome = w.outcome
  BY DEF WizardState, SameRun

LEMMA InstallerInitInv == InstallerInit => InstallerInv
<1> SUFFICES ASSUME InstallerInit PROVE InstallerInv
  OBVIOUS
<1>1. /\ wiz \in WizardState
      /\ wiz.step = "idle" /\ wiz.outcome = "none" /\ wiz.mode = "closed"
  BY NoWizard DEF InstallerInit
<1>2. published \in Releases /\ runs \in 0..MaxRuns /\ cached \in Releases \cup {Absent}
  BY InstallerAssumption DEF InstallerInit, Releases
<1>3. disk \in [Files -> Releases \cup {Absent, Torn, Own}]
  <2>1. 1 \in Releases
    BY InstallerAssumption DEF Releases
  <2> QED
    BY <2>1 DEF InstallerInit
<1>4. InstallerTypeOK
  BY <1>1, <1>2, <1>3 DEF InstallerInit, InstallerTypeOK
<1>5. OutcomeIsLast /\ TodoFits
  BY <1>1 DEF OutcomeIsLast, TodoFits
<1>6. TodoIsPayload /\ WritingOrSwept /\ WholeOrToDo /\ UnpackedIsWhole
  BY <1>1 DEF TodoIsPayload, WritingOrSwept, WholeOrToDo, UnpackedIsWhole, Unpacks
<1>7. CompletedIsWhole
  BY <1>1 DEF CompletedIsWhole
<1> QED
  BY <1>4, <1>5, <1>6, <1>7 DEF InstallerInv

\* A step after which the wizard is idle, without an outcome, keeps the
\* invariant.
LEMMA IdleKeeps ==
    ASSUME InstallerTypeOK',
           wiz'.step = "idle", wiz'.outcome = "none"
    PROVE  InstallerInv'
  BY DEF InstallerInv, OutcomeIsLast, TodoIsPayload, TodoFits, WritingOrSwept, WholeOrToDo,
         UnpackedIsWhole, CompletedIsWhole

\* A step that leaves the worker where it is and every program as it is keeps
\* the invariant.
LEMMA BesideTheWorker ==
    ASSUME InstallerInv, InstallerTypeOK', UNCHANGED shim,
           wiz'.mode = wiz.mode, wiz'.release = wiz.release, wiz'.step = wiz.step,
           wiz'.todo = wiz.todo, wiz'.outcome = wiz.outcome, wiz'.tab >= wiz.tab,
           wiz.mode # "uninstall" => \A f \in Programs : disk'[f] = disk[f]
    PROVE  InstallerInv'
<1>0. wiz.tab \in Int /\ wiz'.tab \in Int
  BY FiveTabs DEF InstallerInv, InstallerTypeOK, WizardState
<1>1. TodoIsPayload' /\ TodoFits'
  BY DEF InstallerInv, TodoIsPayload, TodoFits, Unpacks
<1>6. WritingOrSwept'
  BY DEF InstallerInv, WritingOrSwept, Swept, Unpacks
<1>2. OutcomeIsLast'
  BY <1>0 DEF InstallerInv, OutcomeIsLast
<1>3. ASSUME wiz.mode # "uninstall", NEW f \in Programs, Current(f) PROVE Current(f)'
  BY <1>3 DEF Current, Swept
<1>4. WholeOrToDo'
  <2> SUFFICES ASSUME Unpacks', wiz'.step \in {"stop", "extract", "create", "write"}, NEW f \in Programs
               PROVE  Current(f)' \/ \E i \in DOMAIN wiz'.todo : wiz'.todo[i] = f
    BY DEF WholeOrToDo
  <2>1. Current(f) \/ \E i \in DOMAIN wiz.todo : wiz.todo[i] = f
    BY DEF InstallerInv, WholeOrToDo, Unpacks
  <2> QED
    BY <2>1, <1>3 DEF Unpacks
<1>5. UnpackedIsWhole' /\ CompletedIsWhole'
  BY <1>3 DEF InstallerInv, UnpackedIsWhole, CompletedIsWhole, Unpacks, Current, Swept
<1> QED
  BY <1>1, <1>2, <1>4, <1>5, <1>6 DEF InstallerInv

\* A step of the uninstaller keeps the invariant.
LEMMA UninstallerKeeps ==
    ASSUME InstallerInv, InstallerTypeOK', wiz'.mode = "uninstall",
           wiz'.step \notin {"create", "write"},
           wiz'.step = "delete" => wiz'.todo \in Seq((Files \ InConfig) \cup {"config"}),
           wiz'.outcome # "none" => wiz'.step = "idle",
           wiz'.tab >= 4
    PROVE  InstallerInv'
  BY DEF InstallerInv, OutcomeIsLast, TodoIsPayload, TodoFits, WritingOrSwept, WholeOrToDo,
         UnpackedIsWhole, CompletedIsWhole, Unpacks


\* A step of the wizard's window keeps the invariant.
LEMMA WindowKeeps == InstallerInv /\ Window => InstallerInv'
<1> SUFFICES ASSUME InstallerInv, Window PROVE InstallerInv'
  OBVIOUS
<1>0. InstallerTypeOK /\ wiz \in WizardState /\ wiz.tab \in 1..5
  BY FiveTabs DEF InstallerInv, InstallerTypeOK, WizardState
<1>1. CASE Advance
  <2>1. /\ wiz.tab < 4 /\ UNCHANGED <<machine, github, shim, runs>>
        /\ wiz' = [wiz EXCEPT
                     !.tab = @ + 1,
                     !.step = IF Tabs[wiz.tab + 1] # "Install" THEN @
                              ELSE IF wiz.mode = "uninstall" THEN "stop" ELSE "prepare"]
    BY <1>0, <1>1 DEF Advance, CanAdvance, OnTab, Tabs
  <2>2. wiz.step = "idle" /\ wiz.outcome = "none"
    BY <1>0, <2>1 DEF InstallerInv, OutcomeIsLast
  <2>a. wiz.tab = 3 <=> Tabs[wiz.tab + 1] = "Install"
    BY <1>0, <2>1 DEF Tabs
  <2> DEFINE step == IF wiz.tab # 3 THEN "idle"
                     ELSE IF wiz.mode = "uninstall" THEN "stop" ELSE "prepare"
             v == [wiz EXCEPT !.tab = wiz.tab + 1]
  <2>b. wiz' = [v EXCEPT !.step = step]
    BY <1>0, <2>1, <2>2, <2>a DEF WizardState
  <2>c. v \in WizardState /\ v.tab = wiz.tab + 1 /\ SameWork(v, wiz)
    BY <1>0, <2>1, TabSet, wiz.tab + 1 \in 1..5
  <2>d. step \in Steps /\ step \in {"idle", "stop", "prepare"}
    BY DEF Steps
  <2> HIDE DEF v
  <2>3. /\ wiz' \in WizardState /\ wiz'.tab = wiz.tab + 1
        /\ wiz'.mode = wiz.mode /\ wiz'.outcome = "none" /\ wiz'.step = step
    BY <2>2, <2>b, <2>c, <2>d, StepSet DEF SameRun, SameWork
  <2>4. InstallerTypeOK' 
    BY <1>0, <2>1, <2>3 DEF InstallerTypeOK, machine, github, InstallerInv
  <2>5. CASE wiz'.step = "idle"
    BY <2>3, <2>4, <2>5, IdleKeeps
  <2>6. CASE wiz'.step = "stop" /\ wiz'.mode = "uninstall" /\ wiz'.tab = 4
    BY <1>0, <2>3, <2>4, <2>6, UninstallerKeeps
  <2>7. CASE wiz'.step = "prepare" /\ wiz'.tab = 4
    BY <2>3, <2>4, <2>7
    DEF InstallerInv, OutcomeIsLast, TodoIsPayload, TodoFits, WritingOrSwept, WholeOrToDo,
        UnpackedIsWhole, CompletedIsWhole
  <2> QED
    BY <1>0, <2>1, <2>3, <2>5, <2>6, <2>7
<1>2. CASE Retreat
  <2>1. /\ wiz.tab \in 2..3 /\ UNCHANGED <<machine, github, shim, runs>>
        /\ wiz' = [wiz EXCEPT !.tab = @ - 1]
    BY <1>2 DEF Retreat
  <2>2. wiz.step = "idle" /\ wiz.outcome = "none"
    BY <1>0, <2>1 DEF InstallerInv, OutcomeIsLast
  <2>3. /\ wiz' \in WizardState /\ wiz'.mode = wiz.mode /\ wiz'.outcome = "none"
        /\ wiz'.step = "idle"
    BY <1>0, <2>1, <2>2, TabSet, wiz.tab - 1 \in 1..5 DEF SameRun, SameWork
  <2> QED
    BY <1>0, <2>1, <2>3, IdleKeeps DEF InstallerTypeOK, machine, github, InstallerInv
<1>3. CASE AcceptLicense \/ ConfirmUninstall
  <2>1. PICK box \in {"accepted", "confirmed", "keep"} :
            /\ wiz' = [wiz EXCEPT ![box] = ~@]
            /\ UNCHANGED <<machine, github, shim, runs>>
    BY <1>3 DEF AcceptLicense, ConfirmUninstall, Tick
  <2>2. wiz' \in WizardState /\ wiz'.tab = wiz.tab /\ SameWork(wiz', wiz)
    <3>1. \A bit : (~bit) \in BOOLEAN
      OBVIOUS
    <3>2. CASE box = "accepted"
      BY <1>0, <2>1, <3>1, <3>2, BoxTicked
    <3>5. CASE box = "confirmed"
      BY <1>0, <2>1, <3>1, <3>5, BoxTicked
    <3>6. CASE box = "keep"
      BY <1>0, <2>1, <3>1, <3>6, BoxTicked
    <3> QED
      BY <2>1, <3>2, <3>5, <3>6
  <2> QED
    BY <1>0, <2>1, <2>2, BesideTheWorker DEF InstallerTypeOK, machine, github, SameRun, SameWork
<1>4. CASE EndOfWork
  <2>1. /\ wiz.tab = 4 /\ UNCHANGED <<machine, github, shim, runs>>
        /\ wiz' = [Drained EXCEPT !.tab = @ + 1]
    BY <1>0, <1>4 DEF EndOfWork, OnTab, Tabs
  <2> DEFINE drained == Drained
  <2>2. drained \in WizardState /\ drained.tab = wiz.tab /\ SameWork(drained, wiz)
    BY <1>0, BoxTicked DEF Drained
  <2> HIDE DEF drained
  <2>3. wiz' = [drained EXCEPT !.tab = 5]
    BY <2>1, <2>2 DEF drained
  <2>4. wiz' \in WizardState /\ wiz'.tab = 5 /\ SameWork(wiz', drained)
    BY <2>2, <2>3, TabSet, 5 \in 1..5
  <2> QED
    BY <1>0, <2>1, <2>2, <2>4, BesideTheWorker
    DEF InstallerTypeOK, machine, github, SameRun, SameWork
<1>5. CASE CloseWizard \/ LaunchFromFinish
  <2>1. /\ wiz' = Closed /\ running' \subseteq running \cup {"gui"}
        /\ UNCHANGED <<disk, links, entry, github, shim, runs>>
    BY <1>5 DEF CloseWizard, LaunchFromFinish, machine
  <2>2. InstallerTypeOK' 
    BY <1>0, <2>1, NoWizard DEF InstallerTypeOK, github
  <2> QED
    BY <2>1, <2>2, NoWizard, IdleKeeps
<1> QED
  BY <1>1, <1>2, <1>3, <1>4, <1>5 DEF Window

\* The worker: what a step of an install knows of its wizard.
LEMMA AtInstallStep ==
    ASSUME InstallerInv, NEW step \in Steps \ {"idle"}, InstallerAt(step)
    PROVE  /\ wiz \in WizardState /\ Unpacks /\ wiz.step = step /\ wiz.tab >= 4
           /\ wiz.outcome = "none" /\ IsOpen
  BY DEF InstallerInv, InstallerTypeOK, WizardState, InstallerAt, At, IsOpen, Unpacks,
         OutcomeIsLast

LEMMA GotoFields ==
    ASSUME wiz \in WizardState, NEW step \in Steps, Goto(step)
    PROVE  /\ wiz' \in WizardState /\ wiz'.step = step /\ wiz'.tab = wiz.tab
           /\ SameRun(wiz', wiz) /\ wiz'.todo = wiz.todo /\ wiz'.outcome = wiz.outcome
<1> DEFINE v == [wiz EXCEPT !.step = step]
<1>1. /\ v \in WizardState /\ v.step = step /\ v.tab = wiz.tab /\ SameRun(v, wiz)
      /\ v.todo = wiz.todo /\ v.outcome = wiz.outcome
  BY StepSet
<1>2. wiz' = v
  BY DEF Goto
<1> HIDE DEF v
<1> QED
  BY <1>1, <1>2

LEMMA CreateFields ==
    ASSUME wiz \in WizardState, GotoCreate
    PROVE  /\ wiz' \in WizardState /\ wiz'.step = "create" /\ wiz'.tab = wiz.tab
           /\ SameRun(wiz', wiz) /\ wiz'.todo = wiz.todo /\ wiz'.outcome = wiz.outcome
           /\ wiz.mode = "update" /\ disk[Head(wiz.todo)] = Absent => wiz'.unseen
<1> DEFINE seen == wiz.mode = "update" /\ disk[Head(wiz.todo)] = Absent
<1>1. wiz' = [wiz EXCEPT !.step = "create", !.unseen = seen] /\ seen \in BOOLEAN
  BY DEF GotoCreate
<1>2. seen => seen = TRUE
  OBVIOUS
<1> HIDE DEF seen
<1>3. /\ wiz' \in WizardState /\ wiz'.step = "create" /\ wiz'.tab = wiz.tab
      /\ SameRun(wiz', wiz) /\ wiz'.todo = wiz.todo /\ wiz'.outcome = wiz.outcome
      /\ wiz'.unseen = seen
  BY <1>1 DEF WizardState, SameRun, Steps
<1> QED
  BY <1>2, <1>3 DEF seen

LEMMA EndFields ==
    ASSUME wiz \in WizardState, NEW outcome \in {"completed", "failed"}, End(outcome)
    PROVE  /\ wiz' \in WizardState /\ wiz'.step = "idle" /\ wiz'.outcome = outcome
           /\ wiz'.tab = wiz.tab /\ SameRun(wiz', wiz)
<1> DEFINE a == [wiz EXCEPT !.step = "idle"]
           b == [a EXCEPT !.todo = <<>>]
           c == [b EXCEPT !.outcome = outcome]
<1>0. wiz' = c
  BY DEF End, WizardState
<1>1. a \in WizardState /\ a.step = "idle" /\ a.tab = wiz.tab /\ SameRun(a, wiz)
  BY StepSet DEF Steps
<1> HIDE DEF a
<1>2. b \in WizardState /\ b.step = "idle" /\ b.tab = wiz.tab /\ SameRun(b, a)
  BY <1>1, TodoSet, <<>> \in Seq(Files \cup {"config"})
<1> HIDE DEF b
<1>3. /\ c \in WizardState /\ c.step = "idle" /\ c.outcome = outcome
      /\ c.tab = wiz.tab /\ SameRun(c, b)
  BY <1>2 DEF WizardState, SameRun
<1> HIDE DEF c
<1> QED
  BY <1>0, <1>1, <1>2, <1>3 DEF SameRun

\* A worker that ends keeps the invariant if, when it reports success, every
\* program is whole.
LEMMA EndKeeps ==
    ASSUME wiz \in WizardState, IsOpen, wiz.tab >= 4, NEW outcome \in {"completed", "failed"},
           End(outcome), InstallerTypeOK',
           outcome = "completed" /\ wiz.mode # "uninstall" => (\A f \in Programs : Current(f))',
           UNCHANGED disk
    PROVE  InstallerInv'
<1>1. /\ wiz'.step = "idle" /\ wiz'.outcome = outcome /\ wiz'.tab = wiz.tab
      /\ SameRun(wiz', wiz)
  BY EndFields
<1> QED
  BY <1>1 DEF InstallerInv, OutcomeIsLast, TodoIsPayload, TodoFits, WritingOrSwept, WholeOrToDo,
              UnpackedIsWhole, CompletedIsWhole, SameRun, Current, Swept, IsOpen

\* The worker's steps after the last file touch no program.
LEMMA LaterStepKeeps ==
    ASSUME InstallerInv, InstallerTypeOK',
           NEW from \in {"copy", "links", "record", "ollama"}, InstallerAt(from),
           NEW to \in {"links", "record", "ollama", "final"}, Goto(to),
           UNCHANGED shim, \A f \in Programs : disk'[f] = disk[f]
    PROVE  InstallerInv'
<1>1. /\ wiz \in WizardState /\ Unpacks /\ wiz.step = from /\ wiz.tab >= 4
      /\ wiz.outcome = "none"
  BY AtInstallStep DEF Steps
<1>a. to \in Steps
  BY DEF Steps
<1>2. /\ wiz'.step = to /\ wiz'.tab = wiz.tab /\ SameRun(wiz', wiz)
      /\ wiz'.outcome = wiz.outcome
  BY <1>1, <1>a, GotoFields
<1>3. \A f \in Programs : Current(f)'
  BY <1>1, <1>2 DEF InstallerInv, UnpackedIsWhole, Current, Swept, SameRun
<1> QED
  BY <1>1, <1>2, <1>3
  DEF InstallerInv, OutcomeIsLast, TodoIsPayload, TodoFits, WritingOrSwept, WholeOrToDo,
      UnpackedIsWhole, CompletedIsWhole

\* The kills of taskkill: programs end, and with the GUI the wizard it
\* started.
LEMMA TaskkillFields ==
    ASSUME InstallerTypeOK, NEW next \in Steps, Taskkill(next)
    PROVE  /\ InstallerTypeOK' /\ UNCHANGED <<disk, shim>>
           /\ \/ wiz' = Closed
              \/ /\ wiz'.step = next /\ wiz'.tab = wiz.tab /\ SameRun(wiz', wiz)
                 /\ wiz'.todo = wiz.todo /\ wiz'.outcome = wiz.outcome
<1>1. wiz \in WizardState
  BY DEF InstallerTypeOK
<1>2. \/ wiz' = Closed
      \/ /\ wiz' \in WizardState
         /\ wiz'.step = next /\ wiz'.tab = wiz.tab /\ SameRun(wiz', wiz)
         /\ wiz'.todo = wiz.todo /\ wiz'.outcome = wiz.outcome
  BY <1>1, GotoFields DEF Taskkill
<1>3. /\ running' \subseteq {"gui", "daemon"} /\ notice' \in {"none", "shown", "gone"}
      /\ UNCHANGED <<disk, links, entry, published, cached, shim, runs>>
  BY DEF Taskkill, InstallerTypeOK
<1> QED
  BY <1>2, <1>3, NoWizard DEF InstallerTypeOK

LEMMA PayloadFacts ==
    /\ Payload \in Seq(Programs \cup InConfig)
    /\ \A f \in Programs : \E i \in DOMAIN Payload : Payload[i] = f
<1>1. Payload \in Seq(Programs \cup InConfig)
  BY DEF Payload, Programs, InConfig
<1>2. /\ 1 \in DOMAIN Payload /\ Payload[1] = "daemon"
      /\ 2 \in DOMAIN Payload /\ Payload[2] = "gui"
      /\ 3 \in DOMAIN Payload /\ Payload[3] = "script"
  BY DEF Payload
<1> QED
  BY <1>1, <1>2 DEF Programs

LEMMA PrepareKeeps == InstallerInv /\ Prepare => InstallerInv'
<1> SUFFICES ASSUME InstallerInv, Prepare PROVE InstallerInv'
  OBVIOUS
<1>0. /\ InstallerAt("prepare") /\ InstallerTypeOK
      /\ UNCHANGED <<machine, github, shim, runs>>
  BY DEF Prepare, InstallerInv
<1>1. /\ wiz \in WizardState /\ Unpacks /\ wiz.tab >= 4 /\ wiz.outcome = "none"
      /\ IsOpen
  BY <1>0, AtInstallStep DEF Steps
<1>2. CASE End("failed")
  <2>1. InstallerTypeOK' 
    BY <1>0, <1>1, <1>2, EndFields DEF InstallerTypeOK, machine, github
  <2> QED
    BY <1>0, <1>1, <1>2, <2>1, EndKeeps DEF machine
<1>3. CASE wiz' = [wiz EXCEPT !.step = IF wiz.mode = "update" THEN "stop" ELSE "extract",
                              !.todo = Payload]
  <2> DEFINE step == IF wiz.mode = "update" THEN "stop" ELSE "extract"
             v == [wiz EXCEPT !.step = step]
  <2>1. step \in Steps /\ step \in {"stop", "extract"}
    BY DEF Steps
  <2>2. /\ v \in WizardState /\ v.step = step /\ v.tab = wiz.tab /\ SameRun(v, wiz)
        /\ v.outcome = "none"
    BY <1>1, <2>1, StepSet
  <2>3. wiz' = [v EXCEPT !.todo = Payload]
    BY <1>1, <1>3 DEF WizardState
  <2> HIDE DEF v
  <2>4. Payload \in Seq(Files \cup {"config"})
    BY DEF Payload, Files, Programs, InConfig
  <2>5. /\ wiz' \in WizardState /\ wiz'.todo = Payload /\ wiz'.tab = v.tab
        /\ SameRun(wiz', v) /\ wiz'.step = step /\ wiz'.outcome = "none"
    BY <2>2, <2>3, <2>4, TodoSet
  <2>6. InstallerTypeOK'
    BY <1>0, <2>5 DEF InstallerTypeOK, machine, github
  <2> QED
    BY <1>0, <1>1, <2>1, <2>2, <2>5, <2>6, PayloadFacts
    DEF InstallerInv, OutcomeIsLast, TodoIsPayload, TodoFits, WritingOrSwept, WholeOrToDo,
        UnpackedIsWhole, CompletedIsWhole, SameRun
<1> QED
  BY <1>2, <1>3 DEF Prepare

LEMMA StopKeeps == InstallerInv /\ StopPrograms => InstallerInv'
<1> SUFFICES ASSUME InstallerInv, StopPrograms PROVE InstallerInv'
  OBVIOUS
<1>0. InstallerAt("stop") /\ InstallerTypeOK /\ Taskkill("extract")
  BY DEF StopPrograms, InstallerInv
<1>1. /\ wiz \in WizardState /\ Unpacks /\ wiz.tab >= 4 /\ wiz.outcome = "none"
      /\ IsOpen /\ wiz.step = "stop"
  BY <1>0, AtInstallStep DEF Steps
<1>2. /\ InstallerTypeOK' /\ UNCHANGED <<disk, shim>>
      /\ \/ wiz' = Closed
         \/ /\ wiz'.step = "extract" /\ wiz'.tab = wiz.tab /\ SameRun(wiz', wiz)
            /\ wiz'.todo = wiz.todo /\ wiz'.outcome = wiz.outcome
  BY <1>0, TaskkillFields DEF Steps
<1>3. CASE wiz' = Closed
  BY <1>1, <1>2, <1>3, NoWizard, IdleKeeps
<1>4. CASE wiz'.step = "extract" /\ wiz'.tab = wiz.tab /\ SameRun(wiz', wiz)
            /\ wiz'.todo = wiz.todo /\ wiz'.outcome = wiz.outcome
  <2>1. WholeOrToDo' /\ TodoIsPayload'
    BY <1>1, <1>2, <1>4
    DEF InstallerInv, WholeOrToDo, TodoIsPayload, Unpacks, SameRun, Current, Swept
  <2> QED
    BY <1>1, <1>2, <1>4, <2>1
    DEF InstallerInv, OutcomeIsLast, TodoFits, WritingOrSwept, UnpackedIsWhole,
        CompletedIsWhole, SameRun
<1> QED
  BY <1>2, <1>3, <1>4

\* The next file of the payload is passed over, to be created, or the end of the
\* run.
LEMMA ExtractKeeps == InstallerInv /\ ExtractFile => InstallerInv'
<1> SUFFICES ASSUME InstallerInv, ExtractFile PROVE InstallerInv'
  OBVIOUS
<1>0. /\ InstallerAt("extract") /\ InstallerTypeOK
      /\ UNCHANGED <<machine, github, shim, runs>>
  BY DEF ExtractFile, InstallerInv
<1>1. /\ wiz \in WizardState /\ Unpacks /\ wiz.tab >= 4 /\ wiz.outcome = "none"
      /\ IsOpen /\ wiz.step = "extract" /\ UNCHANGED disk
  BY <1>0, AtInstallStep DEF Steps, machine
<1>2. /\ wiz.todo \in Seq(Programs \cup InConfig)
      /\ \A f \in Programs : Current(f) \/ \E i \in DOMAIN wiz.todo : wiz.todo[i] = f
  BY <1>1 DEF InstallerInv, TodoIsPayload, WholeOrToDo
<1>3. CASE wiz.todo = <<>>
  <2>1. Goto("copy")
    BY <1>3 DEF ExtractFile
  <2>2. /\ wiz' \in WizardState /\ wiz'.step = "copy" /\ wiz'.tab = wiz.tab
        /\ SameRun(wiz', wiz) /\ wiz'.outcome = "none"
    BY <1>1, <2>1, GotoFields DEF Steps
  <2>3. InstallerTypeOK'
    BY <1>0, <2>2 DEF InstallerTypeOK, github, machine
  <2>4. \A f \in Programs : Current(f)
    BY <1>2, <1>3
  <2>5. UnpackedIsWhole'
    BY <1>0, <1>1, <2>2, <2>4 DEF UnpackedIsWhole, SameRun, Current, Swept
  <2> QED
    BY <1>0, <1>1, <2>2, <2>3, <2>5
    DEF InstallerInv, OutcomeIsLast, TodoIsPayload, TodoFits, WritingOrSwept, WholeOrToDo,
        CompletedIsWhole
<1>4. CASE wiz.todo # <<>> /\ Spared(Head(wiz.todo)) /\ wiz' = [wiz EXCEPT !.todo = Tail(@)]
  <2> DEFINE f == Head(wiz.todo)
             rest == Tail(wiz.todo)
  <2>1. rest \in Seq(Programs \cup InConfig) /\ f \notin Programs
    BY <1>2, <1>4 DEF Spared, Programs
  <2>2. wiz' = [wiz EXCEPT !.todo = rest] /\ rest \in Seq(Files \cup {"config"})
    BY <1>1, <1>4, <2>1 DEF WizardState, Files
  <2>3. ASSUME NEW g \in Programs, ~Current(g)
        PROVE  \E i \in DOMAIN rest : rest[i] = g
    <3>1. PICK i \in DOMAIN wiz.todo : wiz.todo[i] = g
      BY <1>2, <2>3
    <3>2. i # 1
      BY <1>2, <2>1, <3>1
    <3>3. i - 1 \in DOMAIN rest /\ rest[i - 1] = g
      BY <1>2, <1>4, <3>1, <3>2
    <3> QED
      BY <3>3
  <2> HIDE DEF f, rest
  <2>4. /\ wiz' \in WizardState /\ wiz'.todo = rest /\ wiz'.tab = wiz.tab
        /\ SameRun(wiz', wiz) /\ wiz'.step = "extract" /\ wiz'.outcome = "none"
    BY <1>1, <2>2, TodoSet
  <2>5. InstallerTypeOK'
    BY <1>0, <2>4 DEF InstallerTypeOK, github, machine
  <2>6. WholeOrToDo'
    BY <1>0, <1>1, <2>3, <2>4 DEF WholeOrToDo, Current, Swept, SameRun
  <2>7. TodoIsPayload'
    BY <2>1, <2>4 DEF TodoIsPayload
  <2> QED
    BY <1>0, <1>1, <2>4, <2>5, <2>6, <2>7
    DEF InstallerInv, OutcomeIsLast, TodoFits, WritingOrSwept, UnpackedIsWhole, CompletedIsWhole
<1>5. CASE wiz.todo # <<>> /\ GotoCreate
  <2>1. /\ wiz' \in WizardState /\ wiz'.step = "create" /\ wiz'.tab = wiz.tab
        /\ SameRun(wiz', wiz) /\ wiz'.todo = wiz.todo /\ wiz'.outcome = "none"
    BY <1>1, <1>5, CreateFields
  <2>2. InstallerTypeOK'
    BY <1>0, <2>1 DEF InstallerTypeOK, github, machine
  <2>3. WholeOrToDo' /\ TodoIsPayload'
    BY <1>0, <1>1, <1>2, <2>1 DEF WholeOrToDo, TodoIsPayload, Current, Swept, SameRun
  <2> QED
    BY <1>0, <1>1, <1>5, <2>1, <2>2, <2>3
    DEF InstallerInv, OutcomeIsLast, TodoFits, WritingOrSwept, UnpackedIsWhole, CompletedIsWhole
<1>6. CASE End("failed")
  <2>1. InstallerTypeOK'
    BY <1>0, <1>1, <1>6, EndFields DEF InstallerTypeOK, github, machine
  <2> QED
    BY <1>1, <1>6, <2>1, EndKeeps
<1> QED
  BY <1>3, <1>4, <1>5, <1>6 DEF ExtractFile

\* The file is emptied, or the run ends.
LEMMA CreateKeeps == InstallerInv /\ CreateFile => InstallerInv'
<1> SUFFICES ASSUME InstallerInv, CreateFile PROVE InstallerInv'
  OBVIOUS
<1>0. /\ InstallerAt("create") /\ InstallerTypeOK
      /\ UNCHANGED <<links, entry, running, github, runs>>
  BY DEF CreateFile, InstallerInv
<1>1. /\ wiz \in WizardState /\ Unpacks /\ wiz.tab >= 4 /\ wiz.outcome = "none"
      /\ IsOpen /\ wiz.step = "create" /\ wiz.todo # <<>>
  BY <1>0, AtInstallStep DEF Steps, InstallerInv, TodoFits
<1>2. /\ wiz.todo \in Seq(Programs \cup InConfig)
      /\ \A f \in Programs : Current(f) \/ \E i \in DOMAIN wiz.todo : wiz.todo[i] = f
  BY <1>1 DEF InstallerInv, TodoIsPayload, WholeOrToDo
<1> DEFINE f == Head(wiz.todo)
<1>3. CASE Emptied(f)
  <2>1. /\ wiz' \in WizardState /\ wiz'.step = "write" /\ wiz'.tab = wiz.tab
        /\ SameRun(wiz', wiz) /\ wiz'.todo = wiz.todo /\ wiz'.outcome = "none"
    BY <1>1, <1>3, GotoFields DEF Steps, Emptied
  <2>2. f \in Files /\ \E i \in DOMAIN wiz.todo : wiz.todo[i] = f
    <3>1. 1 \in DOMAIN wiz.todo /\ wiz.todo[1] = f /\ f \in Programs \cup InConfig
      BY <1>1, <1>2
    <3> QED
      BY <3>1 DEF Files
  <2> HIDE DEF f
  <2>3. /\ disk \in [Files -> Releases \cup {Absent, Torn, Own}]
        /\ shim \in [waiting : Nat, swept : SUBSET Programs]
    BY <1>0 DEF InstallerTypeOK
  <2>4. /\ disk' = [disk EXCEPT ![f] = Torn]
        /\ shim' = [shim EXCEPT !.swept = shim.swept \ {f}]
    BY <1>3 DEF Emptied
  <2>5. /\ disk' \in [Files -> Releases \cup {Absent, Torn, Own}]
        /\ disk'[f] = Torn /\ \A g \in Programs : g # f => disk'[g] = disk[g]
    BY <2>2, <2>3, <2>4 DEF Files
  <2>6. /\ shim' \in [waiting : Nat, swept : SUBSET Programs]
        /\ shim'.swept = shim.swept \ {f}
    BY <2>3, <2>4
  <2>7. InstallerTypeOK'
    BY <1>0, <2>1, <2>5, <2>6 DEF InstallerTypeOK, github
  <2>8. ASSUME NEW g \in Programs
        PROVE  Current(g)' \/ \E i \in DOMAIN wiz.todo : wiz.todo[i] = g
    <3>1. CASE g = f
      BY <2>2, <3>1
    <3>2. CASE g # f
      BY <1>2, <2>1, <2>5, <2>6, <3>2 DEF Current, Swept, SameRun
    <3> QED
      BY <3>1, <3>2
  <2>9. WholeOrToDo' /\ TodoIsPayload'
    BY <1>2, <2>1, <2>8 DEF WholeOrToDo, TodoIsPayload
  <2>10. WritingOrSwept'
    BY <2>1, <2>5 DEF WritingOrSwept, Torn, Absent, f
  <2> QED
    BY <1>1, <2>1, <2>7, <2>9, <2>10
    DEF InstallerInv, OutcomeIsLast, TodoFits, UnpackedIsWhole, CompletedIsWhole
<1>4. CASE End("failed") /\ UNCHANGED <<disk, shim>>
  <2>1. InstallerTypeOK'
    BY <1>0, <1>1, <1>4, EndFields DEF InstallerTypeOK, github
  <2> QED
    BY <1>1, <1>4, <2>1, EndKeeps
<1> QED
  BY <1>3, <1>4 DEF CreateFile, Create

\* The file is written whole, or the run ends.
LEMMA WriteKeeps == InstallerInv /\ WriteFile => InstallerInv'
<1> SUFFICES ASSUME InstallerInv, WriteFile PROVE InstallerInv'
  OBVIOUS
<1>0. /\ InstallerAt("write") /\ InstallerTypeOK
      /\ UNCHANGED <<links, entry, running, github, shim, runs>>
  BY DEF WriteFile, InstallerInv
<1>1. /\ wiz \in WizardState /\ Unpacks /\ wiz.tab >= 4 /\ wiz.outcome = "none"
      /\ IsOpen /\ wiz.step = "write" /\ wiz.todo # <<>>
  BY <1>0, AtInstallStep DEF Steps, InstallerInv, TodoFits
<1>2. /\ wiz.todo \in Seq(Programs \cup InConfig)
      /\ \A f \in Programs : Current(f) \/ \E i \in DOMAIN wiz.todo : wiz.todo[i] = f
  BY <1>1 DEF InstallerInv, TodoIsPayload, WholeOrToDo
<1>3. CASE End("failed") /\ UNCHANGED disk
  <2>1. InstallerTypeOK' 
    BY <1>0, <1>1, <1>3, EndFields DEF InstallerTypeOK, github
  <2> QED
    BY <1>1, <1>3, <2>1, EndKeeps
<1>4. CASE /\ disk' = [disk EXCEPT ![Head(wiz.todo)] = IF @ = Absent THEN @ ELSE wiz.release]
           /\ wiz' = [wiz EXCEPT !.step = "extract", !.todo = Tail(@)]
  <2> DEFINE f == Head(wiz.todo)
             rest == Tail(wiz.todo)
             v == [wiz EXCEPT !.step = "extract"]
  <2>1. /\ f \in Programs \cup InConfig /\ f \in Files
        /\ rest \in Seq(Programs \cup InConfig) /\ rest \in Seq(Files \cup {"config"})
    BY <1>1, <1>2 DEF Files
  <2>2. /\ v \in WizardState /\ v.step = "extract" /\ v.tab = wiz.tab /\ SameRun(v, wiz)
        /\ v.outcome = "none"
    BY <1>1, StepSet DEF Steps
  <2>3. wiz' = [v EXCEPT !.todo = rest]
    BY <1>1, <1>4 DEF WizardState
  <2>4. ASSUME NEW g \in Programs
        PROVE  \/ disk'[g] = wiz.release \/ (disk'[g] = Absent /\ g \in shim.swept)
               \/ \E i \in DOMAIN rest : rest[i] = g
    <3>1. CASE g = f
      BY <1>0, <1>1, <1>4, <2>1, <3>1 DEF InstallerTypeOK, InstallerInv, WritingOrSwept, Swept
    <3>2. CASE g # f /\ Current(g)
      BY <1>0, <1>4, <3>2 DEF InstallerTypeOK, Current, Swept
    <3>3. CASE g # f /\ ~Current(g)
      <4>1. PICK i \in DOMAIN wiz.todo : wiz.todo[i] = g
        BY <1>2, <3>3
      <4>2. i # 1
        BY <1>2, <3>3, <4>1
      <4>3. i - 1 \in DOMAIN rest /\ rest[i - 1] = g
        BY <1>1, <1>2, <4>1, <4>2
      <4> QED
        BY <4>3
    <3> QED
      BY <3>1, <3>2, <3>3
  <2>5. disk' \in [Files -> Releases \cup {Absent, Torn, Own}]
    <3>1. wiz.release \in Releases \cup {Absent}
      BY <1>1 DEF WizardState
    <3> QED
      BY <1>0, <1>4, <3>1 DEF InstallerTypeOK
  <2> HIDE DEF f, rest, v
  <2>6. /\ wiz' \in WizardState /\ wiz'.todo = rest /\ wiz'.tab = v.tab
        /\ SameRun(wiz', v) /\ wiz'.step = "extract" /\ wiz'.outcome = "none"
    BY <2>1, <2>2, <2>3, TodoSet
  <2>7. InstallerTypeOK'
    BY <1>0, <2>5, <2>6 DEF InstallerTypeOK, github
  <2>8. WholeOrToDo'
    BY <1>0, <2>2, <2>4, <2>6 DEF WholeOrToDo, Current, Swept, SameRun
  <2>9. TodoIsPayload'
    BY <2>1, <2>6 DEF TodoIsPayload
  <2> QED
    BY <1>0, <1>1, <2>2, <2>6, <2>7, <2>8, <2>9
    DEF InstallerInv, OutcomeIsLast, TodoFits, WritingOrSwept, UnpackedIsWhole,
        CompletedIsWhole
<1> QED
  BY <1>3, <1>4 DEF WriteFile

\* The steps of an install after the last file.
LEMMA LaterKeeps ==
    InstallerInv /\ (CopySelf \/ WriteShortcuts \/ RecordEntry \/ OllamaReturns) => InstallerInv'
<1> SUFFICES ASSUME InstallerInv, CopySelf \/ WriteShortcuts \/ RecordEntry \/ OllamaReturns
             PROVE  InstallerInv'
  OBVIOUS
<1>0. InstallerTypeOK /\ wiz \in WizardState /\ wiz.release \in Releases \cup {Absent}
  BY DEF InstallerInv, InstallerTypeOK, WizardState
<1>1. CASE CopySelf
  <2>1. /\ InstallerAt("copy") /\ Goto("links")
        /\ UNCHANGED <<links, entry, running, github, shim, runs>>
        /\ disk' = disk \/ disk' = [disk EXCEPT !["wizard"] = wiz.release]
    BY <1>1 DEF CopySelf
  <2>2. /\ disk' \in [Files -> Releases \cup {Absent, Torn, Own}]
        /\ \A f \in Programs : disk'[f] = disk[f]
    <3>1. disk \in [Files -> Releases \cup {Absent, Torn, Own}]
      BY <1>0 DEF InstallerTypeOK
    <3>2. Programs \subseteq Files /\ "wizard" \notin Programs
      BY DEF Files, Programs
    <3> QED
      BY <1>0, <2>1, <3>1, <3>2
  <2>3. InstallerTypeOK'
    BY <1>0, <2>1, <2>2, GotoFields DEF InstallerTypeOK, github, Steps
  <2> QED
    BY <2>1, <2>2, <2>3, LaterStepKeeps
<1>2. CASE WriteShortcuts
  <2>1. /\ InstallerAt("links") /\ Goto("record")
        /\ UNCHANGED <<disk, entry, running, github, shim, runs>>
        /\ links' \subseteq {"menu", "desktop"}
    BY <1>0, <1>2 DEF WriteShortcuts, InstallerTypeOK
  <2>2. InstallerTypeOK'
    BY <1>0, <2>1, GotoFields DEF InstallerTypeOK, github, Steps
  <2> QED
    BY <2>1, <2>2, LaterStepKeeps
<1>3. CASE RecordEntry
  <2>1. PICK next \in {"ollama", "final"} :
            /\ InstallerAt("record") /\ Goto(next)
            /\ UNCHANGED <<disk, links, running, github, shim, runs>>
            /\ entry' \in {entry, wiz.release}
    BY <1>3 DEF RecordEntry
  <2>2. InstallerTypeOK'
    BY <1>0, <2>1, GotoFields DEF InstallerTypeOK, github, Steps
  <2> QED
    BY <2>1, <2>2, LaterStepKeeps
<1>4. CASE OllamaReturns
  <2>1. /\ InstallerAt("ollama") /\ Goto("final")
        /\ UNCHANGED <<machine, github, shim, runs>>
    BY <1>4 DEF OllamaReturns
  <2>2. InstallerTypeOK'
    BY <1>0, <2>1, GotoFields DEF InstallerTypeOK, machine, github, Steps
  <2> QED
    BY <2>1, <2>2, LaterStepKeeps DEF machine
<1> QED
  BY <1>1, <1>2, <1>3, <1>4

LEMMA FinaliseKeeps == InstallerInv /\ Finalise => InstallerInv'
<1> SUFFICES ASSUME InstallerInv, Finalise PROVE InstallerInv'
  OBVIOUS
<1>1. /\ IsOpen /\ wiz.step = "final" /\ End("completed")
      /\ UNCHANGED <<machine, github, shim, runs>>
  BY DEF Finalise, At
<1>2. InstallerTypeOK /\ wiz \in WizardState /\ wiz.tab >= 4
  BY <1>1 DEF InstallerInv, InstallerTypeOK, OutcomeIsLast
<1>3. InstallerTypeOK' 
  BY <1>1, <1>2, EndFields
  DEF InstallerTypeOK, machine, github, InstallerInv, SameRun
<1>4. wiz.mode # "uninstall" => \A f \in Programs : Current(f)
  BY <1>1, <1>2 DEF InstallerInv, UnpackedIsWhole, Unpacks, IsOpen, WizardState
<1>5. wiz'.release = wiz.release
  BY <1>1, <1>2, EndFields DEF SameRun
<1> QED
  BY <1>1, <1>2, <1>3, <1>4, <1>5, EndKeeps DEF Current, Swept, machine

\* The steps of the uninstaller, whatever they leave on the disk.
LEMMA UninstallStepKeeps == InstallerInv /\ UninstallWorker => InstallerInv'
<1> SUFFICES ASSUME InstallerInv, UninstallWorker PROVE InstallerInv'
  OBVIOUS
<1>1. PICK step \in {"stop", "links", "registry", "delete", "schedule"} : UninstallerAt(step)
  BY DEF UninstallWorker, KillPrograms, RemoveLinks, RemoveEntry, DeleteEntry, ScheduleSelfDelete
<1>2. /\ InstallerTypeOK /\ wiz \in WizardState /\ wiz.mode = "uninstall"
      /\ wiz.tab >= 4 /\ wiz.tab \in 1..5 /\ wiz.outcome = "none"
  BY <1>1, FiveTabs
  DEF InstallerInv, InstallerTypeOK, WizardState, UninstallerAt, At, OutcomeIsLast
<1>3. CASE KillPrograms
  <2>1. /\ InstallerTypeOK' /\ UNCHANGED <<disk, shim>>
        /\ \/ wiz' = Closed
           \/ /\ wiz'.step = "links" /\ wiz'.tab = wiz.tab /\ SameRun(wiz', wiz)
              /\ wiz'.todo = wiz.todo /\ wiz'.outcome = wiz.outcome
    BY <1>2, <1>3, TaskkillFields DEF KillPrograms, Steps
  <2>2. CASE wiz' = Closed
    BY <2>1, <2>2, NoWizard, IdleKeeps
  <2>3. CASE wiz'.mode = "uninstall" /\ wiz'.step = "links" /\ wiz'.tab >= 4
             /\ wiz'.outcome = "none"
    BY <2>1, <2>3, UninstallerKeeps
  <2> QED
    BY <1>2, <2>1, <2>2, <2>3 DEF SameRun
<1>4. CASE RemoveLinks
  <2>1. /\ Goto("registry") /\ links' \subseteq links
        /\ UNCHANGED <<disk, entry, running, github, shim, runs>>
    BY <1>4 DEF RemoveLinks
  <2>2. /\ wiz' \in WizardState /\ wiz'.mode = "uninstall" /\ wiz'.step = "registry"
        /\ wiz'.tab >= 4 /\ wiz'.outcome = "none"
    BY <1>2, <2>1, GotoFields DEF SameRun, Steps
  <2>3. InstallerTypeOK'
    BY <1>2, <2>1, <2>2 DEF InstallerTypeOK, github
  <2> QED
    BY <2>2, <2>3, UninstallerKeeps
<1>5. CASE RemoveEntry
  <2> DEFINE v == [wiz EXCEPT !.step = "delete"]
  <2>1. /\ entry' \in {entry, Absent} /\ UNCHANGED <<disk, links, running, github, shim, runs>>
        /\ wiz' = [v EXCEPT !.todo = Entries]
    BY <1>2, <1>5 DEF RemoveEntry, WizardState
  <2>2. /\ v \in WizardState /\ v.step = "delete" /\ v.tab = wiz.tab /\ SameRun(v, wiz)
        /\ v.outcome = "none"
    BY <1>2, StepSet DEF Steps
  <2>3. /\ Entries \in Seq(Files \cup {"config"})
        /\ Entries \in Seq((Files \ InConfig) \cup {"config"})
    BY DEF Entries, Files, Programs, InConfig
  <2> HIDE DEF v
  <2>4. /\ wiz' \in WizardState /\ wiz'.mode = "uninstall" /\ wiz'.step = "delete"
        /\ wiz'.tab >= 4 /\ wiz'.outcome = "none" /\ wiz'.todo = Entries
    BY <1>2, <2>1, <2>2, <2>3, TodoSet DEF SameRun
  <2>5. InstallerTypeOK'
    BY <1>2, <2>1, <2>4 DEF InstallerTypeOK, github
  <2> QED
    BY <2>3, <2>4, <2>5, UninstallerKeeps
<1>6. CASE DeleteEntry
  <2>1. /\ UNCHANGED <<links, entry, running, github, shim, runs>>
        /\ \/ disk' = disk
           \/ \E gone \in SUBSET Files :
                 disk' = [f \in Files |-> IF f \in gone THEN Absent ELSE disk[f]]
        /\ \/ Goto("schedule")
           \/ End("failed")
           \/ wiz.todo # <<>> /\ wiz' = [wiz EXCEPT !.todo = Tail(@)]
    <3>1. UNCHANGED <<links, entry, running, github, shim, runs>>
      BY <1>6 DEF DeleteEntry
    <3>2. CASE wiz.todo = <<>>
      BY <1>6, <3>1, <3>2 DEF DeleteEntry
    <3>3. CASE wiz.todo # <<>>
      <4> DEFINE e == Head(wiz.todo)
      <4>1. \/ End("failed") /\ UNCHANGED disk
            \/ /\ \/ UNCHANGED disk
                  \/ disk' = [f \in Files |-> IF f \in Within(e) THEN Absent ELSE disk[f]]
               /\ wiz' = [wiz EXCEPT !.todo = Tail(@)]
        BY <1>6, <3>3 DEF DeleteEntry
      <4>2. [f \in Files |-> IF f \in Within(e) THEN Absent ELSE disk[f]]
              = [f \in Files |-> IF f \in Within(e) \cap Files THEN Absent ELSE disk[f]]
        OBVIOUS
      <4> HIDE DEF e
      <4> QED
        BY <3>1, <3>3, <4>1, <4>2
    <3> QED
      BY <3>2, <3>3
  <2>2. disk' \in [Files -> Releases \cup {Absent, Torn, Own}]
    BY <1>2, <2>1 DEF InstallerTypeOK
  <2>3. /\ wiz' \in WizardState /\ wiz'.mode = "uninstall" /\ wiz'.tab = wiz.tab
        /\ \/ wiz'.step \in {"schedule", "idle"}
           \/ /\ wiz'.step = wiz.step
              /\ wiz.todo # <<>> /\ wiz'.todo = Tail(wiz.todo)
        /\ wiz'.outcome # "none" => wiz'.step = "idle"
    <3>1. CASE Goto("schedule")
      BY <1>2, <3>1, GotoFields DEF SameRun, Steps
    <3>2. CASE End("failed")
      BY <1>2, <3>2, EndFields DEF SameRun
    <3>3. CASE wiz.todo # <<>> /\ wiz' = [wiz EXCEPT !.todo = Tail(@)]
      <4> DEFINE rest == Tail(wiz.todo)
      <4>1. rest \in Seq(Files \cup {"config"}) /\ wiz' = [wiz EXCEPT !.todo = rest]
        BY <1>2, <3>3 DEF WizardState
      <4> HIDE DEF rest
      <4> QED
        <5>1. /\ wiz' \in WizardState /\ wiz'.todo = rest /\ wiz'.tab = wiz.tab
              /\ SameRun(wiz', wiz) /\ wiz'.step = wiz.step /\ wiz'.outcome = wiz.outcome
          BY <1>2, <4>1, TodoSet
        <5>2. wiz'.todo = Tail(wiz.todo)
          BY <5>1 DEF rest
        <5> QED
          BY <1>2, <3>3, <5>1, <5>2 DEF SameRun
    <3> QED
      BY <2>1, <3>1, <3>2, <3>3
  <2>4. InstallerTypeOK'
    BY <1>2, <2>1, <2>2, <2>3 DEF InstallerTypeOK, github
  <2>5. wiz.step = "delete" /\ wiz.todo \in Seq((Files \ InConfig) \cup {"config"})
    BY <1>6 DEF DeleteEntry, UninstallerAt, At, InstallerInv, TodoFits
  <2>6. wiz'.step = "delete" => wiz'.todo \in Seq((Files \ InConfig) \cup {"config"})
    <3> DEFINE S == (Files \ InConfig) \cup {"config"}
    <3>1. wiz.todo \in Seq(S)
      BY <2>5
    <3> HIDE DEF S
    <3>2. wiz.todo # <<>> => Tail(wiz.todo) \in Seq(S)
      BY <3>1
    <3> QED
      BY <2>3, <3>2 DEF S
  <2> QED
    BY <1>2, <2>3, <2>4, <2>5, <2>6, UninstallerKeeps
<1>7. CASE ScheduleSelfDelete
  <2>1. /\ Goto("final") /\ UNCHANGED <<machine, github, runs>>
        /\ shim' \in [waiting : Nat, swept : SUBSET Programs]
    <3>1. shim \in [waiting : Nat, swept : SUBSET Programs]
      BY <1>2 DEF InstallerTypeOK
    <3>2. PICK more \in 0..1 : shim' = [shim EXCEPT !.waiting = shim.waiting + more]
      BY <1>7 DEF ScheduleSelfDelete
    <3> QED
      BY <1>7, <3>1, <3>2 DEF ScheduleSelfDelete
  <2>2. /\ wiz' \in WizardState /\ wiz'.mode = "uninstall" /\ wiz'.step = "final"
        /\ wiz'.tab >= 4 /\ wiz'.outcome = "none"
    BY <1>2, <2>1, GotoFields DEF SameRun, Steps
  <2>3. InstallerTypeOK'
    BY <1>2, <2>1, <2>2 DEF InstallerTypeOK, machine, github
  <2> QED
    BY <2>2, <2>3, UninstallerKeeps
<1> QED
  BY <1>3, <1>4, <1>5, <1>6, <1>7 DEF UninstallWorker

\* A wizard that opens.
LEMMA OpenKeeps ==
    ASSUME InstallerInv, NEW mode \in {"install", "update", "uninstall"},
           NEW release \in Releases, NEW inside \in BOOLEAN, NEW child \in BOOLEAN,
           Open(Opened(mode, release, inside, child)),
           published' \in Releases, cached' \in Releases \cup {Absent},
           notice' \in {"none", "shown", "gone"}
    PROVE  InstallerInv'
<1>1. /\ wiz' \in WizardState /\ wiz'.step = "idle" /\ wiz'.outcome = "none"
  BY NewWizard DEF Open
<1>2. runs' \in 0..MaxRuns
  BY InstallerAssumption DEF Open, InstallerInv, InstallerTypeOK
<1>3. InstallerTypeOK' 
  BY <1>1, <1>2 DEF Open, InstallerInv, InstallerTypeOK, machine
<1> QED
  BY <1>1, <1>3, IdleKeeps

LEMMA OpeningKeeps == InstallerInv /\ (RunDownloaded \/ RunUninstaller) => InstallerInv'
<1> SUFFICES ASSUME InstallerInv, RunDownloaded \/ RunUninstaller PROVE InstallerInv'
  OBVIOUS
<1>0. /\ published \in Releases /\ cached \in Releases \cup {Absent}
      /\ notice \in {"none", "shown", "gone"} /\ UNCHANGED github
  BY DEF InstallerInv, InstallerTypeOK, RunDownloaded, RunUninstaller
<1>1. CASE RunDownloaded
  <2>1. PICK release \in 1..published, mode \in {"install", "update"} :
            Open(Opened(mode, release, FALSE, FALSE))
    BY <1>1 DEF RunDownloaded
  <2>2. release \in Releases
    BY <1>0, InstallerAssumption DEF Releases
  <2> QED
    BY <1>0, <2>1, <2>2, OpenKeeps DEF github
<1>2. CASE RunUninstaller
  <2>1. disk["wizard"] \in Releases /\ Open(Opened("uninstall", disk["wizard"], TRUE, FALSE))
    BY <1>2 DEF RunUninstaller, Whole
  <2> QED
    BY <1>0, <2>1, OpenKeeps DEF github
<1> QED
  BY <1>1, <1>2

\* What a shim deletes it has swept, whatever the wizard is at.
LEMMA ShimKeeps == InstallerInv /\ ShimFires => InstallerInv'
<1> SUFFICES ASSUME InstallerInv, ShimFires PROVE InstallerInv'
  OBVIOUS
<1> DEFINE gone == {f \in Files : disk[f] # Absent /\ ~Locked(f)}
<1>1. /\ shim.waiting > 0
      /\ disk' = [f \in Files |-> IF f \in gone THEN Absent ELSE disk[f]]
      /\ shim' = [waiting |-> shim.waiting - 1, swept |-> shim.swept \cup (gone \cap Programs)]
      /\ UNCHANGED <<links, entry, running, github, wiz, runs>>
  BY DEF ShimFires
<1>2. /\ disk \in [Files -> Releases \cup {Absent, Torn, Own}]
      /\ shim.waiting \in Nat /\ shim.swept \subseteq Programs
  BY DEF InstallerInv, InstallerTypeOK
<1> HIDE DEF gone
<1>3. InstallerTypeOK'
  BY <1>1, <1>2 DEF InstallerInv, InstallerTypeOK, github
<1>4. /\ shim'.swept = shim.swept \cup (gone \cap Programs)
      /\ \A f \in Programs : disk'[f] = disk[f] \/ (disk'[f] = Absent /\ f \in gone)
  <2>1. Programs \subseteq Files
    BY DEF Files
  <2> QED
    BY <1>1, <1>2, <2>1
<1>5. \A f \in Programs : Swept(f) => Swept(f)'
  BY <1>4 DEF Swept
<1>6. \A f \in Programs : disk'[f] = disk[f] \/ Swept(f)'
  BY <1>4 DEF Swept
<1>7. \A f \in Programs : Current(f) => Current(f)'
  BY <1>1, <1>5, <1>6 DEF Current
<1>8. WritingOrSwept'
  BY <1>1, <1>5, <1>6 DEF InstallerInv, WritingOrSwept, Unpacks
<1>9. WholeOrToDo' /\ UnpackedIsWhole'
  BY <1>1, <1>7 DEF InstallerInv, WholeOrToDo, UnpackedIsWhole, Unpacks
<1>10. CompletedIsWhole'
  BY <1>1, <1>7 DEF InstallerInv, CompletedIsWhole, Current, Swept
<1> QED
  BY <1>1, <1>3, <1>8, <1>9, <1>10 DEF InstallerInv, OutcomeIsLast, TodoIsPayload, TodoFits, Unpacks

\* What goes on beside the wizard touches neither its worker nor a program's
\* file; the update notice may open one.
LEMMA BesideKeeps == InstallerInv /\ Beside => InstallerInv'
<1> SUFFICES ASSUME InstallerInv, Beside PROVE InstallerInv'
  OBVIOUS
<1>0. InstallerTypeOK /\ wiz \in WizardState /\ wiz.tab \in 1..5
  BY FiveTabs DEF InstallerInv, InstallerTypeOK, WizardState
<1>1. CASE LaunchGui \/ StartDaemon
  <2>1. /\ running' \subseteq {"gui", "daemon"}
        /\ UNCHANGED <<disk, links, entry, github, wiz, shim, runs>>
    BY <1>0, <1>1 DEF LaunchGui, StartDaemon, InstallerTypeOK
  <2>2. InstallerTypeOK'
    BY <1>0, <2>1 DEF InstallerTypeOK, github
  <2> QED
    BY <1>0, <2>1, <2>2, BesideTheWorker
<1>2. CASE EndProgram
  <2>1. PICK p \in running :
            /\ running' = running \ {p}
            /\ notice' = IF p = "gui" THEN "none" ELSE notice
            /\ wiz' = IF p = "gui" /\ IsOpen THEN [wiz EXCEPT !.child = FALSE] ELSE wiz
    BY <1>2 DEF EndProgram
  <2>2. UNCHANGED <<disk, links, entry, published, cached, shim, runs>>
    BY <1>2 DEF EndProgram
  <2>3. wiz' \in WizardState /\ wiz'.tab = wiz.tab /\ SameWork(wiz', wiz)
    <3>1. CASE wiz' = [wiz EXCEPT !.child = FALSE]
      BY <1>0, <3>1, BoxTicked, FALSE \in BOOLEAN
    <3>2. CASE wiz' = wiz
      BY <1>0, <3>2 DEF SameWork, SameRun
    <3> QED
      BY <2>1, <3>1, <3>2
  <2>4. InstallerTypeOK'
    BY <1>0, <2>1, <2>2, <2>3 DEF InstallerTypeOK
  <2> QED
    BY <1>0, <2>2, <2>3, <2>4, BesideTheWorker DEF SameWork, SameRun
<1>3. CASE EditFile
  <2>1. /\ \E f \in InConfig \cup {"env"} : disk' = [disk EXCEPT ![f] = Own]
        /\ UNCHANGED <<links, entry, running, github, wiz, shim, runs>>
    BY <1>3 DEF EditFile, InConfig
  <2>2. PICK f \in InConfig \cup {"env"} : disk' = [disk EXCEPT ![f] = Own]
    BY <2>1
  <2>3. f \notin Programs /\ disk \in [Files -> Releases \cup {Absent, Torn, Own}]
    BY <1>0 DEF InConfig, Programs, InstallerTypeOK
  <2>4. /\ disk' \in [Files -> Releases \cup {Absent, Torn, Own}]
        /\ \A g \in Programs : disk'[g] = disk[g]
    BY <2>2, <2>3 DEF Files
  <2>5. InstallerTypeOK'
    BY <1>0, <2>1, <2>4 DEF InstallerTypeOK, github
  <2> QED
    BY <1>0, <2>1, <2>4, <2>5, BesideTheWorker
<1>4. CASE Publish \/ CheckForUpdate \/ DismissNotice
  <2>1. /\ UNCHANGED <<machine, wiz, shim, runs>>
        /\ published' \in Releases /\ cached' \in Releases \cup {Absent}
        /\ notice' \in {"none", "shown", "gone"}
    <3>1. CASE Publish
      BY <1>0, <3>1, InstallerAssumption DEF Publish, InstallerTypeOK, Releases
    <3>2. CASE CheckForUpdate
      BY <1>0, <3>2 DEF CheckForUpdate, KnownReleases, InstallerTypeOK
    <3>3. CASE DismissNotice
      BY <1>0, <3>3 DEF DismissNotice, InstallerTypeOK
    <3> QED
      BY <1>4, <3>1, <3>2, <3>3
  <2>2. InstallerTypeOK'
    BY <1>0, <2>1 DEF InstallerTypeOK, machine
  <2> QED
    BY <1>0, <2>1, <2>2, BesideTheWorker DEF machine
<1>5. CASE UpdateNow
  <2>1. CASE ~LocalWizard
    <3>1. InstallerTypeOK'
      BY <1>0, <1>5, <2>1 DEF UpdateNow, InstallerTypeOK, machine
    <3> QED
      BY <1>0, <1>5, <2>1, <3>1, BesideTheWorker DEF UpdateNow, machine
  <2>2. CASE LocalWizard
    <3>1. /\ disk["wizard"] \in Releases /\ Open(Opened("update", disk["wizard"], TRUE, TRUE))
          /\ notice' = "gone" /\ UNCHANGED <<published, cached>>
      BY <1>5, <2>2 DEF UpdateNow, Whole
    <3> QED
      BY <1>0, <3>1, OpenKeeps DEF InstallerTypeOK
  <2> QED
    BY <2>1, <2>2
<1> QED
  BY <1>1, <1>2, <1>3, <1>4, <1>5 DEF Beside

LEMMA InstallerStepInv == InstallerInv /\ [InstallerNext]_installer => InstallerInv'
<1>1. InstallerInv /\ UNCHANGED installer => InstallerInv'
  BY DEF installer, machine, github, InstallerInv, InstallerTypeOK, OutcomeIsLast,
         TodoIsPayload, TodoFits, WritingOrSwept, WholeOrToDo, UnpackedIsWhole, CompletedIsWhole,
         Unpacks, Current, Swept
<1>2. InstallerInv /\ InstallWorker => InstallerInv'
  BY PrepareKeeps, StopKeeps, ExtractKeeps, CreateKeeps, WriteKeeps, LaterKeeps DEF InstallWorker
<1> QED
  BY <1>1, <1>2, OpeningKeeps, WindowKeeps, UninstallStepKeeps, FinaliseKeeps, ShimKeeps,
     BesideKeeps DEF InstallerNext

LEMMA InstallerInvariance == InstallerSpec => []InstallerInv
  BY InstallerInitInv, InstallerStepInv, PTL DEF InstallerSpec

\* An update that is at the settings has found none.
SawNone ==
    wiz.mode = "update" /\ wiz.step \in {"create", "write"} /\ Head(wiz.todo) = "settings" =>
        wiz.unseen

\* A step leaves the file that is being written, or goes on with it as it is.
AsBefore ==
    \/ wiz'.step \notin {"create", "write"}
    \/ wiz'.mode = wiz.mode /\ wiz'.step = wiz.step /\ wiz'.todo = wiz.todo
       /\ wiz'.unseen = wiz.unseen

LEMMA OthersLeaveTheFile ==
    ASSUME InstallerInv, InstallerNext
    PROVE  ExtractFile \/ CreateFile \/ AsBefore
<1>0. wiz \in WizardState
  BY DEF InstallerInv, InstallerTypeOK
<1>1. CASE UNCHANGED wiz
  BY <1>1 DEF AsBefore
<1>2. CASE wiz' = Closed
  BY <1>2, NoWizard DEF AsBefore
<1>3. ASSUME NEW step \in Steps \ {"create", "write"}, Goto(step) PROVE AsBefore
  BY <1>0, <1>3, GotoFields DEF AsBefore
<1>4. ASSUME NEW outcome, End(outcome) PROVE AsBefore
  BY <1>0, <1>4 DEF End, AsBefore, WizardState
<1>5. ASSUME NEW mode, NEW release, NEW inside, NEW child,
             wiz' = Opened(mode, release, inside, child)
      PROVE  AsBefore
  BY <1>5 DEF Opened, AsBefore
<1>6. CASE Advance
  BY <1>0, <1>6 DEF Advance, AsBefore, WizardState
<1>7. CASE Retreat
  BY <1>0, <1>7 DEF Retreat, AsBefore, WizardState
<1>8. CASE AcceptLicense \/ ConfirmUninstall
  <2>1. PICK box \in {"accepted", "confirmed", "keep"} : wiz' = [wiz EXCEPT ![box] = ~@]
    BY <1>8 DEF AcceptLicense, ConfirmUninstall, Tick
  <2>2. wiz' = [wiz EXCEPT !.accepted = ~@] \/ wiz' = [wiz EXCEPT !.confirmed = ~@]
        \/ wiz' = [wiz EXCEPT !.keep = ~@]
    BY <2>1
  <2> QED
    BY <1>0, <2>2 DEF AsBefore, WizardState
<1>9. CASE EndOfWork
  BY <1>0, <1>9 DEF EndOfWork, Drained, AsBefore, WizardState
<1>10. CASE Prepare
  BY <1>0, <1>4, <1>10 DEF Prepare, AsBefore, WizardState
<1>11. CASE WriteFile
  BY <1>0, <1>4, <1>11 DEF WriteFile, AsBefore, WizardState
<1>12. CASE StopPrograms \/ KillPrograms
  BY <1>2, <1>3, <1>12 DEF StopPrograms, KillPrograms, Taskkill, Steps
<1>13. CASE CopySelf \/ WriteShortcuts \/ RecordEntry \/ OllamaReturns \/ RemoveLinks
            \/ ScheduleSelfDelete
  BY <1>3, <1>13 DEF CopySelf, WriteShortcuts, RecordEntry, OllamaReturns, RemoveLinks,
                     ScheduleSelfDelete, Steps
<1>14. CASE RemoveEntry
  BY <1>0, <1>14 DEF RemoveEntry, AsBefore, WizardState
<1>15. CASE DeleteEntry
  <2>1. \/ \E step \in {"schedule"} : Goto(step)
        \/ \E outcome \in {"failed"} : End(outcome)
        \/ wiz' = [wiz EXCEPT !.todo = Tail(@)] /\ wiz.step = "delete"
    BY <1>15 DEF DeleteEntry, UninstallerAt, At
  <2>2. CASE wiz' = [wiz EXCEPT !.todo = Tail(@)] /\ wiz.step = "delete"
    BY <1>0, <2>2 DEF AsBefore, WizardState
  <2> QED
    BY <1>3, <1>4, <2>1, <2>2 DEF Steps
<1>16. CASE Finalise
  BY <1>4, <1>16 DEF Finalise
<1>17. CASE EndProgram
  BY <1>0, <1>17 DEF EndProgram, AsBefore, WizardState
<1>18. CASE RunDownloaded \/ RunUninstaller \/ UpdateNow
  BY <1>1, <1>5, <1>18 DEF RunDownloaded, RunUninstaller, UpdateNow, Open
<1>19. CASE CloseWizard \/ LaunchFromFinish
  BY <1>2, <1>19 DEF CloseWizard, LaunchFromFinish
<1>20. CASE ShimFires \/ LaunchGui \/ StartDaemon \/ EditFile \/ Publish \/ CheckForUpdate
            \/ DismissNotice
  BY <1>1, <1>20 DEF ShimFires, LaunchGui, StartDaemon, EditFile, Publish, CheckForUpdate,
                     DismissNotice
<1> QED
  BY <1>6, <1>7, <1>8, <1>9, <1>10, <1>11, <1>12, <1>13, <1>14, <1>15, <1>16, <1>17, <1>18,
     <1>19, <1>20 DEF InstallerNext, Window, InstallWorker, UninstallWorker, Beside

LEMMA SawNoneStep == InstallerInv /\ SawNone /\ [InstallerNext]_installer => SawNone'
<1> SUFFICES ASSUME InstallerInv, SawNone, [InstallerNext]_installer PROVE SawNone'
  OBVIOUS
<1>0. wiz \in WizardState
  BY DEF InstallerInv, InstallerTypeOK
<1>1. CASE AsBefore \/ UNCHANGED installer
  BY <1>1 DEF AsBefore, SawNone, installer
<1>2. CASE ExtractFile
  <2>1. CASE GotoCreate /\ ~Spared(Head(wiz.todo))
    <3>1. /\ SameRun(wiz', wiz) /\ wiz'.todo = wiz.todo
          /\ wiz.mode = "update" /\ disk[Head(wiz.todo)] = Absent => wiz'.unseen
      BY <1>0, <2>1, CreateFields
    <3> QED
      BY <2>1, <3>1 DEF SawNone, Spared, SameRun
  <2>2. CASE Goto("copy")
    BY <1>0, <2>2, GotoFields DEF SawNone, Steps
  <2>3. CASE wiz' = [wiz EXCEPT !.todo = Tail(@)] /\ wiz.step = "extract"
    BY <1>0, <2>3 DEF SawNone, WizardState
  <2>4. CASE End("failed")
    BY <1>0, <2>4 DEF End, SawNone, WizardState
  <2> QED
    BY <1>2, <2>1, <2>2, <2>3, <2>4 DEF ExtractFile, InstallerAt, At
<1>3. CASE CreateFile
  <2>1. wiz.step = "create" /\ (Goto("write") \/ End("failed"))
    BY <1>3 DEF CreateFile, Create, Emptied, InstallerAt, At
  <2>2. CASE Goto("write")
    BY <1>0, <2>1, <2>2 DEF Goto, SawNone, WizardState
  <2>3. CASE End("failed")
    BY <1>0, <2>3 DEF End, SawNone, WizardState
  <2> QED
    BY <2>1, <2>2, <2>3
<1> QED
  BY <1>1, <1>2, <1>3, OthersLeaveTheFile

LEMMA SawNoneInvariance == InstallerSpec => []SawNone
<1>1. InstallerInit => SawNone
  BY NoWizard DEF InstallerInit, SawNone
<1> QED
  BY <1>1, SawNoneStep, InstallerInvariance, PTL DEF InstallerSpec

\* Every reachable state of the installer is well typed.
THEOREM InstallerTyped == InstallerSpec => []InstallerTypeOK
  BY InstallerInvariance, PTL DEF InstallerInv

\* An install or update that reports success has left every program of its
\* release whole on disk, whatever ran, was locked, ended or was closed
\* meanwhile, and whatever was installed or half removed before, but for what
\* the shims of earlier uninstalls have deleted since (install.rs:312,
\* uninstall.rs:341).
THEOREM SuccessIsWhole == InstallerSpec => []CompletedIsWhole
  BY InstallerInvariance, PTL DEF InstallerInv

\* The user's credentials and settings go only by what the user asked for, by
\* the self-delete shim, or if they are saved after an update found none
\* (install.rs:288, uninstall.rs:284).
THEOREM UserDataKept == InstallerSpec => OwnDataKept
<1> DEFINE Excused(f) ==
              \/ /\ f = "settings"
                 /\ wiz.mode = "install" \/ wiz.unseen
              \/ wiz.mode = "uninstall" /\ ~wiz.keep
              \/ shim.waiting > 0 /\ disk'[f] = Absent
           Kind(f) == disk[f] = Own /\ disk'[f] # Own => Excused(f)
<1>1. InstallerInv /\ SawNone /\ InstallerNext => \A f \in {"env", "settings"} : Kind(f)
  <2> SUFFICES ASSUME InstallerInv, SawNone, InstallerNext, NEW f \in {"env", "settings"},
                      disk[f] = Own, disk'[f] # Own
               PROVE  Excused(f)
    OBVIOUS
  <2>0. /\ disk \in [Files -> Releases \cup {Absent, Torn, Own}]
        /\ f \in Files /\ f \notin Programs /\ f # "wizard"
    BY DEF InstallerInv, InstallerTypeOK, Files, Programs, InConfig
  <2>1. CASE CreateFile
    <3>1. InstallerAt("create") /\ disk' = [disk EXCEPT ![Head(wiz.todo)] = Torn]
      BY <2>1 DEF CreateFile, Create, Emptied
    <3>2. Unpacks /\ wiz.step = "create"
      BY <3>1, AtInstallStep DEF Steps
    <3>3. Head(wiz.todo) \in Programs \cup InConfig
      BY <3>2 DEF InstallerInv, TodoIsPayload, TodoFits
    <3>4. f = "settings" /\ Head(wiz.todo) = "settings"
      BY <2>0, <3>1, <3>3 DEF Programs, InConfig
    <3> QED
      BY <3>2, <3>4 DEF SawNone, Unpacks
  <2>2. CASE WriteFile
    <3>1. /\ InstallerAt("write")
          /\ disk' = [disk EXCEPT ![Head(wiz.todo)] = IF @ = Absent THEN @ ELSE wiz.release]
      BY <2>2 DEF WriteFile
    <3>2. Unpacks /\ wiz.step = "write"
      BY <3>1, AtInstallStep DEF Steps
    <3>3. Head(wiz.todo) \in Programs \cup InConfig
      BY <3>2 DEF InstallerInv, TodoIsPayload, TodoFits
    <3>4. f = "settings" /\ Head(wiz.todo) = "settings"
      BY <2>0, <3>1, <3>3 DEF Programs, InConfig
    <3> QED
      BY <3>2, <3>4 DEF SawNone, Unpacks
  <2>3. CASE DeleteEntry
    <3>1. ~wiz.keep /\ wiz.mode = "uninstall"
      <4>1. UninstallerAt("delete") /\ wiz.todo # <<>>
        BY <2>3 DEF DeleteEntry
      <4> DEFINE e == Head(wiz.todo)
      <4>2. /\ ~Kept(e)
            /\ disk' = [g \in Files |-> IF g \in Within(e) THEN Absent ELSE disk[g]]
        BY <2>3, <4>1 DEF DeleteEntry
      <4>3. f \in Within(e)
        BY <2>0, <4>2
      <4> HIDE DEF e
      <4>4. e \in {"env", "config", "settings"}
        BY <4>3 DEF Within
      <4>5. e # "settings"
        BY <4>1 DEF e, UninstallerAt, At, InstallerInv, TodoFits, InConfig
      <4> QED
        BY <4>1, <4>2, <4>4, <4>5 DEF Kept, UninstallerAt
    <3> QED
      BY <3>1
  <2>4. CASE ShimFires
    BY <2>0, <2>4 DEF ShimFires
  <2>5. CASE CopySelf
    BY <2>0, <2>5 DEF CopySelf
  <2>6. CASE EditFile
    BY <2>0, <2>6 DEF EditFile
  <2>7. UNCHANGED disk \/ CreateFile \/ WriteFile \/ DeleteEntry \/ ShimFires \/ CopySelf
          \/ EditFile
    BY DEF InstallerNext, RunDownloaded, RunUninstaller, Open, Window, InstallWorker,
           UninstallWorker, Beside, Finalise, Advance, Retreat, CloseWizard, AcceptLicense,
           ConfirmUninstall, Tick, EndOfWork, LaunchFromFinish, Prepare, ExtractFile,
           StopPrograms, Taskkill, WriteShortcuts, RecordEntry, OllamaReturns, KillPrograms,
           RemoveLinks, RemoveEntry, ScheduleSelfDelete, LaunchGui, StartDaemon, EndProgram,
           Publish, CheckForUpdate, UpdateNow, DismissNotice, machine
  <2> QED
    BY <2>1, <2>2, <2>3, <2>4, <2>5, <2>6, <2>7
<1>2. InstallerInv /\ SawNone /\ [InstallerNext]_installer
        => [\A f \in {"env", "settings"} : Kind(f)]_installer
  BY <1>1
<1> QED
  BY <1>2, InstallerInvariance, SawNoneInvariance, PTL DEF InstallerSpec, OwnDataKept

-----------------------------------------------------------------------------
(* The Oracle tab.                                                         *)

Models == Local \cup Labels

\* Settings whose selected entry exists and has its endpoint: the local models
\* are never removed, and every other entry has an endpoint of its label.
SoundSettings ==
    {cfg \in [enabled : BOOLEAN, entries : Seq(Models), remotes : Seq(Labels),
              selected : Nat] :
        /\ cfg.selected \in DOMAIN cfg.entries
        /\ Local \subseteq ToSet(cfg.entries)
        /\ ToSet(cfg.entries) \subseteq Local \cup ToSet(cfg.remotes)}

Requests ==
    [kind : {"config"}, cfg : SoundSettings] \cup [kind : {"ask"}, shown : Models]
        \cup [kind : {"ping"}]

\* Settings that no cut write went into are sound, in the tab, in the worker
\* and on the way to it, and in the file.
OracleInv ==
    /\ "form" \notin short =>
           /\ form \in SoundSettings /\ held \in SoundSettings
           /\ requests \in Seq(Requests)
    /\ "file" \notin short => file \in SoundSettings

\* A set of numbers has a least one: what stands in for induction below.
LEMMA LeastNumber ==
    ASSUME NEW Q, Q \subseteq Nat, Q # {}
    PROVE  \E n \in Q : \A m \in Q : n <= m
<1>1. PICK n \in Q : \A m \in Q : ~(<<m, n>> \in OpToRel(<, Nat))
  BY WFMin, NatLessThanWellFounded
<1>2. \A m \in Q : ~(m < n)
  BY <1>1 DEF OpToRel
<1> QED
  BY <1>2

\* One step of retain.
KeptAt(kept, s, label, n) ==
    IF n = 0 THEN <<>>
    ELSE IF s[n] = label THEN kept[n - 1]
    ELSE Append(kept[n - 1], s[n])

\* Retain gets through any list: at a least length at which it would not, the
\* list before it could be extended.
LEMMA RetainEnds ==
    ASSUME NEW s \in Seq(Models), NEW label
    PROVE  \E kept : kept = [n \in 0..Len(s) |-> KeptAt(kept, s, label, n)]
<1> DEFINE Upto(k, N) == \A n \in 0..N : k[n] = KeptAt(k, s, label, n)
           Q == {N \in Nat : ~\E k : k = [n \in 0..N |-> k[n]] /\ Upto(k, N)}
<1>1. Q = {}
  <2> SUFFICES ASSUME Q # {} PROVE FALSE
    OBVIOUS
  <2>1. PICK N \in Q : \A m \in Q : N <= m
    <3>1. Q \subseteq Nat
      OBVIOUS
    <3> HIDE DEF Q
    <3> QED
      BY <3>1, LeastNumber
  <2>2. CASE N = 0
    <3> DEFINE k == [n \in 0..0 |-> <<>>]
    <3>1. k = [n \in 0..0 |-> k[n]] /\ Upto(k, 0)
      BY DEF KeptAt
    <3> QED
      BY <2>2, <3>1
  <2>3. CASE N # 0
    <3>1. N \in Nat /\ N - 1 \in Nat /\ N - 1 \notin Q
      BY <2>1, <2>3
    <3>2. PICK k : k = [n \in 0..(N - 1) |-> k[n]] /\ Upto(k, N - 1)
      BY <3>1
    <3> DEFINE j == [n \in 0..N |-> IF n = N THEN KeptAt(k, s, label, N) ELSE k[n]]
    <3>3. j = [n \in 0..N |-> j[n]]
      OBVIOUS
    <3>4. ASSUME NEW n \in 0..N PROVE j[n] = KeptAt(j, s, label, n)
      <4>1. CASE n = N
        <5>1. j[N - 1] = k[N - 1] /\ N \in 0..N /\ j[N] = KeptAt(k, s, label, N)
          BY <2>3, <3>1
        <5> HIDE DEF j
        <5> QED
          BY <4>1, <5>1 DEF KeptAt
      <4>2. CASE n # N
        <5>1. n \in 0..(N - 1) /\ j[n] = k[n] /\ (n # 0 => j[n - 1] = k[n - 1])
          BY <3>1, <4>2
        <5>2. k[n] = KeptAt(k, s, label, n)
          BY <3>2, <5>1
        <5> HIDE DEF j
        <5> QED
          BY <5>1, <5>2 DEF KeptAt
      <4> QED
        BY <4>1, <4>2
    <3>5. Upto(j, N)
      BY <3>4
    <3> HIDE DEF j, Upto
    <3> QED
      BY <2>1, <3>3, <3>5
  <2> QED
    BY <2>2, <2>3
<1>2. PICK k : k = [n \in 0..Len(s) |-> k[n]] /\ Upto(k, Len(s))
  <2>1. Len(s) \in Nat
    OBVIOUS
  <2> QED
    BY <1>1, <2>1
<1>3. k = [n \in 0..Len(s) |-> KeptAt(k, s, label, n)]
  BY <1>2
<1> QED
  BY <1>3

\* What retain (ui/oracle.rs:525) leaves: everything but the label.
LEMMA RetainedIs ==
    ASSUME NEW s \in Seq(Models), NEW label
    PROVE  /\ Retained(s, label) \in Seq(Models)
           /\ ToSet(Retained(s, label)) = ToSet(s) \ {label}
<1> DEFINE kept == CHOOSE k : k = [n \in 0..Len(s) |-> KeptAt(k, s, label, n)]
<1>1. kept = [n \in 0..Len(s) |-> KeptAt(kept, s, label, n)]
  BY RetainEnds
<1>2. Retained(s, label) = kept[Len(s)]
  BY DEF Retained, KeptAt
<1> HIDE DEF kept
<1>3. /\ Len(s) \in Nat
      /\ \A n \in 0..Len(s) : kept[n] = KeptAt(kept, s, label, n)
  BY <1>1
<1> DEFINE Good(n) == /\ kept[n] \in Seq(Models)
                      /\ \A e : e \in ToSet(kept[n]) <=>
                                    e # label /\ \E i \in 1..n : s[i] = e
           Q == {n \in 0..Len(s) : ~Good(n)}
<1>4. Q = {}
  <2> SUFFICES ASSUME Q # {} PROVE FALSE
    OBVIOUS
  <2>1. PICK n \in Q : \A m \in Q : n <= m
    <3>1. Q \subseteq Nat
      BY <1>3
    <3> HIDE DEF Q
    <3> QED
      BY <3>1, LeastNumber
  <2>2. n \in 0..Len(s) /\ ~Good(n) /\ kept[n] = KeptAt(kept, s, label, n)
    BY <1>3, <2>1
  <2>3. n # 0
    <3>1. ASSUME n = 0 PROVE Good(n)
      <4>1. kept[n] = <<>>
        BY <2>2, <3>1 DEF KeptAt
      <4> QED
        BY <3>1, <4>1 DEF ToSet
    <3> QED
      BY <2>2, <3>1
  <2>4. n - 1 \in 0..Len(s) /\ n - 1 \notin Q /\ n \in 1..Len(s)
    <3>1. n - 1 \in 0..Len(s) /\ n \in 1..Len(s) /\ ~(n <= n - 1)
      BY <1>3, <2>2, <2>3
    <3>2. n - 1 \notin Q
      <4> HIDE DEF Q
      <4> QED
        BY <2>1, <3>1
    <3> QED
      BY <3>1, <3>2
  <2>5. Good(n - 1)
    BY <2>4
  <2>6. s[n] \in Models
    BY <2>4
  <2> DEFINE before == kept[n - 1]
             after  == kept[n]
  <2>7. before \in Seq(Models)
    BY <2>5
  <2>8. \A e : (\E i \in 1..n : s[i] = e) <=> e = s[n] \/ \E i \in 1..(n - 1) : s[i] = e
    BY <1>3, <2>4
  <2>9. CASE s[n] = label
    <3>1. kept[n] = kept[n - 1]
      BY <2>2, <2>3, <2>9 DEF KeptAt
    <3> QED
      BY <2>2, <2>5, <2>8, <2>9, <3>1
  <2>10. CASE s[n] # label
    <3>1. after = Append(before, s[n])
      BY <2>2, <2>3, <2>10 DEF KeptAt
    <3> HIDE DEF before, after
    <3>2. after \in Seq(Models) /\ \A e : e \in ToSet(after) <=> e = s[n] \/ e \in ToSet(before)
      <4>1. /\ after \in Seq(Models) /\ Len(before) \in Nat /\ Len(after) = Len(before) + 1
            /\ after[Len(before) + 1] = s[n]
            /\ \A i \in 1..Len(before) : after[i] = before[i]
        BY <2>6, <2>7, <3>1
      <4>2. \A i : i \in 1..(Len(before) + 1) <=> i \in 1..Len(before) \/ i = Len(before) + 1
        BY <4>1
      <4>3. ToSet(after) = {after[i] : i \in 1..(Len(before) + 1)}
        BY <4>1 DEF ToSet
      <4>4. ToSet(before) = {before[i] : i \in 1..Len(before)}
        BY DEF ToSet
      <4>5. ASSUME NEW e PROVE e \in ToSet(after) <=> e = s[n] \/ e \in ToSet(before)
        <5>1. e \in ToSet(after) <=> \E i \in 1..(Len(before) + 1) : e = after[i]
          BY <4>3
        <5>2. e \in ToSet(before) <=> \E i \in 1..Len(before) : e = before[i]
          BY <4>4
        <5> QED
          BY <4>1, <4>2, <5>1, <5>2
      <4> QED
        BY <4>1, <4>5
    <3>3. \A e : e \in ToSet(after) <=> e # label /\ \E i \in 1..n : s[i] = e
      <4>1. \A e : e \in ToSet(before) <=> e # label /\ \E i \in 1..(n - 1) : s[i] = e
        BY <2>5 DEF before
      <4> QED
        BY <2>8, <2>10, <3>2, <4>1
    <3> QED
      BY <2>2, <3>2, <3>3 DEF after
  <2> QED
    BY <2>9, <2>10
<1>5. Good(Len(s))
  <2>1. Len(s) \in 0..Len(s)
    BY <1>3
  <2> HIDE DEF Good
  <2> QED
    BY <1>4, <2>1
<1>6. ToSet(kept[Len(s)]) = ToSet(s) \ {label}
  <2>1. \A e : e \in ToSet(kept[Len(s)]) <=> e # label /\ \E i \in 1..Len(s) : s[i] = e
    BY <1>5
  <2>2. \A e : e \in ToSet(s) <=> \E i \in 1..Len(s) : s[i] = e
    BY <1>3 DEF ToSet
  <2> QED
    BY <2>1, <2>2
<1> QED
  BY <1>2, <1>5, <1>6

\* Removing an endpoint (ui/oracle.rs:522) leaves sound settings.
LEMMA WithoutIsSound ==
    ASSUME NEW cfg \in SoundSettings, NEW i \in DOMAIN cfg.remotes
    PROVE  Without(cfg, i) \in SoundSettings
<1> DEFINE remotes == cfg.remotes
           label == remotes[i]
           left == RemoveAt(remotes, i)
           entries == Retained(cfg.entries, label)
           w == Without(cfg, i)
<1>1. /\ remotes \in Seq(Labels) /\ cfg.entries \in Seq(Models) /\ cfg.selected \in Nat
      /\ cfg.enabled \in BOOLEAN /\ i \in 1..Len(remotes) /\ label \in Labels
      /\ Local \subseteq ToSet(cfg.entries)
      /\ ToSet(cfg.entries) \subseteq Local \cup ToSet(remotes)
      /\ cfg.selected \in 1..Len(cfg.entries)
  BY DEF SoundSettings
<1>2. entries \in Seq(Models) /\ ToSet(entries) = ToSet(cfg.entries) \ {label}
  BY <1>1, RetainedIs
<1>3. left \in Seq(Labels) /\ ToSet(remotes) \ {label} \subseteq ToSet(left)
  <2> HIDE DEF remotes
  <2>1. left = SubSeq(remotes, 1, i - 1) \o SubSeq(remotes, i + 1, Len(remotes))
    BY DEF RemoveAt
  <2>2. /\ SubSeq(remotes, 1, i - 1) \in Seq(Labels)
        /\ SubSeq(remotes, i + 1, Len(remotes)) \in Seq(Labels)
        /\ Len(SubSeq(remotes, 1, i - 1)) = i - 1
        /\ Len(SubSeq(remotes, i + 1, Len(remotes))) = Len(remotes) - i
    BY <1>1
  <2> DEFINE p == SubSeq(remotes, 1, i - 1)
             q == SubSeq(remotes, i + 1, Len(remotes))
  <2>2a. /\ \A j \in 1..(i - 1) : p[j] = remotes[j]
         /\ \A j \in 1..(Len(remotes) - i) : q[j] = remotes[i + j]
    BY <1>1
  <2>2b. Len(remotes) \in Nat /\ i \in Nat /\ 1 <= i /\ i <= Len(remotes)
    BY <1>1
  <2> HIDE DEF p, q
  <2>2c. p \in Seq(Labels) /\ q \in Seq(Labels) /\ Len(p) = i - 1 /\ Len(q) = Len(remotes) - i
         /\ left = p \o q
    BY <2>1, <2>2 DEF p, q
  <2> HIDE DEF left
  <2>3. left \in Seq(Labels) /\ Len(left) = Len(remotes) - 1
    BY <2>2b, <2>2c
  <2>4. ASSUME NEW j \in 1..Len(remotes), j # i
        PROVE  \E k \in 1..Len(left) : left[k] = remotes[j]
    <3>1. CASE j < i
      <4>1. j \in 1..Len(left) /\ j \in 1..Len(p)
        BY <2>2b, <2>2c, <2>3, <3>1
      <4>2. left[j] = p[j] /\ p[j] = remotes[j]
        BY <2>2a, <2>2c, <4>1
      <4> QED
        BY <4>1, <4>2
    <3>2. CASE j > i
      <4> DEFINE k == j - i
      <4>0. k \in 1..Len(q) /\ j - 1 \in 1..Len(left) /\ j - 1 = Len(p) + k /\ j = i + k
        <5> DEFINE m == Len(remotes)
        <5>1. j \in Nat /\ j <= m /\ m \in Nat
          BY <2>2b
        <5> HIDE DEF m
        <5>2. Len(p) = i - 1 /\ Len(q) = m - i /\ Len(left) = m - 1
          BY <2>2c, <2>3 DEF m
        <5> QED
          BY <2>2b, <3>2, <5>1, <5>2
      <4> HIDE DEF k
      <4>1. left[j - 1] = q[k]
        BY <2>2c, <4>0
      <4>2. q[k] = remotes[i + k]
        BY <2>2a, <2>2c, <4>0
      <4>3. j - 1 \in 1..Len(left) /\ left[j - 1] = remotes[j]
        BY <4>0, <4>1, <4>2
      <4> QED
        BY <4>3
    <3> QED
      BY <2>2b, <2>4, <3>1, <3>2
  <2>5. ASSUME NEW e \in ToSet(remotes), e # label PROVE e \in ToSet(left)
    <3>1. PICK j \in 1..Len(remotes) : remotes[j] = e
      BY <1>1 DEF ToSet
    <3>2. PICK k \in 1..Len(left) : left[k] = remotes[j]
      BY <2>4, <2>5, <3>1
    <3> QED
      BY <2>3, <3>1, <3>2 DEF ToSet
  <2> QED
    BY <2>3, <2>5
<1> HIDE DEF left, entries, remotes, label
<1>4. w = [cfg EXCEPT !.remotes = left, !.entries = entries,
                      !.selected = IF @ > Len(entries) THEN Len(entries) ELSE @]
  BY DEF Without, left, entries, remotes, label
<1>5. Local \subseteq ToSet(entries) /\ ToSet(entries) \subseteq Local \cup ToSet(left)
  BY <1>1, <1>2, <1>3, RemoteLabels
<1>6. Len(entries) \in Nat \ {0}
  <2>1. "r1_7b" \in ToSet(entries)
    BY <1>5 DEF Local
  <2> QED
    BY <1>2, <2>1 DEF ToSet
<1> DEFINE sel == IF cfg.selected > Len(entries) THEN Len(entries) ELSE cfg.selected
<1>7. sel \in 1..Len(entries)
  BY <1>1, <1>6
<1>8. /\ w \in [enabled : BOOLEAN, entries : Seq(Models), remotes : Seq(Labels), selected : Nat]
      /\ w.entries = entries /\ w.remotes = left /\ w.selected = sel
  <2>1. w = [cfg EXCEPT !.remotes = left, !.entries = entries, !.selected = sel]
    BY <1>4
  <2>2. sel \in Nat
    BY <1>6, <1>7
  <2> HIDE DEF w, sel
  <2> QED
    BY <1>2, <1>3, <2>1, <2>2 DEF SoundSettings
<1> HIDE DEF w, sel
<1>9. sel \in DOMAIN entries
  BY <1>2, <1>7
<1>10. w \in SoundSettings
  BY <1>5, <1>8, <1>9 DEF SoundSettings
<1> QED
  BY <1>10 DEF w

\* A new endpoint (ui/oracle.rs:546) comes with its entry.
LEMMA RegisteredIsSound ==
    ASSUME NEW cfg \in SoundSettings, NEW label \in Labels
    PROVE  [cfg EXCEPT !.remotes = Append(@, label), !.entries = Append(@, label),
                       !.selected = Len(cfg.entries) + 1] \in SoundSettings
<1> DEFINE remotes == Append(cfg.remotes, label)
           entries == Append(cfg.entries, label)
           r == [cfg EXCEPT !.remotes = remotes, !.entries = entries,
                            !.selected = Len(cfg.entries) + 1]
<1>1. /\ cfg.remotes \in Seq(Labels) /\ cfg.entries \in Seq(Models) /\ label \in Models
      /\ Local \subseteq ToSet(cfg.entries)
      /\ ToSet(cfg.entries) \subseteq Local \cup ToSet(cfg.remotes)
  BY DEF SoundSettings, Models
<1>2. /\ remotes \in Seq(Labels) /\ entries \in Seq(Models)
      /\ Len(cfg.entries) + 1 \in Nat /\ Len(cfg.entries) + 1 \in DOMAIN entries
  BY <1>1
<1>3. ASSUME NEW T, NEW s \in Seq(T), label \in T
      PROVE  ToSet(Append(s, label)) = ToSet(s) \cup {label}
  <2>1. /\ Len(s) \in Nat /\ DOMAIN s = 1..Len(s) /\ DOMAIN Append(s, label) = 1..(Len(s) + 1)
        /\ \A j \in 1..Len(s) : Append(s, label)[j] = s[j]
        /\ Append(s, label)[Len(s) + 1] = label
    BY <1>3
  <2> QED
    BY <2>1 DEF ToSet
<1>3a. /\ ToSet(remotes) = ToSet(cfg.remotes) \cup {label}
       /\ ToSet(entries) = ToSet(cfg.entries) \cup {label}
  BY <1>1, <1>3
<1> HIDE DEF remotes, entries
<1>4. /\ r \in [enabled : BOOLEAN, entries : Seq(Models), remotes : Seq(Labels), selected : Nat]
      /\ r.entries = entries /\ r.remotes = remotes /\ r.selected = Len(cfg.entries) + 1
  BY <1>2 DEF SoundSettings
<1> HIDE DEF r
<1>5. r \in SoundSettings
  BY <1>1, <1>2, <1>3a, <1>4 DEF SoundSettings
<1> QED
  BY <1>5 DEF r, remotes, entries

\* The settings the program ships with.
LEMMA DefaultIsSound == Default \in SoundSettings
<1> DEFINE shipped == <<"r1_1_5b", "r1_7b">>
<1>1. /\ shipped \in Seq(Models) /\ ToSet(shipped) = Local /\ 1 \in DOMAIN shipped
  BY DEF Models, Local, ToSet
<1> HIDE DEF shipped
<1>2. Default = [enabled |-> TRUE, entries |-> shipped, remotes |-> <<>>, selected |-> 1]
  BY DEF Default, shipped
<1> QED
  BY <1>1, <1>2 DEF SoundSettings

\* What is sent to the worker, and what a save leaves behind.
LEMMA SavedIsSound ==
    ASSUME OracleInv, NEW cfg, "form" \notin short => cfg \in SoundSettings, SaveOracle(cfg)
    PROVE  OracleInv'
<1>1. /\ form' = cfg /\ held' = held /\ WriteFileOf(cfg)
      /\ requests' = Append(requests, [kind |-> "config", cfg |-> cfg])
  BY DEF SaveOracle
<1>2. ("form" \in short') = ("form" \in short)
  BY <1>1 DEF WriteFileOf
<1>3. ASSUME "form" \notin short'
      PROVE  form' \in SoundSettings /\ held' \in SoundSettings /\ requests' \in Seq(Requests)
  <2>1. cfg \in SoundSettings /\ held \in SoundSettings /\ requests \in Seq(Requests)
    BY <1>2, <1>3 DEF OracleInv
  <2>2. [kind |-> "config", cfg |-> cfg] \in Requests
    BY <2>1 DEF Requests
  <2> QED
    BY <1>1, <2>1, <2>2
<1>4. ASSUME "file" \notin short' PROVE file' \in SoundSettings
  <2>1. CASE UNCHANGED <<file, short>>
    BY <1>4, <2>1 DEF OracleInv
  <2>2. CASE file' = Default
    BY <2>2, DefaultIsSound
  <2>3. CASE file' = cfg /\ short' = IF "form" \in short THEN {"form", "file"} ELSE {}
    BY <1>4, <2>3
  <2>4. CASE short' = short \cup {"file"}
    BY <1>4, <2>4
  <2> QED
    BY <1>1, <2>1, <2>2, <2>3, <2>4 DEF WriteFileOf
<1> QED
  BY <1>3, <1>4 DEF OracleInv

LEMMA OracleInitInv == OracleInit => OracleInv
<1>1. [kind |-> "ping"] \in Requests
  BY DEF Requests
<1> QED
  BY <1>1, DefaultIsSound DEF OracleInit, OracleInv

\* A step beside the file keeps the invariant if it keeps sound settings sound.
LEMMA BesideTheFile ==
    ASSUME OracleInv, UNCHANGED <<file, short>>,
           "form" \notin short =>
               form' \in SoundSettings /\ held' \in SoundSettings /\ requests' \in Seq(Requests)
    PROVE  OracleInv'
  BY DEF OracleInv

LEMMA OracleStepInv == OracleInv /\ [OracleNext]_oracle => OracleInv'
<1> SUFFICES ASSUME OracleInv, [OracleNext]_oracle
             PROVE  OracleInv'
  OBVIOUS
<1> DEFINE sound == "form" \notin short
<1>0. sound => /\ form \in SoundSettings /\ held \in SoundSettings
               /\ requests \in Seq(Requests)
  BY DEF OracleInv
<1>1. CASE Save
  BY <1>0, <1>1, SavedIsSound DEF Save
<1>2. CASE EditBehavior
  <2>1. ASSUME sound PROVE [form EXCEPT !.enabled = ~@] \in SoundSettings
    <3> DEFINE f == [form EXCEPT !.enabled = ~@]
    <3>1. /\ f \in [enabled : BOOLEAN, entries : Seq(Models), remotes : Seq(Labels),
                    selected : Nat]
          /\ f.entries = form.entries /\ f.remotes = form.remotes
          /\ f.selected = form.selected
      BY <1>0, <2>1 DEF SoundSettings
    <3> HIDE DEF f
    <3>2. f \in SoundSettings
      BY <1>0, <2>1, <3>1 DEF SoundSettings
    <3> QED
      BY <3>2 DEF f
  <2> QED
    BY <1>0, <1>2, <2>1, BesideTheFile DEF EditBehavior, channels
<1>3. CASE EditRuntime
  <2>1. PICK i \in DOMAIN form.entries : form' = [form EXCEPT !.selected = i]
    BY <1>3 DEF EditRuntime
  <2>2. ASSUME sound PROVE form' \in SoundSettings
    <3> DEFINE f == [form EXCEPT !.selected = i]
    <3>1. /\ f \in [enabled : BOOLEAN, entries : Seq(Models), remotes : Seq(Labels),
                    selected : Nat]
          /\ f.entries = form.entries /\ f.remotes = form.remotes /\ f.selected = i
      <4>1. i \in Nat
        BY <1>0, <2>2 DEF SoundSettings
      <4> QED
        BY <1>0, <2>2, <4>1 DEF SoundSettings
    <3> HIDE DEF f
    <3>2. f \in SoundSettings
      BY <1>0, <2>2, <3>1 DEF SoundSettings
    <3> QED
      BY <2>1, <3>2 DEF f
  <2> QED
    BY <1>0, <1>3, <2>2, BesideTheFile DEF EditRuntime, channels
<1>4. CASE RegisterEndpoint
  <2> DEFINE With(label) == [form EXCEPT !.remotes = Append(@, label),
                                         !.entries = Append(@, label),
                                         !.selected = Len(form.entries) + 1]
  <2>1. PICK label \in Labels : SaveOracle(With(label))
    BY <1>4 DEF RegisterEndpoint
  <2>2. sound => With(label) \in SoundSettings
    BY <1>0, RegisteredIsSound
  <2> HIDE DEF With
  <2> QED
    BY <2>1, <2>2, SavedIsSound
<1>5. CASE RemoveEndpoint
  <2>1. PICK i \in DOMAIN form.remotes : SaveOracle(Without(form, i))
    BY <1>5 DEF RemoveEndpoint
  <2>2. sound => Without(form, i) \in SoundSettings
    BY <1>0, WithoutIsSound
  <2> QED
    BY <2>1, <2>2, SavedIsSound
<1>6. CASE SendQuestion
  <2>1. sound => [kind |-> "ask", shown |-> Chosen(form)] \in Requests
    BY <1>0, <1>6 DEF SoundSettings, Requests, Chosen
  <2> QED
    BY <1>0, <1>6, <2>1, BesideTheFile DEF SendQuestion, settings
<1>7. CASE Ping
  <2>1. [kind |-> "ping"] \in Requests
    BY DEF Requests
  <2> QED
    BY <1>0, <1>7, <2>1, BesideTheFile DEF Ping, settings
<1>8. CASE OracleTakes
  <2>1. sound => Head(requests) \in Requests /\ requests' \in Seq(Requests)
    BY <1>0, <1>8 DEF OracleTakes
  <2>2. sound /\ Head(requests).kind = "config" => Head(requests).cfg \in SoundSettings
    BY <2>1 DEF Requests
  <2> QED
    BY <1>0, <1>8, <2>1, <2>2, BesideTheFile DEF OracleTakes
<1>9. CASE RelaunchOracle
  <2>1. /\ form' = file /\ held' = file /\ requests' = <<[kind |-> "ping"]>> /\ file' = file
        /\ ("form" \in short') = ("file" \in short)
        /\ ("file" \in short') = ("file" \in short)
    BY <1>9 DEF RelaunchOracle, Started
  <2>2. requests' \in Seq(Requests)
    BY <2>1 DEF Requests
  <2> QED
    BY <2>1, <2>2 DEF OracleInv
<1>10. CASE UNCHANGED <<settings, requests>>
  BY <1>0, <1>10, BesideTheFile DEF settings
<1> QED
  BY <1>1, <1>2, <1>3, <1>4, <1>5, <1>6, <1>7, <1>8, <1>9, <1>10
     DEF OracleNext, Tab, OracleAnswers, PumpOracle, oracle, channels

\* In the tab, in the worker and in the file the selected model exists and has
\* its endpoint, for any labels and any sequence of edits, saves, removals and
\* restarts, with files that are lost, left as they were or cut short: only
\* what is read from a file that was cut and parses may be without
\* (ui/oracle.rs:522, config.rs:81).
THEOREM ModelIsThere == OracleInit /\ [][OracleNext]_oracle => []ModelResolves
<1>1. ASSUME NEW cfg \in SoundSettings PROVE Resolves(cfg)
  <2>1. /\ cfg.selected \in DOMAIN cfg.entries
        /\ ToSet(cfg.entries) \subseteq Local \cup ToSet(cfg.remotes)
    BY DEF SoundSettings
  <2>2. cfg.entries[cfg.selected] \in ToSet(cfg.entries)
    BY <2>1 DEF ToSet
  <2> QED
    BY <2>1, <2>2 DEF Resolves, HasModel, Chosen
<1>2. OracleInv => ModelResolves
  BY <1>1 DEF OracleInv, ModelResolves
<1> QED
  BY <1>2, OracleInitInv, OracleStepInv, PTL

-----------------------------------------------------------------------------
\* The scenes that TLC follows are behaviours of the programs the theorems are
\* about: a scene of another program is one in which nothing happens.
THEOREM ScenesAreThePrograms ==
    DesktopSpec => InstallerSpec /\ Spec /\ OracleInit /\ [][OracleNext]_oracle
<1>1. DesktopInit => InstallerInit /\ Init /\ OracleInit
  BY DEF DesktopInit
<1>2. [DesktopNext]_desktop =>
          [InstallerNext]_installer /\ [Next]_cockpit /\ [OracleNext]_oracle
  BY DEF DesktopNext, desktop, InInstaller, InCockpit, InOracle
<1> QED
  BY <1>1, <1>2, PTL DEF DesktopSpec, InstallerSpec, Spec
=============================================================================

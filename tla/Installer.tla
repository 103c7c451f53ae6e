------------------------------ MODULE Installer ------------------------------
(***************************************************************************)
(* The install wizard (gadarah-wizard) on one Windows account: installs,   *)
(* updates and uninstalls the program while its GUI and daemon run, are    *)
(* started and are edited beside it.  The wizard is a window and a worker  *)
(* thread; closing the window ends the worker wherever it is.  The GUI's   *)
(* update notice, which starts the wizard as the GUI's child, is here too. *)
(*                                                                         *)
(* Abstractions.  One install directory and one wizard at a time; a file   *)
(* is the release it came from, or Absent, Torn (created, not yet          *)
(* written) or Own (the user's); progress, logs and layout are left out.   *)
(* A wizard is a release build: a development build's empty payload, from  *)
(* which nothing is unpacked (install.rs:278), and an entry whose name     *)
(* leads out of the directory, which is passed over (install.rs:290), are  *)
(* left out.  The self-delete shim walks the directory in one step: what   *)
(* is checked here is about one file at a time.                            *)
(* External: Windows locks the file of a running program, and taskkill /T  *)
(* ends a process with its children.                                       *)
(***************************************************************************)
EXTENDS Integers, Sequences

CONSTANTS
    Latest,     \* bound: the releases are 1..Latest
    MaxRuns     \* bound: wizards started

\* A first release is out, and a wizard may be started.
ASSUME InstallerAssumption == Latest \in Nat \ {0} /\ MaxRuns \in Nat \ {0}

Absent == 0
Torn   == -1
Own    == -2
Releases == 1..Latest

\* What a release carries, in the order the wizard unpacks it.
Payload   == <<"daemon", "gui", "script", "firms", "settings">>
Programs  == {"daemon", "gui", "script"}
InConfig  == {"firms", "settings"}
Files     == Programs \cup InConfig \cup {"env", "wizard"}

\* The entries of the install directory, as the uninstaller walks them.
Entries == <<"gui", "daemon", "script", "config", "env", "wizard">>
Within(entry) == IF entry = "config" THEN InConfig ELSE {entry}

VARIABLES
    disk,       \* the install directory: each file's content
    links,      \* the shortcuts: "menu", "desktop"
    entry,      \* the release in Add/Remove Programs, or Absent
    running,    \* programs running: "gui", "daemon"
    published,  \* the newest release on GitHub
    cached,     \* latest_tag in update_check.json, or Absent
    notice,     \* the running GUI's update alert: "none", "shown", "gone"
    wiz,        \* the wizard
    shim,       \* the self-delete shims: how many wait, and which programs
                \* they deleted that no wizard has created since
    runs        \* wizards started so far

machine == <<disk, links, entry, running>>
github  == <<published, cached, notice>>
installer == <<machine, github, wiz, shim, runs>>

Whole(f) == disk[f] \in Releases

-----------------------------------------------------------------------------
(* The wizard window: five tabs, one worker.                               *)

Tabs == <<"Welcome", "License", "Components", "Install", "Finish">>

\* WizardApp::new: update and uninstall have the licence accepted; keep my
\* data is ticked.
Opened(mode, release, inside, child) ==
    [mode |-> mode, release |-> release, inside |-> inside, child |-> child,
     tab |-> 1, accepted |-> mode # "install", confirmed |-> FALSE,
     keep |-> TRUE, step |-> "idle", todo |-> <<>>, unseen |-> FALSE,
     outcome |-> "none", error |-> FALSE]

Closed == [Opened("closed", Absent, FALSE, FALSE) EXCEPT !.accepted = FALSE]

IsOpen   == wiz.mode # "closed"
OnTab(t) == IsOpen /\ Tabs[wiz.tab] = t

Open(w) ==
    /\ ~IsOpen
    /\ runs < MaxRuns
    /\ wiz' = w
    /\ runs' = runs + 1
    /\ UNCHANGED <<machine, shim>>

\* The user runs a downloaded wizard, bare or with --update.
RunDownloaded ==
    /\ \E release \in 1..published, mode \in {"install", "update"} :
            Open(Opened(mode, release, FALSE, FALSE))
    /\ UNCHANGED github

\* Add/Remove Programs runs the UninstallString: the wizard in the install
\* directory with --uninstall.
RunUninstaller ==
    /\ entry # Absent /\ Whole("wizard")
    /\ Open(Opened("uninstall", disk["wizard"], TRUE, FALSE))
    /\ UNCHANGED github

\* can_advance on the tabs that have a Next button.
CanAdvance ==
    CASE OnTab("Welcome")    -> TRUE
      [] OnTab("License")    -> wiz.accepted
      [] OnTab("Components") -> wiz.mode = "uninstall" => wiz.confirmed
      [] OTHER               -> FALSE

\* Next; reaching the Install tab starts the worker.
Advance ==
    /\ IsOpen /\ CanAdvance
    /\ wiz' = [wiz EXCEPT
                 !.tab = @ + 1,
                 !.step = IF Tabs[wiz.tab + 1] # "Install" THEN @
                          ELSE IF wiz.mode = "uninstall" THEN "stop" ELSE "prepare"]
    /\ UNCHANGED <<machine, github, shim, runs>>

\* Back; not once the worker has started.
Retreat ==
    /\ IsOpen /\ wiz.tab \in 2..3
    /\ wiz' = [wiz EXCEPT !.tab = @ - 1]
    /\ UNCHANGED <<machine, github, shim, runs>>

\* The tick boxes: the licence, and what an uninstall confirms and keeps.  What
\* a fresh install ticks besides (a desktop shortcut, Ollama) is chosen where it
\* is used; an update leaves the two as they are at the start.
Tick(on, mode, boxes) ==
    /\ OnTab(on) /\ wiz.mode = mode
    /\ \E box \in boxes : wiz' = [wiz EXCEPT ![box] = ~@]
    /\ UNCHANGED <<machine, github, shim, runs>>

AcceptLicense    == Tick("License", "install", {"accepted"})
ConfirmUninstall == Tick("Components", "uninstall", {"confirmed", "keep"})

\* A frame on the Install tab drains the worker's events: the last of them,
\* success or failure, ends the tab.
Drained == [wiz EXCEPT !.error = wiz.outcome = "failed"]

\* In the same frame the window moves on to Finish.
EndOfWork ==
    /\ OnTab("Install") /\ wiz.outcome # "none"
    /\ wiz' = [Drained EXCEPT !.tab = @ + 1]
    /\ UNCHANGED <<machine, github, shim, runs>>

\* Cancel, Close, or the window's own button, on any tab: the process ends
\* and the worker with it.
CloseWizard ==
    /\ IsOpen
    /\ wiz' = Closed
    /\ UNCHANGED <<machine, github, shim, runs>>

\* What the last tab shows, whatever the worker's outcome was: its text, and
\* the assistant's mood.
SaysComplete == OnTab("Finish")
Mood ==
    CASE OnTab("Finish")               -> "triumph"
      [] OnTab("Install") /\ wiz.error -> "worry"
      [] OnTab("Install")              -> "working"
      [] OTHER                         -> "explaining"

-----------------------------------------------------------------------------
(* run_install: the worker of an install or an update.                     *)

Locked(f) == f \in running \/ (f = "wizard" /\ IsOpen /\ wiz.inside)

At(step) == IsOpen /\ wiz.step = step
InstallerAt(step) == At(step) /\ wiz.mode # "uninstall"

Goto(step) == wiz' = [wiz EXCEPT !.step = step]

End(outcome) == wiz' = [wiz EXCEPT !.step = "idle", !.todo = <<>>, !.outcome = outcome]

\* Create the install directory, or fail.
Prepare ==
    /\ InstallerAt("prepare")
    /\ \/ wiz' = [wiz EXCEPT !.step = IF wiz.mode = "update" THEN "stop" ELSE "extract",
                             !.todo = Payload]
       \/ End("failed")
    /\ UNCHANGED <<machine, github, shim, runs>>

\* taskkill /F /T by image name, once for each program; a failure is logged
\* and passed over.  A wizard the GUI started goes with the GUI.
Taskkill(next) ==
    /\ running' \in SUBSET running
    /\ notice' = IF "gui" \in running' THEN notice ELSE "none"
    /\ IF wiz.child /\ "gui" \notin running' THEN wiz' = Closed ELSE Goto(next)
    /\ UNCHANGED <<disk, links, entry, published, cached, shim, runs>>

StopPrograms == InstallerAt("stop") /\ Taskkill("extract")

\* Mutation of Spared: the settings file is not recognised.
SparesEnvOnly(f) == wiz.mode = "update" /\ f = "env" /\ disk[f] # Absent

\* What an update leaves as it is: .env* and config/gadarah.toml, if there.
Spared(f) ==
    /\ wiz.mode = "update"
    /\ f \in {"env", "settings"}
    /\ disk[f] # Absent

\* The next payload file: an update looks whether it is there to be spared
\* (unseen: it was not); the archive may not give it, its directory may not be
\* made.
GotoCreate ==
    wiz' = [wiz EXCEPT !.step = "create",
                       !.unseen = wiz.mode = "update" /\ disk[Head(wiz.todo)] = Absent]

ExtractFile ==
    /\ InstallerAt("extract")
    /\ \/ wiz.todo = <<>> /\ Goto("copy")
       \/ /\ wiz.todo # <<>> /\ Spared(Head(wiz.todo))
          /\ wiz' = [wiz EXCEPT !.todo = Tail(@)]
       \/ /\ wiz.todo # <<>> /\ ~Spared(Head(wiz.todo))
          /\ GotoCreate \/ End("failed")
    /\ UNCHANGED <<machine, github, shim, runs>>

\* What a file that is created leaves of it.
Emptied(f) ==
    /\ disk' = [disk EXCEPT ![f] = Torn]
    /\ shim' = [shim EXCEPT !.swept = @ \ {f}]
    /\ Goto("write")

\* Mutation of Create: a file that cannot be created is passed over.
CreateOrPass(f) ==
    IF Locked(f)
    THEN wiz' = [wiz EXCEPT !.step = "extract", !.todo = Tail(@)] /\ UNCHANGED <<disk, shim>>
    ELSE Emptied(f)

\* File::create empties the file, or fails, and always fails on a running
\* program.
Create(f) ==
    \/ ~Locked(f) /\ Emptied(f)
    \/ End("failed") /\ UNCHANGED <<disk, shim>>

CreateFile ==
    /\ InstallerAt("create")
    /\ Create(Head(wiz.todo))
    /\ UNCHANGED <<links, entry, running, github, runs>>

\* write_all, or a full disk.  A file deleted under the wizard's handle stays
\* deleted.
WriteFile ==
    /\ InstallerAt("write")
    /\ \/ /\ disk' = [disk EXCEPT ![Head(wiz.todo)] = IF @ = Absent THEN @ ELSE wiz.release]
          /\ wiz' = [wiz EXCEPT !.step = "extract", !.todo = Tail(@)]
       \/ /\ End("failed")
          /\ UNCHANGED disk
    /\ UNCHANGED <<links, entry, running, github, shim, runs>>

\* The wizard copies itself into the install directory, unless it runs from
\* there; a failure is logged.
CopySelf ==
    /\ InstallerAt("copy")
    /\ \/ UNCHANGED disk
       \/ ~wiz.inside /\ disk' = [disk EXCEPT !["wizard"] = wiz.release]
    /\ Goto("links")
    /\ UNCHANGED <<links, entry, running, github, shim, runs>>

\* Start Menu shortcut, and the Desktop one, which an update always writes and a
\* fresh install if it is ticked; each may fail.
WriteShortcuts ==
    /\ InstallerAt("links")
    /\ \E made \in SUBSET {"menu", "desktop"} : links' = links \cup made
    /\ Goto("record")
    /\ UNCHANGED <<disk, entry, running, github, shim, runs>>

\* The Add/Remove Programs entry, then the Ollama script if selected; each
\* may fail and neither ends the run.
RecordEntry ==
    /\ InstallerAt("record")
    /\ entry' \in {entry, wiz.release}
    /\ Goto("final") \/ (wiz.mode = "install" /\ Goto("ollama"))
    /\ UNCHANGED <<disk, links, running, github, shim, runs>>

\* install_ollama.ps1 returns, with whatever status; it need not return.
OllamaReturns ==
    /\ InstallerAt("ollama")
    /\ Goto("final")
    /\ UNCHANGED <<machine, github, shim, runs>>

Finalise ==
    /\ At("final")
    /\ End("completed")
    /\ UNCHANGED <<machine, github, shim, runs>>

-----------------------------------------------------------------------------
(* run_uninstall: the worker of an uninstall.                              *)

UninstallerAt(step) == At(step) /\ wiz.mode = "uninstall"

KillPrograms == UninstallerAt("stop") /\ Taskkill("links")

\* Start Menu folder and Desktop shortcut; a failure is logged.
RemoveLinks ==
    /\ UninstallerAt("links")
    /\ links' \in SUBSET links
    /\ Goto("registry")
    /\ UNCHANGED <<disk, entry, running, github, shim, runs>>

RemoveEntry ==
    /\ UninstallerAt("registry")
    /\ entry' \in {entry, Absent}
    /\ wiz' = [wiz EXCEPT !.step = "delete", !.todo = Entries]
    /\ UNCHANGED <<disk, links, running, github, shim, runs>>

\* delete_install_dir passes over the running wizard and, if asked to keep
\* the user's data, over .env* and config; an entry that cannot be deleted is
\* logged, a directory that cannot be read ends the run.
Kept(e) == e = "wizard" \/ (wiz.keep /\ e \in {"env", "config"})

DeleteEntry ==
    /\ UninstallerAt("delete")
    /\ IF wiz.todo = <<>>
       THEN Goto("schedule") /\ UNCHANGED disk
       ELSE LET e == Head(wiz.todo)
            IN  \/ End("failed") /\ UNCHANGED disk
                \/ /\ \/ UNCHANGED disk
                      \/ /\ ~Kept(e) /\ \A f \in Within(e) : ~Locked(f)
                         /\ disk' = [f \in Files |-> IF f \in Within(e) THEN Absent ELSE disk[f]]
                   /\ wiz' = [wiz EXCEPT !.todo = Tail(@)]
    /\ UNCHANGED <<links, entry, running, github, shim, runs>>

\* schedule_self_delete starts a cmd.exe that outlives the wizard.
ScheduleSelfDelete ==
    /\ UninstallerAt("schedule")
    /\ \E more \in 0..1 : shim' = [shim EXCEPT !.waiting = @ + more]
    /\ Goto("final")
    /\ UNCHANGED <<machine, github, runs>>

\* Three seconds later: del the wizard, rd /s /q the install directory, whatever
\* has been installed there by then; what runs stays.
ShimFires ==
    /\ shim.waiting > 0
    /\ LET gone == {f \in Files : disk[f] # Absent /\ ~Locked(f)}
       IN  /\ disk' = [f \in Files |-> IF f \in gone THEN Absent ELSE disk[f]]
           /\ shim' = [waiting |-> shim.waiting - 1, swept |-> shim.swept \cup (gone \cap Programs)]
    /\ UNCHANGED <<links, entry, running, github, wiz, runs>>

-----------------------------------------------------------------------------
(* The programs beside the wizard.                                         *)

\* A shortcut starts the GUI; the single-instance lock refuses a second.
LaunchGui ==
    /\ links # {} /\ Whole("gui") /\ "gui" \notin running
    /\ running' = running \cup {"gui"}
    /\ UNCHANGED <<disk, links, entry, github, wiz, shim, runs>>

\* Launch on the Finish tab: spawn_gui, and the wizard closes if the program
\* starts.
GuiStarts == Whole("gui")

LaunchFromFinish ==
    /\ OnTab("Finish") /\ wiz.mode # "uninstall" /\ GuiStarts
    /\ running' = running \cup {"gui"}
    /\ wiz' = Closed
    /\ UNCHANGED <<disk, links, entry, github, shim, runs>>

\* The GUI starts the daemon of its own directory.
StartDaemon ==
    /\ "gui" \in running /\ Whole("daemon") /\ "daemon" \notin running
    /\ running' = running \cup {"daemon"}
    /\ UNCHANGED <<disk, links, entry, github, wiz, shim, runs>>

\* A program ends; what the GUI had started goes on without a parent.
EndProgram ==
    /\ \E p \in running :
        /\ running' = running \ {p}
        /\ notice' = IF p = "gui" THEN "none" ELSE notice
        /\ wiz' = IF p = "gui" /\ IsOpen THEN [wiz EXCEPT !.child = FALSE] ELSE wiz
    /\ UNCHANGED <<disk, links, entry, published, cached, shim, runs>>

\* The user binds a broker account or saves settings in the GUI, or edits a
\* firm profile.
EditFile ==
    /\ \/ "gui" \in running /\ \E f \in {"env", "settings"} : disk' = [disk EXCEPT ![f] = Own]
       \/ Whole("firms") /\ disk' = [disk EXCEPT !["firms"] = Own]
    /\ UNCHANGED <<links, entry, running, github, wiz, shim, runs>>

-----------------------------------------------------------------------------
(* The update notice: one check in the background of each GUI session.     *)

Publish ==
    /\ published < Latest
    /\ published' = published + 1
    /\ UNCHANGED <<machine, cached, notice, wiz, shim, runs>>

\* run_check: the release the cache holds while it is fresh, else the one
\* GitHub answers with; no answer, no alert.
KnownReleases == {cached, published} \ {Absent}
IsNewer(latest, current) == latest > current

CheckForUpdate ==
    /\ "gui" \in running /\ notice = "none"
    /\ \E tag \in KnownReleases :
        /\ cached' = tag
        /\ notice' = IF IsNewer(tag, disk["gui"]) THEN "shown" ELSE "gone"
    /\ UNCHANGED <<machine, published, wiz, shim, runs>>

\* Update Now: the wizard beside the GUI, as its child, with --update; with
\* no wizard there, the release page.  Either dismisses the alert.
LocalWizard == disk["wizard"] # Absent

UpdateNow ==
    /\ notice = "shown"
    /\ notice' = "gone"
    /\ UNCHANGED <<published, cached>>
    /\ IF ~LocalWizard
       THEN UNCHANGED <<machine, wiz, shim, runs>>
       ELSE /\ Whole("wizard")
            /\ Open(Opened("update", disk["wizard"], TRUE, TRUE))

DismissNotice ==
    /\ notice = "shown"
    /\ notice' = "gone"
    /\ UNCHANGED <<machine, published, cached, wiz, shim, runs>>

-----------------------------------------------------------------------------
\* A machine without the program, or what a first wizard has just left that
\* uninstalled it: the user's data, the wizard and a shim to delete it.
InstallerInit ==
    /\ \/ /\ disk = [f \in Files |-> Absent]
          /\ runs = 0 /\ shim = [waiting |-> 0, swept |-> {}]
       \/ /\ disk = [f \in Files |-> IF f \in Programs THEN Absent
                                     ELSE IF f \in {"env", "settings"} THEN Own ELSE 1]
          /\ runs = 1 /\ shim = [waiting |-> 1, swept |-> {}]
    /\ links = {} /\ entry = Absent /\ running = {}
    /\ published = 1 /\ cached = Absent /\ notice = "none"
    /\ wiz = Closed

Window ==
    \/ Advance \/ Retreat \/ CloseWizard
    \/ AcceptLicense \/ ConfirmUninstall
    \/ EndOfWork \/ LaunchFromFinish

InstallWorker ==
    \/ Prepare \/ StopPrograms \/ ExtractFile \/ CreateFile \/ WriteFile \/ CopySelf
    \/ WriteShortcuts \/ RecordEntry \/ OllamaReturns

UninstallWorker ==
    KillPrograms \/ RemoveLinks \/ RemoveEntry \/ DeleteEntry \/ ScheduleSelfDelete

Beside ==
    \/ LaunchGui \/ StartDaemon \/ EndProgram \/ EditFile
    \/ Publish \/ CheckForUpdate \/ UpdateNow \/ DismissNotice

InstallerNext ==
    \/ RunDownloaded \/ RunUninstaller
    \/ Window
    \/ InstallWorker \/ UninstallWorker \/ Finalise
    \/ ShimFires
    \/ Beside

InstallerSpec == InstallerInit /\ [][InstallerNext]_installer

-----------------------------------------------------------------------------
(* Properties.                                                             *)

\* Where a worker is, and the wizard's fields.
Steps == {"idle", "prepare", "stop", "extract", "create", "write", "copy", "links", "record",
          "ollama", "registry", "delete", "schedule", "final"}

WizardState ==
    [mode : {"closed", "install", "update", "uninstall"}, release : Releases \cup {Absent},
     inside : BOOLEAN, child : BOOLEAN, tab : DOMAIN Tabs,
     accepted : BOOLEAN, confirmed : BOOLEAN, keep : BOOLEAN, step : Steps,
     todo : Seq(Files \cup {"config"}), unseen : BOOLEAN,
     outcome : {"none", "completed", "failed"}, error : BOOLEAN]

\* Each variable of the installer stays in its domain.
InstallerTypeOK ==
    /\ disk \in [Files -> Releases \cup {Absent, Torn, Own}]
    /\ links \subseteq {"menu", "desktop"}
    /\ entry \in Releases \cup {Absent}
    /\ running \subseteq {"gui", "daemon"}
    /\ published \in Releases /\ cached \in Releases \cup {Absent}
    /\ notice \in {"none", "shown", "gone"}
    /\ wiz \in WizardState
    /\ shim \in [waiting : Nat, swept : SUBSET Programs] /\ runs \in 0..MaxRuns

\* A worker that reports success has left every program of its release whole
\* on disk, whatever ran, was locked or was closed meanwhile, but for what the
\* shim of an earlier uninstall has deleted since its file was created.
CompletedIsWhole ==
    wiz.outcome = "completed" /\ wiz.mode # "uninstall" =>
        \A f \in Programs :
            disk[f] = wiz.release \/ (disk[f] = Absent /\ f \in shim.swept)

\* Bound credentials and saved settings go only by a fresh install, which
\* brings its own settings, by an uninstall that was told to drop them, or
\* deleted by the shim of one; settings also if they are saved just after an
\* update found none and before it has written those of its release.
OwnDataKept ==
    [][\A f \in {"env", "settings"} :
        disk[f] = Own /\ disk'[f] # Own =>
            \/ /\ f = "settings"
               /\ wiz.mode = "install" \/ wiz.unseen
            \/ wiz.mode = "uninstall" /\ ~wiz.keep
            \/ shim.waiting > 0 /\ disk'[f] = Absent]_installer

(* What a comment or a text of the wizard says, and the program does not   *)
(* keep.                                                                   *)

\* finish.rs:7-60 announces success on the last tab; main.rs:374 moves
\* there on failure too.
FinishTellsTruth == SaysComplete \/ Mood = "triumph" => wiz.outcome = "completed"

\* install.rs:127-130 reports an install complete whose programs are there; the
\* shim of an uninstall before it may have deleted them.
CompletedIsThere ==
    wiz.outcome = "completed" /\ wiz.mode # "uninstall" =>
        \A f \in Programs : disk[f] = wiz.release

\* finish.rs:22: an update leaves the user's profiles alone.
ProfilesPreserved ==
    [][wiz.mode = "update" /\ disk["firms"] = Own => disk'["firms"] = Own]_installer

\* finish.rs:103: what the user asked to keep is still there.
KeptDataStays ==
    [][\A f \in {"env"} \cup InConfig :
        wiz.mode = "uninstall" /\ wiz.keep /\ disk[f] # Absent => disk'[f] # Absent]_installer

\* The Add/Remove Programs entry names an uninstaller that is there.
UninstallerExists == entry # Absent /\ ~IsOpen /\ shim.waiting = 0 => Whole("wizard")

\* update_check.rs:202: Update Now brings the release the notice announced.
UpdateBringsRelease == IsOpen /\ wiz.child => wiz.release = cached

\* Stopping the programs leaves the update that asked for it running.
UpdaterSurvives == [][StopPrograms => wiz'.mode # "closed"]_installer

\* With no wizard at work the GUI and the daemon are of one release.
SameRelease ==
    ~IsOpen /\ Whole("gui") /\ Whole("daemon") => disk["gui"] = disk["daemon"]

\* components.rs:138: an update refreshes a shortcut only if it is present.
ShortcutOnlyRefreshed == [][wiz.mode = "update" => links' \subseteq links]_installer

\* main.rs:33-35: an existing installation is updated, its settings kept.
SettingsSurviveReinstall ==
    [][disk["settings"] = Own /\ wiz.mode = "install" => disk'["settings"] = Own]_installer
=============================================================================

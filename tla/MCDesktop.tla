------------------------------ MODULE MCDesktop ------------------------------
(***************************************************************************)
(* The desktop programs for TLC: the installer, the cockpit of the GUI and *)
(* the Oracle tab.  They share no state that a property of one could see,  *)
(* so a behaviour follows one of them, its scene, and leaves the others as *)
(* they begin.                                                             *)
(***************************************************************************)
EXTENDS Cockpit, Installer, Oracle

VARIABLE scene

desktop == <<scene, installer, cockpit, oracle>>

DesktopInit ==
    /\ scene \in {"installer", "cockpit", "oracle"}
    /\ InstallerInit /\ Init /\ OracleInit
    /\ scene # "cockpit" => ~shared.limits

InInstaller(A) == scene = "installer" /\ A /\ UNCHANGED <<scene, cockpit, oracle>>
InCockpit(A)   == scene = "cockpit" /\ A /\ UNCHANGED <<scene, installer, oracle>>
InOracle(A)    == scene = "oracle" /\ A /\ UNCHANGED <<scene, installer, cockpit>>

DesktopNext == InInstaller(InstallerNext) \/ InCockpit(Next) \/ InOracle(OracleNext)

\* The worker's loop and the frames of the Oracle tab (OracleFairness);
\* nothing else is fair.
DesktopSpec ==
    /\ DesktopInit /\ [][DesktopNext]_desktop
    /\ WF_desktop(InOracle(OracleTakes))
    /\ WF_desktop(InOracle(OracleAnswers))
    /\ WF_desktop(InOracle(PumpOracle))

\* Each variable stays in its domain.
DesktopTypeOK == InstallerTypeOK /\ TypeOK /\ OracleTypeOK
=============================================================================

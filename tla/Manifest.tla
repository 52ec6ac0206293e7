------------------------------ MODULE Manifest ------------------------------
(***************************************************************************)
(* The command line of main.cpp that registers the application with        *)
(* OpenVR: --install_manifest, --uninstall_manifest, --reinstall_manifest. *)
(* OpenVR keeps what it was told; each run of the program is a few calls,  *)
(* and each call may fail.                                                 *)
(***************************************************************************)

VARIABLES
    installed,   \* IsApplicationInstalled(MANIFEST_KEY)
    autoLaunch,  \* what SetApplicationAutoLaunch set last
    wanted,      \* of the run under way: what handleManifestArguments has yet to do
    report       \* of the last run: what the user was told

vars == <<installed, autoLaunch, wanted, report>>

Init ==
    /\ installed = FALSE
    /\ autoLaunch = FALSE
    /\ wanted = {}
    /\ report = "none"

-----------------------------------------------------------------------------
Start(jobs) ==
    /\ wanted = {}
    /\ wanted' = jobs
    /\ report' = "none"
    /\ UNCHANGED <<installed, autoLaunch>>

(* A call of OpenVR fails, or the runtime, the interface or the file is not there. *)
Fail ==
    /\ wanted # {}
    /\ wanted' = {}
    /\ report' = "failed"
    /\ UNCHANGED <<installed, autoLaunch>>

(* uninstallVRManifest; the message speaks of an uninstall if nothing is left to do. *)
Uninstall ==
    /\ "uninstall" \in wanted
    /\ installed' = FALSE
    /\ autoLaunch' = FALSE
    /\ wanted' = wanted \ {"uninstall"}
    /\ report' = IF wanted' = {} THEN "uninstalled" ELSE report

(* installVRManifest has nothing to do if the manifest is there. *)
InstallAgain ==
    /\ wanted = {"install"}
    /\ installed
    /\ wanted' = {}
    /\ report' = "installed"
    /\ UNCHANGED <<installed, autoLaunch>>

(* AddApplicationManifest. *)
AddManifest ==
    /\ wanted = {"install"}
    /\ ~installed
    /\ installed' = TRUE
    /\ wanted' = {"autoLaunch"}
    /\ UNCHANGED <<autoLaunch, report>>

(* SetApplicationAutoLaunch. *)
SetAutoLaunch ==
    /\ wanted = {"autoLaunch"}
    /\ autoLaunch' = TRUE
    /\ wanted' = {}
    /\ report' = "installed"
    /\ UNCHANGED installed

Next ==
    \/ \E jobs \in {{"install"}, {"uninstall"}, {"install", "uninstall"}} : Start(jobs)
    \/ Fail
    \/ Uninstall
    \/ InstallAgain \/ AddManifest \/ SetAutoLaunch

SafeSpec == Init /\ [][Next]_vars

-----------------------------------------------------------------------------
(* Who is told that the manifest was installed has the application start with  *)
(* SteamVR, whatever became of earlier attempts.                                *)
InstalledMeansAutoLaunch == report = "installed" => installed /\ autoLaunch

=============================================================================

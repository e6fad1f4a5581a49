-------------------------- MODULE SetupTransaction --------------------------
(***************************************************************************)
(* The setup program: run_install of setup/transaction.rs with the service *)
(* functions, file and registry backups it drives, and the uninstall of    *)
(* setup/work.rs and setup/silent.rs.  The machine is what an installation *)
(* owns: the program files, config.toml, the RAS phonebook, the tray's     *)
(* autostart value, the Start Menu links, the uninstall key, the dial      *)
(* credential stored by RAS, the service's registration and its process.   *)
(* Every call to Windows may fail, in each of the ways its code leaves     *)
(* behind; setup itself may be killed between any two steps.  Backups live *)
(* in memory only and die with it.                                         *)
(***************************************************************************)
EXTENDS Naturals, FiniteSets

CONSTANTS
    Files,          \* the payload's files, with setup's own copy
    Exe,            \* the service's program among them
    MaxFaults,      \* bound: calls that fail, per behaviour
    MaxRuns         \* bound: runs of the setup program

ASSUME FilesAssumption == IsFiniteSet(Files) /\ Exe \in Files
                          /\ Files \cap {"config", "pbk", "autostart",
                                         "links", "key"} = {}
ASSUME BoundsAssumption == MaxFaults \in Nat /\ MaxRuns \in Nat

VARIABLES
    pc,             \* the step the setup program is at
    kind,           \* "install" or "uninstall"
    val,            \* the version of every item on the machine
    cred,           \* whose password RAS holds for the dial entry
    svc,            \* the service's registration
    doomed,         \* it was deleted while its process was up: SCM keeps it,
                    \* marked for deletion, until that process ends
    image,          \* the files the service's process was started on
    scm,            \* SCM still owes a restart after a crash
    rmdir,          \* the delayed removal of the install directory is running
    before,         \* the machine as the backups captured it
    todo,           \* files left to unpack or to restore
    reached,        \* files_changed, core_changed, shell_changed
    failures,       \* the rollback met a failure
    outcome,        \* what Done will report
    meddled,        \* history: SCM or the delayed removal acted meanwhile,
                    \* or SCM would not open the service to stop it
    faults, runs    \* used up of the bounds

worldVars == <<val, cred, svc, image, doomed>>
runVars   == <<kind, before, meddled, runs>>
rbVars    == <<todo, reached, failures, outcome>>
vars      == <<pc, worldVars, scm, rmdir, runVars, rbVars, faults>>

Item  == Files \cup {"config", "pbk", "autostart", "links", "key"}
Image == Files \cup {"config"}
Ver   == {"absent", "old", "new", "torn"}
NoService == [cmd |-> "none", start |-> "auto"]
StartType == {"auto", "demand", "disabled"}
Service == [cmd : {"old", "new"}, start : StartType] \cup {NoService}
Machine == [val : [Item -> Ver], cred : Ver, svc : Service,
            image : [Image -> Ver]]
machine == [val |-> val, cred |-> cred, svc |-> svc, image |-> image]
Nothing == [i \in Image |-> "absent"]
running == image # Nothing          \* the service's process is up
Current == [i \in Image |-> val[i]]

InstallSteps  == {"prepare", "stop", "unpack", "config", "pbk", "cred",
                  "service", "autostart", "links", "key", "start"}
RollbackSteps == {"rb_stop", "rb_files", "rb_cred", "rb_autostart", "rb_pbk",
                  "rb_config", "rb_oldcred", "rb_service", "rb_start",
                  "rb_links", "rb_key"}
UninstallSteps == {"un_stop", "un_delete", "un_rest", "un_purge", "un_dir"}
Busy == InstallSteps \cup RollbackSteps \cup UninstallSteps \cup {"report"}

\* A call that Windows refuses.
Fault == faults < MaxFaults /\ faults' = faults + 1
NoFault == faults' = faults

\* Install fails: the transaction turns to its rollback.
ToRollback == pc' = "rb_stop"

\* The program files are in use while the service's process is up: Windows
\* lets them be renamed but not deleted.
Locked == running

-----------------------------------------------------------------------------
(***************************************************************************)
(* Calls to the service manager                                            *)
(***************************************************************************)
\* The service's process is gone, and a registration marked for deletion too.
ProcessEnds ==
    /\ image' = Nothing
    /\ svc' = IF doomed THEN NoService ELSE svc
    /\ doomed' = FALSE
ProcessStays == UNCHANGED <<svc, image, doomed>>

\* stop_service: absent or stopped is success; otherwise it stops in time, or
\* it does not.  A service that SCM will not open counts as absent (NotOpened).
StopOk == ProcessEnds /\ NoFault
NotOpened == running /\ Fault
StopFails == running /\ Fault /\ (ProcessEnds \/ ProcessStays)

\* start_service: nothing to do when it runs; a disabled or missing service
\* cannot start; a start may fail with its process already up.
CanStart == svc # NoService /\ svc.start # "disabled" /\ val[Exe] # "absent"
StartOk ==
    /\ running \/ CanStart
    /\ image' = IF running THEN image ELSE Current
    /\ NoFault
StartFails ==
    /\ ~running
    /\ \/ ~CanStart /\ NoFault /\ image' = image
       \/ CanStart /\ Fault /\ image' \in {image, Current}

\* taskkill of every gdut-net.exe, which spares no service that was skipped:
\* SCM takes that for a crash.
KillTray ==
    \/ ProcessStays /\ scm' = scm
    \/ ProcessEnds /\ scm' = TRUE

-----------------------------------------------------------------------------
(***************************************************************************)
(* The installation                                                        *)
(***************************************************************************)
\* Initially nothing is installed, or an older version is: running, stopped,
\* crashed with SCM's restart pending, started on demand with no autostart of
\* the tray as home mode leaves it (and perhaps started by hand since),
\* disabled by hand, or reduced to a phonebook without its config.
Fresh == /\ val = [i \in Item |-> "absent"] /\ cred = "absent"
         /\ svc = NoService /\ image = Nothing /\ scm = FALSE
Orphan == /\ val = [i \in Item |-> IF i = "pbk" THEN "old" ELSE "absent"]
          /\ cred = "old" /\ svc = NoService /\ image = Nothing /\ scm = FALSE
Older == /\ svc \in [cmd : {"old"}, start : StartType] /\ cred = "old"
         /\ val = [i \in Item |->
                     IF i = "autostart" /\ svc.start = "demand" THEN "absent"
                     ELSE "old"]
         /\ image \in {Nothing} \cup {c \in {Current} : svc.start # "disabled"}
         /\ scm \in {FALSE, svc.start # "disabled" /\ ~running}

Init ==
    /\ Fresh \/ Orphan \/ Older
    /\ pc = "idle" /\ kind = "install" /\ before = machine /\ doomed = FALSE
    /\ todo = {} /\ reached = {} /\ failures = FALSE /\ outcome = "none"
    /\ rmdir = FALSE /\ meddled = FALSE /\ faults = 0 /\ runs = 0

\* capture_prev_service and the three backups.
BeginRun(k, first) ==
    /\ pc \in {"idle", "done"} /\ runs < MaxRuns /\ runs' = runs + 1
    /\ pc' = first /\ kind' = k /\ before' = machine
    /\ todo' = {} /\ reached' = {} /\ failures' = FALSE /\ outcome' = "none"
    /\ meddled' = FALSE
    /\ UNCHANGED <<worldVars, scm, rmdir, faults>>

Begin == BeginRun("install", "prepare")

\* Config::load refuses a torn config; a phonebook without a config holds a
\* credential that could not be put back; any capture may fail.
CannotBackUp == \/ val["config"] = "torn"
                \/ val["pbk"] # "absent" /\ val["config"] = "absent"

Prepare ==
    /\ pc = "prepare"
    /\ \/ ~CannotBackUp /\ pc' = "stop" /\ NoFault /\ UNCHANGED outcome
       \/ /\ IF CannotBackUp THEN NoFault ELSE Fault
          /\ pc' = "report" /\ outcome' = "refused"
    /\ UNCHANGED <<worldVars, scm, rmdir, runVars, todo, reached, failures>>

\* stop_service, then kill_tray.
StopOld ==
    /\ pc = "stop"
    /\ \/ StopOk /\ pc' = "unpack" /\ UNCHANGED <<scm, meddled>>
       \/ NotOpened /\ KillTray /\ pc' = "unpack" /\ meddled' = TRUE
       \/ StopFails /\ ToRollback /\ UNCHANGED <<scm, meddled>>
    /\ reached' = IF pc' = "unpack" THEN {"files"} ELSE {}
    /\ todo' = IF pc' = "unpack" THEN Files ELSE {}
    /\ UNCHANGED <<val, cred, rmdir, kind, before, runs, failures, outcome>>

\* replace_file of one payload entry: refused with the original in place,
\* lost between its two renames, or in place with the old one undeletable.
Unpack(f) ==
    /\ pc = "unpack" /\ f \in todo /\ todo' = todo \ {f}
    /\ \/ /\ val' = [val EXCEPT ![f] = "new"] /\ NoFault
          /\ IF Locked /\ val[f] # "absent" THEN ToRollback ELSE pc' = pc
       \/ /\ \E v \in {val[f], "absent", "new"} : val' = [val EXCEPT ![f] = v]
          /\ Fault /\ ToRollback
    /\ UNCHANGED <<cred, svc, image, doomed, scm, rmdir, runVars, reached,
                   failures, outcome>>

Unpacked ==
    /\ pc = "unpack" /\ todo = {} /\ pc' = "config"
    /\ reached' = reached \cup {"core"}
    /\ UNCHANGED <<worldVars, scm, rmdir, runVars, todo, failures, outcome,
                   faults>>

\* One step of install_core or of the shell integration on item i: done (its
\* value then is one of good), or failed (one of bad).
WriteItem(i, here, next, good, bad) ==
    /\ pc = here
    /\ \/ /\ good # {} /\ \E v \in good : val' = [val EXCEPT ![i] = v]
          /\ NoFault /\ pc' = next
       \/ /\ \E v \in bad : val' = [val EXCEPT ![i] = v]
          /\ IF good = {} THEN NoFault ELSE Fault
          /\ ToRollback
    /\ reached' = IF pc' = "links" THEN reached \cup {"shell"} ELSE reached
    /\ UNCHANGED <<cred, svc, image, doomed, scm, rmdir, runVars, todo,
                   failures, outcome>>

\* fs::write of config.toml is not atomic; without a stored password there is
\* none to keep (Credential::KeepExisting).
WriteConfig(keep) ==
    WriteItem("config", "config", "pbk",
              {v \in {IF keep THEN val["config"] ELSE "new"} : v # "absent"},
              {val["config"], IF keep /\ val["config"] = "absent" THEN "absent"
                              ELSE "torn"})

\* ensure_entry: error 816 (port in use) counts as success, entry or not.
EnsureEntry == WriteItem("pbk", "pbk", "cred", {val["pbk"], "new"},
                         {val["pbk"], "new"})

\* set_credentials with the password of the config just saved.
SetCredentials ==
    /\ pc = "cred"
    /\ \/ /\ val["pbk"] # "absent"
          /\ cred' = val["config"] /\ NoFault /\ pc' = "service"
       \/ /\ IF val["pbk"] = "absent" THEN NoFault ELSE Fault
          /\ cred' = cred /\ ToRollback
    /\ UNCHANGED <<val, svc, image, doomed, scm, rmdir, runVars, rbVars>>

\* create_service creates the service or rewrites the one that is there, after
\* a stop() that its handle has no right to.  One marked for deletion can be
\* neither.
CreateService ==
    /\ pc = "service"
    /\ \/ /\ ~doomed /\ svc' = [cmd |-> "new", start |-> "auto"] /\ NoFault
          /\ pc' = "autostart"
       \/ svc' = svc /\ (IF doomed THEN NoFault ELSE Fault) /\ ToRollback
    /\ UNCHANGED <<val, cred, image, doomed, scm, rmdir, runVars, rbVars>>

RegisterAutostart == WriteItem("autostart", "autostart", "links", {"new"},
                               {val["autostart"]})

\* Links: a missing target fails the step.
CreateShortcuts ==
    WriteItem("links", "links", "key",
              {v \in {"new"} : \A f \in Files : val[f] # "absent"},
              {val["links"], "torn"})

WriteUninstallKey == WriteItem("key", "key", "start", {"new"},
                               {val["key"], "torn"})

StartNew ==
    /\ pc = "start"
    /\ \/ StartOk /\ pc' = "report" /\ outcome' = "ok"
       \/ StartFails /\ ToRollback /\ UNCHANGED outcome
    /\ UNCHANGED <<val, cred, svc, doomed, scm, rmdir, runVars, todo, reached,
                   failures>>

-----------------------------------------------------------------------------
(***************************************************************************)
(* The rollback: every step is tried, a failure is remembered.             *)
(***************************************************************************)
StopForRollback ==
    /\ pc = "rb_stop" /\ pc' = "rb_files"
    /\ \/ StopOk /\ UNCHANGED <<failures, meddled>>
       \/ NotOpened /\ ProcessStays /\ UNCHANGED failures /\ meddled' = TRUE
       \/ StopFails /\ failures' = TRUE /\ UNCHANGED meddled
    /\ todo' = IF "files" \in reached THEN Files ELSE {}
    /\ UNCHANGED <<val, cred, scm, rmdir, kind, before, runs, reached, outcome>>

\* restore_file of item i: nothing to do, put back, or failed with what the
\* call leaves behind.
PutBackItem(i, bad) ==
    /\ \/ /\ val[i] = before.val[i] \/ ~(i \in Files /\ Locked)
          /\ val' = [val EXCEPT ![i] = before.val[i]]
          /\ NoFault /\ UNCHANGED failures
       \/ /\ val[i] # before.val[i] /\ i \in Files /\ Locked /\ NoFault
          /\ val' = IF before.val[i] = "absent" THEN val
                    ELSE [val EXCEPT ![i] = before.val[i]]
          /\ failures' = TRUE
       \/ /\ val[i] # before.val[i] /\ Fault /\ failures' = TRUE
          /\ \E v \in bad : val' = [val EXCEPT ![i] = v]
    /\ UNCHANGED <<cred, svc, image, doomed, scm, rmdir, runVars, reached,
                   outcome>>

FileLost(i) == {val[i], "absent", before.val[i]}

\* Mutant: a file that cannot be restored is tried again and again.
RestoreFileStubborn(f) ==
    /\ pc = "rb_files" /\ f \in todo /\ pc' = pc
    /\ PutBackItem(f, FileLost(f))
    /\ todo' = IF val'[f] = before.val[f] /\ ~failures' THEN todo \ {f} ELSE todo

RestoreFile(f) ==
    /\ pc = "rb_files" /\ f \in todo /\ todo' = todo \ {f} /\ pc' = pc
    /\ PutBackItem(f, FileLost(f))

RestoredFiles ==
    /\ pc = "rb_files" /\ todo = {}
    /\ pc' = IF "core" \in reached THEN "rb_cred" ELSE "rb_service"
    /\ UNCHANGED <<worldVars, scm, rmdir, runVars, rbVars, faults>>

HadEntry == before.val["pbk"] # "absent"

\* InstallBackup::restore, first step: a credential of a new dial entry is
\* cleared while that entry still exists.
ClearCredentials ==
    /\ pc = "rb_cred" /\ pc' = "rb_autostart"
    /\ IF ~HadEntry /\ val["pbk"] # "absent"
       THEN \/ cred' = "absent" /\ NoFault /\ UNCHANGED failures
            \/ cred' = cred /\ Fault /\ failures' = TRUE
       ELSE UNCHANGED <<cred, failures, faults>>
    /\ UNCHANGED <<val, svc, image, doomed, scm, rmdir, runVars, todo,
                   reached, outcome>>

RestoreItem(i, here, next, bad) ==
    pc = here /\ pc' = next /\ PutBackItem(i, bad) /\ UNCHANGED todo

RestoreAutostart == RestoreItem("autostart", "rb_autostart", "rb_pbk",
                                {val["autostart"]})
RestorePbk == RestoreItem("pbk", "rb_pbk", "rb_config", FileLost("pbk"))
RestoreConfig == RestoreItem("config", "rb_config", "rb_oldcred",
                             FileLost("config"))

\* The old password comes from the old config, not from RAS.
RestoreCredentials ==
    /\ pc = "rb_oldcred" /\ pc' = "rb_service"
    /\ IF HadEntry
       THEN \/ /\ val["pbk"] # "absent"
               /\ cred' = before.val["config"] /\ NoFault /\ UNCHANGED failures
            \/ /\ IF val["pbk"] = "absent" THEN NoFault ELSE Fault
               /\ cred' = cred /\ failures' = TRUE
       ELSE UNCHANGED <<cred, failures, faults>>
    /\ UNCHANGED <<val, svc, image, doomed, scm, rmdir, runVars, todo,
                   reached, outcome>>

\* Mutant: the shell integration is not rolled back.
AfterServiceNoShell == "report"

AfterService == IF "shell" \in reached THEN "rb_links" ELSE "report"

\* rollback_install: delete the new service, at once or as soon as its process
\* ends, or restore the registration and then start it when it ran.  Neither
\* can be done to one that is marked for deletion.
RollbackService ==
    /\ pc = "rb_service"
    /\ \/ /\ ~doomed /\ (svc # NoService \/ before.svc = NoService)
          /\ IF before.svc = NoService /\ running THEN doomed' = TRUE /\ svc' = svc
             ELSE doomed' = FALSE /\ svc' = before.svc
          /\ NoFault /\ UNCHANGED failures
          /\ pc' = IF before.svc # NoService /\ before.image # Nothing THEN "rb_start"
                   ELSE AfterService
       \/ /\ UNCHANGED <<svc, doomed>> /\ failures' = TRUE /\ pc' = AfterService
          /\ IF doomed \/ (svc = NoService /\ before.svc # NoService) THEN NoFault
             ELSE Fault
    /\ UNCHANGED <<val, cred, image, scm, rmdir, runVars, todo, reached,
                   outcome>>

StartOld ==
    /\ pc = "rb_start" /\ pc' = AfterService
    /\ \/ StartOk /\ UNCHANGED failures
       \/ StartFails /\ failures' = TRUE
    /\ UNCHANGED <<val, cred, svc, doomed, scm, rmdir, runVars, todo, reached,
                   outcome>>

\* ShellInstallBackup::restore.
RestoreShortcuts == RestoreItem("links", "rb_links", "rb_key",
                                {val["links"], "torn"})
RestoreUninstallKey == RestoreItem("key", "rb_key", "report",
                                   {val["key"], "torn"})

\* Mutant: a rollback that went well is not reported.
DoneUnsaid == IF outcome = "none" /\ failures THEN "Failed" ELSE outcome

\* InstallEvent::Done: an installation that came through the rollback has
\* failed to roll back as soon as one of its steps has.
Done == IF outcome # "none" THEN outcome
        ELSE IF failures THEN "Failed" ELSE "Restored"

\* The backups live in memory and go with the run.
Forget == before' = machine' /\ todo' = {} /\ reached' = {} /\ failures' = FALSE

\* Mutant: failures met by the rollback are not reported.
ReportUnread ==
    /\ pc = "report" /\ pc' = "done"
    /\ outcome' = IF outcome = "none" THEN "Restored" ELSE outcome
    /\ UNCHANGED <<worldVars, scm, rmdir, kind, meddled, runs, faults>>
    /\ Forget

Report ==
    /\ pc = "report" /\ pc' = "done" /\ outcome' = Done
    /\ UNCHANGED <<worldVars, scm, rmdir, kind, meddled, runs, faults>>
    /\ Forget

-----------------------------------------------------------------------------
(***************************************************************************)
(* The uninstallation                                                      *)
(***************************************************************************)
BeginUninstall == BeginRun("uninstall", "un_stop")

UninstallStop ==
    /\ pc = "un_stop"
    /\ \/ StopOk /\ pc' = "un_delete" /\ UNCHANGED <<scm, outcome>>
       \/ NotOpened /\ KillTray /\ pc' = "un_delete" /\ UNCHANGED outcome
       \/ StopFails /\ pc' = "report" /\ outcome' = "err" /\ scm' = scm
    /\ UNCHANGED <<val, cred, rmdir, runVars, todo, reached, failures>>

\* uninstall_core: a service still up is stopped and waited for, then deleted,
\* which fails for one that is marked already.
UninstallService ==
    /\ pc = "un_delete"
    /\ \/ /\ ~doomed /\ UNCHANGED doomed
          /\ image' = IF svc = NoService THEN image ELSE Nothing
          /\ svc' = NoService /\ NoFault
          /\ pc' = "un_rest" /\ UNCHANGED outcome
       \/ /\ svc # NoService /\ (IF doomed THEN NoFault ELSE Fault)
          /\ ProcessEnds \/ ProcessStays
          /\ pc' = "report" /\ outcome' = "err"
    /\ UNCHANGED <<val, cred, scm, rmdir, runVars, todo, reached, failures>>

\* Where the uninstallation goes on: --purge and remove_dir are options.
Onward(steps) ==
    \/ pc' \in steps /\ UNCHANGED outcome
    \/ pc' = "report" /\ outcome' = "ok"

\* Event source, entropy, autostart, shell: a failure is tolerated.
UninstallRest ==
    /\ pc = "un_rest" /\ Onward({"un_purge", "un_dir"})
    /\ \E left \in SUBSET {"autostart", "links", "key"} :
          /\ val' = [i \in Item |-> IF i \in {"autostart", "links", "key"} \ left
                                    THEN "absent" ELSE val[i]]
          /\ IF left = {} THEN NoFault ELSE Fault
    /\ UNCHANGED <<cred, svc, image, doomed, scm, rmdir, runVars, todo,
                   reached, failures>>

Purge ==
    /\ pc = "un_purge"
    /\ \E gone \in SUBSET {"config", "pbk"} :
          /\ val' = [i \in Item |-> IF i \in gone THEN "absent" ELSE val[i]]
          /\ \/ gone = {"config", "pbk"} /\ NoFault /\ Onward({"un_dir"})
             \/ Fault /\ pc' = "report" /\ outcome' = "err"
    /\ UNCHANGED <<cred, svc, image, doomed, scm, rmdir, runVars, todo,
                   reached, failures>>

\* schedule_install_dir_removal only starts a helper.
ScheduleRemoval ==
    /\ pc = "un_dir" /\ pc' = "report"
    /\ \/ rmdir' = TRUE /\ NoFault /\ outcome' = "ok"
       \/ rmdir' = rmdir /\ Fault /\ outcome' = "err"
    /\ UNCHANGED <<worldVars, scm, runVars, todo, reached, failures>>

-----------------------------------------------------------------------------
(***************************************************************************)
(* Others                                                                  *)
(***************************************************************************)
\* Setup is killed; a file may be caught between its renames, config.toml in
\* the middle of its write.  (Nothing follows the last run, killed or not.)
SetupKilled ==
    /\ pc \in Busy \ {"report"} /\ runs < MaxRuns /\ pc' = "idle"
    /\ \/ val' = val
       \/ /\ pc \in {"unpack", "rb_files"}
          /\ \E f \in todo : val' = [val EXCEPT ![f] = "absent"]
       \/ pc = "config" /\ val' = [val EXCEPT !["config"] = "torn"]
       \/ pc = "rb_config" /\ val' = [val EXCEPT !["config"] = "absent"]
       \/ pc = "rb_pbk" /\ val' = [val EXCEPT !["pbk"] = "absent"]
    /\ UNCHANGED <<cred, svc, image, doomed, scm, rmdir, kind, meddled, runs,
                   outcome, faults>>
    /\ Forget

\* SCM's recovery action restarts a crashed service.
ScmRestart ==
    /\ scm /\ scm' = FALSE /\ CanStart /\ ~running
    /\ image' = Current
    /\ meddled' = (meddled \/ pc \in Busy)
    /\ UNCHANGED <<pc, val, cred, svc, doomed, rmdir, kind, before, runs, rbVars,
                   faults>>

\* The helper deletes what is not in use, until the directory is gone or its
\* 90 attempts are used up.
DelayedRemoval ==
    /\ rmdir /\ rmdir' \in BOOLEAN
    /\ \E gone \in SUBSET Files :
          val' = [i \in Item |-> IF i \in gone THEN "absent" ELSE val[i]]
    /\ meddled' = (meddled \/ pc \in Busy)
    /\ UNCHANGED <<pc, cred, svc, image, doomed, scm, kind, before, runs,
                   rbVars, faults>>

Step ==
    \/ Prepare \/ StopOld \/ (\E f \in Files : Unpack(f)) \/ Unpacked
    \/ (\E keep \in BOOLEAN : WriteConfig(keep))
    \/ EnsureEntry \/ SetCredentials \/ CreateService
    \/ RegisterAutostart \/ CreateShortcuts \/ WriteUninstallKey \/ StartNew
    \/ StopForRollback \/ (\E f \in Files : RestoreFile(f)) \/ RestoredFiles
    \/ ClearCredentials \/ RestoreAutostart \/ RestorePbk \/ RestoreConfig
    \/ RestoreCredentials \/ RollbackService \/ StartOld
    \/ RestoreShortcuts \/ RestoreUninstallKey
    \/ UninstallStop \/ UninstallService \/ UninstallRest \/ Purge
    \/ ScheduleRemoval \/ Report

Next == Begin \/ BeginUninstall \/ Step \/ SetupKilled \/ ScmRestart
        \/ DelayedRemoval

Spec == Init /\ [][Next]_vars

\* The setup program's thread runs on: every call it makes returns.
FairSpec == Spec /\ WF_vars(Step)

-----------------------------------------------------------------------------
\* Types; and a run that is over has said how it ended.
TypeOK ==
    /\ pc \in Busy \cup {"idle", "done"} /\ kind \in {"install", "uninstall"}
    /\ machine \in Machine /\ before \in Machine
    /\ scm \in BOOLEAN /\ rmdir \in BOOLEAN /\ todo \subseteq Files
    /\ reached \subseteq {"files", "core", "shell"} /\ failures \in BOOLEAN
    /\ outcome \in {"none", "ok", "err", "refused", "Restored", "Failed"}
    /\ pc = "done" => outcome # "none"
    /\ doomed \in BOOLEAN /\ meddled \in BOOLEAN
    /\ faults \in 0..MaxFaults /\ runs \in 0..MaxRuns

\* Everything of the new version is in place, the service runs on it, and RAS
\* dials with the password that the config holds.
Installed(m) ==
    /\ \A i \in Files \cup {"autostart", "links", "key"} : m.val[i] = "new"
    /\ m.val["config"] \notin {"absent", "torn"} /\ m.val["pbk"] # "absent"
    /\ m.cred = m.val["config"]
    /\ m.svc = [cmd |-> "new", start |-> "auto"]
    /\ m.image = [i \in Image |-> m.val[i]]

\* Everything is as in b.  A credential without a dial entry is of no use, and
\* one that disagreed with the config may have been brought in line with it.
PutBack(b, m) ==
    /\ m.val = b.val /\ m.svc = b.svc
    /\ m.val["pbk"] # "absent" => m.cred \in {b.cred, b.val["config"]}
    /\ IF b.svc = NoService \/ b.image = Nothing THEN m.image = Nothing
       ELSE m.image \in {b.image, [i \in Image |-> m.val[i]]}

\* What is reported is true: a refused installation has changed nothing, a
\* finished one is complete, and Restored is said only when files, autostart
\* value, uninstall key, links, phonebook, credential, registration and running
\* service are all as before.
\* An uninstallation that reports success has left neither the service nor its
\* process.  (SCM's restart of the service meanwhile may belie any of them.)
HonestReport ==
    pc = "report" /\ ~meddled =>
        IF kind = "install"
        THEN /\ Done = "refused"  => machine = before
             /\ Done = "ok"       => Installed(machine)
             /\ Done = "Restored" => PutBack(before, machine)
        ELSE outcome = "ok" => svc = NoService /\ ~running

phase == IF kind # "install" \/ pc = "idle" THEN "idle"
         ELSE IF pc # "done" THEN "busy"
         ELSE CASE outcome = "ok" -> "committed"
                [] outcome = "refused" -> "refused"
                [] outcome = "Restored" -> "rolled_back"
                [] OTHER -> "failed"

Contract == INSTANCE SetupContract
            WITH phase <- phase, machine <- machine, before <- before,
                 meddled <- meddled, Installed <- Installed, PutBack <- PutBack

\* The installation is one transaction, as SetupContract states it: through
\* every failing call, a kill, SCM's restart and the delayed removal.
IsTransaction == Contract!Spec

\* Every run ends: with its report, unless it is killed.
Terminates == pc \in Busy ~> pc \in {"idle", "done"}
=============================================================================

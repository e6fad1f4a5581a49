----------------------- MODULE SetupTransactionProofs -----------------------
(***************************************************************************)
(* The setup program's report is honest and its installation is the one    *)
(* transaction that SetupContract states, for every payload, any number of *)
(* failing calls and any number of runs.                                   *)
(***************************************************************************)
EXTENDS SetupTransaction, TLAPS

\* The types in two parts: the flags, which Zenon settles, and the rest.
FlagsOK ==
    /\ scm \in BOOLEAN /\ rmdir \in BOOLEAN /\ failures \in BOOLEAN
    /\ doomed \in BOOLEAN /\ meddled \in BOOLEAN
WorldOK ==
    /\ val \in [Item -> Ver] /\ cred \in Ver /\ svc \in Service
    /\ image \in [Image -> Ver] /\ before \in Machine
RunOK ==
    /\ pc \in Busy \cup {"idle", "done"} /\ kind \in {"install", "uninstall"}
    /\ todo \subseteq Files /\ reached \subseteq {"files", "core", "shell"}
    /\ outcome \in {"none", "ok", "err", "refused", "Restored", "Failed"}
    /\ faults \in 0..MaxFaults /\ runs \in 0..MaxRuns

\* A process belongs to a registration, which is marked for deletion only as
\* long as that process is up.
Registered == (running => svc # NoService) /\ (doomed => running)

\* Which steps belong to which run, and what they have decided so far.
Stages ==
    /\ pc \in InstallSteps \cup RollbackSteps => kind = "install"
    /\ pc \in UninstallSteps => kind = "uninstall"
    /\ pc \in Busy \ {"report"} => outcome = "none"
    /\ pc = "report" => outcome \in {"none", "ok", "err", "refused"}
    /\ pc = "done" => outcome # "none"
    /\ pc \in {"prepare", "stop"} => reached = {}

\* The steps of the installation that come after each of its writes, and the
\* same for the rollback.
AfterUnpack == {"config", "pbk", "cred", "service", "autostart", "links",
                "key", "start"}
AfterCred   == {"service", "autostart", "links", "key", "start"}
ShellSteps  == {"links", "key", "start"}
RbCore      == {"rb_cred", "rb_autostart", "rb_pbk", "rb_config", "rb_oldcred"}
RbEnd       == {"rb_links", "rb_key", "report"}
RbServices  == {"rb_service", "rb_start"} \cup RbEnd

\* The three flags say which parts of the machine were reached.
FlagsCover ==
    /\ "shell" \in reached => "core" \in reached
    /\ "core" \in reached => "files" \in reached
    /\ pc = "unpack" => "files" \in reached
    /\ pc \in AfterUnpack \cup RbCore => "core" \in reached
    /\ pc \in ShellSteps => "shell" \in reached

\* An installation nobody interferes with.
Mine == kind = "install" /\ ~meddled

\* What no flag covers is as it was before.
Untouched ==
    Mine /\ ~failures /\ pc \in InstallSteps \cup RollbackSteps =>
        /\ "files" \notin reached => \A f \in Files : val[f] = before.val[f]
        /\ "core" \notin reached =>
              /\ \A i \in {"config", "pbk", "autostart"} : val[i] = before.val[i]
              /\ cred = before.cred
        /\ "shell" \notin reached =>
              \A i \in {"links", "key"} : val[i] = before.val[i]

\* The installation: what each step has left behind it is in place.
Forward ==
    Mine =>
        /\ pc \in {"prepare", "stop"} => machine = before
        /\ pc \in {"unpack"} \cup AfterUnpack =>
              /\ image = Nothing /\ \A f \in Files \ todo : val[f] = "new"
        /\ pc \in {"stop", "unpack", "config"} => val["config"] # "torn"
        /\ pc \in AfterUnpack => todo = {}
        /\ pc \in AfterUnpack \ {"config"} => val["config"] \notin {"absent", "torn"}
        /\ pc \in AfterCred => val["pbk"] # "absent" /\ cred = val["config"]
        /\ pc \in AfterCred \ {"service"} => svc = [cmd |-> "new", start |-> "auto"]
        /\ pc \in ShellSteps => val["autostart"] = "new"
        /\ pc \in {"key", "start"} => val["links"] = "new"
        /\ pc = "start" => val["key"] = "new"
        /\ pc = "report" /\ outcome = "refused" => machine = before
        /\ pc = "report" /\ outcome = "ok" => Installed(machine)

\* The running service is as it was before.
ImageBack ==
    IF before.svc = NoService \/ before.image = Nothing THEN image = Nothing
    ELSE image \in {before.image, Current}

\* The rollback: as long as nothing failed, what is behind it is put back.
RollingBack == \/ pc \in RollbackSteps \ {"rb_stop"}
               \/ pc = "report" /\ outcome = "none"
Back(i) == val[i] = before.val[i]
Backward ==
    Mine /\ ~failures /\ RollingBack =>
        /\ pc \in {"rb_files", "rb_service", "rb_start"} \cup RbCore => image = Nothing
        /\ pc = "rb_files" => \A f \in Files \ todo : Back(f)
        /\ pc # "rb_files" => \A f \in Files : Back(f)
        /\ pc \in {"rb_pbk", "rb_config", "rb_oldcred"} \cup RbServices => Back("autostart")
        /\ pc \in {"rb_config", "rb_oldcred"} \cup RbServices => Back("pbk")
        /\ pc \in {"rb_oldcred"} \cup RbServices => Back("config")
        /\ pc \in RbServices /\ HadEntry => cred \in {before.cred, before.val["config"]}
        /\ pc \in {"rb_start"} \cup RbEnd => svc = before.svc
        /\ pc = "rb_start" => before.svc # NoService /\ before.image # Nothing
        /\ pc \in RbEnd => ImageBack
        /\ pc \in {"rb_key", "report"} => Back("links")
        /\ pc = "report" => Back("key")

\* The uninstallation has removed service and process.
Removed ==
    /\ kind = "uninstall" /\ ~meddled
    /\ \/ pc \in {"un_rest", "un_purge", "un_dir"}
       \/ pc = "report" /\ outcome = "ok"
    => svc = NoService /\ ~running

\* The inductive invariant.
IInv == /\ FlagsOK /\ WorldOK /\ RunOK /\ Registered /\ Stages /\ FlagsCover
        /\ Untouched /\ Forward /\ Backward /\ Removed

-----------------------------------------------------------------------------

\* A run begins: nothing has happened to the machine yet.
LEMMA BeginInv == ASSUME IInv, Begin \/ BeginUninstall PROVE IInv'
<1> USE DEF IInv, machine, Begin, BeginUninstall, BeginRun, worldVars
<1>1. FlagsOK'
  BY Zenon DEF FlagsOK
<1>2. WorldOK'
  BY DEF WorldOK, Ver, Service, StartType, Machine, Item, Image,
         Nothing
<1>3. RunOK'
  BY BoundsAssumption DEF RunOK, Busy, InstallSteps, RollbackSteps,
     UninstallSteps
<1>4. Registered'
  BY DEF Registered, running, WorldOK
<1>5. Stages' /\ FlagsCover'
  BY DEF Stages, FlagsCover, Busy, InstallSteps, RollbackSteps, UninstallSteps,
     AfterUnpack, RbCore, ShellSteps
<1>6. Untouched'
  BY FilesAssumption DEF Untouched, Stages, FlagsCover, Forward, WorldOK, Mine,
     Item, InstallSteps, RollbackSteps, AfterUnpack, ShellSteps, RbCore
<1>7. Forward'
  BY FilesAssumption DEF Forward, Stages, WorldOK, RunOK, Registered, Mine,
     Item, AfterUnpack, AfterCred, ShellSteps, InstallSteps
<1>8. Backward'
  BY FilesAssumption DEF Backward, Untouched, FlagsCover, Stages, WorldOK,
     Mine, RollingBack, Back, Item, RollbackSteps, RbCore, RbEnd, RbServices
<1>9. Removed'
  BY DEF Removed, Stages, Registered, running, InstallSteps, RollbackSteps,
     UninstallSteps
<1>10. QED
  BY <1>1, <1>2, <1>3, <1>4, <1>5, <1>6, <1>7, <1>8, <1>9

\* The backups are made, or the installation is refused.
LEMMA PrepareInv == ASSUME IInv, Prepare PROVE IInv'
<1> USE DEF IInv, machine, Prepare, CannotBackUp, worldVars, runVars, Fault,
        NoFault
<1>1. FlagsOK'
  BY Zenon DEF FlagsOK
<1>2. WorldOK'
  BY DEF WorldOK, Ver, Service, StartType, Machine, Item, Image,
         Nothing
<1>3. RunOK'
  BY BoundsAssumption DEF RunOK, Busy, InstallSteps, RollbackSteps,
     UninstallSteps
<1>4. Registered'
  BY DEF Registered, running, WorldOK
<1>5. Stages' /\ FlagsCover'
  BY DEF Stages, FlagsCover, Busy, InstallSteps, RollbackSteps, UninstallSteps,
     AfterUnpack, RbCore, ShellSteps
<1>6. Untouched'
  BY FilesAssumption DEF Untouched, Stages, FlagsCover, Forward, WorldOK, Mine,
     Item, InstallSteps, RollbackSteps, AfterUnpack, ShellSteps, RbCore
<1>7. Forward'
  BY FilesAssumption DEF Forward, Stages, WorldOK, RunOK, Registered, Mine,
     Item, AfterUnpack, AfterCred, ShellSteps, InstallSteps
<1>8. Backward'
  BY FilesAssumption DEF Backward, Untouched, FlagsCover, Stages, WorldOK,
     Mine, RollingBack, Back, Item, RollbackSteps, RbCore, RbEnd, RbServices
<1>9. Removed'
  BY DEF Removed, Stages, Registered, running, InstallSteps, RollbackSteps,
     UninstallSteps
<1>10. QED
  BY <1>1, <1>2, <1>3, <1>4, <1>5, <1>6, <1>7, <1>8, <1>9

\* The old service is stopped, or the rollback begins with nothing reached.
LEMMA StopOldInv == ASSUME IInv, StopOld PROVE IInv'
<1> USE DEF IInv, machine, StopOld, StopOk, StopFails, NotOpened, KillTray,
        ToRollback, ProcessEnds, ProcessStays, Fault, NoFault
<1>1. FlagsOK'
  BY Zenon DEF FlagsOK
<1>2. WorldOK'
  BY DEF WorldOK, Ver, Service, StartType, Machine, Item, Image,
         Nothing
<1>3. RunOK'
  BY BoundsAssumption DEF RunOK, Busy, InstallSteps, RollbackSteps,
     UninstallSteps
<1>4. Registered'
  BY DEF Registered, running, WorldOK
<1>5. Stages' /\ FlagsCover'
  BY DEF Stages, FlagsCover, Busy, InstallSteps, RollbackSteps, UninstallSteps,
     AfterUnpack, RbCore, ShellSteps
<1>6. Untouched'
  BY FilesAssumption DEF Untouched, Stages, FlagsCover, Forward, WorldOK, Mine,
     Item, InstallSteps, RollbackSteps, AfterUnpack, ShellSteps, RbCore
<1>7. Forward'
  BY FilesAssumption DEF Forward, Stages, WorldOK, RunOK, Registered, Mine,
     Item, AfterUnpack, AfterCred, ShellSteps, InstallSteps
<1>8. Backward'
  BY FilesAssumption DEF Backward, Untouched, FlagsCover, Stages, WorldOK,
     Mine, RollingBack, Back, Item, RollbackSteps, RbCore, RbEnd, RbServices
<1>9. Removed'
  BY DEF Removed, Stages, Registered, running, InstallSteps, RollbackSteps,
     UninstallSteps
<1>10. QED
  BY <1>1, <1>2, <1>3, <1>4, <1>5, <1>6, <1>7, <1>8, <1>9

\* A file is unpacked; the last one is.
LEMMA UnpackInv ==
    ASSUME IInv, (\E f \in Files : Unpack(f)) \/ Unpacked
    PROVE  IInv'
<1> USE DEF IInv, machine, Unpack, Unpacked, Locked, ToRollback, worldVars,
        runVars, Fault, NoFault
<1>1. FlagsOK'
  BY Zenon DEF FlagsOK
<1>2. WorldOK'
  BY DEF WorldOK, Ver, Service, StartType, Machine, Item, Image,
         Nothing
<1>3. RunOK'
  BY BoundsAssumption DEF RunOK, Busy, InstallSteps, RollbackSteps,
     UninstallSteps
<1>4. Registered'
  BY DEF Registered, running, WorldOK
<1>5. Stages' /\ FlagsCover'
  BY DEF Stages, FlagsCover, Busy, InstallSteps, RollbackSteps, UninstallSteps,
     AfterUnpack, RbCore, ShellSteps
<1>6. Untouched'
  BY FilesAssumption DEF Untouched, Stages, FlagsCover, Forward, WorldOK, Mine,
     Item, InstallSteps, RollbackSteps, AfterUnpack, ShellSteps, RbCore
<1>7. Forward'
  BY FilesAssumption DEF Forward, Stages, WorldOK, RunOK, Registered, Mine,
     Item, AfterUnpack, AfterCred, ShellSteps, InstallSteps
<1>8. Backward'
  BY FilesAssumption DEF Backward, Untouched, FlagsCover, Stages, WorldOK,
     Mine, RollingBack, Back, Item, RollbackSteps, RbCore, RbEnd, RbServices
<1>9. Removed'
  BY DEF Removed, Stages, Registered, running, InstallSteps, RollbackSteps,
     UninstallSteps
<1>10. QED
  BY <1>1, <1>2, <1>3, <1>4, <1>5, <1>6, <1>7, <1>8, <1>9

\* config.toml is written, or kept as it is.
LEMMA WriteConfigInv ==
    ASSUME IInv, \E keep \in BOOLEAN : WriteConfig(keep)
    PROVE  IInv'
<1> USE DEF IInv, machine, WriteConfig, WriteItem, ToRollback, runVars, Fault,
        NoFault
<1>1. FlagsOK'
  BY Zenon DEF FlagsOK
<1>2. WorldOK'
  BY DEF WorldOK, Ver, Service, StartType, Machine, Item, Image,
         Nothing
<1>3. RunOK'
  BY BoundsAssumption DEF RunOK, Busy, InstallSteps, RollbackSteps,
     UninstallSteps
<1>4. Registered'
  BY DEF Registered, running, WorldOK
<1>5. Stages' /\ FlagsCover'
  BY DEF Stages, FlagsCover, Busy, InstallSteps, RollbackSteps, UninstallSteps,
     AfterUnpack, RbCore, ShellSteps
<1>6. Untouched'
  BY FilesAssumption DEF Untouched, Stages, FlagsCover, Forward, WorldOK, Mine,
     Item, InstallSteps, RollbackSteps, AfterUnpack, ShellSteps, RbCore
<1>7. Forward'
  BY FilesAssumption DEF Forward, Stages, WorldOK, RunOK, Registered, Mine,
     Item, AfterUnpack, AfterCred, ShellSteps, InstallSteps
<1>8. Backward'
  BY FilesAssumption DEF Backward, Untouched, FlagsCover, Stages, WorldOK,
     Mine, RollingBack, Back, Item, RollbackSteps, RbCore, RbEnd, RbServices
<1>9. Removed'
  BY DEF Removed, Stages, Registered, running, InstallSteps, RollbackSteps,
     UninstallSteps
<1>10. QED
  BY <1>1, <1>2, <1>3, <1>4, <1>5, <1>6, <1>7, <1>8, <1>9

\* The dial entry is there, or the step is undone.
LEMMA EnsureEntryInv == ASSUME IInv, EnsureEntry PROVE IInv'
<1> USE DEF IInv, machine, EnsureEntry, WriteItem, ToRollback, runVars, Fault,
        NoFault
<1>1. FlagsOK'
  BY Zenon DEF FlagsOK
<1>2. WorldOK'
  BY DEF WorldOK, Ver, Service, StartType, Machine, Item, Image,
         Nothing
<1>3. RunOK'
  BY BoundsAssumption DEF RunOK, Busy, InstallSteps, RollbackSteps,
     UninstallSteps
<1>4. Registered'
  BY DEF Registered, running, WorldOK
<1>5. Stages' /\ FlagsCover'
  BY DEF Stages, FlagsCover, Busy, InstallSteps, RollbackSteps, UninstallSteps,
     AfterUnpack, RbCore, ShellSteps
<1>6. Untouched'
  BY FilesAssumption DEF Untouched, Stages, FlagsCover, Forward, WorldOK, Mine,
     Item, InstallSteps, RollbackSteps, AfterUnpack, ShellSteps, RbCore
<1>7. Forward'
  BY FilesAssumption DEF Forward, Stages, WorldOK, RunOK, Registered, Mine,
     Item, AfterUnpack, AfterCred, ShellSteps, InstallSteps
<1>8. Backward'
  BY FilesAssumption DEF Backward, Untouched, FlagsCover, Stages, WorldOK,
     Mine, RollingBack, Back, Item, RollbackSteps, RbCore, RbEnd, RbServices
<1>9. Removed'
  BY DEF Removed, Stages, Registered, running, InstallSteps, RollbackSteps,
     UninstallSteps
<1>10. QED
  BY <1>1, <1>2, <1>3, <1>4, <1>5, <1>6, <1>7, <1>8, <1>9

\* The autostart value, the links and the uninstall key.
LEMMA ShellWriteInv ==
    ASSUME IInv, RegisterAutostart \/ CreateShortcuts \/ WriteUninstallKey
    PROVE  IInv'
<1> USE DEF IInv, machine, RegisterAutostart, CreateShortcuts,
        WriteUninstallKey, WriteItem, ToRollback, runVars, Fault, NoFault
<1>1. FlagsOK'
  BY Zenon DEF FlagsOK
<1>2. WorldOK'
  BY DEF WorldOK, Ver, Service, StartType, Machine, Item, Image,
         Nothing
<1>3. RunOK'
  BY BoundsAssumption DEF RunOK, Busy, InstallSteps, RollbackSteps,
     UninstallSteps
<1>4. Registered'
  BY DEF Registered, running, WorldOK
<1>5. Stages' /\ FlagsCover'
  BY DEF Stages, FlagsCover, Busy, InstallSteps, RollbackSteps, UninstallSteps,
     AfterUnpack, RbCore, ShellSteps
<1>6. Untouched'
  BY FilesAssumption DEF Untouched, Stages, FlagsCover, Forward, WorldOK, Mine,
     Item, InstallSteps, RollbackSteps, AfterUnpack, ShellSteps, RbCore
<1>7. Forward'
  BY FilesAssumption DEF Forward, Stages, WorldOK, RunOK, Registered, Mine,
     Item, AfterUnpack, AfterCred, ShellSteps, InstallSteps
<1>8. Backward'
  BY FilesAssumption DEF Backward, Untouched, FlagsCover, Stages, WorldOK,
     Mine, RollingBack, Back, Item, RollbackSteps, RbCore, RbEnd, RbServices
<1>9. Removed'
  BY DEF Removed, Stages, Registered, running, InstallSteps, RollbackSteps,
     UninstallSteps
<1>10. QED
  BY <1>1, <1>2, <1>3, <1>4, <1>5, <1>6, <1>7, <1>8, <1>9

\* The credential is stored and the service registered.
LEMMA RegisterInv == ASSUME IInv, SetCredentials \/ CreateService PROVE IInv'
<1> USE DEF IInv, machine, SetCredentials, CreateService, ToRollback, runVars,
        rbVars, Fault, NoFault
<1>1. FlagsOK'
  BY Zenon DEF FlagsOK
<1>2. WorldOK'
  BY DEF WorldOK, Ver, Service, StartType, Machine, Item, Image,
         Nothing
<1>3. RunOK'
  <2>1. faults' \in 0..MaxFaults
    <3>1. CASE SetCredentials
      BY <3>1, BoundsAssumption DEF RunOK
    <3>2. CASE CreateService /\ doomed
      BY <3>2, Zenon DEF RunOK
    <3>3. CASE CreateService /\ ~doomed
      BY <3>3, BoundsAssumption DEF RunOK
    <3>4. QED
      BY <3>1, <3>2, <3>3
  <2>2. QED
    BY <2>1 DEF RunOK, Busy, InstallSteps, RollbackSteps
<1>4. Registered'
  <2>1. CASE SetCredentials
    BY <2>1 DEF Registered, running
  <2>2. CASE CreateService
    <3>1. image' = image /\ doomed' = doomed
          /\ (svc' = svc \/ svc' = [cmd |-> "new", start |-> "auto"])
      BY <2>2, Zenon
    <3>2. QED
      BY <3>1 DEF Registered, running, NoService
  <2>3. QED
    BY <2>1, <2>2
<1>5. Stages' /\ FlagsCover'
  BY DEF Stages, FlagsCover, Busy, InstallSteps, RollbackSteps, UninstallSteps,
     AfterUnpack, RbCore, ShellSteps
<1>6. Untouched'
  BY FilesAssumption DEF Untouched, Stages, FlagsCover, Forward, WorldOK, Mine,
     Item, InstallSteps, RollbackSteps, AfterUnpack, ShellSteps, RbCore
<1>7. Forward'
  BY FilesAssumption DEF Forward, Stages, WorldOK, RunOK, Registered, Mine,
     Item, AfterUnpack, AfterCred, ShellSteps, InstallSteps
<1>8. Backward'
  BY FilesAssumption DEF Backward, Untouched, FlagsCover, Stages, WorldOK,
     Mine, RollingBack, Back, Item, RollbackSteps, RbCore, RbEnd, RbServices
<1>9. Removed'
  BY DEF Removed, Stages, Registered, running, InstallSteps, RollbackSteps,
     UninstallSteps
<1>10. QED
  BY <1>1, <1>2, <1>3, <1>4, <1>5, <1>6, <1>7, <1>8, <1>9

\* The new service starts, and the installation is complete; or it does not,
\* and the rollback begins.
LEMMA StartNewInv == ASSUME IInv, StartNew PROVE IInv'
<1> USE DEF IInv, machine, StartNew, StartOk, StartFails, CanStart, ToRollback,
        runVars, Fault, NoFault
<1>1. FlagsOK'
  BY Zenon DEF FlagsOK
<1>2. WorldOK'
  BY DEF WorldOK, Ver, Service, StartType, Machine, Item, Image,
         Nothing, Current
<1>3. RunOK'
  BY BoundsAssumption DEF RunOK, Busy, InstallSteps, RollbackSteps,
     UninstallSteps
<1>4. Registered'
  BY DEF Registered, running, WorldOK
<1>5. Stages' /\ FlagsCover'
  BY DEF Stages, FlagsCover, Busy, InstallSteps, RollbackSteps, UninstallSteps,
     AfterUnpack, RbCore, ShellSteps
<1>6. Untouched'
  BY FilesAssumption DEF Untouched, Stages, FlagsCover, Forward, WorldOK, Mine,
     Item, InstallSteps, RollbackSteps, AfterUnpack, ShellSteps, RbCore
<1>7. Forward'
  <2>1. CASE pc' = "rb_stop"
    BY <2>1 DEF Forward, AfterUnpack, AfterCred, ShellSteps
  <2>2. CASE StartOk /\ pc' = "report" /\ outcome' = "ok"
    <3>1. ASSUME Mine PROVE Installed(machine')
      <4>1. /\ image = Nothing /\ todo = {} /\ \A f \in Files \ todo : val[f] = "new"
            /\ val["config"] \notin {"absent", "torn"} /\ val["pbk"] # "absent"
            /\ cred = val["config"] /\ svc = [cmd |-> "new", start |-> "auto"]
            /\ val["autostart"] = "new" /\ val["links"] = "new"
            /\ val["key"] = "new"
        BY <3>1 DEF Forward, AfterUnpack, AfterCred, ShellSteps
      <4>2. image' = [i \in Image |-> val[i]]
        BY <2>2, <4>1 DEF running, Current
      <4>3. QED
        BY <4>1, <4>2 DEF Installed
    <3>2. QED
      BY <2>2, <3>1 DEF Forward, Mine, AfterUnpack, AfterCred, ShellSteps
  <2>3. QED
    BY <2>1, <2>2
<1>8. Backward'
  BY FilesAssumption DEF Backward, Untouched, FlagsCover, Stages, WorldOK,
     Mine, RollingBack, Back, Item, RollbackSteps, RbCore, RbEnd, RbServices
<1>9. Removed'
  BY DEF Removed, Stages, Registered, running, InstallSteps, RollbackSteps,
     UninstallSteps
<1>10. QED
  BY <1>1, <1>2, <1>3, <1>4, <1>5, <1>6, <1>7, <1>8, <1>9

\* The rollback begins with nothing of the service running, or with a failure.
LEMMA StopForRollbackInv == ASSUME IInv, StopForRollback PROVE IInv'
<1> USE DEF IInv, machine, StopForRollback, StopOk, StopFails, NotOpened,
        ProcessEnds, ProcessStays, Fault, NoFault
<1>1. FlagsOK'
  BY Zenon DEF FlagsOK
<1>2. WorldOK'
  BY DEF WorldOK, Ver, Service, StartType, Machine, Item, Image,
         Nothing
<1>3. RunOK'
  BY BoundsAssumption DEF RunOK, Busy, InstallSteps, RollbackSteps,
     UninstallSteps
<1>4. Registered'
  BY DEF Registered, running, WorldOK
<1>5. Stages' /\ FlagsCover'
  BY DEF Stages, FlagsCover, Busy, InstallSteps, RollbackSteps, UninstallSteps,
     AfterUnpack, RbCore, ShellSteps
<1>6. Untouched'
  BY FilesAssumption DEF Untouched, Stages, FlagsCover, Forward, WorldOK, Mine,
     Item, InstallSteps, RollbackSteps, AfterUnpack, ShellSteps, RbCore
<1>7. Forward'
  BY FilesAssumption DEF Forward, Stages, WorldOK, RunOK, Registered, Mine,
     Item, AfterUnpack, AfterCred, ShellSteps, InstallSteps
<1>8. Backward'
  BY FilesAssumption DEF Backward, Untouched, FlagsCover, Stages, WorldOK,
     Mine, RollingBack, Back, Item, RollbackSteps, RbCore, RbEnd, RbServices
<1>9. Removed'
  BY DEF Removed, Stages, Registered, running, InstallSteps, RollbackSteps,
     UninstallSteps
<1>10. QED
  BY <1>1, <1>2, <1>3, <1>4, <1>5, <1>6, <1>7, <1>8, <1>9

\* A file is put back; the last one is.
LEMMA RestoreFileInv ==
    ASSUME IInv, (\E f \in Files : RestoreFile(f)) \/ RestoredFiles
    PROVE  IInv'
<1> USE DEF IInv, machine, RestoreFile, RestoredFiles, worldVars, rbVars,
        PutBackItem, FileLost, Locked, runVars, Fault, NoFault
<1>1. FlagsOK'
  BY Zenon DEF FlagsOK
<1>2. WorldOK'
  BY DEF WorldOK, Ver, Service, StartType, Machine, Item, Image,
         Nothing
<1>3. RunOK'
  BY BoundsAssumption DEF RunOK, Busy, InstallSteps, RollbackSteps,
     UninstallSteps
<1>4. Registered'
  BY DEF Registered, running, WorldOK
<1>5. Stages' /\ FlagsCover'
  BY DEF Stages, FlagsCover, Busy, InstallSteps, RollbackSteps, UninstallSteps,
     AfterUnpack, RbCore, ShellSteps
<1>6. Untouched'
  BY FilesAssumption DEF Untouched, Stages, FlagsCover, Forward, WorldOK, Mine,
     Item, InstallSteps, RollbackSteps, AfterUnpack, ShellSteps, RbCore
<1>7. Forward'
  BY FilesAssumption DEF Forward, Stages, WorldOK, RunOK, Registered, Mine,
     Item, AfterUnpack, AfterCred, ShellSteps, InstallSteps
<1>8. Backward'
  BY FilesAssumption DEF Backward, Untouched, FlagsCover, Stages, WorldOK,
     Mine, RollingBack, Back, Item, RollbackSteps, RbCore, RbEnd, RbServices
<1>9. Removed'
  BY DEF Removed, Stages, Registered, running, InstallSteps, RollbackSteps,
     UninstallSteps
<1>10. QED
  BY <1>1, <1>2, <1>3, <1>4, <1>5, <1>6, <1>7, <1>8, <1>9

\* Autostart value, phonebook and config are put back.
LEMMA RestoreCoreInv ==
    ASSUME IInv, RestoreAutostart \/ RestorePbk \/ RestoreConfig
    PROVE  IInv'
<1> USE DEF IInv, machine, RestoreAutostart, RestorePbk, RestoreConfig,
        RestoreItem, PutBackItem, FileLost, Locked, runVars, Fault, NoFault
<1>1. FlagsOK'
  BY Zenon DEF FlagsOK
<1>2. WorldOK'
  BY DEF WorldOK, Ver, Service, StartType, Machine, Item, Image,
         Nothing
<1>3. RunOK'
  BY BoundsAssumption DEF RunOK, Busy, InstallSteps, RollbackSteps,
     UninstallSteps
<1>4. Registered'
  BY DEF Registered, running, WorldOK
<1>5. Stages' /\ FlagsCover'
  BY DEF Stages, FlagsCover, Busy, InstallSteps, RollbackSteps, UninstallSteps,
     AfterUnpack, RbCore, ShellSteps
<1>6. Untouched'
  BY FilesAssumption DEF Untouched, Stages, FlagsCover, Forward, WorldOK, Mine,
     Item, InstallSteps, RollbackSteps, AfterUnpack, ShellSteps, RbCore
<1>7. Forward'
  BY FilesAssumption DEF Forward, Stages, WorldOK, RunOK, Registered, Mine,
     Item, AfterUnpack, AfterCred, ShellSteps, InstallSteps
<1>8. Backward'
  BY FilesAssumption DEF Backward, Untouched, FlagsCover, Stages, WorldOK,
     Mine, RollingBack, Back, Item, RollbackSteps, RbCore, RbEnd, RbServices
<1>9. Removed'
  BY DEF Removed, Stages, Registered, running, InstallSteps, RollbackSteps,
     UninstallSteps
<1>10. QED
  BY <1>1, <1>2, <1>3, <1>4, <1>5, <1>6, <1>7, <1>8, <1>9

\* Links and uninstall key are put back.
LEMMA RestoreShellInv ==
    ASSUME IInv, RestoreShortcuts \/ RestoreUninstallKey
    PROVE  IInv'
<1> USE DEF IInv, machine, RestoreShortcuts, RestoreUninstallKey, RestoreItem,
        PutBackItem, FileLost, Locked, runVars, Fault, NoFault
<1>1. FlagsOK'
  BY Zenon DEF FlagsOK
<1>2. WorldOK'
  BY DEF WorldOK, Ver, Service, StartType, Machine, Item, Image,
         Nothing
<1>3. RunOK'
  BY BoundsAssumption DEF RunOK, Busy, InstallSteps, RollbackSteps,
     UninstallSteps
<1>4. Registered'
  BY DEF Registered, running, WorldOK
<1>5. Stages' /\ FlagsCover'
  BY DEF Stages, FlagsCover, Busy, InstallSteps, RollbackSteps, UninstallSteps,
     AfterUnpack, RbCore, ShellSteps
<1>6. Untouched'
  BY FilesAssumption DEF Untouched, Stages, FlagsCover, Forward, WorldOK, Mine,
     Item, InstallSteps, RollbackSteps, AfterUnpack, ShellSteps, RbCore
<1>7. Forward'
  BY FilesAssumption DEF Forward, Stages, WorldOK, RunOK, Registered, Mine,
     Item, AfterUnpack, AfterCred, ShellSteps, InstallSteps
<1>8. Backward'
  <2>1. val' \in [Item -> Ver] /\ \A i \in Image : val'[i] = val[i]
    BY <1>2, FilesAssumption DEF WorldOK, Item, Image
  <2>2. Current' = Current
    BY <2>1 DEF Current
  <2>3. pc \in RbEnd /\ ImageBack => ImageBack'
    BY <2>2 DEF ImageBack
  <2>4. QED
    BY <2>1, <2>3, FilesAssumption
       DEF Backward, WorldOK, Mine, RollingBack, Back, HadEntry, Item, Image,
           RollbackSteps, RbCore, RbEnd, RbServices
<1>9. Removed'
  BY DEF Removed, Stages, Registered, running, InstallSteps, RollbackSteps,
     UninstallSteps
<1>10. QED
  BY <1>1, <1>2, <1>3, <1>4, <1>5, <1>6, <1>7, <1>8, <1>9

\* A new credential is cleared, an old one stored again.
LEMMA RestoreCredInv ==
    ASSUME IInv, ClearCredentials \/ RestoreCredentials
    PROVE  IInv'
<1> USE DEF IInv, machine, ClearCredentials, RestoreCredentials, HadEntry,
        runVars, Fault, NoFault
<1>1. FlagsOK'
  BY Zenon DEF FlagsOK
<1>2. WorldOK'
  BY DEF WorldOK, Ver, Service, StartType, Machine, Item, Image,
         Nothing
<1>3. RunOK'
  <2>1. faults' \in 0..MaxFaults
    <3>1. CASE ClearCredentials
      BY <3>1, BoundsAssumption DEF RunOK
    <3>2. CASE RestoreCredentials
      BY <3>2, BoundsAssumption DEF RunOK
    <3>3. QED
      BY <3>1, <3>2
  <2>2. QED
    BY <2>1 DEF RunOK, Busy, RollbackSteps
<1>4. Registered'
  BY DEF Registered, running, WorldOK
<1>5. Stages' /\ FlagsCover'
  BY DEF Stages, FlagsCover, Busy, InstallSteps, RollbackSteps, UninstallSteps,
     AfterUnpack, RbCore, ShellSteps
<1>6. Untouched'
  BY FilesAssumption DEF Untouched, Stages, FlagsCover, Forward, WorldOK, Mine,
     Item, InstallSteps, RollbackSteps, AfterUnpack, ShellSteps, RbCore
<1>7. Forward'
  BY FilesAssumption DEF Forward, Stages, WorldOK, RunOK, Registered, Mine,
     Item, AfterUnpack, AfterCred, ShellSteps, InstallSteps
<1>8. Backward'
  BY FilesAssumption DEF Backward, Untouched, FlagsCover, Stages, WorldOK,
     Mine, RollingBack, Back, Item, RollbackSteps, RbCore, RbEnd, RbServices
<1>9. Removed'
  BY DEF Removed, Stages, Registered, running, InstallSteps, RollbackSteps,
     UninstallSteps
<1>10. QED
  BY <1>1, <1>2, <1>3, <1>4, <1>5, <1>6, <1>7, <1>8, <1>9

\* The registration is put back or deleted.
LEMMA RollbackServiceInv == ASSUME IInv, RollbackService PROVE IInv'
<1> USE DEF IInv, machine, RollbackService, AfterService, running, runVars,
        Fault, NoFault
<1>1. FlagsOK'
  BY Zenon DEF FlagsOK
<1>2. WorldOK'
  BY DEF WorldOK, Ver, Service, StartType, Machine, Item, Image,
         Nothing
<1>3. RunOK'
  BY BoundsAssumption DEF RunOK, Busy, InstallSteps, RollbackSteps,
     UninstallSteps
<1>4. Registered'
  BY DEF Registered, running, WorldOK, Machine
<1>5. Stages' /\ FlagsCover'
  BY DEF Stages, FlagsCover, Busy, InstallSteps, RollbackSteps, UninstallSteps,
     AfterUnpack, RbCore, ShellSteps
<1>6. Untouched'
  BY FilesAssumption DEF Untouched, Stages, FlagsCover, Forward, WorldOK, Mine,
     Item, InstallSteps, RollbackSteps, AfterUnpack, ShellSteps, RbCore
<1>7. Forward'
  BY FilesAssumption DEF Forward, Stages, WorldOK, RunOK, Registered, Mine,
     Item, AfterUnpack, AfterCred, ShellSteps, InstallSteps
<1>8. Backward'
  BY FilesAssumption DEF Backward, Untouched, FlagsCover, Stages, WorldOK,
     Mine, RollingBack, Back, Item, RollbackSteps, RbCore, RbEnd, RbServices,
     ImageBack, HadEntry, Registered
<1>9. Removed'
  BY DEF Removed, Stages, Registered, running, InstallSteps, RollbackSteps,
     UninstallSteps
<1>10. QED
  BY <1>1, <1>2, <1>3, <1>4, <1>5, <1>6, <1>7, <1>8, <1>9

\* The old service starts again.
LEMMA StartOldInv == ASSUME IInv, StartOld PROVE IInv'
<1> USE DEF IInv, machine, StartOld, AfterService, StartOk, StartFails,
        CanStart, runVars, Fault, NoFault
<1>1. FlagsOK'
  BY Zenon DEF FlagsOK
<1>2. WorldOK'
  BY DEF WorldOK, Ver, Service, StartType, Machine, Item, Image,
         Nothing, Current
<1>3. RunOK'
  BY BoundsAssumption DEF RunOK, Busy, InstallSteps, RollbackSteps,
     UninstallSteps
<1>4. Registered'
  BY DEF Registered, running, WorldOK
<1>5. Stages' /\ FlagsCover'
  BY DEF Stages, FlagsCover, Busy, InstallSteps, RollbackSteps, UninstallSteps,
     AfterUnpack, RbCore, ShellSteps
<1>6. Untouched'
  BY FilesAssumption DEF Untouched, Stages, FlagsCover, Forward, WorldOK, Mine,
     Item, InstallSteps, RollbackSteps, AfterUnpack, ShellSteps, RbCore
<1>7. Forward'
  BY FilesAssumption DEF Forward, Stages, WorldOK, RunOK, Registered, Mine,
     Item, AfterUnpack, AfterCred, ShellSteps, InstallSteps
<1>8. Backward'
  <2>1. Current' = Current
    BY DEF Current
  <2>2. ASSUME Mine', ~failures' PROVE ImageBack' /\ Backward
    <3>1. ~failures /\ Mine /\ StartOk
      BY <2>2 DEF Mine
    <3>2. /\ image = Nothing /\ Backward
          /\ before.svc # NoService /\ before.image # Nothing
      BY <3>1 DEF Backward, RollingBack, RollbackSteps
    <3>3. image' = Current
      BY <3>1, <3>2 DEF running
    <3>4. QED
      BY <2>1, <3>2, <3>3 DEF ImageBack
  <2>3. QED
    BY <2>2
       DEF Backward, Untouched, Mine, RollingBack, Back, HadEntry,
           RollbackSteps, RbCore, RbEnd, RbServices
<1>9. Removed'
  BY DEF Removed, Stages, Registered, running, InstallSteps, RollbackSteps,
     UninstallSteps
<1>10. QED
  BY <1>1, <1>2, <1>3, <1>4, <1>5, <1>6, <1>7, <1>8, <1>9

\* A run ends with its report or is killed.
LEMMA EndInv == ASSUME IInv, Report \/ SetupKilled PROVE IInv'
<1> USE DEF IInv, machine, Report, SetupKilled, Forget, Done, worldVars
<1>1. FlagsOK'
  BY Zenon DEF FlagsOK
<1>2. WorldOK'
  BY DEF WorldOK, Ver, Service, StartType, Machine, Item, Image,
         Nothing
<1>3. RunOK'
  BY BoundsAssumption DEF RunOK, Busy, InstallSteps, RollbackSteps,
     UninstallSteps
<1>4. Registered'
  BY DEF Registered, running, WorldOK
<1>5. Stages' /\ FlagsCover'
  BY DEF Stages, FlagsCover, Busy, InstallSteps, RollbackSteps, UninstallSteps,
     AfterUnpack, RbCore, ShellSteps
<1>6. Untouched'
  BY FilesAssumption DEF Untouched, Stages, FlagsCover, Forward, WorldOK, Mine,
     Item, InstallSteps, RollbackSteps, AfterUnpack, ShellSteps, RbCore
<1>7. Forward'
  BY FilesAssumption DEF Forward, Stages, WorldOK, RunOK, Registered, Mine,
     Item, AfterUnpack, AfterCred, ShellSteps, InstallSteps
<1>8. Backward'
  BY FilesAssumption DEF Backward, Untouched, FlagsCover, Stages, WorldOK,
     Mine, RollingBack, Back, Item, RollbackSteps, RbCore, RbEnd, RbServices
<1>9. Removed'
  BY DEF Removed, Stages, Registered, running, InstallSteps, RollbackSteps,
     UninstallSteps
<1>10. QED
  BY <1>1, <1>2, <1>3, <1>4, <1>5, <1>6, <1>7, <1>8, <1>9

\* The uninstallation up to the end of the service.
LEMMA UninstallServiceInv == ASSUME IInv, UninstallStop \/ UninstallService PROVE IInv'
<1> USE DEF IInv, machine, UninstallStop, UninstallService, Onward, StopOk,
        StopFails, NotOpened, KillTray, worldVars, runVars, ProcessEnds,
        ProcessStays, Fault, NoFault
<1>1. FlagsOK'
  BY Zenon DEF FlagsOK
<1>2. WorldOK'
  BY DEF WorldOK, Ver, Service, StartType, Machine, Item, Image,
         Nothing
<1>3. RunOK'
  <2>1. faults' \in 0..MaxFaults
    <3>1. CASE UninstallStop
      BY <3>1, BoundsAssumption DEF RunOK
    <3>2. CASE UninstallService /\ doomed
      BY <3>2, BoundsAssumption DEF RunOK
    <3>3. CASE UninstallService /\ ~doomed
      BY <3>3, BoundsAssumption DEF RunOK
    <3>4. QED
      BY <3>1, <3>2, <3>3
  <2>2. QED
    BY <2>1 DEF RunOK, Busy, UninstallSteps
<1>4. Registered'
  BY DEF Registered, running, WorldOK
<1>5. Stages' /\ FlagsCover'
  BY DEF Stages, FlagsCover, Busy, InstallSteps, RollbackSteps, UninstallSteps,
     AfterUnpack, RbCore, ShellSteps
<1>6. Untouched'
  BY FilesAssumption DEF Untouched, Stages, FlagsCover, Forward, WorldOK, Mine,
     Item, InstallSteps, RollbackSteps, AfterUnpack, ShellSteps, RbCore
<1>7. Forward'
  BY FilesAssumption DEF Forward, Stages, WorldOK, RunOK, Registered, Mine,
     Item, AfterUnpack, AfterCred, ShellSteps, InstallSteps
<1>8. Backward'
  BY FilesAssumption DEF Backward, Untouched, FlagsCover, Stages, WorldOK,
     Mine, RollingBack, Back, Item, RollbackSteps, RbCore, RbEnd, RbServices
<1>9. Removed'
  BY DEF Removed, Stages, Registered, running, InstallSteps, RollbackSteps,
     UninstallSteps
<1>10. QED
  BY <1>1, <1>2, <1>3, <1>4, <1>5, <1>6, <1>7, <1>8, <1>9

\* The rest of the uninstallation.
LEMMA UninstallRestInv ==
    ASSUME IInv, UninstallRest \/ Purge \/ ScheduleRemoval
    PROVE  IInv'
<1> USE DEF IInv, machine, UninstallRest, Purge, ScheduleRemoval, Onward,
        StopOk, StopFails, NotOpened, KillTray, worldVars, runVars,
        ProcessEnds, ProcessStays, Fault, NoFault
<1>1. FlagsOK'
  BY Zenon DEF FlagsOK
<1>2. WorldOK'
  BY DEF WorldOK, Ver, Service, StartType, Machine, Item, Image,
         Nothing
<1>3. RunOK'
  <2>1. faults' \in 0..MaxFaults
    <3>1. CASE UninstallRest
      BY <3>1, BoundsAssumption DEF RunOK
    <3>2. CASE Purge
      BY <3>2, BoundsAssumption DEF RunOK
    <3>3. CASE ScheduleRemoval
      BY <3>3, BoundsAssumption DEF RunOK
    <3>4. QED
      BY <3>1, <3>2, <3>3
  <2>2. QED
    BY <2>1 DEF RunOK, Busy, UninstallSteps
<1>4. Registered'
  BY DEF Registered, running, WorldOK
<1>5. Stages' /\ FlagsCover'
  BY DEF Stages, FlagsCover, Busy, InstallSteps, RollbackSteps, UninstallSteps,
     AfterUnpack, RbCore, ShellSteps
<1>6. Untouched'
  BY FilesAssumption DEF Untouched, Stages, FlagsCover, Forward, WorldOK, Mine,
     Item, InstallSteps, RollbackSteps, AfterUnpack, ShellSteps, RbCore
<1>7. Forward'
  BY FilesAssumption DEF Forward, Stages, WorldOK, RunOK, Registered, Mine,
     Item, AfterUnpack, AfterCred, ShellSteps, InstallSteps, UninstallSteps
<1>8. Backward'
  BY FilesAssumption DEF Backward, Untouched, FlagsCover, Stages, WorldOK,
     Mine, RollingBack, Back, Item, RollbackSteps, RbCore, RbEnd, RbServices
<1>9. Removed'
  BY DEF Removed, Stages, Registered, running, InstallSteps, RollbackSteps,
     UninstallSteps
<1>10. QED
  BY <1>1, <1>2, <1>3, <1>4, <1>5, <1>6, <1>7, <1>8, <1>9

\* SCM and the delayed removal leave their mark on a run under way.
LEMMA OthersInv == ASSUME IInv, ScmRestart \/ DelayedRemoval PROVE IInv'
<1> USE DEF IInv, machine, ScmRestart, DelayedRemoval, CanStart, runVars,
        rbVars
<1>1. FlagsOK'
  BY Zenon DEF FlagsOK
<1>2. WorldOK'
  BY DEF WorldOK, Ver, Service, StartType, Machine, Item, Image,
         Nothing, Current
<1>3. RunOK'
  BY BoundsAssumption DEF RunOK, Busy, InstallSteps, RollbackSteps,
     UninstallSteps
<1>4. Registered'
  BY DEF Registered, running, WorldOK
<1>5. Stages' /\ FlagsCover'
  BY DEF Stages, FlagsCover, Busy, InstallSteps, RollbackSteps, UninstallSteps,
     AfterUnpack, RbCore, ShellSteps
<1>6. Untouched'
  BY FilesAssumption DEF Untouched, Stages, FlagsCover, Forward, WorldOK, Mine,
     Item, InstallSteps, RollbackSteps, AfterUnpack, ShellSteps, RbCore, Busy
<1>7. Forward'
  BY FilesAssumption DEF Forward, Stages, WorldOK, RunOK, Registered, Mine,
     Item, AfterUnpack, AfterCred, ShellSteps, InstallSteps, Busy
<1>8. Backward'
  BY FilesAssumption DEF Backward, Untouched, FlagsCover, Stages, WorldOK,
     Mine, RollingBack, Back, Item, RollbackSteps, RbCore, RbEnd, RbServices,
     Busy
<1>9. Removed'
  BY DEF Removed, Stages, Registered, running, InstallSteps, RollbackSteps,
     UninstallSteps, Busy
<1>10. QED
  BY <1>1, <1>2, <1>3, <1>4, <1>5, <1>6, <1>7, <1>8, <1>9

\* Nothing happens.
LEMMA StutterInv == ASSUME IInv, UNCHANGED vars PROVE IInv'
<1> USE DEF IInv, vars, worldVars, runVars, rbVars
<1>1. /\ FlagsOK' /\ WorldOK' /\ RunOK' /\ Registered' /\ Stages'
      /\ FlagsCover'
  <2>1. FlagsOK' /\ WorldOK' /\ RunOK'
    BY Zenon DEF FlagsOK, WorldOK, RunOK
  <2>2. Registered' /\ Stages' /\ FlagsCover'
    BY DEF Registered, running, Stages, FlagsCover
  <2>3. QED
    BY <2>1, <2>2
<1>2. Untouched' /\ Removed'
  BY Zenon DEF Untouched, Mine, Removed, running
<1>3. Forward'
  BY Zenon DEF Forward, Mine, machine
<1>4. Backward'
  BY Zenon DEF Backward, Mine, RollingBack, Back, HadEntry, ImageBack, Current
<1>5. QED
  BY <1>1, <1>2, <1>3, <1>4

-----------------------------------------------------------------------------
\* The initial states: nothing installed, an orphaned phonebook, or an older
\* version in one of its states.
LEMMA InitInv == ASSUME Init PROVE IInv
<1> USE DEF Init, Fresh, Orphan, Older
<1>1. FlagsOK
  BY Zenon DEF FlagsOK
<1>2. WorldOK
  <2>1. Nothing \in [Image -> Ver]
    BY DEF Nothing, Ver
  <2>2. val \in [Item -> Ver] /\ cred \in Ver
    BY DEF Ver, Item
  <2>3. svc \in Service
    BY DEF Service, StartType, NoService
  <2>4. image \in [Image -> Ver]
    <3>1. Current \in [Image -> Ver]
      BY <2>2 DEF Current, Image, Item
    <3>2. QED
      BY <2>1, <3>1
  <2>5. before \in Machine
    BY <2>2, <2>3, <2>4 DEF machine, Machine
  <2>6. QED
    BY <2>2, <2>3, <2>4, <2>5 DEF WorldOK
<1>3. RunOK
  BY BoundsAssumption DEF RunOK
<1>4. Registered
  <2>1. CASE Older
    <3>1. svc.cmd = "old" /\ NoService.cmd = "none"
      BY <2>1 DEF NoService
    <3>2. QED
      BY <3>1 DEF Registered
  <2>2. CASE Fresh \/ Orphan
    BY <2>2 DEF Registered, running
  <2>3. QED
    BY <2>1, <2>2
<1>5. Stages /\ FlagsCover /\ Untouched /\ Forward /\ Backward /\ Removed
  BY DEF Stages, FlagsCover, Untouched, Forward, Backward, Removed, RollingBack,
         Busy, InstallSteps, RollbackSteps, UninstallSteps, AfterUnpack,
         AfterCred, ShellSteps, RbCore
<1>6. QED
  BY <1>1, <1>2, <1>3, <1>4, <1>5 DEF IInv

\* Every reachable state of the setup program satisfies the inductive
\* invariant.
THEOREM SetupInvariance == Spec => []IInv
<1>1. Init => IInv
  BY InitInv
<1>2. IInv /\ [Next]_vars => IInv'
  BY BeginInv, PrepareInv, StopOldInv, UnpackInv, WriteConfigInv,
     EnsureEntryInv, ShellWriteInv, RegisterInv, StartNewInv,
     StopForRollbackInv, RestoreFileInv, RestoreCoreInv, RestoreShellInv,
     RestoreCredInv, RollbackServiceInv, StartOldInv, EndInv,
     UninstallServiceInv, UninstallRestInv, OthersInv, StutterInv
     DEF Next, Step
<1>3. QED
  BY <1>1, <1>2, PTL DEF Spec

\* Types, and every run that is over has said how it ended, for every payload
\* and any number of faults and runs.
THEOREM SetupTypes == Spec => []TypeOK
<1>1. IInv => TypeOK
  <2> SUFFICES ASSUME IInv PROVE TypeOK
    OBVIOUS
  <2>1. machine \in Machine
    BY DEF IInv, WorldOK, machine, Machine
  <2>2. QED
    BY <2>1, Zenon DEF IInv, FlagsOK, WorldOK, RunOK, Stages, TypeOK
<1>2. QED
  BY <1>1, SetupInvariance, PTL

\* A machine that agrees with the backup part by part has been put back.
LEMMA PutBackParts ==
    ASSUME IInv, Mine, ~failures, pc = "report", outcome = "none"
    PROVE  PutBack(before, machine)
<1>1. /\ \A f \in Files : Back(f)
      /\ Back("autostart") /\ Back("pbk") /\ Back("config") /\ Back("links")
      /\ Back("key") /\ svc = before.svc /\ ImageBack
      /\ HadEntry => cred \in {before.cred, before.val["config"]}
  BY DEF IInv, Backward, RollingBack, RbServices, RbEnd
<1>2. val = before.val
  <2>1. val \in [Item -> Ver] /\ before.val \in [Item -> Ver]
    BY DEF IInv, WorldOK, Machine
  <2>2. \A i \in Item : val[i] = before.val[i]
    BY <1>1 DEF Item, Back
  <2>3. QED
    BY <2>1, <2>2
<1>3. QED
  BY <1>1, <1>2 DEF PutBack, machine, HadEntry, ImageBack, Current

\* The inductive invariant settles every report.
LEMMA ReportIsHonest == IInv => HonestReport
<1> SUFFICES ASSUME IInv, pc = "report", ~meddled
             PROVE  IF kind = "install"
                    THEN /\ Done = "refused"  => machine = before
                         /\ Done = "ok"       => Installed(machine)
                         /\ Done = "Restored" => PutBack(before, machine)
                    ELSE outcome = "ok" => svc = NoService /\ ~running
  BY DEF HonestReport
<1>1. outcome \in {"none", "ok", "err", "refused"}
  BY DEF IInv, Stages
<1>2. CASE kind = "install"
  <2>1. Mine
    BY <1>2 DEF Mine
  <2>2. Done = "refused" => machine = before
    BY <1>1, <2>1 DEF Done, IInv, Forward
  <2>3. Done = "ok" => Installed(machine)
    BY <1>1, <2>1 DEF Done, IInv, Forward
  <2>4. Done = "Restored" => PutBack(before, machine)
    BY <1>1, <2>1, PutBackParts DEF Done
  <2>5. QED
    BY <1>2, <2>2, <2>3, <2>4
<1>3. CASE kind # "install"
  BY <1>3 DEF IInv, Removed, RunOK
<1>4. QED
  BY <1>2, <1>3

\* However many calls fail, a run that nobody interfered with reports what is
\* true of the machine.
THEOREM ReportsAreHonest == Spec => []HonestReport
BY ReportIsHonest, SetupInvariance, PTL

-----------------------------------------------------------------------------
(***************************************************************************)
(* The refinement                                                          *)
(***************************************************************************)
\* What the contract sees of a run, by where the setup program stands.
LEMMA PhaseOf ==
    ASSUME RunOK
    PROVE  /\ kind # "install" \/ pc = "idle" => phase = "idle"
           /\ kind = "install" /\ pc \in Busy => phase = "busy"
           /\ kind = "install" /\ pc = "done" => phase \in Contract!Ended
           /\ phase = "busy" => kind = "install" /\ pc \in Busy
BY DEF RunOK, phase, Contract!Ended, Busy, InstallSteps, RollbackSteps,
       UninstallSteps

\* The same after a step, with the report's words.
LEMMA PhaseNext ==
    ASSUME RunOK'
    PROVE  /\ kind' # "install" \/ pc' = "idle" => phase' = "idle"
           /\ kind' = "install" /\ pc' \in Busy => phase' = "busy"
           /\ kind' = "install" /\ pc' = "done" =>
                /\ outcome' = "ok" => phase' = "committed"
                /\ outcome' = "refused" => phase' = "refused"
                /\ outcome' = "Restored" => phase' = "rolled_back"
                /\ outcome' \notin {"ok", "refused", "Restored"} => phase' = "failed"
BY DEF RunOK, phase, Busy, InstallSteps, RollbackSteps, UninstallSteps

\* Every step between the first and the report keeps the run, its backups and
\* what was seen of others.
LEMMA StepKeepsRun ==
    ASSUME RunOK, Step, ~Report
    PROVE  /\ pc \in Busy /\ pc' # "idle" /\ pc' # "done" /\ kind' = kind
           /\ before' = before /\ (meddled => meddled')
<1> USE DEF Busy, InstallSteps, RollbackSteps, UninstallSteps, runVars
<1>1. CASE Prepare \/ StopOld \/ Unpacked \/ (\E f \in Files : Unpack(f))
  BY <1>1 DEF Prepare, StopOld, Unpack, Unpacked, ToRollback
<1>2. CASE \/ \E keep \in BOOLEAN : WriteConfig(keep)
           \/ EnsureEntry \/ RegisterAutostart \/ CreateShortcuts
           \/ WriteUninstallKey
  BY <1>2 DEF WriteConfig, EnsureEntry, RegisterAutostart, CreateShortcuts,
              WriteUninstallKey, WriteItem, ToRollback
<1>3. CASE SetCredentials \/ CreateService \/ StartNew \/ StopForRollback
  BY <1>3 DEF SetCredentials, CreateService, StartNew, StopForRollback,
              ToRollback
<1>4. CASE \/ \E f \in Files : RestoreFile(f)
           \/ RestoreAutostart \/ RestorePbk \/ RestoreConfig
           \/ RestoreShortcuts \/ RestoreUninstallKey
  BY <1>4 DEF RestoreFile, RestoreAutostart, RestorePbk, RestoreConfig,
              RestoreShortcuts, RestoreUninstallKey, RestoreItem, PutBackItem
<1>5. CASE \/ RestoredFiles \/ ClearCredentials \/ RestoreCredentials
           \/ RollbackService \/ StartOld
  BY <1>5 DEF RestoredFiles, ClearCredentials, RestoreCredentials,
              RollbackService, StartOld, AfterService
<1>6. CASE \/ UninstallStop \/ UninstallService \/ UninstallRest \/ Purge
           \/ ScheduleRemoval
  BY <1>6 DEF UninstallStop, UninstallService, UninstallRest, Purge,
              ScheduleRemoval, Onward
<1>7. QED
  BY <1>1, <1>2, <1>3, <1>4, <1>5, <1>6 DEF Step

\* Every step of the setup program, of SCM and of the delayed removal is a step
\* of the contract or leaves what it speaks of unchanged.
LEMMA StepRefines ==
    ASSUME IInv, IInv', [Next]_vars
    PROVE  [Contract!Next]_(Contract!cvars)
<1> USE PhaseOf, PhaseNext DEF Contract!Next, IInv
<1>1. CASE Begin
  <2>1. kind' = "install" /\ pc' \in Busy
    BY <1>1 DEF Begin, BeginRun, Busy, InstallSteps
  <2>2. phase \in {"idle"} \cup Contract!Ended
    BY <1>1 DEF Begin, BeginRun, RunOK
  <2>3. before' = machine /\ machine' = machine /\ meddled' = FALSE
    BY <1>1 DEF Begin, BeginRun, machine, worldVars
  <2>4. QED
    BY <2>1, <2>2, <2>3 DEF Contract!Begin
<1>2. CASE BeginUninstall
  <2>1. kind' = "uninstall" /\ pc \in {"idle", "done"}
    BY <1>2 DEF BeginUninstall, BeginRun
  <2>2. phase' = "idle" /\ phase \in {"idle"} \cup Contract!Ended
    BY <2>1 DEF RunOK
  <2>3. QED
    BY <2>2 DEF Contract!Outside, Contract!Leave
<1>3. CASE Step /\ ~Report
  <2>1. /\ pc \in Busy /\ pc' \in Busy /\ kind' = kind /\ before' = before
        /\ meddled => meddled'
    BY <1>3, StepKeepsRun DEF RunOK
  <2>2. CASE kind = "install"
    BY <2>1, <2>2 DEF Contract!Work
  <2>3. CASE kind # "install"
    BY <2>1, <2>3 DEF Contract!Outside
  <2>4. QED
    BY <2>2, <2>3
<1>4. CASE Report
  <2>1. /\ pc = "report" /\ pc' = "done" /\ kind' = kind
        /\ outcome' = Done /\ UNCHANGED <<machine, meddled>>
    BY <1>4 DEF Report, machine, worldVars
  <2>2. CASE kind # "install"
    BY <2>1, <2>2 DEF Contract!Outside
  <2>3. CASE kind = "install"
    <3>1. phase = "busy"
      BY <2>1, <2>3 DEF Busy
    <3>2. HonestReport
      BY ReportIsHonest
    <3>3. CASE Done = "ok"
      BY <2>1, <2>3, <3>1, <3>2, <3>3
         DEF HonestReport, Contract!Commit, Contract!End
    <3>4. CASE Done = "refused"
      BY <2>1, <2>3, <3>1, <3>2, <3>4
         DEF HonestReport, Contract!Refuse, Contract!End
    <3>5. CASE Done = "Restored"
      BY <2>1, <2>3, <3>1, <3>2, <3>5
         DEF HonestReport, Contract!RollBack, Contract!End
    <3>6. CASE Done \notin {"ok", "refused", "Restored"}
      BY <2>1, <2>3, <3>1, <3>6 DEF Contract!Fail, Contract!End
    <3>7. QED
      BY <3>3, <3>4, <3>5, <3>6
  <2>4. QED
    BY <2>2, <2>3
<1>5. CASE SetupKilled
  <2>1. pc \in Busy /\ pc' = "idle" /\ kind' = kind
    BY <1>5 DEF SetupKilled
  <2>2. CASE kind = "install"
    BY <2>1, <2>2 DEF Contract!Killed
  <2>3. CASE kind # "install"
    BY <2>1, <2>3 DEF Contract!Outside
  <2>4. QED
    BY <2>2, <2>3
<1>6. CASE ScmRestart \/ DelayedRemoval
  <2>1. UNCHANGED <<pc, kind, outcome, before>>
    BY <1>6 DEF ScmRestart, DelayedRemoval, rbVars
  <2>2. meddled => meddled'
    BY <1>6, Zenon DEF ScmRestart, DelayedRemoval
  <2>3. phase' = phase
    BY <2>1 DEF phase
  <2>4. CASE phase = "busy"
    BY <2>1, <2>2, <2>3, <2>4 DEF Contract!Work
  <2>5. CASE phase # "busy"
    <3>1. phase \in {"idle"} \cup Contract!Ended
      BY <2>5 DEF RunOK
    <3>2. QED
      BY <2>3, <3>1 DEF Contract!Outside
  <2>6. QED
    BY <2>4, <2>5
<1>7. CASE UNCHANGED vars
  BY <1>7 DEF vars, worldVars, runVars, rbVars, Contract!cvars, phase, machine
<1>8. QED
  BY <1>1, <1>2, <1>3, <1>4, <1>5, <1>6, <1>7 DEF Next

\* The installation implements the contract: one transaction, through every
\* failing call, a kill, SCM's restart and the delayed removal.
THEOREM SetupIsTransaction == Spec => IsTransaction
<1>1. Init => Contract!Init
  BY DEF Init, Contract!Init, phase
<1>2. IInv /\ IInv' /\ [Next]_vars => [Contract!Next]_(Contract!cvars)
  BY StepRefines
<1>3. QED
  BY <1>1, <1>2, SetupInvariance, PTL DEF Spec, IsTransaction, Contract!Spec
=============================================================================
